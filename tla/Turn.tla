-------------------------------- MODULE Turn --------------------------------
(***************************************************************************)
(* What the ingress loop may rely on about the turn it waits for, without    *)
(* saying how a tracker keeps it (src/src/monitor/adoption.ts): a turn is    *)
(* decided once; it is adopted only with a watermark that covers its        *)
(* message; and after one that failed the loop begins no other (rule R3 of   *)
(* ingress.ts).                                                            *)
(*                                                                         *)
(* Adoption implements it with one tracker, from the dispatch on; Ingress   *)
(* with the trackers of each lease, one after the other.                    *)
(***************************************************************************)
VARIABLES
  stage,   \* of the turn the loop waits for; "idle": it waits for none
  covered  \* the watermark covers the message of that turn

turnVars == <<stage, covered>>

Undecided == {"pending", "deferred"}

Init == stage \in {"idle", "pending"} /\ covered = FALSE

\* A loop of an older lease may have adopted the message meanwhile.
Begin ==
  /\ stage = "idle" /\ stage' = "pending"
  /\ covered' \in BOOLEAN

Defer ==
  /\ stage = "pending" /\ stage' = "deferred"
  /\ UNCHANGED covered

Adopt ==
  /\ stage \in Undecided /\ stage' = "adopted"
  /\ covered' = TRUE

Fail ==
  /\ stage \in Undecided /\ stage' = "failed"
  /\ UNCHANGED covered

\* The older lease's commit, while this one waits for its own turn.
AdoptedElsewhere ==
  /\ stage # "idle" /\ ~covered
  /\ covered' = TRUE
  /\ UNCHANGED stage

\* An adopted turn is acked.
Release ==
  /\ stage = "adopted" /\ stage' = "idle"
  /\ covered' = FALSE

\* The loop ends: it halts after a failed turn, is stopped between two turns, its ack
\* throws, or the process dies.
Halt ==
  /\ stage # "halted" /\ stage' = "halted"
  /\ covered' = FALSE

Next == Begin \/ Defer \/ Adopt \/ Fail \/ AdoptedElsewhere \/ Release \/ Halt

Spec == Init /\ [][Next]_turnVars
=============================================================================
