------------------------------ MODULE Reactions ------------------------------
(***************************************************************************)
(* The reaction queue (src/src/monitor/reactions.ts).  The ingress loop      *)
(* decides a reaction where it decides a message; the lookup of the          *)
(* reacted-to message and the line for core run beside the loop, one         *)
(* reaction at a time.  The account stops at any time.                       *)
(*                                                                         *)
(* Reactions are numbered in the order the host streams them (ev.seq).       *)
(***************************************************************************)
EXTENDS Integers, Sequences

CONSTANTS
  MaxSeq,      \* bound: reactions the host streams
  MaxPending   \* MAX_PENDING_REACTIONS

ASSUME MaxSeqAssumption     == MaxSeq \in Nat
ASSUME MaxPendingAssumption == MaxPending \in Nat

Seqs  == 1 .. MaxSeq
Fates == {"none", "off", "self", "access", "backlog", "not_own", "lookup_failed",
          "stopped", "failed", "line"}

VARIABLES
  mode,      \* reactionNotifications
  stopped,
  next,      \* the next reaction of the stream
  pc,        \* the loop: "next", or "gate" while it awaits gateSender
  queue,     \* the tail: admitted reactions, the first one in delivery
  stage,     \* of the first: "queued", "asked" (getMessage pending), "settled"
  pending,
  line,      \* the reaction whose line core got last
  fate       \* history: what became of each reaction

loopVars == <<next, pc>>
vars == <<mode, stopped, loopVars, queue, stage, pending, line, fate>>

TypeOK ==
  /\ mode \in {"off", "own", "all"}
  /\ stopped \in {"no", "yes"}
  /\ next \in 1 .. MaxSeq + 1
  /\ pc \in {"next", "gate"}
  /\ pc = "gate" => next > 1
  /\ queue \in Seq(Seqs)
  /\ stage \in {"queued", "asked", "settled"}
  /\ pending \in Nat
  /\ line \in 0 .. MaxSeq
  /\ fate \in [Seqs -> Fates]

Init ==
  /\ mode \in {"off", "own", "all"}
  /\ stopped = "no"
  /\ next = 1 /\ pc = "next"
  /\ queue = <<>> /\ stage = "queued" /\ pending = 0
  /\ line = 0
  /\ fate = [s \in Seqs |-> "none"]

Ends(s, f) == fate' = [fate EXCEPT ![s] = f]

-----------------------------------------------------------------------------
(* In the loop.                                                            *)

Current == next - 1   \* the reaction the loop is deciding

\* admit, up to the gate: mode and own echo.
Take ==
  /\ pc = "next"
  /\ stopped = "no"
  /\ next <= MaxSeq
  /\ next' = next + 1
  /\ IF mode = "off"
       THEN Ends(next, "off") /\ UNCHANGED pc
       ELSE \/ Ends(next, "self") /\ UNCHANGED pc
            \/ pc' = "gate" /\ UNCHANGED fate
  /\ UNCHANGED <<mode, stopped, queue, stage, pending, line>>

\* The gate denied, or threw: the loop goes on either way.
Refuse ==
  /\ pc = "gate"
  /\ pc' = "next"
  /\ \E f \in {"access", "failed"} : Ends(Current, f)
  /\ UNCHANGED <<mode, stopped, next, queue, stage, pending, line>>

\* Mutant of Admit: the newest goes first.
AdmitInFront ==
  /\ pc = "gate"
  /\ pc' = "next"
  /\ IF pending >= MaxPending
       THEN Ends(Current, "backlog") /\ UNCHANGED <<queue, pending>>
       ELSE /\ pending' = pending + 1
            /\ queue' = <<Current>> \o queue
            /\ UNCHANGED fate
  /\ UNCHANGED <<mode, stopped, next, stage, line>>

\* The gate allowed: the reaction joins the tail, unless it is full.
Admit ==
  /\ pc = "gate"
  /\ pc' = "next"
  /\ IF pending >= MaxPending
       THEN Ends(Current, "backlog") /\ UNCHANGED <<queue, pending>>
       ELSE /\ pending' = pending + 1
            /\ queue' = Append(queue, Current)
            /\ UNCHANGED fate
  /\ UNCHANGED <<mode, stopped, next, stage, line>>

-----------------------------------------------------------------------------
(* Beside the loop.                                                        *)

\* deliver: asks for the reacted-to message.
LookUp ==
  /\ queue # <<>>
  /\ stage = "queued"
  /\ stage' = "asked"
  /\ UNCHANGED <<mode, stopped, loopVars, queue, pending, line, fate>>

\* What deliver does once the lookup settled: the target is the agent's message, a
\* message of somebody else, or nothing when the lookup was rejected.
SkipReason(target) ==
  CASE stopped = "yes"                          -> "stopped"
    [] stopped = "no" /\ mode = "own" /\ target = "nothing" -> "lookup_failed"
    [] stopped = "no" /\ mode = "own" /\ target = "other"   -> "not_own"
    [] OTHER                                    -> "none"

\* The lookup settles; core takes the line, or throws.
Deliver ==
  /\ queue # <<>>
  /\ stage = "asked"
  /\ stage' = "settled"
  /\ \E target \in {"own", "other", "nothing"} :
       IF SkipReason(target) # "none"
         THEN Ends(Head(queue), SkipReason(target)) /\ UNCHANGED line
         ELSE \/ Ends(Head(queue), "line") /\ line' = Head(queue)
              \/ Ends(Head(queue), "failed") /\ UNCHANGED line
  /\ UNCHANGED <<mode, stopped, loopVars, queue, pending>>

\* Mutant of Release: a failed delivery breaks the chain.
ReleaseDelivered ==
  /\ queue # <<>>
  /\ stage = "settled"
  /\ fate[Head(queue)] # "failed"
  /\ pending' = pending - 1
  /\ queue' = Tail(queue)
  /\ stage' = "queued"
  /\ UNCHANGED <<mode, stopped, loopVars, line, fate>>

\* finally: the next one may begin.
Release ==
  /\ queue # <<>>
  /\ stage = "settled"
  /\ pending' = pending - 1
  /\ queue' = Tail(queue)
  /\ stage' = "queued"
  /\ UNCHANGED <<mode, stopped, loopVars, line, fate>>

Stop ==
  /\ stopped = "no"
  /\ stopped' = "yes"
  /\ UNCHANGED <<mode, loopVars, queue, stage, pending, line, fate>>

-----------------------------------------------------------------------------
Loop    == Take \/ Refuse \/ Admit
Beside  == LookUp \/ Deliver \/ Release
Next    == Loop \/ Beside \/ Stop

Spec == Init /\ [][Next]_vars

\* Fairness: the loop runs, the gate answers or throws, and so does the chain of
\* deliveries; but a lookup need not settle.
FairSpec == Spec /\ WF_vars(Loop) /\ WF_vars(LookUp) /\ WF_vars(Release)

-----------------------------------------------------------------------------
(* Properties.                                                             *)

\* "At most 20 admitted reactions are undelivered", whatever is skipped, fails or
\* settles late: the counter and the tail never part.
PendingBounded == pending = Len(queue) /\ pending <= MaxPending

\* "Order among reactions is kept": core gets the lines in the order of the stream.
LinesInOrder == [][line' # line => line' > line]_vars

\* "After the account stops nothing is queued": no line after stop, though the loop
\* may still be in the gate and a lookup may still be answered.
NoLineAfterStop == [][stopped = "yes" => line' = line]_vars

\* A reaction is dealt with once: none gets a line after it was skipped, or two.
FateSealed == [][\A s \in Seqs : fate[s] # "none" => fate'[s] = fate[s]]_vars

\* A host slow to answer lookups never holds the loop.
LoopGoesOn == <>(next > MaxSeq \/ stopped = "yes")

\* If no lookup is pending for ever, every reaction the loop took gets its line or a
\* reason not to.
NoneForgotten ==
  []<>(stage # "asked") => \A s \in Seqs : next > s ~> fate[s] # "none"

\* Reactions wait for lookups, the loop for neither, and none is lost on the way.
NothingHeldUp == LoopGoesOn /\ NoneForgotten
=============================================================================
