------------------------------- MODULE Account -------------------------------
(***************************************************************************)
(* The life of one account (src/src/monitor/index.ts): attach, open the      *)
(* session, run until something ends it, clean up under one deadline, wait   *)
(* when nothing listens.  The gateway aborts it at any time and runs it      *)
(* again when it rejects.  The attachment is that of the runtime role        *)
(* (monitor/attach.ts); session and ingress appear as what they report.      *)
(***************************************************************************)
EXTENDS Integers

CONSTANTS
  Paths,           \* session sockets the device host may listen on
  Own,             \* the one the identity names: identity.raw.sessionSocket
  Nowhere,         \* it listens on none
  StopDeadline,    \* STOP_DEADLINE_MS, in ticks
  ReleaseTail,     \* RELEASE_TAIL_MS
  DrainCap,        \* DRAIN_CAP_MS
  ReprobeAfter     \* REPROBE_AFTER_ATTEMPTS

ASSUME PathsAssumption  == Own \in Paths /\ Nowhere \notin Paths
ASSUME BudgetAssumption ==
  /\ StopDeadline \in Nat
  /\ ReleaseTail \in 0 .. StopDeadline
  /\ DrainCap \in Nat
ASSUME ReprobeAssumption == ReprobeAfter \in Nat \ {0}

VARIABLES
  \* the gateway and the device host (external)
  signal,      \* ctx.abortSignal: "clear" or "aborted"
  host,        \* the path the host listens on
  client,      \* "none", "seated", "lost", "retrying"; "closed" by us, "dead" after
               \* a terminal error of its own
  attempt,     \* info.attempt, modulo ReprobeAfter
  \* the session and the ingress loop
  barrier,     \* "open"; "outage" from the first retry, "warming" from the reconnect
  parked,      \* "yes": the loop holds an event and waits for the barrier
  \* the account
  phase,
  path,        \* lease.info.sessionSocketPath
  outcome,     \* of the lease; "none" without one
  status,      \* lifecycle of the last status patch
  reprobing,   \* "no", "yes"
  probe,       \* what the re-resolution in flight has read
  exceeded,    \* retriesExceeded was called
  since,       \* ticks since the deadline was set
  budget,      \* ticks left of the cleanup step
  \* history
  probes,      \* re-resolutions in flight
  spent        \* ticks since the cleanup began

hostVars  == <<signal, host>>
loopVars  == <<barrier, parked>>
linkVars  == <<client, attempt, loopVars>>
probeVars == <<reprobing, probe, exceeded, probes>>
clockVars == <<since, budget, spent>>
vars == <<hostVars, linkVars, probeVars, clockVars, phase, path, outcome, status>>

Phases == {"idle", "attaching", "opening", "running", "draining", "closing", "releasing",
           "waiting", "returned", "thrown"}
Outcomes == {"none", "aborted", "blocked", "restart", "absent"}
Cleaning == phase \in {"draining", "closing", "releasing"}
Over     == phase \in {"idle", "returned", "thrown"}

TypeOK ==
  /\ signal \in {"clear", "aborted"}
  /\ host \in Paths \cup {Nowhere}
  /\ client \in {"none", "seated", "lost", "retrying", "closed", "dead"}
  /\ attempt \in 0 .. ReprobeAfter - 1
  /\ barrier \in {"open", "outage", "warming"}
  /\ parked \in {"no", "yes"}
  /\ phase \in Phases
  /\ path \in Paths
  /\ outcome \in Outcomes
  /\ status \in {"starting", "ready", "recovering", "blocked", "stopped"}
  /\ reprobing \in {"no", "yes"}
  /\ probe \in Paths \cup {"unread"}
  /\ exceeded \in {"no", "yes"}
  /\ since \in Nat
  /\ budget \in Nat
  /\ probes \in Int
  /\ spent \in Nat

Smaller(a, b) == IF a < b THEN a ELSE b
Larger(a, b)  == IF a > b THEN a ELSE b

\* setStatus, as far as its lifecycle goes.
Patch(lifecycle) == status' = lifecycle

Init ==
  /\ signal = "clear"
  /\ host \in Paths \cup {Nowhere}
  /\ client = "none" /\ attempt = 0
  /\ barrier = "open" /\ parked = "no"
  /\ status = "stopped"
  /\ phase = "idle"
  /\ path = Own
  /\ outcome = "none"
  /\ reprobing = "no" /\ probe = "unread" /\ exceeded = "no" /\ probes = 0
  /\ since = 0 /\ budget = 0 /\ spent = 0

-----------------------------------------------------------------------------
(* The gateway and the device host (external).                             *)

Abort ==
  /\ signal = "clear"
  /\ ~Over
  /\ signal' = "aborted"
  /\ UNCHANGED <<host, linkVars, probeVars, clockVars, phase, path,
                 outcome, status>>

\* The host goes, or comes up on a path of its choice.
HostMoves(p) ==
  /\ host # p
  /\ Nowhere \in {host, p}
  /\ host' = p
  /\ client' = IF client = "seated" THEN "lost" ELSE client
  /\ UNCHANGED <<signal, attempt, loopVars, probeVars, clockVars, phase, path, outcome,
                 status>>

Drop ==
  /\ client = "seated"
  /\ client' = "lost"
  /\ UNCHANGED <<hostVars, attempt, loopVars, probeVars, clockVars, phase, path, outcome,
                 status>>

\* Token revoked, displaced, rejected: the client gives up.  The iterator tells the
\* loop of it, and the rejected requests a warm-up; nothing else does.
Terminal ==
  /\ client \in {"seated", "lost", "retrying"}
  /\ client' = "dead"
  /\ UNCHANGED <<hostVars, attempt, loopVars, probeVars, clockVars, phase, path, outcome,
                 status>>

\* "reconnected": the session warms up behind its barrier.
Reconnected ==
  /\ client = "retrying"
  /\ host = path
  /\ client' = "seated"
  /\ barrier' = "warming"
  /\ UNCHANGED <<hostVars, attempt, parked, probeVars, clockVars, phase, path, outcome,
                 status>>

-----------------------------------------------------------------------------
(* What the session reports.                                               *)

\* The re-resolution begins at every ReprobeAfter-th attempt.
Reprobe(free) ==
  IF attempt' = 0 /\ free
    THEN /\ reprobing' = "yes"
         /\ probe' = "unread"
         /\ probes' = probes + 1
         /\ UNCHANGED exceeded
    ELSE UNCHANGED probeVars

Retrying ==
  /\ client \in {"lost", "retrying"}
  /\ client' = "retrying"
  /\ attempt' = (IF client = "lost" THEN 1 ELSE attempt + 1) % ReprobeAfter
  /\ barrier' = "outage"
  /\ Patch("recovering")
  /\ UNCHANGED <<hostVars, parked, clockVars, phase, path, outcome>>

\* Mutant of OnRetry: a re-resolution in flight does not suppress the next one.
OnRetryOverlapping == Retrying /\ Reprobe(TRUE)

\* Mutant of OnRetry: the status stays what it was.
OnRetrySilent ==
  /\ client \in {"lost", "retrying"}
  /\ client' = "retrying"
  /\ attempt' = (IF client = "lost" THEN 1 ELSE attempt + 1) % ReprobeAfter
  /\ barrier' = "outage"
  /\ Reprobe(reprobing = "no")
  /\ UNCHANGED <<hostVars, parked, clockVars, phase, path, outcome, status>>

\* onRetry: the barrier, the status, and a re-resolution, never two at once.
OnRetry == Retrying /\ Reprobe(reprobing = "no")

\* onReconnected: the warm-up succeeded, the barrier opens.  The connection its last
\* answer came on may be lost again by then.
OnReconnected ==
  /\ barrier = "warming"
  /\ client \notin {"none", "closed"}
  /\ barrier' = "open"
  /\ parked' = "no"
  /\ Patch("ready")
  /\ UNCHANGED <<hostVars, client, attempt, probeVars, clockVars, phase, path, outcome>>

\* resolveSessionSocket asks the host where it listens; without an answer it
\* takes the path the identity names.
ProbeReads ==
  /\ reprobing = "yes"
  /\ probe = "unread"
  /\ probe' = IF host = Nowhere THEN Own ELSE host
  /\ UNCHANGED <<hostVars, linkVars, reprobing, exceeded, probes, clockVars, phase, path, outcome, status>>

\* The re-resolution settles: another path ends the lease.
ProbeAnswers ==
  /\ reprobing = "yes"
  /\ probe # "unread"
  /\ exceeded' = IF probe # path THEN "yes" ELSE exceeded
  /\ reprobing' = "no"
  /\ probes' = probes - 1
  /\ UNCHANGED <<hostVars, linkVars, probe, clockVars, phase, path, outcome,
                 status>>

\* resolveSessionSocket rejects on abort only.
ProbeAborted ==
  /\ reprobing = "yes"
  /\ signal = "aborted"
  /\ reprobing' = "no"
  /\ probes' = probes - 1
  /\ UNCHANGED <<hostVars, linkVars, probe, exceeded, clockVars, phase, path,
                 outcome, status>>

\* Mutant of WarmupFails: the client is closed, the barrier not rejected.
WarmupFailsSilently ==
  /\ barrier = "warming"
  /\ client \notin {"none", "closed"}
  /\ client' = "closed"
  /\ UNCHANGED <<hostVars, attempt, loopVars, probeVars, clockVars, phase, path, outcome,
                 status>>

\* The warm-up failed: the session rejects the barrier, which wakes a parked loop, and
\* closes its client, which ends the stream of any other.
WarmupFails ==
  /\ barrier = "warming"
  /\ client \notin {"none", "closed"}
  /\ barrier' = "open"
  /\ parked' = "no"
  /\ client' = "closed"
  /\ UNCHANGED <<hostVars, attempt, probeVars, clockVars, phase, path, outcome,
                 status>>

\* The ingress loop takes an event behind the closed barrier.
Park ==
  /\ phase = "running"
  /\ barrier # "open"
  /\ parked = "no"
  /\ parked' = "yes"
  /\ UNCHANGED <<hostVars, client, attempt, barrier, probeVars, clockVars, phase, path,
                 outcome, status>>

-----------------------------------------------------------------------------
(* startAccount and runWithLease.                                          *)

\* The gateway runs the account: for the first time, or because it rejected.
\* The preflight may refuse (disabled, not configured, unsupported).
StartAccount ==
  /\ phase \in {"idle", "thrown"}
  /\ signal = "clear"
  /\ outcome' = "none"
  /\ \/ /\ phase' = "attaching"
        /\ Patch("starting")
     \/ /\ phase' = "returned"
        /\ \E l \in {"blocked", "stopped"} : Patch(l)
  /\ UNCHANGED <<hostVars, linkVars, probeVars, clockVars, path>>

\* The attachment takes the path the host reports, else the identity's own.
Attached ==
  /\ phase = "attaching"
  /\ phase' = "opening"
  /\ path' = IF host = Nowhere THEN Own ELSE host
  /\ outcome' = "aborted"
  /\ since' = 0
  /\ client' = "none" /\ attempt' = 0
  /\ UNCHANGED loopVars
  /\ reprobing' = "no" /\ probe' = "unread" /\ exceeded' = "no" /\ probes' = 0
  /\ UNCHANGED <<signal, host, budget, spent, status>>

AttachAborted ==
  /\ phase = "attaching"
  /\ signal = "aborted"
  /\ phase' = "returned"
  /\ UNCHANGED <<hostVars, linkVars, probeVars, clockVars, path, outcome, status>>

AttachFails ==
  /\ phase = "attaching"
  /\ signal = "clear"
  /\ \/ phase' = "returned" /\ Patch("blocked")
     \/ phase' = "thrown" /\ Patch("recovering")
  /\ UNCHANGED <<hostVars, linkVars, probeVars, clockVars, path, outcome>>

\* openSession resolved; the ingress runs.
Opened ==
  /\ phase = "opening"
  /\ host = path
  /\ phase' = "running"
  /\ client' = "seated"
  /\ barrier' = "open" /\ parked' = "no"
  /\ Patch("ready")
  /\ UNCHANGED <<hostVars, attempt, probeVars, clockVars, path, outcome>>

\* Mutant of StartReleasing: what is left of the deadline is all the release gets.
StartReleasingUnreserved(elapsed) ==
  /\ phase' = "releasing"
  /\ budget' = StopDeadline - elapsed

\* The release: whatever is left, but at least the tail.
StartReleasing(elapsed) ==
  /\ phase' = "releasing"
  /\ budget' = Larger(ReleaseTail, StopDeadline - elapsed)

\* openSession rejected: there is nothing to drain or close.
OpenFails ==
  /\ phase = "opening"
  /\ \/ /\ signal = "aborted"
        /\ UNCHANGED <<outcome, status>>
     \/ /\ signal = "clear"
        /\ \E o \in {"absent", "blocked", "restart"} :
             /\ outcome' = o
             /\ Patch(IF o = "blocked" THEN "blocked" ELSE "recovering")
  /\ StartReleasing(since)
  /\ spent' = 0
  /\ UNCHANGED <<hostVars, linkVars, probeVars, since, path>>

\* Mutant of StartClosing: the close may use up the release's share.
StartClosingUnreserved(elapsed) ==
  /\ phase' = "closing"
  /\ budget' = Larger(0, StopDeadline - elapsed)
  /\ client' = "closed"

\* session.close().
StartClosing(elapsed) ==
  /\ phase' = "closing"
  /\ budget' = Larger(0, StopDeadline - elapsed - ReleaseTail)
  /\ client' = "closed"

\* The race is decided: the deadline is set, the ingress stopped, the drain begun.
End(o) ==
  /\ phase = "running"
  /\ outcome' = o
  /\ since' = 0
  /\ spent' = 0
  /\ LET drain == Smaller(DrainCap, StopDeadline - ReleaseTail) IN
     \/ /\ drain > 0
        /\ phase' = "draining"
        /\ budget' = drain
        /\ UNCHANGED client
     \/ /\ drain <= 0
        /\ StartClosing(0)
  /\ UNCHANGED <<hostVars, attempt, loopVars, probeVars, path>>

EndAborted ==
  /\ signal = "aborted"
  /\ End("aborted")
  /\ UNCHANGED status

EndMoved ==
  /\ exceeded = "yes"
  /\ End("restart")
  /\ Patch("recovering")

\* The ingress halted: the barrier was rejected, the stream of the closed client ended,
\* or a message failed.  A parked loop does none of it.
IngressHalts ==
  /\ parked = "no"
  /\ End("restart")
  /\ Patch("recovering")

\* A terminal error surfaced: the client's own, or a frame behind the open barrier
\* that the host should never send.
IngressBlocked ==
  /\ parked = "no"
  /\ \/ client = "dead"
     \/ client \in {"seated", "lost"} /\ barrier = "open"
  /\ End("blocked")
  /\ Patch("blocked")

IngressEnds == IngressHalts \/ IngressBlocked

\* The in-flight turns settled, or the cap is reached.
DrainEnds ==
  /\ phase = "draining"
  /\ StartClosing(since)
  /\ UNCHANGED <<hostVars, attempt, loopVars, probeVars, since, spent, path, outcome,
                 status>>

CloseEnds ==
  /\ phase = "closing"
  /\ StartReleasing(since)
  /\ UNCHANGED <<hostVars, linkVars, probeVars, since, spent, path, outcome,
                 status>>

\* runWithLease returned.
Finish ==
  /\ phase = "releasing"
  /\ phase' = CASE outcome = "absent"  -> "waiting"
                [] outcome = "restart" -> "thrown"
                [] OTHER               -> "returned"
  /\ IF outcome = "aborted" THEN Patch("stopped") ELSE UNCHANGED status
  /\ UNCHANGED <<hostVars, linkVars, probeVars, clockVars, path, outcome>>

\* A step of the cleanup ends by itself, or at the latest with its budget.
StepEnds == DrainEnds \/ CloseEnds \/ Finish

BudgetEnds == budget = 0 /\ StepEnds

Tick ==
  /\ \/ /\ Cleaning
        /\ budget > 0
        /\ budget' = budget - 1
        /\ since' = since + 1
        /\ spent' = spent + 1
     \/ /\ phase = "opening"
        /\ since <= StopDeadline
        /\ since' = since + 1
        /\ UNCHANGED <<budget, spent>>
  /\ UNCHANGED <<hostVars, linkVars, probeVars, phase, path, outcome, status>>

\* waitUnlessAborted: attach again, unless aborted.
WaitEnds ==
  /\ phase = "waiting"
  /\ \/ /\ signal = "clear"
        /\ phase' = "attaching"
        /\ UNCHANGED status
     \/ /\ signal = "aborted"
        /\ phase' = "returned"
        /\ Patch("stopped")
  /\ UNCHANGED <<hostVars, linkVars, probeVars, clockVars, path, outcome>>
-----------------------------------------------------------------------------
External ==
  \/ Abort
  \/ \E p \in Paths \cup {Nowhere} : HostMoves(p)
  \/ Drop
  \/ Terminal
  \/ Reconnected

SessionReports ==
  \/ OnRetry
  \/ OnReconnected
  \/ WarmupFails
  \/ Park
  \/ ProbeReads
  \/ ProbeAnswers
  \/ ProbeAborted

Lifecycle ==
  \/ StartAccount
  \/ Attached
  \/ AttachAborted
  \/ AttachFails
  \/ Opened
  \/ OpenFails
  \/ EndAborted
  \/ EndMoved
  \/ IngressHalts
  \/ IngressBlocked
  \/ StepEnds
  \/ WaitEnds

Next == External \/ SessionReports \/ Lifecycle \/ Tick

Spec == Init /\ [][Next]_vars

\* Fairness: timers fire and the event loop runs; a client that has not given up goes
\* on retrying, and a re-resolution settles (its requests have time limits); a warm-up
\* whose client gave up settles, its requests being rejected; a loop that is not parked
\* ends with the stream of a client that is closed or gave up (core settles the turns it
\* waits for); attaching and opening end on an abort.  Nothing is assumed of the steps of the cleanup, which may hang.
Fairness ==
  /\ WF_vars(Tick)
  /\ WF_vars(BudgetEnds)
  /\ WF_vars(WaitEnds)
  /\ WF_vars(AttachAborted)
  /\ WF_vars(signal = "aborted" /\ OpenFails)
  /\ WF_vars(EndAborted)
  /\ WF_vars(EndMoved)
  /\ WF_vars(client \in {"closed", "dead"} /\ IngressEnds)
  /\ WF_vars(client = "dead" /\ (OnReconnected \/ WarmupFails))
  /\ WF_vars(OnRetry)
  /\ WF_vars(ProbeReads)
  /\ WF_vars(ProbeAnswers)

FairSpec == Spec /\ Fairness

-----------------------------------------------------------------------------
(* Properties.                                                             *)

\* The cleanup ends within the deadline though every step of it may hang, and no
\* step before the release can use up its share.
CleanupInTime ==
  /\ Cleaning => spent + budget <= StopDeadline
  /\ phase \in {"draining", "closing"} => spent + budget <= StopDeadline - ReleaseTail

\* The release gets its tail even if opening the session outlasted the deadline.
ReleaseReserved ==
  [][phase' = "releasing" /\ phase # "releasing" => budget' >= ReleaseTail]_vars

\* "never two at once", over any number of attempts and slow answers.
ReprobesNeverOverlap == probes <= 1

\* While the account runs, "ready" and "recovering" tell of the session what is so:
\* ready from the end of a warm-up to the next retry.
StatusTruthful ==
  phase = "running" =>
    /\ client = "seated" /\ barrier = "open" => status = "ready"
    /\ barrier # "open" \/ client = "closed" => status = "recovering"

\* An account that was aborted is reported stopped last, whatever the session
\* reported while it was drained.
StoppedIsLast == phase = "returned" /\ outcome = "aborted" => status = "stopped"

\* What the status table says of an account is true: while it runs, and when an abort
\* has ended it.
StatusTellsTruth == StatusTruthful /\ StoppedIsLast

\* An abort always ends the account, whatever hangs.
AbortEnds == signal = "aborted" ~> Over

\* Nothing is left to settle the barrier a loop is parked on: the client gave up
\* before it was back.
Stranded == parked = "yes" /\ client = "dead" /\ barrier = "outage"

\* However long the outage: a host that came back on another path ends the lease.
MovedEnds ==
  phase = "running" /\ host \notin {path, Nowhere}
    ~> phase # "running" \/ host \in {path, Nowhere} \/ Stranded

\* A client that was closed by a failed warm-up, or that gave up, ends the run, parked
\* on the barrier or not.
ClientEnds ==
  phase = "running" /\ client \in {"closed", "dead"} ~> phase # "running" \/ Stranded

\* An abort, a move of the host and the end of the client are never lost on a running
\* account, but for the loop that is stranded.
RunEndsWhenItMust == AbortEnds /\ MovedEnds /\ ClientEnds

-----------------------------------------------------------------------------
(* The inductive invariant behind the safety properties (AccountProofs).    *)

\* Between the end of the run and the release the deadline's clock is the cleanup's.
ClockInv == phase \in {"draining", "closing"} => since = spent

\* The flag and the re-resolutions in flight agree.
FlagInv == probes = IF reprobing = "yes" THEN 1 ELSE 0

\* Outside the run and the drain the client reports nothing; a client that retries has
\* closed the barrier; before a lease there is no outcome to report.
QuietInv ==
  /\ phase \notin {"running", "draining"} => client \in {"none", "closed"}
  /\ client = "retrying" => barrier = "outage"
  /\ phase \in {"attaching", "waiting"} => outcome # "aborted"

AccountInv ==
  /\ CleanupInTime
  /\ ClockInv
  /\ FlagInv
  /\ QuietInv
  /\ StatusTruthful
  /\ StoppedIsLast
=============================================================================
