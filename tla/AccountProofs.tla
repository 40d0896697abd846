---------------------------- MODULE AccountProofs ----------------------------
(***************************************************************************)
(* Theorems about the life of an account: the cleanup keeps its deadline     *)
(* whatever the three durations are, re-resolutions never overlap, and the   *)
(* status tells what is so.                                                 *)
(***************************************************************************)
EXTENDS Account, TLAPS

USE PathsAssumption, BudgetAssumption, ReprobeAssumption
    DEF PathsAssumption, BudgetAssumption, ReprobeAssumption

\* Counting attempts stays within a round of re-resolutions.
LEMMA AttemptInRound ==
  ASSUME NEW a \in Int
  PROVE  a % ReprobeAfter \in 0 .. ReprobeAfter - 1
OBVIOUS

\* What Math.min and Math.max return of the budgets.
LEMMA Budgets ==
  ASSUME NEW a \in Int, NEW b \in Int
  PROVE  /\ Larger(a, b) \in {a, b}
         /\ Larger(a, b) >= a
         /\ Larger(a, b) >= b
         /\ Smaller(a, b) \in {a, b}
         /\ Smaller(a, b) <= a
         /\ Smaller(a, b) <= b
BY DEF Larger, Smaller

-----------------------------------------------------------------------------
\* The statuses a patch leaves are statuses.
LEMMA PatchType ==
  ASSUME NEW l \in {"starting", "ready", "recovering", "blocked", "stopped"}, Patch(l)
  PROVE  status' \in {"starting", "ready", "recovering", "blocked", "stopped"}
BY DEF Patch

\* No step of the cleanup, the session or the gateway leaves the types.
LEMMA TypeStep ==
  ASSUME TypeOK, [Next]_vars
  PROVE  TypeOK'
<1> USE DEF TypeOK, hostVars, loopVars, linkVars, probeVars, clockVars, Phases, Outcomes
<1>1. CASE External
  BY <1>1 DEF External, Abort, HostMoves, Drop, Terminal, Reconnected
<1>2. CASE OnRetry
  <2>1. PICK a \in Int : attempt' = a % ReprobeAfter
    <3>1. (IF client = "lost" THEN 1 ELSE attempt + 1) \in Int
      OBVIOUS
    <3>2. QED
      BY <1>2, <3>1 DEF OnRetry, Retrying
  <2>2. attempt' \in 0 .. ReprobeAfter - 1
    BY <2>1, AttemptInRound
  <2>3. status' = "recovering"
    BY <1>2 DEF OnRetry, Retrying, Patch
  <2>4. QED
    BY <1>2, <2>2, <2>3 DEF OnRetry, Retrying, Reprobe
<1>3. CASE OnReconnected
  BY <1>3, PatchType DEF OnReconnected
<1>4. CASE WarmupFails \/ Park \/ ProbeReads \/ ProbeAnswers \/ ProbeAborted
  BY <1>4 DEF WarmupFails, Park, ProbeReads, ProbeAnswers, ProbeAborted
<1>5. CASE StartAccount \/ AttachFails
  BY <1>5, PatchType DEF StartAccount, AttachFails
<1>6. CASE Attached \/ AttachAborted
  BY <1>6 DEF Attached, AttachAborted
<1>7. CASE Opened
  BY <1>7, PatchType DEF Opened
<1>8. CASE OpenFails
  <2>1. /\ StartReleasing(since)
        /\ spent' = 0
        /\ UNCHANGED <<hostVars, linkVars, probeVars, since, path>>
    BY <1>8 DEF OpenFails
  <2>2. budget' \in Nat /\ phase' \in Phases
    BY <2>1, Budgets DEF StartReleasing
  <2>3. /\ outcome' \in Outcomes
        /\ status' \in {"starting", "ready", "recovering", "blocked", "stopped"}
    BY <1>8, PatchType DEF OpenFails
  <2>4. QED
    BY <2>1, <2>2, <2>3
<1>9. ASSUME NEW o \in Outcomes, End(o)
      PROVE  /\ budget' \in Nat
             /\ phase' \in {"draining", "closing"}
             /\ client' \in {client, "closed"}
             /\ outcome' = o
             /\ since' = 0
             /\ spent' = 0
             /\ UNCHANGED <<hostVars, attempt, loopVars, probeVars, path>>
  <2> DEFINE drain == Smaller(DrainCap, StopDeadline - ReleaseTail)
  <2>1. drain \in Int
    BY Budgets
  <2>2. \/ drain > 0 /\ phase' = "draining" /\ budget' = drain /\ client' = client
        \/ StartClosing(0)
    BY <1>9 DEF End
  <2>3. Larger(0, StopDeadline - 0 - ReleaseTail) \in Nat
    BY Budgets
  <2>4. budget' \in Nat /\ phase' \in {"draining", "closing"} /\ client' \in {client, "closed"}
    BY <2>1, <2>2, <2>3 DEF StartClosing
  <2>5. QED
    BY <1>9, <2>4 DEF End
<1>10. CASE EndAborted \/ EndMoved \/ IngressHalts \/ IngressBlocked
  <2>1. PICK o \in Outcomes : End(o)
    BY <1>10 DEF EndAborted, EndMoved, IngressHalts, IngressBlocked
  <2>2. status' \in {"starting", "ready", "recovering", "blocked", "stopped"}
    <3>1. CASE EndAborted
      BY <3>1 DEF EndAborted
    <3>2. CASE EndMoved \/ IngressHalts
      BY <3>2, PatchType DEF EndMoved, IngressHalts
    <3>3. CASE IngressBlocked
      BY <3>3, PatchType DEF IngressBlocked
    <3>4. QED
      BY <1>10, <3>1, <3>2, <3>3
  <2>3. /\ budget' \in Nat
        /\ phase' \in {"draining", "closing"}
        /\ client' \in {client, "closed"}
        /\ outcome' \in Outcomes
        /\ since' = 0
        /\ spent' = 0
        /\ UNCHANGED <<hostVars, attempt, loopVars, probeVars, path>>
    <3> HIDE DEF TypeOK, hostVars, loopVars, probeVars, Outcomes
    <3>1. QED
      BY <1>9, <2>1
  <2>4. QED
    <3> HIDE DEF Outcomes
    <3>1. QED
      BY <2>2, <2>3 DEF Phases
<1>11. CASE DrainEnds
  <2>1. Larger(0, StopDeadline - since - ReleaseTail) \in Nat
    <3>1. StopDeadline - since - ReleaseTail \in Int
      OBVIOUS
    <3>2. QED
      BY ONLY <3>1, Budgets
  <2>2. QED
    BY <1>11, <2>1 DEF DrainEnds, StartClosing
<1>12. CASE CloseEnds
  <2>1. Larger(ReleaseTail, StopDeadline - since) \in Nat
    <3>1. StopDeadline - since \in Int /\ ReleaseTail \in Nat
      OBVIOUS
    <3>2. QED
      BY ONLY <3>1, Budgets
  <2>2. QED
    BY <1>12, <2>1 DEF CloseEnds, StartReleasing
<1>13. CASE Finish \/ WaitEnds
  BY <1>13, PatchType DEF Finish, WaitEnds
<1>14. CASE Tick
  BY <1>14 DEF Tick
<1>15. CASE UNCHANGED vars
  BY <1>15 DEF vars
<1>16. QED
  BY <1>1, <1>2, <1>3, <1>4, <1>5, <1>6, <1>7, <1>8, <1>10, <1>11, <1>12, <1>13, <1>14, <1>15
     DEF Next, SessionReports, Lifecycle, StepEnds

\* Type correctness, for every choice of paths and durations.
THEOREM TypeCorrect == Spec => []TypeOK
<1>1. Init => TypeOK
  BY DEF Init, TypeOK, Phases, Outcomes
<1>2. TypeOK /\ [Next]_vars => TypeOK'
  BY TypeStep
<1>3. QED
  BY <1>1, <1>2, PTL DEF Spec

-----------------------------------------------------------------------------
\* Every step of the cleanup starts with what it may use, and a tick moves time
\* from the budget to the time spent.
LEMMA CleanupStep ==
  ASSUME TypeOK, CleanupInTime, ClockInv, [Next]_vars
  PROVE  CleanupInTime' /\ ClockInv'
<1> USE DEF CleanupInTime, ClockInv, Cleaning
<1> /\ since \in Nat /\ spent \in Nat /\ budget \in Nat
    /\ StopDeadline \in Nat /\ ReleaseTail \in Nat /\ DrainCap \in Nat
    /\ ReleaseTail <= StopDeadline
  BY DEF TypeOK
<1>1. ASSUME UNCHANGED <<phase, clockVars>>
      PROVE  CleanupInTime' /\ ClockInv'
  BY <1>1 DEF clockVars
<1>2. ASSUME phase' \notin {"draining", "closing", "releasing"}
      PROVE  CleanupInTime' /\ ClockInv'
  BY <1>2
<1>3. ASSUME NEW o \in Outcomes, End(o)
      PROVE  CleanupInTime' /\ ClockInv'
  <2> DEFINE drain == Smaller(DrainCap, StopDeadline - ReleaseTail)
  <2>1. drain \in Int /\ drain <= StopDeadline - ReleaseTail
    BY Budgets
  <2>2. Larger(0, StopDeadline - 0 - ReleaseTail) \in {0, StopDeadline - ReleaseTail}
    BY Budgets
  <2>3. since' = 0 /\ spent' = 0
    BY <1>3 DEF End
  <2>4. CASE drain > 0 /\ phase' = "draining" /\ budget' = drain
    BY <2>1, <2>3, <2>4
  <2>5. CASE StartClosing(0)
    <3>1. phase' = "closing" /\ budget' \in {0, StopDeadline - ReleaseTail}
      BY <2>2, <2>5 DEF StartClosing
    <3>2. StopDeadline - ReleaseTail \in Int /\ 0 <= StopDeadline - ReleaseTail
      OBVIOUS
    <3>3. budget' \in Int /\ budget' <= StopDeadline - ReleaseTail
      BY <3>1, <3>2
    <3>4. spent' + budget' = budget'
      <4>1. \A b \in Int : 0 + b = b
        OBVIOUS
      <4>2. spent' = 0 /\ budget' \in Int
        BY <2>3, <3>3
      <4>3. QED
        BY ONLY <4>1, <4>2, Zenon
    <3>5. budget' <= StopDeadline
      BY <3>2, <3>3
    <3>6. QED
      BY <2>3, <3>1, <3>3, <3>4, <3>5
  <2>6. QED
    BY <1>3, <2>4, <2>5 DEF End
<1>4. CASE OpenFails
  <2>1. phase' = "releasing" /\ spent' = 0 /\ budget' = Larger(ReleaseTail, StopDeadline - since)
    BY <1>4 DEF OpenFails, StartReleasing
  <2>2. budget' \in Int /\ budget' <= StopDeadline
    BY <2>1, Budgets
  <2>3. QED
    BY <2>1, <2>2
<1>5. CASE DrainEnds
  <2>1. /\ phase = "draining" /\ phase' = "closing"
        /\ spent' = spent /\ since' = since
        /\ budget' = Larger(0, StopDeadline - since - ReleaseTail)
    BY <1>5 DEF DrainEnds, StartClosing
  <2>2. budget' \in {0, StopDeadline - since - ReleaseTail}
    BY <2>1, Budgets
  <2>3. since = spent /\ spent <= StopDeadline - ReleaseTail
    BY <2>1
  <2>4. QED
    BY <2>1, <2>2, <2>3
<1>6. CASE CloseEnds
  <2>1. /\ phase = "closing" /\ phase' = "releasing"
        /\ spent' = spent
        /\ budget' = Larger(ReleaseTail, StopDeadline - since)
    BY <1>6 DEF CloseEnds, StartReleasing
  <2>2. budget' \in {ReleaseTail, StopDeadline - since}
    BY <2>1, Budgets
  <2>3. since = spent /\ spent <= StopDeadline - ReleaseTail
    BY <2>1
  <2>4. QED
    BY <2>1, <2>2, <2>3
<1>7. CASE Tick
  BY <1>7 DEF Tick
<1>8. CASE External \/ SessionReports \/ UNCHANGED vars
  BY <1>1, <1>8
     DEF External, Abort, HostMoves, Drop, Terminal, Reconnected, SessionReports, OnRetry,
         Retrying, OnReconnected, WarmupFails, Park, ProbeReads, ProbeAnswers, ProbeAborted, vars
<1>9. CASE StartAccount \/ Attached \/ AttachAborted \/ AttachFails \/ Opened \/ Finish \/ WaitEnds
  BY <1>2, <1>9 DEF StartAccount, Attached, AttachAborted, AttachFails, Opened, Finish, WaitEnds
<1>10. CASE EndAborted \/ EndMoved \/ IngressHalts \/ IngressBlocked
  BY <1>3, <1>10 DEF EndAborted, EndMoved, IngressHalts, IngressBlocked, Outcomes
<1>11. QED
  BY <1>4, <1>5, <1>6, <1>7, <1>8, <1>9, <1>10 DEF Next, Lifecycle, StepEnds

\* A re-resolution is in flight exactly while the flag says so.
LEMMA FlagStep ==
  ASSUME TypeOK, FlagInv, [Next]_vars
  PROVE  FlagInv'
<1> USE DEF FlagInv
<1>1. ASSUME UNCHANGED probeVars
      PROVE  FlagInv'
  BY <1>1 DEF probeVars
<1>2. CASE OnRetry
  BY <1>2, <1>1 DEF OnRetry, Reprobe
<1>3. CASE ProbeReads \/ ProbeAnswers \/ ProbeAborted
  BY <1>3 DEF ProbeReads, ProbeAnswers, ProbeAborted
<1>4. CASE Attached
  BY <1>4 DEF Attached
<1>5. CASE External \/ OnReconnected \/ WarmupFails \/ Park \/ Tick \/ UNCHANGED vars
  BY <1>1, <1>5
     DEF External, Abort, HostMoves, Drop, Terminal, Reconnected, OnReconnected, WarmupFails,
         Park, Tick, vars
<1>6. CASE StartAccount \/ AttachAborted \/ AttachFails \/ Opened \/ OpenFails \/ StepEnds \/ WaitEnds
  BY <1>1, <1>6
     DEF StartAccount, AttachAborted, AttachFails, Opened, OpenFails, StepEnds, DrainEnds,
         CloseEnds, Finish, WaitEnds
<1>7. CASE EndAborted \/ EndMoved \/ IngressHalts \/ IngressBlocked
  BY <1>1, <1>7 DEF EndAborted, EndMoved, IngressHalts, IngressBlocked, End
<1>8. QED
  BY <1>2, <1>3, <1>4, <1>5, <1>6, <1>7 DEF Next, SessionReports, Lifecycle

\* What the session reports reaches the status while the account runs, and only then.
LEMMA StatusStep ==
  ASSUME TypeOK, QuietInv, StatusTruthful, StoppedIsLast, [Next]_vars
  PROVE  QuietInv' /\ StatusTruthful' /\ StoppedIsLast'
<1> USE DEF QuietInv, StatusTruthful, StoppedIsLast, loopVars, linkVars
<1>1. CASE External
  BY <1>1 DEF External, Abort, HostMoves, Drop, Terminal, Reconnected
<1>2. CASE OnRetry \/ OnReconnected
  BY <1>2 DEF OnRetry, Retrying, OnReconnected, Patch
<1>3. CASE WarmupFails \/ Park \/ ProbeReads \/ ProbeAnswers \/ ProbeAborted
  BY <1>3 DEF WarmupFails, Park, ProbeReads, ProbeAnswers, ProbeAborted
<1>4. CASE StartAccount \/ Attached \/ AttachAborted \/ AttachFails
  BY <1>4 DEF StartAccount, Attached, AttachAborted, AttachFails, Patch
<1>5. CASE Opened \/ OpenFails
  BY <1>5 DEF Opened, OpenFails, StartReleasing, Patch
<1>6. CASE EndAborted \/ EndMoved \/ IngressHalts \/ IngressBlocked
  <2>1. PICK o : End(o)
    BY <1>6 DEF EndAborted, EndMoved, IngressHalts, IngressBlocked
  <2>2. /\ phase = "running"
        /\ \/ phase' = "draining" /\ client' = client
           \/ phase' = "closing" /\ client' = "closed"
        /\ barrier' = barrier
    BY <2>1 DEF End, StartClosing
  <2>3. client' = "retrying" => barrier' = "outage"
    BY <2>2
  <2>4. QED
    BY <2>2, <2>3
<1>7. CASE StepEnds \/ WaitEnds
  <2>1. CASE DrainEnds \/ CloseEnds
    BY <2>1 DEF DrainEnds, CloseEnds, StartClosing, StartReleasing
  <2>2. CASE Finish
    <3>1. /\ phase = "releasing" /\ client' = client /\ outcome' = outcome
          /\ phase' \in {"waiting", "thrown", "returned"}
          /\ phase' = "waiting" => outcome = "absent"
      BY <2>2 DEF Finish
    <3>2. outcome = "aborted" => status' = "stopped"
      BY <2>2 DEF Finish, Patch
    <3>3. QED
      BY <3>1, <3>2
  <2>3. CASE WaitEnds
    <3>1. /\ phase = "waiting" /\ client' = client /\ outcome' = outcome
          /\ phase' \in {"attaching", "returned"}
      BY <2>3 DEF WaitEnds
    <3>2. phase' = "returned" => status' = "stopped"
      BY <2>3 DEF WaitEnds, Patch
    <3>3. outcome' # "aborted" \/ phase' = "returned"
      BY <3>1
    <3>4. QED
      BY <3>1, <3>2, <3>3
  <2>4. QED
    BY <1>7, <2>1, <2>2, <2>3 DEF StepEnds
<1>8. CASE Tick \/ UNCHANGED vars
  BY <1>8 DEF Tick, vars
<1>9. QED
  BY <1>1, <1>2, <1>3, <1>4, <1>5, <1>6, <1>7, <1>8 DEF Next, SessionReports, Lifecycle

\* The account's invariant.
THEOREM AccountInductive == Spec => []AccountInv
<1>1. Init => AccountInv
  BY DEF Init, AccountInv, CleanupInTime, ClockInv, FlagInv, QuietInv, StatusTruthful,
         StoppedIsLast, Cleaning
<1>2. TypeOK /\ AccountInv /\ [Next]_vars => AccountInv'
  BY CleanupStep, FlagStep, StatusStep DEF AccountInv
<1>3. QED
  BY <1>1, <1>2, TypeCorrect, PTL DEF Spec

-----------------------------------------------------------------------------
\* The cleanup keeps its deadline whatever the three durations are and whatever
\* hangs: "<= 4500 ms by construction" (design document).
THEOREM CleansUpInTime == Spec => []CleanupInTime
<1>1. AccountInv => CleanupInTime
  BY DEF AccountInv
<1>2. QED
  BY <1>1, AccountInductive, PTL

\* The release has its tail on every path that leads to it.
THEOREM ReservesRelease == Spec => ReleaseReserved
<1>1. ASSUME TypeOK, [Next]_vars, phase' = "releasing", phase # "releasing"
      PROVE  budget' >= ReleaseTail
  <2>1. StartReleasing(since)
    <3> USE DEF hostVars, loopVars, linkVars, probeVars, clockVars
    <3>1. CASE External \/ SessionReports \/ Tick \/ UNCHANGED vars
      BY <1>1, <3>1
         DEF External, Abort, HostMoves, Drop, Terminal, Reconnected, SessionReports, OnRetry,
             Retrying, OnReconnected, WarmupFails, Park, ProbeReads, ProbeAnswers, ProbeAborted,
             Tick, vars
    <3>2. CASE StartAccount \/ Attached \/ AttachAborted \/ AttachFails \/ Opened \/ Finish \/ WaitEnds
      BY <1>1, <3>2 DEF StartAccount, Attached, AttachAborted, AttachFails, Opened, Finish, WaitEnds
    <3>3. CASE EndAborted \/ EndMoved \/ IngressHalts \/ IngressBlocked
      BY <1>1, <3>3 DEF EndAborted, EndMoved, IngressHalts, IngressBlocked, End, StartClosing
    <3>4. CASE OpenFails \/ DrainEnds \/ CloseEnds
      BY <1>1, <3>4 DEF OpenFails, DrainEnds, StartClosing, CloseEnds
    <3>5. QED
      BY <1>1, <3>1, <3>2, <3>3, <3>4 DEF Next, Lifecycle, StepEnds
  <2>2. QED
    BY <1>1, <2>1, Budgets DEF StartReleasing, TypeOK
<1>2. TypeOK /\ [Next]_vars
        => [phase' = "releasing" /\ phase # "releasing" => budget' >= ReleaseTail]_vars
  BY <1>1
<1>3. QED
  BY <1>2, TypeCorrect, PTL DEF Spec, ReleaseReserved

\* Re-resolutions never overlap, however slow one is and however long the outage.
THEOREM NeverOverlap == Spec => []ReprobesNeverOverlap
<1>1. AccountInv => ReprobesNeverOverlap
  BY DEF AccountInv, FlagInv, ReprobesNeverOverlap
<1>2. QED
  BY <1>1, AccountInductive, PTL

\* While it runs, an account reports ready and recovering truthfully; once aborted,
\* it is reported stopped last.
THEOREM TellsTruth == Spec => []StatusTellsTruth
<1>1. AccountInv => StatusTellsTruth
  BY DEF AccountInv, StatusTellsTruth
<1>2. QED
  BY <1>1, AccountInductive, PTL
=============================================================================
