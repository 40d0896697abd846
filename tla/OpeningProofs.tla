---------------------------- MODULE OpeningProofs ----------------------------
(***************************************************************************)
(* Theorems about Attach and Opening, for every set of callers, length of   *)
(* the wait and set of rooms, and however often the host comes and goes.    *)
(***************************************************************************)
EXTENDS Opening, TLAPS

\* What an attachment has found out, asked for and started by the time it is at pc.
\* Only setup looks any further than the probe, and only the runtime asks why.
AskedInOrder ==
  /\ pc = "why" => role = "runtime"
  /\ service = "asked" => pc \in {"starting", "over"}
  /\ service # "untouched" => role = "setup" /\ identity.scope = "user"
  /\ service = "untouched" => starts = 0
  /\ pc \in {"idle", "dial", "info"} /\ service = "untouched" => found = {}
  /\ pc \in {"control", "installed", "authority"} =>
       role = "setup" /\ identity.scope = "user" /\ service = "untouched"
  /\ pc = "control" => found = {"enroll silent"}
  /\ pc \in {"installed", "authority"} => identity.own /\ ~identity.named
  /\ pc = "installed" => found = {"enroll silent", "control silent"}
  /\ pc = "authority" => found = {"enroll silent", "control silent", "enabled"}
  /\ pc \in {"starting", "pause"} => service # "untouched"
  /\ pc = "pause" => service = "started"

AttachInv ==
  /\ AskedInOrder
  /\ NoConnectionLeft
  /\ SetupIsChecked

\* How the client, what the warm-up has read and what it missed go with its step.
WarmUpInv ==
  /\ client \in Live => step \in Warming \cup {"opened"}
  /\ step = "opened" => client # "lost"
  /\ step = "members" => "list" \in read
  /\ client = "lost" => survives \/ broken
  /\ missed # {} => survives \/ broken
  /\ OpenedFresh

-----------------------------------------------------------------------------
(* One attachment.                                                         *)

\* What every step of an attachment is made of: the conjuncts that follow from the shape
\* of the actions alone, for whichever caller.
LEMMA CallerFixed ==
  ASSUME [Next]_vars
  PROVE  UNCHANGED <<role, identity>>
BY DEF Next, HostChanges, Abort, Tick, AttachStep, Start, Dialled, ProbeFails, ProbeDenied,
       ProbeAnswered, ProbeAborted, LateDial, WhyUnreachable, ControlAsked,
       InstalledAnswered, AuthorityAnswered, StartAnswered, PauseEnds, callVars, vars

\* The state stays within its types.
LEMMA AttachTypes ==
  ASSUME TypeOK, [Next]_vars
  PROVE  TypeOK'
<1> USE WaitAssumption, ChangesAssumption, RolesAssumption
    DEF WaitAssumption, ChangesAssumption, RolesAssumption, TypeOK
<1>1. CASE HostChanges
  BY <1>1 DEF HostChanges, callVars, attachVars, Hosts
<1>2. CASE Abort
  BY <1>2 DEF Abort, hostVars, attachVars
<1>3. CASE Tick
  BY <1>3 DEF Tick, hostVars, callVars
<1>4. CASE AttachStep
  <2>1. /\ UNCHANGED <<hostVars, callVars, waited>>
        /\ wake' \in {wake, waited + 1}
        /\ starts' \in {starts, starts + 1}
        /\ conn' \in {"none", "dialling", "open", "abandoned"}
        /\ service' \in {"untouched", "asked", "started"}
    BY <1>4 DEF AttachStep, Start, Dialled, ProbeFails, ProbeDenied, ProbeAnswered,
       ProbeAborted, LateDial, WhyUnreachable, ControlAsked, InstalledAnswered,
       AuthorityAnswered, StartAnswered, PauseEnds
  <2>2. info' \in Speaking \cup {"none"} /\ found' \subseteq Findings
    BY <1>4 DEF AttachStep, Start, Dialled, ProbeFails, ProbeDenied, ProbeAnswered,
       ProbeAborted, LateDial, WhyUnreachable, ControlAsked, InstalledAnswered,
       AuthorityAnswered, StartAnswered, PauseEnds, Findings
  <2>3. pc' \in PCs /\ result' \in Results
    <3> USE DEF PCs, Results, Attached, Errors, Unreachables, Ends
    <3>1. CASE Start \/ Dialled \/ ProbeAborted \/ LateDial \/ WhyUnreachable
      BY <3>1 DEF Start, Dialled, ProbeAborted, LateDial, WhyUnreachable, Interrupted
    <3>2. CASE ControlAsked \/ InstalledAnswered \/ AuthorityAnswered \/ StartAnswered \/ PauseEnds
      BY <3>2 DEF ControlAsked, InstalledAnswered, AuthorityAnswered, StartAnswered, PauseEnds,
         Interrupted
    <3>3. ASSUME Silent PROVE pc' \in PCs /\ result' \in Results
      BY <3>3 DEF Silent, Identities
    <3>4. CASE ProbeFails \/ ProbeDenied
      BY <3>3, <3>4 DEF ProbeFails, ProbeDenied, Denied
    <3>5. CASE ProbeAnswered
      BY <3>5 DEF ProbeAnswered, Checked, Reported
    <3>6. QED
      BY <1>4, <3>1, <3>2, <3>4, <3>5 DEF AttachStep
  <2>4. QED
    BY <2>1, <2>2, <2>3 DEF hostVars, callVars
<1>5. CASE UNCHANGED vars
  BY <1>5 DEF vars, hostVars, callVars, attachVars
<1>6. QED
  BY <1>1, <1>2, <1>3, <1>4, <1>5 DEF Next

\* What the probe may lead to when it found nothing: who goes on, and to where.
LEMMA SilentLeads ==
  ASSUME TypeOK, AskedInOrder, pc \in {"dial", "info"}, Silent
  PROVE  \/ pc' = "over" /\ result' = "fallback"
            /\ (role = "setup" => identity.scope = "system")
         \/ pc' = "why" /\ role = "runtime" /\ UNCHANGED result
         \/ /\ pc' = "control" /\ role = "setup" /\ identity.scope = "user"
            /\ service = "untouched" /\ UNCHANGED result
         \/ pc' = "pause" /\ service = "started" /\ UNCHANGED result
BY RolesAssumption
   DEF RolesAssumption, TypeOK, AskedInOrder, Silent, Ends, Started, Identities

\* The order in which an attachment finds out, asks and starts is kept.
LEMMA OrderKept ==
  ASSUME TypeOK, AskedInOrder, [Next]_vars
  PROVE  AskedInOrder'
<1> USE DEF TypeOK, AskedInOrder
<1>1. CASE HostChanges \/ Abort \/ Tick \/ UNCHANGED vars
  BY <1>1 DEF HostChanges, Abort, Tick, vars, hostVars, callVars, attachVars
<1>2. CASE Start
  BY <1>2 DEF Start, Ends, hostVars, callVars
<1>3. CASE Dialled \/ LateDial
  BY <1>3 DEF Dialled, LateDial, callVars
<1>4. CASE ProbeFails
  BY <1>4, SilentLeads DEF ProbeFails, callVars
<1>5. CASE ProbeDenied
  <2>1. CASE role = "setup" /\ identity.scope = "user"
    BY <1>5, <2>1 DEF ProbeDenied, Denied, Ends, callVars
  <2>2. CASE ~(role = "setup" /\ identity.scope = "user")
    BY <1>5, <2>2, SilentLeads DEF ProbeDenied, Denied, callVars
  <2>3. QED
    BY <2>1, <2>2
<1>6. CASE ProbeAnswered
  <2>1. pc' = "over"
    BY <1>6, RolesAssumption
       DEF ProbeAnswered, Checked, Reported, Ends, Speaking, RolesAssumption
  <2>2. QED
    BY <1>6, <2>1 DEF ProbeAnswered, callVars
<1>7. CASE ProbeAborted \/ WhyUnreachable
  BY <1>7 DEF ProbeAborted, WhyUnreachable, Interrupted, Ends, callVars
<1>8. CASE ControlAsked
  BY <1>8 DEF ControlAsked, Ends, callVars
<1>9. CASE InstalledAnswered
  BY <1>9 DEF InstalledAnswered, Ends, callVars
<1>10. CASE AuthorityAnswered \/ StartAnswered \/ PauseEnds
  BY <1>10 DEF AuthorityAnswered, StartAnswered, PauseEnds, Interrupted, Ends, callVars
<1>11. QED
  BY <1>1, <1>2, <1>3, <1>4, <1>5, <1>6, <1>7, <1>8, <1>9, <1>10 DEF Next, AttachStep

\* What setup attaches to was checked.
LEMMA CheckedKept ==
  ASSUME TypeOK, AskedInOrder, SetupIsChecked, [Next]_vars
  PROVE  SetupIsChecked'
<1> SUFFICES ASSUME role' = "setup"
             PROVE  /\ result' = "reported" => info' = "good"
                    /\ result' \in Attached \ {"reported"} => identity'.scope = "system"
  BY DEF SetupIsChecked
<1>1. role = "setup" /\ identity' = identity
  BY CallerFixed
<1> USE DEF TypeOK, AskedInOrder, SetupIsChecked, Attached, Unreachables
<1>2. CASE UNCHANGED <<result, info>>
  BY <1>1, <1>2
<1>3. CASE result' \in Errors /\ UNCHANGED info
  BY <1>3 DEF Errors
<1>4. CASE ProbeFails
  BY <1>1, <1>2, <1>4, SilentLeads DEF ProbeFails
<1>5. CASE ProbeDenied
  BY <1>1, <1>2, <1>3, <1>5, SilentLeads DEF ProbeDenied, Denied, Ends, Errors
<1>6. CASE ProbeAnswered
  <2>1. CASE host = "good"
    BY <1>1, <1>6, <2>1 DEF ProbeAnswered, Checked, Reported, Ends
  <2>2. CASE host # "good"
    <3>1. result' \in Errors
      BY <1>1, <1>6, <2>2 DEF ProbeAnswered, Checked, Reported, Ends, Speaking, Errors
    <3>2. QED
      BY <3>1 DEF Errors
  <2>3. QED
    BY <2>1, <2>2
<1>7. CASE WhyUnreachable
  BY <1>1, <1>7 DEF WhyUnreachable
<1>8. CASE HostChanges \/ Abort \/ Tick \/ Dialled \/ LateDial \/ UNCHANGED vars
  BY <1>2, <1>8 DEF HostChanges, Abort, Tick, Dialled, LateDial, vars, attachVars
<1>9. CASE Start \/ ProbeAborted \/ ControlAsked \/ InstalledAnswered \/ AuthorityAnswered
           \/ StartAnswered \/ PauseEnds
  BY <1>2, <1>3, <1>9 DEF Start, ProbeAborted, ControlAsked, InstalledAnswered,
     AuthorityAnswered, StartAnswered, PauseEnds, Interrupted, Ends, Errors
<1>10. QED
  BY <1>4, <1>5, <1>6, <1>7, <1>8, <1>9 DEF Next, AttachStep

\* A connection to the enrollment socket is open only while its answer is awaited.
LEMMA ConnectionKept ==
  ASSUME TypeOK, NoConnectionLeft, [Next]_vars
  PROVE  NoConnectionLeft'
<1> USE DEF TypeOK, NoConnectionLeft
<1>1. CASE HostChanges \/ Abort \/ Tick \/ UNCHANGED vars
  BY <1>1 DEF HostChanges, Abort, Tick, vars, attachVars
<1>2. CASE AttachStep
  BY <1>2 DEF AttachStep, Start, Dialled, ProbeFails, ProbeDenied, ProbeAnswered,
     ProbeAborted, LateDial, WhyUnreachable, ControlAsked, InstalledAnswered,
     AuthorityAnswered, StartAnswered, PauseEnds
<1>3. QED
  BY <1>1, <1>2 DEF Next

\* A start is the first, is setup's, and comes after all that had to be found out.
LEMMA StartsDuly ==
  ASSUME TypeOK, AskedInOrder, Next, starts' # starts
  PROVE  /\ starts = 0 /\ role = "setup"
         /\ identity.scope = "user" /\ identity.own /\ ~identity.named
         /\ found' = {"enroll silent", "control silent", "enabled", "authorized"}
         /\ ~aborted
<1>1. AuthorityAnswered
  BY DEF Next, HostChanges, Abort, Tick, AttachStep, Start, Dialled, ProbeFails, ProbeDenied,
         ProbeAnswered, ProbeAborted, LateDial, WhyUnreachable, ControlAsked,
         InstalledAnswered, StartAnswered, PauseEnds, attachVars
<1>2. QED
  BY <1>1 DEF AuthorityAnswered, AskedInOrder

\* The attachment's invariant, of whatever behaves like one.
LEMMA AttachInductive == Init /\ [][Next]_vars => [](TypeOK /\ AttachInv)
<1>1. ASSUME Init PROVE TypeOK /\ AttachInv
  <2>1. TypeOK
    <3>1. 0 \in 0 .. MaxChanges /\ 0 \in 0 .. ServiceWait + 1 /\ 0 \in 0 .. ServiceWait + 2
      BY WaitAssumption, ChangesAssumption DEF WaitAssumption, ChangesAssumption
    <3>2. pc \in PCs /\ result \in Results /\ found \subseteq Findings
      BY <1>1 DEF Init, PCs, Results
    <3>3. QED
      BY <1>1, <3>1, <3>2 DEF Init, TypeOK
  <2>2. AskedInOrder /\ NoConnectionLeft
    BY <1>1 DEF Init, AskedInOrder, NoConnectionLeft
  <2>3. SetupIsChecked
    BY <1>1 DEF Init, SetupIsChecked, Attached, Unreachables
  <2>4. QED
    BY <2>1, <2>2, <2>3 DEF AttachInv
<1>2. ASSUME TypeOK, AttachInv, [Next]_vars PROVE TypeOK' /\ AttachInv'
  <2>1. AskedInOrder /\ NoConnectionLeft /\ SetupIsChecked
    BY <1>2 DEF AttachInv
  <2>2. QED
    BY <1>2, <2>1, AttachTypes, OrderKept, CheckedKept, ConnectionKept DEF AttachInv
<1>3. QED
  BY <1>1, <1>2, PTL

\* Attach: the state keeps its types.
THEOREM AttachTypeCorrect == Spec => []TypeOK
BY AttachInductive, PTL DEF Spec

\* Attach: setup attaches only to a host that reported all it needs, whichever probe
\* found it and however often the host changed meanwhile; unanswered, only to a system
\* install.
-----------------------------------------------------------------------------
(* The opening.                                                            *)

\* Beside an opening the attachment goes on as by itself.
LEMMA OpeningAttaches == OpeningSpec => Init /\ [][Next]_vars
<1>1. OpeningInit => Init
  BY DEF OpeningInit
<1>2. [OpeningNext]_allVars => [Next]_vars
  BY DEF OpeningNext, OpenStep, Open, Connected, ConnectAborted, LateConnect, SelfAnswered,
         ListAnswered, MembersAnswered, Reads, RequestFails, WarmUpAborted, CloseSettles,
         Outage, Reseated, ChangeUnreported, allVars
<1>3. QED
  BY <1>1, <1>2, PTL DEF OpeningSpec

\* The opening's state stays within its types.
LEMMA OpeningTypes ==
  ASSUME OpeningTypeOK, [OpeningNext]_allVars
  PROVE  OpeningTypeOK'
<1> USE DEF OpeningTypeOK, Warming, Live
<1>1. CASE UNCHANGED openVars
  BY <1>1 DEF openVars
<1>2. CASE Open \/ Connected \/ ConnectAborted \/ LateConnect
  BY <1>2 DEF Open, Connected, ConnectAborted, LateConnect
<1>3. CASE SelfAnswered \/ RequestFails \/ WarmUpAborted \/ CloseSettles
  BY <1>3 DEF SelfAnswered, RequestFails, WarmUpAborted, CloseSettles, Fails, Closes
<1>4. CASE ListAnswered \/ MembersAnswered
  BY <1>4 DEF ListAnswered, MembersAnswered, Reads
<1>5. CASE Outage \/ Reseated \/ ChangeUnreported
  BY <1>5 DEF Outage, Reseated, ChangeUnreported
<1>6. QED
  BY <1>1, <1>2, <1>3, <1>4, <1>5 DEF OpeningNext, OpenStep, allVars

\* What binds the client to the step of the opening is kept.
LEMMA WarmUpKept ==
  ASSUME OpeningTypeOK, WarmUpInv, [OpeningNext]_allVars
  PROVE  WarmUpInv'
<1> USE DEF OpeningTypeOK, WarmUpInv, OpenedFresh, Warming, Live
<1>1. CASE UNCHANGED openVars
  BY <1>1 DEF openVars
<1>2. CASE Open \/ Connected \/ ConnectAborted \/ LateConnect
  <2>1. CASE Open
    BY <2>1 DEF Open
  <2>2. CASE Connected
    BY <2>2 DEF Connected
  <2>3. CASE ConnectAborted \/ LateConnect
    BY <2>3 DEF ConnectAborted, LateConnect
  <2>4. QED
    BY <1>2, <2>1, <2>2, <2>3
<1>3. CASE SelfAnswered \/ RequestFails \/ WarmUpAborted \/ CloseSettles
  BY <1>3 DEF SelfAnswered, Answers, RequestFails, WarmUpAborted, CloseSettles, Fails, Closes
<1>4. CASE ListAnswered
  BY <1>4 DEF ListAnswered, Reads, Answers
<1>5. CASE MembersAnswered
  BY <1>5 DEF MembersAnswered, Reads, Answers
<1>6. CASE Outage \/ Reseated \/ ChangeUnreported
  BY <1>6 DEF Outage, Reseated, ChangeUnreported
<1>7. QED
  BY <1>1, <1>2, <1>3, <1>4, <1>5, <1>6 DEF OpeningNext, OpenStep, allVars

\* The opening's invariant.
LEMMA OpeningInductive == OpeningSpec => [](OpeningTypeOK /\ WarmUpInv)
<1>1. OpeningInit => OpeningTypeOK /\ WarmUpInv
  BY DEF OpeningInit, OpeningTypeOK, WarmUpInv, OpenedFresh, Warming, Live
<1>2. OpeningTypeOK /\ WarmUpInv /\ [OpeningNext]_allVars => (OpeningTypeOK /\ WarmUpInv)'
  BY OpeningTypes, WarmUpKept
<1>3. QED
  BY <1>1, <1>2, PTL DEF OpeningSpec

\* Opening: the state of both keeps its types.
THEOREM OpeningTypeCorrect == OpeningSpec => [](TypeOK /\ OpeningTypeOK)
BY OpeningAttaches, AttachInductive, OpeningInductive, PTL

\* Opening: whatever an abort, a failure or a late answer interrupts, no enrollment socket
\* is open outside its await and no client is seated once the opening has rejected.
THEOREM LeavesNothingOpen == OpeningSpec => []NothingLeftOpen
<1>1. AttachInv /\ WarmUpInv => NothingLeftOpen
  BY DEF AttachInv, WarmUpInv, NothingLeftOpen, Warming
<1>2. QED
  BY <1>1, OpeningAttaches, AttachInductive, OpeningInductive, PTL

\* Opening: a session opens on the list and on the members of every room, and on none that
\* changed unseen, unless the client keeps a pending request over a reconnection.
THEOREM OpensFresh == OpeningSpec => []OpenedFresh
<1>1. WarmUpInv => OpenedFresh
  BY DEF WarmUpInv
<1>2. QED
  BY <1>1, OpeningInductive, PTL

\* Attach, by itself and under an opening: setup attaches only to a host that reported all
\* it needs, whichever probe found it and however often the host changed meanwhile;
\* unanswered, only to a system install.
THEOREM SetupChecksItsHost ==
  /\ Spec => []SetupIsChecked
  /\ OpeningSpec => []SetupIsChecked
<1>1. AttachInv => SetupIsChecked
  BY DEF AttachInv
<1>2. Spec => []SetupIsChecked
  BY <1>1, AttachInductive, PTL DEF Spec
<1>3. OpeningSpec => []SetupIsChecked
  BY <1>1, OpeningAttaches, AttachInductive, PTL
<1>4. QED
  BY <1>2, <1>3

\* Attach, by itself and under an opening: the service is started once, by setup, for the
\* installed service's own unconfigured socket, after all that has to be found out first,
\* and not after an abort.
THEOREM StartsTheServiceDuly ==
  /\ Spec => StartDue
  /\ OpeningSpec => StartDue
<1>1. TypeOK /\ AttachInv /\ [Next]_vars =>
        [starts' # starts =>
           /\ starts = 0 /\ role = "setup"
           /\ identity.scope = "user" /\ identity.own /\ ~identity.named
           /\ found' = {"enroll silent", "control silent", "enabled", "authorized"}
           /\ ~aborted]_vars
  BY StartsDuly DEF AttachInv
<1>2. Spec => StartDue
  BY <1>1, AttachInductive, PTL DEF Spec, StartDue
<1>3. OpeningSpec => StartDue
  BY <1>1, OpeningAttaches, AttachInductive, PTL DEF StartDue
<1>4. QED
  BY <1>2, <1>3
=============================================================================
