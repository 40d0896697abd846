-------------------------------- MODULE Attach --------------------------------
(***************************************************************************)
(* One attachment to the device host (src/src/monitor/attach.ts): the probe  *)
(* of the enrollment socket raced with the caller's signal, and the three    *)
(* callers of it.  The runtime attaches to what is there.  Setup may start   *)
(* the installed user service and then waits for it within a budget.         *)
(* "resolve" is the runtime asking again where the session socket is.        *)
(*                                                                         *)
(* One action is the code between two awaits.  A promise raced with a signal *)
(* that has fired does not settle any more: what would settle it is guarded  *)
(* by ~Signalled.                                                          *)
(***************************************************************************)
EXTENDS Integers

CONSTANTS
  Roles,        \* the callers of a run, of {"runtime", "setup", "resolve"}
  ServiceWait,  \* SERVICE_START_WAIT_MS, in ticks of WAIT_POLL_MS
  MaxChanges    \* bound: how often the host comes or goes

ASSUME RolesAssumption   == Roles \subseteq {"runtime", "setup", "resolve"}
ASSUME WaitAssumption    == ServiceWait \in Nat \ {0}
ASSUME ChangesAssumption == MaxChanges \in Nat

\* What listens: nothing; a host without an enrollment socket; one that refuses this
\* user; one too old; one whose dialled socket is not its enrollment socket; one that
\* reports no session socket; one as it should be.
Hosts    == {"down", "preenroll", "gated", "old", "wrong", "nosession", "good"}
Speaking == {"old", "wrong", "nosession", "good"}

Unreachables == {"not_installed", "disabled", "not_running", "system_down"}
Errors  == {"aborted", "privilege", "too_old", "wrong_role", "unsupported", "elsewhere",
            "lookup", "no_service", "off", "refused", "not_started", "not_answering"}
Attached == {"reported", "fallback"} \cup Unreachables
Results  == {"none"} \cup Attached \cup Errors

VARIABLES
  host, changes,   \* external: what listens; how often that changed
  unit,            \* external: the OS unit, "absent", "disabled" or "enabled"
  role, identity,  \* of this attachment
  aborted,         \* the caller's signal
  pc,              \* where attach is suspended
  conn,            \* the probe's connection; "abandoned": still dialling, abortWon
  service,         \* "untouched", "asked" or "started"
  waited,          \* ticks since the service was started
  wake,            \* when the pause between two probes ends
  result,
  info,            \* history: the host whose daemon_info decided the result
  starts,          \* history: how often the service was started
  found            \* history: what this attachment found out

hostVars   == <<host, changes, unit>>
callVars   == <<role, identity, aborted>>
attachVars == <<pc, conn, service, waited, wake, result, info, starts, found>>
vars == <<hostVars, callVars, attachVars>>

\* scope; whether the configuration names paths; whether the enrollment socket is the
\* installed user service's own.
Identities ==
  {i \in [scope : {"user", "system"}, named : BOOLEAN, own : BOOLEAN] :
     i.scope = "system" => ~i.named /\ ~i.own}

PCs == {"idle", "dial", "info", "why", "control", "installed", "authority", "starting",
        "pause", "over"}

Findings == {"enroll silent", "control silent", "gated", "spoken", "enabled", "authorized"}

TypeOK ==
  /\ host \in Hosts /\ changes \in 0 .. MaxChanges
  /\ unit \in {"absent", "disabled", "enabled"}
  /\ role \in Roles /\ identity \in Identities /\ aborted \in BOOLEAN
  /\ pc \in PCs
  /\ conn \in {"none", "dialling", "open", "abandoned"}
  /\ service \in {"untouched", "asked", "started"}
  /\ waited \in 0 .. ServiceWait + 1 /\ wake \in 0 .. ServiceWait + 2
  /\ result \in Results /\ info \in Speaking \cup {"none"}
  /\ starts \in Nat
  /\ found \subseteq Findings

Init ==
  /\ host \in Hosts /\ changes = 0
  /\ unit \in {"absent", "disabled", "enabled"}
  /\ role \in Roles /\ identity \in Identities /\ aborted = FALSE
  /\ pc = "idle" /\ conn = "none" /\ service = "untouched"
  /\ waited = 0 /\ wake = 0
  /\ result = "none" /\ info = "none" /\ starts = 0 /\ found = {}

-----------------------------------------------------------------------------
(* The host, the caller and the clock (external).                          *)

HostChanges ==
  /\ changes < MaxChanges
  /\ changes' = changes + 1
  /\ \/ host = "down" /\ host' \in Hosts \ {"down"}
     \/ host # "down" /\ host' = "down"
  /\ UNCHANGED <<unit, callVars, attachVars>>

Abort ==
  /\ ~aborted
  /\ aborted' = TRUE
  /\ UNCHANGED <<hostVars, role, identity, attachVars>>

Started == service = "started"

\* The signal a probe is raced with: the caller's, and in the wait also the budget.
Signalled == aborted \/ (Started /\ waited >= ServiceWait)

\* The pause is over, or the budget: such a timer fires on its tick.
TimerDue == Signalled \/ (pc = "pause" /\ waited >= wake)

Tick ==
  /\ Started
  /\ pc \in {"dial", "info", "pause"}
  /\ ~TimerDue
  /\ waited <= ServiceWait
  /\ waited' = waited + 1
  /\ UNCHANGED <<hostVars, callVars, pc, conn, service, wake, result, info, starts, found>>

-----------------------------------------------------------------------------
(* Steps of attach.                                                        *)

Ends(how) == pc' = "over" /\ result' = how

\* #attachment of what a host reported; resolveSessionSocket catches the error.
Reported ==
  CASE host # "nosession"                     -> Ends("reported")
    [] host = "nosession" /\ role = "resolve" -> Ends("fallback")
    [] host = "nosession" /\ role # "resolve" -> Ends("unsupported")

\* Mutant of Checked: the probe after the start is not checked.
CheckedFirst ==
  IF Started THEN Reported
  ELSE CASE host = "old"   -> Ends("too_old")
         [] host = "wrong" -> Ends("wrong_role")
         [] OTHER          -> Reported

\* checkVersion, checkEnrollRole, #attachment.
Checked ==
  CASE host = "old"   -> Ends("too_old")
    [] host = "wrong" -> Ends("wrong_role")
    [] OTHER          -> Reported

\* The caller's use of what the probe found: nothing, or PrivilegeError.
Silent ==
  CASE role = "resolve" -> Ends("fallback")
    [] role = "runtime" -> pc' = "why" /\ UNCHANGED result
    [] role = "setup" /\ identity.scope = "system" -> Ends("fallback")
    [] role = "setup" /\ identity.scope = "user" /\ ~Started -> pc' = "control" /\ UNCHANGED result
    [] role = "setup" /\ Started -> pc' = "pause" /\ UNCHANGED result

Denied ==
  IF role = "setup" /\ identity.scope = "user" THEN Ends("privilege") ELSE Silent

\* An abort ends the caller; the budget ends only the wait.
Interrupted == Ends(IF aborted THEN "aborted" ELSE "not_answering")

\* attach, resolveSessionSocket: to the probe's dial.
Start ==
  /\ pc = "idle"
  /\ IF aborted THEN Ends("aborted") /\ UNCHANGED conn
                ELSE pc' = "dial" /\ conn' = "dialling" /\ UNCHANGED result
  /\ UNCHANGED <<hostVars, callVars, service, waited, wake, info, starts, found>>

\* connectEnroll settles.
Dialled ==
  /\ pc = "dial" /\ ~Signalled
  /\ host \in Speaking
  /\ pc' = "info"
  /\ conn' = "open"
  /\ UNCHANGED <<hostVars, callVars, service, waited, wake, result, info, starts, found>>

\* Nothing is there, or the connection breaks: the probe found nothing.
ProbeFails ==
  /\ pc \in {"dial", "info"} /\ ~Signalled
  /\ host # "gated" \/ pc = "info"
  /\ conn' = "none"
  /\ Silent
  /\ wake' = waited + 1
  /\ found' = found \cup {"enroll silent"}
  /\ UNCHANGED <<hostVars, callVars, service, waited, info, starts>>

ProbeDenied ==
  /\ pc = "dial" /\ ~Signalled
  /\ host = "gated"
  /\ conn' = "none"
  /\ Denied
  /\ wake' = waited + 1
  /\ found' = found \cup {"gated"}
  /\ UNCHANGED <<hostVars, callVars, service, waited, info, starts>>

\* daemon_info is answered; the connection is closed.
ProbeAnswered ==
  /\ pc = "info" /\ ~Signalled
  /\ host \in Speaking
  /\ conn' = "none"
  /\ IF role = "setup" THEN Checked ELSE Reported
  /\ info' = host
  /\ found' = found \cup {"spoken"}
  /\ UNCHANGED <<hostVars, callVars, service, waited, wake, starts>>

\* Mutant of ProbeAborted: daemon_info is not raced.
DialAborted ==
  /\ pc = "dial" /\ Signalled
  /\ conn' = "abandoned"
  /\ Interrupted
  /\ UNCHANGED <<hostVars, callVars, service, waited, wake, info, starts, found>>

\* The signal fires under the probe: an open connection is closed, a dial left behind.
ProbeAborted ==
  /\ pc \in {"dial", "info"} /\ Signalled
  /\ conn' = IF pc = "dial" THEN "abandoned" ELSE "none"
  /\ Interrupted
  /\ UNCHANGED <<hostVars, callVars, service, waited, wake, info, starts, found>>

\* The dial that was left behind settles: a connection is closed at once.
LateDial ==
  /\ conn = "abandoned"
  /\ conn' = "none"
  /\ UNCHANGED <<hostVars, callVars, pc, service, waited, wake, result, info, starts, found>>

\* #whyUnreachable, raced with the signal.
WhyUnreachable ==
  /\ pc = "why"
  /\ \/ aborted /\ Ends("aborted")
     \/ /\ ~aborted
        /\ \/ identity.scope = "system" /\ Ends("system_down")
           \/ identity.scope = "user" /\ ~identity.own /\ Ends("not_running")
           \/ /\ identity.own
              /\ \/ Ends("not_running")
                 \/ unit = "absent" /\ Ends("not_installed")
                 \/ unit = "disabled" /\ Ends("disabled")
  /\ UNCHANGED <<hostVars, callVars, conn, service, waited, wake, info, starts, found>>

-----------------------------------------------------------------------------
(* Setup of a user-scope host that is silent.                              *)

\* controlSocketAnswers, at most a second and not raced: a host from before the
\* enrollment socket, unless it is slow; then whether this is the installed service's.
ControlAsked ==
  /\ pc = "control"
  /\ \/ host # "down" /\ Ends("too_old") /\ UNCHANGED found
     \/ /\ found' = found \cup {"control silent"}
        /\ IF identity.own /\ ~identity.named
             THEN pc' = "installed" /\ UNCHANGED result
             ELSE Ends("elsewhere")
  /\ UNCHANGED <<hostVars, callVars, conn, service, waited, wake, info, starts>>

\* userService.installed, raced; then the authority is asked for.
InstalledAnswered ==
  /\ pc = "installed"
  /\ \/ aborted /\ Ends("aborted") /\ UNCHANGED found
     \/ ~aborted /\ Ends("lookup") /\ UNCHANGED found
     \/ ~aborted /\ unit = "absent" /\ Ends("no_service") /\ UNCHANGED found
     \/ ~aborted /\ unit = "disabled" /\ Ends("off") /\ UNCHANGED found
     \/ /\ ~aborted /\ unit = "enabled"
        /\ pc' = "authority" /\ UNCHANGED result
        /\ found' = found \cup {"enabled"}
  /\ UNCHANGED <<hostVars, callVars, conn, service, waited, wake, info, starts>>

\* Mutant of AuthorityAnswered: the signal is not looked at again.
AuthorityAnsweredBlind ==
  /\ pc = "authority"
  /\ \/ Ends("refused") /\ UNCHANGED <<service, starts, found>>
     \/ /\ pc' = "starting" /\ UNCHANGED result
        /\ service' = "asked"
        /\ starts' = starts + 1
        /\ found' = found \cup {"authorized"}
  /\ UNCHANGED <<hostVars, callVars, conn, waited, wake, info>>

\* beforeEffect settles, not raced; then the OS is asked to start the service.
AuthorityAnswered ==
  /\ pc = "authority"
  /\ \/ Ends("refused") /\ UNCHANGED <<service, starts, found>>
     \/ aborted /\ Ends("aborted") /\ UNCHANGED <<service, starts, found>>
     \/ /\ ~aborted
        /\ pc' = "starting" /\ UNCHANGED result
        /\ service' = "asked"
        /\ starts' = starts + 1
        /\ found' = found \cup {"authorized"}
  /\ UNCHANGED <<hostVars, callVars, conn, waited, wake, info>>

\* userService.start, raced: the wait begins with a probe.
StartAnswered ==
  /\ pc = "starting"
  /\ \/ aborted /\ Ends("aborted") /\ UNCHANGED <<service, conn>>
     \/ ~aborted /\ Ends("off") /\ UNCHANGED <<service, conn>>
     \/ ~aborted /\ Ends("not_started") /\ UNCHANGED <<service, conn>>
     \/ /\ ~aborted
        /\ service' = "started"
        /\ pc' = "dial" /\ conn' = "dialling" /\ UNCHANGED result
  /\ UNCHANGED <<hostVars, callVars, waited, wake, info, starts, found>>

\* #sleepOrAbort.
PauseEnds ==
  /\ pc = "pause"
  /\ \/ Signalled /\ Interrupted /\ UNCHANGED conn
     \/ ~Signalled /\ waited >= wake /\ pc' = "dial" /\ conn' = "dialling" /\ UNCHANGED result
  /\ UNCHANGED <<hostVars, callVars, service, waited, wake, info, starts, found>>

-----------------------------------------------------------------------------
AttachStep ==
  \/ Start \/ Dialled \/ ProbeFails \/ ProbeDenied \/ ProbeAnswered \/ ProbeAborted
  \/ LateDial \/ WhyUnreachable \/ ControlAsked \/ InstalledAnswered
  \/ AuthorityAnswered \/ StartAnswered \/ PauseEnds

Next == HostChanges \/ Abort \/ Tick \/ AttachStep

\* The clock, what the fired signal does, and the awaits that have a time limit of their
\* own: the control socket's (a second) and the authority's.  A dial or daemon_info
\* may stall for ever, and so may the OS.
Fairness ==
  /\ WF_vars(Tick) /\ WF_vars(ProbeAborted) /\ WF_vars(PauseEnds)
  /\ WF_vars(Start) /\ WF_vars(ControlAsked) /\ WF_vars(AuthorityAnswered)
  /\ WF_vars(aborted /\ (WhyUnreachable \/ InstalledAnswered \/ StartAnswered))

Spec == Init /\ [][Next]_vars /\ Fairness

-----------------------------------------------------------------------------
(* Properties.                                                             *)

\* attach.ts:15-19: the service is started once, by setup, for the installed service's
\* own socket and only if no path is configured, after neither socket was found to be
\* spoken to or refused, with the authority given, and not after an abort.
StartDue ==
  [][starts' # starts =>
       /\ starts = 0 /\ role = "setup"
       /\ identity.scope = "user" /\ identity.own /\ ~identity.named
       /\ found' = {"enroll silent", "control silent", "enabled", "authorized"}
       /\ ~aborted]_vars

\* What setup attaches to is a host it may use: one that reported its version, its
\* enrollment socket and its session socket, whichever probe found it.  Only a system
\* install is attached to unanswered.
SetupIsChecked ==
  role = "setup" =>
    /\ result = "reported" => info = "good"
    /\ result \in Attached \ {"reported"} => identity.scope = "system"

\* A connection to the enrollment socket is open only while its probe awaits an answer:
\* none outlives the attachment, whenever the dial settles.
NoConnectionLeft == conn = "open" => pc = "info"

\* "an abort must not wait", and "cannot stretch the advertised wait": an abort ends the
\* attachment, and so does the wait by itself, though every request may stall.
AttachEnds == (aborted \/ Started) ~> pc = "over"
=============================================================================
