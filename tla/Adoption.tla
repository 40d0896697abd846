------------------------------ MODULE Adoption ------------------------------
(***************************************************************************)
(* One AdoptionTracker (src/src/monitor/adoption.ts): the life of a single  *)
(* inbound message between its dispatch to OpenClaw's core and the durable  *)
(* watermark commit that makes the cumulative ack truthful.                 *)
(*                                                                         *)
(* Three parties act on it in any order: core, through the lifecycle        *)
(* callbacks and the dispatch promise; the ingress loop, through abort and  *)
(* close; and the stall watchdog.  Every callback runs to completion before *)
(* the next one (JavaScript), so each is one action.  The state "adopting"  *)
(* exists only inside commitAdoption, which never yields, and is therefore  *)
(* not a value of `state` here.                                            *)
(***************************************************************************)
EXTENDS Integers

CONSTANTS
  StallTicks,  \* DEFAULT_INGRESS_ADOPTION_STALL_MS, in ticks of the clock
  MaxArms      \* bound: how often core defers or heartbeats one turn

ASSUME StallAssumption == StallTicks \in Nat \ {0}
ASSUME ArmsAssumption  == MaxArms \in Nat

VARIABLES
  state,      \* #state
  settled,    \* the `settled` promise: "open", or what it settled with
  memo,       \* #commitPromise: "none", "ok" or "rejected"
  quiet,      \* ticks since the watchdog was armed; Disarmed: no timer
  dispatch,   \* the dispatch promise: "running" or "settled"
  commits,    \* how often the store has taken this message's watermark
  cleared,    \* core was told it may run the model: an onAdopted that resolved
  arms,       \* how often core re-armed the watchdog (bounded by MaxArms)
  silence     \* history: ticks since core last showed that the turn lives

trackerVars == <<state, settled, memo, quiet, dispatch, commits, cleared, arms, silence>>

Live        == {"pending", "deferred"}
Terminal    == {"adopted", "abandoned", "closed"}
Equivalents == {"declined", "processed", "callback_free_completion"}
Successes   == {"adopted"} \cup Equivalents
Failures    == {"abandoned", "aborted", "dispatch_rejected", "watchdog",
                "commit_failed", "closed"}
Disarmed    == -1

TrackerTypeOK ==
  /\ state \in Live \cup Terminal
  /\ settled \in {"open"} \cup Successes \cup Failures
  /\ memo \in {"none", "ok", "rejected"}
  /\ quiet \in Disarmed .. StallTicks
  /\ dispatch \in {"running", "settled"}
  /\ commits \in Nat
  /\ cleared \in {"no", "yes"}
  /\ arms \in 0 .. MaxArms
  /\ silence \in Nat

TrackerInit ==
  /\ state = "pending"
  /\ settled = "open"
  /\ memo = "none"
  /\ quiet = 0
  /\ dispatch = "running"
  /\ commits = 0
  /\ cleared = "no"
  /\ arms = 0
  /\ silence = 0

-----------------------------------------------------------------------------
(* What the handlers are built from.                                       *)

\* A promise settles once; a later resolve or reject is ignored.
Settle(r) == settled' = IF settled = "open" THEN r ELSE settled

\* #fail: a live tracker is abandoned; a terminal one ignores the call.
Fail(reason) ==
  \/ /\ state \in Live
     /\ state' = "abandoned"
     /\ quiet' = Disarmed
     /\ Settle(reason)
  \/ /\ state \in Terminal
     /\ UNCHANGED <<state, settled, quiet>>

\* Mutants of CommitAdoption: no memo; no refusal by a turn that was given up.
CommitUnmemoized(outcome) ==
  /\ state \notin {"abandoned", "closed"}
  /\ state' = "adopted"
  /\ commits' = commits + 1
  /\ memo' = "ok"
  /\ quiet' = Disarmed
  /\ Settle(outcome)
  /\ commits < 2

CommitUnrefused(outcome) ==
  \/ /\ memo # "none"
     /\ UNCHANGED <<state, settled, memo, quiet, commits>>
  \/ /\ memo = "none"
     /\ state' = "adopted"
     /\ commits' = commits + 1
     /\ memo' = "ok"
     /\ quiet' = Disarmed
     /\ Settle(outcome)

\* commitAdoption: memoized; refused by an abandoned or closed tracker; else
\* the synchronous store write decides.
CommitAdoption(outcome) ==
  \/ /\ memo # "none"
     /\ UNCHANGED <<state, settled, memo, quiet, commits>>
  \/ /\ memo = "none"
     /\ state \in {"abandoned", "closed"}
     /\ memo' = "rejected"
     /\ UNCHANGED <<state, settled, quiet, commits>>
  \/ /\ memo = "none"
     /\ state \notin {"abandoned", "closed"}
     /\ state' = "adopted"
     /\ commits' = commits + 1
     /\ memo' = "ok"
     /\ quiet' = Disarmed
     /\ Settle(outcome)
  \/ /\ memo = "none"
     /\ state \notin {"abandoned", "closed"}
     /\ state' = "abandoned"
     /\ memo' = "rejected"
     /\ quiet' = Disarmed
     /\ Settle("commit_failed")
     /\ UNCHANGED commits

\* #armWatchdog replaces whatever timer there is.  Its three callers are signs of
\* life from core.
ArmWatchdog == quiet' = 0 /\ silence' = 0

-----------------------------------------------------------------------------
(* Core's calls.  Core is external: any callback may come at any time, more *)
(* than once, and after the tracker is terminal.                           *)

OnAdopted ==
  /\ CommitAdoption("adopted")
  /\ cleared' = IF memo' = "ok" THEN "yes" ELSE cleared
  /\ UNCHANGED <<dispatch, arms, silence>>

OnDeferred ==
  /\ arms < MaxArms
  /\ arms' = arms + 1
  /\ state' = IF state = "pending" THEN "deferred" ELSE state
  /\ ArmWatchdog
  /\ UNCHANGED <<settled, memo, dispatch, commits, cleared>>

OnDeferredHeartbeat ==
  /\ arms < MaxArms
  /\ arms' = arms + 1
  /\ ArmWatchdog
  /\ UNCHANGED <<state, settled, memo, dispatch, commits, cleared>>

OnEnded(reason) ==
  /\ Fail(reason)
  /\ UNCHANGED <<memo, dispatch, commits, cleared, arms, silence>>

OnAbandoned == OnEnded("abandoned")
OnFailed    == OnEnded("dispatch_rejected")
OnCancelled == OnEnded("aborted")

\* onDispatchSettled, by what the promise brought.  Ignored unless pending: a
\* deferred turn is settled by core's callbacks or by the watchdog only.
DispatchIgnored ==
  /\ dispatch = "running"
  /\ state # "pending"
  /\ dispatch' = "settled"
  /\ UNCHANGED <<state, settled, memo, quiet, commits, cleared, arms, silence>>

DispatchRejected ==
  /\ dispatch = "running"
  /\ state = "pending"
  /\ dispatch' = "settled"
  /\ Fail("dispatch_rejected")
  /\ UNCHANGED <<memo, commits, cleared, arms, silence>>

DispatchDeferred ==
  /\ dispatch = "running"
  /\ state = "pending"
  /\ dispatch' = "settled"
  /\ state' = "deferred"
  /\ ArmWatchdog
  /\ UNCHANGED <<settled, memo, commits, cleared, arms>>

\* Declined by core, visible output, or nothing at all: adopted-equivalent.
DispatchCompleted(outcome) ==
  /\ dispatch = "running"
  /\ state = "pending"
  /\ dispatch' = "settled"
  /\ CommitAdoption(outcome)
  /\ UNCHANGED <<cleared, arms, silence>>

-----------------------------------------------------------------------------
(* The loop's calls and the watchdog.                                      *)

\* abort(): never for an adopted turn.
Abort ==
  /\ Fail("aborted")
  /\ UNCHANGED <<memo, dispatch, commits, cleared, arms, silence>>

\* close(): the generation ends; a late onAdopted is refused from here on.
Close ==
  /\ state # "adopted"
  /\ quiet' = Disarmed
  /\ IF state = "abandoned"
       THEN UNCHANGED <<state, settled>>
       ELSE /\ state' = "closed"
            /\ Settle("closed")
  /\ UNCHANGED <<memo, dispatch, commits, cleared, arms, silence>>

\* Time passes for an armed timer.
Tick ==
  /\ quiet \in 0 .. StallTicks - 1
  /\ quiet' = quiet + 1
  /\ silence' = silence + 1
  /\ UNCHANGED <<state, settled, memo, dispatch, commits, cleared, arms>>

\* Mutant of Watchdog: a deferred turn is not given up.
WatchdogPendingOnly ==
  /\ quiet = StallTicks
  /\ quiet' = Disarmed
  /\ IF state = "pending"
       THEN /\ state' = "abandoned"
            /\ Settle("watchdog")
       ELSE UNCHANGED <<state, settled>>
  /\ UNCHANGED <<memo, dispatch, commits, cleared, arms, silence>>

\* The timer fires once; on a terminal tracker #fail ignores it.
Watchdog ==
  /\ quiet = StallTicks
  /\ quiet' = Disarmed
  /\ IF state \in Live
       THEN /\ state' = "abandoned"
            /\ Settle("watchdog")
       ELSE UNCHANGED <<state, settled>>
  /\ UNCHANGED <<memo, dispatch, commits, cleared, arms, silence>>

-----------------------------------------------------------------------------
CoreCalls ==
  \/ OnAdopted
  \/ OnDeferred
  \/ OnDeferredHeartbeat
  \/ OnAbandoned
  \/ OnFailed
  \/ OnCancelled
  \/ DispatchIgnored
  \/ DispatchRejected
  \/ DispatchDeferred
  \/ \E o \in Equivalents : DispatchCompleted(o)

TrackerNext == CoreCalls \/ Abort \/ Close \/ Tick \/ Watchdog

TrackerSpec == TrackerInit /\ [][TrackerNext]_trackerVars

\* Timers fire: time passes and an expired watchdog runs.  Nothing is assumed
\* of core, and nothing of the loop.
TrackerFairSpec == TrackerSpec /\ WF_trackerVars(Tick) /\ WF_trackerVars(Watchdog)

-----------------------------------------------------------------------------
(* Properties.                                                             *)

\* The store takes a message at most once, whatever mix of onAdopted calls
\* and dispatch results core produces (the memo of commitAdoption), and core
\* is cleared to run the model only on a message the store has taken.
CommitOnce ==
  /\ commits <= 1
  /\ cleared = "yes" => commits = 1

\* The promise the loop waits on tells the truth about the store: it is open
\* exactly while the tracker is live, it resolves exactly when the watermark
\* was written, and it rejects exactly when it was not.
SettledTellsTruth ==
  /\ settled = "open" <=> state \in Live
  /\ settled \in Successes <=> commits = 1
  /\ settled \in Failures => commits = 0

\* A tracker whose turn is still undecided always has a timer running: no
\* path (a deferral, a heartbeat, a dispatch that resolves as deferred) leaves
\* the loop waiting with nothing left to wake it.
AlwaysWatched == state \in Live => quiet # Disarmed

\* Once decided, a turn stays decided: after a failure, an abort or a close no
\* late callback commits it, and after a commit nothing takes it back.
DecidedForGood ==
  [][settled # "open" => settled' = settled /\ commits' = commits]_trackerVars

\* The watchdog gives up only on a turn that showed no life for the whole stall
\* interval: a deferral or heartbeat in between restarts the interval.
GivesUpOnlyOnSilence ==
  [][settled = "open" /\ settled' = "watchdog" => silence = StallTicks]_trackerVars

\* The loop is never left waiting: if core's heartbeats for the turn are
\* finitely many, the promise settles although core never answers at all.
EventuallySettled == <>(settled # "open")

\* The watchdog errs to neither side: it never gives up on a turn that lives, and it
\* never leaves the loop waiting.
WatchdogErrsToNeitherSide == GivesUpOnlyOnSilence /\ EventuallySettled

\* The tracker keeps the contract of module Turn, which is all the loop relies on.
Promise == INSTANCE Turn WITH
  stage   <- IF state \in Terminal \ {"adopted"} THEN "failed" ELSE state,
  covered <- commits = 1
KeepsPromise == Promise!Spec

-----------------------------------------------------------------------------
\* The inductive invariant behind them (IngressProofs): the tracker's state, its
\* promise, its memo and the store always tell the same story.
OneStory ==
  /\ settled = "open" <=> state \in Live
  /\ settled \in Successes <=> state = "adopted"
  /\ memo = "ok" <=> state = "adopted"
  /\ memo = "rejected" => state \in {"abandoned", "closed"}
  /\ commits = IF state = "adopted" THEN 1 ELSE 0
  /\ cleared = "yes" => state = "adopted"
  /\ AlwaysWatched
=============================================================================
