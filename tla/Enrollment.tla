----------------------------- MODULE Enrollment -----------------------------
(***************************************************************************)
(* Enrollment of an agent's device from a conversation: the `start` of the   *)
(* tool (src/src/tools/enroll.ts), the lease with its three minutes          *)
(* (src/src/ceremony.ts), the pairing poll, and the human's Yes and No on    *)
(* the page (src/src/enrollment-page.ts), down to the config write.          *)
(*                                                                         *)
(* One action is the code between two awaits.  All enrollments are for the   *)
(* same account, so that they meet in the config.                            *)
(***************************************************************************)
EXTENDS Integers, FiniteSets

CONSTANTS
  Enrollments,    \* bound: the calls of `start`
  Conversations,
  Nobody          \* no account in the config

ASSUME NobodyAssumption == Nobody \notin Enrollments

Starts  == {"none", "listening", "attaching", "creating", "opening", "disposing", "over"}
Leases  == {"none", "live", "disposing", "gone"}
Polls   == {"off", "running", "enrolled", "ended", "failed"}
States  == {"none", "scanning", "words", "confirmed", "enrolled", "committing",
            "done", "failed", "cancelled"}
Entries == {"none", "active", "recent", "dropped"}
Yeses   == {"none", "words", "polled", "info", "mint", "probe", "guarded", "write",
            "written", "over"}

VARIABLES
  conv,      \* the conversation of each enrollment
  start,     \* where its `start` is suspended
  lease,     \* EnrollmentLease; gone: the connection and the attachment are
  poll,      \* pollPairing, lease.terminal
  state,     \* active.state
  entry,     \* where the registry has it
  yes,       \* where confirmEnrollment is suspended
  refused,   \* history: the human's No was answered with ok
  token,     \* the host's token: "none", "minted", or "lost" with the reply
  told,      \* the outcome names the token to the human
  account    \* the config: the enrollment the account was written by

vars == <<conv, start, lease, poll, state, entry, yes, refused, token, told, account>>

TypeOK ==
  /\ conv \in [Enrollments -> Conversations]
  /\ start \in [Enrollments -> Starts]
  /\ lease \in [Enrollments -> Leases]
  /\ poll \in [Enrollments -> Polls]
  /\ state \in [Enrollments -> States]
  /\ entry \in [Enrollments -> Entries]
  /\ yes \in [Enrollments -> Yeses]
  /\ refused \in [Enrollments -> {"no", "yes"}]
  /\ token \in [Enrollments -> {"none", "minted", "lost"}]
  /\ told \in [Enrollments -> {"no", "yes"}]
  /\ account \in Enrollments \cup {Nobody}
  /\ \A e \in Enrollments : state[e] = "none" <=> entry[e] = "none"

Init ==
  /\ conv \in [Enrollments -> Conversations]
  /\ start = [e \in Enrollments |-> "none"]
  /\ lease = [e \in Enrollments |-> "none"]
  /\ poll = [e \in Enrollments |-> "off"]
  /\ state = [e \in Enrollments |-> "none"]
  /\ entry = [e \in Enrollments |-> "none"]
  /\ yes = [e \in Enrollments |-> "none"]
  /\ refused = [e \in Enrollments |-> "no"]
  /\ token = [e \in Enrollments |-> "none"]
  /\ told = [e \in Enrollments |-> "no"]
  /\ account = Nobody

-----------------------------------------------------------------------------
(* The lease and the registry.                                             *)

Disposed(e) == lease[e] \in {"disposing", "gone"}

\* assertStillActive: registry.get prunes what is disposed.
StillActive(e) == entry[e] = "active" /\ lease[e] = "live"

Terminal(e) == poll[e] \in {"enrolled", "ended"}

\* dispose: memoized.
Dispose(e) == lease' = IF lease[e] = "live" THEN [lease EXCEPT ![e] = "disposing"] ELSE lease

\* forget, delete: a finished enrollment stays addressable.
Forget(e) == entry' = IF entry[e] = "active" THEN [entry EXCEPT ![e] = "recent"] ELSE entry

\* The pairing was cancelled, if it had to be, or two seconds passed; the connection is
\* closed and the attachment released.
Disposal(e) ==
  /\ lease[e] = "disposing"
  /\ lease' = [lease EXCEPT ![e] = "gone"]
  /\ UNCHANGED <<conv, start, poll, state, entry, yes, refused, token, told, account>>

\* Mutant of Expire: a ceremony whose words were confirmed does not expire.
ExpireUnconfirmed(e) ==
  /\ lease[e] = "live"
  /\ start[e] # "creating"
  /\ state[e] \notin {"confirmed", "enrolled"}
  /\ Dispose(e)
  /\ UNCHANGED <<conv, start, poll, state, entry, yes, refused, token, told, account>>

\* The lease's timer.  (A request of `start` has a shorter time limit.)
Expire(e) ==
  /\ lease[e] = "live"
  /\ start[e] # "creating"
  /\ Dispose(e)
  /\ UNCHANGED <<conv, start, poll, state, entry, yes, refused, token, told, account>>

\* disposeAll: the plugin stops.
DisposeAll ==
  /\ \E e \in Enrollments : entry[e] = "active"
  /\ entry' = [e \in Enrollments |-> IF entry[e] = "active" THEN "dropped" ELSE entry[e]]
  /\ lease' = [e \in Enrollments |->
                 IF entry[e] = "active" /\ lease[e] = "live" THEN "disposing" ELSE lease[e]]
  /\ UNCHANGED <<conv, start, poll, state, yes, refused, token, told, account>>

-----------------------------------------------------------------------------
(* start.                                                                  *)

\* The conversation is reserved while a start of it runs.
Reserved(c) ==
  \E f \in Enrollments : conv[f] = c /\ start[f] \notin {"none", "over"}

\* The previous enrollment of the conversation, if it is live (forSession).
Previous(c) == \E f \in Enrollments : conv[f] = c /\ StillActive(f)

\* Mutant of Start: nothing reserves the conversation.
StartUnreserved(e) ==
  /\ start[e] = "none"
  /\ account = Nobody
  /\ start' = [start EXCEPT ![e] = "listening"]
  /\ UNCHANGED <<conv, lease, poll, state, entry, yes, refused, token, told, account>>

\* startEnrollment, to pageListening.  (A refused call leaves no trace.)
Start(e) ==
  /\ start[e] = "none"
  /\ account = Nobody
  /\ ~Reserved(conv[e])
  /\ start' = [start EXCEPT ![e] = "listening"]
  /\ UNCHANGED <<conv, lease, poll, state, entry, yes, refused, token, told, account>>

\* The page is served: authority, admitAndStart, to attach.  Else, or if the
\* conversation has a live enrollment, start is over.
Listening(e) ==
  /\ start[e] = "listening"
  /\ \/ start' = [start EXCEPT ![e] = "over"]
     \/ ~Previous(conv[e]) /\ start' = [start EXCEPT ![e] = "attaching"]
  /\ UNCHANGED <<conv, lease, poll, state, entry, yes, refused, token, told, account>>

\* createEnrollmentLease attached and connected, or failed and released; then, with
\* authority, createDevice is asked.
Attached(e) ==
  /\ start[e] = "attaching"
  /\ \/ /\ start' = [start EXCEPT ![e] = "over"]
        /\ UNCHANGED lease
     \/ /\ start' = [start EXCEPT ![e] = "creating"]
        /\ lease' = [lease EXCEPT ![e] = "live"]
     \/ /\ start' = [start EXCEPT ![e] = "disposing"]
        /\ lease' = [lease EXCEPT ![e] = "disposing"]
  /\ UNCHANGED <<conv, poll, state, entry, yes, refused, token, told, account>>

\* The device exists: the entry is registered, the poll runs, the page opens.
Created(e) ==
  /\ start[e] = "creating"
  /\ start' = [start EXCEPT ![e] = "opening"]
  /\ poll' = [poll EXCEPT ![e] = "running"]
  /\ state' = [state EXCEPT ![e] = "scanning"]
  /\ entry' = [entry EXCEPT ![e] = "active"]
  /\ UNCHANGED <<conv, lease, yes, refused, token, told, account>>

\* createDevice failed.
NotCreated(e) ==
  /\ start[e] = "creating"
  /\ start' = [start EXCEPT ![e] = "disposing"]
  /\ Dispose(e)
  /\ UNCHANGED <<conv, poll, state, entry, yes, refused, token, told, account>>

Opened(e) ==
  /\ start[e] = "opening"
  /\ start' = [start EXCEPT ![e] = "over"]
  /\ UNCHANGED <<conv, lease, poll, state, entry, yes, refused, token, told, account>>

\* No browser: start-failed.
NotOpened(e) ==
  /\ start[e] = "opening"
  /\ start' = [start EXCEPT ![e] = "disposing"]
  /\ Forget(e)
  /\ Dispose(e)
  /\ UNCHANGED <<conv, poll, state, yes, refused, token, told, account>>

\* The disposal that start awaits is over: the reservation ends.
StartDisposed(e) ==
  /\ start[e] = "disposing"
  /\ lease[e] = "gone"
  /\ start' = [start EXCEPT ![e] = "over"]
  /\ UNCHANGED <<conv, lease, poll, state, entry, yes, refused, token, told, account>>

-----------------------------------------------------------------------------
(* The phone and the poll.                                                 *)

\* A snapshot has the words: the phone scanned.
Scanned(e) ==
  /\ poll[e] = "running"
  /\ ~Disposed(e)
  /\ state[e] = "scanning"
  /\ state' = [state EXCEPT ![e] = "words"]
  /\ UNCHANGED <<conv, start, lease, poll, entry, yes, refused, token, told, account>>

\* The words are confirmed, answered or not, and the phone finishes.
PollEnrolled(e) ==
  /\ poll[e] = "running"
  /\ ~Disposed(e)
  /\ yes[e] \in {"words", "polled"}
  /\ poll' = [poll EXCEPT ![e] = "enrolled"]
  /\ UNCHANGED <<conv, start, lease, state, entry, yes, refused, token, told, account>>

\* Revoked or retired by the host, or the poll fails: the resources go at once.
PollEnded(e) ==
  /\ poll[e] = "running"
  /\ ~Disposed(e)
  /\ \E how \in {"ended", "failed"} : poll' = [poll EXCEPT ![e] = how]
  /\ state' = [state EXCEPT ![e] = "failed"]
  /\ Forget(e)
  /\ Dispose(e)
  /\ UNCHANGED <<conv, start, yes, refused, token, told, account>>

-----------------------------------------------------------------------------
(* The human's No.                                                         *)

\* The page finds the enrollment by its token unless the plugin stopped.
Addressable(e) == entry[e] \in {"active", "recent"}

\* Mutant of No: it claims what is being written.
NoAlways(e) ==
  /\ Addressable(e)
  /\ state[e] \notin {"done", "failed", "cancelled"}
  /\ ~Disposed(e)
  /\ state' = [state EXCEPT ![e] = "cancelled"]
  /\ refused' = [refused EXCEPT ![e] = "yes"]
  /\ Forget(e)
  /\ Dispose(e)
  /\ UNCHANGED <<conv, start, poll, yes, token, told, account>>

\* cancelByHuman, when it is neither settled nor committing.
No(e) ==
  /\ Addressable(e)
  /\ state[e] \notin {"done", "failed", "cancelled", "committing"}
  /\ ~Disposed(e)
  /\ state' = [state EXCEPT ![e] = "cancelled"]
  /\ refused' = [refused EXCEPT ![e] = "yes"]
  /\ Forget(e)
  /\ Dispose(e)
  /\ UNCHANGED <<conv, start, poll, yes, token, told, account>>

-----------------------------------------------------------------------------
(* The human's Yes.                                                        *)

At(e, pc)  == yes[e] = pc
Goto(e, pc) == yes' = [yes EXCEPT ![e] = pc]

\* catch: an enrollment that was cancelled underneath keeps its state, unless a token
\* exists, which the outcome then names; anything else is a failure.
Minted(e) == yes[e] \in {"probe", "guarded", "write"}

Leave(e) == Goto(e, "over") /\ Forget(e) /\ Dispose(e)

\* Mutant of Cancelled: the token is forgotten.
CancelledSilently(e) == Leave(e) /\ UNCHANGED <<state, told>>

Cancelled(e) ==
  /\ Leave(e)
  /\ IF Minted(e)
       THEN state' = [state EXCEPT ![e] = "failed"] /\ told' = [told EXCEPT ![e] = "yes"]
       ELSE UNCHANGED <<state, told>>

Fails(e, naming) ==
  /\ Leave(e)
  /\ state' = [state EXCEPT ![e] = "failed"]
  /\ told' = IF naming THEN [told EXCEPT ![e] = "yes"] ELSE told

\* An error that is not of the ceremony, of an enrollment that may be disposed.
Breaks(e) == IF Disposed(e) THEN Cancelled(e) ELSE Fails(e, Minted(e))

\* The page's /confirm: busy is taken, confirmWords asked.
Yes(e) ==
  /\ Addressable(e)
  /\ state[e] = "words"
  /\ ~Disposed(e)
  /\ At(e, "none")
  /\ IF StillActive(e)
       THEN Goto(e, "words") /\ UNCHANGED <<lease, state, entry, told>>
       ELSE Cancelled(e)
  /\ UNCHANGED <<conv, start, poll, refused, token, account>>

\* confirmWords is answered: the connection is closed only after the pairing was cancelled.
WordsConfirmed(e) ==
  /\ At(e, "words")
  /\ lease[e] = "live" \/ (lease[e] = "disposing" /\ ~Terminal(e))
  /\ state' = [state EXCEPT ![e] = "confirmed"]
  /\ Goto(e, "polled")
  /\ UNCHANGED <<conv, start, lease, poll, entry, refused, token, told, account>>

\* The words differ (a failure of the ceremony), or the request breaks.
WordsRefused(e) ==
  /\ At(e, "words")
  /\ Fails(e, FALSE) \/ Breaks(e)
  /\ UNCHANGED <<conv, start, poll, refused, token, account>>

\* active.terminal settles; a poll that dispose aborted rejects.
PollSettles(e) ==
  /\ At(e, "polled")
  /\ CASE poll[e] = "enrolled" /\ StillActive(e) ->
            /\ state' = [state EXCEPT ![e] = "enrolled"]
            /\ Goto(e, "info")
            /\ UNCHANGED <<lease, entry, told>>
       [] poll[e] = "enrolled" /\ ~StillActive(e) ->
            /\ state' = [state EXCEPT ![e] = "enrolled"]
            /\ Leave(e)
            /\ UNCHANGED told
       [] poll[e] = "ended" -> Fails(e, FALSE)
       [] OTHER -> Disposed(e) /\ Cancelled(e)
  /\ UNCHANGED <<conv, start, poll, refused, token, account>>

\* daemonInfo is answered: the guard, then the mint.  An answer without a session socket
\* is a failure of the ceremony.
InfoAnswered(e) ==
  /\ At(e, "info")
  /\ \/ IF StillActive(e)
          THEN Goto(e, "mint") /\ UNCHANGED <<lease, state, entry, told>>
          ELSE Cancelled(e)
     \/ Fails(e, FALSE)
     \/ Breaks(e)
  /\ UNCHANGED <<conv, start, poll, refused, token, account>>

\* tokenMint is answered: the identity probe follows.
MintAnswered(e) ==
  /\ At(e, "mint")
  /\ lease[e] = "live"
  /\ token' = [token EXCEPT ![e] = "minted"]
  /\ Goto(e, "probe")
  /\ UNCHANGED <<conv, start, lease, poll, state, entry, refused, told, account>>

\* mint_lost: the reply is lost (dispose closes the connection too), whether or not the
\* token exists, or the label is taken.  The remedy is a token of another label.
MintLost(e) ==
  /\ At(e, "mint")
  /\ \/ token' = [token EXCEPT ![e] = "lost"]
     \/ UNCHANGED token
  /\ Fails(e, FALSE)
  /\ UNCHANGED <<conv, start, poll, refused, account>>

\* The host refuses the mint.
MintRefused(e) ==
  /\ At(e, "mint")
  /\ Breaks(e)
  /\ UNCHANGED <<conv, start, poll, refused, token, account>>

\* The session answered who the agent is, or the probe failed; then the guard.
Probed(e) ==
  /\ At(e, "probe")
  /\ \/ IF StillActive(e)
          THEN Goto(e, "guarded") /\ UNCHANGED <<lease, state, entry, told>>
          ELSE Cancelled(e)
     \/ Fails(e, TRUE)
     \/ Breaks(e)
  /\ UNCHANGED <<conv, start, poll, refused, token, account>>

\* The config write is asked for: from here a No is refused.
Committing(e) ==
  /\ At(e, "guarded")
  /\ state' = [state EXCEPT ![e] = "committing"]
  /\ Goto(e, "write")
  /\ UNCHANGED <<conv, start, lease, poll, entry, refused, token, told, account>>

\* Mutant of Write: the mutation trusts the guard before it.
WriteUnguarded(e) ==
  /\ At(e, "write")
  /\ account = Nobody
  /\ account' = e
  /\ Goto(e, "written")
  /\ UNCHANGED <<conv, start, lease, poll, state, entry, refused, token, told>>

\* Mutant of Write: an account created meanwhile is overwritten.
WriteOver(e) ==
  /\ At(e, "write")
  /\ StillActive(e)
  /\ account' = e
  /\ Goto(e, "written")
  /\ UNCHANGED <<conv, start, lease, poll, state, entry, refused, token, told>>

\* The host runs the mutation on its current draft, and keeps the result.
Write(e) ==
  /\ At(e, "write")
  /\ StillActive(e)
  /\ account = Nobody
  /\ account' = e
  /\ Goto(e, "written")
  /\ UNCHANGED <<conv, start, lease, poll, state, entry, refused, token, told>>

\* The mutation throws, because the enrollment is over, the account exists, its agent or
\* its route is gone; or the host cannot write.
WriteFails(e) ==
  /\ At(e, "write")
  /\ \/ ~StillActive(e) /\ Cancelled(e)
     \/ StillActive(e) /\ Fails(e, TRUE)
     \/ Breaks(e)
  /\ UNCHANGED <<conv, start, poll, refused, token, account>>

\* Mutant of WriteReturns: the guard once more.
WriteReturnsGuarded(e) ==
  /\ At(e, "written")
  /\ Leave(e)
  /\ state' = [state EXCEPT ![e] = IF StillActive(e) THEN "done" ELSE "failed"]
  /\ UNCHANGED <<conv, start, poll, refused, token, told, account>>

WriteReturns(e) ==
  /\ At(e, "written")
  /\ Leave(e)
  /\ state' = [state EXCEPT ![e] = "done"]
  /\ UNCHANGED <<conv, start, poll, refused, token, told, account>>

-----------------------------------------------------------------------------
Starting(e) ==
  \/ Start(e) \/ Listening(e) \/ Attached(e) \/ Created(e) \/ NotCreated(e)
  \/ Opened(e) \/ NotOpened(e) \/ StartDisposed(e)
Polling(e) == Scanned(e) \/ PollEnrolled(e) \/ PollEnded(e)
Confirming(e) ==
  \/ WordsConfirmed(e) \/ WordsRefused(e) \/ PollSettles(e) \/ InfoAnswered(e)
  \/ MintAnswered(e) \/ MintLost(e) \/ MintRefused(e) \/ Probed(e) \/ Committing(e)
  \/ Write(e) \/ WriteFails(e) \/ WriteReturns(e)

Next ==
  \/ \E e \in Enrollments :
       \/ Starting(e) \/ Polling(e) \/ Confirming(e) \/ Disposal(e)
       \/ Expire(e) \/ Yes(e) \/ No(e)
  \/ DisposeAll

Spec == Init /\ [][Next]_vars

\* Fairness: requests are answered or time out, and the lease's timer fires.  Nothing
\* is assumed of the phone, the human or the host's poll.
Fairness ==
  \A e \in Enrollments :
    /\ WF_vars(start[e] # "none" /\ Starting(e))
    /\ WF_vars(Confirming(e))
    /\ WF_vars(Disposal(e))
    /\ WF_vars(Expire(e))

FairSpec == Spec /\ Fairness

-----------------------------------------------------------------------------
(* Properties.                                                             *)

\* "a cancel landing while confirm probes now wins": an enrollment whose No was
\* answered with ok never gets an account, at whichever await the Yes is.
NoWins == \A e \in Enrollments : refused[e] = "yes" => account # e

\* Once the Yes is answered, a token the plugin was given is in the config, or the human
\* was told to revoke it, and never both; also when a No, the expiry, the plugin's stop or
\* another enrollment's account came in between.
TokenAccounted ==
  \A e \in Enrollments :
    yes[e] = "over" /\ token[e] = "minted" => (account = e <=> told[e] = "no")

\* The answer to the Yes is "done" exactly if the account was written.
DoneIsWritten ==
  \A e \in Enrollments : yes[e] = "over" => (state[e] = "done" <=> account = e)

\* "One enrollment per conversation at a time", from before the device exists.
OnePerConversation ==
  \A e, f \in Enrollments :
    e # f /\ conv[e] = conv[f] => ~(lease[e] = "live" /\ lease[f] = "live")

\* "an account created while this enrollment ran is never overwritten".
AccountKept == [][account # Nobody => account' = account]_vars

\* Whatever the phone, the human or a request does: a lease is released in the end.
LeaseEnds == \A e \in Enrollments : lease[e] = "live" ~> lease[e] = "gone"

\* What the page and the tool's status report.
phaseOf(e) ==
  CASE state[e] \in {"done", "failed", "cancelled"} -> state[e]
    [] state[e] \notin {"done", "failed", "cancelled"} /\ Disposed(e) -> "expired"
    [] OTHER -> "live"

\* "the human's NO cancels: ... status says cancelled, a second NO is idempotent"
\* (enroll-tool.test.ts); a failure that names a token may take its place.
CancelledIsReported ==
  \A e \in Enrollments : refused[e] = "yes" => phaseOf(e) \in {"cancelled", "failed"}
-----------------------------------------------------------------------------
(* The inductive invariant behind the safety properties (EnrollmentProofs). *)

\* How far the start, the lease and the entry of an enrollment are from each other.
Staged(e) ==
  /\ start[e] \in {"none", "listening", "attaching"} => lease[e] = "none"
  /\ start[e] = "creating" => entry[e] = "none" /\ lease[e] # "none"
  /\ lease[e] = "none" => entry[e] = "none"
  /\ entry[e] = "none" => yes[e] = "none" /\ poll[e] = "off" /\ refused[e] = "no"
  /\ lease[e] = "live" /\ start[e] \in {"opening", "over"} => entry[e] = "active"
  /\ refused[e] = "yes" => Disposed(e)

\* What the Yes has done so far, and what became of the account and the token.
Answering(e) ==
  /\ yes[e] \in {"info", "mint", "probe", "guarded", "write", "written"} => poll[e] = "enrolled"
  /\ yes[e] \in {"write", "written"} => state[e] = "committing"
  /\ yes[e] = "written" => account = e
  /\ account = e =>
       /\ yes[e] \in {"written", "over"} /\ poll[e] = "enrolled" /\ refused[e] = "no"
       /\ yes[e] = "over" => state[e] = "done"
  /\ state[e] = "done" => yes[e] = "over" /\ account = e
  /\ told[e] = "yes" => yes[e] = "over" /\ account # e
  /\ token[e] = "minted" =>
       \/ yes[e] \in {"probe", "guarded", "write", "written"}
       \/ yes[e] = "over" /\ (account = e \/ told[e] = "yes")

\* Of the enrollments of a conversation one is being started, and while it attaches no
\* other is live.
Alone(e, f) ==
  e # f /\ conv[e] = conv[f] =>
    /\ start[e] \in {"none", "over"} \/ start[f] \in {"none", "over"}
    /\ start[e] = "attaching" => lease[f] # "live"
    /\ lease[e] # "live" \/ lease[f] # "live"

EnrollmentInv ==
  /\ \A e \in Enrollments : Staged(e) /\ Answering(e)
  /\ \A e, f \in Enrollments : Alone(e, f)
=============================================================================
