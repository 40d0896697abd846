------------------------------- MODULE Opening -------------------------------
(***************************************************************************)
(* Attach and openSession (src/src/monitor/session.ts), the way the account *)
(* calls them: a runtime attachment, then a client on the session socket it *)
(* names, then the first warm-up (get_self, the conversations, the members  *)
(* of every room), all under one signal.  Session begins where this ends.   *)
(*                                                                         *)
(* The client reconnects by itself, and nothing listens for that before the *)
(* warm-up is over.  What happens to a request that is pending while it does *)
(* is the client library's choice, which the repository does not state.     *)
(***************************************************************************)
EXTENDS Attach

CONSTANT Rooms  \* the conversations the account is active in

VARIABLES
  step,      \* where openSession is suspended
  client,    \* "contained": it still connects, onAbort waits for it
  survives,  \* external: a pending request is kept over a reconnection
  broken,    \* the pending request was not kept
  read,      \* what the warm-up has read, of {"list"} \cup Rooms
  missed     \* history: what of it changed while no connection was seated

openVars == <<step, client, survives, broken, read, missed>>
allVars  == <<vars, openVars>>

Warming == {"self", "list", "members"}
Live    == {"seated", "lost"}

OpeningTypeOK ==
  /\ step \in {"idle", "connect", "closing", "opened", "rejected"} \cup Warming
  /\ client \in {"none", "connecting", "contained", "closing", "closed"} \cup Live
  /\ survives \in BOOLEAN /\ broken \in BOOLEAN
  /\ missed \subseteq read /\ read \subseteq {"list"} \cup Rooms

OpeningInit ==
  /\ Init
  /\ step = "idle" /\ client = "none" /\ survives \in BOOLEAN /\ broken = FALSE
  /\ read = {} /\ missed = {}

-----------------------------------------------------------------------------
(* Connecting.                                                             *)

\* openSession, to the promise of the client.
Open ==
  /\ step = "idle" /\ pc = "over"
  /\ role = "runtime" /\ result \in Attached
  /\ IF aborted THEN step' = "rejected" /\ UNCHANGED client
                ELSE step' = "connect" /\ client' = "connecting"
  /\ UNCHANGED <<vars, survives, broken, read, missed>>

Connected ==
  /\ step = "connect" /\ ~aborted
  /\ \/ step' = "self" /\ client' = "seated"
     \/ step' = "rejected" /\ client' = "none"
  /\ UNCHANGED <<vars, survives, broken, read, missed>>

ConnectAborted ==
  /\ step = "connect" /\ aborted
  /\ step' = "rejected" /\ client' = "contained"
  /\ UNCHANGED <<vars, survives, broken, read, missed>>

LateConnect ==
  /\ client = "contained"
  /\ client' \in {"closing", "none"}
  /\ UNCHANGED <<vars, step, survives, broken, read, missed>>

-----------------------------------------------------------------------------
(* The warm-up.                                                            *)

\* closeOnce: the client is closed, unless that has been asked already.
Closes == client' = IF client \in Live THEN "closing" ELSE client

\* The catch of openSession, for an error that is not the abort's.
Fails == step' = "closing" /\ Closes

\* The pending request is answered, and nothing has aborted the wait.
Answers == client = "seated" /\ ~broken /\ ~aborted

SelfAnswered ==
  /\ step = "self" /\ Answers
  /\ \/ step' = "list" /\ UNCHANGED client
     \/ Fails  \* assertIdentity
  /\ UNCHANGED <<vars, survives, broken, read, missed>>

\* MembersCache.refresh, the answer about x.
Reads(x) ==
  /\ Answers
  /\ read' = read \cup {x}
  /\ step' = IF Rooms \subseteq read' THEN "opened" ELSE "members"
  /\ UNCHANGED <<vars, client, survives, broken, missed>>

ListAnswered == step = "list" /\ Reads("list")

MembersAnswered == step = "members" /\ \E r \in Rooms \ read : Reads(r)

\* Mutant of RequestFails: a room that cannot be read is left out.
RoomSkipped ==
  /\ step \in Warming /\ client \in Live /\ ~aborted
  /\ IF step = "members"
       THEN /\ \E r \in Rooms \ read :
                 step' = IF Rooms \subseteq read \cup {r} THEN "opened" ELSE "members"
            /\ broken' = FALSE /\ UNCHANGED client
       ELSE Fails /\ UNCHANGED broken
  /\ UNCHANGED <<vars, survives, read, missed>>

RequestFails ==
  /\ step \in Warming /\ client \in Live /\ ~aborted
  /\ Fails
  /\ UNCHANGED <<vars, survives, broken, read, missed>>

\* Mutant of WarmUpAborted: the client is left to whoever connected it.
AbortKeepsSeat ==
  /\ step \in Warming \cup {"closing"} /\ aborted
  /\ step' = "rejected"
  /\ UNCHANGED <<vars, client, survives, broken, read, missed>>

\* onAbortWarmup, or the abort that ends the wait for the close.
WarmUpAborted ==
  /\ step \in Warming \cup {"closing"} /\ aborted
  /\ step' = "rejected"
  /\ Closes
  /\ UNCHANGED <<vars, survives, broken, read, missed>>

\* The close settles, whoever asked for it (external: it may never).
CloseSettles ==
  /\ client = "closing"
  /\ client' = "closed"
  /\ step' = IF step = "closing" THEN "rejected" ELSE step
  /\ UNCHANGED <<vars, survives, broken, read, missed>>

-----------------------------------------------------------------------------
(* The connection, and what the host knows (external).                     *)

Outage ==
  /\ step \in Warming /\ client = "seated"
  /\ client' = "lost"
  /\ broken' = (broken \/ ~survives)
  /\ UNCHANGED <<vars, step, survives, read, missed>>

Reseated ==
  /\ client = "lost"
  /\ client' = "seated"
  /\ UNCHANGED <<vars, step, survives, broken, read, missed>>

\* A change the host has no connection to report to.
ChangeUnreported ==
  /\ client = "lost"
  /\ \E x \in read : missed' = missed \cup {x}
  /\ UNCHANGED <<vars, step, client, survives, broken, read>>

-----------------------------------------------------------------------------
OpenStep ==
  \/ Open \/ Connected \/ ConnectAborted \/ LateConnect
  \/ SelfAnswered \/ ListAnswered \/ MembersAnswered \/ RequestFails
  \/ WarmUpAborted \/ CloseSettles
  \/ Outage \/ Reseated \/ ChangeUnreported

OpeningNext == (Next /\ UNCHANGED openVars) \/ OpenStep

\* What an abort wakes; a connect, a request or a close may stay pending for ever.
OpeningSpec ==
  /\ OpeningInit /\ [][OpeningNext]_allVars
  /\ Fairness
  /\ WF_allVars(Open) /\ WF_allVars(ConnectAborted) /\ WF_allVars(WarmUpAborted)

-----------------------------------------------------------------------------
(* Properties.                                                             *)

\* attach.ts:250-251, session.ts:157, 198-199: whatever the abort, a failure or a late
\* answer interrupts, no connection is left open: none to the enrollment socket outside
\* the await of its answer, and no seated client once openSession has rejected.
NothingLeftOpen ==
  /\ NoConnectionLeft
  /\ step = "rejected" => client \notin Live

\* "an abort must not wait", and "an unbounded close must not hold the account past its
\* shutdown budget": with every connect, request and close pending for ever, an abort
\* still ends the attachment and the opening after it; and the wait for a service that
\* was started ends by itself.
EndsAnyhow ==
  /\ AttachEnds
  /\ aborted ~> pc = "over" /\ step \in {"idle", "opened", "rejected"}

\* The session is not opened on members that changed unseen during the warm-up, as long
\* as a request that is pending when the connection breaks fails.  (With a client that
\* repeats it, it may be: the handlers of retry and reconnected come too late.)
OpenedFresh == step = "opened" => {"list"} \cup Rooms \subseteq read /\ (missed = {} \/ survives)
=============================================================================
