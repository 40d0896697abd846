------------------------------- MODULE Ingress -------------------------------
(***************************************************************************)
(* The delivery path of one account: the device host's durable stream, the  *)
(* session's event queue, the ingress loop (src/src/monitor/ingress.ts) of  *)
(* every lease the process has run, the adoption of the turn each loop      *)
(* waits for (adoption.ts), the watermark store (store.ts), and the part of *)
(* the account's life cycle that starts, stops and closes leases            *)
(* (monitor/index.ts).                                                      *)
(*                                                                         *)
(* A loop is asynchronous: between two awaits it runs without interruption, *)
(* and one action below is one such run.  A lease that ended does not stop  *)
(* its loop at once: the loop of an older lease may still be inside an      *)
(* await while a newer lease replays the same messages, so the state of a   *)
(* loop is kept per lease.                                                  *)
(*                                                                         *)
(* Frames that change nothing here (live frames, reactions, membership      *)
(* events, status events) are left out: the loop passes over them without   *)
(* acking.                                                                  *)
(***************************************************************************)
EXTENDS Integers, Sequences, FiniteSets

CONSTANTS
  MaxSeq,       \* bound: messages the daemon stores
  MaxLease,     \* bound: leases (account starts) of one history
  MaxDrops,     \* bound: connection losses the client reconnects from
  MaxInflight,  \* MAX_INFLIGHT
  Passive,      \* messages acked unread: malformed, other protocol, edit
  Own           \* our own messages echoed back

ASSUME BoundsAssumption ==
  /\ MaxSeq \in Nat
  /\ MaxLease \in Nat
  /\ MaxDrops \in Nat
ASSUME InflightAssumption == MaxInflight \in Nat \ {0}
ASSUME MessagesAssumption == Passive \cup Own \subseteq 1 .. MaxSeq

Msgs   == 1 .. MaxSeq
Leases == 1 .. MaxLease

VARIABLES
  \* the device host (external)
  stored,     \* messages 1..stored are in the durable log
  cursor,     \* the cumulative ack the host has taken
  \* the client of the current lease (external)
  wire,       \* the highest ack sent, perhaps still on its way to the host
  sent,       \* the last message streamed on this connection
  link,       \* "seated": attached, ack() does not throw; else "lost"
  queue,      \* events the loop has not taken yet
  drops,      \* connection losses so far
  \* the account
  lease,      \* the current lease; 0 before the first
  phase,      \* of the current lease: "down", "up" or "draining"
  \* the loop of each lease
  pc,         \* where the loop is suspended
  cur,        \* the message it handles or handled last
  stopped,    \* the leases whose `stopped` flag is set
  turn,       \* the tracker of the last message it dispatched
  inflight,   \* dispatch promises that have not settled
  \* the store
  adoptedSeq, \* the watermark; 0: no row
  \* history
  decided,    \* the messages a loop has decided: a turn was adopted, or none is due
  adoptions   \* adoptions of a message by a lease that was not stopped

daemonVars == <<stored, cursor>>
clientVars == <<wire, sent, link, queue, drops>>
loopVars   == <<pc, cur, stopped, turn, inflight>>
storeVars  == <<adoptedSeq, decided, adoptions>>
vars == <<daemonVars, clientVars, lease, phase, loopVars, storeVars>>

PCs == {"off",      \* the lease has not started
        "next",     \* for await (const ev of client.events())
        "barrier",  \* await session.barrier()
        "gate",     \* await gateSender(...)
        "access",   \* await resolveMessageAccess(...)
        "adoption", \* await tracker.settled
        "bound",    \* await Promise.race([...inflight])
        "ended"}

\* The loop is inside one iteration, on the message `cur`.
Handling == {"barrier", "gate", "access", "adoption", "bound"}

TurnStates == {"none", "pending", "deferred", "adopted", "abandoned", "closed"}
LiveTurn   == {"pending", "deferred"}

TypeOK ==
  /\ stored \in 0 .. MaxSeq
  /\ cursor \in 0 .. MaxSeq
  /\ wire \in 0 .. MaxSeq
  /\ sent \in 0 .. MaxSeq
  /\ link \in {"seated", "lost"}
  /\ queue \in Seq(Msgs)
  /\ drops \in 0 .. MaxDrops
  /\ lease \in 0 .. MaxLease
  /\ phase \in {"down", "up", "draining"}
  /\ phase # "down" => lease \in Leases
  /\ pc \in [Leases -> PCs]
  /\ cur \in [Leases -> 0 .. MaxSeq]
  /\ stopped \subseteq Leases
  /\ turn \in [Leases -> TurnStates]
  /\ inflight \in [Leases -> SUBSET Msgs]
  /\ adoptedSeq \in 0 .. MaxSeq
  /\ decided \subseteq Msgs
  /\ adoptions \in [Msgs -> Nat]
  /\ \A g \in Leases : pc[g] \in Handling \/ turn[g] \in LiveTurn => cur[g] \in Msgs

Init ==
  /\ stored = 0
  /\ cursor = 0
  /\ wire = 0
  /\ sent = 0
  /\ link = "lost"
  /\ queue = <<>>
  /\ drops = 0
  /\ lease = 0
  /\ phase = "down"
  /\ pc = [g \in Leases |-> "off"]
  /\ cur = [g \in Leases |-> 0]
  /\ stopped = {}
  /\ turn = [g \in Leases |-> "none"]
  /\ inflight = [g \in Leases |-> {}]
  /\ adoptedSeq = 0
  /\ decided = {}
  /\ adoptions = [s \in Msgs |-> 0]

Larger(a, b) == IF a >= b THEN a ELSE b

\* Bound: a failure that ends a running lease happens only while another lease
\* is left to recover in; a lease that was stopped may fail at any time.
MayFail(g) == g \in stopped \/ lease < MaxLease

-----------------------------------------------------------------------------
(* The device host and the client (external).                              *)

StoreMessage ==
  /\ stored < MaxSeq
  /\ stored' = stored + 1
  /\ UNCHANGED <<cursor, clientVars, lease, phase, loopVars, storeVars>>

\* The host streams the log on from where this connection stands.
Stream ==
  /\ link = "seated"
  /\ sent < stored
  /\ sent' = sent + 1
  /\ queue' = Append(queue, sent + 1)
  /\ UNCHANGED <<daemonVars, wire, link, drops, lease, phase, loopVars, storeVars>>

\* The host takes the cumulative ack.
AckArrives ==
  /\ link = "seated"
  /\ cursor < wire
  /\ cursor' = wire
  /\ UNCHANGED <<stored, clientVars, lease, phase, loopVars, storeVars>>

\* The connection is lost, and with it every ack that has not arrived.
Drop ==
  /\ link = "seated"
  /\ drops < MaxDrops
  /\ MayFail(lease)
  /\ drops' = drops + 1
  /\ link' = "lost"
  /\ wire' = cursor
  /\ UNCHANGED <<daemonVars, sent, queue, lease, phase, loopVars, storeVars>>

\* The client's own reconnect: the host replays from its cursor, behind what
\* the client still holds.
Reconnect ==
  /\ phase # "down"
  /\ link = "lost"
  /\ link' = "seated"
  /\ sent' = cursor
  /\ UNCHANGED <<daemonVars, wire, queue, drops, lease, phase, loopVars, storeVars>>

-----------------------------------------------------------------------------
(* What the loop's steps are built from.                                   *)

Suspend(g, where) == pc' = [pc EXCEPT ![g] = where]

\* The tracker of a turn that is not decided yet is taken down.
TakeDown(g, how) ==
  turn' = [turn EXCEPT ![g] = IF @ \in LiveTurn THEN how ELSE @]

\* halt(): a stopped loop only ends; else the generation closes.
Halt(g) ==
  /\ Suspend(g, "ended")
  /\ stopped' = stopped \cup {g}
  /\ TakeDown(g, "closed")

\* ack(): synchronous, throws unless this lease's session is seated.
CanAck(g) == g = lease /\ phase # "down" /\ link = "seated"

\* ack(seq) and on to `where`; a throw is a halt.
Ack(g, where) ==
  \/ /\ CanAck(g)
     /\ wire' = Larger(wire, cur[g])
     /\ Suspend(g, where)
     /\ UNCHANGED <<stopped, turn>>
  \/ /\ ~CanAck(g)
     /\ Halt(g)
     /\ UNCHANGED wire

Decide(s) == decided' = decided \cup {s}

\* The message needs no turn: ack it and take the next event.
PassOver(g) ==
  /\ Decide(cur[g])
  /\ Ack(g, "next")
  /\ UNCHANGED <<daemonVars, sent, link, queue, drops, lease, phase, cur,
                 inflight, adoptedSeq, adoptions>>

\* The loop ends, or fails, without having touched the message.
Fails(g) ==
  /\ Halt(g)
  /\ UNCHANGED <<daemonVars, clientVars, lease, phase, cur, inflight, storeVars>>

-----------------------------------------------------------------------------
(* The loop of lease g.                                                    *)

TakeEvent(g) ==
  /\ g = lease /\ phase # "down"
  /\ pc[g] = "next"
  /\ g \notin stopped
  /\ queue # <<>>
  /\ cur' = [cur EXCEPT ![g] = Head(queue)]
  /\ queue' = Tail(queue)
  /\ Suspend(g, "barrier")
  /\ UNCHANGED <<daemonVars, wire, sent, link, drops, lease, phase, stopped,
                 turn, inflight, storeVars>>

\* if (stopped) break, on either side of the barrier; or the barrier rejects.
LeaveLoop(g) ==
  /\ pc[g] \in {"next", "barrier"}
  /\ g \in stopped
  /\ Fails(g)

\* On a connection that was lost, up to the end of its warm-up: the iterator throws or
\* ends when the client gives up, and the barrier rejects when the warm-up failed.  (A
\* loop at the barrier hears of nothing else; Session has what that leads to.)
StreamFails(g) ==
  /\ pc[g] \in {"next", "barrier"}
  /\ g \notin stopped
  /\ g = lease /\ phase = "up"
  /\ link = "lost"
  /\ MayFail(g)
  /\ Fails(g)

PassBarrier(g) == pc[g] = "barrier" /\ g \notin stopped

\* Malformed, another protocol, an edit: acked before handleMessage.
AckPassive(g) ==
  /\ PassBarrier(g)
  /\ cur[g] \in Passive
  /\ PassOver(g)

\* handleMessage, step 1: a replay of an adopted message is acked again.
AckReplay(g) ==
  /\ PassBarrier(g)
  /\ cur[g] \notin Passive
  /\ cur[g] <= adoptedSeq
  /\ PassOver(g)

\* Step 2: our own message.
AckOwn(g) ==
  /\ PassBarrier(g)
  /\ cur[g] \in Own \ Passive
  /\ cur[g] > adoptedSeq
  /\ PassOver(g)

\* Steps 3-4 start: members lookup and the first access decision.
EnterGate(g) ==
  /\ PassBarrier(g)
  /\ cur[g] \notin Passive \cup Own
  /\ cur[g] > adoptedSeq
  /\ Suspend(g, "gate")
  /\ UNCHANGED <<daemonVars, clientVars, lease, phase, cur, stopped, turn,
                 inflight, storeVars>>

\* The sender is dropped, or the message does not address the agent and is
\* recorded as room history (step 5); or the second access resolve drops the
\* sender late (step 6).
DropOrSkip(g) ==
  /\ pc[g] \in {"gate", "access"}
  /\ PassOver(g)

\* The message is for the agent: the second access resolve.  `stopped` is not
\* looked at again from here on.
EnterAccess(g) ==
  /\ pc[g] = "gate"
  /\ Suspend(g, "access")
  /\ UNCHANGED <<daemonVars, clientVars, lease, phase, cur, stopped, turn,
                 inflight, storeVars>>

\* Members lookup, routing, access, mention or context threw.
HandlingFails(g) ==
  /\ pc[g] \in {"gate", "access"}
  /\ MayFail(g)
  /\ Fails(g)

\* Steps 7-8: context, tracker, dispatch.
Dispatch(g) ==
  /\ pc[g] = "access"
  /\ turn' = [turn EXCEPT ![g] = "pending"]
  /\ inflight' = [inflight EXCEPT ![g] = @ \cup {cur[g]}]
  /\ Suspend(g, "adoption")
  /\ UNCHANGED <<daemonVars, clientVars, lease, phase, cur, stopped, storeVars>>

\* Mutant of AckAdopted: an adopted message is not acked.
AckAdoptedForgotten(g) ==
  /\ pc[g] = "adoption"
  /\ turn[g] = "adopted"
  /\ Suspend(g, IF g \in stopped THEN "next" ELSE "bound")
  /\ UNCHANGED <<daemonVars, clientVars, lease, phase, cur, stopped, turn,
                 inflight, storeVars>>

\* Step 9: the tracker resolved; a stopped loop skips the bound (step 10).
AckAdopted(g) ==
  /\ pc[g] = "adoption"
  /\ turn[g] = "adopted"
  /\ Ack(g, IF g \in stopped THEN "next" ELSE "bound")
  /\ UNCHANGED <<daemonVars, sent, link, queue, drops, lease, phase, cur,
                 inflight, storeVars>>

\* Mutants of AdoptionFailed: the loop goes on with the next message; it acks the
\* message that failed.
AdoptionFailedGoesOn(g) ==
  /\ pc[g] = "adoption"
  /\ turn[g] \in {"abandoned", "closed"}
  /\ Suspend(g, "next")
  /\ UNCHANGED <<daemonVars, clientVars, lease, phase, cur, stopped, turn,
                 inflight, storeVars>>

AdoptionFailedAcks(g) ==
  /\ pc[g] = "adoption"
  /\ turn[g] \in {"abandoned", "closed"}
  /\ Ack(g, "bound")
  /\ UNCHANGED <<daemonVars, sent, link, queue, drops, lease, phase, cur,
                 inflight, storeVars>>

\* Step 9: the tracker rejected; nothing is acked and the loop halts.
AdoptionFailed(g) ==
  /\ pc[g] = "adoption"
  /\ turn[g] \in {"abandoned", "closed"}
  /\ Fails(g)

\* Mutant of LeaveBound: off by one.
LeaveBoundEarly(g) ==
  /\ pc[g] = "bound"
  /\ Cardinality(inflight[g]) <= MaxInflight
  /\ Suspend(g, "next")
  /\ UNCHANGED <<daemonVars, clientVars, lease, phase, cur, stopped, turn,
                 inflight, storeVars>>

\* Step 10: at most MaxInflight runs at a time.  A loop that waits here when it
\* is stopped still waits for a run to settle.
LeaveBound(g) ==
  /\ pc[g] = "bound"
  /\ Cardinality(inflight[g]) < MaxInflight
  /\ Suspend(g, "next")
  /\ UNCHANGED <<daemonVars, clientVars, lease, phase, cur, stopped, turn,
                 inflight, storeVars>>

-----------------------------------------------------------------------------
(* Core's answers (external) to the turn a loop waits for: module Adoption   *)
(* is the detailed tracker.                                                *)

\* Mutant of Commit: the store overwrites the watermark instead of raising it.
CommitOverwrites(g) ==
  /\ adoptedSeq' = cur[g]
  /\ Decide(cur[g])
  /\ adoptions' = [adoptions EXCEPT ![cur[g]] = IF g \in stopped THEN @ ELSE @ + 1]
  /\ turn' = [turn EXCEPT ![g] = "adopted"]

\* The durable commit: onAdopted, or a dispatch that completed without it.
Commit(g) ==
  /\ adoptedSeq' = Larger(adoptedSeq, cur[g])
  /\ Decide(cur[g])
  /\ adoptions' = [adoptions EXCEPT ![cur[g]] = IF g \in stopped THEN @ ELSE @ + 1]
  /\ turn' = [turn EXCEPT ![g] = "adopted"]

TurnAdopted(g) ==
  /\ turn[g] \in LiveTurn
  /\ Commit(g)
  /\ UNCHANGED <<daemonVars, clientVars, lease, phase, pc, cur, stopped, inflight>>

TurnDeferred(g) ==
  /\ turn[g] = "pending"
  /\ turn' = [turn EXCEPT ![g] = "deferred"]
  /\ UNCHANGED <<daemonVars, clientVars, lease, phase, pc, cur, stopped,
                 inflight, storeVars>>

\* onAbandoned, onFailed, onCancelled, the watchdog, or a failed store write.
TurnFails(g) ==
  /\ turn[g] \in LiveTurn
  /\ MayFail(g)
  /\ turn' = [turn EXCEPT ![g] = "abandoned"]
  /\ UNCHANGED <<daemonVars, clientVars, lease, phase, pc, cur, stopped,
                 inflight, storeVars>>

\* The dispatch promise of message s settles: it leaves the bound, and only a
\* still pending turn is classified by it.
DispatchSettles(g, s) ==
  /\ s \in inflight[g]
  /\ inflight' = [inflight EXCEPT ![g] = @ \ {s}]
  /\ IF s = cur[g] /\ turn[g] = "pending"
       THEN \/ Commit(g)
            \/ /\ MayFail(g)
               /\ turn' = [turn EXCEPT ![g] = "abandoned"]
               /\ UNCHANGED storeVars
            \/ /\ turn' = [turn EXCEPT ![g] = "deferred"]
               /\ UNCHANGED storeVars
       ELSE UNCHANGED <<turn, storeVars>>
  /\ UNCHANGED <<daemonVars, clientVars, lease, phase, pc, cur, stopped>>

-----------------------------------------------------------------------------
(* The account's life cycle (monitor/index.ts).                            *)

\* A start attaches and opens a session; the host replays from its cursor.
StartLease ==
  /\ phase = "down"
  /\ lease < MaxLease
  /\ lease' = lease + 1
  /\ phase' = "up"
  /\ link' = "seated"
  /\ wire' = cursor
  /\ sent' = cursor
  /\ queue' = <<>>
  /\ Suspend(lease + 1, "next")
  /\ UNCHANGED <<daemonVars, drops, cur, stopped, turn, inflight, storeVars>>

\* The loop halted, the account was stopped, or the session socket moved:
\* ingress.stop() takes down the turn that is not adopted.  The session stays
\* open while the runs drain.
StopLease ==
  /\ phase = "up"
  /\ MayFail(lease)
  /\ phase' = "draining"
  /\ stopped' = stopped \cup {lease}
  /\ TakeDown(lease, "abandoned")
  /\ UNCHANGED <<daemonVars, clientVars, lease, pc, cur, inflight, storeVars>>

\* session.close(), when the runs have drained or the drain cap has passed.
CloseSession ==
  /\ phase = "draining"
  /\ phase' = "down"
  /\ link' = "lost"
  /\ wire' = cursor
  /\ queue' = <<>>
  /\ UNCHANGED <<daemonVars, sent, drops, lease, loopVars, storeVars>>

\* The gateway process dies: only the host's log and the store survive.
Crash ==
  /\ lease \in 1 .. MaxLease - 1
  /\ phase' = "down"
  /\ link' = "lost"
  /\ wire' = cursor
  /\ queue' = <<>>
  /\ pc' = [g \in Leases |-> IF pc[g] = "off" THEN "off" ELSE "ended"]
  /\ stopped' = {g \in Leases : pc[g] # "off"}
  /\ turn' = [g \in Leases |-> IF turn[g] \in LiveTurn THEN "closed" ELSE turn[g]]
  /\ inflight' = [g \in Leases |-> {}]
  /\ UNCHANGED <<daemonVars, sent, drops, lease, cur, storeVars>>

-----------------------------------------------------------------------------
Host == StoreMessage \/ Stream \/ AckArrives \/ Drop \/ Reconnect

Loop(g) ==
  \/ TakeEvent(g)
  \/ LeaveLoop(g)
  \/ StreamFails(g)
  \/ AckPassive(g)
  \/ AckReplay(g)
  \/ AckOwn(g)
  \/ EnterGate(g)
  \/ DropOrSkip(g)
  \/ EnterAccess(g)
  \/ HandlingFails(g)
  \/ Dispatch(g)
  \/ AckAdopted(g)
  \/ AdoptionFailed(g)
  \/ LeaveBound(g)

Core(g) ==
  \/ TurnAdopted(g)
  \/ TurnDeferred(g)
  \/ TurnFails(g)
  \/ \E s \in Msgs : DispatchSettles(g, s)

Account == StartLease \/ StopLease \/ CloseSession \/ Crash

Next == Host \/ Account \/ \E g \in Leases : Loop(g) \/ Core(g)

Spec == Init /\ [][Next]_vars

-----------------------------------------------------------------------------
(* Fairness.  The event loop of the process runs what can run; the host and  *)
(* the client deliver on an open connection and the client reconnects; a     *)
(* halted lease is cleaned up and the gateway's supervisor starts the next;  *)
(* core answers every turn it was given and every dispatch promise settles.  *)
(* A loop at the barrier gets past it or halts, which is so unless the       *)
(* client gives up before it reconnects (Session, BarrierWakes).             *)
(* Nothing is assumed of the failures: their number is bounded by MaxLease   *)
(* and MaxDrops.                                                            *)
Fairness ==
  /\ WF_vars(Stream) /\ WF_vars(AckArrives) /\ WF_vars(Reconnect)
  /\ WF_vars(StartLease) /\ WF_vars(CloseSession)
  /\ WF_vars(phase = "up" /\ lease \in stopped /\ StopLease)
  /\ \A g \in Leases : WF_vars(Loop(g)) /\ WF_vars(Core(g))

FairSpec == Spec /\ Fairness

-----------------------------------------------------------------------------
(* Properties.                                                             *)

DoneUpTo(n) == 1 .. n \subseteq decided

\* The cumulative ack is truthful (design entry: "The plugin acks a message
\* only after its adoption has been committed"): neither the host's cursor nor
\* an ack under way ever covers a message that no loop has decided, across
\* failed turns, halts, lost acks, replays and crashes.
AckOnlyDecided == cursor <= wire /\ DoneUpTo(wire)

\* The replay check (handleMessage, step 1) acks unread whatever lies at or
\* below the watermark, so the watermark never passes an undecided message.
ReplayCheckSafe == DoneUpTo(adoptedSeq)

\* An adopted message stays below the durable watermark forever: no later
\* commit, not even a late one by the loop of an older lease, exposes it to a
\* second run.
AdoptionDurable == \A s \in Msgs : adoptions[s] > 0 => s <= adoptedSeq

\* No message is adopted twice by leases that were running when they adopted
\* it, whatever replays a reconnect, a restart or a crash between the commit
\* and the ack brings.
AdoptedOnce == \A s \in Msgs : adoptions[s] <= 1

\* An adopted message is behind the agent for good: one turn was cleared to run for it,
\* and the watermark keeps every later lease from another.
AdoptedForGood == AdoptionDurable /\ AdoptedOnce

\* At most MaxInflight dispatches of a lease are unfinished at any time.
InflightBounded == \A g \in Leases : Cardinality(inflight[g]) <= MaxInflight

\* The watermark is monotonic (store.ts: "a lower seq never overwrites a
\* higher one"), also when an older lease commits after a newer one.
WatermarkMonotonic == [][adoptedSeq' >= adoptedSeq]_adoptedSeq

\* After a failed turn the same lease sends no further ack: neither for the
\* message that failed nor for anything after it (the halt rule R3).
NoAckAfterFailure ==
  [][wire' > wire => pc[lease] # "ended" /\ turn[lease] \notin {"abandoned", "closed"}]_vars

\* The ingress implements the delivery contract of module Delivery.
Contract == INSTANCE Delivery WITH stored <- stored, decided <- decided, cursor <- cursor
ImplementsDelivery == Contract!Spec

\* A lease and the turn its loop waits for, as the contract of module Turn sees them.
StageOf(g) ==
  CASE pc[g] = "ended"    -> "halted"
    [] pc[g] = "adoption" -> IF turn[g] \in {"abandoned", "closed"} THEN "failed" ELSE turn[g]
    [] OTHER              -> "idle"

TurnOf(g) == INSTANCE Turn WITH
  stage   <- StageOf(g),
  covered <- pc[g] = "adoption" /\ cur[g] <= adoptedSeq

\* What the loop of every lease relies on about its turns is the contract of module Turn,
\* which the tracker keeps (Adoption): a failed turn is the last of its lease, and an
\* adopted one is covered by the watermark, whatever older leases commit beside it.
KeepsTurns ==
  /\ \A g \in Leases : TurnOf(g)!Init
  /\ [][\A g \in Leases : [TurnOf(g)!Next]_(TurnOf(g)!turnVars)]_vars

\* Every message the host stored is eventually acked, so decided: no halt, lost
\* ack, reconnect or restart leaves one behind.
EverythingAcked == \A s \in Msgs : s <= stored ~> s <= cursor

\* What the comments promise of a lease that was stopped (ingress.ts:409-411,
\* adoption.ts:11-13): a late onAdopted hits the closed generation, so no turn
\* is adopted once its lease is stopped.  The code does not keep it: a loop
\* inside the gate or the access resolve when stop() runs dispatches afterwards,
\* and nobody closes that tracker.
NoAdoptionAfterStop ==
  [][\A g \in Leases :
       turn[g] # "adopted" /\ turn'[g] = "adopted" => g \notin stopped]_vars

-----------------------------------------------------------------------------
(* The inductive invariants behind the properties (proved in IngressProofs). *)

\* A lease that has not started has no state.
Unstarted ==
  \A g \in Leases : g > lease => pc[g] = "off" /\ cur[g] = 0 /\ turn[g] = "none"

\* A loop handles a stored message whose predecessors are all decided; once its
\* turn is adopted, or the loop has moved on, the message itself is decided.
InOrder(g) ==
  /\ pc[g] \in Handling => cur[g] <= stored /\ DoneUpTo(cur[g] - 1)
  /\ turn[g] \in LiveTurn => pc[g] = "adoption"
  /\ pc[g] = "adoption" /\ turn[g] = "adopted" => DoneUpTo(cur[g])
  /\ pc[g] \in {"next", "bound"} => DoneUpTo(cur[g])

HandledInOrder == \A g \in Leases : InOrder(g)

\* The predecessors of s are decided, or the last of them is being handled, or
\* lies before position i of the queue.
Follows(s, i) ==
  \/ DoneUpTo(s - 1)
  \/ s = cur[lease] + 1
  \/ \E j \in 1 .. i - 1 : s = queue[j] + 1

\* The events the current loop has not taken yet, and the one the host streams
\* next, come in order, replays included.
StreamInOrder ==
  phase # "down" =>
    /\ sent <= stored
    /\ Follows(sent + 1, Len(queue) + 1)
    /\ \A i \in 1 .. Len(queue) : queue[i] <= stored /\ Follows(queue[i], i)

DeliveryInv ==
  /\ AckOnlyDecided
  /\ ReplayCheckSafe
  /\ decided \subseteq 1 .. stored
  /\ link = "seated" => phase # "down"
  /\ Unstarted
  /\ HandledInOrder
  /\ StreamInOrder

\* Only the current lease runs, and only while it is up.
OneRunning ==
  \A g \in Leases : pc[g] # "off" /\ g \notin stopped => g = lease /\ phase = "up"

\* A running loop past the replay check handles a message never adopted.
FreshAhead ==
  \A g \in Leases \ stopped :
    \/ pc[g] \in {"gate", "access"}
    \/ pc[g] = "adoption" /\ turn[g] \in LiveTurn
    => adoptions[cur[g]] = 0

OnceInv ==
  /\ AdoptedOnce
  /\ AdoptionDurable
  /\ OneRunning
  /\ FreshAhead
=============================================================================
