------------------------------- MODULE Session -------------------------------
(***************************************************************************)
(* The session's live state (src/src/monitor/session.ts): the reconnect     *)
(* barrier with its generations, the warm-up that rebuilds the members      *)
(* cache behind it, and the ingress loop as far as it depends on either     *)
(* (ingress.ts, sender-gate.ts).                                            *)
(*                                                                         *)
(* Who is in a room is not part of the durable stream.  The host reports a   *)
(* change only to a connection that is seated, so a change during an outage *)
(* is never reported; the warm-up exists to make up for that.  The members  *)
(* of a room are a version number that grows with every change.             *)
(*                                                                         *)
(* The session has been opened: its first warm-up has published.            *)
(***************************************************************************)
EXTENDS Integers, Sequences

CONSTANTS
  Rooms,
  MaxVersion,  \* bound: membership changes per room
  MaxRetries,  \* bound: reconnect attempts, so generations
  MaxQueue     \* bound: events the client holds

ASSUME RetriesAssumption == MaxRetries \in Nat
ASSUME VersionAssumption == MaxVersion \in Nat
ASSUME QueueAssumption   == MaxQueue \in Nat

Versions    == 0 .. MaxVersion
None        == -1               \* not in the cache, not read yet
Generations == 1 .. MaxRetries
Kinds       == {"message", "reaction", "change"}
Events      == [kind : Kinds, room : Rooms, at : Versions]

VARIABLES
  \* the device host and the client (external)
  version,     \* who is in the room
  link,        \* "seated", "lost" or "retrying"; "closed" by closeOnce, "dead" when the
               \* client gave up (token revoked, displaced, rejected)
  queue,       \* events the loop has not taken
  \* the session
  generation,
  stale,       \* the barrier's promise: "none", "pending" or "rejected"
  members,     \* the members cache
  warmup,      \* of each generation that reconnected: is it running, what has it read
  \* the loop
  pc,          \* where it is suspended
  ev,          \* the event it handles
  \* history
  published,   \* the generation whose warm-up published last
  used         \* the members the last gate decided on, and the version it needed

hostVars    == <<version, link, queue>>
sessionVars == <<generation, stale, members, warmup, published>>
loopVars    == <<pc, ev, used>>
vars == <<hostVars, sessionVars, loopVars>>

PCs == {"next",     \* for await (const ev of client.events())
        "barrier",  \* await session.barrier(), the promise pending
        "passed",   \* the barrier let the loop through
        "get",      \* await client.getMembers(...), the room was not cached
        "again",    \* the same, because the sender was not among the members
        "ended"}

TypeOK ==
  /\ version \in [Rooms -> Versions]
  /\ link \in {"seated", "lost", "retrying", "closed", "dead"}
  /\ queue \in Seq(Events)
  /\ generation \in 0 .. MaxRetries
  /\ stale \in {"none", "pending", "rejected"}
  /\ members \in [Rooms -> Versions \cup {None}]
  /\ warmup \in [Generations ->
       [state : {"off", "running"}, read : [Rooms -> Versions \cup {None}]]]
  /\ published \in 0 .. MaxRetries
  /\ pc \in PCs
  /\ ev \in Events
  /\ used \in [have : Versions, need : Versions]

Nothing == [r \in Rooms |-> None]

Init ==
  /\ version = [r \in Rooms |-> 0]
  /\ link = "seated"
  /\ queue = <<>>
  /\ generation = 0
  /\ stale = "none"
  /\ members = [r \in Rooms |-> 0]
  /\ warmup = [g \in Generations |-> [state |-> "off", read |-> Nothing]]
  /\ published = 0
  /\ pc = "next"
  /\ ev \in [kind : {"change"}, room : Rooms, at : {0}]
  /\ used = [have |-> 0, need |-> 0]

-----------------------------------------------------------------------------
(* The device host (external).                                             *)

\* Somebody joins or leaves: only a seated connection hears of it.
ChangeMembers(r) ==
  /\ version[r] < MaxVersion
  /\ version' = [version EXCEPT ![r] = @ + 1]
  /\ \/ /\ link = "seated"
        /\ Len(queue) < MaxQueue
        /\ queue' = Append(queue, [kind |-> "change", room |-> r, at |-> version'[r]])
     \/ /\ link # "seated"
        /\ UNCHANGED queue
  /\ UNCHANGED <<link, sessionVars, loopVars>>

\* A message or a reaction of the room as it is now.
StreamEvent(k, r) ==
  /\ link = "seated"
  /\ Len(queue) < MaxQueue
  /\ queue' = Append(queue, [kind |-> k, room |-> r, at |-> version[r]])
  /\ UNCHANGED <<version, link, sessionVars, loopVars>>

Drop ==
  /\ link = "seated"
  /\ generation < MaxRetries
  /\ link' = "lost"
  /\ UNCHANGED <<version, queue, sessionVars, loopVars>>

\* A terminal error of the client.  No event tells the session of it: pending
\* requests are rejected, and the iterator ends for a loop that asks for an event.
GivesUp ==
  /\ link \in {"seated", "lost", "retrying"}
  /\ link' = "dead"
  /\ UNCHANGED <<version, queue, sessionVars, loopVars>>

-----------------------------------------------------------------------------
(* The session's handlers of the client's events.                          *)

\* "retry": at least one comes before "reconnected".
Retry ==
  /\ link \in {"lost", "retrying"}
  /\ generation < MaxRetries
  /\ link' = "retrying"
  /\ generation' = generation + 1
  /\ stale' = IF stale = "none" THEN "pending" ELSE stale
  /\ UNCHANGED <<version, queue, members, warmup, published, loopVars>>

\* "reconnected": starts the warm-up of this generation.
Reconnected ==
  /\ link = "retrying"
  /\ link' = "seated"
  /\ warmup' = [warmup EXCEPT ![generation] = [state |-> "running", read |-> Nothing]]
  /\ UNCHANGED <<version, queue, generation, stale, members, published, loopVars>>

Ends(g) == warmup' = [warmup EXCEPT ![g] = [state |-> "off", read |-> Nothing]]

\* The loop that waits for the barrier's promise wakes with it.
Wake(where) == pc' = IF pc = "barrier" THEN where ELSE pc

\* refresh: the answer to one getMembers request.  A request may outlive the
\* connection it was made on; it is answered on a seated one.
WarmupReads(g, r) ==
  /\ warmup[g].state = "running"
  /\ link = "seated"
  /\ warmup[g].read[r] = None
  /\ warmup' = [warmup EXCEPT ![g].read[r] = version[r]]
  /\ UNCHANGED <<hostVars, generation, stale, members, published, loopVars>>

ReadAll(g) == \A r \in Rooms : warmup[g].read[r] # None

\* Mutant of WarmupDone: a superseded warm-up publishes and opens the barrier.
WarmupDoneUnfenced(g) ==
  /\ warmup[g].state = "running"
  /\ ReadAll(g)
  /\ Ends(g)
  /\ members' = warmup[g].read
  /\ published' = g
  /\ stale' = "none"
  /\ Wake("passed")
  /\ UNCHANGED <<hostVars, generation, ev, used>>

\* refresh resolved: published and the barrier opened only by the latest
\* generation.
WarmupDone(g) ==
  /\ warmup[g].state = "running"
  /\ ReadAll(g)
  /\ Ends(g)
  /\ \/ /\ g = generation
        /\ members' = warmup[g].read
        /\ published' = g
        /\ stale' = "none"
        /\ Wake("passed")
     \/ /\ g # generation
        /\ UNCHANGED <<members, published, stale, pc>>
  /\ UNCHANGED <<hostVars, generation, ev, used>>

\* Mutant of WarmupFails: the session closes but the barrier stays pending.
WarmupFailsSilently(g) ==
  /\ warmup[g].state = "running"
  /\ Ends(g)
  /\ link' = IF g = generation THEN "closed" ELSE link
  /\ UNCHANGED <<version, queue, generation, stale, members, published, loopVars>>

\* refresh rejected: the latest one rejects the barrier and closes the client.
WarmupFails(g) ==
  /\ warmup[g].state = "running"
  /\ Ends(g)
  /\ \/ /\ g = generation
        /\ stale' = "rejected"
        /\ link' = "closed"
        /\ Wake("ended")
     \/ /\ g # generation
        /\ UNCHANGED <<stale, link, pc>>
  /\ UNCHANGED <<version, queue, generation, members, published, ev, used>>

-----------------------------------------------------------------------------
(* The ingress loop.                                                       *)

\* for await, and the call of barrier() on the event.
TakeEvent ==
  /\ pc = "next"
  /\ queue # <<>>
  /\ ev' = Head(queue)
  /\ queue' = Tail(queue)
  /\ pc' = CASE stale = "none"     -> "passed"
             [] stale = "pending"  -> "barrier"
             [] stale = "rejected" -> "ended"
  /\ UNCHANGED <<version, link, sessionVars, used>>

\* The iterator of a client that is closed or gave up ends.
StreamEnds ==
  /\ pc = "next"
  /\ link \in {"closed", "dead"}
  /\ pc' = "ended"
  /\ UNCHANGED <<hostVars, sessionVars, ev, used>>

\* membership_changed, added_to_group, removed_from_group: the room leaves the
\* cache.
HandleChange ==
  /\ pc = "passed"
  /\ ev.kind = "change"
  /\ members' = [members EXCEPT ![ev.room] = None]
  /\ pc' = "next"
  /\ UNCHANGED <<hostVars, generation, stale, warmup, published, ev, used>>

\* gateSender decides on the members it was given.
Gate(have) ==
  /\ used' = [have |-> have, need |-> ev.at]
  /\ pc' = "next"

\* getWithSender, get: the room is cached.  The sender is among the members, or
\* the room is asked for again.
LookUpCached ==
  /\ pc = "passed"
  /\ ev.kind # "change"
  /\ members[ev.room] # None
  /\ \/ /\ Gate(members[ev.room])
        /\ UNCHANGED members
     \/ /\ members' = [members EXCEPT ![ev.room] = None]
        /\ pc' = "again"
        /\ UNCHANGED used
  /\ UNCHANGED <<hostVars, generation, stale, warmup, published, ev>>

LookUpUncached ==
  /\ pc = "passed"
  /\ ev.kind # "change"
  /\ members[ev.room] = None
  /\ pc' = "get"
  /\ UNCHANGED <<hostVars, sessionVars, ev, used>>

\* The host's answer to the loop's getMembers.
Answered ==
  /\ pc \in {"get", "again"}
  /\ link = "seated"
  /\ \/ /\ members' = [members EXCEPT ![ev.room] = version[ev.room]]
        /\ Gate(version[ev.room])
     \/ /\ pc = "get"
        /\ members' = [members EXCEPT ![ev.room] = None]
        /\ pc' = "again"
        /\ UNCHANGED used
  /\ UNCHANGED <<hostVars, generation, stale, warmup, published, ev>>

\* The request is rejected: a message halts the loop, a reaction is skipped.
LookUpFails ==
  /\ pc \in {"get", "again"}
  /\ pc' = IF ev.kind = "reaction" THEN "next" ELSE "ended"
  /\ UNCHANGED <<hostVars, sessionVars, ev, used>>

-----------------------------------------------------------------------------
Warmup(g) ==
  \/ \E r \in Rooms : WarmupReads(g, r)
  \/ WarmupDone(g)
  \/ WarmupFails(g)

Host ==
  \/ \E r \in Rooms : ChangeMembers(r)
  \/ \E r \in Rooms, k \in {"message", "reaction"} : StreamEvent(k, r)
  \/ Drop
  \/ GivesUp

Loop ==
  \/ TakeEvent
  \/ StreamEnds
  \/ HandleChange
  \/ LookUpCached
  \/ LookUpUncached
  \/ Answered
  \/ LookUpFails

Next == Host \/ Retry \/ Reconnected \/ Loop \/ \E g \in Generations : Warmup(g)

Spec == Init /\ [][Next]_vars

-----------------------------------------------------------------------------
\* Fairness: the requests of a warm-up are answered or rejected, and its promise
\* settles with them.  Nothing is assumed of the client: an outage may last for ever.
Fairness == \A g \in Generations : WF_vars(Warmup(g))

FairSpec == Spec /\ Fairness

-----------------------------------------------------------------------------
(* Properties.                                                             *)

\* The barrier is open only while the cache was rebuilt by the warm-up of the
\* latest reconnect (session.ts: "only the warm-up of the LATEST reconnect may
\* open the barrier, and only when it succeeded").
OpenOnlyWhenFresh == stale = "none" => published = generation

\* The gate never decides on members older than the room was when the host sent
\* the event, although changes during an outage are never reported, warm-ups
\* overtake each other, and the loop writes the cache beside them.
MembersFresh == used.have >= used.need

\* What the barrier is there for: it opens on fresh members only, and the gate never
\* decides on stale ones.
BarrierKeepsFresh == OpenOnlyWhenFresh /\ MembersFresh

\* The warm-up of the latest generation is under way.
WarmingUp == \E g \in Generations : g = generation /\ warmup[g].state = "running"

\* Only an outage keeps a loop on the barrier: whatever becomes of the warm-ups, it
\* wakes, with fresh members or to halt, unless the client is still retrying, or gave
\* up before it was back ("a loop body already parked on it must wake and halt").
BarrierWakes ==
  pc = "barrier" ~> pc # "barrier" \/ (link \in {"retrying", "dead"} /\ ~WarmingUp)

-----------------------------------------------------------------------------
(* The inductive invariant behind the first two (proved in SessionProofs).  *)

\* The loop hears of a change of the room before it takes event i of the queue:
\* it holds the change, suspended at `held`, or the change lies ahead of i.
Announced(r, i, held) ==
  \/ pc = held /\ ev.kind = "change" /\ ev.room = r
  \/ \E j \in 1 .. i - 1 : queue[j].kind = "change" /\ queue[j].room = r

\* The members v of the room are good enough for every event of it in the queue,
\* for the next one the host would stream, and for the one the loop holds.
Sound(v, r, held) ==
  /\ \A i \in 1 .. Len(queue) :
       queue[i].kind # "change" /\ queue[i].room = r
         => v >= queue[i].at \/ Announced(r, i, held)
  /\ link = "seated" => v >= version[r] \/ Announced(r, Len(queue) + 1, held)
  /\ pc \in {"barrier", "passed"} /\ ev.kind # "change" /\ ev.room = r => v >= ev.at

\* No event is newer than its room.
NoFuture ==
  /\ \A i \in 1 .. Len(queue) : queue[i].at <= version[queue[i].room]
  /\ ev.at <= version[ev.room]

\* The barrier and the warm-up behind it.
BarrierInv ==
  /\ OpenOnlyWhenFresh
  /\ link = "retrying" => stale = "pending" /\ generation > 0
  /\ pc = "barrier" => stale = "pending"
  /\ \A g \in Generations : warmup[g].state = "running" =>
       g <= generation /\ (g = generation => stale = "pending" /\ link # "retrying")
  /\ stale = "rejected" => link = "closed"

\* With the barrier open the cache is good; behind the closed barrier, what the
\* latest warm-up has read is; and what the loop is about to look up always is.
MembersInv ==
  /\ stale = "none" =>
       \A r \in Rooms, v \in Versions : members[r] = v => Sound(v, r, "passed")
  /\ \A g \in Generations : g = generation /\ warmup[g].state = "running" =>
       \A r \in Rooms, v \in Versions : warmup[g].read[r] = v => Sound(v, r, "barrier")
  /\ pc = "passed" /\ ev.kind # "change" /\ members[ev.room] # None
       => members[ev.room] >= ev.at
  /\ MembersFresh

SessionInv == NoFuture /\ BarrierInv /\ MembersInv
=============================================================================
