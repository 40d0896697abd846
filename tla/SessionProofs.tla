---------------------------- MODULE SessionProofs ----------------------------
(***************************************************************************)
(* Theorems about Session, for every set of rooms and every bound.          *)
(***************************************************************************)
EXTENDS Session, SequenceTheorems, TLAPS

\* The state stays within its types.
THEOREM TypeCorrect == Spec => []TypeOK
<1>1. Init => TypeOK
  BY VersionAssumption, RetriesAssumption
     DEF VersionAssumption, RetriesAssumption, Init, TypeOK, Versions, None, Nothing, Events, Kinds, PCs
<1>2. TypeOK /\ [Next]_vars => TypeOK'
  <2> SUFFICES ASSUME TypeOK, [Next]_vars
               PROVE  TypeOK'
    OBVIOUS
  <2> USE DEF TypeOK, hostVars, sessionVars, loopVars
  <2>1. ASSUME NEW r \in Rooms, ChangeMembers(r)
        PROVE  TypeOK'
    <3>1. version[r] + 1 \in Versions
      BY <2>1, VersionAssumption DEF ChangeMembers, VersionAssumption, Versions
    <3>2. version' \in [Rooms -> Versions] /\ version'[r] \in Versions
      BY <2>1, <3>1 DEF ChangeMembers
    <3>3. [kind |-> "change", room |-> r, at |-> version'[r]] \in Events
      BY <3>2 DEF Events, Kinds
    <3>4. Append(queue, [kind |-> "change", room |-> r, at |-> version'[r]]) \in Seq(Events)
      BY <3>3, AppendProperties
    <3>5. QED
      BY <2>1, <3>2, <3>4 DEF ChangeMembers
  <2>2. ASSUME NEW r \in Rooms, NEW k \in {"message", "reaction"}, StreamEvent(k, r)
        PROVE  TypeOK'
    <3>1. [kind |-> k, room |-> r, at |-> version[r]] \in Events
      BY DEF Events, Kinds
    <3>2. QED
      BY <2>2, <3>1, AppendProperties DEF StreamEvent
  <2>3. CASE Drop \/ GivesUp
    BY <2>3 DEF Drop, GivesUp
  <2>4. CASE Retry
    BY <2>4, RetriesAssumption DEF Retry, RetriesAssumption
  <2>5. CASE Reconnected
    BY <2>5 DEF Reconnected, Nothing, None
  <2>6. ASSUME NEW g \in Generations, Warmup(g)
        PROVE  TypeOK'
    <3>1. ASSUME NEW r \in Rooms, WarmupReads(g, r)
          PROVE  TypeOK'
      BY <3>1 DEF WarmupReads
    <3>2. CASE WarmupDone(g)
      <4>1. Generations \subseteq 0 .. MaxRetries
        BY DEF Generations
      <4>2. warmup' \in [Generations ->
              [state : {"off", "running"}, read : [Rooms -> Versions \cup {None}]]]
        BY <3>2 DEF WarmupDone, Ends, Nothing
      <4>3. QED
        BY <3>2, <4>1, <4>2 DEF WarmupDone, Wake, PCs
    <3>3. CASE WarmupFails(g)
      <4>1. warmup' \in [Generations ->
              [state : {"off", "running"}, read : [Rooms -> Versions \cup {None}]]]
        BY <3>3 DEF WarmupFails, Ends, Nothing
      <4>2. QED
        BY <3>3, <4>1 DEF WarmupFails, Wake, PCs
    <3>4. QED
      BY <2>6, <3>1, <3>2, <3>3 DEF Warmup
  <2>7. CASE Loop
    <3>1. CASE TakeEvent
      <4>1. Head(queue) \in Events /\ Tail(queue) \in Seq(Events)
        BY <3>1, HeadTailProperties, EmptySeq DEF TakeEvent
      <4>2. QED
        BY <3>1, <4>1 DEF TakeEvent, PCs
    <3>2. ev.room \in Rooms /\ ev.at \in Versions
      BY DEF Events
    <3>3. CASE StreamEnds \/ HandleChange \/ LookUpUncached \/ LookUpFails
      BY <3>2, <3>3 DEF StreamEnds, HandleChange, LookUpUncached, LookUpFails, PCs
    <3>4. CASE LookUpCached
      <4>1. members[ev.room] \in Versions
        BY <3>2, <3>4 DEF LookUpCached
      <4>2. CASE Gate(members[ev.room]) /\ UNCHANGED members
        <5>1. used' \in [have : Versions, need : Versions]
          BY <3>2, <4>1, <4>2 DEF Gate
        <5>2. QED
          BY <3>4, <4>2, <5>1 DEF LookUpCached, Gate, PCs
      <4>3. CASE members' = [members EXCEPT ![ev.room] = None] /\ pc' = "again" /\ UNCHANGED used
        BY <3>4, <4>3 DEF LookUpCached, PCs
      <4>4. QED
        BY <3>4, <4>2, <4>3 DEF LookUpCached
    <3>5. CASE Answered
      <4>1. CASE Gate(version[ev.room]) /\ members' = [members EXCEPT ![ev.room] = version[ev.room]]
        <5>1. used' \in [have : Versions, need : Versions]
          BY <3>2, <4>1 DEF Gate
        <5>2. QED
          BY <3>2, <3>5, <4>1, <5>1 DEF Answered, Gate, PCs
      <4>2. CASE members' = [members EXCEPT ![ev.room] = None] /\ pc' = "again" /\ UNCHANGED used
        BY <3>5, <4>2 DEF Answered, PCs
      <4>3. QED
        BY <3>5, <4>1, <4>2 DEF Answered
    <3>6. QED
      BY <2>7, <3>1, <3>3, <3>4, <3>5 DEF Loop
  <2>8. CASE UNCHANGED vars
    BY <2>8 DEF vars
  <2>9. QED
    BY <2>1, <2>2, <2>3, <2>4, <2>5, <2>6, <2>7, <2>8 DEF Next, Host
<1>3. QED
  BY <1>1, <1>2, PTL DEF Spec

\* The barrier's part of the invariant holds by itself: what opens it is the
\* warm-up of the latest generation, and a new generation closes it.
THEOREM BarrierInductive == Spec => []BarrierInv
<1>1. Init => BarrierInv
  BY DEF Init, BarrierInv, OpenOnlyWhenFresh, Generations
<1>2. TypeOK /\ BarrierInv /\ [Next]_vars => BarrierInv'
  <2> SUFFICES ASSUME TypeOK, BarrierInv, [Next]_vars
               PROVE  BarrierInv'
    OBVIOUS
  <2>a. generation \in Nat /\ Generations \subseteq Nat
    BY RetriesAssumption DEF TypeOK, Generations, RetriesAssumption
  <2> USE DEF BarrierInv, OpenOnlyWhenFresh, hostVars, sessionVars, loopVars
  <2>1. CASE Host
    BY <2>1 DEF Host, ChangeMembers, StreamEvent, Drop, GivesUp
  <2>2. CASE Retry
    <3>1. stale' = "pending" /\ generation' = generation + 1
      BY <2>2 DEF Retry, TypeOK
    <3>2. \A g \in Generations : warmup'[g].state = "running" =>
              g <= generation + 1 /\ g # generation + 1
      <4> SUFFICES ASSUME NEW g \in Generations, warmup'[g].state = "running"
                   PROVE  g <= generation + 1 /\ g # generation + 1
        OBVIOUS
      <4>1. g \in Nat /\ g <= generation
        BY <2>2, <2>a DEF Retry
      <4>2. QED
        BY <4>1, <2>a
    <3>3. generation + 1 > 0
      BY <2>a
    <3>4. QED
      BY <2>2, <3>1, <3>2, <3>3 DEF Retry
  <2>3. CASE Reconnected
    <3>1. \A g \in Generations : warmup'[g].state = "running" =>
            g <= generation /\ (g = generation => stale = "pending" /\ link' # "retrying")
      <4> SUFFICES ASSUME NEW g \in Generations, warmup'[g].state = "running"
                   PROVE  g <= generation /\ (g = generation => stale = "pending" /\ link' # "retrying")
        OBVIOUS
      <4>1. CASE g = generation
        BY <2>3, <2>a, <4>1 DEF Reconnected
      <4>2. CASE g # generation
        BY <2>3, <4>2 DEF Reconnected, TypeOK
      <4>3. QED
        BY <4>1, <4>2
    <3>2. QED
      BY <2>3, <3>1 DEF Reconnected
  <2>4. ASSUME NEW g \in Generations, Warmup(g)
        PROVE  BarrierInv'
    <3>1. CASE \E r \in Rooms : WarmupReads(g, r)
      <4>1. \A h \in Generations : warmup'[h].state = warmup[h].state
        BY <3>1 DEF WarmupReads, TypeOK
      <4>2. QED
        BY <3>1, <4>1 DEF WarmupReads
    <3>2. ASSUME Ends(g)
          PROVE  \A h \in Generations : warmup'[h].state = "running" =>
                   h # g /\ warmup[h].state = "running"
      BY <3>2 DEF Ends, TypeOK
    <3>3. CASE WarmupDone(g)
      <4>1. CASE g = generation
        BY <3>2, <3>3, <4>1 DEF WarmupDone, Wake
      <4>2. CASE g # generation
        BY <3>2, <3>3, <4>2 DEF WarmupDone
      <4>3. QED
        BY <4>1, <4>2
    <3>4. CASE WarmupFails(g)
      <4>1. CASE g = generation
        <5>1. stale' = "rejected" /\ link' = "closed" /\ pc' # "barrier"
          BY <3>4, <4>1 DEF WarmupFails, Wake
        <5>2. QED
          BY <3>2, <3>4, <4>1, <5>1 DEF WarmupFails
      <4>2. CASE g # generation
        BY <3>2, <3>4, <4>2 DEF WarmupFails
      <4>3. QED
        BY <4>1, <4>2
    <3>5. QED
      BY <2>4, <3>1, <3>3, <3>4 DEF Warmup
  <2>5. CASE Loop
    BY <2>5 DEF Loop, TakeEvent, StreamEnds, HandleChange, LookUpCached, LookUpUncached,
                Answered, LookUpFails, Gate, TypeOK
  <2>6. CASE UNCHANGED vars
    BY <2>6 DEF vars
  <2>7. QED
    BY <2>1, <2>2, <2>3, <2>4, <2>5, <2>6 DEF Next
<1>3. QED
  BY <1>1, <1>2, TypeCorrect, PTL DEF Spec

\* The barrier is open only while the cache is the one the latest reconnect's
\* warm-up published.
THEOREM OpensFresh == Spec => []OpenOnlyWhenFresh
<1>1. BarrierInv => OpenOnlyWhenFresh
  BY DEF BarrierInv
<1>2. QED
  BY <1>1, BarrierInductive, PTL

-----------------------------------------------------------------------------
(* How what is known of a room survives each kind of step.                  *)

\* A step that streams and takes nothing.  The loop may move on, but not away
\* from a change of the room that it holds.
LEMMA Quiet ==
  ASSUME NEW r \in Rooms, NEW v \in Versions, NEW before, NEW after,
         Sound(v, r, before),
         UNCHANGED <<queue, ev, version>>,
         link' = "seated" => link = "seated",
         pc = before /\ ev.kind = "change" /\ ev.room = r => pc' = after,
         pc' \in {"barrier", "passed"} => pc \in {"barrier", "passed"}
  PROVE  Sound(v, r, after)'
BY DEF Sound, Announced

\* What the host answers now is good.
LEMMA Fresh ==
  ASSUME TypeOK, NoFuture, NEW r \in Rooms, NEW v \in Versions, v = version[r], NEW held
  PROVE  Sound(v, r, held)
<1>1. \A i \in 1 .. Len(queue) : queue[i].room = r => v >= queue[i].at
  <2> SUFFICES ASSUME NEW i \in 1 .. Len(queue), queue[i].room = r
               PROVE  v >= queue[i].at
    OBVIOUS
  <2>1. queue[i] \in Events
    BY ElementOfSeq DEF TypeOK
  <2>2. queue[i].at \in Versions /\ queue[i].at <= v
    BY <2>1 DEF Events, NoFuture
  <2>3. QED
    BY <2>2 DEF Versions
<1>2. ev.room = r => v >= ev.at
  BY DEF TypeOK, NoFuture, Events, Versions
<1>3. v >= version[r]
  BY DEF Versions
<1>4. QED
  BY <1>1, <1>2, <1>3 DEF Sound

\* An announcement stays one when the queue grows at its end.
LEMMA AnnouncedGrows ==
  ASSUME TypeOK, NEW r \in Rooms, NEW held, NEW e \in Events, queue' = Append(queue, e),
         UNCHANGED <<pc, ev>>, NEW i \in 1 .. Len(queue) + 1, Announced(r, i, held)
  PROVE  Announced(r, i, held)'
<1>1. CASE pc = held /\ ev.kind = "change" /\ ev.room = r
  BY <1>1 DEF Announced
<1>2. CASE \E j \in 1 .. i - 1 : queue[j].kind = "change" /\ queue[j].room = r
  <2>1. PICK j \in 1 .. i - 1 : queue[j].kind = "change" /\ queue[j].room = r
    BY <1>2
  <2>2. j \in 1 .. Len(queue)
    BY DEF TypeOK
  <2>3. queue'[j] = queue[j]
    BY <2>2, AppendProperties DEF TypeOK
  <2>4. QED
    BY <2>1, <2>3 DEF Announced
<1>3. QED
  BY <1>1, <1>2 DEF Announced

\* The host streams an event: a change, or one of the room as it is.
LEMMA Streamed ==
  ASSUME TypeOK, NEW r \in Rooms, NEW v \in Versions, NEW held, Sound(v, r, held),
         NEW e \in Events, queue' = Append(queue, e), UNCHANGED <<pc, ev>>,
         link = "seated",
         e.kind # "change" => e.at = version[e.room],
         version'[r] = version[r] \/ (e.kind = "change" /\ e.room = r)
  PROVE  Sound(v, r, held)'
<1> PICK n \in Nat : n = Len(queue)
  BY DEF TypeOK
<1>1. /\ n \in Nat
      /\ Len(queue') = n + 1
      /\ \A i \in 1 .. n : queue'[i] = queue[i]
      /\ queue'[n + 1] = e
  BY AppendProperties DEF TypeOK
<1>2. v >= version[r] \/ Announced(r, n + 1, held)
  BY DEF Sound
<1>3. \A i \in 1 .. n : queue[i].kind # "change" /\ queue[i].room = r
         => v >= queue[i].at \/ Announced(r, i, held)'
  <2> SUFFICES ASSUME NEW i \in 1 .. n, queue[i].kind # "change", queue[i].room = r
               PROVE  v >= queue[i].at \/ Announced(r, i, held)'
    OBVIOUS
  <2>1. v >= queue[i].at \/ Announced(r, i, held)
    BY DEF Sound
  <2>2. i \in 1 .. Len(queue) + 1
    BY <1>1
  <2>3. QED
    BY <2>1, <2>2, AnnouncedGrows
<1>4. v >= version[r] \/ Announced(r, n + 1, held)'
  <2>1. n + 1 \in 1 .. Len(queue) + 1
    BY <1>1
  <2>2. QED
    BY <1>2, <2>1, AnnouncedGrows
<1>5. \A i \in 1 .. Len(queue') : queue'[i].kind # "change" /\ queue'[i].room = r
         => v >= queue'[i].at \/ Announced(r, i, held)'
  <2> SUFFICES ASSUME NEW i \in 1 .. n + 1, queue'[i].kind # "change", queue'[i].room = r
               PROVE  v >= queue'[i].at \/ Announced(r, i, held)'
    BY <1>1
  <2>1. CASE i = n + 1
    BY <1>1, <1>4, <2>1
  <2>2. CASE i # n + 1
    <3>1. i \in 1 .. n
      BY <1>1, <2>2
    <3>2. QED
      BY <1>1, <1>3, <3>1
  <2>3. QED
    BY <2>1, <2>2
<1>6. v >= version'[r] \/ Announced(r, n + 2, held)'
  <2>1. CASE e.kind = "change" /\ e.room = r
    <3>1. n + 1 \in 1 .. n + 2 - 1
      BY <1>1
    <3>2. QED
      BY <1>1, <2>1, <3>1 DEF Announced
  <2>2. CASE version'[r] = version[r]
    <3>1. 1 .. n + 1 - 1 \subseteq 1 .. n + 2 - 1
      BY <1>1
    <3>2. Announced(r, n + 1, held)' => Announced(r, n + 2, held)'
      BY <3>1 DEF Announced
    <3>3. QED
      BY <1>4, <2>2, <3>2
  <2>3. QED
    BY <2>1, <2>2
<1>7. Len(queue') + 1 = n + 2
  BY <1>1
<1>8. QED
  BY <1>5, <1>6, <1>7 DEF Sound

\* The loop takes the first event, and keeps it in hand if it is a change.
LEMMA Taken ==
  ASSUME TypeOK, TakeEvent, NEW r \in Rooms, NEW v \in Versions, NEW held,
         Sound(v, r, held), pc' = held, held # "next"
  PROVE  Sound(v, r, held)'
<1> PICK n \in Nat : n = Len(queue)
  BY DEF TypeOK
<1>1. /\ n \in Nat \ {0}
      /\ ev' = queue[1]
      /\ Len(queue') = n - 1
      /\ \A i \in 1 .. Len(queue') : queue'[i] = queue[i + 1]
      /\ pc = "next"
      /\ UNCHANGED <<version, link>>
  BY HeadTailProperties, EmptySeq DEF TakeEvent, TypeOK, hostVars
<1>2. \A i \in 1 .. n : Announced(r, i + 1, held) => Announced(r, i, held)'
  <2> SUFFICES ASSUME NEW i \in 1 .. n, Announced(r, i + 1, held)
               PROVE  Announced(r, i, held)'
    OBVIOUS
  <2>a. pc # held
    BY <1>1
  <2>1. PICK j \in 1 .. i + 1 - 1 : queue[j].kind = "change" /\ queue[j].room = r
    BY <2>a DEF Announced
  <2>2. CASE j = 1
    BY <1>1, <2>1, <2>2 DEF Announced
  <2>3. CASE j # 1
    <3>1. j - 1 \in 1 .. i - 1 /\ j - 1 \in 1 .. Len(queue')
      BY <1>1, <2>3
    <3>2. queue'[j - 1] = queue[j - 1 + 1]
      BY <1>1, <3>1
    <3>3. j - 1 + 1 = j
      OBVIOUS
    <3>4. QED
      BY <2>1, <3>1, <3>2, <3>3 DEF Announced
  <2>4. QED
    BY <2>2, <2>3
<1>3. ASSUME NEW i \in 1 .. Len(queue'), queue'[i].kind # "change", queue'[i].room = r
      PROVE  v >= queue'[i].at \/ Announced(r, i, held)'
  <2>1. i + 1 \in 1 .. n /\ i \in 1 .. n
    BY <1>1
  <2>2. v >= queue[i + 1].at \/ Announced(r, i + 1, held)
    BY <1>1, <1>3, <2>1 DEF Sound
  <2>3. QED
    BY <1>1, <1>2, <2>1, <2>2
<1>4. link' = "seated" => v >= version'[r] \/ Announced(r, n, held)'
  <2>1. link = "seated" => v >= version[r] \/ Announced(r, n + 1, held)
    BY DEF Sound
  <2>2. n \in 1 .. n
    BY <1>1
  <2>3. QED
    BY <1>1, <1>2, <2>1, <2>2
<1>5. ev'.kind # "change" /\ ev'.room = r => v >= ev'.at
  <2>1. 1 \in 1 .. n
    BY <1>1
  <2>2. ~Announced(r, 1, held)
    BY <1>1 DEF Announced
  <2>3. QED
    BY <1>1, <2>1, <2>2 DEF Sound
<1>6. Len(queue') + 1 = n
  BY <1>1
<1>7. QED
  BY <1>3, <1>4, <1>5, <1>6 DEF Sound

-----------------------------------------------------------------------------
\* A step after which whatever was good for a room still is, and which leaves the
\* session and the loop alone.
LEMMA HostKeeps ==
  ASSUME MembersInv, UNCHANGED <<sessionVars, loopVars>>,
         \A r \in Rooms, v \in Versions, held \in {"passed", "barrier"} :
           Sound(v, r, held) => Sound(v, r, held)'
  PROVE  MembersInv'
BY DEF MembersInv, MembersFresh, sessionVars, loopVars

\* A step of the loop that leaves the session alone and after which the loop is
\* not about to look anything up.
LEMMA LoopKeeps ==
  ASSUME TypeOK, MembersInv, UNCHANGED <<hostVars, sessionVars, ev>>,
         pc' \notin {"barrier", "passed"},
         ~(pc = "passed" /\ ev.kind = "change"), pc # "barrier",
         used'.have >= used'.need
  PROVE  MembersInv'
<1>1. \A r \in Rooms, v \in Versions, held \in {"passed", "barrier"} :
        Sound(v, r, held) => Sound(v, r, held)'
  BY Quiet DEF hostVars
<1>2. QED
  BY <1>1 DEF MembersInv, MembersFresh, hostVars, sessionVars

\* A room the loop drops from the cache, or has just been told the members of.
LEMMA CacheKeeps ==
  ASSUME TypeOK, NoFuture, MembersInv, NEW m \in {None, version[ev.room]},
         UNCHANGED <<hostVars, generation, stale, warmup, published, ev>>,
         members' = [members EXCEPT ![ev.room] = m],
         pc' \notin {"barrier", "passed"}, pc # "barrier",
         pc = "passed" /\ ev.kind = "change" => m = None,
         used'.have >= used'.need
  PROVE  MembersInv'
<1>1. ev.room \in Rooms
  BY DEF TypeOK, Events
<1>2. ASSUME stale' = "none", NEW r \in Rooms, NEW v \in Versions, members'[r] = v
      PROVE  Sound(v, r, "passed")'
  <2>1. CASE r # ev.room
    <3>1. members[r] = v
      BY <1>1, <1>2, <2>1 DEF TypeOK
    <3>2. Sound(v, r, "passed")
      BY <1>2, <3>1 DEF MembersInv
    <3>3. QED
      BY <2>1, <3>2, Quiet DEF hostVars
  <2>2. CASE r = ev.room
    <3>1. v = m
      BY <1>1, <1>2, <2>2 DEF TypeOK
    <3>2. m # None /\ v = version[r]
      BY <2>2, <3>1 DEF None, Versions
    <3>3. Sound(v, r, "passed")
      BY <3>2, Fresh
    <3>4. QED
      BY <3>2, <3>3, Quiet DEF hostVars
  <2>3. QED
    BY <2>1, <2>2
<1>3. \A r \in Rooms, v \in Versions : Sound(v, r, "barrier") => Sound(v, r, "barrier")'
  BY Quiet DEF hostVars
<1>4. QED
  BY <1>2, <1>3 DEF MembersInv, MembersFresh

\* What the loop does to the cache beside a warm-up keeps it good.
LEMMA LoopStep ==
  ASSUME TypeOK, BarrierInv, NoFuture, MembersInv, Loop
  PROVE  MembersInv'
<1>1. CASE TakeEvent
  <2>1. CASE stale = "none"
    <3>1. pc' = "passed"
      BY <1>1, <2>1 DEF TakeEvent
    <3>2. \A r \in Rooms, v \in Versions : members'[r] = v => Sound(v, r, "passed")'
      <4> SUFFICES ASSUME NEW r \in Rooms, NEW v \in Versions, members'[r] = v
                   PROVE  Sound(v, r, "passed")'
        OBVIOUS
      <4>1. Sound(v, r, "passed")
        BY <1>1, <2>1 DEF TakeEvent, MembersInv, sessionVars
      <4>2. QED
        BY <1>1, <3>1, <4>1, Taken
    <3>3. \A g \in Generations : ~(g = generation' /\ warmup'[g].state = "running")
      BY <1>1, <2>1 DEF TakeEvent, sessionVars, BarrierInv
    <3>4. ev' \in Events
      BY <1>1, HeadTailProperties, EmptySeq DEF TakeEvent, TypeOK
    <3>5. ev'.kind # "change" /\ members'[ev'.room] # None => members'[ev'.room] >= ev'.at
      <4> SUFFICES ASSUME ev'.kind # "change", members'[ev'.room] # None
                   PROVE  members'[ev'.room] >= ev'.at
        OBVIOUS
      <4>1. PICK r \in Rooms : r = ev'.room
        BY <3>4 DEF Events
      <4>2. PICK v \in Versions : v = members'[r]
        BY <1>1, <4>1 DEF TakeEvent, sessionVars, TypeOK
      <4>3. Sound(v, r, "passed")'
        BY <3>2, <4>2
      <4>4. QED
        BY <3>1, <4>1, <4>2, <4>3 DEF Sound
    <3>6. QED
      BY <1>1, <3>2, <3>3, <3>5 DEF TakeEvent, MembersInv, MembersFresh, sessionVars
  <2>2. CASE stale = "pending"
    <3>1. pc' = "barrier"
      BY <1>1, <2>2 DEF TakeEvent
    <3>2. \A r \in Rooms, v \in Versions : Sound(v, r, "barrier") => Sound(v, r, "barrier")'
      BY <1>1, <3>1, Taken
    <3>3. QED
      BY <1>1, <2>2, <3>1, <3>2 DEF TakeEvent, MembersInv, MembersFresh, sessionVars
  <2>3. CASE stale = "rejected"
    BY <1>1, <2>3 DEF TakeEvent, MembersInv, MembersFresh, sessionVars, BarrierInv
  <2>4. QED
    BY <2>1, <2>2, <2>3 DEF TypeOK
<1>2. CASE StreamEnds \/ LookUpUncached \/ LookUpFails
  BY <1>2, LoopKeeps DEF StreamEnds, LookUpUncached, LookUpFails, MembersInv, MembersFresh
<1>3. CASE HandleChange
  <2>1. members' = [members EXCEPT ![ev.room] = None] /\ None \in {None, version[ev.room]}
    BY <1>3 DEF HandleChange
  <2>2. QED
    BY <1>3, <2>1, CacheKeeps DEF HandleChange, MembersInv, MembersFresh
<1>4. CASE LookUpCached
  <2>1. CASE Gate(members[ev.room]) /\ UNCHANGED members
    <3>1. used'.have >= used'.need
      BY <1>4, <2>1 DEF LookUpCached, Gate, MembersInv
    <3>2. QED
      BY <1>4, <2>1, <3>1, LoopKeeps DEF LookUpCached, Gate, sessionVars
  <2>2. CASE members' = [members EXCEPT ![ev.room] = None] /\ pc' = "again" /\ UNCHANGED used
    <3>1. None \in {None, version[ev.room]}
      OBVIOUS
    <3>2. QED
      BY <1>4, <2>2, <3>1, CacheKeeps DEF LookUpCached, MembersInv, MembersFresh
  <2>3. QED
    BY <1>4, <2>1, <2>2 DEF LookUpCached
<1>5. CASE Answered
  <2>1. CASE Gate(version[ev.room]) /\ members' = [members EXCEPT ![ev.room] = version[ev.room]]
    <3>1. used'.have >= used'.need
      BY <2>1 DEF Gate, NoFuture, TypeOK, Events, Versions
    <3>2. version[ev.room] \in {None, version[ev.room]}
      OBVIOUS
    <3>3. QED
      BY <1>5, <2>1, <3>1, <3>2, CacheKeeps DEF Answered, Gate
  <2>2. CASE members' = [members EXCEPT ![ev.room] = None] /\ pc' = "again" /\ UNCHANGED used
    <3>1. None \in {None, version[ev.room]}
      OBVIOUS
    <3>2. QED
      BY <1>5, <2>2, <3>1, CacheKeeps DEF Answered, MembersInv, MembersFresh
  <2>3. QED
    BY <1>5, <2>1, <2>2 DEF Answered
<1>6. QED
  BY <1>1, <1>2, <1>3, <1>4, <1>5 DEF Loop

\* What a warm-up reads and publishes is good, and a superseded one changes nothing.
LEMMA WarmupStep ==
  ASSUME TypeOK, BarrierInv, NoFuture, MembersInv, NEW g \in Generations, Warmup(g)
  PROVE  MembersInv'
<1>1. ASSUME NEW q \in Rooms, WarmupReads(g, q)
      PROVE  MembersInv'
  <2>1. \A r \in Rooms, v \in Versions, held \in {"passed", "barrier"} :
          Sound(v, r, held) => Sound(v, r, held)'
    BY <1>1, Quiet DEF WarmupReads, hostVars, loopVars
  <2>2. ASSUME g = generation, NEW r \in Rooms, NEW v \in Versions, warmup'[g].read[r] = v
        PROVE  Sound(v, r, "barrier")'
    <3>1. CASE r = q
      <4>1. v = version[r]
        BY <1>1, <2>2, <3>1 DEF WarmupReads, TypeOK
      <4>2. Sound(v, r, "barrier")
        BY <4>1, Fresh
      <4>3. QED
        BY <2>1, <4>2
    <3>2. CASE r # q
      <4>1. warmup[g].read[r] = v
        BY <1>1, <2>2, <3>2 DEF WarmupReads, TypeOK
      <4>2. Sound(v, r, "barrier")
        BY <1>1, <2>2, <4>1 DEF WarmupReads, MembersInv
      <4>3. QED
        BY <2>1, <4>2
    <3>3. QED
      BY <3>1, <3>2
  <2>3. ASSUME g # generation
        PROVE  warmup'[generation] = warmup[generation]
    BY <1>1, <2>3 DEF WarmupReads, TypeOK
  <2>4. \A h \in Generations : h = generation' /\ warmup'[h].state = "running" =>
          \A r \in Rooms, v \in Versions : warmup'[h].read[r] = v => Sound(v, r, "barrier")'
    <3> SUFFICES ASSUME NEW h \in Generations, h = generation, warmup'[h].state = "running",
                        NEW r \in Rooms, NEW v \in Versions, warmup'[h].read[r] = v
                 PROVE  Sound(v, r, "barrier")'
      BY <1>1 DEF WarmupReads
    <3>1. CASE h = g
      BY <2>2, <3>1
    <3>2. CASE h # g
      <4>1. warmup[h].state = "running" /\ warmup[h].read[r] = v
        BY <2>3, <3>2
      <4>2. Sound(v, r, "barrier")
        BY <4>1 DEF MembersInv
      <4>3. QED
        BY <2>1, <4>2
    <3>3. QED
      BY <3>1, <3>2
  <2>5. QED
    BY <1>1, <2>1, <2>4 DEF WarmupReads, MembersInv, MembersFresh, loopVars
<1>2. ASSUME Ends(g)
      PROVE  /\ warmup'[g].state # "running"
             /\ \A h \in Generations : h # g => warmup'[h] = warmup[h]
  BY <1>2 DEF Ends, TypeOK
<1>3. ASSUME Ends(g), g # generation,
             UNCHANGED <<generation, stale, members, queue, ev, version, link, pc, used>>
      PROVE  MembersInv'
  <2>1. \A r \in Rooms, v \in Versions, held \in {"passed", "barrier"} :
          Sound(v, r, held) => Sound(v, r, held)'
    BY <1>3, Quiet
  <2>2. ASSUME NEW h \in Generations, h = generation', warmup'[h].state = "running",
               NEW r \in Rooms, NEW v \in Versions, warmup'[h].read[r] = v
        PROVE  Sound(v, r, "barrier")'
    <3>1. h = generation /\ warmup'[h] = warmup[h]
      BY <1>2, <1>3, <2>2
    <3>2. Sound(v, r, "barrier")
      BY <2>2, <3>1 DEF MembersInv
    <3>3. QED
      BY <2>1, <3>2
  <2>3. ASSUME stale' = "none", NEW r \in Rooms, NEW v \in Versions, members'[r] = v
        PROVE  Sound(v, r, "passed")'
    BY <1>3, <2>1, <2>3 DEF MembersInv
  <2>4. /\ pc' = "passed" /\ ev'.kind # "change" /\ members'[ev'.room] # None
             => members'[ev'.room] >= ev'.at
        /\ used'.have >= used'.need
    BY <1>3 DEF MembersInv, MembersFresh
  <2>5. QED
    BY <2>2, <2>3, <2>4 DEF MembersInv, MembersFresh
<1>4. CASE WarmupDone(g)
  <2>1. CASE g = generation
    <3>1. /\ members' = warmup[g].read
          /\ warmup[g].state = "running"
          /\ Ends(g)
          /\ pc' = IF pc = "barrier" THEN "passed" ELSE pc
          /\ UNCHANGED <<hostVars, generation, ev, used>>
      BY <1>4, <2>1 DEF WarmupDone, Wake
    <3>2. ASSUME NEW r \in Rooms, NEW v \in Versions, members'[r] = v
          PROVE  Sound(v, r, "passed")'
      <4>1. Sound(v, r, "barrier")
        BY <2>1, <3>1, <3>2 DEF MembersInv
      <4>2. QED
        BY <3>1, <4>1, Quiet DEF hostVars
    <3>3. ASSUME pc' = "passed", ev'.kind # "change", members'[ev'.room] # None
          PROVE  members'[ev'.room] >= ev'.at
      <4>1. PICK r \in Rooms : r = ev'.room
        BY <3>1 DEF TypeOK, Events
      <4>2. PICK v \in Versions : v = members'[r]
        BY <3>1, <3>3, <4>1 DEF TypeOK
      <4>3. Sound(v, r, "passed")'
        BY <3>2, <4>2
      <4>4. QED
        BY <3>3, <4>1, <4>2, <4>3 DEF Sound
    <3>4. \A h \in Generations : ~(h = generation' /\ warmup'[h].state = "running")
      BY <1>2, <2>1, <3>1
    <3>5. QED
      BY <3>1, <3>2, <3>3, <3>4 DEF MembersInv, MembersFresh
  <2>2. CASE g # generation
    BY <1>3, <1>4, <2>2 DEF WarmupDone, hostVars
  <2>3. QED
    BY <2>1, <2>2
<1>5. CASE WarmupFails(g)
  <2>1. CASE g = generation
    <3>1. /\ stale' = "rejected"
          /\ Ends(g)
          /\ pc' = IF pc = "barrier" THEN "ended" ELSE pc
          /\ UNCHANGED <<generation, members, ev, used>>
      BY <1>5, <2>1 DEF WarmupFails, Wake
    <3>2. \A h \in Generations : ~(h = generation' /\ warmup'[h].state = "running")
      BY <1>2, <2>1, <3>1
    <3>3. QED
      BY <3>1, <3>2 DEF MembersInv, MembersFresh
  <2>2. CASE g # generation
    BY <1>3, <1>5, <2>2 DEF WarmupFails
  <2>3. QED
    BY <2>1, <2>2
<1>6. QED
  BY <1>1, <1>4, <1>5 DEF Warmup

\* No event is newer than its room: the host numbers what it streams as it is.
LEMMA NoFutureStep ==
  ASSUME TypeOK, NoFuture, [Next]_vars
  PROVE  NoFuture'
<1> USE DEF hostVars, sessionVars, loopVars
<1>1. ASSUME UNCHANGED <<version, queue, ev>>
      PROVE  NoFuture'
  BY <1>1 DEF NoFuture
<1>2. \A i \in 1 .. Len(queue) : /\ queue[i] \in Events
                                /\ queue[i].room \in Rooms
                                /\ queue[i].at \in Versions
                                /\ queue[i].at <= version[queue[i].room]
  <2> SUFFICES ASSUME NEW i \in 1 .. Len(queue)
               PROVE  /\ queue[i] \in Events
                      /\ queue[i].room \in Rooms
                      /\ queue[i].at \in Versions
                      /\ queue[i].at <= version[queue[i].room]
    OBVIOUS
  <2>1. queue[i] \in Events
    BY ElementOfSeq DEF TypeOK
  <2>2. queue[i].at <= version[queue[i].room]
    BY DEF NoFuture
  <2>3. QED
    BY <2>1, <2>2 DEF Events
<1>3. ASSUME NEW e \in Events, queue' = Append(queue, e), ev' = ev,
             e.at <= version'[e.room],
             \A r \in Rooms : version[r] <= version'[r] /\ version'[r] \in Int
      PROVE  NoFuture'
  <2> PICK n \in Nat : n = Len(queue)
    BY DEF TypeOK
  <2>1. /\ Len(queue') = n + 1
        /\ \A i \in 1 .. n : queue'[i] = queue[i]
        /\ queue'[n + 1] = e
    BY <1>3, AppendProperties DEF TypeOK
  <2>2. ASSUME NEW i \in 1 .. n + 1
        PROVE  queue'[i].at <= version'[queue'[i].room]
    <3>1. CASE i = n + 1
      BY <1>3, <2>1, <3>1
    <3>2. CASE i # n + 1
      <4>1. i \in 1 .. n
        BY <2>2, <3>2
      <4>2. queue'[i] = queue[i] /\ queue[i].room \in Rooms /\ queue[i].at \in Int
        BY <1>2, <2>1, <4>1 DEF Versions
      <4>3. queue[i].at <= version[queue[i].room] /\ version[queue[i].room] <= version'[queue[i].room]
        BY <1>2, <1>3, <4>1, <4>2
      <4>4. version[queue[i].room] \in Int /\ version'[queue[i].room] \in Int
        BY <1>3, <4>2 DEF TypeOK, Versions
      <4>5. QED
        BY <4>2, <4>3, <4>4
    <3>3. QED
      BY <3>1, <3>2
  <2>3. ev.room \in Rooms /\ ev.at \in Int /\ version[ev.room] \in Int
    BY DEF TypeOK, Events, Versions
  <2>4. ev'.at <= version'[ev'.room]
    BY <1>3, <2>3 DEF NoFuture
  <2>5. QED
    BY <2>1, <2>2, <2>4 DEF NoFuture
<1>4. ASSUME NEW c \in Rooms, ChangeMembers(c)
      PROVE  NoFuture'
  <2>1. \A r \in Rooms : version[r] <= version'[r] /\ version'[r] \in Int
    BY <1>4 DEF ChangeMembers, TypeOK, Versions
  <2>2. version'[c] \in Versions
    BY <1>4, VersionAssumption DEF ChangeMembers, TypeOK, Versions, VersionAssumption
  <2>3. CASE queue' = Append(queue, [kind |-> "change", room |-> c, at |-> version'[c]])
    <3>1. [kind |-> "change", room |-> c, at |-> version'[c]] \in Events
      BY <2>2 DEF Events, Kinds
    <3>2. version'[c] <= version'[c]
      BY <2>1
    <3>3. QED
      BY <1>3, <1>4, <2>1, <2>3, <3>1, <3>2 DEF ChangeMembers
  <2>4. CASE UNCHANGED queue
    <3>1. \A i \in 1 .. Len(queue) : queue[i].at <= version'[queue[i].room]
      <4> SUFFICES ASSUME NEW i \in 1 .. Len(queue)
                   PROVE  queue[i].at <= version'[queue[i].room]
        OBVIOUS
      <4>1. queue[i].at \in Int /\ version[queue[i].room] \in Int /\ queue[i].room \in Rooms
        BY <1>2 DEF Versions, TypeOK
      <4>2. QED
        BY <1>2, <2>1, <4>1
    <3>2. ev.at \in Int /\ version[ev.room] \in Int /\ ev.room \in Rooms
      BY DEF TypeOK, Events, Versions
    <3>3. ev.at <= version'[ev.room]
      BY <2>1, <3>2 DEF NoFuture
    <3>4. QED
      BY <1>4, <2>4, <3>1, <3>3 DEF NoFuture, ChangeMembers
  <2>5. QED
    BY <1>4, <2>3, <2>4 DEF ChangeMembers
<1>5. ASSUME NEW k \in {"message", "reaction"}, NEW c \in Rooms, StreamEvent(k, c)
      PROVE  NoFuture'
  <2>1. [kind |-> k, room |-> c, at |-> version[c]] \in Events
    BY DEF Events, Kinds, TypeOK
  <2>2. \A r \in Rooms : version[r] <= version'[r] /\ version'[r] \in Int
    BY <1>5 DEF StreamEvent, TypeOK, Versions
  <2>3. QED
    BY <1>3, <1>5, <2>1, <2>2 DEF StreamEvent
<1>6. CASE TakeEvent
  <2>1. /\ Len(queue) \in Nat \ {0}
        /\ ev' = queue[1]
        /\ Len(queue') = Len(queue) - 1
        /\ \A i \in 1 .. Len(queue') : queue'[i] = queue[i + 1]
        /\ version' = version
    BY <1>6, HeadTailProperties, EmptySeq DEF TakeEvent, TypeOK
  <2>2. 1 \in 1 .. Len(queue) /\ \A i \in 1 .. Len(queue') : i + 1 \in 1 .. Len(queue)
    BY <2>1
  <2>3. QED
    BY <1>2, <2>1, <2>2 DEF NoFuture
<1>7. CASE UNCHANGED vars
  BY <1>1, <1>7 DEF vars
<1>8. QED
  BY <1>1, <1>4, <1>5, <1>6, <1>7
     DEF Next, Host, Drop, GivesUp, Retry, Reconnected, Warmup, WarmupReads, WarmupDone, WarmupFails,
         Loop, StreamEnds, HandleChange, LookUpCached, LookUpUncached, Answered, LookUpFails, Gate

\* Every change the connection misses finds the barrier closed; every other one is in
\* the queue before the events it matters to.
LEMMA HostStep ==
  ASSUME TypeOK, MembersInv, Host
  PROVE  MembersInv'
<1>1. ASSUME NEW c \in Rooms, ChangeMembers(c)
      PROVE  MembersInv'
  <2>1. ASSUME NEW r \in Rooms, NEW v \in Versions, NEW held \in {"passed", "barrier"},
               Sound(v, r, held)
        PROVE  Sound(v, r, held)'
    <3>1. CASE link = "seated"
      <4>1. /\ queue' = Append(queue, [kind |-> "change", room |-> c, at |-> version'[c]])
            /\ UNCHANGED <<pc, ev>>
        BY <1>1, <3>1 DEF ChangeMembers, loopVars
      <4>2. version'[c] \in Versions
        BY <1>1, VersionAssumption DEF ChangeMembers, TypeOK, Versions, VersionAssumption
      <4>3. [kind |-> "change", room |-> c, at |-> version'[c]] \in Events
        BY <4>2 DEF Events, Kinds
      <4>4. version'[r] = version[r] \/ r = c
        BY <1>1 DEF ChangeMembers, TypeOK
      <4>5. QED
        BY <2>1, <3>1, <4>1, <4>3, <4>4, Streamed
    <3>2. CASE link # "seated"
      BY <1>1, <2>1, <3>2 DEF ChangeMembers, Sound, Announced, loopVars
    <3>3. QED
      BY <3>1, <3>2
  <2>2. QED
    BY <1>1, <2>1, HostKeeps DEF ChangeMembers
<1>2. ASSUME NEW k \in {"message", "reaction"}, NEW c \in Rooms, StreamEvent(k, c)
      PROVE  MembersInv'
  <2>1. [kind |-> k, room |-> c, at |-> version[c]] \in Events
    BY DEF Events, Kinds, TypeOK
  <2>2. \A r \in Rooms, v \in Versions, held \in {"passed", "barrier"} :
          Sound(v, r, held) => Sound(v, r, held)'
    BY <1>2, <2>1, Streamed DEF StreamEvent, loopVars
  <2>3. QED
    BY <1>2, <2>2, HostKeeps DEF StreamEvent
<1>3. CASE Drop \/ GivesUp
  <2>1. \A r \in Rooms, v \in Versions, held \in {"passed", "barrier"} :
          Sound(v, r, held) => Sound(v, r, held)'
    BY <1>3, Quiet DEF Drop, GivesUp, loopVars
  <2>2. QED
    BY <1>3, <2>1, HostKeeps DEF Drop, GivesUp
<1>4. QED
  BY <1>1, <1>2, <1>3 DEF Host

\* The whole invariant is inductive.
THEOREM SessionInductive == Spec => []SessionInv
<1>1. Init => NoFuture /\ MembersInv
  <2> SUFFICES ASSUME Init
               PROVE  NoFuture /\ MembersInv
    OBVIOUS
  <2>1. Len(queue) = 0
    BY DEF Init
  <2>2. ev.kind = "change" /\ ev.room \in Rooms /\ ev.at = 0
    BY DEF Init
  <2>3. NoFuture
    BY <2>1, <2>2 DEF Init, NoFuture
  <2>4. \A r \in Rooms, v \in Versions : members[r] = v => Sound(v, r, "passed")
    BY <2>1, <2>2 DEF Init, Sound
  <2>5. QED
    BY <2>2, <2>3, <2>4 DEF Init, MembersInv, MembersFresh
<1>2. TypeOK /\ BarrierInv /\ NoFuture /\ MembersInv /\ [Next]_vars => MembersInv'
  <2> SUFFICES ASSUME TypeOK, BarrierInv, NoFuture, MembersInv, [Next]_vars
               PROVE  MembersInv'
    OBVIOUS
  <2>1. CASE Retry
    <3>1. stale' = "pending" /\ UNCHANGED <<members, pc, ev, used>>
      BY <2>1 DEF Retry, TypeOK, BarrierInv, loopVars
    <3>2. \A g \in Generations : ~(g = generation' /\ warmup'[g].state = "running")
      <4> SUFFICES ASSUME NEW g \in Generations, g = generation + 1, warmup[g].state = "running"
                   PROVE  FALSE
        BY <2>1 DEF Retry
      <4>1. g <= generation
        BY DEF BarrierInv
      <4>2. QED
        BY <4>1, RetriesAssumption DEF TypeOK, RetriesAssumption
    <3>3. QED
      BY <3>1, <3>2 DEF MembersInv, MembersFresh
  <2>2. CASE Reconnected
    <3>1. stale' = "pending" /\ UNCHANGED <<members, pc, ev, used, generation>>
      BY <2>2 DEF Reconnected, BarrierInv, loopVars
    <3>2. \A g \in Generations : g = generation' => \A r \in Rooms : warmup'[g].read[r] = None
      BY <2>2 DEF Reconnected, Nothing, TypeOK
    <3>3. QED
      BY <3>1, <3>2 DEF MembersInv, MembersFresh, None, Versions
  <2>3. CASE UNCHANGED vars
    BY <2>3 DEF vars, hostVars, sessionVars, loopVars, MembersInv, MembersFresh, Sound, Announced
  <2>4. QED
    BY <2>1, <2>2, <2>3, HostStep, LoopStep, WarmupStep DEF Next
<1>3. NoFuture /\ BarrierInv /\ MembersInv <=> SessionInv
  BY DEF SessionInv
<1>4. QED
  BY <1>1, <1>2, <1>3, TypeCorrect, BarrierInductive, NoFutureStep, PTL DEF Spec

\* The barrier opens on fresh members only, and the gate never decides on members older
\* than the event it decides about.
THEOREM StaysFresh == Spec => []BarrierKeepsFresh
<1>1. SessionInv => BarrierKeepsFresh
  BY DEF SessionInv, BarrierInv, MembersInv, BarrierKeepsFresh
<1>2. QED
  BY <1>1, SessionInductive, PTL
=============================================================================
