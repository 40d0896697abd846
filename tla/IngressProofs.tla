---------------------------- MODULE IngressProofs ----------------------------
(***************************************************************************)
(* Theorems about Ingress, and about the tracker of the turn its loops wait  *)
(* for (Adoption), for every value of their constants.  The two meet in the *)
(* contract of module Turn, which the tracker keeps and the loop relies on.  *)
(***************************************************************************)
EXTENDS Ingress, Adoption, SequenceTheorems, FiniteSetTheorems, TLAPS

\* Larger is a maximum.
LEMMA LargerFact ==
  ASSUME NEW a \in Int, NEW b \in Int
  PROVE  /\ Larger(a, b) \in {a, b}
         /\ Larger(a, b) >= a
         /\ Larger(a, b) >= b
BY DEF Larger

\* The watermark setWatermark writes is the number of a message, or 0.
LEMMA LargerType ==
  ASSUME NEW a \in 0 .. MaxSeq, NEW b \in 0 .. MaxSeq
  PROVE  Larger(a, b) \in 0 .. MaxSeq
BY DEF Larger

\* The state stays within its types.
THEOREM TypeCorrect == Spec => []TypeOK
<1>1. Init => TypeOK
  BY BoundsAssumption DEF BoundsAssumption, Init, TypeOK, Msgs, PCs, Handling, LiveTurn, TurnStates
<1>2. TypeOK /\ [Next]_vars => TypeOK'
  <2> SUFFICES ASSUME TypeOK, [Next]_vars
               PROVE  TypeOK'
    OBVIOUS
  <2> USE BoundsAssumption DEF BoundsAssumption, TypeOK, Handling, LiveTurn
  <2>1. CASE Host
    <3>1. CASE StoreMessage
      BY <3>1 DEF StoreMessage, clientVars, loopVars, storeVars
    <3>2. CASE Stream
      <4>1. sent + 1 \in Msgs
        BY <3>2 DEF Stream, Msgs
      <4>2. QED
        BY <3>2, <4>1, AppendProperties DEF Stream, daemonVars, loopVars, storeVars
    <3>3. CASE AckArrives
      BY <3>3 DEF AckArrives, clientVars, loopVars, storeVars
    <3>4. CASE Drop
      BY <3>4 DEF Drop, daemonVars, loopVars, storeVars
    <3>5. CASE Reconnect
      BY <3>5 DEF Reconnect, daemonVars, loopVars, storeVars
    <3>6. QED
      BY <2>1, <3>1, <3>2, <3>3, <3>4, <3>5 DEF Host
  <2>2. CASE Account
    <3>1. CASE StartLease
      BY <3>1 DEF StartLease, Suspend, daemonVars, storeVars, PCs, Leases
    <3>2. CASE StopLease
      BY <3>2 DEF StopLease, TakeDown, daemonVars, clientVars, storeVars, TurnStates
    <3>3. CASE CloseSession
      BY <3>3 DEF CloseSession, daemonVars, loopVars, storeVars
    <3>4. CASE Crash
      BY <3>4 DEF Crash, daemonVars, storeVars, PCs, TurnStates
    <3>5. QED
      BY <2>2, <3>1, <3>2, <3>3, <3>4 DEF Account
  <2>3. ASSUME NEW g \in Leases, Loop(g)
        PROVE  TypeOK'
    <3>1. CASE TakeEvent(g)
      <4>1. Head(queue) \in Msgs /\ Tail(queue) \in Seq(Msgs)
        BY <3>1, HeadTailProperties, EmptySeq DEF TakeEvent
      <4>2. Msgs \subseteq 0 .. MaxSeq
        BY DEF Msgs
      <4>3. QED
        BY <3>1, <4>1, <4>2 DEF TakeEvent, Suspend, daemonVars, storeVars, PCs
    <3>2. ASSUME Fails(g)
          PROVE  TypeOK'
      BY <3>2 DEF Fails, Halt, Suspend, TakeDown, daemonVars, clientVars, storeVars,
                  PCs, TurnStates
    <3>3. ASSUME PassOver(g), pc[g] \in {"barrier", "gate", "access"}
          PROVE  TypeOK'
      <4>1. Larger(wire, cur[g]) \in 0 .. MaxSeq
        BY LargerType
      <4>2. decided' \subseteq Msgs
        BY <3>3 DEF PassOver, Decide
      <4>3. QED
        BY <3>3, <4>1, <4>2 DEF PassOver, Decide, Ack, Halt, Suspend, TakeDown,
                         daemonVars, PCs, TurnStates
    <3>4. CASE EnterGate(g) \/ EnterAccess(g)
      BY <3>4 DEF EnterGate, EnterAccess, PassBarrier, Suspend, daemonVars, clientVars, storeVars, PCs
    <3>5. CASE Dispatch(g)
      BY <3>5 DEF Dispatch, Suspend, daemonVars, clientVars, storeVars, PCs, TurnStates
    <3>6. CASE AckAdopted(g)
      <4>1. Larger(wire, cur[g]) \in 0 .. MaxSeq
        BY LargerType
      <4>2. QED
        BY <3>6, <4>1 DEF AckAdopted, Ack, Halt, Suspend, TakeDown,
                         daemonVars, storeVars, PCs, TurnStates
    <3>7. CASE LeaveBound(g)
      BY <3>7 DEF LeaveBound, Suspend, daemonVars, clientVars, storeVars, PCs, TurnStates
    <3>8. QED
      BY <2>3, <3>1, <3>2, <3>3, <3>4, <3>5, <3>6, <3>7
         DEF Loop, LeaveLoop, StreamFails, AckPassive, AckReplay, AckOwn, PassBarrier,
             DropOrSkip, HandlingFails, AdoptionFailed
  <2>4. ASSUME NEW g \in Leases, Core(g)
        PROVE  TypeOK'
    <3>1. ASSUME turn[g] \in LiveTurn, Commit(g)
          PROVE  /\ adoptedSeq' \in 0 .. MaxSeq
                 /\ decided' \subseteq Msgs
                 /\ adoptions' \in [Msgs -> Nat]
                 /\ turn' \in [Leases -> TurnStates]
                 /\ \A h \in Leases : turn'[h] \in LiveTurn => turn[h] \in LiveTurn
      <4>1. Larger(adoptedSeq, cur[g]) \in 0 .. MaxSeq
        BY LargerType
      <4>2. adoptedSeq' \in 0 .. MaxSeq /\ decided' \subseteq Msgs
        BY <3>1, <4>1 DEF Commit, Decide
      <4>3. adoptions' \in [Msgs -> Nat]
        <5>1. \A s \in Msgs : adoptions[s] \in Nat /\ adoptions[s] + 1 \in Nat
          OBVIOUS
        <5>2. CASE g \in stopped
          BY <3>1, <5>1, <5>2 DEF Commit
        <5>3. CASE g \notin stopped
          BY <3>1, <5>1, <5>3 DEF Commit
        <5>4. QED
          BY <5>2, <5>3
      <4>4. /\ turn' \in [Leases -> TurnStates]
            /\ \A h \in Leases : turn'[h] \in LiveTurn => turn[h] \in LiveTurn
        BY <3>1 DEF Commit, TurnStates
      <4>5. QED
        BY <4>2, <4>3, <4>4
    <3>2. CASE TurnAdopted(g)
      BY <3>1, <3>2 DEF TurnAdopted, daemonVars, clientVars
    <3>3. CASE TurnDeferred(g) \/ TurnFails(g)
      BY <3>3 DEF TurnDeferred, TurnFails, daemonVars, clientVars, storeVars, TurnStates
    <3>4. ASSUME NEW s \in Msgs, DispatchSettles(g, s)
          PROVE  TypeOK'
      <4>1. inflight' \in [Leases -> SUBSET Msgs]
        BY <3>4 DEF DispatchSettles
      <4>2. UNCHANGED <<daemonVars, clientVars, lease, phase, pc, cur, stopped>>
        BY <3>4 DEF DispatchSettles
      <4>3. \/ turn[g] \in LiveTurn /\ Commit(g)
            \/ /\ turn' \in [Leases -> TurnStates]
               /\ \A h \in Leases : turn'[h] \in LiveTurn => turn[h] \in LiveTurn
               /\ UNCHANGED storeVars
        BY <3>4 DEF DispatchSettles, TurnStates
      <4>4. QED
        BY <3>1, <4>1, <4>2, <4>3 DEF daemonVars, clientVars, storeVars
    <3>5. QED
      BY <2>4, <3>2, <3>3, <3>4 DEF Core
  <2>5. CASE UNCHANGED vars
    BY <2>5 DEF vars, daemonVars, clientVars, loopVars, storeVars
  <2>6. QED
    BY <2>1, <2>2, <2>3, <2>4, <2>5 DEF Next
<1>3. QED
  BY <1>1, <1>2, PTL DEF Spec

-----------------------------------------------------------------------------
(* The delivery invariant.                                                 *)

\* The numbers of a typed state.
LEMMA Numbers ==
  ASSUME TypeOK
  PROVE  /\ stored \in Int /\ cursor \in Int /\ wire \in Int /\ sent \in Int
         /\ adoptedSeq \in Int /\ lease \in Int
         /\ \A g \in Leases : cur[g] \in Int
         /\ Len(queue) \in Nat
         /\ \A i \in 1 .. Len(queue) : queue[i] \in Int
<1>1. /\ stored \in Int /\ cursor \in Int /\ wire \in Int /\ sent \in Int
      /\ adoptedSeq \in Int /\ lease \in Int
  BY DEF TypeOK
<1>2. \A g \in Leases : cur[g] \in Int
  BY DEF TypeOK
<1>3. queue \in Seq(Msgs)
  BY DEF TypeOK
<1>4. Len(queue) \in Nat
  BY <1>3
<1>5. ASSUME NEW i \in 1 .. Len(queue)
      PROVE  queue[i] \in Int
  <2>1. queue[i] \in Msgs
    BY <1>3, ElementOfSeq
  <2>2. QED
    BY <2>1 DEF Msgs
<1>6. QED
  BY <1>1, <1>2, <1>4, <1>5

\* Deciding more messages keeps a decided prefix decided.
LEMMA DoneGrows ==
  ASSUME NEW n, DoneUpTo(n), decided \subseteq decided'
  PROVE  1 .. n \subseteq decided'
BY DEF DoneUpTo

\* A decided prefix contains the shorter ones.
LEMMA DoneShorter ==
  ASSUME NEW m \in Int, NEW n \in Int, m <= n, NEW D, 1 .. n \subseteq D
  PROVE  1 .. m \subseteq D
OBVIOUS

\* A decided prefix and the message after it make a longer one.
LEMMA DoneNext ==
  ASSUME NEW n \in Int, NEW D, 1 .. n - 1 \subseteq D
  PROVE  1 .. n \subseteq D \cup {n}
OBVIOUS

\* A step that leaves the stream alone and only lets `decided` and `stored` grow
\* keeps the stream in order.
LEMMA StreamKept ==
  ASSUME TypeOK, TypeOK', StreamInOrder,
         UNCHANGED <<sent, queue, lease, cur>>,
         stored <= stored', decided \subseteq decided',
         phase' # "down" => phase # "down"
  PROVE  StreamInOrder'
<1> SUFFICES ASSUME phase' # "down"
             PROVE  StreamInOrder'
  BY DEF StreamInOrder
<1>1. stored \in Int /\ stored' \in Int /\ sent \in Int
  BY Numbers DEF TypeOK
<1>2. sent' <= stored'
  BY <1>1 DEF StreamInOrder
<1>3. Follows(sent + 1, Len(queue) + 1)'
  <2>1. Follows(sent + 1, Len(queue) + 1)
    BY DEF StreamInOrder
  <2>2. DoneUpTo((sent + 1) - 1) => 1 .. (sent + 1) - 1 \subseteq decided'
    BY DoneGrows
  <2>3. QED
    BY <2>1, <2>2 DEF Follows, DoneUpTo
<1>4. ASSUME NEW i \in 1 .. Len(queue)
      PROVE  queue[i] <= stored' /\ Follows(queue[i], i)'
  <2>1. queue[i] <= stored /\ Follows(queue[i], i)
    BY DEF StreamInOrder
  <2>2. queue[i] <= stored'
    BY <1>1, <2>1, Numbers
  <2>3. DoneUpTo(queue[i] - 1) => 1 .. queue[i] - 1 \subseteq decided'
    BY DoneGrows
  <2>4. QED
    BY <2>1, <2>2, <2>3 DEF Follows, DoneUpTo
<1>5. QED
  BY <1>2, <1>3, <1>4 DEF StreamInOrder

\* The loops a step leaves alone stay in order.
LEMMA InOrderKept ==
  ASSUME TypeOK, TypeOK', NEW h \in Leases, InOrder(h),
         stored <= stored', decided \subseteq decided',
         pc'[h] = pc[h], cur'[h] = cur[h], turn'[h] = turn[h]
  PROVE  InOrder(h)'
<1>1. stored \in Int /\ stored' \in Int /\ cur[h] \in Int
  BY DEF TypeOK
<1>2. cur[h] <= stored => cur[h] <= stored'
  BY <1>1
<1>3. DoneUpTo(cur[h]) => 1 .. cur[h] \subseteq decided'
  BY DoneGrows
<1>4. DoneUpTo(cur[h] - 1) => 1 .. cur[h] - 1 \subseteq decided'
  BY DoneGrows
<1>5. QED
  BY <1>2, <1>3, <1>4 DEF InOrder, DoneUpTo

\* What one step of the loop of lease g, or of core answering its turn, does to
\* the state the delivery invariant is about.
LoopEffect(g) ==
  /\ UNCHANGED <<stored, cursor, lease, phase, link, sent>>
  /\ \/ decided' = decided
     \/ \E s \in 1 .. stored : DoneUpTo(s - 1) /\ decided' = decided \cup {s}
  /\ ReplayCheckSafe'
  /\ wire <= wire' /\ DoneUpTo(wire)'
  /\ \A h \in Leases \ {g} :
       pc'[h] = pc[h] /\ cur'[h] = cur[h] /\ turn'[h] = turn[h]
  /\ pc[g] = "off" => pc'[g] = "off" /\ cur'[g] = cur[g] /\ turn'[g] = turn[g]
  /\ InOrder(g)'
  /\ TakeEvent(g) \/ UNCHANGED <<queue, cur>>

\* The message a loop handles is the first one still open, or decided already.
LEMMA DecideStep ==
  ASSUME TypeOK, DeliveryInv, NEW g \in Leases, pc[g] \in Handling, Decide(cur[g])
  PROVE  /\ cur[g] \in 1 .. stored
         /\ DoneUpTo(cur[g] - 1)
         /\ decided' = decided \cup {cur[g]}
         /\ decided \subseteq decided'
         /\ 1 .. cur[g] \subseteq decided'
<1>1. cur[g] \in 1 .. stored
  BY DEF DeliveryInv, HandledInOrder, InOrder, TypeOK, Msgs
<1>2. DoneUpTo(cur[g] - 1)
  BY DEF DeliveryInv, HandledInOrder, InOrder
<1>3. decided' = decided \cup {cur[g]}
  BY DEF Decide
<1>4. 1 .. cur[g] \subseteq decided \cup {cur[g]}
  BY <1>1, <1>2, DoneNext DEF DoneUpTo
<1>5. QED
  BY <1>1, <1>2, <1>3, <1>4

\* Core's callbacks decide at most the message its loop waits for: the delivery
\* invariant survives them.
LEMMA CoreStep ==
  ASSUME TypeOK, TypeOK', DeliveryInv, NEW g \in Leases, Core(g)
  PROVE  LoopEffect(g)
<1>1. adoptedSeq \in Int /\ wire \in Int /\ cur[g] \in Int
  BY Numbers
<1>2. DoneUpTo(wire) /\ DoneUpTo(adoptedSeq) /\ InOrder(g)
  BY DEF DeliveryInv, HandledInOrder, AckOnlyDecided, ReplayCheckSafe
<1>3. UNCHANGED <<daemonVars, clientVars, lease, phase, pc, cur>>
  BY DEF Core, TurnAdopted, TurnDeferred, TurnFails, DispatchSettles
<1>4. UNCHANGED <<stored, cursor, lease, phase, link, sent, pc, cur, queue, wire>>
  BY <1>3 DEF daemonVars, clientVars
<1>5. \A h \in Leases \ {g} : turn'[h] = turn[h]
  BY DEF Core, TurnAdopted, TurnDeferred, TurnFails, DispatchSettles, Commit, TypeOK
<1>6. wire <= wire'
  BY <1>1, <1>4
<1>7. CASE turn[g] \in LiveTurn /\ Commit(g)
  <2>1. pc[g] = "adoption"
    BY <1>2, <1>7 DEF InOrder
  <2>2. /\ cur[g] \in 1 .. stored /\ DoneUpTo(cur[g] - 1)
        /\ decided' = decided \cup {cur[g]} /\ decided \subseteq decided'
        /\ 1 .. cur[g] \subseteq decided'
    BY <1>7, <2>1, DecideStep DEF Commit, Handling
  <2>3. ReplayCheckSafe'
    <3>1. adoptedSeq' \in {adoptedSeq, cur[g]}
      BY <1>1, <1>7, LargerFact DEF Commit
    <3>2. 1 .. adoptedSeq \subseteq decided'
      BY <1>2, <2>2, DoneGrows
    <3>3. QED
      BY <2>2, <3>1, <3>2 DEF ReplayCheckSafe, DoneUpTo
  <2>4. DoneUpTo(wire)'
    <3>1. 1 .. wire \subseteq decided'
      BY <1>2, <2>2, DoneGrows
    <3>2. QED
      BY <1>4, <3>1 DEF DoneUpTo
  <2>5. turn'[g] = "adopted"
    BY <1>7 DEF Commit, TypeOK
  <2>6. InOrder(g)'
    <3>1. 1 .. cur[g] - 1 \subseteq decided'
      BY <2>2, DoneGrows
    <3>2. cur[g] <= stored
      BY <2>2
    <3>3. QED
      BY <1>4, <2>1, <2>2, <2>5, <3>1, <3>2 DEF InOrder, LiveTurn, DoneUpTo
  <2>7. QED
    BY <1>4, <1>5, <1>6, <2>1, <2>2, <2>3, <2>4, <2>6 DEF LoopEffect
<1>8. CASE ~(turn[g] \in LiveTurn /\ Commit(g))
  <2>1. UNCHANGED storeVars
    BY <1>8 DEF Core, TurnAdopted, TurnDeferred, TurnFails, DispatchSettles, LiveTurn,
                storeVars
  <2>2. \/ turn'[g] = turn[g]
        \/ turn[g] \in LiveTurn /\ turn'[g] \in {"deferred", "abandoned"}
    BY <1>8 DEF Core, TurnAdopted, TurnDeferred, TurnFails, DispatchSettles, LiveTurn, TypeOK
  <2>3. UNCHANGED <<decided, adoptedSeq>>
    BY <2>1 DEF storeVars
  <2>4. InOrder(g)'
    BY <1>2, <1>4, <2>2, <2>3 DEF InOrder, LiveTurn, DoneUpTo
  <2>5. pc[g] = "off" => turn'[g] = turn[g]
    BY <1>2, <2>2 DEF InOrder
  <2>6. DoneUpTo(wire)' /\ ReplayCheckSafe'
    BY <1>2, <1>4, <2>3 DEF ReplayCheckSafe, DoneUpTo
  <2>7. QED
    BY <1>4, <1>5, <1>6, <2>3, <2>4, <2>5, <2>6 DEF LoopEffect
<1>9. QED
  BY <1>7, <1>8

\* The ack of a decided message keeps `wire` within what is decided.
LEMMA AckStep ==
  ASSUME TypeOK, TypeOK', DeliveryInv, NEW g \in Leases, NEW where \in PCs,
         Ack(g, where), 1 .. cur[g] \subseteq decided', decided \subseteq decided'
  PROVE  /\ wire <= wire' /\ DoneUpTo(wire)'
         /\ pc'[g] \in {where, "ended"}
         /\ turn'[g] \notin LiveTurn \/ turn'[g] = turn[g]
         /\ \A h \in Leases \ {g} : pc'[h] = pc[h] /\ turn'[h] = turn[h]
<1>1. wire \in Int /\ cur[g] \in Int
  BY Numbers
<1>2. 1 .. wire \subseteq decided'
  BY DoneGrows DEF DeliveryInv, AckOnlyDecided
<1>3. CASE CanAck(g)
  <2>1. /\ wire' = Larger(wire, cur[g])
        /\ Suspend(g, where) /\ turn' = turn
    BY <1>3 DEF Ack
  <2>2. wire' \in {wire, cur[g]} /\ wire <= wire'
    BY <1>1, <2>1, LargerFact
  <2>3. DoneUpTo(wire)'
    BY <1>2, <2>2 DEF DoneUpTo
  <2>4. /\ pc'[g] = where
        /\ \A h \in Leases \ {g} : pc'[h] = pc[h] /\ turn'[h] = turn[h]
    BY <2>1 DEF Suspend, TypeOK
  <2>5. QED
    BY <2>1, <2>2, <2>3, <2>4
<1>4. CASE ~CanAck(g)
  <2>1. wire' = wire /\ Halt(g)
    BY <1>4 DEF Ack
  <2>2. pc'[g] = "ended" /\ turn'[g] \notin LiveTurn
    BY <2>1 DEF Halt, Suspend, TakeDown, LiveTurn, TypeOK
  <2>3. \A h \in Leases \ {g} : pc'[h] = pc[h] /\ turn'[h] = turn[h]
    BY <2>1 DEF Halt, Suspend, TakeDown, TypeOK
  <2>4. wire <= wire' /\ DoneUpTo(wire)'
    BY <1>1, <1>2, <2>1 DEF DoneUpTo
  <2>5. QED
    BY <2>2, <2>3, <2>4
<1>5. QED
  BY <1>3, <1>4

\* A step that decides, acks and commits nothing keeps the decided prefixes.
LEMMA PrefixesKept ==
  ASSUME TypeOK, DeliveryInv, UNCHANGED <<wire, adoptedSeq, decided>>
  PROVE  wire <= wire' /\ DoneUpTo(wire)' /\ ReplayCheckSafe'
<1>1. wire \in Int
  BY Numbers
<1>2. DoneUpTo(wire) /\ DoneUpTo(adoptedSeq)
  BY DEF DeliveryInv, AckOnlyDecided, ReplayCheckSafe
<1>3. QED
  BY <1>1, <1>2 DEF DoneUpTo, ReplayCheckSafe

\* Every step of a loop, from taking an event to leaving the bound, keeps the delivery
\* invariant.
LEMMA LoopStep ==
  ASSUME TypeOK, TypeOK', DeliveryInv, NEW g \in Leases, Loop(g)
  PROVE  LoopEffect(g)
<1>1. wire \in Int /\ cur[g] \in Int
  BY Numbers
<1>2. DoneUpTo(wire) /\ DoneUpTo(adoptedSeq) /\ InOrder(g)
  BY DEF DeliveryInv, HandledInOrder, AckOnlyDecided, ReplayCheckSafe
<1>3. CASE TakeEvent(g)
  <2>1. /\ UNCHANGED <<stored, cursor, lease, phase, link, sent, wire, turn,
                       decided, adoptedSeq>>
        /\ pc[g] = "next" /\ pc'[g] = "barrier"
        /\ \A h \in Leases \ {g} : pc'[h] = pc[h] /\ cur'[h] = cur[h]
        /\ cur'[g] = Head(queue) /\ queue # <<>> /\ g = lease /\ phase # "down"
    BY <1>3 DEF TakeEvent, Suspend, daemonVars, storeVars, TypeOK
  <2>2. Head(queue) <= stored /\ DoneUpTo(Head(queue) - 1)
    <3>1. queue \in Seq(Msgs)
      BY DEF TypeOK
    <3>2. Len(queue) \in Nat \ {0} /\ Head(queue) = queue[1]
      BY <2>1, <3>1, HeadTailProperties, EmptySeq
    <3>3. 1 \in 1 .. Len(queue)
      BY <3>2
    <3>4. queue[1] <= stored /\ Follows(queue[1], 1)
      BY <2>1, <3>3 DEF DeliveryInv, StreamInOrder
    <3>5. DoneUpTo(cur[lease])
      BY <1>2, <2>1 DEF InOrder
    <3>6. DoneUpTo(queue[1] - 1) \/ queue[1] = cur[lease] + 1
      BY <3>4 DEF Follows
    <3>7. queue[1] = cur[lease] + 1 => queue[1] - 1 = cur[lease]
      BY <1>1, <2>1
    <3>8. QED
      BY <3>2, <3>4, <3>5, <3>6, <3>7
  <2>3. turn[g] \notin LiveTurn
    BY <1>2, <2>1 DEF InOrder
  <2>4. InOrder(g)'
    BY <2>1, <2>2, <2>3 DEF InOrder, DoneUpTo
  <2>5. DoneUpTo(wire)' /\ ReplayCheckSafe'
    BY <1>2, <2>1 DEF ReplayCheckSafe, DoneUpTo
  <2>6. QED
    BY <1>1, <1>3, <2>1, <2>4, <2>5 DEF LoopEffect
<1>4. ASSUME Fails(g), pc[g] # "off"
      PROVE  LoopEffect(g)
  <2>1. /\ UNCHANGED <<stored, cursor, lease, phase, link, sent, wire, queue,
                       decided, adoptedSeq, cur>>
        /\ pc'[g] = "ended" /\ turn'[g] \notin LiveTurn
        /\ \A h \in Leases \ {g} : pc'[h] = pc[h] /\ turn'[h] = turn[h]
    BY <1>4 DEF Fails, Halt, Suspend, TakeDown, LiveTurn, daemonVars, clientVars,
                storeVars, TypeOK
  <2>2. InOrder(g)'
    BY <2>1 DEF InOrder, Handling, DoneUpTo
  <2>3. QED
    BY <1>4, <2>1, <2>2, PrefixesKept DEF LoopEffect
<1>5. ASSUME PassOver(g), pc[g] \in {"barrier", "gate", "access"}
      PROVE  LoopEffect(g)
  <2>1. /\ cur[g] \in 1 .. stored /\ DoneUpTo(cur[g] - 1)
        /\ decided' = decided \cup {cur[g]} /\ decided \subseteq decided'
        /\ 1 .. cur[g] \subseteq decided'
    BY <1>5, DecideStep DEF PassOver, Handling
  <2>2. /\ wire <= wire' /\ DoneUpTo(wire)'
        /\ pc'[g] \in {"next", "ended"}
        /\ turn'[g] \notin LiveTurn \/ turn'[g] = turn[g]
        /\ \A h \in Leases \ {g} : pc'[h] = pc[h] /\ turn'[h] = turn[h]
    BY <1>5, <2>1, AckStep DEF PassOver, PCs
  <2>3. UNCHANGED <<stored, cursor, lease, phase, link, sent, queue, adoptedSeq, cur>>
    BY <1>5 DEF PassOver, daemonVars
  <2>4. turn[g] \notin LiveTurn
    BY <1>2, <1>5 DEF InOrder
  <2>5. InOrder(g)'
    BY <2>1, <2>2, <2>3, <2>4 DEF InOrder, Handling, DoneUpTo
  <2>6. ReplayCheckSafe'
    <3>1. 1 .. adoptedSeq \subseteq decided'
      BY <1>2, <2>1, DoneGrows
    <3>2. QED
      BY <2>3, <3>1 DEF ReplayCheckSafe, DoneUpTo
  <2>7. QED
    BY <1>5, <2>1, <2>2, <2>3, <2>5, <2>6 DEF LoopEffect
<1>6. CASE EnterGate(g) \/ EnterAccess(g)
  <2>1. /\ UNCHANGED <<stored, cursor, lease, phase, link, sent, wire, queue,
                       decided, adoptedSeq, cur, turn>>
        /\ pc[g] \in {"barrier", "gate"} /\ pc'[g] \in {"gate", "access"}
        /\ \A h \in Leases \ {g} : pc'[h] = pc[h]
    BY <1>6 DEF EnterGate, EnterAccess, PassBarrier, Suspend, daemonVars, clientVars,
                storeVars, TypeOK
  <2>2. InOrder(g)'
    BY <1>2, <2>1 DEF InOrder, Handling, DoneUpTo
  <2>3. QED
    BY <2>1, <2>2, PrefixesKept DEF LoopEffect
<1>7. CASE Dispatch(g)
  <2>1. /\ UNCHANGED <<stored, cursor, lease, phase, link, sent, wire, queue,
                       decided, adoptedSeq, cur>>
        /\ pc[g] = "access" /\ pc'[g] = "adoption" /\ turn'[g] = "pending"
        /\ \A h \in Leases \ {g} : pc'[h] = pc[h] /\ turn'[h] = turn[h]
    BY <1>7 DEF Dispatch, Suspend, daemonVars, clientVars, storeVars, TypeOK
  <2>2. InOrder(g)'
    BY <1>2, <2>1 DEF InOrder, Handling, DoneUpTo
  <2>3. QED
    BY <2>1, <2>2, PrefixesKept DEF LoopEffect
<1>8. CASE AckAdopted(g)
  <2>1. /\ UNCHANGED <<stored, cursor, lease, phase, link, sent, queue,
                       decided, adoptedSeq, cur>>
        /\ pc[g] = "adoption" /\ turn[g] = "adopted"
        /\ Ack(g, "next") \/ Ack(g, "bound")
    BY <1>8 DEF AckAdopted, daemonVars, storeVars
  <2>2. 1 .. cur[g] \subseteq decided' /\ decided \subseteq decided'
    BY <1>2, <2>1 DEF InOrder, DoneUpTo
  <2>3. /\ wire <= wire' /\ DoneUpTo(wire)'
        /\ pc'[g] \in {"next", "bound", "ended"}
        /\ turn'[g] \notin LiveTurn \/ turn'[g] = turn[g]
        /\ \A h \in Leases \ {g} : pc'[h] = pc[h] /\ turn'[h] = turn[h]
    BY <2>1, <2>2, AckStep DEF PCs
  <2>4. InOrder(g)'
    BY <1>2, <2>1, <2>3 DEF InOrder, Handling, LiveTurn, DoneUpTo
  <2>5. ReplayCheckSafe'
    BY <1>2, <2>1 DEF ReplayCheckSafe, DoneUpTo
  <2>6. QED
    BY <2>1, <2>3, <2>4, <2>5 DEF LoopEffect
<1>9. CASE LeaveBound(g)
  <2>1. /\ UNCHANGED <<stored, cursor, lease, phase, link, sent, wire, queue,
                       decided, adoptedSeq, cur>>
        /\ pc[g] = "bound" /\ pc'[g] = "next" /\ turn' = turn
        /\ \A h \in Leases \ {g} : pc'[h] = pc[h]
    BY <1>9 DEF LeaveBound, Suspend, daemonVars, clientVars, storeVars, TypeOK
  <2>2. InOrder(g)'
    BY <1>2, <2>1 DEF InOrder, Handling, DoneUpTo, LiveTurn
  <2>3. QED
    BY <2>1, <2>2, PrefixesKept DEF LoopEffect
<1>10. QED
  BY <1>3, <1>4, <1>5, <1>6, <1>7, <1>8, <1>9
     DEF Loop, LeaveLoop, StreamFails, AckPassive, AckReplay, AckOwn, PassBarrier,
         DropOrSkip, HandlingFails, AdoptionFailed

\* A step with that effect keeps the delivery invariant.
LEMMA EffectKeeps ==
  ASSUME TypeOK, TypeOK', DeliveryInv, NEW g \in Leases, LoopEffect(g)
  PROVE  DeliveryInv'
<1>1. UNCHANGED <<stored, cursor, lease, phase, link, sent>>
  BY DEF LoopEffect
<1>2. stored \in Int /\ lease \in Int /\ cursor \in Int /\ wire \in Int /\ wire' \in Int
  BY Numbers DEF TypeOK
<1>3. AckOnlyDecided' /\ ReplayCheckSafe'
  <2>1. cursor <= wire /\ wire <= wire'
    BY DEF DeliveryInv, AckOnlyDecided, LoopEffect
  <2>2. cursor <= wire'
    BY <1>2, <2>1
  <2>3. QED
    BY <1>1, <2>2 DEF LoopEffect, AckOnlyDecided, DoneUpTo
<1>4. (decided \subseteq 1 .. stored)'
  BY <1>1 DEF LoopEffect, DeliveryInv
<1>5. (link = "seated" => phase # "down")'
  BY <1>1 DEF DeliveryInv
<1>6. decided \subseteq decided' /\ stored <= stored'
  BY <1>1, <1>2 DEF LoopEffect
<1>7. Unstarted'
  <2> SUFFICES ASSUME NEW h \in Leases, h > lease
               PROVE  pc'[h] = "off" /\ cur'[h] = 0 /\ turn'[h] = "none"
    BY <1>1 DEF Unstarted
  <2>1. pc[h] = "off" /\ cur[h] = 0 /\ turn[h] = "none"
    BY DEF DeliveryInv, Unstarted
  <2>2. CASE h = g
    BY <2>1, <2>2 DEF LoopEffect
  <2>3. CASE h # g
    BY <2>1, <2>3 DEF LoopEffect
  <2>4. QED
    BY <2>2, <2>3
<1>8. HandledInOrder'
  <2>1. ASSUME NEW h \in Leases, h # g
        PROVE  InOrder(h)'
    <3>1. pc'[h] = pc[h] /\ cur'[h] = cur[h] /\ turn'[h] = turn[h]
      BY <2>1 DEF LoopEffect
    <3>2. InOrder(h)
      BY DEF DeliveryInv, HandledInOrder
    <3>3. QED
      BY <1>6, <3>1, <3>2, InOrderKept
  <2>2. InOrder(g)'
    BY DEF LoopEffect
  <2>3. QED
    BY <2>1, <2>2 DEF HandledInOrder
<1>9. StreamInOrder'
  <2>1. CASE UNCHANGED <<queue, cur>>
    BY <1>1, <1>6, <2>1, StreamKept DEF DeliveryInv
  <2>2. CASE TakeEvent(g)
    <3>1. /\ queue # <<>> /\ g = lease /\ phase # "down" /\ pc[g] = "next"
          /\ cur' = [cur EXCEPT ![g] = Head(queue)] /\ queue' = Tail(queue)
          /\ UNCHANGED decided
      BY <2>2 DEF TakeEvent, storeVars
    <3>2. queue \in Seq(Msgs)
      BY DEF TypeOK
    <3>3. /\ Len(queue) \in Nat \ {0} /\ Head(queue) = queue[1]
          /\ Len(queue') = Len(queue) - 1
          /\ \A i \in 1 .. Len(queue') : queue'[i] = queue[i + 1]
      BY <3>1, <3>2, HeadTailProperties, EmptySeq
    <3>4. /\ \A i \in 1 .. Len(queue) : queue[i] \in Int
          /\ cur[lease] \in Int /\ sent \in Int
      BY <3>1, Numbers
    <3>5. cur'[lease'] = queue[1]
      BY <1>1, <3>1, <3>3 DEF TypeOK
    <3>6. DoneUpTo(cur[lease])
      BY <3>1 DEF DeliveryInv, HandledInOrder, InOrder
    <3>7. ASSUME NEW s \in Int, NEW i \in 2 .. Len(queue) + 1, Follows(s, i)
          PROVE  \/ 1 .. s - 1 \subseteq decided'
                 \/ s = cur'[lease'] + 1
                 \/ \E j \in 1 .. (i - 1) - 1 : s = queue'[j] + 1
      <4>1. CASE DoneUpTo(s - 1)
        BY <3>1, <4>1 DEF DoneUpTo
      <4>2. CASE s = cur[lease] + 1
        <5>1. s - 1 = cur[lease]
          BY <3>4, <4>2
        <5>2. QED
          BY <3>1, <3>6, <5>1 DEF DoneUpTo
      <4>3. ASSUME NEW j \in 1 .. i - 1, s = queue[j] + 1
            PROVE  \/ s = cur'[lease'] + 1
                   \/ \E k \in 1 .. (i - 1) - 1 : s = queue'[k] + 1
        <5>1. CASE j = 1
          BY <3>5, <4>3, <5>1
        <5>2. CASE j # 1
          <6>1. j - 1 \in 1 .. (i - 1) - 1 /\ j - 1 \in 1 .. Len(queue')
            BY <3>3, <5>2
          <6>2. queue'[j - 1] = queue[(j - 1) + 1] /\ (j - 1) + 1 = j
            BY <3>3, <6>1
          <6>3. s = queue'[j - 1] + 1
            BY <4>3, <6>2
          <6>4. QED
            BY <6>1, <6>3
        <5>3. QED
          BY <5>1, <5>2
      <4>4. QED
        BY <3>7, <4>1, <4>2, <4>3 DEF Follows
    <3>8. /\ sent <= stored /\ Follows(sent + 1, Len(queue) + 1)
          /\ \A i \in 1 .. Len(queue) : queue[i] <= stored /\ Follows(queue[i], i)
      BY <3>1 DEF DeliveryInv, StreamInOrder
    <3>9. Follows(sent + 1, Len(queue) + 1)'
      <4>1. sent + 1 \in Int /\ Len(queue) + 1 \in 2 .. Len(queue) + 1
        BY <3>3, <3>4
      <4>2. \/ 1 .. (sent + 1) - 1 \subseteq decided'
            \/ sent + 1 = cur'[lease'] + 1
            \/ \E j \in 1 .. ((Len(queue) + 1) - 1) - 1 : sent + 1 = queue'[j] + 1
        BY <3>7, <3>8, <4>1
      <4>3. ((Len(queue) + 1) - 1) - 1 = (Len(queue') + 1) - 1
        BY <3>3
      <4>4. QED
        BY <1>1, <4>2, <4>3 DEF Follows, DoneUpTo
    <3>10. ASSUME NEW i \in 1 .. Len(queue')
           PROVE  queue'[i] <= stored' /\ Follows(queue[i], i)'
      <4>1. /\ i + 1 \in 1 .. Len(queue) /\ i + 1 \in 2 .. Len(queue) + 1
            /\ queue'[i] = queue[i + 1] /\ (i + 1) - 1 = i
        BY <3>3
      <4>2. /\ queue[i + 1] <= stored /\ Follows(queue[i + 1], i + 1)
            /\ queue[i + 1] \in Int
        BY <3>4, <3>8, <4>1
      <4>3. \/ 1 .. queue[i + 1] - 1 \subseteq decided'
            \/ queue[i + 1] = cur'[lease'] + 1
            \/ \E j \in 1 .. ((i + 1) - 1) - 1 : queue[i + 1] = queue'[j] + 1
        BY <3>7, <4>1, <4>2
      <4>4. QED
        BY <1>1, <4>1, <4>2, <4>3 DEF Follows, DoneUpTo
    <3>11. QED
      BY <1>1, <3>8, <3>9, <3>10 DEF StreamInOrder
  <2>3. QED
    BY <2>1, <2>2 DEF LoopEffect
<1>10. QED
  BY <1>3, <1>4, <1>5, <1>7, <1>8, <1>9 DEF DeliveryInv

\* The host's cursor covers stored and decided messages only.
LEMMA CursorCovers ==
  ASSUME TypeOK, DeliveryInv
  PROVE  1 .. cursor \subseteq decided /\ cursor <= stored
<1>1. cursor \in Nat /\ stored \in Nat /\ wire \in Int
  BY DEF TypeOK
<1>2. 1 .. cursor \subseteq decided
  BY <1>1, DoneShorter DEF DeliveryInv, AckOnlyDecided, DoneUpTo
<1>3. 1 .. cursor \subseteq 1 .. stored
  BY <1>2 DEF DeliveryInv
<1>4. QED
  BY <1>1, <1>2, <1>3

\* The steps of the host and the client keep the delivery invariant.
LEMMA HostStep ==
  ASSUME TypeOK, TypeOK', DeliveryInv, Host
  PROVE  DeliveryInv'
<1>1. /\ cursor \in Int /\ wire \in Int /\ sent \in Int
      /\ stored \in Int /\ stored' \in Int /\ Len(queue) \in Nat
      /\ cursor <= wire /\ DoneUpTo(wire)
  BY Numbers DEF DeliveryInv, AckOnlyDecided, TypeOK
<1>2. UNCHANGED <<lease, phase, pc, cur, stopped, turn, adoptedSeq, decided>>
  BY DEF Host, StoreMessage, Stream, AckArrives, Drop, Reconnect, loopVars, storeVars
<1>3. /\ stored <= stored'
      /\ cursor' \in {cursor, wire} /\ wire' \in {cursor, wire}
      /\ cursor' <= wire'
  BY <1>1, <1>2 DEF Host, StoreMessage, Stream, AckArrives, Drop, Reconnect, clientVars,
                    daemonVars
<1>4. AckOnlyDecided' /\ ReplayCheckSafe'
  <2>1. 1 .. cursor \subseteq decided
    BY CursorCovers
  <2>2. QED
    BY <1>1, <1>2, <1>3, <2>1 DEF AckOnlyDecided, ReplayCheckSafe, DeliveryInv, DoneUpTo
<1>5. (decided \subseteq 1 .. stored)'
  BY <1>1, <1>2, <1>3 DEF DeliveryInv
<1>6. (link = "seated" => phase # "down")'
  BY DEF DeliveryInv, Host, StoreMessage, Stream, AckArrives, Drop, Reconnect, clientVars
<1>7. Unstarted'
  BY <1>2 DEF DeliveryInv, Unstarted
<1>8. HandledInOrder'
  <2> SUFFICES ASSUME NEW h \in Leases
               PROVE  InOrder(h)'
    BY DEF HandledInOrder
  <2>1. InOrder(h)
    BY DEF DeliveryInv, HandledInOrder
  <2>2. pc'[h] = pc[h] /\ cur'[h] = cur[h] /\ turn'[h] = turn[h]
    BY <1>2
  <2>3. QED
    BY <1>2, <1>3, <2>1, <2>2, InOrderKept
<1>9. StreamInOrder'
  <2>1. CASE StoreMessage \/ AckArrives \/ Drop
    <3>1. UNCHANGED <<sent, queue, lease, cur>>
      BY <1>2, <2>1 DEF StoreMessage, AckArrives, Drop, clientVars
    <3>2. phase' # "down" => phase # "down"
      BY <1>2
    <3>3. QED
      BY <1>2, <1>3, <3>1, <3>2, StreamKept DEF DeliveryInv
  <2>2. CASE Stream
    <3>1. /\ phase # "down" /\ sent < stored /\ sent' = sent + 1
          /\ queue' = Append(queue, sent + 1) /\ stored' = stored
      BY <2>2 DEF Stream, DeliveryInv, daemonVars
    <3>2. sent + 1 \in Msgs
      BY <3>1 DEF TypeOK, Msgs
    <3>3. /\ Len(queue') = Len(queue) + 1
          /\ \A i \in 1 .. Len(queue) : queue'[i] = queue[i]
          /\ queue'[Len(queue) + 1] = sent + 1
      <4>1. queue \in Seq(Msgs)
        BY DEF TypeOK
      <4>2. QED
        BY <3>1, <3>2, <4>1, AppendProperties
    <3>4. /\ Follows(sent + 1, Len(queue) + 1)
          /\ \A i \in 1 .. Len(queue) : queue[i] <= stored /\ Follows(queue[i], i)
      BY <3>1 DEF DeliveryInv, StreamInOrder
    <3>5. sent' <= stored'
      BY <1>1, <3>1
    <3>6. Follows(sent + 1, Len(queue) + 1)'
      <4>1. /\ sent' + 1 = queue'[Len(queue) + 1] + 1
            /\ Len(queue) + 1 \in 1 .. (Len(queue') + 1) - 1
        BY <1>1, <3>1, <3>3
      <4>2. QED
        BY <4>1 DEF Follows
    <3>7. ASSUME NEW s \in Int, NEW i \in 1 .. Len(queue) + 1, Follows(s, i)
          PROVE  \/ 1 .. s - 1 \subseteq decided'
                 \/ s = cur'[lease'] + 1
                 \/ \E j \in 1 .. i - 1 : s = queue'[j] + 1
      <4>1. CASE DoneUpTo(s - 1) \/ s = cur[lease] + 1
        BY <1>2, <4>1 DEF DoneUpTo
      <4>2. ASSUME NEW j \in 1 .. i - 1, s = queue[j] + 1
            PROVE  s = queue'[j] + 1
        <5>1. j \in 1 .. Len(queue)
          BY <1>1
        <5>2. QED
          BY <3>3, <4>2, <5>1
      <4>3. QED
        BY <3>7, <4>1, <4>2 DEF Follows
    <3>8. ASSUME NEW i \in 1 .. Len(queue')
          PROVE  queue'[i] <= stored' /\ Follows(queue[i], i)'
      <4>1. \/ i \in 1 .. Len(queue) /\ queue'[i] = queue[i] /\ queue[i] \in Int
            \/ i = Len(queue) + 1 /\ queue'[i] = sent + 1
        BY <1>1, <3>3, Numbers
      <4>2. /\ i \in 1 .. Len(queue) + 1
            /\ queue'[i] \in Int /\ queue'[i] <= stored /\ Follows(queue'[i], i)
        BY <1>1, <3>1, <3>3, <3>4, <4>1
      <4>3. \/ 1 .. queue'[i] - 1 \subseteq decided'
            \/ queue'[i] = cur'[lease'] + 1
            \/ \E j \in 1 .. i - 1 : queue'[i] = queue'[j] + 1
        BY <3>7, <4>2
      <4>4. QED
        BY <3>1, <4>2, <4>3 DEF Follows, DoneUpTo
    <3>9. QED
      BY <3>5, <3>6, <3>8 DEF StreamInOrder
  <2>3. CASE Reconnect
    <3>1. /\ phase # "down" /\ sent' = cursor
          /\ UNCHANGED <<queue, lease, cur, decided, stored>>
      BY <1>2, <2>3 DEF Reconnect, daemonVars
    <3>2. /\ sent' <= stored' /\ (sent' + 1) - 1 = cursor
          /\ 1 .. cursor \subseteq decided'
      BY <1>1, <1>2, <3>1, CursorCovers
    <3>3. \A i \in 1 .. Len(queue) : queue[i] <= stored /\ Follows(queue[i], i)
      BY <3>1 DEF DeliveryInv, StreamInOrder
    <3>4. \A i \in 1 .. Len(queue) : Follows(queue[i], i)'
      BY <3>1, <3>3 DEF Follows, DoneUpTo
    <3>5. QED
      BY <3>1, <3>2, <3>3, <3>4 DEF StreamInOrder, Follows, DoneUpTo
  <2>4. QED
    BY <2>1, <2>2, <2>3 DEF Host
<1>10. QED
  BY <1>4, <1>5, <1>6, <1>7, <1>8, <1>9 DEF DeliveryInv

\* The steps of the account's life cycle keep the delivery invariant.
LEMMA AccountStep ==
  ASSUME TypeOK, TypeOK', DeliveryInv, Account
  PROVE  DeliveryInv'
<1>1. /\ cursor \in Int /\ wire \in Int /\ lease \in Int /\ stored \in Int
      /\ cursor <= wire /\ DoneUpTo(wire)
  BY Numbers DEF DeliveryInv, AckOnlyDecided
<1>2. UNCHANGED <<stored, cursor, cur, adoptedSeq, decided>>
  BY DEF Account, StartLease, StopLease, CloseSession, Crash, daemonVars, loopVars,
         storeVars
<1>3. AckOnlyDecided' /\ ReplayCheckSafe'
  <2>1. wire' \in {wire, cursor}
    BY DEF Account, StartLease, StopLease, CloseSession, Crash, clientVars
  <2>2. cursor <= wire' /\ 1 .. wire' \subseteq decided
    BY <1>1, <2>1, CursorCovers DEF DoneUpTo
  <2>3. QED
    BY <1>1, <1>2, <2>2 DEF AckOnlyDecided, ReplayCheckSafe, DeliveryInv, DoneUpTo
<1>4. (decided \subseteq 1 .. stored)'
  BY <1>2 DEF DeliveryInv
<1>5. (link = "seated" => phase # "down")'
  BY DEF DeliveryInv, Account, StartLease, StopLease, CloseSession, Crash, clientVars
<1>6. CASE StartLease
  <2>1. /\ lease' = lease + 1 /\ lease' \in Leases /\ lease' > lease
        /\ phase' = "up" /\ sent' = cursor /\ queue' = <<>> /\ Len(queue') = 0
        /\ turn' = turn
        /\ pc' = [pc EXCEPT ![lease'] = "next"]
    BY <1>1, <1>6 DEF StartLease, Suspend, TypeOK, Leases
  <2>2. pc'[lease'] = "next" /\ \A h \in Leases \ {lease'} : pc'[h] = pc[h]
    BY <2>1 DEF TypeOK
  <2>3. pc[lease'] = "off" /\ cur[lease'] = 0 /\ turn[lease'] = "none"
    BY <2>1 DEF DeliveryInv, Unstarted
  <2>4. Unstarted'
    <3> SUFFICES ASSUME NEW h \in Leases, h > lease'
                 PROVE  pc'[h] = "off" /\ cur'[h] = 0 /\ turn'[h] = "none"
      BY DEF Unstarted
    <3>1. h > lease /\ h # lease'
      BY <1>1, <2>1 DEF Leases
    <3>2. QED
      BY <1>2, <2>1, <2>2, <3>1 DEF DeliveryInv, Unstarted
  <2>5. HandledInOrder'
    <3>1. ASSUME NEW h \in Leases, h # lease'
          PROVE  InOrder(h)'
      <4>1. InOrder(h) /\ pc'[h] = pc[h]
        BY <2>2, <3>1 DEF DeliveryInv, HandledInOrder
      <4>2. QED
        BY <1>2, <2>1, <4>1 DEF InOrder, DoneUpTo
    <3>2. ASSUME NEW h \in Leases, h = lease'
          PROVE  InOrder(h)'
      <4>1. pc'[h] = "next" /\ turn'[h] = "none" /\ cur'[h] = 0
        BY <1>2, <2>1, <2>2, <2>3, <3>2
      <4>2. 1 .. 0 = {}
        OBVIOUS
      <4>3. QED
        BY <4>1, <4>2 DEF InOrder, Handling, LiveTurn, DoneUpTo
    <3>3. QED
      BY <3>1, <3>2 DEF HandledInOrder
  <2>6. StreamInOrder'
    <3>1. /\ sent' <= stored' /\ (sent' + 1) - 1 = cursor
          /\ 1 .. cursor \subseteq decided'
      BY <1>1, <1>2, <2>1, CursorCovers
    <3>2. 1 .. Len(queue') = {}
      BY <2>1
    <3>3. QED
      BY <2>1, <3>1, <3>2 DEF StreamInOrder, Follows, DoneUpTo
  <2>7. QED
    BY <1>3, <1>4, <1>5, <2>4, <2>5, <2>6 DEF DeliveryInv
<1>7. CASE StopLease \/ CloseSession \/ Crash
  <2>1. UNCHANGED lease
    BY <1>7 DEF StopLease, CloseSession, Crash
  <2>2. \A h \in Leases :
          /\ pc'[h] \in {pc[h], "ended"} /\ (pc[h] = "off" => pc'[h] = "off")
          /\ turn'[h] = turn[h] \/ turn'[h] \in {"closed", "abandoned"}
          /\ turn[h] \notin LiveTurn => turn'[h] = turn[h]
          /\ turn'[h] \in LiveTurn => pc'[h] = pc[h]
    <3>1. CASE StopLease
      BY <3>1 DEF StopLease, TakeDown, LiveTurn, TypeOK
    <3>2. CASE CloseSession
      BY <3>2 DEF CloseSession, loopVars
    <3>3. CASE Crash
      BY <3>3 DEF Crash, LiveTurn, TypeOK
    <3>4. QED
      BY <1>7, <3>1, <3>2, <3>3
  <2>3. Unstarted'
    <3> SUFFICES ASSUME NEW h \in Leases, h > lease
                 PROVE  pc'[h] = "off" /\ cur'[h] = 0 /\ turn'[h] = "none"
      BY <2>1 DEF Unstarted
    <3>1. pc[h] = "off" /\ cur[h] = 0 /\ turn[h] = "none"
      BY DEF DeliveryInv, Unstarted
    <3>2. QED
      BY <1>2, <2>2, <3>1 DEF LiveTurn
  <2>4. HandledInOrder'
    <3> SUFFICES ASSUME NEW h \in Leases
                 PROVE  InOrder(h)'
      BY DEF HandledInOrder
    <3>1. InOrder(h)
      BY DEF DeliveryInv, HandledInOrder
    <3>2. QED
      BY <1>2, <2>2, <3>1 DEF InOrder, Handling, DoneUpTo
  <2>5. StreamInOrder'
    <3>1. CASE StopLease
      <4>1. UNCHANGED <<sent, queue, lease, cur>> /\ phase # "down"
        BY <3>1 DEF StopLease, clientVars
      <4>2. stored <= stored' /\ decided \subseteq decided'
        BY <1>1, <1>2
      <4>3. QED
        BY <4>1, <4>2, StreamKept DEF DeliveryInv
    <3>2. CASE CloseSession \/ Crash
      BY <3>2 DEF CloseSession, Crash, StreamInOrder
    <3>3. QED
      BY <1>7, <3>1, <3>2
  <2>6. QED
    BY <1>3, <1>4, <1>5, <2>3, <2>4, <2>5 DEF DeliveryInv
<1>8. QED
  BY <1>6, <1>7 DEF Account

\* The order of streams, queues and decisions, kept through replays and restarts.
THEOREM DeliveryInductive == Spec => []DeliveryInv
<1>1. Init => DeliveryInv
  <2> SUFFICES ASSUME Init
               PROVE  DeliveryInv
    OBVIOUS
  <2> USE DEF Init
  <2>1. AckOnlyDecided /\ ReplayCheckSafe /\ Unstarted
    BY DEF AckOnlyDecided, ReplayCheckSafe, Unstarted, DoneUpTo
  <2>2. HandledInOrder
    BY DEF HandledInOrder, InOrder, Handling, LiveTurn
  <2>3. StreamInOrder
    BY DEF StreamInOrder
  <2>4. QED
    BY <2>1, <2>2, <2>3 DEF DeliveryInv
<1>2. TypeOK /\ TypeOK' /\ DeliveryInv /\ [Next]_vars => DeliveryInv'
  <2> SUFFICES ASSUME TypeOK, TypeOK', DeliveryInv, [Next]_vars
               PROVE  DeliveryInv'
    OBVIOUS
  <2>1. CASE Host
    BY <2>1, HostStep
  <2>2. CASE Account
    BY <2>2, AccountStep
  <2>3. ASSUME NEW g \in Leases, Loop(g) \/ Core(g)
        PROVE  DeliveryInv'
    BY <2>3, LoopStep, CoreStep, EffectKeeps
  <2>4. CASE UNCHANGED vars
    BY <2>4 DEF vars, daemonVars, clientVars, loopVars, storeVars, DeliveryInv,
                AckOnlyDecided, ReplayCheckSafe, Unstarted, HandledInOrder, InOrder,
                StreamInOrder, Follows, DoneUpTo
  <2>5. QED
    BY <2>1, <2>2, <2>3, <2>4 DEF Next
<1>3. QED
  BY <1>1, <1>2, TypeCorrect, PTL DEF Spec

\* No ack, arrived or under way, covers an undecided message.
THEOREM AckSafety == Spec => []AckOnlyDecided
<1>1. DeliveryInv => AckOnlyDecided
  BY DEF DeliveryInv
<1>2. QED
  BY <1>1, DeliveryInductive, PTL

\* The replay check never acks an undecided message.
THEOREM ReplaySafety == Spec => []ReplayCheckSafe
<1>1. DeliveryInv => ReplayCheckSafe
  BY DEF DeliveryInv
<1>2. QED
  BY <1>1, DeliveryInductive, PTL

\* The ingress implements the delivery contract.
THEOREM Implementation == Spec => ImplementsDelivery
<1>1. Init => Contract!Init
  BY DEF Init, Contract!Init
<1>2. TypeOK /\ TypeOK' /\ DeliveryInv /\ [Next]_vars => [Contract!Next]_(Contract!dvars)
  <2> SUFFICES ASSUME TypeOK, TypeOK', DeliveryInv, [Next]_vars
               PROVE  Contract!Next \/ UNCHANGED Contract!dvars
    OBVIOUS
  <2>1. cursor \in Int /\ wire \in Int /\ DoneUpTo(wire)
    BY Numbers DEF DeliveryInv, AckOnlyDecided
  <2>2. CASE Host
    <3>1. CASE StoreMessage
      BY <3>1 DEF StoreMessage, storeVars, Contract!Next, Contract!Store
    <3>2. CASE AckArrives
      <4>1. cursor' = wire /\ cursor < wire /\ UNCHANGED <<stored, decided>>
        BY <3>2 DEF AckArrives, storeVars
      <4>2. cursor' > cursor /\ 1 .. cursor' \subseteq decided
        BY <2>1, <4>1 DEF DoneUpTo
      <4>3. QED
        BY <4>1, <4>2 DEF Contract!Next, Contract!Acknowledge
    <3>3. CASE Stream \/ Drop \/ Reconnect
      BY <3>3 DEF Stream, Drop, Reconnect, daemonVars, storeVars, Contract!dvars
    <3>4. QED
      BY <2>2, <3>1, <3>2, <3>3 DEF Host
  <2>3. CASE Account
    BY <2>3 DEF Account, StartLease, StopLease, CloseSession, Crash, daemonVars,
                storeVars, Contract!dvars
  <2>4. ASSUME NEW g \in Leases, Loop(g) \/ Core(g)
        PROVE  Contract!Next \/ UNCHANGED Contract!dvars
    <3>1. LoopEffect(g)
      BY <2>4, LoopStep, CoreStep
    <3>2. CASE decided' = decided
      BY <3>1, <3>2 DEF LoopEffect, Contract!dvars
    <3>3. CASE decided' # decided
      BY <3>1, <3>3 DEF LoopEffect, DoneUpTo, Contract!Next, Contract!Decide
    <3>4. QED
      BY <3>2, <3>3
  <2>5. CASE UNCHANGED vars
    BY <2>5 DEF vars, daemonVars, storeVars, Contract!dvars
  <2>6. QED
    BY <2>2, <2>3, <2>4, <2>5 DEF Next
<1>3. QED
  BY <1>1, <1>2, TypeCorrect, DeliveryInductive, PTL DEF Spec, ImplementsDelivery, Contract!Spec

-----------------------------------------------------------------------------
(* Adopted at most once.                                                   *)

\* A step that adopts nothing, starts no loop, and lets a loop be "fresh" only
\* where it was before or where the replay check has just let it through.
LEMMA OnceKept ==
  ASSUME TypeOK, TypeOK', OnceInv,
         UNCHANGED <<adoptedSeq, adoptions, lease, phase>>,
         \A g \in Leases : pc'[g] # "off" /\ g \notin stopped' =>
           /\ pc[g] # "off" /\ g \notin stopped
           /\ pc'[g] \in {"gate", "access"} \/ (pc'[g] = "adoption" /\ turn'[g] \in LiveTurn)
              => /\ cur'[g] = cur[g]
                 /\ \/ pc[g] \in {"gate", "access"}
                    \/ pc[g] = "adoption" /\ turn[g] \in LiveTurn
                    \/ cur[g] > adoptedSeq /\ cur[g] \in Msgs
  PROVE  OnceInv'
<1>1. AdoptedOnce' /\ AdoptionDurable'
  BY DEF OnceInv, AdoptedOnce, AdoptionDurable
<1>2. OneRunning'
  BY DEF OnceInv, OneRunning
<1>3. FreshAhead'
  <2> SUFFICES ASSUME NEW g \in Leases, g \notin stopped',
                      \/ pc'[g] \in {"gate", "access"}
                      \/ pc'[g] = "adoption" /\ turn'[g] \in LiveTurn
               PROVE  adoptions[cur'[g]] = 0
    BY DEF FreshAhead
  <2>1. /\ g \notin stopped /\ cur'[g] = cur[g]
        /\ \/ pc[g] \in {"gate", "access"}
           \/ pc[g] = "adoption" /\ turn[g] \in LiveTurn
           \/ cur[g] > adoptedSeq /\ cur[g] \in Msgs
    OBVIOUS
  <2>2. CASE cur[g] > adoptedSeq /\ cur[g] \in Msgs
    <3>1. ~(adoptions[cur[g]] > 0)
      <4>1. adoptions[cur[g]] > 0 => cur[g] <= adoptedSeq
        BY <2>2 DEF OnceInv, AdoptionDurable
      <4>2. cur[g] \in Int /\ adoptedSeq \in Int
        BY Numbers
      <4>3. QED
        BY <2>2, <4>1, <4>2
    <3>2. adoptions[cur[g]] \in Nat
      BY <2>2 DEF TypeOK
    <3>3. QED
      BY <2>1, <3>1, <3>2
  <2>3. CASE \/ pc[g] \in {"gate", "access"}
             \/ pc[g] = "adoption" /\ turn[g] \in LiveTurn
    BY <2>1, <2>3 DEF OnceInv, FreshAhead
  <2>4. QED
    BY <2>1, <2>2, <2>3
<1>4. QED
  BY <1>1, <1>2, <1>3 DEF OnceInv

\* A commit by the running loop is the first of its message; one by a stopped
\* loop is not counted.
LEMMA CommitKeepsOnce ==
  ASSUME TypeOK, TypeOK', DeliveryInv, OnceInv, NEW g \in Leases,
         turn[g] \in LiveTurn, Commit(g),
         UNCHANGED <<lease, phase, pc, cur, stopped>>
  PROVE  OnceInv'
<1>1. pc[g] = "adoption" /\ cur[g] \in Msgs
  BY DEF DeliveryInv, HandledInOrder, InOrder, TypeOK, Handling
<1>2. /\ adoptedSeq \in Int /\ cur[g] \in Int /\ adoptedSeq' \in Int
      /\ \A s \in Msgs : s \in Int /\ adoptions[s] \in Nat
  <2>1. adoptedSeq \in Int /\ cur[g] \in Int
    BY Numbers
  <2>2. adoptedSeq' \in Int /\ \A s \in Msgs : adoptions[s] \in Nat
    BY DEF TypeOK
  <2>3. \A s \in Msgs : s \in Int
    BY DEF Msgs
  <2>4. QED
    BY <2>1, <2>2, <2>3
<1>3. adoptedSeq <= adoptedSeq' /\ cur[g] <= adoptedSeq'
  BY <1>2, LargerFact DEF Commit
<1>4. \A s \in Msgs : adoptions'[s] =
        IF s = cur[g] /\ g \notin stopped THEN adoptions[s] + 1 ELSE adoptions[s]
  BY DEF Commit, TypeOK
<1>5. g \notin stopped => adoptions[cur[g]] = 0 /\ g = lease
  BY <1>1 DEF OnceInv, FreshAhead, OneRunning
<1>6. AdoptedOnce'
  <2> SUFFICES ASSUME NEW s \in Msgs
               PROVE  adoptions'[s] <= 1
    BY DEF AdoptedOnce
  <2>1. adoptions[s] <= 1
    BY DEF OnceInv, AdoptedOnce
  <2>2. s = cur[g] /\ g \notin stopped => adoptions[s] = 0
    BY <1>5
  <2>3. QED
    BY <1>4, <2>1, <2>2
<1>7. AdoptionDurable'
  <2> SUFFICES ASSUME NEW s \in Msgs, adoptions'[s] > 0
               PROVE  s <= adoptedSeq'
    BY DEF AdoptionDurable
  <2>1. CASE s = cur[g]
    BY <1>3, <2>1
  <2>2. CASE s # cur[g]
    <3>1. s <= adoptedSeq
      BY <1>4, <2>2 DEF OnceInv, AdoptionDurable
    <3>2. QED
      BY <1>2, <1>3, <3>1
  <2>3. QED
    BY <2>1, <2>2
<1>8. OneRunning'
  BY DEF OnceInv, OneRunning
<1>9. FreshAhead'
  <2> SUFFICES ASSUME NEW h \in Leases, h \notin stopped,
                      \/ pc[h] \in {"gate", "access"}
                      \/ pc[h] = "adoption" /\ turn'[h] \in LiveTurn
               PROVE  adoptions'[cur[h]] = 0
    BY DEF FreshAhead
  <2>1. turn'[g] = "adopted" /\ \A k \in Leases \ {g} : turn'[k] = turn[k]
    BY DEF Commit, TypeOK
  <2>2. h # g
    BY <1>1, <2>1 DEF LiveTurn
  <2>3. adoptions[cur[h]] = 0 /\ h = lease
    BY <2>1, <2>2 DEF OnceInv, FreshAhead, OneRunning
  <2>4. g \in stopped
    BY <1>5, <2>2, <2>3
  <2>5. cur[h] \in Msgs
    BY DEF TypeOK, Handling
  <2>6. QED
    BY <1>4, <2>3, <2>4, <2>5
<1>10. QED
  BY <1>6, <1>7, <1>8, <1>9 DEF OnceInv

\* A loop past the replay check holds a message that was never adopted.
THEOREM OnceInductive == Spec => []OnceInv
<1>1. Init => OnceInv
  BY DEF Init, OnceInv, AdoptedOnce, AdoptionDurable, OneRunning, FreshAhead
<1>2. TypeOK /\ TypeOK' /\ DeliveryInv /\ OnceInv /\ [Next]_vars => OnceInv'
  <2> SUFFICES ASSUME TypeOK, TypeOK', DeliveryInv, OnceInv, [Next]_vars
               PROVE  OnceInv'
    OBVIOUS
  <2>1. CASE Host \/ UNCHANGED vars
    <3>1. UNCHANGED <<lease, phase, pc, cur, stopped, turn, adoptedSeq, adoptions>>
      BY <2>1 DEF Host, StoreMessage, Stream, AckArrives, Drop, Reconnect, vars,
                  loopVars, storeVars
    <3>2. QED
      BY <3>1 DEF OnceInv, AdoptedOnce, AdoptionDurable, OneRunning, FreshAhead
  <2>2. CASE StartLease
    <3>1. /\ phase = "down" /\ lease' = lease + 1 /\ phase' = "up"
          /\ pc' = [pc EXCEPT ![lease'] = "next"]
          /\ UNCHANGED <<cur, stopped, turn, adoptedSeq, adoptions>>
      BY <2>2 DEF StartLease, Suspend, storeVars
    <3>2. ASSUME NEW g \in Leases, g \notin stopped, pc'[g] # "off"
          PROVE  g = lease' /\ pc'[g] = "next"
      BY <3>1, <3>2 DEF OnceInv, OneRunning, TypeOK
    <3>3. OneRunning' /\ FreshAhead'
      BY <3>1, <3>2 DEF OneRunning, FreshAhead
    <3>4. AdoptedOnce' /\ AdoptionDurable'
      BY <3>1 DEF OnceInv, AdoptedOnce, AdoptionDurable
    <3>5. QED
      BY <3>3, <3>4 DEF OnceInv
  <2>3. CASE StopLease \/ CloseSession \/ Crash
    <3>1. UNCHANGED <<adoptedSeq, adoptions>>
      BY <2>3 DEF StopLease, CloseSession, Crash, storeVars
    <3>2. ASSUME NEW g \in Leases, pc'[g] # "off"
          PROVE  g \in stopped'
      <4>1. pc[g] # "off"
        BY <2>3, <3>2 DEF StopLease, CloseSession, Crash, loopVars, TypeOK
      <4>2. g \in stopped \/ (g = lease /\ phase = "up")
        BY <4>1 DEF OnceInv, OneRunning
      <4>3. QED
        BY <2>3, <4>1, <4>2 DEF StopLease, CloseSession, Crash, loopVars
    <3>3. OneRunning' /\ FreshAhead'
      BY <3>2 DEF OneRunning, FreshAhead
    <3>4. AdoptedOnce' /\ AdoptionDurable'
      BY <3>1 DEF OnceInv, AdoptedOnce, AdoptionDurable
    <3>5. QED
      BY <3>3, <3>4 DEF OnceInv
  <2>4. ASSUME NEW g \in Leases, Loop(g)
        PROVE  OnceInv'
    <3>1. UNCHANGED <<adoptedSeq, adoptions, lease, phase>> /\ stopped \subseteq stopped'
      BY <2>4 DEF Loop, TakeEvent, LeaveLoop, StreamFails, AckPassive, AckReplay, AckOwn,
                  EnterGate, DropOrSkip, EnterAccess, HandlingFails, Dispatch,
                  AckAdopted, AdoptionFailed, LeaveBound, PassOver, Fails, Ack, Halt,
                  storeVars
    <3>2. ASSUME NEW h \in Leases, h # g
          PROVE  pc'[h] = pc[h] /\ cur'[h] = cur[h] /\ turn'[h] = turn[h]
      BY <2>4, <3>2, LoopStep DEF LoopEffect
    <3>3. /\ pc[g] # "off"
          /\ pc'[g] \in {"gate", "access"} \/ (pc'[g] = "adoption" /\ turn'[g] \in LiveTurn)
             => /\ cur'[g] = cur[g]
                /\ pc[g] \in {"gate", "access"} \/ (cur[g] > adoptedSeq /\ cur[g] \in Msgs)
      <4>1. CASE EnterGate(g)
        BY <4>1 DEF EnterGate, PassBarrier, TypeOK, Handling
      <4>2. CASE EnterAccess(g)
        BY <4>2 DEF EnterAccess
      <4>3. CASE Dispatch(g)
        BY <4>3 DEF Dispatch
      <4>4. CASE TakeEvent(g)
        BY <4>4 DEF TakeEvent, Suspend, TypeOK
      <4>5. CASE LeaveBound(g)
        BY <4>5 DEF LeaveBound, Suspend, TypeOK
      <4>6. ASSUME Fails(g), pc[g] # "off"
            PROVE  pc'[g] = "ended" /\ pc[g] # "off"
        BY <4>6 DEF Fails, Halt, Suspend, TypeOK
      <4>7. ASSUME PassOver(g), pc[g] # "off"
            PROVE  pc'[g] \in {"next", "ended"} /\ pc[g] # "off"
        BY <4>7 DEF PassOver, Ack, Halt, Suspend, TypeOK
      <4>8. ASSUME AckAdopted(g)
            PROVE  pc'[g] \in {"next", "bound", "ended"} /\ pc[g] # "off"
        BY <4>8 DEF AckAdopted, Ack, Halt, Suspend, TypeOK
      <4>9. QED
        BY <2>4, <4>1, <4>2, <4>3, <4>4, <4>5, <4>6, <4>7, <4>8
           DEF Loop, LeaveLoop, StreamFails, AckPassive, AckReplay, AckOwn, PassBarrier,
               DropOrSkip, HandlingFails, AdoptionFailed
    <3>4. QED
      BY <3>1, <3>2, <3>3, OnceKept
  <2>5. ASSUME NEW g \in Leases, Core(g)
        PROVE  OnceInv'
    <3>1. UNCHANGED <<lease, phase, pc, cur, stopped>>
      BY <2>5 DEF Core, TurnAdopted, TurnDeferred, TurnFails, DispatchSettles
    <3>2. CASE turn[g] \in LiveTurn /\ Commit(g)
      BY <3>1, <3>2, CommitKeepsOnce
    <3>3. CASE ~(turn[g] \in LiveTurn /\ Commit(g))
      <4>1. UNCHANGED <<adoptedSeq, adoptions>>
        BY <2>5, <3>3 DEF Core, TurnAdopted, TurnDeferred, TurnFails, DispatchSettles,
                          LiveTurn, storeVars
      <4>2. \A h \in Leases : turn'[h] = turn[h] \/ turn[h] \in LiveTurn
        BY <2>5, <3>3 DEF Core, TurnAdopted, TurnDeferred, TurnFails, DispatchSettles,
                          LiveTurn, TypeOK
      <4>3. QED
        BY <3>1, <4>1, <4>2 DEF OnceInv, AdoptedOnce, AdoptionDurable, OneRunning, FreshAhead
    <3>4. QED
      BY <3>2, <3>3
  <2>6. QED
    BY <2>1, <2>2, <2>3, <2>4, <2>5 DEF Next, Account
<1>3. QED
  BY <1>1, <1>2, TypeCorrect, DeliveryInductive, PTL DEF Spec

\* No message is adopted twice by running leases.
THEOREM AdoptsOnce == Spec => []AdoptedOnce
<1>1. OnceInv => AdoptedOnce
  BY DEF OnceInv
<1>2. QED
  BY <1>1, OnceInductive, PTL

\* An adopted message stays below the durable watermark.
THEOREM AdoptsDurably == Spec => []AdoptionDurable
<1>1. OnceInv => AdoptionDurable
  BY DEF OnceInv
<1>2. QED
  BY <1>1, OnceInductive, PTL

\* An adopted message is behind the agent for good, whatever leases, outages and crashes
\* follow.
THEOREM AdoptsForGood == Spec => []AdoptedForGood
<1>1. OnceInv => AdoptedForGood
  BY DEF OnceInv, AdoptedForGood
<1>2. QED
  BY <1>1, OnceInductive, PTL

\* The dispatches of a lease are messages, so finitely many.
LEMMA InflightFinite ==
  ASSUME TypeOK, NEW g \in Leases
  PROVE  IsFiniteSet(inflight[g]) /\ Cardinality(inflight[g]) \in Nat
<1>1. inflight[g] \in SUBSET (1 .. MaxSeq)
  BY DEF TypeOK, Msgs
<1>2. IsFiniteSet(1 .. MaxSeq)
  BY BoundsAssumption, FS_Interval DEF BoundsAssumption
<1>3. QED
  BY <1>1, <1>2, FS_Subset, FS_CardinalityType

\* On its way to a dispatch the loop has left the bound, or never met it.
RoomAhead(g) ==
  \/ pc[g] \in {"barrier", "gate", "access"}
  \/ pc[g] = "next" /\ g \notin stopped

BoundInv ==
  \A g \in Leases :
    /\ Cardinality(inflight[g]) <= MaxInflight
    /\ RoomAhead(g) => Cardinality(inflight[g]) < MaxInflight
    /\ g > lease => inflight[g] = {}

\* A step after which no dispatch is new, and no loop has come before the dispatch that
\* was not there already, keeps the bound.
LEMMA BoundKept ==
  ASSUME TypeOK, TypeOK', BoundInv, lease <= lease',
         NEW g \in Leases,
         inflight'[g] \subseteq inflight[g],
         RoomAhead(g)' => RoomAhead(g) \/ Cardinality(inflight[g]) < MaxInflight
  PROVE  /\ Cardinality(inflight'[g]) <= MaxInflight
         /\ RoomAhead(g)' => Cardinality(inflight'[g]) < MaxInflight
         /\ g > lease' => inflight'[g] = {}
<1>1. IsFiniteSet(inflight[g]) /\ Cardinality(inflight[g]) \in Nat
  BY InflightFinite
<1>2. Cardinality(inflight'[g]) \in Nat /\ Cardinality(inflight'[g]) <= Cardinality(inflight[g])
  <2>1. IsFiniteSet(inflight'[g])
    BY <1>1, FS_Subset
  <2>2. QED
    BY <1>1, <2>1, FS_Subset, FS_CardinalityType
<1>3. MaxInflight \in Nat
  BY InflightAssumption
<1>4. g > lease' => g > lease
  BY BoundsAssumption DEF TypeOK, Leases, BoundsAssumption
<1>5. QED
  BY <1>1, <1>2, <1>3, <1>4 DEF BoundInv

\* The bound holds, and with room ahead of every loop that may dispatch.
LEMMA BoundInductive == Spec => []BoundInv
<1>1. Init => BoundInv
  <2>1. Cardinality({}) = 0
    BY FS_EmptySet
  <2>2. QED
    BY <2>1, InflightAssumption DEF Init, BoundInv
<1>2. TypeOK /\ TypeOK' /\ DeliveryInv /\ BoundInv /\ [Next]_vars => BoundInv'
  <2> SUFFICES ASSUME TypeOK, TypeOK', DeliveryInv, BoundInv, [Next]_vars,
                      NEW h \in Leases
               PROVE  /\ Cardinality(inflight'[h]) <= MaxInflight
                      /\ RoomAhead(h)' => Cardinality(inflight'[h]) < MaxInflight
                      /\ h > lease' => inflight'[h] = {}
    BY DEF BoundInv
  <2> DEFINE Kept == /\ lease <= lease'
                     /\ inflight'[h] \subseteq inflight[h]
                     /\ RoomAhead(h)' => RoomAhead(h) \/ Cardinality(inflight[h]) < MaxInflight
  <2>k. ASSUME Kept
        PROVE  /\ Cardinality(inflight'[h]) <= MaxInflight
               /\ RoomAhead(h)' => Cardinality(inflight'[h]) < MaxInflight
               /\ h > lease' => inflight'[h] = {}
    BY <2>k, BoundKept
  <2>n. lease \in Nat /\ lease <= lease
    BY BoundsAssumption DEF TypeOK, BoundsAssumption
  <2>1. CASE Host \/ StopLease \/ CloseSession \/ UNCHANGED vars
    BY <2>1, <2>k, <2>n
       DEF Host, StoreMessage, Stream, AckArrives, Drop, Reconnect, StopLease, CloseSession,
           vars, loopVars, RoomAhead
  <2>2. CASE Crash
    BY <2>2, <2>k, <2>n DEF Crash, RoomAhead, TypeOK
  <2>3. CASE StartLease
    <3>1. CASE h = lease + 1
      <4>1. inflight'[h] = {}
        BY <2>3, <2>n, <3>1 DEF StartLease, BoundInv
      <4>2. QED
        BY <4>1, FS_EmptySet, InflightAssumption
    <3>2. CASE h # lease + 1
      BY <2>3, <2>k, <2>n, <3>2 DEF StartLease, Suspend, RoomAhead, TypeOK
    <3>3. QED
      BY <3>1, <3>2
  <2>4. ASSUME NEW g \in Leases, Core(g)
        PROVE  Kept
    BY <2>4, <2>n DEF Core, TurnAdopted, TurnDeferred, TurnFails, DispatchSettles, RoomAhead, TypeOK
  <2>5. ASSUME NEW g \in Leases, Dispatch(g)
        PROVE  /\ Cardinality(inflight'[h]) <= MaxInflight
               /\ RoomAhead(h)' => Cardinality(inflight'[h]) < MaxInflight
               /\ h > lease' => inflight'[h] = {}
    <3>1. CASE h # g
      BY <2>5, <2>k, <2>n, <3>1 DEF Dispatch, Suspend, RoomAhead, TypeOK
    <3>2. CASE h = g
      <4>1. /\ inflight'[h] = inflight[h] \cup {cur[h]}
            /\ pc'[h] = "adoption"
            /\ lease' = lease
        BY <2>5, <3>2 DEF Dispatch, Suspend, TypeOK
      <4>2. Cardinality(inflight[h]) < MaxInflight
        BY <2>5, <3>2 DEF Dispatch, BoundInv, RoomAhead
      <4>3. IsFiniteSet(inflight[h]) /\ Cardinality(inflight[h]) \in Nat
        BY InflightFinite
      <4>4. ~(h > lease)
        BY <2>5, <3>2 DEF Dispatch, DeliveryInv, Unstarted
      <4>5. Cardinality(inflight[h] \cup {cur[h]})
              = IF cur[h] \in inflight[h] THEN Cardinality(inflight[h]) ELSE Cardinality(inflight[h]) + 1
        BY <4>3, FS_AddElement
      <4>6. QED
        BY <4>1, <4>2, <4>3, <4>4, <4>5, InflightAssumption DEF RoomAhead
    <3>3. QED
      BY <3>1, <3>2
  <2>6. ASSUME NEW g \in Leases, Loop(g), ~Dispatch(g)
        PROVE  Kept
    <3> USE <2>n DEF RoomAhead
    <3>1. CASE TakeEvent(g)
      BY <3>1 DEF TakeEvent, Suspend, TypeOK
    <3>2. ASSUME Fails(g)
          PROVE  Kept
      BY <3>2 DEF Fails, Halt, Suspend, TypeOK
    <3>3. ASSUME PassOver(g), RoomAhead(g)
          PROVE  Kept
      BY <3>3 DEF PassOver, Ack, Halt, Suspend, TypeOK
    <3>4. CASE EnterGate(g) \/ EnterAccess(g)
      BY <3>4 DEF EnterGate, PassBarrier, EnterAccess, Suspend, TypeOK
    <3>5. CASE AckAdopted(g)
      BY <3>5 DEF AckAdopted, Ack, Halt, Suspend, TypeOK
    <3>6. CASE LeaveBound(g)
      BY <3>6 DEF LeaveBound, Suspend, TypeOK
    <3>7. QED
      BY <2>6, <3>1, <3>2, <3>3, <3>4, <3>5, <3>6
         DEF Loop, LeaveLoop, StreamFails, AckPassive, AckReplay, AckOwn, PassBarrier,
             DropOrSkip, HandlingFails, AdoptionFailed
  <2>7. QED
    BY <2>k, <2>1, <2>2, <2>3, <2>4, <2>5, <2>6 DEF Next, Account
<1>3. QED
  BY <1>1, <1>2, TypeCorrect, DeliveryInductive, PTL DEF Spec

\* At most MaxInflight dispatches of a lease are unfinished, for every MaxInflight.
THEOREM KeepsBound == Spec => []InflightBounded
<1>1. BoundInv => InflightBounded
  BY DEF BoundInv, InflightBounded
<1>2. QED
  BY <1>1, BoundInductive, PTL

\* A turn that failed is the one the loop still waits for, or the loop has ended.
FailedHere ==
  \A g \in Leases : turn[g] \in {"abandoned", "closed"} => pc[g] \in {"adoption", "ended"}

LEMMA FailedInductive == Spec => []FailedHere
<1>1. Init => FailedHere
  BY DEF Init, FailedHere
<1>2. TypeOK /\ TypeOK' /\ DeliveryInv /\ FailedHere /\ [Next]_vars => FailedHere'
  <2> SUFFICES ASSUME TypeOK, TypeOK', DeliveryInv, FailedHere, [Next]_vars,
                      NEW h \in Leases, turn'[h] \in {"abandoned", "closed"}
               PROVE  pc'[h] \in {"adoption", "ended"}
    BY DEF FailedHere
  <2>1. turn[h] \in LiveTurn => pc[h] = "adoption"
    BY DEF DeliveryInv, HandledInOrder, InOrder
  <2> USE DEF FailedHere
  <2>2. CASE Host \/ CloseSession \/ UNCHANGED vars
    BY <2>2 DEF Host, StoreMessage, Stream, AckArrives, Drop, Reconnect, CloseSession,
                vars, loopVars
  <2>3. CASE StartLease
    <3>1. turn[h] = turn'[h] /\ pc[h] \in {"adoption", "ended"}
      BY <2>3 DEF StartLease
    <3>2. h # lease + 1
      BY <2>3, <3>1, BoundsAssumption DEF StartLease, DeliveryInv, Unstarted, TypeOK, BoundsAssumption
    <3>3. QED
      BY <2>3, <3>1, <3>2 DEF StartLease, Suspend, TypeOK
  <2>4. CASE StopLease
    BY <2>1, <2>4 DEF StopLease, TakeDown, TypeOK
  <2>5. CASE Crash
    BY <2>5 DEF Crash, TypeOK, DeliveryInv, HandledInOrder, InOrder, LiveTurn
  <2>6. ASSUME NEW g \in Leases, Core(g)
        PROVE  pc'[h] \in {"adoption", "ended"}
    BY <2>1, <2>6 DEF Core, TurnAdopted, TurnDeferred, TurnFails, DispatchSettles, Commit, storeVars, LiveTurn, TypeOK
  <2>7. ASSUME NEW g \in Leases, Loop(g)
        PROVE  pc'[h] \in {"adoption", "ended"}
    <3>1. CASE TakeEvent(g)
      BY <3>1 DEF TakeEvent, Suspend, TypeOK
    <3>2. ASSUME Fails(g)
          PROVE  pc'[h] \in {"adoption", "ended"}
      BY <3>2 DEF Fails, Halt, Suspend, TakeDown, TypeOK
    <3>3. ASSUME PassOver(g), pc[g] \in {"barrier", "gate", "access"}
          PROVE  pc'[h] \in {"adoption", "ended"}
      BY <3>3 DEF PassOver, Ack, Halt, Suspend, TakeDown, TypeOK
    <3>4. CASE EnterGate(g) \/ EnterAccess(g)
      BY <3>4 DEF EnterGate, PassBarrier, EnterAccess, Suspend, TypeOK
    <3>5. CASE Dispatch(g)
      BY <3>5 DEF Dispatch, Suspend, TypeOK
    <3>6. CASE AckAdopted(g)
      BY <3>6 DEF AckAdopted, Ack, Halt, Suspend, TakeDown, TypeOK
    <3>7. CASE LeaveBound(g)
      BY <3>7 DEF LeaveBound, Suspend, TypeOK
    <3>8. QED
      BY <2>7, <3>1, <3>2, <3>3, <3>4, <3>5, <3>6, <3>7
         DEF Loop, LeaveLoop, StreamFails, AckPassive, AckReplay, AckOwn, PassBarrier,
             DropOrSkip, HandlingFails, AdoptionFailed
  <2>8. QED
    BY <2>2, <2>3, <2>4, <2>5, <2>6, <2>7 DEF Next, Account
<1>3. QED
  BY <1>1, <1>2, TypeCorrect, DeliveryInductive, PTL DEF Spec

\* After a failed turn the same lease sends no further ack.
THEOREM HaltsAcks == Spec => NoAckAfterFailure
<1>1. TypeOK /\ DeliveryInv /\ FailedHere /\ [Next]_vars =>
        [wire' > wire => pc[lease] # "ended" /\ turn[lease] \notin {"abandoned", "closed"}]_vars
  <2> SUFFICES ASSUME TypeOK, DeliveryInv, FailedHere, Next, wire' > wire
               PROVE  pc[lease] # "ended" /\ turn[lease] \notin {"abandoned", "closed"}
    OBVIOUS
  <2>1. ~(wire' \in {wire, cursor})
    BY Numbers DEF DeliveryInv, AckOnlyDecided
  <2>2. PICK g \in Leases : Loop(g)
    BY <2>1 DEF Next, Host, StoreMessage, Stream, AckArrives, Drop, Reconnect, Account,
                StartLease, StopLease, CloseSession, Crash, Core, TurnAdopted, TurnDeferred,
                TurnFails, DispatchSettles, clientVars
  <2>3. \/ PassOver(g) /\ pc[g] \in {"barrier", "gate", "access"}
        \/ AckAdopted(g)
    BY <2>1, <2>2 DEF Loop, TakeEvent, LeaveLoop, StreamFails, AckPassive, AckReplay, AckOwn,
                EnterGate, DropOrSkip, EnterAccess, HandlingFails, Dispatch,
                AdoptionFailed, LeaveBound, PassBarrier, Fails, clientVars
  <2>4. CanAck(g)
    BY <2>1, <2>3 DEF PassOver, AckAdopted, Ack
  <2>5. QED
    BY <2>3, <2>4 DEF CanAck, AckAdopted, FailedHere
<1>2. QED
  BY <1>1, TypeCorrect, DeliveryInductive, FailedInductive, PTL DEF Spec, NoAckAfterFailure

\* The watermark never goes back.
THEOREM WatermarkGrows == Spec => WatermarkMonotonic
<1>1. TypeOK /\ [Next]_vars => [adoptedSeq' >= adoptedSeq]_adoptedSeq
  <2> SUFFICES ASSUME TypeOK, [Next]_vars, adoptedSeq' # adoptedSeq
               PROVE  adoptedSeq' >= adoptedSeq
    OBVIOUS
  <2>1. PICK g \in Leases : Commit(g)
    <3>1. ~ UNCHANGED storeVars
      BY DEF storeVars
    <3>2. ~Host /\ ~Account
      BY <3>1 DEF Host, StoreMessage, Stream, AckArrives, Drop, Reconnect, Account,
                  StartLease, StopLease, CloseSession, Crash
    <3>3. ~ UNCHANGED vars
      BY <3>1 DEF vars
    <3>4. \A g \in Leases : ~Loop(g)
      BY DEF Loop, TakeEvent, LeaveLoop, StreamFails, AckPassive, AckReplay, AckOwn,
             EnterGate, DropOrSkip, EnterAccess, HandlingFails, Dispatch,
             AckAdopted, AdoptionFailed, LeaveBound, PassOver, Fails, storeVars
    <3>5. PICK g \in Leases : Core(g)
      BY <3>2, <3>3, <3>4 DEF Next
    <3>6. QED
      BY <3>1, <3>5 DEF Core, TurnAdopted, TurnDeferred, TurnFails, DispatchSettles
  <2>2. adoptedSeq \in Int /\ cur[g] \in Int
    BY Numbers
  <2>3. QED
    BY <2>1, <2>2, LargerFact DEF Commit
<1>2. QED
  BY <1>1, TypeCorrect, PTL DEF Spec, WatermarkMonotonic

\* What a step does to the turn of lease h.
LEMMA TurnStep ==
  ASSUME TypeOK, TypeOK', DeliveryInv, [Next]_vars, NEW h \in Leases
  PROVE  [TurnOf(h)!Next]_(TurnOf(h)!turnVars)
<1> DEFINE covered == pc[h] = "adoption" /\ cur[h] <= adoptedSeq
<1> USE DEF StageOf, TurnOf!turnVars, TurnOf!Next
<1>1. /\ turn[h] \in LiveTurn => pc[h] = "adoption"
      /\ turn[h] \in TurnStates
  BY DEF DeliveryInv, HandledInOrder, InOrder, TypeOK
<1>2. StageOf(h) = "idle" => pc[h] # "adoption"
  BY <1>1 DEF TurnStates
<1>3. StageOf(h) = "halted" => pc[h] = "ended"
  BY <1>1 DEF TurnStates
\* A step of something else leaves the stage alone, and at most raises the watermark.
<1>4. ASSUME pc'[h] = pc[h], turn'[h] = turn[h], covered => covered'
      PROVE  [TurnOf(h)!Next]_(TurnOf(h)!turnVars)
  <2>1. StageOf(h)' = StageOf(h)
    BY <1>4
  <2>2. CASE covered' = covered
    BY <2>1, <2>2
  <2>3. CASE covered' # covered
    <3>1. ~covered /\ covered' = TRUE /\ StageOf(h) # "idle"
      BY <1>4, <1>2, <2>3
    <3>2. QED
      BY <2>1, <3>1 DEF TurnOf!AdoptedElsewhere
  <2>4. QED
    BY <2>2, <2>3
<1>5. ASSUME pc'[h] = pc[h], turn'[h] = turn[h], UNCHANGED <<cur, adoptedSeq>>
      PROVE  [TurnOf(h)!Next]_(TurnOf(h)!turnVars)
  <2>1. covered => covered'
    BY <1>5
  <2> HIDE DEF covered
  <2>2. QED
    BY <1>4, <1>5, <2>1
\* A loop that ends, for whatever reason.
<1>6. ASSUME pc'[h] = "ended"
      PROVE  [TurnOf(h)!Next]_(TurnOf(h)!turnVars)
  <2>1. StageOf(h)' = "halted" /\ covered' = FALSE
    BY <1>6
  <2>2. CASE pc[h] = "ended"
    BY <2>1, <2>2
  <2>3. CASE pc[h] # "ended"
    BY <1>3, <2>1, <2>3 DEF TurnOf!Halt
  <2>4. QED
    BY <2>2, <2>3
<1>7. CASE Host \/ CloseSession \/ UNCHANGED vars
  BY <1>5, <1>7 DEF Host, StoreMessage, Stream, AckArrives, Drop, Reconnect, CloseSession,
              vars, loopVars, storeVars
<1>8. CASE StartLease
  <2>1. CASE h = lease + 1
    <3>1. pc[h] = "off"
      BY <1>8, <2>1, BoundsAssumption
         DEF StartLease, DeliveryInv, Unstarted, TypeOK, BoundsAssumption
    <3>2. pc'[h] = "next"
      BY <1>8, <2>1 DEF StartLease, Suspend, TypeOK
    <3>3. StageOf(h) = StageOf(h)' /\ covered = covered'
      BY <3>1, <3>2
    <3>4. QED
      BY <3>3
  <2>2. CASE h # lease + 1
    BY <1>5, <1>8, <2>2 DEF StartLease, Suspend, TypeOK, storeVars
  <2>3. QED
    BY <2>1, <2>2
<1>9. CASE StopLease
  <2>1. UNCHANGED <<pc, cur, adoptedSeq>>
    BY <1>9 DEF StopLease, storeVars
  <2>2. CASE turn[h] \in LiveTurn /\ turn'[h] = "abandoned"
    BY <1>1, <2>1, <2>2 DEF TurnOf!Fail, TurnOf!Undecided, LiveTurn
  <2>3. CASE turn'[h] = turn[h]
    BY <1>5, <2>1, <2>3
  <2>4. QED
    BY <1>9, <2>2, <2>3 DEF StopLease, TakeDown, TypeOK
<1>10. CASE Crash
  BY <1>1, <1>6, <1>10 DEF Crash, TypeOK
<1>11. ASSUME NEW g \in Leases, Core(g)
      PROVE  [TurnOf(h)!Next]_(TurnOf(h)!turnVars)
  <2>1. UNCHANGED <<pc, cur>>
    BY <1>11 DEF Core, TurnAdopted, TurnDeferred, TurnFails, DispatchSettles
  <2>2. CASE Commit(g) /\ turn[g] \in LiveTurn
    <3>1. /\ adoptedSeq \in Int /\ cur[g] \in Int /\ cur[h] \in Int /\ adoptedSeq' \in Int
          /\ adoptedSeq' >= adoptedSeq /\ adoptedSeq' >= cur[g]
      <4>1. adoptedSeq \in Int /\ cur[g] \in Int /\ cur[h] \in Int
        BY Numbers
      <4>2. QED
        BY <2>2, <4>1, LargerFact DEF Commit
    <3>2. CASE h = g
      <4>1. pc[h] = "adoption" /\ turn'[h] = "adopted" /\ covered'
        BY <1>1, <2>1, <2>2, <3>1, <3>2 DEF Commit, TypeOK
      <4>2. StageOf(h) \in TurnOf(h)!Undecided /\ StageOf(h)' = "adopted" /\ covered' = TRUE
        BY <2>1, <2>2, <3>2, <4>1 DEF TurnOf!Undecided, LiveTurn
      <4>3. QED
        BY <4>2 DEF TurnOf!Adopt
    <3>3. CASE h # g
      <4>1. turn'[h] = turn[h]
        BY <2>2, <3>3 DEF Commit, TypeOK
      <4>2. covered => covered'
        BY <2>1, <3>1
      <4> HIDE DEF covered
      <4>3. QED
        BY <1>4, <2>1, <4>1, <4>2
    <3>4. QED
      BY <3>2, <3>3
  <2>3. CASE turn[g] \in LiveTurn /\ turn' = [turn EXCEPT ![g] = "abandoned"] /\ UNCHANGED storeVars
    <3>1. CASE h = g
      BY <1>1, <2>1, <2>3, <3>1 DEF TurnOf!Fail, TurnOf!Undecided, LiveTurn, TypeOK, storeVars
    <3>2. CASE h # g
      BY <1>5, <2>1, <2>3, <3>2 DEF TypeOK, storeVars
    <3>3. QED
      BY <3>1, <3>2
  <2>4. CASE turn[g] = "pending" /\ turn' = [turn EXCEPT ![g] = "deferred"] /\ UNCHANGED storeVars
    <3>1. CASE h = g
      BY <1>1, <2>1, <2>4, <3>1 DEF TurnOf!Defer, LiveTurn, TypeOK, storeVars
    <3>2. CASE h # g
      BY <1>5, <2>1, <2>4, <3>2 DEF TypeOK, storeVars
    <3>3. QED
      BY <3>1, <3>2
  <2>5. CASE UNCHANGED <<turn, storeVars>>
    BY <1>5, <2>1, <2>5 DEF storeVars
  <2>6. QED
    BY <1>11, <2>2, <2>3, <2>4, <2>5
       DEF Core, TurnAdopted, TurnDeferred, TurnFails, DispatchSettles, LiveTurn
<1>12. ASSUME NEW g \in Leases, Loop(g), h # g
       PROVE  [TurnOf(h)!Next]_(TurnOf(h)!turnVars)
  <2>1. /\ pc'[h] = pc[h] /\ turn'[h] = turn[h] /\ cur'[h] = cur[h]
        /\ adoptedSeq' = adoptedSeq
    BY <1>12 DEF Loop, TakeEvent, LeaveLoop, StreamFails, AckPassive, AckReplay, AckOwn,
                 EnterGate, DropOrSkip, EnterAccess, HandlingFails, Dispatch, AckAdopted,
                 AdoptionFailed, LeaveBound, PassOver, Fails, Ack, Halt, Suspend, TakeDown,
                 TypeOK, storeVars
  <2>2. QED
    BY <1>4, <2>1
<1>13. CASE Loop(h)
  <2>1. CASE pc[h] = "adoption"
    <3>1. CASE AdoptionFailed(h)
      BY <1>6, <3>1 DEF AdoptionFailed, Fails, Halt, Suspend, TypeOK
    <3>2. CASE AckAdopted(h)
      <4>1. turn[h] = "adopted" /\ pc'[h] \in {"next", "bound", "ended"}
        BY <3>2 DEF AckAdopted, Ack, Halt, Suspend, TypeOK
      <4>2. QED
        BY <1>6, <2>1, <4>1 DEF TurnOf!Release
    <3>3. QED
      BY <1>13, <2>1, <3>1, <3>2
         DEF Loop, TakeEvent, LeaveLoop, StreamFails, AckPassive, AckReplay, AckOwn, EnterGate,
             DropOrSkip, EnterAccess, HandlingFails, Dispatch, LeaveBound, PassBarrier
  <2>2. CASE Dispatch(h)
    BY <2>2 DEF Dispatch, Suspend, TypeOK, TurnOf!Begin
  <2>3. CASE pc[h] # "adoption" /\ ~Dispatch(h)
    <3>1. pc[h] # "ended" /\ pc'[h] # "adoption"
      BY <1>13, <2>3 DEF Loop, TakeEvent, LeaveLoop, StreamFails, AckPassive, AckReplay,
           AckOwn, EnterGate, DropOrSkip, EnterAccess, HandlingFails, AckAdopted,
           AdoptionFailed, LeaveBound, PassBarrier, PassOver, Fails, Ack, Halt, Suspend, TypeOK
    <3>2. QED
      BY <1>6, <2>3, <3>1
  <2>4. QED
    BY <2>1, <2>2, <2>3
<1>14. QED
  BY <1>7, <1>8, <1>9, <1>10, <1>11, <1>12, <1>13 DEF Next, Account

\* What a loop relies on about its turns is what the contract of module Turn says.
THEOREM ReliesOnTurns == Spec => KeepsTurns
<1>1. Init => \A g \in Leases : TurnOf(g)!Init
  BY DEF Init, TurnOf!Init, StageOf
<1>2. TypeOK /\ TypeOK' /\ DeliveryInv /\ [Next]_vars
        => [\A g \in Leases : [TurnOf(g)!Next]_(TurnOf(g)!turnVars)]_vars
  BY TurnStep
<1>3. QED
  BY <1>1, <1>2, TypeCorrect, DeliveryInductive, PTL DEF Spec, KeepsTurns

-----------------------------------------------------------------------------
(* The tracker, for every stall interval and every number of deferrals and  *)
(* heartbeats.                                                             *)

\* The tracker's state stays within its types.
THEOREM TrackerTypeCorrect == TrackerSpec => []TrackerTypeOK
<1> USE StallAssumption, ArmsAssumption DEF StallAssumption, ArmsAssumption
<1>1. TrackerInit => TrackerTypeOK
  BY DEF TrackerInit, TrackerTypeOK, Live, Disarmed
<1>2. TrackerTypeOK /\ [TrackerNext]_trackerVars => TrackerTypeOK'
  <2> SUFFICES ASSUME TrackerTypeOK, [TrackerNext]_trackerVars
               PROVE  TrackerTypeOK'
    OBVIOUS
  <2> USE DEF TrackerTypeOK, Live, Terminal, Equivalents, Successes, Failures, Disarmed
  <2>1. CASE OnAdopted
    BY <2>1 DEF OnAdopted, CommitAdoption, Settle
  <2>2. CASE OnDeferred \/ OnDeferredHeartbeat
    BY <2>2 DEF OnDeferred, OnDeferredHeartbeat, ArmWatchdog
  <2>3. CASE OnAbandoned \/ OnFailed \/ OnCancelled \/ Abort
    BY <2>3 DEF OnAbandoned, OnFailed, OnCancelled, Abort, OnEnded, Fail, Settle
  <2>4. CASE DispatchIgnored \/ DispatchRejected \/ DispatchDeferred
    BY <2>4 DEF DispatchIgnored, DispatchRejected, DispatchDeferred, Fail, Settle, ArmWatchdog
  <2>5. ASSUME NEW o \in Equivalents, DispatchCompleted(o)
        PROVE  TrackerTypeOK'
    BY <2>5 DEF DispatchCompleted, CommitAdoption, Settle
  <2>6. CASE Close
    BY <2>6 DEF Close, Settle
  <2>7. CASE Tick
    <3>1. quiet + 1 \in 0 .. StallTicks /\ silence + 1 \in Nat
      BY <2>7 DEF Tick
    <3>2. QED
      BY <2>7, <3>1 DEF Tick
  <2>8. CASE Watchdog
    BY <2>8 DEF Watchdog, Settle
  <2>9. CASE UNCHANGED trackerVars
    BY <2>9 DEF trackerVars
  <2>10. QED
    BY <2>1, <2>2, <2>3, <2>4, <2>5, <2>6, <2>7, <2>8, <2>9 DEF TrackerNext, CoreCalls
<1>3. QED
  BY <1>1, <1>2, PTL DEF TrackerSpec

\* What a step leaves of the story, and that a decided turn stays decided.
LEMMA StoryStep ==
  ASSUME TrackerTypeOK, OneStory, [TrackerNext]_trackerVars
  PROVE  /\ OneStory'
         /\ settled # "open" => settled' = settled /\ commits' = commits
<1> USE DEF TrackerTypeOK, OneStory, AlwaysWatched, Live, Terminal, Equivalents, Successes,
            Failures, Disarmed
<1>1. CASE OnAdopted
  BY <1>1 DEF OnAdopted, CommitAdoption, Settle
<1>2. CASE OnDeferred \/ OnDeferredHeartbeat
  BY <1>2 DEF OnDeferred, OnDeferredHeartbeat, ArmWatchdog
<1>3. CASE OnAbandoned \/ OnFailed \/ OnCancelled \/ Abort
  BY <1>3 DEF OnAbandoned, OnFailed, OnCancelled, Abort, OnEnded, Fail, Settle
<1>4. CASE DispatchIgnored \/ DispatchRejected \/ DispatchDeferred
  BY <1>4 DEF DispatchIgnored, DispatchRejected, DispatchDeferred, Fail, Settle, ArmWatchdog
<1>5. ASSUME NEW o \in Equivalents, DispatchCompleted(o)
      PROVE  /\ OneStory'
             /\ settled # "open" => settled' = settled /\ commits' = commits
  BY <1>5 DEF DispatchCompleted, CommitAdoption, Settle
<1>6. CASE Close
  BY <1>6 DEF Close, Settle
<1>7. CASE Tick
  BY <1>7 DEF Tick
<1>8. CASE Watchdog
  BY <1>8 DEF Watchdog, Settle
<1>9. CASE UNCHANGED trackerVars
  BY <1>9 DEF trackerVars
<1>10. QED
  BY <1>1, <1>2, <1>3, <1>4, <1>5, <1>6, <1>7, <1>8, <1>9 DEF TrackerNext, CoreCalls

\* The memo, the promise, the state and the store always tell the same story of the
\* commit.
THEOREM StoryInductive == TrackerSpec => []OneStory
<1>1. TrackerInit => OneStory
  BY DEF TrackerInit, OneStory, AlwaysWatched, Live, Successes, Equivalents, Disarmed
<1>2. TrackerTypeOK /\ OneStory /\ [TrackerNext]_trackerVars => OneStory'
  BY StoryStep
<1>3. QED
  BY <1>1, <1>2, TrackerTypeCorrect, PTL DEF TrackerSpec

\* The store takes a message at most once, and core runs the model only on a
\* message it has taken.
THEOREM CommitsOnce == TrackerSpec => []CommitOnce
<1>1. OneStory => CommitOnce
  BY DEF OneStory, CommitOnce
<1>2. QED
  BY <1>1, StoryInductive, PTL

\* What the loop is told is what the store holds.
THEOREM SettlesTruthfully == TrackerSpec => []SettledTellsTruth
<1>1. TrackerTypeOK /\ OneStory => SettledTellsTruth
  BY DEF TrackerTypeOK, OneStory, SettledTellsTruth, Successes, Failures, Equivalents
<1>2. QED
  BY <1>1, TrackerTypeCorrect, StoryInductive, PTL

\* An undecided turn always has a timer running.
THEOREM Watched == TrackerSpec => []AlwaysWatched
<1>1. OneStory => AlwaysWatched
  BY DEF OneStory
<1>2. QED
  BY <1>1, StoryInductive, PTL

\* Once decided, a turn stays decided.
THEOREM StaysDecided == TrackerSpec => DecidedForGood
<1>1. TrackerTypeOK /\ OneStory /\ [TrackerNext]_trackerVars
        => [settled # "open" => settled' = settled /\ commits' = commits]_trackerVars
  BY StoryStep
<1>2. QED
  BY <1>1, TrackerTypeCorrect, StoryInductive, PTL DEF TrackerSpec, DecidedForGood

\* The tracker keeps the promise module Turn makes for it.
THEOREM PromiseKept == TrackerSpec => KeepsPromise
<1>1. TrackerInit => Promise!Init
  BY DEF TrackerInit, Promise!Init, Terminal
<1>2. TrackerTypeOK /\ OneStory /\ OneStory' /\ [TrackerNext]_trackerVars
        => [Promise!Next]_(Promise!turnVars)
  <2> SUFFICES ASSUME TrackerTypeOK, OneStory, OneStory', [TrackerNext]_trackerVars
               PROVE  [Promise!Next]_(Promise!turnVars)
    OBVIOUS
  <2>1. (commits = 1 <=> state = "adopted") /\ (commits' = 1 <=> state' = "adopted")
    BY DEF OneStory
  <2>2. \/ state' = state
        \/ state = "pending" /\ state' = "deferred"
        \/ state \in Live /\ state' \in Terminal
    <3> USE DEF TrackerTypeOK, Live, Terminal
    <3>1. CASE OnAdopted \/ \E o \in Equivalents : DispatchCompleted(o)
      BY <3>1 DEF OnAdopted, DispatchCompleted, CommitAdoption, OneStory
    <3>2. CASE OnDeferred \/ OnDeferredHeartbeat \/ DispatchDeferred
      BY <3>2 DEF OnDeferred, OnDeferredHeartbeat, DispatchDeferred
    <3>3. CASE OnAbandoned \/ OnFailed \/ OnCancelled \/ Abort \/ DispatchRejected
      BY <3>3 DEF OnAbandoned, OnFailed, OnCancelled, Abort, OnEnded, DispatchRejected, Fail
    <3>4. CASE DispatchIgnored \/ Close \/ Tick \/ Watchdog \/ UNCHANGED trackerVars
      BY <3>4 DEF DispatchIgnored, Close, Tick, Watchdog, trackerVars
    <3>5. QED
      BY <3>1, <3>2, <3>3, <3>4 DEF TrackerNext, CoreCalls
  <2>3. CASE state' = state
    BY <2>1, <2>3 DEF Promise!turnVars
  <2>4. CASE state = "pending" /\ state' = "deferred"
    BY <2>1, <2>4 DEF Promise!Next, Promise!Defer, Terminal
  <2>5. CASE state \in Live /\ state' = "adopted"
    BY <2>1, <2>5 DEF Promise!Next, Promise!Adopt, Promise!Undecided, Live, Terminal
  <2>6. CASE state \in Live /\ state' \in Terminal \ {"adopted"}
    BY <2>1, <2>6 DEF Promise!Next, Promise!Fail, Promise!Undecided, Live, Terminal
  <2>7. QED
    BY <2>2, <2>3, <2>4, <2>5, <2>6
<1>3. QED
  BY <1>1, <1>2, TrackerTypeCorrect, StoryInductive, PTL DEF TrackerSpec, KeepsPromise, Promise!Spec

\* A running timer shows how long the turn has been silent.
TimerInv == quiet # Disarmed => silence = quiet

\* The watchdog never gives up on a turn that showed life within the stall interval.
THEOREM SparesTheLiving == TrackerSpec => GivesUpOnlyOnSilence
<1> USE StallAssumption DEF StallAssumption, Disarmed
<1>1. TrackerInit => TimerInv
  BY DEF TrackerInit, TimerInv
<1>2. /\ TrackerTypeOK /\ TimerInv /\ [TrackerNext]_trackerVars => TimerInv'
      /\ TrackerTypeOK /\ TimerInv /\ [TrackerNext]_trackerVars
           => [settled = "open" /\ settled' = "watchdog" => silence = StallTicks]_trackerVars
  <2> SUFFICES ASSUME TrackerTypeOK, TimerInv, [TrackerNext]_trackerVars
               PROVE  TimerInv' /\ (settled = "open" /\ settled' = "watchdog" => silence = StallTicks)
    OBVIOUS
  <2> USE DEF TimerInv, TrackerTypeOK
  <2>1. CASE OnAdopted \/ \E o \in Equivalents : DispatchCompleted(o)
    BY <2>1 DEF OnAdopted, DispatchCompleted, CommitAdoption, Settle, Equivalents
  <2>2. CASE OnDeferred \/ OnDeferredHeartbeat \/ DispatchDeferred
    BY <2>2 DEF OnDeferred, OnDeferredHeartbeat, DispatchDeferred, ArmWatchdog
  <2>3. CASE OnAbandoned \/ OnFailed \/ OnCancelled \/ Abort \/ DispatchRejected
    BY <2>3 DEF OnAbandoned, OnFailed, OnCancelled, Abort, OnEnded, DispatchRejected, Fail, Settle
  <2>4. CASE DispatchIgnored \/ Close \/ UNCHANGED trackerVars
    BY <2>4 DEF DispatchIgnored, Close, Settle, trackerVars
  <2>5. CASE Tick
    BY <2>5 DEF Tick
  <2>6. CASE Watchdog
    BY <2>6 DEF Watchdog, Settle
  <2>7. QED
    BY <2>1, <2>2, <2>3, <2>4, <2>5, <2>6 DEF TrackerNext, CoreCalls
<1>3. QED
  BY <1>1, <1>2, TrackerTypeCorrect, PTL DEF TrackerSpec, GivesUpOnlyOnSilence
=============================================================================
