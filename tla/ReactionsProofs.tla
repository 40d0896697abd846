--------------------------- MODULE ReactionsProofs ---------------------------
(***************************************************************************)
(* What holds of the reaction queue for every cap and every stream.         *)
(***************************************************************************)
EXTENDS Reactions, SequenceTheorems, TLAPS

USE DEF Seqs, Fates, Current, Ends, loopVars

\* How long the tail is: the counter knows, and the cap holds.
Counted == pending = Len(queue) /\ pending <= MaxPending

\* The first of the tail has its fate only between its line and its release.
Undelivered(i) == i > 1 \/ stage # "settled"

\* Those of the tail that await their delivery are without a fate, after the line core
\* got last, before the reaction the loop is at, and in the order of the stream.
Waiting ==
  /\ \A i \in 1 .. Len(queue) :
       /\ queue[i] < next
       /\ pc = "gate" => queue[i] < Current
       /\ Undelivered(i) => fate[queue[i]] = "none" /\ queue[i] > line
  /\ \A i, j \in 1 .. Len(queue) : i < j => queue[i] < queue[j]

\* What the loop has not decided is after every line and without a fate.
Undecided ==
  /\ line < next
  /\ pc = "gate" => line < Current /\ fate[Current] = "none"
  /\ \A s \in Seqs : s >= next => fate[s] = "none"
  /\ stage # "queued" => queue # <<>>

ReactionsInv == TypeOK /\ Counted /\ Waiting /\ Undecided

-----------------------------------------------------------------------------
\* The initial states.
LEMMA InitInv == Init => ReactionsInv
BY MaxPendingAssumption, MaxSeqAssumption
   DEF Init, ReactionsInv, TypeOK, Counted, Waiting, Undecided, MaxPendingAssumption, MaxSeqAssumption

\* A reaction that is not admitted leaves the tail as it is.
LEMMA NotAdmitted ==
  ASSUME ReactionsInv, pc = "gate", pc' = "next",
         NEW f \in Fates, fate' = [fate EXCEPT ![next - 1] = f],
         UNCHANGED <<mode, stopped, next, queue, stage, pending, line>>
  PROVE  ReactionsInv'
<1>t. /\ queue \in Seq(1 .. MaxSeq) /\ next \in 1 .. MaxSeq + 1 /\ MaxSeq \in Nat
      /\ fate \in [1 .. MaxSeq -> Fates] /\ line \in 0 .. MaxSeq
  BY MaxSeqAssumption DEF ReactionsInv, TypeOK, MaxSeqAssumption
<1>1. TypeOK' /\ Counted'
  BY <1>t DEF ReactionsInv, TypeOK, Counted
<1>2. \A s \in 1 .. MaxSeq : s # next - 1 => fate'[s] = fate[s]
  BY <1>t
<1>3. Undecided'
  BY <1>2, <1>t DEF ReactionsInv, Undecided
<1>4. Waiting'
  <2>1. \A i \in 1 .. Len(queue) : queue[i] \in 1 .. MaxSeq /\ queue[i] < next - 1
    BY <1>t, ElementOfSeq DEF ReactionsInv, Waiting
  <2>2. \A i \in 1 .. Len(queue) : queue[i] # next - 1
    BY <2>1, <1>t
  <2>3. \A i \in 1 .. Len(queue) : fate'[queue[i]] = fate[queue[i]]
    BY <2>1, <2>2, <1>2
  <2>4. \A i \in 1 .. Len(queue) :
          /\ queue[i] < next
          /\ Undelivered(i) => fate'[queue[i]] = "none" /\ queue[i] > line
    BY <2>3 DEF ReactionsInv, Waiting
  <2>5. \A i, j \in 1 .. Len(queue) : i < j => queue[i] < queue[j]
    BY DEF ReactionsInv, Waiting
  <2>6. \A i : Undelivered(i)' <=> Undelivered(i)
    BY DEF Undelivered
  <2> QED
    BY <2>4, <2>5, <2>6 DEF Waiting
<1> QED
  BY <1>1, <1>3, <1>4 DEF ReactionsInv

\* Every step keeps the invariant.
LEMMA NextInv == ReactionsInv /\ [Next]_vars => ReactionsInv'
<1> SUFFICES ASSUME ReactionsInv, [Next]_vars PROVE ReactionsInv'
  OBVIOUS
<1> USE MaxPendingAssumption, MaxSeqAssumption DEF MaxPendingAssumption, MaxSeqAssumption
<1>t. /\ queue \in Seq(1 .. MaxSeq) /\ Len(queue) \in Nat /\ next \in 1 .. MaxSeq + 1
      /\ pending \in Nat /\ line \in 0 .. MaxSeq /\ MaxPending \in Nat /\ MaxSeq \in Nat
  BY DEF ReactionsInv, TypeOK
<1>1. CASE Take
  <2>1. /\ pc = "next" /\ next <= MaxSeq /\ next' = next + 1
        /\ UNCHANGED <<mode, stopped, queue, stage, pending, line>>
    BY <1>1 DEF Take
  <2>2. \/ \E f \in {"off", "self"} : fate' = [fate EXCEPT ![next] = f] /\ pc' = "next"
        \/ fate' = fate /\ pc' = "gate"
    BY <1>1 DEF Take
  <2>3. TypeOK' /\ Counted'
    <3>1. next \in 1 .. MaxSeq /\ next' \in 1 .. MaxSeq + 1 /\ next' > 1
      BY <2>1, <1>t
    <3>2. fate \in [1 .. MaxSeq -> Fates]
      BY DEF ReactionsInv, TypeOK
    <3>3. fate' \in [1 .. MaxSeq -> Fates]
      BY <3>1, <3>2, <2>2
    <3>4. pc' \in {"next", "gate"}
      BY <2>2
    <3> QED
      BY <3>1, <3>3, <3>4, <2>1 DEF ReactionsInv, TypeOK, Counted
  <2>4. /\ \A s \in 1 .. MaxSeq : s # next => fate'[s] = fate[s]
        /\ pc' = "gate" => fate' = fate
    BY <2>1, <2>2, <1>t DEF ReactionsInv, TypeOK
  <2>c. next' - 1 = next /\ next \in 1 .. MaxSeq
    BY <2>1, <1>t
  <2>5. Undecided'
    <3>1. \A s \in 1 .. MaxSeq : s >= next => fate[s] = "none"
      BY DEF ReactionsInv, Undecided
    <3>2. line < next' /\ line < next' - 1
      BY <2>c, <2>1, <1>t DEF ReactionsInv, Undecided
    <3>3. ASSUME NEW s \in 1 .. MaxSeq, s >= next' PROVE fate'[s] = "none"
      BY <3>1, <3>3, <2>1, <2>4, <1>t
    <3>4. pc' = "gate" => fate'[next' - 1] = "none"
      BY <3>1, <2>c, <2>4, <1>t
    <3>5. stage' # "queued" => queue' # <<>>
      BY <2>1 DEF ReactionsInv, Undecided
    <3> QED
      BY <3>2, <3>3, <3>4, <3>5, <2>1 DEF Undecided
  <2>6. Waiting'
    <3>1. \A i \in 1 .. Len(queue) : queue[i] \in 1 .. MaxSeq /\ queue[i] < next
      BY <1>t, ElementOfSeq DEF ReactionsInv, Waiting
    <3>2. \A i \in 1 .. Len(queue) : fate'[queue[i]] = fate[queue[i]]
      BY <3>1, <2>4, <1>t
    <3>3. \A i \in 1 .. Len(queue) : queue[i] < next' /\ queue[i] < next' - 1
      BY <3>1, <2>c, <2>1, <1>t
    <3>4. \A i \in 1 .. Len(queue) :
            Undelivered(i) => fate'[queue[i]] = "none" /\ queue[i] > line
      BY <3>2 DEF ReactionsInv, Waiting
    <3>5. \A i, j \in 1 .. Len(queue) : i < j => queue[i] < queue[j]
      BY DEF ReactionsInv, Waiting
    <3>6. \A i : Undelivered(i)' <=> Undelivered(i)
      BY <2>1 DEF Undelivered
    <3> QED
      BY <3>3, <3>4, <3>5, <3>6, <2>1 DEF Waiting
  <2> QED
    BY <2>3, <2>5, <2>6 DEF ReactionsInv
<1>2. CASE Refuse
  BY <1>2, NotAdmitted DEF Refuse
<1>3. CASE Admit
  <2>1. CASE pending >= MaxPending
    BY <1>3, <2>1, NotAdmitted DEF Admit
  <2>2. CASE ~(pending >= MaxPending)
    <3>1. /\ pc = "gate" /\ pc' = "next" /\ pending' = pending + 1 /\ queue' = Append(queue, next - 1)
          /\ UNCHANGED <<mode, stopped, next, stage, line, fate>>
      BY <1>3, <2>2 DEF Admit
    <3>2. next - 1 \in 1 .. MaxSeq
      BY <1>t, <3>1 DEF ReactionsInv, TypeOK
    <3>3. /\ queue' \in Seq(1 .. MaxSeq) /\ Len(queue') = Len(queue) + 1
          /\ \A i \in 1 .. Len(queue) : queue'[i] = queue[i]
          /\ queue'[Len(queue) + 1] = next - 1
      BY <3>1, <3>2, <1>t, AppendProperties
    <3>4. TypeOK'
      BY <3>1, <3>3, <1>t DEF ReactionsInv, TypeOK
    <3>5. Counted'
      BY <3>1, <3>3, <1>t, <2>2 DEF ReactionsInv, Counted
    <3>6. Undecided'
      BY <3>1, <3>3, <1>t DEF ReactionsInv, Undecided
    <3>7. Waiting'
      <4>1. ASSUME NEW i \in 1 .. Len(queue')
            PROVE  /\ queue'[i] < next'
                   /\ Undelivered(i)' => fate'[queue'[i]] = "none" /\ queue'[i] > line'
        <5>1. CASE i \in 1 .. Len(queue)
          BY <5>1, <3>1, <3>3, <1>t DEF ReactionsInv, Waiting, Undelivered
        <5>2. CASE i = Len(queue) + 1
          BY <5>2, <3>1, <3>2, <3>3, <1>t DEF ReactionsInv, Undecided
        <5> QED
          BY <5>1, <5>2, <3>3, <1>t
      <4>2. ASSUME NEW i \in 1 .. Len(queue'), NEW j \in 1 .. Len(queue'), i < j
            PROVE  queue'[i] < queue'[j]
        <5>1. i \in 1 .. Len(queue) /\ queue'[i] = queue[i] /\ queue[i] < next - 1
          BY <4>2, <3>1, <3>3, <1>t DEF ReactionsInv, Waiting
        <5>2. CASE j \in 1 .. Len(queue)
          BY <5>1, <5>2, <4>2, <3>3 DEF ReactionsInv, Waiting
        <5>3. CASE j = Len(queue) + 1
          BY <5>1, <5>3, <3>3
        <5> QED
          BY <5>2, <5>3, <3>3, <1>t
      <4>3. pc' # "gate"
        BY <3>1
      <4> QED
        BY <4>1, <4>2, <4>3 DEF Waiting, Undelivered
    <3> QED
      BY <3>4, <3>5, <3>6, <3>7 DEF ReactionsInv
  <2> QED
    BY <2>1, <2>2
<1>4. CASE LookUp
  BY <1>4, <1>t DEF LookUp, ReactionsInv, TypeOK, Counted, Waiting, Undecided, Undelivered
<1>5. CASE Deliver
  <2>1. /\ queue # <<>> /\ stage = "asked" /\ stage' = "settled"
        /\ UNCHANGED <<mode, stopped, next, pc, queue, pending>>
    BY <1>5 DEF Deliver
  <2>2. /\ Head(queue) = queue[1] /\ Head(queue) \in 1 .. MaxSeq /\ 1 \in 1 .. Len(queue)
    BY <2>1, <1>t, HeadTailProperties, EmptySeq
  <2>3. PICK f \in Fates : fate' = [fate EXCEPT ![Head(queue)] = f]
    BY <1>5 DEF Deliver, SkipReason
  <2>4. line' = line \/ line' = Head(queue)
    BY <1>5 DEF Deliver
  <2>5. TypeOK'
    BY <2>1, <2>2, <2>3, <2>4, <1>t DEF ReactionsInv, TypeOK
  <2>6. Counted'
    BY <2>1 DEF ReactionsInv, Counted
  <2>7. /\ Head(queue) < next
        /\ pc = "gate" => Head(queue) < next - 1
    BY <2>2 DEF ReactionsInv, Waiting
  <2>8. Undecided'
    BY <2>1, <2>2, <2>3, <2>4, <2>7, <1>t DEF ReactionsInv, Undecided, TypeOK
  <2>9. Waiting'
    <3>1. ASSUME NEW i \in 1 .. Len(queue), i > 1
          PROVE  fate'[queue[i]] = "none" /\ queue[i] > line'
      <4>1. queue[1] < queue[i] /\ queue[i] \in 1 .. MaxSeq
        BY <3>1, <2>2, <1>t, ElementOfSeq DEF ReactionsInv, Waiting
      <4>2. fate[queue[i]] = "none" /\ queue[i] > line
        BY <3>1 DEF ReactionsInv, Waiting, Undelivered
      <4> QED
        BY <4>1, <4>2, <2>2, <2>3, <2>4, <1>t DEF ReactionsInv, TypeOK
    <3> QED
      BY <3>1, <2>1, <1>t DEF ReactionsInv, Waiting, Undelivered
  <2> QED
    BY <2>5, <2>6, <2>8, <2>9 DEF ReactionsInv
<1>6. CASE Release
  <2>1. /\ queue # <<>> /\ stage = "settled" /\ stage' = "queued"
        /\ pending' = pending - 1 /\ queue' = Tail(queue)
        /\ UNCHANGED <<mode, stopped, next, pc, line, fate>>
    BY <1>6 DEF Release
  <2>2. /\ Len(queue) \in Nat \ {0} /\ queue' \in Seq(1 .. MaxSeq) /\ Len(queue') = Len(queue) - 1
        /\ \A i \in 1 .. Len(queue') : queue'[i] = queue[i + 1]
    BY <2>1, <1>t, HeadTailProperties, EmptySeq
  <2>3. TypeOK' /\ Counted' /\ Undecided'
    BY <2>1, <2>2, <1>t DEF ReactionsInv, TypeOK, Counted, Undecided
  <2>4. Waiting'
    <3>1. \A i \in 1 .. Len(queue') : i + 1 \in 1 .. Len(queue) /\ i + 1 > 1
      BY <2>2, <1>t
    <3> QED
      BY <3>1, <2>1, <2>2, <1>t DEF ReactionsInv, Waiting, Undelivered
  <2> QED
    BY <2>3, <2>4 DEF ReactionsInv
<1>7. CASE Stop
  BY <1>7, <1>t DEF Stop, ReactionsInv, TypeOK, Counted, Waiting, Undecided, Undelivered
<1>8. CASE UNCHANGED vars
  BY <1>8 DEF vars, ReactionsInv, TypeOK, Counted, Waiting, Undecided, Undelivered
<1> QED
  BY <1>1, <1>2, <1>3, <1>4, <1>5, <1>6, <1>7, <1>8 DEF Next, Loop, Beside

\* The invariant holds in every state.
LEMMA Inductive == Spec => []ReactionsInv
BY InitInv, NextInv, PTL DEF Spec

-----------------------------------------------------------------------------
\* Type correctness of the stream, the loop, the tail and the fates.
THEOREM TypeCorrect == Spec => []TypeOK
<1>1. ReactionsInv => TypeOK
  BY DEF ReactionsInv
<1> QED
  BY <1>1, Inductive, PTL

\* The cap holds, and the counter is the length of the tail (reactions.ts:196-204).
THEOREM StaysBounded == Spec => []PendingBounded
<1>1. ReactionsInv => PendingBounded
  BY DEF ReactionsInv, Counted, PendingBounded
<1> QED
  BY <1>1, Inductive, PTL

\* The reaction in delivery is after the last line, and has no fate.
LEMMA FirstIsNew ==
  ReactionsInv /\ queue # <<>> /\ stage = "asked"
    => /\ Head(queue) \in Seqs /\ Head(queue) > line /\ fate[Head(queue)] = "none"
<1> SUFFICES ASSUME ReactionsInv, queue # <<>>, stage = "asked"
             PROVE  Head(queue) \in Seqs /\ Head(queue) > line /\ fate[Head(queue)] = "none"
  OBVIOUS
<1>1. queue \in Seq(1 .. MaxSeq)
  BY DEF ReactionsInv, TypeOK
<1>2. Head(queue) = queue[1] /\ Head(queue) \in 1 .. MaxSeq /\ Len(queue) \in Nat \ {0}
  <2>1. Head(queue) \in 1 .. MaxSeq /\ Len(queue) \in Nat \ {0}
    BY <1>1, HeadTailProperties, EmptySeq
  <2>2. Head(queue) = queue[1]
    BY <2>1
  <2>3. QED
    BY <2>1, <2>2
<1>3. 1 \in 1 .. Len(queue) /\ Undelivered(1)
  BY <1>2 DEF Undelivered
<1> QED
  BY <1>2, <1>3 DEF ReactionsInv, Waiting

\* Core gets the lines in the order of the stream.
THEOREM KeepsOrder == Spec => LinesInOrder
<1>1. ReactionsInv /\ [Next]_vars => [line' # line => line' > line]_vars
  <2> SUFFICES ASSUME ReactionsInv, Next, line' # line PROVE line' > line
    BY DEF vars
  <2>1. Deliver
    BY DEF Next, Loop, Beside, Take, Refuse, Admit, LookUp, Release, Stop
  <2> QED
    BY <2>1, FirstIsNew DEF Deliver
<1> QED
  BY <1>1, Inductive, PTL DEF Spec, LinesInOrder

\* No line after the account stopped.
THEOREM EndsWithTheAccount == Spec => NoLineAfterStop
<1>1. [Next]_vars => [stopped = "yes" => line' = line]_vars
  <2> SUFFICES ASSUME Next, stopped = "yes" PROVE line' = line
    BY DEF vars
  <2>1. CASE Deliver
    BY <2>1 DEF Deliver, SkipReason
  <2> QED
    BY <2>1 DEF Next, Loop, Beside, Take, Refuse, Admit, LookUp, Release, Stop
<1> QED
  BY <1>1, PTL DEF Spec, NoLineAfterStop

\* What became of a reaction never changes.
THEOREM DealtWithOnce == Spec => FateSealed
<1>1. ReactionsInv /\ [Next]_vars
        => [\A s \in Seqs : fate[s] # "none" => fate'[s] = fate[s]]_vars
  <2> SUFFICES ASSUME ReactionsInv, Next, NEW s \in Seqs, fate[s] # "none"
               PROVE  fate'[s] = fate[s]
    BY DEF vars
  <2>t. /\ fate \in [1 .. MaxSeq -> Fates] /\ next \in 1 .. MaxSeq + 1 /\ MaxSeq \in Nat
    BY MaxSeqAssumption DEF ReactionsInv, TypeOK, MaxSeqAssumption
  <2>1. CASE Take
    BY <2>1, <2>t DEF Take, ReactionsInv, Undecided
  <2>2. CASE Refuse \/ Admit
    BY <2>2, <2>t DEF Refuse, Admit, ReactionsInv, Undecided
  <2>3. CASE Deliver
    BY <2>3, <2>t, FirstIsNew DEF Deliver
  <2>4. CASE LookUp \/ Release \/ Stop
    BY <2>4 DEF LookUp, Release, Stop
  <2> QED
    BY <2>1, <2>2, <2>3, <2>4 DEF Next, Loop, Beside
<1> QED
  BY <1>1, Inductive, PTL DEF Spec, FateSealed
=============================================================================
