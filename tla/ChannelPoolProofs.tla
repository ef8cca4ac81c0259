-------------------------- MODULE ChannelPoolProofs -------------------------
(***************************************************************************)
(* Proofs about ChannelPool for every set of threads and every pool size:  *)
(* the bookkeeping of _count, the two assertions of the code and the       *)
(* exclusive use of channels.                                              *)
(***************************************************************************)
EXTENDS ChannelPool, FiniteSetTheorems, SequenceTheorems, TLAPS

CountedSteps == {"decrement", "enqueue", "undo"}
HoldingSteps == {"decrement", "publish", "increment", "enqueue", "undo"}

(* A thread has a channel exactly between taking one and giving it up.     *)
HeldWhenHolding == \A t \in Threads : held[t] # Nobody <=> pc[t] \in HoldingSteps

(* The inductive invariant.                                                *)
IInv == TypeOK /\ CountIsExact /\ PoolWithinSize /\ HeldWhenHolding /\ ChannelsExclusive

-----------------------------------------------------------------------------
(* One thread takes a step: the number of threads whose step lies in S     *)
(* grows by one if the new step does, and shrinks by one if the old did.   *)
LEMMA OneStepCardinality ==
    ASSUME NEW f \in [Threads -> Steps], NEW t \in Threads, NEW s \in Steps, NEW S
    PROVE  LET before == {u \in Threads : f[u] \in S}
               after  == {u \in Threads : [f EXCEPT ![t] = s][u] \in S}
           IN  /\ Cardinality(before) \in Nat
               /\ Cardinality(after) = Cardinality(before)
                      + (IF s \in S THEN 1 ELSE 0) - (IF f[t] \in S THEN 1 ELSE 0)
<1> DEFINE before == {u \in Threads : f[u] \in S}
           after  == {u \in Threads : [f EXCEPT ![t] = s][u] \in S}
<1>1. IsFiniteSet(before)
  BY ThreadsAssumption, before \in SUBSET Threads, FS_Subset
<1>2. Cardinality(before) \in Nat
  BY <1>1, FS_CardinalityType
<1>3. CASE s \in S
  <2>1. after = before \union {t}
    BY <1>3
  <2>2. t \in before <=> f[t] \in S
    OBVIOUS
  <2>3. Cardinality(after) = IF t \in before THEN Cardinality(before) ELSE Cardinality(before) + 1
    BY <1>1, <2>1, FS_AddElement
  <2> QED BY <1>2, <1>3, <2>2, <2>3
<1>4. CASE s \notin S
  <2>1. after = before \ {t}
    BY <1>4
  <2>2. t \in before <=> f[t] \in S
    OBVIOUS
  <2>3. Cardinality(after) = IF t \in before THEN Cardinality(before) - 1 ELSE Cardinality(before)
    BY <1>1, <2>1, FS_RemoveElement
  <2> QED BY <1>2, <1>4, <2>2, <2>3
<1> QED BY <1>3, <1>4, <1>2

(* The threads that will enqueue are among those counted.                  *)
LEMMA EnqueuersCounted ==
    ASSUME NEW f \in [Threads -> Steps]
    PROVE  /\ Cardinality({u \in Threads : f[u] = "enqueue"}) \in Nat
           /\ Cardinality({u \in Threads : f[u] \in CountedSteps}) \in Nat
           /\ Cardinality({u \in Threads : f[u] = "enqueue"})
                  <= Cardinality({u \in Threads : f[u] \in CountedSteps})
<1> DEFINE E == {u \in Threads : f[u] = "enqueue"}
           C == {u \in Threads : f[u] \in CountedSteps}
<1>1. IsFiniteSet(C)
  BY ThreadsAssumption, C \in SUBSET Threads, FS_Subset
<1>2. E \in SUBSET C
  BY DEF CountedSteps
<1>3. IsFiniteSet(E) /\ Cardinality(E) <= Cardinality(C)
  BY <1>1, <1>2, FS_Subset
<1> QED BY <1>1, <1>3, FS_CardinalityType

-----------------------------------------------------------------------------
(* Type correctness and who holds a channel, by induction.                 *)
LEMMA ShapeInit == Init => TypeOK /\ HeldWhenHolding
  BY ThreadsAssumption, SizeAssumption
  DEF Init, TypeOK, Steps, HeldWhenHolding, HoldingSteps

LEMMA ShapeNext == TypeOK /\ HeldWhenHolding /\ [Next]_vars => TypeOK' /\ HeldWhenHolding'
<1> SUFFICES ASSUME TypeOK, HeldWhenHolding, [Next]_vars
             PROVE  TypeOK' /\ HeldWhenHolding'
  OBVIOUS
<1> USE ChannelsAssumption DEF TypeOK, Steps, HeldWhenHolding, HoldingSteps
<1>1. CASE UNCHANGED vars
  BY <1>1 DEF vars
<1>2. CASE Dispose
  BY <1>2 DEF Dispose
<1>3. CASE Drain
  BY <1>3, HeadTailProperties DEF Drain
<1>4. CASE DrainDone
  BY <1>4 DEF DrainDone
<1>5. ASSUME NEW t \in Threads, Step(t)
      PROVE  TypeOK' /\ HeldWhenHolding'
  <2>1. CASE EnterLock(t)
    BY <2>1 DEF EnterLock
  <2>2. CASE SpinEnds(t)
    BY <2>2 DEF SpinEnds
  <2>3. CASE Dequeue(t)
    BY <2>3, HeadTailProperties DEF Dequeue
  <2>4. CASE Decrement(t)
    BY <2>4 DEF Decrement
  <2>5. CASE CreateModel(t)
    BY <2>5 DEF CreateModel
  <2>6. CASE CreateModelThrows(t)
    BY <2>6 DEF CreateModelThrows
  <2>7. CASE Publish(t)
    BY <2>7 DEF Publish
  <2>8. CASE Increment(t)
    BY <2>8 DEF Increment
  <2>9. CASE Enqueue(t)
    BY <2>9 DEF Enqueue
  <2>10. CASE Undo(t)
    BY <2>10 DEF Undo
  <2> QED
    BY <1>5, <2>1, <2>2, <2>3, <2>4, <2>5, <2>6, <2>7, <2>8, <2>9, <2>10 DEF Step
<1> QED BY <1>1, <1>2, <1>3, <1>4, <1>5 DEF Next

-----------------------------------------------------------------------------
(* _count is exact: a thread that enters or leaves the counted steps does  *)
(* so together with its change of _count or of _pool.                      *)
LEMMA CountInit == Init => CountIsExact
<1> SUFFICES ASSUME Init PROVE CountIsExact
  OBVIOUS
<1>1. Counted = {}
  BY DEF Init, Counted
<1>2. Len(pool) = 0
  BY DEF Init
<1> QED BY <1>1, <1>2, FS_EmptySet DEF Init, CountIsExact

LEMMA CountedChange ==
    ASSUME TypeOK, NEW t \in Threads, NEW s \in Steps, pc' = [pc EXCEPT ![t] = s]
    PROVE  Cardinality(Counted') = Cardinality(Counted)
               + (IF s \in CountedSteps THEN 1 ELSE 0)
               - (IF pc[t] \in CountedSteps THEN 1 ELSE 0)
<1>1. Counted = {u \in Threads : pc[u] \in CountedSteps}
  BY DEF Counted, CountedSteps
<1>2. Counted' = {u \in Threads : [pc EXCEPT ![t] = s][u] \in CountedSteps}
  BY DEF Counted, CountedSteps
<1>3. pc \in [Threads -> Steps]
  BY DEF TypeOK
<1> QED BY <1>1, <1>2, <1>3, OneStepCardinality

LEMMA CountNext == TypeOK /\ CountIsExact /\ [Next]_vars => CountIsExact'
<1> SUFFICES ASSUME TypeOK, CountIsExact, [Next]_vars
             PROVE  CountIsExact'
  OBVIOUS
<1>0. /\ pc \in [Threads -> Steps]
      /\ Len(pool) \in Nat
      /\ Cardinality(Counted) \in Nat
      /\ count = Len(pool) + Cardinality(Counted) + drained
      /\ drained \in Nat
  <2>1. Len(pool) \in Nat
    BY LenProperties DEF TypeOK
  <2>2. Cardinality(Counted) \in Nat
    BY EnqueuersCounted DEF TypeOK, Counted, CountedSteps
  <2> QED BY <2>1, <2>2 DEF TypeOK, CountIsExact
<1>1. CASE UNCHANGED vars
  BY <1>1 DEF vars, CountIsExact, Counted
<1>2. CASE Dispose
  BY <1>2 DEF Dispose, CountIsExact, Counted
<1>3. CASE Drain
  <2>1. Len(pool') = Len(pool) - 1
    BY <1>3, HeadTailProperties DEF Drain, TypeOK
  <2>2. Counted' = Counted /\ count' = count /\ drained' = drained + 1
    BY <1>3 DEF Drain, Counted
  <2> QED BY <1>0, <2>1, <2>2 DEF CountIsExact
<1>4. CASE DrainDone
  BY <1>4 DEF DrainDone, CountIsExact, Counted
<1>5. ASSUME NEW t \in Threads, Step(t)
      PROVE  CountIsExact'
  <2> DEFINE In(s) == IF s \in CountedSteps THEN 1 ELSE 0
  <2>0. \A s \in Steps : pc' = [pc EXCEPT ![t] = s] =>
            Cardinality(Counted') = Cardinality(Counted) + In(s) - In(pc[t])
    BY CountedChange
  <2>1. CASE EnterLock(t)
    <3>1. pc' = [pc EXCEPT ![t] = "spin"] /\ drained' = drained
          /\ pc[t] = "lock" /\ UNCHANGED <<count, pool>>
      BY <2>1 DEF EnterLock, Steps
    <3>3. Cardinality(Counted') = Cardinality(Counted)
      BY <1>0, <2>0, <3>1 DEF Steps, CountedSteps
    <3> QED BY <1>0, <3>1, <3>3 DEF CountIsExact
  <2>2. CASE SpinEnds(t)
    <3>1. pc' = [pc EXCEPT ![t] = "dequeue"] /\ drained' = drained
          /\ pc[t] = "spin" /\ UNCHANGED <<count, pool>>
      BY <2>2 DEF SpinEnds, Steps
    <3>3. Cardinality(Counted') = Cardinality(Counted)
      BY <1>0, <2>0, <3>1 DEF Steps, CountedSteps
    <3> QED BY <1>0, <3>1, <3>3 DEF CountIsExact
  <2>3. CASE Dequeue(t)
    <3>1. pc' = [pc EXCEPT ![t] = "decrement"] /\ drained' = drained
          /\ pc[t] = "dequeue" /\ count' = count
      BY <2>3 DEF Dequeue, Steps
    <3>2. Len(pool') = Len(pool) - 1
      BY <2>3, HeadTailProperties DEF Dequeue, TypeOK
    <3>3. Cardinality(Counted') = Cardinality(Counted) + 1
      BY <1>0, <2>0, <3>1 DEF Steps, CountedSteps
    <3> QED BY <1>0, <3>1, <3>2, <3>3 DEF CountIsExact
  <2>4. CASE Decrement(t)
    <3>1. pc' = [pc EXCEPT ![t] = "publish"] /\ drained' = drained
          /\ pc[t] = "decrement" /\ count' = count - 1 /\ pool' = pool
      BY <2>4 DEF Decrement, Steps
    <3>3. Cardinality(Counted') = Cardinality(Counted) - 1
      BY <1>0, <2>0, <3>1 DEF Steps, CountedSteps
    <3> QED BY <1>0, <3>1, <3>3 DEF CountIsExact
  <2>5. CASE CreateModel(t)
    <3>1. pc' = [pc EXCEPT ![t] = "publish"] /\ drained' = drained
          /\ pc[t] = "dequeue" /\ UNCHANGED <<count, pool>>
      BY <2>5 DEF CreateModel, Steps
    <3>3. Cardinality(Counted') = Cardinality(Counted)
      BY <1>0, <2>0, <3>1 DEF Steps, CountedSteps
    <3> QED BY <1>0, <3>1, <3>3 DEF CountIsExact
  <2>6. CASE CreateModelThrows(t)
    <3>1. pc' = [pc EXCEPT ![t] = "lock"] /\ drained' = drained
          /\ pc[t] = "dequeue" /\ UNCHANGED <<count, pool>>
      BY <2>6 DEF CreateModelThrows, Steps
    <3>3. Cardinality(Counted') = Cardinality(Counted)
      BY <1>0, <2>0, <3>1 DEF Steps, CountedSteps
    <3> QED BY <1>0, <3>1, <3>3 DEF CountIsExact
  <2>7. CASE Publish(t)
    <3>1. pc' = [pc EXCEPT ![t] = "increment"] /\ drained' = drained
          /\ pc[t] = "publish" /\ UNCHANGED <<count, pool>>
      BY <2>7 DEF Publish, Steps
    <3>3. Cardinality(Counted') = Cardinality(Counted)
      BY <1>0, <2>0, <3>1 DEF Steps, CountedSteps
    <3> QED BY <1>0, <3>1, <3>3 DEF CountIsExact
  <2>8. CASE Increment(t)
    <3>1. PICK s \in {"enqueue", "undo"} : pc' = [pc EXCEPT ![t] = s] /\ drained' = drained
      BY <2>8 DEF Increment
    <3>2. pc[t] = "increment" /\ count' = count + 1 /\ pool' = pool
      BY <2>8 DEF Increment
    <3>3. s \in Steps /\ s \in CountedSteps /\ pc[t] \notin CountedSteps
      BY <3>2 DEF CountedSteps, Steps
    <3>4. In(s) = 1 /\ In(pc[t]) = 0
      BY <3>3
    <3>5. Cardinality(Counted') = Cardinality(Counted) + In(s) - In(pc[t])
      BY <2>0, <3>1, <3>3
    <3>6. Cardinality(Counted') = Cardinality(Counted) + 1
      BY <1>0, <3>4, <3>5
    <3> QED BY <1>0, <3>1, <3>2, <3>6 DEF CountIsExact
  <2>9. CASE Enqueue(t)
    <3>1. pc' = [pc EXCEPT ![t] = "lock"] /\ drained' = drained
          /\ pc[t] = "enqueue" /\ count' = count
      BY <2>9 DEF Enqueue, Steps
    <3>2. Len(pool') = Len(pool) + 1
      BY <2>9 DEF Enqueue, TypeOK
    <3>3. Cardinality(Counted') = Cardinality(Counted) - 1
      BY <1>0, <2>0, <3>1 DEF Steps, CountedSteps
    <3> QED BY <1>0, <3>1, <3>2, <3>3 DEF CountIsExact
  <2>10. CASE Undo(t)
    <3>1. pc' = [pc EXCEPT ![t] = "lock"] /\ drained' = drained
          /\ pc[t] = "undo" /\ count' = count - 1 /\ pool' = pool
      BY <2>10 DEF Undo, Steps
    <3>3. Cardinality(Counted') = Cardinality(Counted) - 1
      BY <1>0, <2>0, <3>1 DEF Steps, CountedSteps
    <3> QED BY <1>0, <3>1, <3>3 DEF CountIsExact
  <2> QED
    BY <1>5, <2>1, <2>2, <2>3, <2>4, <2>5, <2>6, <2>7, <2>8, <2>9, <2>10 DEF Step
<1> QED BY <1>1, <1>2, <1>3, <1>4, <1>5 DEF Next

-----------------------------------------------------------------------------
(* The pool stays within its size: Increment looks at _count after adding  *)
(* to it, and _count is never less than what is, or will be, in the pool.  *)
LEMMA PoolInit == Init => PoolWithinSize
<1> SUFFICES ASSUME Init PROVE PoolWithinSize
  OBVIOUS
<1>1. {t \in Threads : pc[t] = "enqueue"} = {}
  BY DEF Init
<1>2. Len(pool) = 0 /\ maxSize = PoolSize
  BY DEF Init
<1> QED BY <1>1, <1>2, FS_EmptySet, SizeAssumption DEF PoolWithinSize

EnqueueStep == {"enqueue"}

LEMMA EnqueuersChange ==
    ASSUME TypeOK, NEW t \in Threads, NEW s \in Steps, pc' = [pc EXCEPT ![t] = s]
    PROVE  Cardinality({u \in Threads : pc'[u] = "enqueue"}) =
               Cardinality({u \in Threads : pc[u] = "enqueue"})
               + (IF s = "enqueue" THEN 1 ELSE 0) - (IF pc[t] = "enqueue" THEN 1 ELSE 0)
<1>1. {u \in Threads : pc[u] = "enqueue"} = {u \in Threads : pc[u] \in EnqueueStep}
  BY DEF EnqueueStep
<1>2. {u \in Threads : pc'[u] = "enqueue"} =
          {u \in Threads : [pc EXCEPT ![t] = s][u] \in EnqueueStep}
  BY DEF EnqueueStep
<1>3. pc \in [Threads -> Steps]
  BY DEF TypeOK
<1>4. /\ s = "enqueue" <=> s \in EnqueueStep
      /\ pc[t] = "enqueue" <=> pc[t] \in EnqueueStep
  BY DEF EnqueueStep
<1> QED BY <1>1, <1>2, <1>3, <1>4, OneStepCardinality

LEMMA PoolNext ==
    TypeOK /\ CountIsExact' /\ TypeOK' /\ PoolWithinSize /\ [Next]_vars => PoolWithinSize'
<1> SUFFICES ASSUME TypeOK, TypeOK', CountIsExact', PoolWithinSize, [Next]_vars
             PROVE  PoolWithinSize'
  OBVIOUS
<1> DEFINE Enqueuers == {u \in Threads : pc[u] = "enqueue"}
<1>0. /\ Len(pool) \in Nat /\ Len(pool') \in Nat
      /\ Cardinality(Enqueuers) \in Nat /\ Cardinality(Enqueuers') \in Nat
      /\ maxSize \in Nat
  <2>1. Len(pool) \in Nat /\ Len(pool') \in Nat
    BY LenProperties DEF TypeOK
  <2>2. Cardinality(Enqueuers) \in Nat /\ Cardinality(Enqueuers') \in Nat
    BY EnqueuersCounted DEF TypeOK
  <2>3. maxSize \in Nat
    BY SizeAssumption DEF TypeOK
  <2> QED BY <2>1, <2>2, <2>3
<1>1. CASE UNCHANGED vars
  BY <1>1 DEF vars, PoolWithinSize
<1>2. CASE Dispose
  BY <1>2 DEF Dispose, PoolWithinSize
<1>3. CASE Drain
  <2>1. Len(pool') = Len(pool) - 1
    BY <1>3, HeadTailProperties DEF Drain, TypeOK
  <2>2. UNCHANGED <<pc, maxSize>>
    BY <1>3 DEF Drain
  <2>3. Cardinality(Enqueuers') = Cardinality(Enqueuers)
    BY <2>2
  <2> QED BY <1>0, <2>1, <2>2, <2>3 DEF PoolWithinSize
<1>4. CASE DrainDone
  BY <1>4 DEF DrainDone, PoolWithinSize
<1>5. ASSUME NEW t \in Threads, Step(t)
      PROVE  PoolWithinSize'
  <2>0. \A s \in Steps : pc' = [pc EXCEPT ![t] = s] =>
            Cardinality(Enqueuers') = Cardinality(Enqueuers)
                + (IF s = "enqueue" THEN 1 ELSE 0) - (IF pc[t] = "enqueue" THEN 1 ELSE 0)
    BY EnqueuersChange
  (* Every step but Increment keeps the sum of the pool and of the         *)
  (* enqueuers, or lessens it.                                             *)
  <2>1. ASSUME NEW s \in Steps, pc' = [pc EXCEPT ![t] = s], s # "enqueue",
               pc[t] # "enqueue", Len(pool') <= Len(pool), maxSize' = maxSize
        PROVE  PoolWithinSize'
    <3>1. Cardinality(Enqueuers') = Cardinality(Enqueuers) + 0 - 0
      BY <2>0, <2>1
    <3>2. Cardinality(Enqueuers') = Cardinality(Enqueuers)
      BY <1>0, <3>1
    <3> QED BY <1>0, <2>1, <3>2 DEF PoolWithinSize
  <2>2. CASE EnterLock(t) \/ SpinEnds(t) \/ Decrement(t) \/ CreateModel(t)
             \/ CreateModelThrows(t) \/ Publish(t) \/ Undo(t)
    <3>1. \E s \in Steps : pc' = [pc EXCEPT ![t] = s] /\ s # "enqueue"
      BY <2>2 DEF EnterLock, SpinEnds, Decrement, CreateModel, CreateModelThrows,
                  Publish, Undo, Steps
    <3>2. pc[t] # "enqueue" /\ pool' = pool /\ maxSize' = maxSize
      BY <2>2 DEF EnterLock, SpinEnds, Decrement, CreateModel, CreateModelThrows,
                  Publish, Undo
    <3>3. PICK s \in Steps : pc' = [pc EXCEPT ![t] = s] /\ s # "enqueue"
      BY <3>1
    <3>4. Len(pool') <= Len(pool)
      BY <1>0, <3>2
    <3> QED BY <2>1, <3>2, <3>3, <3>4
  <2>3. CASE Dequeue(t)
    <3>1. Len(pool') = Len(pool) - 1
      BY <2>3, HeadTailProperties DEF Dequeue, TypeOK
    <3>2. pc' = [pc EXCEPT ![t] = "decrement"] /\ pc[t] = "dequeue" /\ maxSize' = maxSize
      BY <2>3 DEF Dequeue
    <3> QED BY <1>0, <2>1, <3>1, <3>2 DEF Steps
  <2>4. CASE Enqueue(t)
    <3>1. Len(pool') = Len(pool) + 1
      BY <2>4 DEF Enqueue, TypeOK
    <3>2. pc' = [pc EXCEPT ![t] = "lock"] /\ pc[t] = "enqueue" /\ maxSize' = maxSize
      BY <2>4 DEF Enqueue
    <3>3. Cardinality(Enqueuers') = Cardinality(Enqueuers) - 1
      BY <1>0, <2>0, <3>2 DEF Steps
    <3> QED BY <1>0, <3>1, <3>2, <3>3 DEF PoolWithinSize
  <2>5. CASE Increment(t)
    <3>1. pc[t] = "increment" /\ pool' = pool /\ maxSize' = maxSize
      BY <2>5 DEF Increment
    <3>2. CASE count' <= maxSize
      <4>1. Cardinality(Enqueuers') <= Cardinality(Counted') /\ Cardinality(Counted') \in Nat
        BY EnqueuersCounted DEF TypeOK, Counted, CountedSteps
      <4>2. count' = Len(pool') + Cardinality(Counted') + drained' /\ drained' \in Nat
        BY DEF CountIsExact, TypeOK
      <4> QED BY <1>0, <3>1, <3>2, <4>1, <4>2 DEF PoolWithinSize
    <3>3. CASE ~(count' <= maxSize)
      <4>1. pc' = [pc EXCEPT ![t] = "undo"]
        BY <2>5, <3>3 DEF Increment
      <4> QED BY <1>0, <2>1, <3>1, <4>1 DEF Steps
    <3> QED BY <3>2, <3>3
  <2> QED BY <1>5, <2>2, <2>3, <2>4, <2>5 DEF Step
<1> QED BY <1>1, <1>2, <1>3, <1>4, <1>5 DEF Next

-----------------------------------------------------------------------------
(* Channels are not shared: a channel moves from the pool to one thread by *)
(* the dequeue, and back by the enqueue of the thread that has it.         *)
LEMMA ExclusiveInit == Init => ChannelsExclusive
  BY DEF Init, ChannelsExclusive, InPool

LEMMA ExclusiveNext ==
    TypeOK /\ HeldWhenHolding /\ ChannelsExclusive /\ [Next]_vars => ChannelsExclusive'
<1> SUFFICES ASSUME TypeOK, HeldWhenHolding, ChannelsExclusive, [Next]_vars
             PROVE  ChannelsExclusive'
  OBVIOUS
<1> USE ChannelsAssumption DEF TypeOK, ChannelsExclusive, InPool
(* Taking the head leaves a part of the pool, without the head.            *)
<1>0. ASSUME pool # <<>>
      PROVE  /\ \A i \in DOMAIN Tail(pool) : i + 1 \in DOMAIN pool /\ Tail(pool)[i] = pool[i + 1]
             /\ \A i \in DOMAIN Tail(pool) : Tail(pool)[i] # Head(pool)
             /\ Head(pool) \in Channels /\ Head(pool) = pool[1] /\ 1 \in DOMAIN pool
  BY <1>0
<1>1. CASE UNCHANGED vars
  BY <1>1 DEF vars
<1>2. CASE Dispose \/ DrainDone
  BY <1>2 DEF Dispose, DrainDone
<1>3. CASE Drain
  BY <1>0, <1>3 DEF Drain
<1>4. ASSUME NEW t \in Threads, Step(t)
      PROVE  ChannelsExclusive'
  <2>1. CASE EnterLock(t) \/ SpinEnds(t) \/ Decrement(t) \/ CreateModelThrows(t)
             \/ Publish(t) \/ Increment(t)
    BY <2>1 DEF EnterLock, SpinEnds, Decrement, CreateModelThrows, Publish, Increment
  <2>2. CASE Dequeue(t)
    <3>1. held' = [held EXCEPT ![t] = Head(pool)] /\ pool' = Tail(pool) /\ pool # <<>>
      BY <2>2 DEF Dequeue
    <3>2. \A u \in Threads : held[u] # Head(pool)
      BY <1>0, <3>1
    <3> QED BY <1>0, <3>1, <3>2
  <2>3. CASE CreateModel(t)
    BY <2>3 DEF CreateModel, InUse
  <2>4. CASE Enqueue(t)
    <3>1. held' = [held EXCEPT ![t] = Nobody] /\ pool' = Append(pool, held[t])
      BY <2>4 DEF Enqueue
    <3>2. held[t] \in Channels
      BY <2>4 DEF Enqueue, HeldWhenHolding, HoldingSteps
    <3>3. /\ DOMAIN pool' = 1 .. Len(pool) + 1 /\ DOMAIN pool = 1 .. Len(pool)
          /\ Len(pool) \in Nat
          /\ \A i \in 1 .. Len(pool) : pool'[i] = pool[i]
          /\ pool'[Len(pool) + 1] = held[t]
      BY <3>1, <3>2
    <3> QED BY <3>1, <3>2, <3>3
  <2>5. CASE Undo(t)
    BY <2>5 DEF Undo
  <2> QED BY <1>4, <2>1, <2>2, <2>3, <2>4, <2>5 DEF Step
<1> QED BY <1>1, <1>2, <1>3, <1>4 DEF Next

-----------------------------------------------------------------------------
(* The inductive invariant: whatever steps of Rent, Return and Dispose the *)
(* threads interleave, _count and the held channels stay accounted for.    *)
THEOREM Invariance == Spec => []IInv
<1>1. Init => IInv
  BY ShapeInit, CountInit, PoolInit, ExclusiveInit DEF IInv
<1>2. IInv /\ [Next]_vars => IInv'
  BY ShapeNext, CountNext, PoolNext, ExclusiveNext DEF IInv
<1> QED BY <1>1, <1>2, PTL DEF Spec

(* The variables of the pool have their types.                             *)
THEOREM TypeCorrect == Spec => []TypeOK
<1>1. IInv => TypeOK
  BY DEF IInv
<1> QED BY <1>1, Invariance, PTL

(* _count is the pool's length up to the threads between their two steps.  *)
THEOREM CountCorrect == Spec => []CountIsExact
<1>1. IInv => CountIsExact
  BY DEF IInv
<1> QED BY <1>1, Invariance, PTL

(* The assertion in Rent.                                                  *)
THEOREM RentAssertion == Spec => []CountNotNegative
<1>1. IInv => CountNotNegative
  <2> SUFFICES ASSUME IInv PROVE CountNotNegative
    OBVIOUS
  <2>1. Len(pool) \in Nat
    BY LenProperties DEF IInv, TypeOK
  <2>2. Cardinality(Counted) \in Nat
    BY EnqueuersCounted DEF IInv, TypeOK, Counted, CountedSteps
  <2> QED BY <2>1, <2>2 DEF IInv, TypeOK, CountIsExact, CountNotNegative
<1> QED BY <1>1, Invariance, PTL

(* The assertion in Return.                                                *)
THEOREM ReturnAssertion == Spec => []PoolWithinSize
<1>1. IInv => PoolWithinSize
  BY DEF IInv
<1> QED BY <1>1, Invariance, PTL

(* No channel is shared.                                                   *)
THEOREM NoSharing == Spec => []ChannelsExclusive
<1>1. IInv => ChannelsExclusive
  BY DEF IInv
<1> QED BY <1>1, Invariance, PTL

=============================================================================
