----------------------------- MODULE ChannelPool ----------------------------
(***************************************************************************)
(* ConnectionChannelPool of the RabbitMQ transport: threads rent a channel *)
(* (IModel, not to be shared between threads), publish on it and return    *)
(* it.  The pool is a ConcurrentQueue whose length is tracked apart, in    *)
(* _count; the two are updated by separate atomic steps, and every such    *)
(* step is an action here.                                                 *)
(***************************************************************************)
EXTENDS Integers, Sequences, FiniteSets

CONSTANTS
    Threads,        \* threads that publish
    Channels,       \* identities of channels
    Nobody,         \* no thread holds s_lock; no channel is held
    PoolSize,       \* DefaultPoolSize, 15 in the code
    MayDispose      \* can the pool be disposed while threads use it?

ASSUME ThreadsAssumption == IsFiniteSet(Threads) /\ Nobody \notin Threads
ASSUME ChannelsAssumption == Nobody \notin Channels
ASSUME SizeAssumption == PoolSize \in Nat
ASSUME DisposeAssumption == MayDispose \in BOOLEAN

VARIABLES
    count,      \* _count
    maxSize,    \* _maxSize
    pool,       \* _pool
    lock,       \* the thread inside lock (s_lock)
    pc,         \* the next step of each thread
    held,       \* the channel each thread has
    disposing,  \* Dispose: "no", "draining" or "done"
    drained     \* channels Dispose has taken out of the pool so far

vars == <<count, maxSize, pool, lock, pc, held, disposing, drained>>

(* The steps of a thread: "lock" and "spin" and "dequeue" and "decrement"  *)
(* in Rent, "publish" with the channel, "increment" and "enqueue" or       *)
(* "undo" in Return.                                                       *)
Steps == {"lock", "spin", "dequeue", "decrement", "publish", "increment", "enqueue", "undo"}

InPool(c) == \E i \in DOMAIN pool : pool[i] = c
InUse(c) == InPool(c) \/ \E t \in Threads : held[t] = c

Init ==
    /\ count = 0
    /\ maxSize = PoolSize
    /\ pool = <<>>
    /\ lock = Nobody
    /\ pc = [t \in Threads |-> "lock"]
    /\ held = [t \in Threads |-> Nobody]
    /\ disposing = "no"
    /\ drained = 0

-----------------------------------------------------------------------------
(* Rent                                                                    *)

EnterLock(t) ==
    /\ pc[t] = "lock"
    /\ lock = Nobody
    /\ lock' = t
    /\ pc' = [pc EXCEPT ![t] = "spin"]
    /\ UNCHANGED <<count, maxSize, pool, held, disposing, drained>>

(* `while (_count > _maxSize)` is left.                                    *)
SpinEnds(t) ==
    /\ pc[t] = "spin"
    /\ count <= maxSize
    /\ pc' = [pc EXCEPT ![t] = "dequeue"]
    /\ UNCHANGED <<count, maxSize, pool, lock, held, disposing, drained>>

(* Mutant of Dequeue: the channel is left in the queue.                    *)
Dequeue_Peeks(t) ==
    /\ pc[t] = "dequeue"
    /\ pool # <<>>
    /\ held' = [held EXCEPT ![t] = Head(pool)]
    /\ pc' = [pc EXCEPT ![t] = "decrement"]
    /\ UNCHANGED <<count, maxSize, pool, lock, disposing, drained>>

Dequeue(t) ==
    /\ pc[t] = "dequeue"
    /\ pool # <<>>
    /\ held' = [held EXCEPT ![t] = Head(pool)]
    /\ pool' = Tail(pool)
    /\ pc' = [pc EXCEPT ![t] = "decrement"]
    /\ UNCHANGED <<count, maxSize, lock, disposing, drained>>

(* Interlocked.Decrement after a dequeue; Rent returns.                    *)
Decrement(t) ==
    /\ pc[t] = "decrement"
    /\ count' = count - 1
    /\ lock' = Nobody
    /\ pc' = [pc EXCEPT ![t] = "publish"]
    /\ UNCHANGED <<maxSize, pool, held, disposing, drained>>

(* The pool is empty: GetConnection().CreateModel().                       *)
CreateModel(t) ==
    /\ pc[t] = "dequeue"
    /\ pool = <<>>
    /\ \E c \in Channels : ~InUse(c) /\ held' = [held EXCEPT ![t] = c]
    /\ lock' = Nobody
    /\ pc' = [pc EXCEPT ![t] = "publish"]
    /\ UNCHANGED <<count, maxSize, pool, disposing, drained>>

(* The broker cannot be reached: Rent throws.                              *)
CreateModelThrows(t) ==
    /\ pc[t] = "dequeue"
    /\ pool = <<>>
    /\ lock' = Nobody
    /\ pc' = [pc EXCEPT ![t] = "lock"]
    /\ UNCHANGED <<count, maxSize, pool, held, disposing, drained>>

-----------------------------------------------------------------------------
(* Publish and Return                                                      *)

(* PublishAsync with the channel, with or without success.                 *)
Publish(t) ==
    /\ pc[t] = "publish"
    /\ pc' = [pc EXCEPT ![t] = "increment"]
    /\ UNCHANGED <<count, maxSize, pool, lock, held, disposing, drained>>

(* Mutant of Increment: the value before the increment is compared.        *)
Increment_ComparesOld(t) ==
    /\ pc[t] = "increment"
    /\ count' = count + 1
    /\ pc' = [pc EXCEPT ![t] = IF count <= maxSize THEN "enqueue" ELSE "undo"]
    /\ UNCHANGED <<maxSize, pool, lock, held, disposing, drained>>

(* Interlocked.Increment and the comparison with _maxSize.                 *)
Increment(t) ==
    /\ pc[t] = "increment"
    /\ count' = count + 1
    /\ pc' = [pc EXCEPT ![t] = IF count' <= maxSize THEN "enqueue" ELSE "undo"]
    /\ UNCHANGED <<maxSize, pool, lock, held, disposing, drained>>

Enqueue(t) ==
    /\ pc[t] = "enqueue"
    /\ pool' = Append(pool, held[t])
    /\ held' = [held EXCEPT ![t] = Nobody]
    /\ pc' = [pc EXCEPT ![t] = "lock"]
    /\ UNCHANGED <<count, maxSize, lock, disposing, drained>>

(* Mutant of Undo: the increment is not taken back.                        *)
Undo_KeepsCount(t) ==
    /\ pc[t] = "undo"
    /\ held' = [held EXCEPT ![t] = Nobody]
    /\ pc' = [pc EXCEPT ![t] = "lock"]
    /\ UNCHANGED <<count, maxSize, pool, lock, disposing, drained>>

(* Over the size: Interlocked.Decrement, and the caller disposes the       *)
(* channel.                                                                *)
Undo(t) ==
    /\ pc[t] = "undo"
    /\ count' = count - 1
    /\ held' = [held EXCEPT ![t] = Nobody]
    /\ pc' = [pc EXCEPT ![t] = "lock"]
    /\ UNCHANGED <<maxSize, pool, lock, disposing, drained>>

-----------------------------------------------------------------------------
(* Dispose: _maxSize becomes 0 and the queue is emptied until it is found  *)
(* empty; _count is not touched.                                           *)

Dispose ==
    /\ MayDispose
    /\ disposing = "no"
    /\ disposing' = "draining"
    /\ maxSize' = 0
    /\ UNCHANGED <<count, pool, lock, pc, held, drained>>

Drain ==
    /\ disposing = "draining"
    /\ pool # <<>>
    /\ pool' = Tail(pool)
    /\ drained' = drained + 1
    /\ UNCHANGED <<count, maxSize, lock, pc, held, disposing>>

DrainDone ==
    /\ disposing = "draining"
    /\ pool = <<>>
    /\ disposing' = "done"
    /\ UNCHANGED <<count, maxSize, pool, lock, pc, held, drained>>

-----------------------------------------------------------------------------
Step(t) ==
    \/ EnterLock(t) \/ SpinEnds(t) \/ Dequeue(t) \/ Decrement(t)
    \/ CreateModel(t) \/ CreateModelThrows(t)
    \/ Publish(t)
    \/ Increment(t) \/ Enqueue(t) \/ Undo(t)

Next == Dispose \/ Drain \/ DrainDone \/ \E t \in Threads : Step(t)

Spec == Init /\ [][Next]_vars

(* A running thread takes its next step.  Nothing is assumed about who     *)
(* gets s_lock, a Monitor is not fair.                                     *)
FairSpec == Spec /\ \A t \in Threads : WF_vars(Step(t))

-----------------------------------------------------------------------------
(* Properties                                                              *)

TypeOK ==
    /\ count \in Int
    /\ maxSize \in {0, PoolSize}
    /\ pool \in Seq(Channels)
    /\ lock \in Threads \union {Nobody}
    /\ pc \in [Threads -> Steps]
    /\ held \in [Threads -> Channels \union {Nobody}]
    /\ disposing \in {"no", "draining", "done"}
    /\ drained \in Nat

(* Threads between their step on _count and their step on _pool.           *)
Counted == {t \in Threads : pc[t] \in {"decrement", "enqueue", "undo"}}

(* What _count counts: the channels in the pool, one for each thread that  *)
(* is between its two steps, and the channels Dispose took out.            *)
CountIsExact == count = Len(pool) + Cardinality(Counted) + drained

(* Debug.Assert(_count >= 0) in Rent holds at any moment.                  *)
CountNotNegative == count >= 0

(* Debug.Assert(_maxSize == 0 || _pool.Count <= _maxSize) in Return, also  *)
(* counting the threads that are past the comparison and will enqueue.     *)
PoolWithinSize ==
    maxSize = 0 \/ Len(pool) + Cardinality({t \in Threads : pc[t] = "enqueue"}) <= maxSize

(* A channel is never with two threads, nor with a thread and in the pool, *)
(* nor in the pool twice: nobody shares an IModel.                         *)
ChannelsExclusive ==
    /\ \A t, u \in Threads : held[t] = held[u] /\ held[t] # Nobody => t = u
    /\ \A t \in Threads : ~InPool(held[t])
    /\ \A i, j \in DOMAIN pool : pool[i] = pool[j] => i = j

(* The thread that spins in Rent, holding s_lock and so keeping every      *)
(* other thread from renting, gets out of the loop unless the pool is      *)
(* disposed meanwhile, which leaves _count as it is and the size at 0.     *)
SpinTerminates ==
    \A t \in Threads : pc[t] = "spin" ~> pc[t] = "dequeue" \/ disposing # "no"

=============================================================================
