------------------------ MODULE CapTransactionProofs ------------------------
(***************************************************************************)
(* Proofs about CapTransaction for any number of publishers, transactions, *)
(* messages and crashes: a message is handed to the dispatcher once, and,  *)
(* when no publisher begins again after a transaction that did not commit, *)
(* only if its row is durable; when publishers do not mix their uses, a    *)
(* transaction is committed by whom it should be, nothing committed stays  *)
(* in a buffer, and what threw is not sent.                                *)
(***************************************************************************)
EXTENDS CapTransaction, SequenceTheorems, TLAPS

Writing(p) == pc[p] \in {"execute", "addToSent"}

(* The running Publish has a message.                                      *)
WritingHasMessage == \A p \in Publishers : Writing(p) => current[p] \in Ids

Shape == TypeOK /\ WritingHasMessage

NoRepeat(s) == \A i, j \in DOMAIN s : s[i] = s[j] => i = j

Unplaced(m) == ~InSeq(m, enqueued) /\ \A p \in Publishers : ~InSeq(m, bufferList[p])

(* Ids to come are unused.                                                 *)
FreshIds ==
    \A m \in Ids : m >= nextId =>
        Unplaced(m) /\ rowTx[m] = NoTx /\ \A p \in Publishers : current[p] # m

(* A message whose Publish has not come to the buffer is nowhere else.     *)
WritingIsUnplaced ==
    /\ \A p \in Publishers : Writing(p) => Unplaced(current[p])
    /\ \A p, q \in Publishers :
           Writing(p) /\ Writing(q) /\ current[p] = current[q] => p = q

(* A message is in one place of one buffer, or has been handed over.       *)
BuffersSeparate ==
    /\ \A p \in Publishers : NoRepeat(bufferList[p])
    /\ \A p, q \in Publishers : \A m \in Ids :
           InSeq(m, bufferList[p]) /\ InSeq(m, bufferList[q]) => p = q
    /\ \A p \in Publishers : \A m \in Ids :
           InSeq(m, bufferList[p]) => ~InSeq(m, enqueued)

OnceInv == FreshIds /\ WritingIsUnplaced /\ BuffersSeparate /\ EnqueuedOnce

-----------------------------------------------------------------------------
(* What Append and Tail do to the members of a sequence.                   *)
LEMMA AppendMembers ==
    ASSUME NEW S, NEW s \in Seq(S), NEW e \in S
    PROVE  /\ Append(s, e) \in Seq(S)
           /\ \A m : InSeq(m, Append(s, e)) <=> InSeq(m, s) \/ m = e
           /\ NoRepeat(s) /\ ~InSeq(e, s) => NoRepeat(Append(s, e))
<1>1. /\ Append(s, e) \in Seq(S)
      /\ Len(s) \in Nat
      /\ DOMAIN s = 1 .. Len(s)
      /\ DOMAIN Append(s, e) = 1 .. Len(s) + 1
      /\ \A i \in 1 .. Len(s) : Append(s, e)[i] = s[i]
      /\ Append(s, e)[Len(s) + 1] = e
  OBVIOUS
<1>2. \A m : InSeq(m, Append(s, e)) <=> InSeq(m, s) \/ m = e
  <2> TAKE m
  <2>1. InSeq(m, Append(s, e)) => InSeq(m, s) \/ m = e
    BY <1>1 DEF InSeq
  <2>2. InSeq(m, s) => InSeq(m, Append(s, e))
    BY <1>1 DEF InSeq
  <2>3. InSeq(e, Append(s, e))
    BY <1>1, Len(s) + 1 \in DOMAIN Append(s, e) DEF InSeq
  <2> QED BY <2>1, <2>2, <2>3
<1>3. NoRepeat(s) /\ ~InSeq(e, s) => NoRepeat(Append(s, e))
  BY <1>1 DEF NoRepeat, InSeq
<1> QED BY <1>1, <1>2, <1>3

LEMMA TailMembers ==
    ASSUME NEW S, NEW s \in Seq(S), s # <<>>
    PROVE  /\ Head(s) \in S /\ Tail(s) \in Seq(S)
           /\ InSeq(Head(s), s)
           /\ \A m : InSeq(m, Tail(s)) => InSeq(m, s)
           /\ NoRepeat(s) => NoRepeat(Tail(s)) /\ ~InSeq(Head(s), Tail(s))
<1>1. /\ Head(s) \in S /\ Tail(s) \in Seq(S)
      /\ Len(s) \in Nat /\ DOMAIN s = 1 .. Len(s) /\ 1 \in DOMAIN s
      /\ Head(s) = s[1]
      /\ DOMAIN Tail(s) = 1 .. Len(s) - 1
      /\ \A i \in DOMAIN Tail(s) : Tail(s)[i] = s[i + 1] /\ i + 1 \in DOMAIN s
  OBVIOUS
<1>2. InSeq(Head(s), s)
  BY <1>1 DEF InSeq
<1>3. \A m : InSeq(m, Tail(s)) => InSeq(m, s)
  BY <1>1 DEF InSeq
<1>4. NoRepeat(s) => NoRepeat(Tail(s))
  BY <1>1 DEF NoRepeat
<1>5. NoRepeat(s) => ~InSeq(Head(s), Tail(s))
  BY <1>1 DEF NoRepeat, InSeq
<1> QED BY <1>1, <1>2, <1>3, <1>4, <1>5

-----------------------------------------------------------------------------
LEMMA ShapeInit == Init => Shape
  BY TxAssumption, BoundAssumption
  DEF Init, Shape, TypeOK, WritingHasMessage, Writing, Points, TxStates, Ids

LEMMA FinallyShape ==
    ASSUME Shape, NEW p \in Publishers, Finally(p)
    PROVE  /\ pc' \in [Publishers -> Points]
           /\ current' \in [Publishers -> Ids \union {0}]
           /\ ~Writing(p)'
           /\ \A q \in Publishers : q # p => pc'[q] = pc[q] /\ current'[q] = current[q]
  BY DEF Shape, TypeOK, Finally, Points, Writing

LEMMA EndsShape ==
    ASSUME Shape, NEW p \in Publishers, NEW how \in {"returned", "threw"}, Ends(p, how)
    PROVE  outcome' \in [Ids -> {"none", "returned", "threw"}]
  BY DEF Shape, TypeOK, Ends, InPublish

LEMMA ShapeNext == Shape /\ [Next]_vars => Shape'
<1> SUFFICES ASSUME Shape, [Next]_vars
             PROVE  Shape'
  OBVIOUS
<1> USE DEF pubVars, Points, TxStates
<1>1. CASE UNCHANGED vars
  BY <1>1 DEF vars, Shape, TypeOK, WritingHasMessage, Writing
<1>2. CASE Crash
  BY <1>2, TxAssumption, BoundAssumption DEF Crash, Shape, TypeOK, WritingHasMessage, Writing
<1>3. ASSUME NEW p \in Publishers, Application(p)
      PROVE  Shape'
  <2>1. ASSUME NEW t \in Transactions, NEW auto \in BOOLEAN, BeginTransaction(p, t, auto)
        PROVE  Shape'
    BY <2>1 DEF BeginTransaction, Shape, TypeOK, WritingHasMessage, Writing
  <2>2. CASE Publish(p)
    <3>1. nextId \in Ids /\ nextId' \in 1 .. MaxMessages + 1
      BY <2>2, BoundAssumption DEF Publish, Shape, TypeOK, Ids
    <3> QED BY <2>2, <3>1 DEF Publish, Shape, TypeOK, WritingHasMessage, Writing
  <2>3. CASE CallCommit(p)
    BY <2>3 DEF CallCommit, Shape, TypeOK, WritingHasMessage, Writing
  <2>4. CASE Rollback(p)
    BY <2>4 DEF Rollback, Shape, TypeOK, WritingHasMessage, Writing
  <2> QED BY <1>3, <2>1, <2>2, <2>3, <2>4 DEF Application
<1>4. ASSUME NEW p \in Publishers, Step(p)
      PROVE  Shape'
  <2>1. CASE Execute(p)
    BY <2>1, TxAssumption DEF Execute, Shape, TypeOK, WritingHasMessage, Writing, Open
  <2>2. CASE ExecuteThrows(p) \/ FlushDone(p)
    BY <2>2, FinallyShape, EndsShape
    DEF ExecuteThrows, FlushDone, Shape, TypeOK, WritingHasMessage, Writing
  <2>3. CASE AddToSent(p)
    <3>1. bufferList' \in [Publishers -> Seq(Ids)]
      BY <2>3 DEF AddToSent, Shape, TypeOK, WritingHasMessage, Writing
    <3>2. CASE CommitsItself(p)
      BY <2>3, <3>1, <3>2 DEF AddToSent, Shape, TypeOK, WritingHasMessage, Writing
    <3>3. CASE ~CommitsItself(p)
      BY <2>3, <3>1, <3>3, FinallyShape, EndsShape
      DEF AddToSent, Shape, TypeOK, WritingHasMessage, Writing
    <3> QED BY <3>2, <3>3
  <2>4. CASE Commit(p)
    BY <2>4 DEF Commit, Shape, TypeOK, WritingHasMessage, Writing
  <2>5. CASE CommitThrows(p)
    <3>1. tx' \in [Transactions -> TxStates]
      BY <2>5 DEF CommitThrows, Shape, TypeOK, Open
    <3> QED BY <2>5, <3>1, FinallyShape, EndsShape
        DEF CommitThrows, Shape, TypeOK, WritingHasMessage, Writing
  <2>6. CASE Flush(p)
    <3>1. bufferList[p] \in Seq(Ids) /\ bufferList[p] # <<>>
      BY <2>6 DEF Flush, Shape, TypeOK
    <3>2. Head(bufferList[p]) \in Ids /\ Tail(bufferList[p]) \in Seq(Ids)
      BY <3>1, TailMembers
    <3> QED BY <2>6, <3>2 DEF Flush, Shape, TypeOK, WritingHasMessage, Writing
  <2>7. CASE Dispose(p)
    BY <2>7 DEF Dispose, Shape, TypeOK, WritingHasMessage, Writing
  <2> QED BY <1>4, <2>1, <2>2, <2>3, <2>4, <2>5, <2>6, <2>7 DEF Step
<1> QED BY <1>1, <1>2, <1>3, <1>4 DEF Next

-----------------------------------------------------------------------------
(* A message is handed over once.                                          *)
LEMMA OnceInit == Init => OnceInv
  BY BoundAssumption
  DEF Init, OnceInv, FreshIds, WritingIsUnplaced, BuffersSeparate, EnqueuedOnce,
      Unplaced, InSeq, NoRepeat, Writing, Ids

(* Steps that leave the buffers and the history alone, and bring no        *)
(* publisher to the writing steps.                                         *)
LEMMA OnceQuiet ==
    ASSUME OnceInv, UNCHANGED <<bufferList, enqueued, nextId, rowTx>>,
           \A p \in Publishers : Writing(p)' => Writing(p) /\ current'[p] = current[p],
           \A p \in Publishers : current'[p] \in {0, current[p]}
    PROVE  OnceInv'
<1>1. FreshIds'
  BY DEF OnceInv, FreshIds, Unplaced, Ids
<1>2. WritingIsUnplaced'
  BY DEF OnceInv, WritingIsUnplaced, Unplaced
<1>3. BuffersSeparate' /\ EnqueuedOnce'
  BY DEF OnceInv, BuffersSeparate, EnqueuedOnce
<1> QED BY <1>1, <1>2, <1>3 DEF OnceInv

LEMMA FinallyQuiet ==
    ASSUME Shape, NEW p \in Publishers, Finally(p)
    PROVE  /\ \A q \in Publishers : Writing(q)' => Writing(q) /\ current'[q] = current[q]
           /\ \A q \in Publishers : current'[q] \in {0, current[q]}
  BY DEF Shape, TypeOK, Finally, Writing

LEMMA OnceNext == Shape /\ OnceInv /\ [Next]_vars => OnceInv'
<1> SUFFICES ASSUME Shape, OnceInv, [Next]_vars
             PROVE  OnceInv'
  OBVIOUS
<1> USE DEF pubVars
<1>1. CASE UNCHANGED vars
  BY <1>1, OnceQuiet DEF vars, Writing
<1>2. CASE Crash
  <2>1. FreshIds'
    BY <1>2 DEF Crash, OnceInv, FreshIds, Unplaced, InSeq, Ids
  <2>2. WritingIsUnplaced'
    BY <1>2 DEF Crash, WritingIsUnplaced, Writing
  <2>3. BuffersSeparate' /\ EnqueuedOnce'
    BY <1>2 DEF Crash, OnceInv, BuffersSeparate, EnqueuedOnce, NoRepeat, InSeq
  <2> QED BY <2>1, <2>2, <2>3 DEF OnceInv
<1>3. ASSUME NEW p \in Publishers, Application(p)
      PROVE  OnceInv'
  <2>1. CASE (\E t \in Transactions, auto \in BOOLEAN : BeginTransaction(p, t, auto))
             \/ CallCommit(p) \/ Rollback(p)
    <3>1. UNCHANGED <<bufferList, enqueued, nextId, rowTx, current>>
      BY <2>1 DEF BeginTransaction, CallCommit, Rollback
    <3>2. \A q \in Publishers : Writing(q)' => Writing(q)
      BY <2>1 DEF BeginTransaction, CallCommit, Rollback, Writing, Shape, TypeOK
    <3> QED BY <3>1, <3>2, OnceQuiet
  <2>2. CASE Publish(p)
    <3>1. /\ nextId \in Ids /\ nextId' = nextId + 1
          /\ current' = [current EXCEPT ![p] = nextId]
          /\ pc' = [pc EXCEPT ![p] = "execute"]
          /\ UNCHANGED <<bufferList, rowTx, enqueued>>
      BY <2>2 DEF Publish, Shape, TypeOK, Ids
    <3>2. Unplaced(nextId) /\ \A q \in Publishers : current[q] # nextId
      BY <3>1, BoundAssumption DEF OnceInv, FreshIds, Ids
    <3>3. FreshIds'
      BY <3>1, BoundAssumption DEF OnceInv, FreshIds, Unplaced, Ids, Shape, TypeOK
    <3>4. WritingIsUnplaced'
      BY <3>1, <3>2 DEF OnceInv, WritingIsUnplaced, Unplaced, Writing, Shape, TypeOK
    <3>5. BuffersSeparate' /\ EnqueuedOnce'
      BY <3>1 DEF OnceInv, BuffersSeparate, EnqueuedOnce
    <3> QED BY <3>3, <3>4, <3>5 DEF OnceInv
  <2> QED BY <1>3, <2>1, <2>2 DEF Application
<1>4. ASSUME NEW p \in Publishers, Step(p)
      PROVE  OnceInv'
  <2>1. CASE Execute(p)
    <3>1. /\ current[p] \in Ids /\ Writing(p)
          /\ \E t : rowTx' = [rowTx EXCEPT ![current[p]] = t]
          /\ pc' = [pc EXCEPT ![p] = "addToSent"]
          /\ UNCHANGED <<bufferList, current, enqueued, nextId>>
      BY <2>1 DEF Execute, Shape, WritingHasMessage, Writing
    <3>2. FreshIds'
      BY <3>1 DEF OnceInv, FreshIds, Unplaced, Ids
    <3>3. WritingIsUnplaced'
      BY <3>1 DEF OnceInv, WritingIsUnplaced, Unplaced, Writing, Shape, TypeOK
    <3>4. BuffersSeparate' /\ EnqueuedOnce'
      BY <3>1 DEF OnceInv, BuffersSeparate, EnqueuedOnce
    <3> QED BY <3>2, <3>3, <3>4 DEF OnceInv
  <2>2. CASE ExecuteThrows(p) \/ CommitThrows(p) \/ FlushDone(p)
    <3>1. Finally(p) /\ UNCHANGED <<bufferList, enqueued, nextId, rowTx>>
      BY <2>2 DEF ExecuteThrows, CommitThrows, FlushDone
    <3> QED BY <3>1, FinallyQuiet, OnceQuiet
  <2>3. CASE Commit(p) \/ Dispose(p)
    <3>1. /\ UNCHANGED <<bufferList, enqueued, nextId, rowTx>>
          /\ \A q \in Publishers : Writing(q)' => Writing(q) /\ current'[q] = current[q]
          /\ \A q \in Publishers : current'[q] \in {0, current[q]}
      BY <2>3 DEF Commit, Dispose, Writing, Shape, TypeOK
    <3> QED BY <3>1, OnceQuiet
  <2>4. CASE AddToSent(p)
    <3> DEFINE e == current[p]
    <3>1. /\ e \in Ids /\ Writing(p) /\ bufferList[p] \in Seq(Ids)
          /\ bufferList' = [bufferList EXCEPT ![p] = Append(@, e)]
          /\ UNCHANGED <<rowTx, enqueued, nextId>>
      BY <2>4 DEF AddToSent, Shape, WritingHasMessage, Writing, TypeOK
    <3>2. /\ ~Writing(p)'
          /\ \A q \in Publishers : q # p => pc'[q] = pc[q] /\ current'[q] = current[q]
          /\ current'[p] \in {0, e}
      <4>1. CASE CommitsItself(p)
        BY <2>4, <4>1 DEF AddToSent, Shape, TypeOK, Writing
      <4>2. CASE ~CommitsItself(p)
        <5>1. Finally(p)
          BY <2>4, <4>2 DEF AddToSent
        <5> QED BY <5>1, FinallyShape DEF Finally, Shape, TypeOK
      <4> QED BY <4>1, <4>2
    <3>3. Unplaced(e)
      BY <3>1 DEF OnceInv, WritingIsUnplaced
    <3>4. /\ \A m : InSeq(m, bufferList'[p]) <=> InSeq(m, bufferList[p]) \/ m = e
          /\ NoRepeat(bufferList'[p])
          /\ \A q \in Publishers : q # p => bufferList'[q] = bufferList[q]
      <4>1. bufferList'[p] = Append(bufferList[p], e)
        BY <3>1 DEF Shape, TypeOK
      <4>2. NoRepeat(bufferList[p]) /\ ~InSeq(e, bufferList[p])
        BY <3>3 DEF OnceInv, BuffersSeparate, Unplaced
      <4>3. \A q \in Publishers : q # p => bufferList'[q] = bufferList[q]
        BY <3>1 DEF Shape, TypeOK
      <4> QED BY <3>1, <4>1, <4>2, <4>3, AppendMembers
    <3>5. \A m : m # e /\ Unplaced(m) => Unplaced(m)'
      BY <3>1, <3>4 DEF Unplaced
    <3>6. FreshIds'
      <4> SUFFICES ASSUME NEW m \in Ids, m >= nextId'
                   PROVE  Unplaced(m)' /\ rowTx'[m] = NoTx
                          /\ \A q \in Publishers : current'[q] # m
        BY DEF FreshIds
      <4>1. Unplaced(m) /\ rowTx[m] = NoTx /\ \A q \in Publishers : current[q] # m
        BY <3>1 DEF OnceInv, FreshIds
      <4>2. m # 0
        BY DEF Ids
      <4> QED BY <3>1, <3>2, <3>5, <4>1, <4>2
    <3>7. WritingIsUnplaced'
      <4>1. \A q \in Publishers : Writing(q)' => q # p /\ Writing(q) /\ current'[q] = current[q]
        BY <3>2 DEF Writing
      <4>2. \A q \in Publishers : Writing(q)' => current[q] # e /\ Unplaced(current[q])
        BY <3>1, <4>1 DEF OnceInv, WritingIsUnplaced
      <4> QED BY <3>5, <4>1, <4>2 DEF OnceInv, WritingIsUnplaced
    <3>8. BuffersSeparate'
      BY <3>1, <3>3, <3>4 DEF OnceInv, BuffersSeparate, Unplaced
    <3>9. EnqueuedOnce'
      BY <3>1 DEF OnceInv, EnqueuedOnce
    <3> QED BY <3>6, <3>7, <3>8, <3>9 DEF OnceInv
  <2>5. CASE Flush(p)
    <3> DEFINE h == Head(bufferList[p])
    <3>1. /\ bufferList[p] \in Seq(Ids) /\ bufferList[p] # <<>> /\ enqueued \in Seq(Ids)
          /\ enqueued' = Append(enqueued, h)
          /\ bufferList' = [bufferList EXCEPT ![p] = Tail(@)]
          /\ UNCHANGED <<pc, current, rowTx, nextId>>
      BY <2>5 DEF Flush, Shape, TypeOK
    <3>2. /\ h \in Ids /\ InSeq(h, bufferList[p])
          /\ bufferList'[p] = Tail(bufferList[p])
          /\ \A m : InSeq(m, bufferList'[p]) => InSeq(m, bufferList[p])
          /\ NoRepeat(bufferList'[p]) /\ ~InSeq(h, bufferList'[p])
          /\ \A q \in Publishers : q # p => bufferList'[q] = bufferList[q]
      <4>1. bufferList'[p] = Tail(bufferList[p])
            /\ \A q \in Publishers : q # p => bufferList'[q] = bufferList[q]
        BY <3>1 DEF Shape, TypeOK
      <4>2. NoRepeat(bufferList[p])
        BY DEF OnceInv, BuffersSeparate
      <4> QED BY <3>1, <4>1, <4>2, TailMembers
    <3>3. ~InSeq(h, enqueued)
      BY <3>2 DEF OnceInv, BuffersSeparate
    <3>4. /\ \A m : InSeq(m, enqueued') <=> InSeq(m, enqueued) \/ m = h
          /\ NoRepeat(enqueued')
      <4>1. NoRepeat(enqueued)
        BY DEF OnceInv, EnqueuedOnce, NoRepeat
      <4> QED BY <3>1, <3>2, <3>3, <4>1, AppendMembers
    <3>5. \A m : Unplaced(m) => Unplaced(m)'
      BY <3>2, <3>4 DEF Unplaced
    <3>6. FreshIds'
      BY <3>1, <3>5 DEF OnceInv, FreshIds
    <3>7. WritingIsUnplaced'
      BY <3>1, <3>5 DEF OnceInv, WritingIsUnplaced, Writing
    <3>8. BuffersSeparate'
      <4>1. \A q \in Publishers : NoRepeat(bufferList'[q])
        BY <3>2 DEF OnceInv, BuffersSeparate
      <4>2. \A q \in Publishers : \A m : InSeq(m, bufferList'[q]) => InSeq(m, bufferList[q])
        BY <3>2
      <4>3. \A q \in Publishers : ~InSeq(h, bufferList'[q])
        BY <3>2 DEF OnceInv, BuffersSeparate
      <4> QED BY <3>4, <4>1, <4>2, <4>3 DEF OnceInv, BuffersSeparate
    <3>9. EnqueuedOnce'
      BY <3>4 DEF EnqueuedOnce, NoRepeat
    <3> QED BY <3>6, <3>7, <3>8, <3>9 DEF OnceInv
  <2> QED BY <1>4, <2>1, <2>2, <2>3, <2>4, <2>5 DEF Step
<1> QED BY <1>1, <1>2, <1>3, <1>4 DEF Next

-----------------------------------------------------------------------------
(* Only durable messages are handed over.  A message in a buffer is        *)
(* durable, or belongs to the transaction its publisher has now; a         *)
(* publisher that gets a new transaction had its old one committed.        *)
Final == {"committed", "unacked"}

Belongs(m, p) == Durable(m) \/ (rowTx[m] = dbTransaction[p] /\ dbTransaction[p] \in Transactions)

BufferBelongs == \A p \in Publishers : \A m \in Ids : InSeq(m, bufferList[p]) => Belongs(m, p)
CurrentBelongs ==
    \A p \in Publishers : pc[p] = "addToSent" => current[p] \in Ids /\ Belongs(current[p], p)
FlushedIsDurable ==
    \A p \in Publishers : pc[p] = "flush" => \A m \in Ids : InSeq(m, bufferList[p]) => Durable(m)
SentIsDurable == \A m \in Ids : InSeq(m, enqueued) => Durable(m)

DurableInv == BufferBelongs /\ CurrentBelongs /\ FlushedIsDurable /\ SentIsDurable

TxStays == \A t \in Transactions : tx[t] \in Final => tx'[t] = tx[t]

LEMMA DurableStays ==
    ASSUME TxStays, NEW m, rowTx'[m] = rowTx[m], Durable(m)
    PROVE  Durable(m)'
  BY DEF TxStays, Durable, Final

LEMMA DurableInit == Init => DurableInv
  BY DEF Init, DurableInv, BufferBelongs, CurrentBelongs, FlushedIsDurable, SentIsDurable, InSeq

(* Steps that change neither buffers nor rows nor the transactions of the  *)
(* publishers, and lead no publisher into the flush.                       *)
LEMMA DurableQuiet ==
    ASSUME DurableInv, TxStays, UNCHANGED <<bufferList, enqueued, rowTx, dbTransaction>>,
           \A p \in Publishers : pc'[p] = "addToSent" => pc[p] = "addToSent" /\ current'[p] = current[p],
           \A p \in Publishers : pc'[p] = "flush" => pc[p] = "flush"
    PROVE  DurableInv'
<1>1. \A m \in Ids : Durable(m) => Durable(m)'
  BY DurableStays
<1>2. \A p \in Publishers : \A m \in Ids : Belongs(m, p) => Belongs(m, p)'
  BY <1>1 DEF Belongs
<1>3. BufferBelongs' /\ CurrentBelongs'
  BY <1>2 DEF DurableInv, BufferBelongs, CurrentBelongs
<1>4. FlushedIsDurable' /\ SentIsDurable'
  BY <1>1 DEF DurableInv, FlushedIsDurable, SentIsDurable
<1> QED BY <1>3, <1>4 DEF DurableInv

LEMMA FinallyLeads ==
    ASSUME Shape, NEW p \in Publishers, Finally(p)
    PROVE  /\ \A q \in Publishers : pc'[q] = "addToSent" => pc[q] = "addToSent" /\ current'[q] = current[q]
           /\ \A q \in Publishers : pc'[q] = "flush" => pc[q] = "flush"
           /\ pc'[p] \notin {"addToSent", "flush"}
  BY DEF Shape, TypeOK, Finally

LEMMA DurableNext ==
    ASSUME ~ReuseAfterRollback, Shape, OnceInv, DurableInv, [Next]_vars
    PROVE  DurableInv'
<1> USE DEF pubVars
<1>1. CASE UNCHANGED vars
  <2>1. TxStays
    BY <1>1 DEF vars, TxStays
  <2> QED BY <1>1, <2>1, DurableQuiet DEF vars
<1>2. CASE Crash
  <2>1. TxStays
    BY <1>2 DEF Crash, TxStays, Final
  <2>2. \A m \in Ids : Durable(m) => Durable(m)'
    BY <1>2, <2>1, DurableStays DEF Crash
  <2> QED BY <1>2, <2>2
      DEF Crash, DurableInv, BufferBelongs, CurrentBelongs, FlushedIsDurable, SentIsDurable, InSeq
<1>3. ASSUME NEW p \in Publishers, Application(p)
      PROVE  DurableInv'
  <2>1. ASSUME NEW t \in Transactions, NEW auto \in BOOLEAN, BeginTransaction(p, t, auto)
        PROVE  DurableInv'
    <3>1. /\ pc[p] = "idle" /\ tx[t] = "unused"
          /\ dbTransaction[p] \in Transactions => tx[dbTransaction[p]] = "committed"
          /\ tx' = [tx EXCEPT ![t] = "active"]
          /\ dbTransaction' = [dbTransaction EXCEPT ![p] = t]
          /\ UNCHANGED <<bufferList, pc, current, rowTx, enqueued>>
      BY <2>1 DEF BeginTransaction
    <3>2. TxStays
      BY <3>1 DEF TxStays, Final, Shape, TypeOK
    <3>3. \A m \in Ids : Durable(m) => Durable(m)'
      BY <3>1, <3>2, DurableStays
    <3>4. \A q \in Publishers : \A m \in Ids : Belongs(m, q) => Belongs(m, q)'
      <4>1. \A m \in Ids : Belongs(m, p) => Durable(m)
        BY <3>1 DEF Belongs, Durable
      <4>2. \A q \in Publishers : q # p => dbTransaction'[q] = dbTransaction[q]
        BY <3>1 DEF Shape, TypeOK
      <4> QED BY <3>1, <3>3, <4>1, <4>2 DEF Belongs
    <3>5. BufferBelongs' /\ CurrentBelongs'
      BY <3>1, <3>4 DEF DurableInv, BufferBelongs, CurrentBelongs
    <3>6. FlushedIsDurable' /\ SentIsDurable'
      BY <3>1, <3>3 DEF DurableInv, FlushedIsDurable, SentIsDurable
    <3> QED BY <3>5, <3>6 DEF DurableInv
  <2>2. CASE Publish(p)
    <3>1. /\ pc' = [pc EXCEPT ![p] = "execute"]
          /\ \A q \in Publishers : q # p => current'[q] = current[q]
          /\ \A q \in Publishers : dbTransaction[q] \in Transactions
                                        => dbTransaction'[q] = dbTransaction[q]
          /\ UNCHANGED <<bufferList, rowTx, tx, enqueued>>
      BY <2>2, TxAssumption DEF Publish, Shape, TypeOK
    <3>2. \A m \in Ids : Durable(m) <=> Durable(m)'
      BY <3>1 DEF Durable
    <3>3. \A q \in Publishers : \A m \in Ids : Belongs(m, q) => Belongs(m, q)'
      BY <3>1, <3>2 DEF Belongs
    <3>4. BufferBelongs' /\ CurrentBelongs'
      BY <3>1, <3>3 DEF DurableInv, BufferBelongs, CurrentBelongs, Shape, TypeOK
    <3>5. FlushedIsDurable' /\ SentIsDurable'
      BY <3>1, <3>2 DEF DurableInv, FlushedIsDurable, SentIsDurable, Shape, TypeOK
    <3> QED BY <3>4, <3>5 DEF DurableInv
  <2>3. CASE CallCommit(p) \/ Rollback(p)
    <3>1. TxStays
      BY <2>3 DEF CallCommit, Rollback, TxStays, Final, Open, Shape, TypeOK
    <3> QED BY <2>3, <3>1, DurableQuiet DEF CallCommit, Rollback, Shape, TypeOK
  <2> QED BY <1>3, <2>1, <2>2, <2>3 DEF Application
<1>4. ASSUME NEW p \in Publishers, Step(p)
      PROVE  DurableInv'
  <2>1. CASE Execute(p)
    <3> DEFINE e == current[p]
    <3>1. /\ Writing(p) /\ e \in Ids
          /\ \/ rowTx' = [rowTx EXCEPT ![e] = Noop]
             \/ rowTx' = [rowTx EXCEPT ![e] = dbTransaction[p]] /\ dbTransaction[p] \in Transactions
          /\ pc' = [pc EXCEPT ![p] = "addToSent"]
          /\ UNCHANGED <<bufferList, current, dbTransaction, tx, enqueued>>
      BY <2>1 DEF Execute, Open, Shape, WritingHasMessage, Writing
    <3>2. Unplaced(e)
      BY <3>1 DEF OnceInv, WritingIsUnplaced
    <3>3. \A m \in Ids : m # e => (Durable(m) => Durable(m)')
      BY <3>1 DEF Durable, Shape, TypeOK
    <3>4. \A q \in Publishers : \A m \in Ids : m # e => (Belongs(m, q) => Belongs(m, q)')
      BY <3>1, <3>3 DEF Belongs, Shape, TypeOK
    <3>5. Belongs(e, p)'
      BY <3>1 DEF Belongs, Durable, Shape, TypeOK
    <3>6. BufferBelongs'
      BY <3>1, <3>2, <3>4 DEF DurableInv, BufferBelongs, Unplaced
    <3>7. CurrentBelongs'
      <4> SUFFICES ASSUME NEW q \in Publishers, q # p, pc[q] = "addToSent"
                   PROVE  current[q] \in Ids /\ Belongs(current[q], q)'
        BY <3>1, <3>5 DEF CurrentBelongs, Shape, TypeOK
      <4>1. current[q] # e
        BY <3>1 DEF OnceInv, WritingIsUnplaced, Writing
      <4> QED BY <3>1, <3>4, <4>1 DEF DurableInv, CurrentBelongs
    <3>8. FlushedIsDurable' /\ SentIsDurable'
      BY <3>1, <3>2, <3>3 DEF DurableInv, FlushedIsDurable, SentIsDurable, Unplaced, Shape, TypeOK
    <3> QED BY <3>6, <3>7, <3>8 DEF DurableInv
  <2>2. CASE ExecuteThrows(p) \/ CommitThrows(p) \/ FlushDone(p)
    <3>1. Finally(p) /\ UNCHANGED <<bufferList, enqueued, rowTx, dbTransaction>>
      BY <2>2 DEF ExecuteThrows, CommitThrows, FlushDone
    <3>2. TxStays
      BY <2>2 DEF ExecuteThrows, CommitThrows, FlushDone, TxStays, Final, Open, Shape, TypeOK
    <3> QED BY <3>1, <3>2, FinallyLeads, DurableQuiet
  <2>3. CASE AddToSent(p)
    <3> DEFINE e == current[p]
    <3>1. /\ e \in Ids /\ bufferList[p] \in Seq(Ids) /\ Belongs(e, p)
          /\ bufferList' = [bufferList EXCEPT ![p] = Append(@, e)]
          /\ UNCHANGED <<rowTx, tx, dbTransaction, enqueued>>
      BY <2>3 DEF AddToSent, Shape, TypeOK, WritingHasMessage, Writing, DurableInv, CurrentBelongs
    <3>2. /\ pc'[p] \notin {"addToSent", "flush"}
          /\ \A q \in Publishers : q # p => pc'[q] = pc[q] /\ current'[q] = current[q]
      <4>1. CASE CommitsItself(p)
        BY <2>3, <4>1 DEF AddToSent, Shape, TypeOK
      <4>2. CASE ~CommitsItself(p)
        BY <2>3, <4>2, FinallyLeads, FinallyShape DEF AddToSent
      <4> QED BY <4>1, <4>2
    <3>3. \A m \in Ids : InSeq(m, bufferList'[p]) => InSeq(m, bufferList[p]) \/ m = e
      BY <3>1, AppendMembers DEF Shape, TypeOK
    <3>4. \A q \in Publishers : q # p => bufferList'[q] = bufferList[q]
      BY <3>1 DEF Shape, TypeOK
    <3>5. \A m \in Ids : Durable(m) <=> Durable(m)'
      BY <3>1 DEF Durable
    <3>6. \A q \in Publishers : \A m \in Ids : Belongs(m, q) <=> Belongs(m, q)'
      BY <3>1, <3>5 DEF Belongs
    <3>7. BufferBelongs'
      BY <3>1, <3>3, <3>4, <3>6 DEF DurableInv, BufferBelongs
    <3>8. CurrentBelongs'
      BY <3>2, <3>6 DEF DurableInv, CurrentBelongs
    <3>9. FlushedIsDurable' /\ SentIsDurable'
      BY <3>1, <3>2, <3>4, <3>5 DEF DurableInv, FlushedIsDurable, SentIsDurable
    <3> QED BY <3>7, <3>8, <3>9 DEF DurableInv
  <2>4. CASE Commit(p)
    <3>1. /\ dbTransaction[p] = Noop \/ Open(p)
          /\ tx' = IF Open(p) THEN [tx EXCEPT ![dbTransaction[p]] = "committed"] ELSE tx
          /\ pc' = [pc EXCEPT ![p] = "flush"]
          /\ UNCHANGED <<bufferList, current, rowTx, dbTransaction, enqueued>>
      BY <2>4 DEF Commit
    <3>2. TxStays
      BY <3>1 DEF TxStays, Final, Open, Shape, TypeOK
    <3>3. \A m \in Ids : Durable(m) => Durable(m)'
      BY <3>1, <3>2, DurableStays
    <3>4. \A m \in Ids : Belongs(m, p) => Durable(m)'
      BY <3>1, <3>3, TxAssumption DEF Belongs, Durable, Open, Shape, TypeOK
    <3>5. \A q \in Publishers : \A m \in Ids : Belongs(m, q) => Belongs(m, q)'
      BY <3>1, <3>3 DEF Belongs
    <3>6. BufferBelongs' /\ CurrentBelongs'
      BY <3>1, <3>5 DEF DurableInv, BufferBelongs, CurrentBelongs, Shape, TypeOK
    <3>7. FlushedIsDurable' /\ SentIsDurable'
      BY <3>1, <3>3, <3>4 DEF DurableInv, BufferBelongs, FlushedIsDurable, SentIsDurable, Shape, TypeOK
    <3> QED BY <3>6, <3>7 DEF DurableInv
  <2>5. CASE Dispose(p)
    <3>1. TxStays
      BY <2>5 DEF Dispose, TxStays, Final, Open, Shape, TypeOK
    <3>2. /\ \A q \in Publishers : pc'[q] = "addToSent" => pc[q] = "addToSent" /\ current'[q] = current[q]
          /\ \A q \in Publishers : pc'[q] = "flush" => pc[q] = "flush"
      BY <2>5 DEF Dispose, Shape, TypeOK
    <3> QED BY <2>5, <3>1, <3>2, DurableQuiet DEF Dispose
  <2>6. CASE Flush(p)
    <3> DEFINE h == Head(bufferList[p])
    <3>1. /\ pc[p] = "flush"
          /\ bufferList[p] \in Seq(Ids) /\ bufferList[p] # <<>> /\ enqueued \in Seq(Ids)
          /\ enqueued' = Append(enqueued, h)
          /\ bufferList' = [bufferList EXCEPT ![p] = Tail(@)]
          /\ UNCHANGED <<pc, current, rowTx, tx, dbTransaction>>
      BY <2>6 DEF Flush, Shape, TypeOK
    <3>2. /\ h \in Ids /\ InSeq(h, bufferList[p])
          /\ \A m \in Ids : InSeq(m, Tail(bufferList[p])) => InSeq(m, bufferList[p])
      BY <3>1, TailMembers
    <3>3. \A q \in Publishers : \A m \in Ids : InSeq(m, bufferList'[q]) => InSeq(m, bufferList[q])
      BY <3>1, <3>2 DEF Shape, TypeOK
    <3>4. \A m \in Ids : InSeq(m, enqueued') => InSeq(m, enqueued) \/ m = h
      BY <3>1, <3>2, AppendMembers
    <3>5. Durable(h)
      BY <3>1, <3>2 DEF DurableInv, FlushedIsDurable
    <3>6. \A m \in Ids : Durable(m) <=> Durable(m)'
      BY <3>1 DEF Durable
    <3>7. \A q \in Publishers : \A m \in Ids : Belongs(m, q) <=> Belongs(m, q)'
      BY <3>1, <3>6 DEF Belongs
    <3>8. BufferBelongs' /\ CurrentBelongs'
      BY <3>1, <3>3, <3>7 DEF DurableInv, BufferBelongs, CurrentBelongs
    <3>9. FlushedIsDurable' /\ SentIsDurable'
      BY <3>1, <3>3, <3>4, <3>5, <3>6 DEF DurableInv, FlushedIsDurable, SentIsDurable
    <3> QED BY <3>8, <3>9 DEF DurableInv
  <2> QED BY <1>4, <2>1, <2>2, <2>3, <2>4, <2>5, <2>6 DEF Step
<1> QED BY <1>1, <1>2, <1>3, <1>4 DEF Next

-----------------------------------------------------------------------------
(* How a publisher that does not mix its uses stands to its transaction.   *)

(* The publisher's row was, or can be, inserted.                           *)
Backed(p) == dbTransaction[p] = Noop \/ Open(p)

IdleHasNoMessage == \A p \in Publishers : pc[p] = "idle" => current[p] = 0

(* A transaction that a publisher has was begun, by this publisher.        *)
TransactionsAreOwn ==
    /\ \A p \in Publishers : dbTransaction[p] \in Transactions => tx[dbTransaction[p]] # "unused"
    /\ \A p, q \in Publishers :
           dbTransaction[p] = dbTransaction[q] /\ dbTransaction[p] \in Transactions => p = q

NotUseIsNoop == \A p \in Publishers : notUseTransaction[p] <=> dbTransaction[p] = Noop

(* A Publish comes to its commit only if it commits by itself.             *)
CommitIsWanted ==
    \A p \in Publishers : pc[p] = "commit" /\ InPublish(p) => CommitsItself(p)

(* From the insert of the row to the commit nobody ends the transaction.   *)
WritingIsBacked ==
    \A p \in Publishers :
        pc[p] = "addToSent" \/ (pc[p] = "commit" /\ InPublish(p)) => Backed(p)

UseInv == IdleHasNoMessage /\ TransactionsAreOwn /\ NotUseIsNoop /\ CommitIsWanted /\ WritingIsBacked

(* The row of m is on p's own transaction, and if it is durable the flush  *)
(* is under way.                                                           *)
InHand(m, p) ==
    /\ rowTx[m] = dbTransaction[p] /\ dbTransaction[p] # NoTx
    /\ dbTransaction[p] = Noop => pc[p] \in {"commit", "flush"}
    /\ dbTransaction[p] \in Transactions /\ tx[dbTransaction[p]] = "committed" => pc[p] = "flush"

(* The transaction of m is over and its Commit did not return.             *)
LeftBehind(m) == rowTx[m] \in Transactions /\ tx[rowTx[m]] \in {"rolledBack", "unacked"}

RowIsOwn == \A p \in Publishers : pc[p] = "addToSent" => rowTx[current[p]] = dbTransaction[p]
BufferInHand ==
    \A p \in Publishers : \A m \in Ids : InSeq(m, bufferList[p]) => InHand(m, p) \/ LeftBehind(m)

StrandedInv == RowIsOwn /\ BufferInHand

(* No commit of the publisher's transaction can succeed any more.          *)
Dead(p) ==
    /\ pc[p] # "flush" /\ dbTransaction[p] \in Transactions
    /\ tx[dbTransaction[p]] \in {"active", "rolledBack", "unacked"}
    /\ tx[dbTransaction[p]] = "active" => pc[p] = "dispose"

WritingHasNotThrown ==
    /\ \A m \in Ids : m >= nextId => outcome[m] # "threw"
    /\ \A p \in Publishers : Writing(p) => outcome[current[p]] # "threw"
CommittingIsBuffered ==
    \A p \in Publishers : pc[p] = "commit" /\ InPublish(p) => InSeq(current[p], bufferList[p])
ThrewIsDead ==
    \A p \in Publishers : \A m \in Ids :
        InSeq(m, bufferList[p]) /\ outcome[m] = "threw" => Dead(p)
SentDidNotThrow == \A m \in Ids : InSeq(m, enqueued) => outcome[m] # "threw"

ThrewInv == WritingHasNotThrown /\ CommittingIsBuffered /\ ThrewIsDead /\ SentDidNotThrow

LEMMA UseInit == Init => UseInv
  BY TxAssumption
  DEF Init, UseInv, IdleHasNoMessage, TransactionsAreOwn, NotUseIsNoop, CommitIsWanted,
      WritingIsBacked, InPublish

LEMMA FinallyEnds ==
    ASSUME Shape, NEW p \in Publishers, Finally(p)
    PROVE  /\ \A q \in Publishers : q # p => pc'[q] = pc[q] /\ current'[q] = current[q]
           /\ \/ pc'[p] = "idle" /\ current'[p] = 0
              \/ pc'[p] = "dispose" /\ InPublish(p) /\ CommitsItself(p) /\ current'[p] = current[p]
  BY DEF Shape, TypeOK, Finally

(* A step inside a call of p, which ends at most p's own transaction.      *)
Inside(p) ==
    /\ UNCHANGED <<pubVars, nextId>>
    /\ \A q \in Publishers : q # p => pc'[q] = pc[q] /\ current'[q] = current[q]
    /\ \A t \in Transactions : tx'[t] # tx[t] => t = dbTransaction[p] /\ tx[t] = "active"
    /\ \A t \in Transactions : tx'[t] = "unused" => tx[t] = "unused"

LEMMA StepIsInside ==
    ASSUME Shape, NEW p \in Publishers, Step(p) \/ CallCommit(p) \/ Rollback(p)
    PROVE  Inside(p)
<1> USE DEF pubVars, Shape, TypeOK, Inside, Open
<1>1. CASE Execute(p) \/ Commit(p) \/ Flush(p) \/ Dispose(p) \/ CallCommit(p) \/ Rollback(p)
  BY <1>1 DEF Execute, Commit, Flush, Dispose, CallCommit, Rollback
<1>2. CASE ExecuteThrows(p) \/ FlushDone(p)
  BY <1>2, FinallyEnds DEF ExecuteThrows, FlushDone
<1>3. CASE CommitThrows(p)
  BY <1>3, FinallyEnds DEF CommitThrows
<1>4. CASE AddToSent(p)
  <2>1. CASE CommitsItself(p)
    BY <1>4, <2>1 DEF AddToSent
  <2>2. CASE ~CommitsItself(p)
    BY <1>4, <2>2, FinallyEnds DEF AddToSent
  <2> QED BY <2>1, <2>2
<1> QED BY <1>1, <1>2, <1>3, <1>4 DEF Step

LEMMA UseInside ==
    ASSUME Shape, UseInv, NEW p \in Publishers, Inside(p),
           pc'[p] = "idle" => current'[p] = 0,
           pc'[p] = "commit" /\ current'[p] # 0 => CommitsItself(p) /\ Backed(p)',
           pc'[p] = "addToSent" => Backed(p)'
    PROVE  UseInv'
<1> USE DEF UseInv, Inside, pubVars
<1>1. IdleHasNoMessage'
  BY DEF IdleHasNoMessage
<1>2. TransactionsAreOwn'
  BY DEF TransactionsAreOwn
<1>3. NotUseIsNoop'
  BY DEF NotUseIsNoop
<1>4. CommitIsWanted'
  BY DEF CommitIsWanted, InPublish, CommitsItself
<1>5. WritingIsBacked'
  <2> SUFFICES ASSUME NEW q \in Publishers, q # p,
                      pc[q] = "addToSent" \/ (pc[q] = "commit" /\ InPublish(q))
               PROVE  Backed(q)'
    BY DEF WritingIsBacked, InPublish
  <2>1. Backed(q)
    BY DEF WritingIsBacked
  <2>2. dbTransaction[q] \in Transactions => dbTransaction[q] # dbTransaction[p]
    BY DEF TransactionsAreOwn
  <2> QED BY <2>1, <2>2 DEF Backed, Open
<1> QED BY <1>1, <1>2, <1>3, <1>4, <1>5

LEMMA UseNext ==
    ASSUME ~MixedUse, Shape, UseInv, [Next]_vars
    PROVE  UseInv'
<1> USE DEF pubVars
<1>1. CASE UNCHANGED vars
  BY <1>1
  DEF vars, UseInv, IdleHasNoMessage, TransactionsAreOwn, NotUseIsNoop, CommitIsWanted,
      WritingIsBacked, Backed, Open, InPublish, CommitsItself
<1>2. CASE Crash
  BY <1>2, TxAssumption
  DEF Crash, UseInv, IdleHasNoMessage, TransactionsAreOwn, NotUseIsNoop, CommitIsWanted,
      WritingIsBacked, InPublish
<1>3. ASSUME NEW p \in Publishers, Application(p)
      PROVE  UseInv'
  <2>1. ASSUME NEW t \in Transactions, NEW auto \in BOOLEAN, BeginTransaction(p, t, auto)
        PROVE  UseInv'
    <3>1. /\ pc[p] = "idle" /\ tx[t] = "unused" /\ ~notUseTransaction[p]
          /\ tx' = [tx EXCEPT ![t] = "active"]
          /\ dbTransaction' = [dbTransaction EXCEPT ![p] = t]
          /\ autoCommit' = [autoCommit EXCEPT ![p] = auto]
          /\ UNCHANGED <<notUseTransaction, pc, current>>
      BY <2>1 DEF BeginTransaction
    <3>2. \A q \in Publishers : q # p => dbTransaction'[q] = dbTransaction[q] /\ autoCommit'[q] = autoCommit[q]
      BY <3>1 DEF Shape, TypeOK
    <3>3. dbTransaction'[p] = t
      BY <3>1 DEF Shape, TypeOK
    <3>4. \A q \in Publishers : dbTransaction[q] # t
      BY <3>1 DEF UseInv, TransactionsAreOwn
    <3>5. TransactionsAreOwn'
      BY <3>1, <3>2, <3>3, <3>4 DEF UseInv, TransactionsAreOwn, Shape, TypeOK
    <3>6. IdleHasNoMessage' /\ NotUseIsNoop'
      BY <3>1, <3>2, <3>3, TxAssumption DEF UseInv, IdleHasNoMessage, NotUseIsNoop
    <3>7. CommitIsWanted'
      BY <3>1, <3>2 DEF UseInv, CommitIsWanted, CommitsItself, InPublish
    <3>8. WritingIsBacked'
      BY <3>1, <3>2, <3>4 DEF UseInv, WritingIsBacked, Backed, Open, InPublish, Shape, TypeOK
    <3> QED BY <3>5, <3>6, <3>7, <3>8 DEF UseInv
  <2>2. CASE Publish(p)
    <3>1. /\ pc' = [pc EXCEPT ![p] = "execute"]
          /\ \A q \in Publishers : q # p => /\ current'[q] = current[q]
                                            /\ dbTransaction'[q] = dbTransaction[q]
                                            /\ notUseTransaction'[q] = notUseTransaction[q]
          /\ IF dbTransaction[p] = NoTx
             THEN dbTransaction'[p] = Noop /\ notUseTransaction'[p]
             ELSE dbTransaction'[p] = dbTransaction[p] /\ notUseTransaction'[p] = notUseTransaction[p]
          /\ UNCHANGED <<tx, autoCommit>>
      BY <2>2 DEF Publish, Shape, TypeOK
    <3>2. IdleHasNoMessage' /\ NotUseIsNoop'
      BY <3>1 DEF UseInv, IdleHasNoMessage, NotUseIsNoop, Shape, TypeOK
    <3>3. TransactionsAreOwn'
      BY <3>1, TxAssumption DEF UseInv, TransactionsAreOwn
    <3>4. CommitIsWanted'
      BY <3>1 DEF UseInv, CommitIsWanted, CommitsItself, InPublish, Shape, TypeOK
    <3>5. WritingIsBacked'
      BY <3>1 DEF UseInv, WritingIsBacked, Backed, Open, InPublish, Shape, TypeOK
    <3> QED BY <3>2, <3>3, <3>4, <3>5 DEF UseInv
  <2>3. CASE CallCommit(p) \/ Rollback(p)
    <3>1. Inside(p) /\ current[p] = 0
      BY <2>3, StepIsInside DEF CallCommit, Rollback, UseInv, IdleHasNoMessage
    <3>2. UNCHANGED current /\ pc'[p] # "addToSent"
      BY <2>3 DEF CallCommit, Rollback, Shape, TypeOK
    <3> QED BY <3>1, <3>2, UseInside
  <2> QED BY <1>3, <2>1, <2>2, <2>3 DEF Application
<1>4. ASSUME NEW p \in Publishers, Step(p)
      PROVE  UseInv'
  <2>1. Inside(p)
    BY <1>4, StepIsInside
  <2>2. CASE Execute(p)
    <3>1. pc'[p] = "addToSent" /\ UNCHANGED <<tx, dbTransaction>>
      BY <2>2 DEF Execute, Shape, TypeOK
    <3>2. Backed(p)
      BY <2>2 DEF Execute, Backed, UseInv, NotUseIsNoop
    <3> QED BY <2>1, <3>1, <3>2, UseInside DEF Backed, Open
  <2>3. CASE ExecuteThrows(p) \/ CommitThrows(p) \/ FlushDone(p)
    <3>1. Finally(p)
      BY <2>3 DEF ExecuteThrows, CommitThrows, FlushDone
    <3> QED BY <2>1, <3>1, FinallyEnds, UseInside
  <2>4. CASE AddToSent(p)
    <3>1. Backed(p) /\ Backed(p)'
      BY <2>4 DEF AddToSent, UseInv, WritingIsBacked, Backed, Open
    <3>2. CASE CommitsItself(p)
      BY <2>1, <2>4, <3>1, <3>2, UseInside DEF AddToSent, Shape, TypeOK
    <3>3. CASE ~CommitsItself(p)
      <4>1. Finally(p)
        BY <2>4, <3>3 DEF AddToSent
      <4> QED BY <2>1, <4>1, FinallyEnds, UseInside
    <3> QED BY <3>2, <3>3
  <2>5. CASE Commit(p) \/ Flush(p) \/ Dispose(p)
    <3>1. \/ pc'[p] = "flush"
          \/ pc'[p] = "idle" /\ current'[p] = 0
      BY <2>5 DEF Commit, Flush, Dispose, Shape, TypeOK
    <3> QED BY <2>1, <3>1, UseInside
  <2> QED BY <1>4, <2>2, <2>3, <2>4, <2>5 DEF Step
<1> QED BY <1>1, <1>2, <1>3, <1>4 DEF Next

(* The step that commits a transaction is the Commit of its publisher.     *)
LEMMA CommitIsOwn ==
    ASSUME Shape, UseInv, Next,
           NEW p \in Publishers, NEW t \in Transactions,
           dbTransaction[p] = t, InPublish(p), tx[t] = "active", tx'[t] = "committed"
    PROVE  autoCommit[p]
<1> USE DEF pubVars
<1>1. ~Crash
  BY DEF Crash
<1>2. ASSUME NEW q \in Publishers, Application(q)
      PROVE  FALSE
  BY <1>2 DEF Application, BeginTransaction, Publish, CallCommit, Rollback, Shape, TypeOK, Open
<1>3. ASSUME NEW q \in Publishers, Step(q)
      PROVE  autoCommit[p]
  <2>1. q = p
    BY <1>3, StepIsInside DEF Inside, UseInv, TransactionsAreOwn
  <2>2. Commit(p)
    <3>1. ~(Execute(p) \/ ExecuteThrows(p) \/ AddToSent(p) \/ Flush(p) \/ FlushDone(p))
      BY DEF Execute, ExecuteThrows, AddToSent, Flush, FlushDone
    <3>2. ~CommitThrows(p) /\ ~Dispose(p)
      BY DEF CommitThrows, Dispose, Shape, TypeOK, Open
    <3> QED BY <1>3, <2>1, <3>1, <3>2 DEF Step
  <2>3. CommitsItself(p)
    BY <2>2 DEF Commit, UseInv, CommitIsWanted
  <2>4. ~notUseTransaction[p]
    BY TxAssumption DEF UseInv, NotUseIsNoop
  <2> QED BY <2>3, <2>4 DEF CommitsItself
<1> QED BY <1>1, <1>2, <1>3 DEF Next

-----------------------------------------------------------------------------
(* Nothing committed waits in a buffer.                                    *)
LEMMA StrandedInit == Init => StrandedInv
  BY DEF Init, StrandedInv, RowIsOwn, BufferInHand, InSeq

(* Steps inside a call of p that put no message into a buffer.             *)
LEMMA StrandedInside ==
    ASSUME Shape, UseInv, StrandedInv, NEW p \in Publishers, Inside(p), UNCHANGED rowTx,
           pc'[p] # "addToSent",
           \A q \in Publishers : q # p => bufferList'[q] = bufferList[q],
           \A m \in Ids : InSeq(m, bufferList'[p]) => InSeq(m, bufferList[p]),
           \A m \in Ids : InSeq(m, bufferList'[p]) /\ InHand(m, p) => (InHand(m, p) \/ LeftBehind(m))'
    PROVE  StrandedInv'
<1> USE DEF Inside, pubVars
<1>1. RowIsOwn'
  BY DEF StrandedInv, RowIsOwn
<1>2. \A m \in Ids : LeftBehind(m) => LeftBehind(m)'
  BY DEF LeftBehind
<1>3. ASSUME NEW q \in Publishers, q # p, NEW m \in Ids, InHand(m, q)
      PROVE  InHand(m, q)'
  <2>1. dbTransaction[q] \in Transactions => tx'[dbTransaction[q]] = tx[dbTransaction[q]]
    BY <1>3 DEF UseInv, TransactionsAreOwn
  <2> QED BY <1>3, <2>1 DEF InHand
<1>4. ASSUME NEW q \in Publishers, NEW m \in Ids, InSeq(m, bufferList'[q])
      PROVE  (InHand(m, q) \/ LeftBehind(m))'
  <2>1. InHand(m, q) \/ LeftBehind(m)
    BY <1>4 DEF StrandedInv, BufferInHand
  <2> QED BY <1>2, <1>3, <1>4, <2>1
<1> QED BY <1>1, <1>4 DEF StrandedInv, BufferInHand

LEMMA StrandedNext ==
    ASSUME ~MixedUse, Shape, OnceInv, UseInv, StrandedInv, [Next]_vars
    PROVE  StrandedInv'
<1> USE DEF pubVars
<1>1. CASE UNCHANGED vars
  BY <1>1 DEF vars, StrandedInv, RowIsOwn, BufferInHand, InHand, LeftBehind
<1>2. CASE Crash
  BY <1>2 DEF Crash, StrandedInv, RowIsOwn, BufferInHand, InSeq
<1>3. ASSUME NEW p \in Publishers, Application(p)
      PROVE  StrandedInv'
  <2>1. ASSUME NEW t \in Transactions, NEW auto \in BOOLEAN, BeginTransaction(p, t, auto)
        PROVE  StrandedInv'
    <3>1. /\ pc[p] = "idle" /\ tx[t] = "unused" /\ ~Open(p)
          /\ tx' = [tx EXCEPT ![t] = "active"]
          /\ dbTransaction' = [dbTransaction EXCEPT ![p] = t]
          /\ UNCHANGED <<bufferList, pc, current, rowTx>>
      BY <2>1 DEF BeginTransaction
    <3>2. /\ \A q \in Publishers : q # p => dbTransaction'[q] = dbTransaction[q]
          /\ \A u \in Transactions : u # t => tx'[u] = tx[u]
      BY <3>1 DEF Shape, TypeOK
    <3>3. \A q \in Publishers : dbTransaction[q] # t
      BY <3>1 DEF UseInv, TransactionsAreOwn
    <3>4. \A m \in Ids : LeftBehind(m) => LeftBehind(m)'
      BY <3>1, <3>2 DEF LeftBehind
    <3>5. \A q \in Publishers : \A m \in Ids : q # p /\ InHand(m, q) => InHand(m, q)'
      BY <3>1, <3>2, <3>3 DEF InHand
    <3>6. \A m \in Ids : InHand(m, p) => LeftBehind(m)
      <4>1. dbTransaction[p] \in Transactions
                => tx[dbTransaction[p]] \in {"committed", "rolledBack", "unacked"}
        BY <3>1 DEF Open, UseInv, TransactionsAreOwn, Shape, TypeOK, TxStates
      <4> QED BY <3>1, <4>1 DEF InHand, LeftBehind, Shape, TypeOK
    <3>7. BufferInHand'
      BY <3>1, <3>4, <3>5, <3>6 DEF StrandedInv, BufferInHand
    <3>8. RowIsOwn'
      BY <3>1, <3>2 DEF StrandedInv, RowIsOwn
    <3> QED BY <3>7, <3>8 DEF StrandedInv
  <2>2. CASE Publish(p)
    <3>1. /\ pc[p] = "idle" /\ pc' = [pc EXCEPT ![p] = "execute"]
          /\ \A q \in Publishers : q # p => /\ current'[q] = current[q] /\ pc'[q] = pc[q]
                                            /\ dbTransaction'[q] = dbTransaction[q]
          /\ dbTransaction[p] # NoTx => dbTransaction'[p] = dbTransaction[p]
          /\ UNCHANGED <<bufferList, rowTx, tx>>
      BY <2>2 DEF Publish, Shape, TypeOK
    <3>2. \A m \in Ids : LeftBehind(m) <=> LeftBehind(m)'
      BY <3>1 DEF LeftBehind
    <3>3. \A q \in Publishers : \A m \in Ids : InHand(m, q) => InHand(m, q)'
      BY <3>1 DEF InHand
    <3>4. BufferInHand'
      BY <3>1, <3>2, <3>3 DEF StrandedInv, BufferInHand
    <3>5. RowIsOwn'
      BY <3>1 DEF StrandedInv, RowIsOwn, Shape, TypeOK
    <3> QED BY <3>4, <3>5 DEF StrandedInv
  <2>3. CASE CallCommit(p) \/ Rollback(p)
    <3>1. Inside(p) /\ UNCHANGED <<rowTx, bufferList>> /\ pc'[p] # "addToSent"
      BY <2>3, StepIsInside DEF CallCommit, Rollback, Shape, TypeOK
    <3>2. \A m \in Ids : InHand(m, p) => (InHand(m, p) \/ LeftBehind(m))'
      BY <2>3, TxAssumption DEF CallCommit, Rollback, InHand, LeftBehind, Open, Shape, TypeOK
    <3> QED BY <3>1, <3>2, StrandedInside
  <2> QED BY <1>3, <2>1, <2>2, <2>3 DEF Application
<1>4. ASSUME NEW p \in Publishers, Step(p)
      PROVE  StrandedInv'
  <2>0. Inside(p)
    BY <1>4, StepIsInside
  <2>1. CASE Execute(p)
    <3> DEFINE e == current[p]
    <3>1. /\ Writing(p) /\ e \in Ids
          /\ rowTx' = [rowTx EXCEPT ![e] = IF notUseTransaction[p] THEN Noop ELSE dbTransaction[p]]
          /\ pc[p] = "execute" /\ pc' = [pc EXCEPT ![p] = "addToSent"]
          /\ UNCHANGED <<bufferList, current, dbTransaction, tx>>
      BY <2>1 DEF Execute, Shape, WritingHasMessage, Writing
    <3>2. Unplaced(e)
      BY <3>1 DEF OnceInv, WritingIsUnplaced
    <3>3. rowTx'[e] = dbTransaction[p]
      BY <3>1 DEF UseInv, NotUseIsNoop, Shape, TypeOK
    <3>4. \A q \in Publishers : q # p /\ pc[q] = "addToSent" => current[q] # e
      BY <3>1 DEF OnceInv, WritingIsUnplaced, Writing
    <3>5. RowIsOwn'
      BY <3>1, <3>3, <3>4 DEF StrandedInv, RowIsOwn, Shape, TypeOK, WritingHasMessage, Writing
    <3>6. ASSUME NEW q \in Publishers, NEW m \in Ids, InSeq(m, bufferList[q])
          PROVE  (InHand(m, q) \/ LeftBehind(m))'
      <4>1. m # e /\ rowTx'[m] = rowTx[m]
        BY <3>1, <3>2, <3>6 DEF Unplaced, Shape, TypeOK
      <4> QED BY <3>1, <3>6, <4>1 DEF StrandedInv, BufferInHand, InHand, LeftBehind, Shape, TypeOK
    <3> QED BY <3>1, <3>5, <3>6 DEF StrandedInv, BufferInHand
  <2>2. CASE ExecuteThrows(p)
    <3>1. Finally(p) /\ UNCHANGED <<bufferList, rowTx, tx, dbTransaction>> /\ pc[p] = "execute"
      BY <2>2 DEF ExecuteThrows
    <3>2. \A m \in Ids : InHand(m, p) => InHand(m, p)'
      BY <3>1 DEF InHand
    <3> QED BY <2>0, <3>1, <3>2, FinallyEnds, StrandedInside
  <2>3. CASE AddToSent(p)
    <3> DEFINE e == current[p]
    <3>1. /\ e \in Ids /\ bufferList[p] \in Seq(Ids) /\ pc[p] = "addToSent"
          /\ bufferList' = [bufferList EXCEPT ![p] = Append(@, e)]
          /\ UNCHANGED <<rowTx, tx, dbTransaction>>
      BY <2>3 DEF AddToSent, Shape, TypeOK, WritingHasMessage, Writing
    <3>2. /\ \A m : InSeq(m, bufferList'[p]) => InSeq(m, bufferList[p]) \/ m = e
          /\ \A q \in Publishers : q # p => bufferList'[q] = bufferList[q]
      BY <3>1, AppendMembers DEF Shape, TypeOK
    <3>3. pc'[p] # "addToSent" /\ (dbTransaction[p] = Noop => pc'[p] = "commit")
      <4>1. CASE CommitsItself(p)
        BY <2>3, <4>1 DEF AddToSent, Shape, TypeOK
      <4>2. CASE ~CommitsItself(p)
        <5>1. dbTransaction[p] # Noop /\ Finally(p)
          BY <2>3, <4>2 DEF AddToSent, CommitsItself, UseInv, NotUseIsNoop
        <5> QED BY <5>1, FinallyEnds
      <4> QED BY <4>1, <4>2
    <3>4. rowTx[e] = dbTransaction[p] /\ Backed(p)
      BY <3>1 DEF StrandedInv, RowIsOwn, UseInv, WritingIsBacked
    <3>5. \A m \in Ids : m = e => InHand(m, p)'
      BY <3>1, <3>3, <3>4, TxAssumption DEF InHand, Backed, Open
    <3>6. \A m \in Ids : InHand(m, p) => InHand(m, p)'
      BY <3>1, <3>3, <3>4 DEF InHand, Backed, Open
    <3>7. ASSUME NEW q \in Publishers, NEW m \in Ids, InSeq(m, bufferList'[q])
          PROVE  (InHand(m, q) \/ LeftBehind(m))'
      <4>1. LeftBehind(m) => LeftBehind(m)'
        BY <3>1 DEF LeftBehind
      <4>2. q # p /\ InHand(m, q) => InHand(m, q)'
        BY <2>0, <3>1 DEF Inside, InHand
      <4> QED BY <3>2, <3>5, <3>6, <3>7, <4>1, <4>2 DEF StrandedInv, BufferInHand
    <3>8. RowIsOwn'
      BY <2>0, <3>1, <3>3 DEF Inside, StrandedInv, RowIsOwn
    <3> QED BY <3>7, <3>8 DEF StrandedInv, BufferInHand
  <2>4. CASE Commit(p)
    <3>1. /\ UNCHANGED <<rowTx, bufferList, dbTransaction>> /\ pc'[p] = "flush"
      BY <2>4 DEF Commit, Shape, TypeOK
    <3>2. \A m \in Ids : InHand(m, p) => InHand(m, p)'
      BY <3>1 DEF InHand
    <3> QED BY <2>0, <3>1, <3>2, StrandedInside
  <2>5. CASE CommitThrows(p)
    <3>1. /\ Finally(p) /\ UNCHANGED <<rowTx, bufferList, dbTransaction>>
          /\ pc[p] = "commit" /\ dbTransaction[p] \in Transactions
          /\ tx'[dbTransaction[p]] = "committed" => tx[dbTransaction[p]] = "committed"
      BY <2>5 DEF CommitThrows, Shape, TypeOK, Open
    <3>2. \A m \in Ids : InHand(m, p) => InHand(m, p)'
      BY <3>1, TxAssumption DEF InHand
    <3> QED BY <2>0, <3>1, <3>2, FinallyEnds, StrandedInside
  <2>6. CASE Flush(p)
    <3>1. /\ bufferList[p] \in Seq(Ids) /\ bufferList[p] # <<>> /\ pc[p] = "flush"
          /\ bufferList' = [bufferList EXCEPT ![p] = Tail(@)]
          /\ UNCHANGED <<pc, rowTx, tx, dbTransaction>>
      BY <2>6 DEF Flush, Shape, TypeOK
    <3>2. /\ \A q \in Publishers : q # p => bufferList'[q] = bufferList[q]
          /\ \A m \in Ids : InSeq(m, bufferList'[p]) => InSeq(m, bufferList[p])
      BY <3>1, TailMembers DEF Shape, TypeOK
    <3>3. \A m \in Ids : InHand(m, p) => InHand(m, p)'
      BY <3>1 DEF InHand
    <3> QED BY <2>0, <3>1, <3>2, <3>3, StrandedInside
  <2>7. CASE FlushDone(p)
    <3>1. Finally(p) /\ UNCHANGED <<rowTx, bufferList>> /\ bufferList[p] = <<>>
      BY <2>7 DEF FlushDone
    <3>2. \A m \in Ids : ~InSeq(m, bufferList'[p])
      BY <3>1 DEF InSeq
    <3> QED BY <2>0, <3>1, <3>2, FinallyEnds, StrandedInside
  <2>8. CASE Dispose(p)
    <3>1. /\ UNCHANGED <<rowTx, bufferList, dbTransaction>> /\ pc[p] = "dispose" /\ pc'[p] = "idle"
          /\ dbTransaction[p] \in Transactions /\ tx'[dbTransaction[p]] = "committed"
                 => tx[dbTransaction[p]] = "committed"
      BY <2>8 DEF Dispose, Shape, TypeOK, Open
    <3>2. \A m \in Ids : InHand(m, p) => InHand(m, p)'
      BY <3>1 DEF InHand
    <3> QED BY <2>0, <3>1, <3>2, StrandedInside
  <2> QED BY <1>4, <2>1, <2>2, <2>3, <2>4, <2>5, <2>6, <2>7, <2>8 DEF Step
<1> QED BY <1>1, <1>2, <1>3, <1>4 DEF Next

LEMMA InHandIsNotStranded ==
    ASSUME Shape, StrandedInv
    PROVE  NothingStranded
<1> SUFFICES ASSUME NEW p \in Publishers, pc[p] = "idle", NEW i \in DOMAIN bufferList[p]
             PROVE  /\ rowTx[bufferList[p][i]] \in Transactions
                    /\ tx[rowTx[bufferList[p][i]]] # "committed"
  BY DEF NothingStranded
<1> DEFINE m == bufferList[p][i]
<1>1. m \in Ids /\ InSeq(m, bufferList[p])
  BY DEF Shape, TypeOK, InSeq
<1>2. InHand(m, p) \/ LeftBehind(m)
  BY <1>1 DEF StrandedInv, BufferInHand
<1> QED BY <1>2, TxAssumption DEF InHand, LeftBehind, Shape, TypeOK

-----------------------------------------------------------------------------
(* A Publish that threw is not sent.                                       *)
LEMMA ThrewInit == Init => ThrewInv
  BY DEF Init, ThrewInv, WritingHasNotThrown, CommittingIsBuffered, ThrewIsDead, SentDidNotThrow,
         Writing, InPublish, InSeq

(* A message that only the running Publish of p knew.                      *)
Forsaken(m, p) ==
    /\ Unplaced(m) /\ m < nextId
    /\ \A q \in Publishers : q # p /\ Writing(q) => current[q] # m

(* Steps inside a call of p under which nothing new has thrown.            *)
LEMMA ThrewInside ==
    ASSUME Shape, UseInv, ThrewInv, NEW p \in Publishers, Inside(p), UNCHANGED <<bufferList, enqueued>>,
           \A m \in Ids : outcome'[m] = "threw" => outcome[m] = "threw" \/ Forsaken(m, p),
           Writing(p)' => Writing(p) /\ UNCHANGED <<outcome, current>>,
           pc'[p] = "commit" => current'[p] = 0,
           Dead(p) => Dead(p)'
    PROVE  ThrewInv'
<1> USE DEF Inside, ThrewInv, pubVars
<1>1. WritingHasNotThrown'
  <2>1. ASSUME NEW m \in Ids, m >= nextId
        PROVE  outcome'[m] # "threw"
    BY <2>1 DEF WritingHasNotThrown, Forsaken, Shape, TypeOK, Ids
  <2>2. ASSUME NEW q \in Publishers, Writing(q)'
        PROVE  outcome'[current'[q]] # "threw"
    <3>1. Writing(q) /\ current'[q] = current[q] /\ current[q] \in Ids
      BY <2>2 DEF Writing, Shape, WritingHasMessage
    <3>2. q = p => UNCHANGED outcome
      BY <2>2
    <3> QED BY <3>1, <3>2 DEF WritingHasNotThrown, Forsaken
  <2> QED BY <2>1, <2>2 DEF WritingHasNotThrown
<1>2. CommittingIsBuffered'
  BY DEF CommittingIsBuffered, InPublish
<1>3. ThrewIsDead'
  <2> SUFFICES ASSUME NEW q \in Publishers, NEW m \in Ids,
                      InSeq(m, bufferList[q]), outcome'[m] = "threw"
               PROVE  Dead(q)'
    BY DEF ThrewIsDead
  <2>1. Dead(q)
    BY DEF ThrewIsDead, Forsaken, Unplaced
  <2>2. CASE q # p
    <3>1. tx'[dbTransaction[q]] = tx[dbTransaction[q]]
      BY <2>1, <2>2 DEF Dead, UseInv, TransactionsAreOwn
    <3> QED BY <2>1, <2>2, <3>1 DEF Dead
  <2> QED BY <2>1, <2>2
<1>4. SentDidNotThrow'
  BY DEF SentDidNotThrow, Forsaken, Unplaced
<1> QED BY <1>1, <1>2, <1>3, <1>4

(* What Ends does to the outcomes.                                         *)
LEMMA EndsOutcome ==
    ASSUME Shape, NEW p \in Publishers, NEW how \in {"returned", "threw"}, Ends(p, how)
    PROVE  /\ \A m \in Ids : m # current[p] => outcome'[m] = outcome[m]
           /\ \A m \in Ids : outcome'[m] = "threw" => outcome[m] = "threw" \/ how = "threw"
           /\ ~InPublish(p) => UNCHANGED outcome
  BY DEF Ends, Shape, TypeOK, InPublish

LEMMA ThrewNext ==
    ASSUME ~MixedUse, ~ReuseAfterRollback, Shape, OnceInv, UseInv, ThrewInv, [Next]_vars
    PROVE  ThrewInv'
<1> USE DEF pubVars
<1>1. CASE UNCHANGED vars
  BY <1>1
  DEF vars, ThrewInv, WritingHasNotThrown, CommittingIsBuffered, ThrewIsDead, SentDidNotThrow,
      Writing, InPublish, Dead
<1>2. CASE Crash
  BY <1>2
  DEF Crash, ThrewInv, WritingHasNotThrown, CommittingIsBuffered, ThrewIsDead, SentDidNotThrow,
      Writing, InPublish, InSeq
<1>3. ASSUME NEW p \in Publishers, Application(p)
      PROVE  ThrewInv'
  <2>1. ASSUME NEW t \in Transactions, NEW auto \in BOOLEAN, BeginTransaction(p, t, auto)
        PROVE  ThrewInv'
    <3>1. /\ tx[t] = "unused"
          /\ dbTransaction[p] \in Transactions => tx[dbTransaction[p]] = "committed"
          /\ tx' = [tx EXCEPT ![t] = "active"]
          /\ dbTransaction' = [dbTransaction EXCEPT ![p] = t]
          /\ UNCHANGED <<bufferList, pc, current, outcome, nextId, enqueued>>
      BY <2>1 DEF BeginTransaction
    <3>2. WritingHasNotThrown' /\ CommittingIsBuffered' /\ SentDidNotThrow'
      BY <3>1 DEF ThrewInv, WritingHasNotThrown, CommittingIsBuffered, SentDidNotThrow, Writing, InPublish
    <3>3. ThrewIsDead'
      <4>1. ~Dead(p)
        BY <3>1 DEF Dead
      <4>2. \A q \in Publishers : q # p /\ Dead(q) => Dead(q)'
        BY <3>1 DEF Dead, Shape, TypeOK
      <4> QED BY <3>1, <4>1, <4>2 DEF ThrewInv, ThrewIsDead
    <3> QED BY <3>2, <3>3 DEF ThrewInv
  <2>2. CASE Publish(p)
    <3>1. /\ nextId \in Ids /\ nextId' = nextId + 1
          /\ current' = [current EXCEPT ![p] = nextId]
          /\ pc[p] = "idle" /\ pc' = [pc EXCEPT ![p] = "execute"]
          /\ \A q \in Publishers : dbTransaction[q] \in Transactions => dbTransaction'[q] = dbTransaction[q]
          /\ UNCHANGED <<bufferList, tx, outcome, enqueued>>
      BY <2>2, TxAssumption DEF Publish, Shape, TypeOK, Ids
    <3>2. outcome[nextId] # "threw"
      BY <3>1 DEF ThrewInv, WritingHasNotThrown, Ids
    <3>3. WritingHasNotThrown'
      BY <3>1, <3>2 DEF ThrewInv, WritingHasNotThrown, Writing, Ids, Shape, TypeOK
    <3>4. CommittingIsBuffered' /\ SentDidNotThrow'
      BY <3>1 DEF ThrewInv, CommittingIsBuffered, SentDidNotThrow, InPublish, Shape, TypeOK
    <3>5. ThrewIsDead'
      <4>1. \A q \in Publishers : Dead(q) => Dead(q)'
        BY <3>1 DEF Dead, Shape, TypeOK
      <4> QED BY <3>1, <4>1 DEF ThrewInv, ThrewIsDead
    <3> QED BY <3>3, <3>4, <3>5 DEF ThrewInv
  <2>3. CASE CallCommit(p) \/ Rollback(p)
    <3>1. /\ Inside(p) /\ UNCHANGED <<bufferList, enqueued, outcome, current>>
          /\ current[p] = 0 /\ ~Writing(p)'
      BY <2>3, StepIsInside
      DEF CallCommit, Rollback, UseInv, IdleHasNoMessage, Writing, Shape, TypeOK
    <3>2. Dead(p) => Dead(p)'
      BY <2>3 DEF CallCommit, Rollback, Dead, Open, Shape, TypeOK
    <3> QED BY <3>1, <3>2, ThrewInside
  <2> QED BY <1>3, <2>1, <2>2, <2>3 DEF Application
<1>4. ASSUME NEW p \in Publishers, Step(p)
      PROVE  ThrewInv'
  <2>0. Inside(p)
    BY <1>4, StepIsInside
  <2>1. CASE Execute(p)
    <3>1. /\ Writing(p) /\ UNCHANGED <<bufferList, enqueued, outcome, current, tx, dbTransaction>>
          /\ pc[p] = "execute" /\ pc'[p] = "addToSent"
      BY <2>1 DEF Execute, Writing, Shape, TypeOK
    <3>2. Dead(p) => Dead(p)'
      BY <3>1 DEF Dead
    <3> QED BY <2>0, <3>1, <3>2, ThrewInside
  <2>2. CASE ExecuteThrows(p)
    <3>1. /\ Writing(p) /\ Finally(p) /\ Ends(p, "threw") /\ pc[p] = "execute"
          /\ UNCHANGED <<bufferList, enqueued, tx, dbTransaction>>
      BY <2>2 DEF ExecuteThrows, Writing
    <3>2. Forsaken(current[p], p)
      BY <3>1
      DEF Forsaken, OnceInv, WritingIsUnplaced, FreshIds, Shape, WritingHasMessage, TypeOK, Ids
    <3>4. ~Writing(p)' /\ pc'[p] \in {"idle", "dispose"}
      BY <3>1, FinallyEnds DEF Writing
    <3>5. Dead(p) => Dead(p)'
      BY <3>1, <3>4 DEF Dead
    <3>6. \A m \in Ids : m # current[p] => outcome'[m] = outcome[m]
      BY <3>1, EndsOutcome
    <3> QED BY <2>0, <3>1, <3>2, <3>4, <3>5, <3>6, ThrewInside
  <2>3. CASE AddToSent(p)
    <3>1. PICK e \in Ids :
             /\ e = current[p] /\ bufferList[p] \in Seq(Ids) /\ pc[p] = "addToSent"
             /\ bufferList' = [bufferList EXCEPT ![p] = Append(@, e)]
             /\ UNCHANGED <<tx, dbTransaction, enqueued, nextId>>
      BY <2>3 DEF AddToSent, Shape, TypeOK, WritingHasMessage, Writing
    <3>2. /\ \A m : InSeq(m, bufferList'[p]) <=> InSeq(m, bufferList[p]) \/ m = e
          /\ \A q \in Publishers : q # p => bufferList'[q] = bufferList[q]
      BY <3>1, AppendMembers DEF Shape, TypeOK
    <3>3. outcome[e] # "threw"
      BY <3>1 DEF Writing, ThrewInv, WritingHasNotThrown
    <3>4. /\ \A m \in Ids : m # e => outcome'[m] = outcome[m]
          /\ outcome'[e] # "threw"
          /\ ~Writing(p)'
          /\ current'[p] \in {0, e}
      <4>1. CASE CommitsItself(p)
        BY <2>3, <3>1, <3>3, <4>1 DEF AddToSent, Writing, Shape, TypeOK
      <4>2. CASE ~CommitsItself(p)
        <5>1. Finally(p) /\ Ends(p, "returned")
          BY <2>3, <4>2 DEF AddToSent
        <5> QED BY <3>1, <3>3, <5>1, FinallyEnds, EndsOutcome DEF Writing
      <4> QED BY <4>1, <4>2
    <3>5. ~Dead(p)
      BY <3>1, TxAssumption DEF Dead, UseInv, WritingIsBacked, Backed, Open
    <3>7. WritingHasNotThrown'
      <4>1. \A q \in Publishers : Writing(q)' => q # p /\ Writing(q) /\ current'[q] = current[q]
        BY <2>0, <3>4 DEF Inside, Writing
      <4>2. \A q \in Publishers : Writing(q) => current[q] \in Ids
        BY DEF Shape, WritingHasMessage
      <4> QED BY <3>1, <3>4, <4>1, <4>2 DEF ThrewInv, WritingHasNotThrown
    <3>8. CommittingIsBuffered'
      BY <2>0, <3>2, <3>4 DEF Inside, ThrewInv, CommittingIsBuffered, InPublish
    <3>9. ThrewIsDead'
      <4>1. \A q \in Publishers : q # p /\ Dead(q) => Dead(q)'
        BY <2>0, <3>1 DEF Inside, Dead
      <4> QED BY <3>2, <3>4, <3>5, <4>1 DEF ThrewInv, ThrewIsDead
    <3>10. SentDidNotThrow'
      BY <3>1, <3>4 DEF ThrewInv, SentDidNotThrow
    <3> QED BY <3>7, <3>8, <3>9, <3>10 DEF ThrewInv
  <2>4. CASE Commit(p)
    <3>1. /\ UNCHANGED <<bufferList, enqueued, outcome>> /\ pc'[p] = "flush" /\ pc[p] = "commit"
          /\ dbTransaction[p] = Noop \/ Open(p)
      BY <2>4 DEF Commit, Shape, TypeOK
    <3>2. ~Dead(p)
      BY <3>1, TxAssumption DEF Dead, Open
    <3> QED BY <2>0, <3>1, <3>2, ThrewInside DEF Writing
  <2>5. CASE CommitThrows(p)
    <3>1. /\ Finally(p) /\ Ends(p, "threw") /\ pc[p] = "commit" /\ dbTransaction[p] \in Transactions
          /\ UNCHANGED <<bufferList, enqueued, dbTransaction>>
          /\ Open(p) => tx'[dbTransaction[p]] \in {"active", "rolledBack", "unacked"}
          /\ ~Open(p) => UNCHANGED tx
      BY <2>5 DEF CommitThrows, Shape, TypeOK, Open
    <3>2. ~Writing(p)' /\ pc'[p] \in {"idle", "dispose"}
      BY <3>1, FinallyEnds DEF Writing
    <3>3. Dead(p) => Dead(p)'
      BY <3>1, <3>2 DEF Dead, Open
    <3>4. CASE ~InPublish(p)
      BY <2>0, <3>1, <3>2, <3>3, <3>4, EndsOutcome, ThrewInside
    <3>5. CASE InPublish(p)
      <4>1. PICK e \in Ids : e = current[p]
        BY <3>5 DEF InPublish, Shape, TypeOK
      <4>2. InSeq(e, bufferList[p])
        BY <3>1, <3>5, <4>1 DEF ThrewInv, CommittingIsBuffered
      <4>3. pc'[p] = "dispose"
        BY <3>1, <3>5 DEF Finally, UseInv, CommitIsWanted, Shape, TypeOK
      <4>4. Dead(p)'
        <5>1. Open(p)
          BY <3>1, <3>5, TxAssumption DEF UseInv, WritingIsBacked, Backed
        <5> QED BY <3>1, <4>3, <5>1 DEF Dead
      <4>5. \A m \in Ids : m # e => outcome'[m] = outcome[m]
        BY <3>1, <4>1, EndsOutcome
      <4>6. \A q \in Publishers : q # p => ~InSeq(e, bufferList[q])
        BY <4>2 DEF OnceInv, BuffersSeparate
      <4>7. ~InSeq(e, enqueued)
        BY <4>2 DEF OnceInv, BuffersSeparate
      <4>8. WritingHasNotThrown'
        <5>1. \A m \in Ids : m >= nextId => m # e
          BY <4>2 DEF OnceInv, FreshIds, Unplaced
        <5>2. \A q \in Publishers : Writing(q)' => q # p /\ Writing(q) /\ current'[q] = current[q]
          BY <2>0, <3>2 DEF Inside, Writing
        <5>3. \A q \in Publishers : Writing(q) => current[q] \in Ids /\ current[q] # e
          BY <4>2 DEF OnceInv, WritingIsUnplaced, Unplaced, Shape, WritingHasMessage
        <5> QED BY <2>0, <4>5, <5>1, <5>2, <5>3 DEF Inside, ThrewInv, WritingHasNotThrown
      <4>9. CommittingIsBuffered'
        BY <2>0, <3>1, <3>2 DEF Inside, ThrewInv, CommittingIsBuffered, InPublish
      <4>10. ThrewIsDead'
        <5>1. ASSUME NEW q \in Publishers, q # p, Dead(q)
              PROVE  Dead(q)'
          <6>1. tx'[dbTransaction[q]] = tx[dbTransaction[q]]
            BY <2>0, <5>1 DEF Inside, Dead, UseInv, TransactionsAreOwn
          <6> QED BY <2>0, <5>1, <6>1 DEF Inside, Dead
        <5> QED BY <3>1, <4>4, <4>5, <4>6, <5>1 DEF ThrewInv, ThrewIsDead
      <4>11. SentDidNotThrow'
        BY <3>1, <4>5, <4>7 DEF ThrewInv, SentDidNotThrow
      <4> QED BY <4>8, <4>9, <4>10, <4>11 DEF ThrewInv
    <3> QED BY <3>4, <3>5
  <2>6. CASE Flush(p)
    <3>1. PICK h \in Ids :
             /\ h = Head(bufferList[p])
             /\ bufferList[p] \in Seq(Ids) /\ bufferList[p] # <<>> /\ enqueued \in Seq(Ids)
             /\ pc[p] = "flush" /\ enqueued' = Append(enqueued, h)
             /\ bufferList' = [bufferList EXCEPT ![p] = Tail(@)]
             /\ UNCHANGED <<pc, current, tx, dbTransaction, outcome, nextId>>
      BY <2>6, TailMembers DEF Flush, Shape, TypeOK
    <3>2. /\ InSeq(h, bufferList[p])
          /\ \A q \in Publishers : \A m \in Ids : InSeq(m, bufferList'[q]) => InSeq(m, bufferList[q])
          /\ \A q \in Publishers : q # p => bufferList'[q] = bufferList[q]
      BY <3>1, TailMembers DEF Shape, TypeOK
    <3>3. outcome[h] # "threw"
      BY <3>1, <3>2 DEF ThrewInv, ThrewIsDead, Dead
    <3>4. \A m \in Ids : InSeq(m, enqueued') => InSeq(m, enqueued) \/ m = h
      BY <3>1, AppendMembers
    <3>5. WritingHasNotThrown' /\ SentDidNotThrow'
      BY <3>1, <3>3, <3>4 DEF ThrewInv, WritingHasNotThrown, Writing, SentDidNotThrow
    <3>6. CommittingIsBuffered'
      BY <3>1, <3>2 DEF ThrewInv, CommittingIsBuffered, InPublish
    <3>7. ThrewIsDead'
      BY <3>1, <3>2 DEF ThrewInv, ThrewIsDead, Dead
    <3> QED BY <3>5, <3>6, <3>7 DEF ThrewInv
  <2>7. CASE FlushDone(p)
    <3>1. /\ Finally(p) /\ Ends(p, "returned") /\ pc[p] = "flush"
          /\ UNCHANGED <<bufferList, enqueued>>
      BY <2>7 DEF FlushDone
    <3>2. ~Writing(p)' /\ pc'[p] \in {"idle", "dispose"} /\ ~Dead(p)
      BY <3>1, FinallyEnds DEF Writing, Dead
    <3>3. \A m \in Ids : outcome'[m] = "threw" => outcome[m] = "threw"
      BY <3>1, EndsOutcome
    <3> QED BY <2>0, <3>1, <3>2, <3>3, ThrewInside
  <2>8. CASE Dispose(p)
    <3>1. /\ UNCHANGED <<bufferList, enqueued, outcome>> /\ pc[p] = "dispose" /\ pc'[p] = "idle"
      BY <2>8 DEF Dispose, Shape, TypeOK
    <3>2. Dead(p) => Dead(p)'
      BY <2>8 DEF Dispose, Dead, Open, Shape, TypeOK
    <3> QED BY <2>0, <3>1, <3>2, ThrewInside DEF Writing
  <2> QED BY <1>4, <2>1, <2>2, <2>3, <2>4, <2>5, <2>6, <2>7, <2>8 DEF Step
<1> QED BY <1>1, <1>2, <1>3, <1>4 DEF Next

-----------------------------------------------------------------------------
(* What the composition with the delivery rests on: whose a message is,    *)
(* that what is durable stays so, and what a publisher has yet to flush.   *)

(* The row of a message is inserted once.                                  *)
ExecuteIsNew == \A p \in Publishers : pc[p] = "execute" => rowTx[current[p]] = NoTx

(* The message of a running Publish is in no buffer but its publisher's.   *)
CurrentIsOwn ==
    \A p, q \in Publishers :
        current[p] # 0 /\ (current[p] = current[q] \/ InSeq(current[p], bufferList[q])) => p = q

OwnInv == ExecuteIsNew /\ CurrentIsOwn

LEMMA OwnInit == Init => OwnInv
  BY DEF Init, OwnInv, ExecuteIsNew, CurrentIsOwn

(* Steps that bring no message to a publisher.                             *)
LEMMA OwnQuiet ==
    ASSUME OwnInv, UNCHANGED rowTx,
           \A p \in Publishers : \A m : InSeq(m, bufferList'[p]) => InSeq(m, bufferList[p]),
           \A p \in Publishers : current'[p] \in {0, current[p]},
           \A p \in Publishers : pc'[p] = "execute" => pc[p] = "execute" /\ current'[p] = current[p]
    PROVE  OwnInv'
<1>1. ExecuteIsNew'
  BY DEF OwnInv, ExecuteIsNew
<1>2. CurrentIsOwn'
  BY DEF OwnInv, CurrentIsOwn
<1> QED BY <1>1, <1>2 DEF OwnInv

LEMMA OwnNext ==
    ASSUME Shape, OnceInv, OwnInv, [Next]_vars
    PROVE  OwnInv'
<1> USE DEF pubVars
<1>1. CASE UNCHANGED vars
  BY <1>1, OwnQuiet DEF vars
<1>2. CASE Crash
  BY <1>2 DEF Crash, OwnInv, ExecuteIsNew, CurrentIsOwn
<1>3. ASSUME NEW p \in Publishers, Application(p)
      PROVE  OwnInv'
  <2>1. CASE (\E t \in Transactions, auto \in BOOLEAN : BeginTransaction(p, t, auto))
             \/ CallCommit(p) \/ Rollback(p)
    <3>1. UNCHANGED <<bufferList, rowTx, current>>
      BY <2>1 DEF BeginTransaction, CallCommit, Rollback
    <3>2. \A q \in Publishers : pc'[q] = "execute" => pc[q] = "execute"
      BY <2>1 DEF BeginTransaction, CallCommit, Rollback, Shape, TypeOK
    <3> QED BY <3>1, <3>2, OwnQuiet
  <2>2. CASE Publish(p)
    <3>1. /\ nextId \in Ids /\ current'[p] = nextId
          /\ \A q \in Publishers : q # p => current'[q] = current[q] /\ pc'[q] = pc[q]
          /\ UNCHANGED <<bufferList, rowTx>>
      BY <2>2 DEF Publish, Shape, TypeOK, Ids
    <3>2. Unplaced(nextId) /\ rowTx[nextId] = NoTx /\ \A q \in Publishers : current[q] # nextId
      BY <3>1, BoundAssumption DEF OnceInv, FreshIds, Ids
    <3>3. ExecuteIsNew'
      BY <3>1, <3>2 DEF OwnInv, ExecuteIsNew
    <3>4. CurrentIsOwn'
      BY <3>1, <3>2 DEF OwnInv, CurrentIsOwn, Unplaced
    <3> QED BY <3>3, <3>4 DEF OwnInv
  <2> QED BY <1>3, <2>1, <2>2 DEF Application
<1>4. ASSUME NEW p \in Publishers, Step(p)
      PROVE  OwnInv'
  <2>1. CASE Execute(p)
    <3>1. /\ current[p] \in Ids /\ Writing(p) /\ pc' = [pc EXCEPT ![p] = "addToSent"]
          /\ \A m \in Ids : m # current[p] => rowTx'[m] = rowTx[m]
          /\ UNCHANGED <<bufferList, current>>
      BY <2>1 DEF Execute, Shape, TypeOK, WritingHasMessage, Writing
    <3>2. ExecuteIsNew'
      <4> SUFFICES ASSUME NEW q \in Publishers, pc'[q] = "execute"
                   PROVE  rowTx'[current[q]] = NoTx
        BY <3>1 DEF ExecuteIsNew
      <4>1. q # p /\ pc[q] = "execute"
        BY <3>1 DEF Shape, TypeOK
      <4>2. current[q] \in Ids /\ current[q] # current[p]
        BY <3>1, <4>1 DEF OnceInv, WritingIsUnplaced, Shape, WritingHasMessage, Writing
      <4> QED BY <3>1, <4>1, <4>2 DEF OwnInv, ExecuteIsNew
    <3>3. CurrentIsOwn'
      BY <3>1 DEF OwnInv, CurrentIsOwn
    <3> QED BY <3>2, <3>3 DEF OwnInv
  <2>2. CASE ExecuteThrows(p) \/ CommitThrows(p) \/ FlushDone(p)
    <3>1. Finally(p) /\ UNCHANGED <<bufferList, rowTx>>
      BY <2>2 DEF ExecuteThrows, CommitThrows, FlushDone
    <3>2. \A q \in Publishers : /\ current'[q] \in {0, current[q]}
                                /\ pc'[q] = "execute" => pc[q] = "execute" /\ current'[q] = current[q]
      BY <3>1, FinallyEnds
    <3> QED BY <3>1, <3>2, OwnQuiet
  <2>3. CASE Commit(p) \/ Dispose(p)
    BY <2>3, OwnQuiet DEF Commit, Dispose, Shape, TypeOK
  <2>4. CASE AddToSent(p)
    <3> DEFINE e == current[p]
    <3>1. /\ e \in Ids /\ bufferList[p] \in Seq(Ids) /\ pc[p] = "addToSent"
          /\ bufferList' = [bufferList EXCEPT ![p] = Append(@, e)]
          /\ UNCHANGED rowTx
      BY <2>4 DEF AddToSent, Shape, TypeOK, WritingHasMessage, Writing
    <3>2. /\ \A m : InSeq(m, bufferList'[p]) => InSeq(m, bufferList[p]) \/ m = e
          /\ \A q \in Publishers : q # p => bufferList'[q] = bufferList[q]
      BY <3>1, AppendMembers DEF Shape, TypeOK
    <3>3. \A q \in Publishers : /\ current'[q] \in {0, current[q]}
                                /\ pc'[q] = "execute" => pc[q] = "execute" /\ current'[q] = current[q]
      <4>1. CASE CommitsItself(p)
        BY <2>4, <4>1 DEF AddToSent, Shape, TypeOK
      <4>2. CASE ~CommitsItself(p)
        <5>1. Finally(p)
          BY <2>4, <4>2 DEF AddToSent
        <5> QED BY <5>1, FinallyEnds
      <4> QED BY <4>1, <4>2
    <3>4. ExecuteIsNew'
      BY <3>1, <3>3 DEF OwnInv, ExecuteIsNew
    <3>5. CurrentIsOwn'
      BY <3>2, <3>3 DEF OwnInv, CurrentIsOwn
    <3> QED BY <3>4, <3>5 DEF OwnInv
  <2>5. CASE Flush(p)
    <3>1. /\ bufferList[p] \in Seq(Ids) /\ bufferList[p] # <<>>
          /\ bufferList' = [bufferList EXCEPT ![p] = Tail(@)]
          /\ UNCHANGED <<pc, current, rowTx>>
      BY <2>5 DEF Flush, Shape, TypeOK
    <3>2. \A q \in Publishers : \A m : InSeq(m, bufferList'[q]) => InSeq(m, bufferList[q])
      BY <3>1, TailMembers DEF Shape, TypeOK
    <3> QED BY <3>1, <3>2, OwnQuiet
  <2> QED BY <1>4, <2>1, <2>2, <2>3, <2>4, <2>5 DEF Step
<1> QED BY <1>1, <1>2, <1>3, <1>4 DEF Next

(* What is durable stays durable: no transaction is ended twice, and no    *)
(* row changes its transaction.                                            *)
LEMMA DurableForever ==
    ASSUME Shape, OnceInv, OwnInv, [Next]_vars, NEW m \in Ids, Durable(m)
    PROVE  Durable(m)'
<1> USE DEF pubVars
<1>1. TxStays
  <2>1. CASE UNCHANGED vars \/ Crash
    BY <2>1 DEF vars, Crash, TxStays, Final
  <2>2. ASSUME NEW p \in Publishers, Step(p) \/ CallCommit(p) \/ Rollback(p)
        PROVE  TxStays
    BY <2>2, StepIsInside DEF Inside, TxStays, Final
  <2>3. ASSUME NEW p \in Publishers, Application(p)
        PROVE  TxStays
    BY <2>2, <2>3 DEF Application, BeginTransaction, Publish, TxStays, Final, Shape, TypeOK
  <2> QED BY <2>1, <2>2, <2>3 DEF Next
<1>2. rowTx'[m] = rowTx[m]
  <2>1. CASE UNCHANGED vars \/ Crash
    BY <2>1 DEF vars, Crash
  <2>2. ASSUME NEW p \in Publishers, Application(p)
        PROVE  UNCHANGED rowTx
    BY <2>2 DEF Application, BeginTransaction, Publish, CallCommit, Rollback
  <2>3. ASSUME NEW p \in Publishers, Execute(p)
        PROVE  rowTx'[m] = rowTx[m]
    <3>1. rowTx[m] # NoTx
      BY TxAssumption DEF Durable
    <3> QED BY <2>3, <3>1 DEF Execute, OwnInv, ExecuteIsNew, Shape, TypeOK
  <2>4. ASSUME NEW p \in Publishers, Step(p)
        PROVE  rowTx'[m] = rowTx[m]
    BY <2>3, <2>4
    DEF Step, ExecuteThrows, AddToSent, Commit, CommitThrows, Flush, FlushDone, Dispose
  <2> QED BY <2>1, <2>2, <2>4 DEF Next
<1> QED BY <1>1, <1>2, DurableStays

(* A step hands over at most one message, of the buffer of its publisher.  *)
LEMMA HandsOver ==
    ASSUME Shape, NEW p \in Publishers, Step(p) \/ Application(p)
    PROVE  \/ enqueued' = enqueued
           \/ \E h \in Ids : /\ pc[p] = "flush" /\ InSeq(h, bufferList[p])
                             /\ enqueued' = Append(enqueued, h)
<1> USE DEF pubVars
<1>1. CASE Flush(p)
  BY <1>1, TailMembers DEF Flush, Shape, TypeOK
<1>2. CASE ~Flush(p)
  BY <1>2
  DEF Step, Execute, ExecuteThrows, AddToSent, Commit, CommitThrows, FlushDone, Dispose,
      Application, BeginTransaction, Publish, CallCommit, Rollback
<1> QED BY <1>1, <1>2

-----------------------------------------------------------------------------
(* p has yet to hand m over in its running call.                           *)
ToFlush(p, m) ==
    \/ current[p] = m /\ ~InSeq(m, enqueued)
    \/ pc[p] = "flush" /\ InSeq(m, bufferList[p])

LEMMA ToFlushOnce ==
    ASSUME OnceInv, OwnInv, NEW p \in Publishers, NEW q \in Publishers, NEW m \in Ids,
           ToFlush(p, m), ToFlush(q, m)
    PROVE  p = q /\ ~InSeq(m, enqueued)
<1>1. m # 0
  BY DEF Ids
<1>2. ~InSeq(m, enqueued)
  BY DEF ToFlush, OnceInv, BuffersSeparate
<1>3. p = q
  BY <1>1 DEF ToFlush, OnceInv, BuffersSeparate, OwnInv, CurrentIsOwn
<1> QED BY <1>2, <1>3

(* The transaction of p is over and was not committed by a Commit that     *)
(* returned.                                                               *)
Spent(p) == dbTransaction[p] \in Transactions /\ tx[dbTransaction[p]] \in {"rolledBack", "unacked"}

(* What is in a buffer is on its way out, or on the open transaction, or   *)
(* stays there for ever.                                                   *)
Follows(m, p) ==
    \/ pc[p] = "flush"
    \/ pc[p] = "commit" /\ m = current[p] /\ dbTransaction[p] = Noop
    \/ Open(p) /\ rowTx[m] = dbTransaction[p]
    \/ Spent(p)

BufferFollows == \A p \in Publishers : \A m \in Ids : InSeq(m, bufferList[p]) => Follows(m, p)

FollowInv == RowIsOwn /\ BufferFollows

LEMMA FollowInit == Init => FollowInv
  BY DEF Init, FollowInv, RowIsOwn, BufferFollows, InSeq

(* Steps inside a call of p that put no message into a buffer.             *)
LEMMA FollowInside ==
    ASSUME Shape, UseInv, FollowInv, NEW p \in Publishers, Inside(p), UNCHANGED rowTx,
           pc'[p] # "addToSent",
           \A q \in Publishers : q # p => bufferList'[q] = bufferList[q],
           \A m \in Ids : InSeq(m, bufferList'[p]) => InSeq(m, bufferList[p]),
           \A m \in Ids : InSeq(m, bufferList'[p]) /\ Follows(m, p) => Follows(m, p)'
    PROVE  FollowInv'
<1> USE DEF Inside, pubVars
<1>1. RowIsOwn'
  BY DEF FollowInv, RowIsOwn
<1>2. ASSUME NEW q \in Publishers, q # p, NEW m \in Ids, Follows(m, q)
      PROVE  Follows(m, q)'
  <2>1. dbTransaction[q] \in Transactions => tx'[dbTransaction[q]] = tx[dbTransaction[q]]
    BY <1>2 DEF UseInv, TransactionsAreOwn
  <2> QED BY <1>2, <2>1 DEF Follows, Open, Spent
<1>3. ASSUME NEW q \in Publishers, NEW m \in Ids, InSeq(m, bufferList'[q])
      PROVE  Follows(m, q)'
  <2>1. Follows(m, q)
    BY <1>3 DEF FollowInv, BufferFollows
  <2> QED BY <1>2, <1>3, <2>1
<1> QED BY <1>1, <1>3 DEF FollowInv, BufferFollows

LEMMA FollowNext ==
    ASSUME ~MixedUse, ~ReuseAfterRollback, Shape, OnceInv, UseInv, FollowInv, [Next]_vars
    PROVE  FollowInv'
<1> USE DEF pubVars
<1>1. CASE UNCHANGED vars
  BY <1>1 DEF vars, FollowInv, RowIsOwn, BufferFollows, Follows, Open, Spent
<1>2. CASE Crash
  BY <1>2 DEF Crash, FollowInv, RowIsOwn, BufferFollows, InSeq
<1>3. ASSUME NEW p \in Publishers, Application(p)
      PROVE  FollowInv'
  <2>1. ASSUME NEW t \in Transactions, NEW auto \in BOOLEAN, BeginTransaction(p, t, auto)
        PROVE  FollowInv'
    <3>1. /\ pc[p] = "idle" /\ tx[t] = "unused" /\ ~Open(p) /\ ~Spent(p)
          /\ tx' = [tx EXCEPT ![t] = "active"]
          /\ dbTransaction' = [dbTransaction EXCEPT ![p] = t]
          /\ UNCHANGED <<bufferList, pc, current, rowTx>>
      BY <2>1 DEF BeginTransaction, Spent
    <3>2. /\ \A q \in Publishers : q # p => dbTransaction'[q] = dbTransaction[q]
          /\ \A u \in Transactions : u # t => tx'[u] = tx[u]
      BY <3>1 DEF Shape, TypeOK
    <3>3. \A m \in Ids : ~InSeq(m, bufferList[p])
      BY <3>1 DEF FollowInv, BufferFollows, Follows
    <3>4. \A q \in Publishers : \A m \in Ids : q # p /\ Follows(m, q) => Follows(m, q)'
      BY <3>1, <3>2 DEF Follows, Open, Spent
    <3>5. BufferFollows'
      BY <3>1, <3>3, <3>4 DEF FollowInv, BufferFollows
    <3>6. RowIsOwn'
      BY <3>1, <3>2 DEF FollowInv, RowIsOwn
    <3> QED BY <3>5, <3>6 DEF FollowInv
  <2>2. CASE Publish(p)
    <3>1. /\ pc[p] = "idle" /\ pc' = [pc EXCEPT ![p] = "execute"]
          /\ \A q \in Publishers : q # p => /\ current'[q] = current[q] /\ pc'[q] = pc[q]
                                            /\ dbTransaction'[q] = dbTransaction[q]
          /\ dbTransaction[p] # NoTx => dbTransaction'[p] = dbTransaction[p]
          /\ UNCHANGED <<bufferList, rowTx, tx>>
      BY <2>2 DEF Publish, Shape, TypeOK
    <3>2. \A q \in Publishers : \A m \in Ids : Follows(m, q) => Follows(m, q)'
      BY <3>1, TxAssumption DEF Follows, Open, Spent
    <3>3. BufferFollows'
      BY <3>1, <3>2 DEF FollowInv, BufferFollows
    <3>4. RowIsOwn'
      BY <3>1 DEF FollowInv, RowIsOwn, Shape, TypeOK
    <3> QED BY <3>3, <3>4 DEF FollowInv
  <2>3. CASE CallCommit(p) \/ Rollback(p)
    <3>1. Inside(p) /\ UNCHANGED <<rowTx, bufferList>> /\ pc'[p] # "addToSent"
      BY <2>3, StepIsInside DEF CallCommit, Rollback, Shape, TypeOK
    <3>2. \A m \in Ids : Follows(m, p) => Follows(m, p)'
      BY <2>3 DEF CallCommit, Rollback, Follows, Open, Spent, Shape, TypeOK
    <3> QED BY <3>1, <3>2, FollowInside
  <2> QED BY <1>3, <2>1, <2>2, <2>3 DEF Application
<1>4. ASSUME NEW p \in Publishers, Step(p)
      PROVE  FollowInv'
  <2>0. Inside(p)
    BY <1>4, StepIsInside
  <2>1. CASE Execute(p)
    <3> DEFINE e == current[p]
    <3>1. /\ Writing(p) /\ e \in Ids
          /\ rowTx' = [rowTx EXCEPT ![e] = IF notUseTransaction[p] THEN Noop ELSE dbTransaction[p]]
          /\ pc[p] = "execute" /\ pc' = [pc EXCEPT ![p] = "addToSent"]
          /\ UNCHANGED <<bufferList, current, dbTransaction, tx>>
      BY <2>1 DEF Execute, Shape, WritingHasMessage, Writing
    <3>2. Unplaced(e)
      BY <3>1 DEF OnceInv, WritingIsUnplaced
    <3>3. rowTx'[e] = dbTransaction[p]
      BY <3>1 DEF UseInv, NotUseIsNoop, Shape, TypeOK
    <3>4. \A q \in Publishers : q # p /\ pc[q] = "addToSent" => current[q] # e
      BY <3>1 DEF OnceInv, WritingIsUnplaced, Writing
    <3>5. RowIsOwn'
      BY <3>1, <3>3, <3>4 DEF FollowInv, RowIsOwn, Shape, TypeOK, WritingHasMessage, Writing
    <3>6. ASSUME NEW q \in Publishers, NEW m \in Ids, InSeq(m, bufferList[q])
          PROVE  Follows(m, q)'
      <4>1. m # e /\ rowTx'[m] = rowTx[m]
        BY <3>1, <3>2, <3>6 DEF Unplaced, Shape, TypeOK
      <4> QED BY <3>1, <3>6, <4>1 DEF FollowInv, BufferFollows, Follows, Open, Spent, Shape, TypeOK
    <3> QED BY <3>1, <3>5, <3>6 DEF FollowInv, BufferFollows
  <2>2. CASE ExecuteThrows(p)
    <3>1. Finally(p) /\ UNCHANGED <<bufferList, rowTx, tx, dbTransaction>> /\ pc[p] = "execute"
      BY <2>2 DEF ExecuteThrows
    <3>2. \A m \in Ids : Follows(m, p) => Follows(m, p)'
      BY <3>1 DEF Follows, Open, Spent
    <3> QED BY <2>0, <3>1, <3>2, FinallyEnds, FollowInside
  <2>3. CASE AddToSent(p)
    <3>0. PICK e \in Ids : e = current[p]
      BY <2>3 DEF AddToSent, Shape, WritingHasMessage, Writing
    <3>1. /\ bufferList[p] \in Seq(Ids) /\ pc[p] = "addToSent"
          /\ bufferList' = [bufferList EXCEPT ![p] = Append(@, e)]
          /\ UNCHANGED <<rowTx, tx, dbTransaction>>
      BY <2>3, <3>0 DEF AddToSent, Shape, TypeOK
    <3>2. /\ \A m : InSeq(m, bufferList'[p]) => InSeq(m, bufferList[p]) \/ m = e
          /\ \A q \in Publishers : q # p => bufferList'[q] = bufferList[q]
      BY <3>1, AppendMembers DEF Shape, TypeOK
    <3>3. /\ pc'[p] # "addToSent"
          /\ dbTransaction[p] = Noop => pc'[p] = "commit" /\ current'[p] = e
      <4>1. CASE CommitsItself(p)
        BY <2>3, <3>0, <4>1 DEF AddToSent, Shape, TypeOK
      <4>2. CASE ~CommitsItself(p)
        <5>1. dbTransaction[p] # Noop /\ Finally(p)
          BY <2>3, <4>2 DEF AddToSent, CommitsItself, UseInv, NotUseIsNoop
        <5> QED BY <5>1, FinallyEnds
      <4> QED BY <4>1, <4>2
    <3>4. rowTx[e] = dbTransaction[p] /\ Backed(p)
      BY <3>0, <3>1 DEF FollowInv, RowIsOwn, UseInv, WritingIsBacked
    <3>5. Follows(e, p)'
      BY <3>1, <3>3, <3>4 DEF Follows, Backed, Open
    <3>6. /\ \A q \in Publishers : (Open(q)' <=> Open(q)) /\ (Spent(q)' <=> Spent(q))
          /\ rowTx' = rowTx /\ dbTransaction' = dbTransaction
          /\ \A q \in Publishers : q # p => pc'[q] = pc[q] /\ current'[q] = current[q]
      BY <2>0, <3>1 DEF Open, Spent, Inside
    <3>7. ASSUME NEW q \in Publishers, NEW m \in Ids, InSeq(m, bufferList'[q])
          PROVE  Follows(m, q)'
      <4>1. ASSUME Follows(m, q)
            PROVE  Follows(m, q)'
        <5>1. CASE q = p
          BY <3>1, <3>6, <4>1, <5>1 DEF Follows
        <5>2. CASE q # p
          BY <3>6, <4>1, <5>2 DEF Follows
        <5> QED BY <5>1, <5>2
      <4>2. InSeq(m, bufferList[q]) => Follows(m, q)
        BY DEF FollowInv, BufferFollows
      <4>3. InSeq(m, bufferList[q]) \/ (q = p /\ m = e)
        BY <3>2, <3>7
      <4> QED BY <3>5, <4>1, <4>2, <4>3
    <3>8. RowIsOwn'
      BY <2>0, <3>1, <3>3 DEF Inside, FollowInv, RowIsOwn
    <3> QED BY <3>7, <3>8 DEF FollowInv, BufferFollows
  <2>4. CASE Commit(p)
    <3>1. UNCHANGED <<rowTx, bufferList>> /\ pc'[p] = "flush"
      BY <2>4 DEF Commit, Shape, TypeOK
    <3> QED BY <2>0, <3>1, FollowInside DEF Follows
  <2>5. CASE CommitThrows(p)
    <3>1. /\ Finally(p) /\ UNCHANGED <<rowTx, bufferList, dbTransaction>>
          /\ pc[p] = "commit" /\ dbTransaction[p] \in Transactions
          /\ Open(p) => tx'[dbTransaction[p]] \in {"active", "rolledBack", "unacked"}
          /\ ~Open(p) => UNCHANGED tx
      BY <2>5 DEF CommitThrows, Shape, TypeOK, Open
    <3>2. \A m \in Ids : Follows(m, p) => Follows(m, p)'
      BY <3>1, TxAssumption DEF Follows, Open, Spent
    <3> QED BY <2>0, <3>1, <3>2, FinallyEnds, FollowInside
  <2>6. CASE Flush(p)
    <3>1. /\ bufferList[p] \in Seq(Ids) /\ bufferList[p] # <<>> /\ pc[p] = "flush"
          /\ bufferList' = [bufferList EXCEPT ![p] = Tail(@)]
          /\ UNCHANGED <<pc, rowTx>>
      BY <2>6 DEF Flush, Shape, TypeOK
    <3>2. /\ \A q \in Publishers : q # p => bufferList'[q] = bufferList[q]
          /\ \A m \in Ids : InSeq(m, bufferList'[p]) => InSeq(m, bufferList[p])
      BY <3>1, TailMembers DEF Shape, TypeOK
    <3> QED BY <2>0, <3>1, <3>2, FollowInside DEF Follows
  <2>7. CASE FlushDone(p)
    <3>1. Finally(p) /\ UNCHANGED <<rowTx, bufferList>> /\ bufferList[p] = <<>>
      BY <2>7 DEF FlushDone
    <3>2. \A m \in Ids : ~InSeq(m, bufferList'[p])
      BY <3>1 DEF InSeq
    <3> QED BY <2>0, <3>1, <3>2, FinallyEnds, FollowInside
  <2>8. CASE Dispose(p)
    <3>1. /\ UNCHANGED <<rowTx, bufferList, dbTransaction>> /\ pc[p] = "dispose" /\ pc'[p] = "idle"
          /\ Open(p) => tx'[dbTransaction[p]] = "rolledBack"
          /\ ~Open(p) => UNCHANGED tx
      BY <2>8 DEF Dispose, Shape, TypeOK, Open
    <3>2. \A m \in Ids : Follows(m, p) => Follows(m, p)'
      BY <3>1 DEF Follows, Open, Spent
    <3> QED BY <2>0, <3>1, <3>2, FollowInside
  <2> QED BY <1>4, <2>1, <2>2, <2>3, <2>4, <2>5, <2>6, <2>7, <2>8 DEF Step
<1> QED BY <1>1, <1>2, <1>3, <1>4 DEF Next

(* A message that a call comes to have to hand over was not durable        *)
(* before, so that nobody else can have seen its row.                      *)
LEMMA ToFlushIsNew ==
    ASSUME Shape, OnceInv, FollowInv, NEW p \in Publishers, Step(p) \/ Application(p),
           NEW q \in Publishers, NEW m \in Ids, ToFlush(q, m)'
    PROVE  ToFlush(q, m) \/ ~Durable(m)
<1> USE DEF pubVars
<1>0. m # 0
  BY DEF Ids
<1>1. CASE Publish(p)
  <2>1. /\ current'[p] = nextId /\ pc'[p] # "flush"
        /\ q # p => current'[q] = current[q] /\ pc'[q] = pc[q]
        /\ UNCHANGED <<bufferList, enqueued>>
    BY <1>1 DEF Publish, Shape, TypeOK
  <2>2. m = nextId => ~Durable(m)
    BY BoundAssumption, TxAssumption DEF OnceInv, FreshIds, Durable, Ids
  <2> QED BY <2>1, <2>2 DEF ToFlush
<1>2. CASE Commit(p)
  <2>1. /\ dbTransaction[p] = Noop \/ Open(p)
        /\ pc[p] = "commit"
        /\ q # p => pc'[q] = pc[q]
        /\ UNCHANGED <<bufferList, enqueued, current>>
    BY <1>2 DEF Commit, Shape, TypeOK
  <2>2. CASE q # p
    BY <2>1, <2>2 DEF ToFlush
  <2>3. CASE q = p /\ current[p] = m
    BY <2>1, <2>3 DEF ToFlush, OnceInv, BuffersSeparate
  <2>4. CASE q = p /\ current[p] # m
    <3>1. InSeq(m, bufferList[p])
      BY <2>1, <2>4 DEF ToFlush
    <3>2. Open(p) /\ rowTx[m] = dbTransaction[p]
      BY <2>1, <2>4, <3>1, TxAssumption DEF FollowInv, BufferFollows, Follows, Open, Spent
    <3> QED BY <3>2, TxAssumption DEF Durable, Open
  <2> QED BY <2>2, <2>3, <2>4
<1>3. CASE Flush(p)
  <2>1. /\ bufferList[p] \in Seq(Ids) /\ bufferList[p] # <<>> /\ enqueued \in Seq(Ids)
        /\ Head(bufferList[p]) \in Ids
        /\ bufferList' = [bufferList EXCEPT ![p] = Tail(@)]
        /\ enqueued' = Append(enqueued, Head(bufferList[p]))
        /\ UNCHANGED <<pc, current>>
    BY <1>3, TailMembers DEF Flush, Shape, TypeOK
  <2>2. InSeq(m, bufferList'[q]) => InSeq(m, bufferList[q])
    BY <2>1, TailMembers DEF Shape, TypeOK
  <2>3. InSeq(m, enqueued) => InSeq(m, enqueued')
    BY <2>1, AppendMembers
  <2> QED BY <2>1, <2>2, <2>3 DEF ToFlush
<1>4. CASE AddToSent(p)
  <2>1. /\ UNCHANGED enqueued /\ pc'[p] # "flush"
        /\ \A r \in Publishers : r # p => bufferList'[r] = bufferList[r]
    <3>1. CASE CommitsItself(p)
      BY <1>4, <3>1 DEF AddToSent, Shape, TypeOK
    <3>2. CASE ~CommitsItself(p)
      <4>1. Finally(p)
        BY <1>4, <3>2 DEF AddToSent
      <4> QED BY <1>4, <4>1, FinallyEnds DEF AddToSent, Shape, TypeOK
    <3> QED BY <3>1, <3>2
  <2>2. /\ current'[q] \in {0, current[q]}
        /\ q # p => pc'[q] = pc[q]
    <3>1. CASE CommitsItself(p)
      BY <1>4, <3>1 DEF AddToSent, Shape, TypeOK
    <3>2. CASE ~CommitsItself(p)
      <4>1. Finally(p)
        BY <1>4, <3>2 DEF AddToSent
      <4> QED BY <4>1, FinallyEnds
    <3> QED BY <3>1, <3>2
  <2> QED BY <1>0, <2>1, <2>2 DEF ToFlush
<1>5. CASE ExecuteThrows(p) \/ CommitThrows(p) \/ FlushDone(p)
  <2>1. Finally(p) /\ UNCHANGED <<bufferList, enqueued>>
    BY <1>5 DEF ExecuteThrows, CommitThrows, FlushDone
  <2>2. current'[q] \in {0, current[q]} /\ (pc'[q] = "flush" => pc[q] = "flush")
    BY <2>1, FinallyEnds
  <2> QED BY <1>0, <2>1, <2>2 DEF ToFlush
<1>6. CASE \/ Execute(p) \/ Dispose(p) \/ CallCommit(p) \/ Rollback(p)
           \/ \E t \in Transactions, auto \in BOOLEAN : BeginTransaction(p, t, auto)
  <2>1. UNCHANGED <<bufferList, enqueued>>
    BY <1>6 DEF Execute, Dispose, CallCommit, Rollback, BeginTransaction
  <2>2. current'[q] \in {0, current[q]} /\ (pc'[q] = "flush" => pc[q] = "flush")
    BY <1>6 DEF Execute, Dispose, CallCommit, Rollback, BeginTransaction, Shape, TypeOK
  <2> QED BY <1>0, <2>1, <2>2 DEF ToFlush
<1> QED BY <1>1, <1>2, <1>3, <1>4, <1>5, <1>6 DEF Step, Application

(* Another process dies: for the publishers only the count changes.        *)
LEMMA CrashElsewhere ==
    ASSUME Shape, OnceInv, OwnInv, crashes' \in 0 .. MaxCrashes,
           UNCHANGED <<pubVars, bufferList, pc, current, rowTx, tx, outcome, nextId, enqueued>>
    PROVE  /\ Shape' /\ OnceInv' /\ OwnInv'
           /\ DurableInv => DurableInv'
           /\ UseInv => UseInv'
           /\ FollowInv => FollowInv'
<1> USE DEF pubVars
<1>1. Shape'
  BY DEF Shape, TypeOK, WritingHasMessage, Writing
<1>2. OnceInv'
  BY OnceQuiet DEF Writing
<1>3. OwnInv'
  BY OwnQuiet
<1>4. DurableInv => DurableInv'
  BY DEF DurableInv, BufferBelongs, CurrentBelongs, FlushedIsDurable, SentIsDurable, Belongs, Durable
<1>5. UseInv => UseInv'
  BY DEF UseInv, IdleHasNoMessage, TransactionsAreOwn, NotUseIsNoop, CommitIsWanted,
         WritingIsBacked, Backed, Open, InPublish, CommitsItself
<1>6. FollowInv => FollowInv'
  BY DEF FollowInv, RowIsOwn, BufferFollows, Follows, Open, Spent
<1> QED BY <1>1, <1>2, <1>3, <1>4, <1>5, <1>6

-----------------------------------------------------------------------------
(* The inductive invariant behind the next two: types, and the places a    *)
(* message can be in (a running Publish, one buffer, the dispatcher), of   *)
(* which it is in one.                                                     *)
THEOREM Invariance == Spec => [](Shape /\ OnceInv)
<1>1. Init => Shape /\ OnceInv
  BY ShapeInit, OnceInit
<1>2. Shape /\ OnceInv /\ [Next]_vars => (Shape /\ OnceInv)'
  BY ShapeNext, OnceNext
<1> QED BY <1>1, <1>2, PTL DEF Spec

(* The variables of the publishers have their types.                       *)
THEOREM TypeCorrect == Spec => []TypeOK
<1>1. Shape => TypeOK
  BY DEF Shape
<1> QED BY <1>1, Invariance, PTL

(* No message is handed to the dispatcher twice, however its publisher is  *)
(* used.                                                                   *)
THEOREM HandedOverOnce == Spec => []EnqueuedOnce
<1>1. OnceInv => EnqueuedOnce
  BY DEF OnceInv
<1> QED BY <1>1, Invariance, PTL

(* No phantom: if no publisher begins again after a transaction that did   *)
(* not commit, then whatever is handed to the dispatcher has a row that    *)
(* cannot be rolled back, for any mixed use of a publisher with and        *)
(* without transactions.                                                   *)
THEOREM NoPhantom == ~ReuseAfterRollback => (Spec => []EnqueuedIsDurable)
<1> SUFFICES ASSUME ~ReuseAfterRollback
             PROVE  Spec => []EnqueuedIsDurable
  OBVIOUS
<1>1. Init => DurableInv
  BY DurableInit
<1>2. Shape /\ OnceInv /\ DurableInv /\ [Next]_vars => DurableInv'
  BY DurableNext
<1>3. Shape /\ DurableInv => EnqueuedIsDurable
  BY DEF DurableInv, SentIsDurable, EnqueuedIsDurable, InSeq, Shape, TypeOK
<1> QED BY <1>1, <1>2, <1>3, Invariance, PTL DEF Spec

(* What a publisher that is not used both ways does with its transaction:  *)
(* it has one of its own, and commits it in a Publish only if it is to.    *)
THEOREM UseInvariance == ~MixedUse => (Spec => []UseInv)
<1> SUFFICES ASSUME ~MixedUse
             PROVE  Spec => []UseInv
  OBVIOUS
<1>1. Init => UseInv
  BY UseInit
<1>2. Shape /\ UseInv /\ [Next]_vars => UseInv'
  BY UseNext
<1> QED BY <1>1, <1>2, Invariance, PTL DEF Spec

(* If no publisher publishes without and then with a transaction, a        *)
(* transaction begun with autoCommit = false is committed by the           *)
(* application only, never in the course of a Publish: the counterexample  *)
(* of the sticky NotUseTransaction is the only way to it.                  *)
THEOREM CommitsWhenAsked == ~MixedUse => (Spec => CommittedWhenAsked)
<1> SUFFICES ASSUME ~MixedUse
             PROVE  Spec => CommittedWhenAsked
  OBVIOUS
<1>1. Shape /\ UseInv /\ [Next]_vars
          => [\A p \in Publishers, t \in Transactions :
                 /\ dbTransaction[p] = t /\ InPublish(p)
                 /\ tx[t] = "active" /\ tx'[t] = "committed"
                 => autoCommit[p]]_vars
  BY CommitIsOwn
<1> QED BY <1>1, Invariance, UseInvariance, PTL DEF Spec, CommittedWhenAsked

(* If no publisher mixes its uses, nothing that is committed waits in a    *)
(* buffer between two calls, even if publishers begin again after          *)
(* transactions that were rolled back.                                     *)
THEOREM NothingLeftBehind == ~MixedUse => (Spec => []NothingStranded)
<1> SUFFICES ASSUME ~MixedUse
             PROVE  Spec => []NothingStranded
  OBVIOUS
<1>1. Init => StrandedInv
  BY StrandedInit
<1>2. Shape /\ OnceInv /\ UseInv /\ StrandedInv /\ [Next]_vars => StrandedInv'
  BY StrandedNext
<1>3. Shape /\ StrandedInv => NothingStranded
  BY InHandIsNotStranded
<1> QED BY <1>1, <1>2, <1>3, Invariance, UseInvariance, PTL DEF Spec

(* If publishers neither mix their uses nor begin again after a            *)
(* transaction that did not commit, a message whose Publish threw is never *)
(* handed to the dispatcher, although it stays in the buffer.              *)
THEOREM ThrownIsNotSent ==
    ~MixedUse /\ ~ReuseAfterRollback => (Spec => []ThrewIsNotEnqueued)
<1> SUFFICES ASSUME ~MixedUse, ~ReuseAfterRollback
             PROVE  Spec => []ThrewIsNotEnqueued
  OBVIOUS
<1>1. Init => ThrewInv
  BY ThrewInit
<1>2. Shape /\ OnceInv /\ UseInv /\ ThrewInv /\ [Next]_vars => ThrewInv'
  BY ThrewNext
<1>3. Shape /\ ThrewInv => ThrewIsNotEnqueued
  BY DEF ThrewInv, SentDidNotThrow, ThrewIsNotEnqueued, InSeq, Shape, TypeOK
<1> QED BY <1>1, <1>2, <1>3, Invariance, UseInvariance, PTL DEF Spec

=============================================================================
