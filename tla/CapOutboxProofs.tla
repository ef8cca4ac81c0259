--------------------------- MODULE CapOutboxProofs --------------------------
(***************************************************************************)
(* Proofs about CapOutbox: that publishers and delivery together implement *)
(* the Outbox, on any number of nodes, and that on one node a message is   *)
(* in one place at a time, so that it is sent once and no late write takes *)
(* back what an earlier one recorded.                                      *)
(***************************************************************************)
EXTENDS CapOutbox, SequenceTheorems, FiniteSetTheorems, TLAPS

(* The two modules with what is proved of each; the first lemmas say that  *)
(* these are the operators that the composition is built from.             *)
PP == INSTANCE CapTransactionProofs
DD == INSTANCE MessageDeliveryProofs WITH Messages <- 1 .. MaxMessages

Ids == 1 .. MaxMessages

LEMMA SameIds == P!Ids = Ids /\ PP!Ids = Ids
  BY DEF P!Ids, PP!Ids, Ids

LEMMA SameRows ==
    ASSUME NEW m
    PROVE  /\ P!Durable(m) <=> PP!Durable(m)
           /\ P!Durable(m)' <=> PP!Durable(m)'
  BY DEF P!Durable, PP!Durable

LEMMA SameInSeq ==
    ASSUME NEW m, NEW s
    PROVE  P!InSeq(m, s) <=> PP!InSeq(m, s)
  BY DEF P!InSeq, PP!InSeq

LEMMA SameInit == Init => PP!Init /\ DD!Init
  BY DEF Init, P!Init, PP!Init, D!Init, DD!Init, P!Ids, PP!Ids, D!Workers, DD!Workers,
         D!NoCopy, DD!NoCopy

(* What a publisher's steps share.                                         *)
LEMMA SamePublisher ==
    ASSUME NEW p \in Publishers, P!Step(p) \/ P!Application(p)
    PROVE  (PP!Step(p) \/ PP!Application(p)) /\ PP!Next
<1> USE DEF P!pubVars, PP!pubVars, P!InPublish, PP!InPublish, P!CommitsItself, PP!CommitsItself,
            P!Open, PP!Open, P!Ends, PP!Ends, P!Finally, PP!Finally
<1>1. /\ P!Execute(p) => PP!Execute(p)
      /\ P!ExecuteThrows(p) => PP!ExecuteThrows(p)
      /\ P!AddToSent(p) => PP!AddToSent(p)
  BY DEF P!Execute, PP!Execute, P!ExecuteThrows, PP!ExecuteThrows, P!AddToSent, PP!AddToSent
<1>2. /\ P!Commit(p) => PP!Commit(p)
      /\ P!CommitThrows(p) => PP!CommitThrows(p)
  BY DEF P!Commit, PP!Commit, P!CommitThrows, PP!CommitThrows
<1>3. /\ P!Flush(p) => PP!Flush(p)
      /\ P!FlushDone(p) => PP!FlushDone(p)
      /\ P!Dispose(p) => PP!Dispose(p)
  BY DEF P!Flush, PP!Flush, P!FlushDone, PP!FlushDone, P!Dispose, PP!Dispose
<1>4. /\ P!Publish(p) => PP!Publish(p)
      /\ P!CallCommit(p) => PP!CallCommit(p)
      /\ P!Rollback(p) => PP!Rollback(p)
  BY DEF P!Publish, PP!Publish, P!CallCommit, PP!CallCommit, P!Rollback, PP!Rollback
<1>5. ASSUME NEW t \in Transactions, NEW auto \in BOOLEAN, P!BeginTransaction(p, t, auto)
      PROVE  PP!BeginTransaction(p, t, auto)
  BY <1>5 DEF P!BeginTransaction, PP!BeginTransaction
<1>6. PP!Step(p) \/ PP!Application(p)
  BY <1>1, <1>2, <1>3, <1>4, <1>5 DEF P!Step, PP!Step, P!Application, PP!Application
<1> QED BY <1>6 DEF PP!Next

LEMMA SameSender ==
    ASSUME NEW w \in D!Workers, D!SendAsync(w)
    PROVE  w \in DD!Workers /\ DD!SendAsync(w)
<1> USE DEF D!rowVars, DD!rowVars, D!memVars, DD!memVars, D!faultVars, DD!faultVars,
            D!Release, DD!Release, D!NoCopy, DD!NoCopy, D!RetryCount, DD!RetryCount,
            D!Lesser, DD!Lesser, D!Abandon, DD!Abandon
<1>1. /\ D!SendSucceeds(w) => DD!SendSucceeds(w)
      /\ D!SendThrows(w) => DD!SendThrows(w)
      /\ D!WriteThrows(w) => DD!WriteThrows(w)
  BY DEF D!SendSucceeds, DD!SendSucceeds, D!SendThrows, DD!SendThrows, D!WriteThrows, DD!WriteThrows
<1>2. D!SendFails(w) => DD!SendFails(w)
  BY DEF D!SendFails, DD!SendFails, D!Report, DD!Report
<1>3. /\ D!SetSucceededState(w) => DD!SetSucceededState(w)
      /\ D!SetFailedState(w) => DD!SetFailedState(w)
  BY DEF D!SetSucceededState, DD!SetSucceededState, D!SetFailedState, DD!SetFailedState,
         D!Write, DD!Write
<1> QED BY <1>1, <1>2, <1>3 DEF D!SendAsync, DD!SendAsync, D!Workers, DD!Workers

LEMMA SameNode ==
    ASSUME NEW n \in Nodes
    PROVE  /\ D!Take(n) => DD!Take(n)
           /\ D!Scan(n) => DD!Scan(n)
           /\ D!PickFromBatch(n) => DD!PickFromBatch(n)
           /\ D!Crash(n) => DD!Crash(n)
<1> USE DEF D!rowVars, DD!rowVars, D!faultVars, DD!faultVars
<1>1. D!Take(n) => DD!Take(n)
  BY DEF D!Take, DD!Take
<1>2. \A m \in 1 .. MaxMessages : D!NeedRetry(m) <=> DD!NeedRetry(m)
  BY DEF D!NeedRetry, DD!NeedRetry, D!Unsettled, DD!Unsettled
<1>3. D!Scan(n) => DD!Scan(n)
  BY <1>2 DEF D!Scan, DD!Scan
<1>4. D!PickFromBatch(n) => DD!PickFromBatch(n)
  BY DEF D!PickFromBatch, DD!PickFromBatch
<1>5. D!Crash(n) => DD!Crash(n)
  BY DEF D!Crash, DD!Crash, D!NoCopy, DD!NoCopy, D!Workers, DD!Workers
<1> QED BY <1>1, <1>3, <1>4, <1>5

LEMMA SameRow ==
    ASSUME NEW m \in Ids
    PROVE  /\ D!InMemory(m) <=> DD!InMemory(m)
           /\ D!Age(m) => DD!Age(m)
           /\ D!Expire(m) => DD!Expire(m)
           /\ D!Collect(m) => DD!Collect(m)
<1> USE DEF D!memVars, DD!memVars, D!faultVars, DD!faultVars
<1>1. D!InMemory(m) <=> DD!InMemory(m)
  BY DEF D!InMemory, DD!InMemory, D!Queued, DD!Queued, D!Fetched, DD!Fetched, D!Holders,
         DD!Holders, D!Workers, DD!Workers
<1>2. D!Age(m) => DD!Age(m)
  BY <1>1 DEF D!Age, DD!Age
<1>3. D!Expire(m) => DD!Expire(m)
  BY <1>1 DEF D!Expire, DD!Expire, D!Unsettled, DD!Unsettled
<1>4. D!Collect(m) => DD!Collect(m)
  BY DEF D!Collect, DD!Collect
<1> QED BY <1>1, <1>2, <1>3, <1>4

-----------------------------------------------------------------------------
(* What the publishers know of each other and of their transactions.       *)
PubInv == PP!Shape /\ PP!OnceInv /\ PP!OwnInv

(* The delivery sees the rows that are durable, and no others.             *)
RowsMatch == \A m \in Ids : status[m] = "Absent" <=> ~PP!Durable(m)

(* The inductive invariant for any number of nodes.                        *)
OutboxInv == PubInv /\ PP!DurableInv /\ RowsMatch /\ DD!IInv

(* With several nodes, steps of the others leave the publishers alone.     *)
PublishersStay == UNCHANGED publisherVars /\ crashes' \in 0 .. MaxCrashes

LEMMA PublishersKeep ==
    ASSUME PubInv, [PP!Next]_PP!vars \/ PublishersStay
    PROVE  /\ PubInv'
           /\ ~ReuseAfterRollback /\ PP!DurableInv => PP!DurableInv'
           /\ ~MixedUse /\ PP!UseInv => PP!UseInv'
           /\ ~MixedUse /\ ~ReuseAfterRollback /\ PP!UseInv /\ PP!FollowInv => PP!FollowInv'
           /\ \A m \in Ids : PP!Durable(m) => PP!Durable(m)'
<1> USE DEF PubInv
<1>1. CASE [PP!Next]_PP!vars
  <2>1. PP!Shape' /\ PP!OnceInv' /\ PP!OwnInv'
    BY <1>1, PP!ShapeNext, PP!OnceNext, PP!OwnNext, TxAssumption, BoundAssumption, UseAssumption
  <2>2. ~ReuseAfterRollback /\ PP!DurableInv => PP!DurableInv'
    BY <1>1, PP!DurableNext, TxAssumption, BoundAssumption, UseAssumption
  <2>3. ~MixedUse /\ PP!UseInv => PP!UseInv'
    BY <1>1, PP!UseNext, TxAssumption, BoundAssumption, UseAssumption
  <2>4. ~MixedUse /\ ~ReuseAfterRollback /\ PP!UseInv /\ PP!FollowInv => PP!FollowInv'
    BY <1>1, PP!FollowNext, TxAssumption, BoundAssumption, UseAssumption
  <2>5. \A m \in Ids : PP!Durable(m) => PP!Durable(m)'
    BY <1>1, SameIds, PP!DurableForever, TxAssumption, BoundAssumption, UseAssumption
  <2> QED BY <2>1, <2>2, <2>3, <2>4, <2>5
<1>2. CASE PublishersStay
  <2>1. /\ PP!Shape' /\ PP!OnceInv' /\ PP!OwnInv'
        /\ PP!DurableInv => PP!DurableInv'
        /\ PP!UseInv => PP!UseInv'
        /\ PP!FollowInv => PP!FollowInv'
    BY <1>2, PP!CrashElsewhere, TxAssumption, BoundAssumption, UseAssumption
    DEF PublishersStay, publisherVars, PP!pubVars
  <2>2. \A m \in Ids : PP!Durable(m) => PP!Durable(m)'
    BY <1>2 DEF PublishersStay, publisherVars, PP!Durable
  <2> QED BY <2>1, <2>2
<1> QED BY <1>1, <1>2

LEMMA OutboxInit == Init => OutboxInv
<1> SUFFICES ASSUME Init PROVE OutboxInv
  OBVIOUS
<1>1. PP!Init /\ DD!Init
  BY SameInit
<1>2. PubInv /\ PP!DurableInv
  BY <1>1, PP!ShapeInit, PP!OnceInit, PP!OwnInit, PP!DurableInit,
     TxAssumption, BoundAssumption, UseAssumption DEF PubInv
<1>3. DD!IInv
  BY <1>1, DD!Initial, NoMessageAssumption, RetryAssumption, FlagAssumption, FaultAssumption
<1>4. RowsMatch
  BY <1>1, TxAssumption DEF RowsMatch, PP!Init, DD!Init, PP!Durable, PP!Ids, Ids
<1> QED BY <1>2, <1>3, <1>4 DEF OutboxInv

(* A step of a publisher puts at most one message into the queue, and that *)
(* one was in the buffer it flushes.                                       *)
LEMMA HandsOver ==
    ASSUME PubInv, DD!TypeOK, NEW p \in Publishers, P!Step(p) \/ P!Application(p), Handover
    PROVE  \/ enqueued' = enqueued /\ queue' = queue
           \/ \E h \in Ids : /\ pc[p] = "flush" /\ PP!InSeq(h, bufferList[p])
                             /\ enqueued' = Append(enqueued, h)
                             /\ queue' = [queue EXCEPT ![Home] = Append(@, h)]
<1>0. Home \in Nodes /\ queue \in [Nodes -> Seq(Ids)] /\ enqueued \in Seq(Ids)
  BY HomeAssumption, SameIds DEF DD!TypeOK, PubInv, PP!Shape, PP!TypeOK, Ids
<1>1. CASE enqueued' = enqueued
  <2>1. SubSeq(enqueued', Len(enqueued) + 1, Len(enqueued')) = <<>>
    BY <1>0, <1>1
  <2>2. queue[Home] \o <<>> = queue[Home]
    BY <1>0
  <2> QED BY <1>0, <1>1, <2>1, <2>2 DEF Handover
<1>2. ASSUME NEW h \in Ids, pc[p] = "flush", PP!InSeq(h, bufferList[p]),
             enqueued' = Append(enqueued, h)
      PROVE  queue' = [queue EXCEPT ![Home] = Append(@, h)]
  <2>1. SubSeq(enqueued', Len(enqueued) + 1, Len(enqueued')) = <<h>>
    <3>1. PICK k \in Nat : k = Len(enqueued) + 1
      BY <1>0
    <3>2. enqueued' \in Seq(Ids) /\ Len(enqueued') = k /\ k \in 1 .. k /\ enqueued'[k] = h
      BY <1>0, <1>2, <3>1
    <3>3. SubSeq(enqueued', k, k) = <<enqueued'[k]>> \o SubSeq(enqueued', k + 1, k)
      BY <3>2, SubSeqRecursiveFirst
    <3>4. SubSeq(enqueued', k + 1, k) = <<>>
      BY <3>2
    <3>5. <<h>> \o <<>> = <<h>>
      OBVIOUS
    <3>6. SubSeq(enqueued', k, k) = <<h>>
      BY <3>2, <3>3, <3>4, <3>5
    <3> QED BY <3>1, <3>2, <3>6
  <2>2. queue[Home] \o <<h>> = Append(queue[Home], h)
    BY <1>0
  <2> QED BY <1>0, <2>1, <2>2 DEF Handover
<1>3. \/ enqueued' = enqueued
      \/ \E h \in Ids : /\ pc[p] = "flush" /\ PP!InSeq(h, bufferList[p])
                        /\ enqueued' = Append(enqueued, h)
  BY SamePublisher, SameIds, PP!HandsOver, TxAssumption, BoundAssumption, UseAssumption DEF PubInv
<1> QED BY <1>1, <1>2, <1>3

(* What a publisher's step does to the rows.                               *)
LEMMA RowsOfPublisher ==
    ASSUME OutboxInv, RowsAppear, NEW p \in Publishers, P!Step(p) \/ P!Application(p)
    PROVE  /\ RowsMatch'
           /\ \A m \in Ids : status[m] # "Absent" => status'[m] = status[m]
           /\ \A m \in Ids : status[m] = "Absent" => status'[m] \in {"Absent", "Scheduled"}
           /\ status' \in [Ids -> {"Absent", "Scheduled", "Failed", "Succeeded", "Deleted"}]
<1>1. status' = [m \in Ids |-> IF status[m] = "Absent" /\ PP!Durable(m)'
                               THEN "Scheduled" ELSE status[m]]
  BY SameIds, SameRows DEF RowsAppear
<1>2. \A m \in Ids : PP!Durable(m) => PP!Durable(m)'
  BY SamePublisher, PublishersKeep DEF OutboxInv
<1>3. status \in [Ids -> {"Absent", "Scheduled", "Failed", "Succeeded", "Deleted"}]
  BY DEF OutboxInv, DD!IInv, DD!TypeOK, Ids
<1> QED BY <1>1, <1>2, <1>3 DEF OutboxInv, RowsMatch

LEMMA PublisherKeeps ==
    ASSUME ~ReuseAfterRollback, OutboxInv, NEW p \in Publishers,
           PublisherStep(p) \/ ApplicationCall(p)
    PROVE  OutboxInv'
<1>0. Meet /\ (P!Step(p) \/ P!Application(p)) /\ PP!Next
  BY SamePublisher DEF PublisherStep, ApplicationCall
<1>1. PubInv' /\ PP!DurableInv'
  BY <1>0, PublishersKeep DEF OutboxInv
<1>2. /\ RowsMatch'
      /\ \A m \in Ids : status[m] # "Absent" => status'[m] = status[m]
      /\ \A m \in Ids : status[m] = "Absent" => status'[m] \in {"Absent", "Scheduled"}
      /\ status' \in [Ids -> {"Absent", "Scheduled", "Failed", "Succeeded", "Deleted"}]
  BY <1>0, RowsOfPublisher DEF Meet
<1>3. UNCHANGED <<retries, expiry, old, batch, at, copy, sends, callbacks, brokerFaults,
                  dbFaults, crashes>>
  BY <1>0 DEF Meet
<1>4. \/ enqueued' = enqueued /\ queue' = queue
      \/ \E h \in Ids : /\ pc[p] = "flush" /\ PP!InSeq(h, bufferList[p])
                        /\ enqueued' = Append(enqueued, h)
                        /\ queue' = [queue EXCEPT ![Home] = Append(@, h)]
  BY <1>0, HandsOver DEF OutboxInv, DD!IInv, Meet
<1> USE DEF OutboxInv, DD!IInv
<1>5. queue' \in [Nodes -> Seq(Ids)]
      /\ \A n \in Nodes : \A i \in DOMAIN queue'[n] : status'[queue'[n][i]] # "Absent"
  <2>0. queue \in [Nodes -> Seq(Ids)] /\ Home \in Nodes
    BY HomeAssumption DEF DD!TypeOK, Ids
  <2>1. \A n \in Nodes : \A i \in DOMAIN queue[n] : status'[queue[n][i]] # "Absent"
    BY <1>2, <2>0 DEF DD!QueuesSane
  <2>2. CASE queue' = queue
    BY <2>0, <2>1, <2>2
  <2>3. ASSUME NEW h \in Ids, pc[p] = "flush", PP!InSeq(h, bufferList[p]),
               queue' = [queue EXCEPT ![Home] = Append(@, h)]
        PROVE  queue' \in [Nodes -> Seq(Ids)]
               /\ \A n \in Nodes : \A i \in DOMAIN queue'[n] : status'[queue'[n][i]] # "Absent"
    <3>1. status[h] # "Absent"
      BY <2>3, SameIds DEF PP!DurableInv, PP!FlushedIsDurable, RowsMatch
    <3>2. status'[h] # "Absent"
      BY <1>2, <3>1
    <3> QED BY <2>0, <2>1, <2>3, <3>2
  <2> QED BY <1>4, <2>2, <2>3
<1>6. DD!TypeOK'
  BY <1>2, <1>3, <1>5 DEF DD!TypeOK, Ids, DD!Workers, DD!Copies
<1>7. DD!CopiesSane'
  BY <1>2, <1>3 DEF DD!CopiesSane, Ids, DD!Workers
<1>8. DD!QueuesSane'
  BY <1>2, <1>3, <1>5 DEF DD!QueuesSane, Ids
<1>9. DD!AbsentUntouched' /\ DD!SucceededWasSent' /\ DD!ThresholdIsReported'
      /\ DD!ExpiredIsSettled'
  <2>1. \A m \in Ids : (status'[m] \in {"Succeeded", "Deleted", "Absent"} => status[m] = status'[m])
    BY <1>2
  <2> QED BY <1>3, <2>1 DEF DD!AbsentUntouched, DD!SucceededWasSent, DD!ThresholdIsReported,
                           DD!ExpiredIsSettled, DD!Settled, Ids
<1> QED BY <1>1, <1>2, <1>6, <1>7, <1>8, <1>9

-----------------------------------------------------------------------------
(* A step of the delivery; the publishers stay, or die with their node.    *)
DeliveryStep ==
    /\ \/ \E n \in Nodes : DD!Take(n) \/ DD!Scan(n) \/ DD!PickFromBatch(n) \/ DD!Crash(n)
       \/ \E w \in DD!Workers : DD!SendAsync(w)
       \/ \E m \in Ids : DD!RowStep(m)
    /\ UNCHANGED publisherVars \/ (P!Crash /\ PP!Crash)

LEMMA StepKinds ==
    ASSUME [Next]_vars
    PROVE  \/ UNCHANGED vars
           \/ \E p \in Publishers : PublisherStep(p) \/ ApplicationCall(p)
           \/ DeliveryStep
<1>1. ASSUME NEW n \in Nodes, Take(n) \/ Scan(n) \/ PickFromBatch(n)
      PROVE  DeliveryStep
  BY <1>1, SameNode DEF Take, Scan, PickFromBatch, DeliveryStep
<1>2. ASSUME NEW n \in Nodes, Crash(n)
      PROVE  DeliveryStep
  <2>1. DD!Crash(n)
    BY <1>2, SameNode DEF Crash
  <2>2. P!Crash => PP!Crash
    BY DEF P!Crash, PP!Crash
  <2> QED BY <1>2, <2>1, <2>2 DEF Crash, DeliveryStep
<1>3. ASSUME NEW w \in D!Workers, SendAsync(w)
      PROVE  DeliveryStep
  BY <1>3, SameSender DEF SendAsync, DeliveryStep
<1>4. ASSUME NEW m \in Ids, Age(m) \/ Expire(m) \/ Collect(m)
      PROVE  DeliveryStep
  BY <1>4, SameRow DEF Age, Expire, Collect, DeliveryStep, DD!RowStep
<1> QED BY <1>1, <1>2, <1>3, <1>4, SameIds DEF Next

LEMMA DeliveryIsNext ==
    ASSUME DeliveryStep
    PROVE  DD!Next
  BY DEF DeliveryStep, DD!Next, DD!NodeStep, Ids

(* The delivery makes no row appear, and forgets none.                     *)
LEMMA SameAbsent ==
    ASSUME DD!IInv, DeliveryStep
    PROVE  \A m \in Ids : status'[m] = "Absent" <=> status[m] = "Absent"
<1> USE DEF DD!rowVars, Ids, DD!IInv
<1>1. ASSUME NEW n \in Nodes, DD!Take(n) \/ DD!Scan(n) \/ DD!PickFromBatch(n) \/ DD!Crash(n)
      PROVE  UNCHANGED status
  BY <1>1 DEF DD!Take, DD!Scan, DD!PickFromBatch, DD!Crash
<1>2. ASSUME NEW w \in DD!Workers, DD!SendAsync(w)
      PROVE  \A m \in Ids : status'[m] = "Absent" <=> status[m] = "Absent"
  <2>1. CASE DD!SendSucceeds(w) \/ DD!SendFails(w) \/ DD!SendThrows(w) \/ DD!WriteThrows(w)
    BY <2>1 DEF DD!SendSucceeds, DD!SendFails, DD!SendThrows, DD!WriteThrows
  <2>2. CASE DD!SetSucceededState(w) \/ DD!SetFailedState(w)
    <3>1. copy[w].msg \in Ids /\ status[copy[w].msg] # "Absent"
      BY <2>2 DEF DD!SetSucceededState, DD!SetFailedState, DD!CopiesSane
    <3>2. \E state \in {"Succeeded", "Failed"} : DD!Write(w, state)
      BY <2>2 DEF DD!SetSucceededState, DD!SetFailedState
    <3> QED BY <3>1, <3>2 DEF DD!Write, DD!TypeOK
  <2> QED BY <1>2, <2>1, <2>2 DEF DD!SendAsync
<1>3. ASSUME NEW k \in Ids, DD!RowStep(k)
      PROVE  \A m \in Ids : status'[m] = "Absent" <=> status[m] = "Absent"
  <2>1. CASE DD!Age(k) \/ DD!Expire(k)
    BY <2>1 DEF DD!Age, DD!Expire
  <2>2. CASE DD!Collect(k)
    BY <2>2 DEF DD!Collect, DD!AbsentUntouched, DD!TypeOK
  <2> QED BY <1>3, <2>1, <2>2 DEF DD!RowStep
<1> QED BY <1>1, <1>2, <1>3 DEF DeliveryStep

LEMMA DeliveryKeeps ==
    ASSUME OutboxInv, DeliveryStep
    PROVE  /\ OutboxInv'
           /\ [PP!Next]_PP!vars \/ PublishersStay
           /\ \A m \in Ids : PP!Durable(m)' <=> PP!Durable(m)
<1> USE DEF OutboxInv
<1>1. DD!IInv'
  BY DeliveryIsNext, DD!Inductive, NoMessageAssumption, RetryAssumption, FlagAssumption,
     FaultAssumption
<1>2. [PP!Next]_PP!vars \/ PublishersStay
  <2>1. CASE PP!Crash
    BY <2>1 DEF PP!Next
  <2>2. CASE UNCHANGED publisherVars
    BY <1>1, <2>2 DEF PublishersStay, DD!IInv, DD!TypeOK
  <2> QED BY <2>1, <2>2 DEF DeliveryStep
<1>3. \A m \in Ids : PP!Durable(m)' <=> PP!Durable(m)
  <2>1. CASE PP!Crash
    BY <2>1 DEF PP!Crash, PP!Durable
  <2>2. CASE UNCHANGED publisherVars
    BY <2>2 DEF publisherVars, PP!Durable
  <2> QED BY <2>1, <2>2 DEF DeliveryStep
<1>4. RowsMatch'
  BY <1>3, SameAbsent DEF RowsMatch
<1>5. PubInv'
  BY <1>2, PublishersKeep
<1>6. PP!DurableInv'
  <2>1. CASE PP!Crash
    BY <2>1 DEF PP!Crash, PP!DurableInv, PP!BufferBelongs, PP!CurrentBelongs,
                PP!FlushedIsDurable, PP!SentIsDurable, PP!InSeq, PP!Durable
  <2>2. CASE PublishersStay
    BY <2>2, TxAssumption, BoundAssumption, UseAssumption, PP!CrashElsewhere
    DEF PublishersStay, publisherVars, PP!pubVars, PubInv
  <2>3. CASE UNCHANGED publisherVars
    BY <1>1, <2>2, <2>3 DEF PublishersStay, DD!IInv, DD!TypeOK
  <2> QED BY <2>1, <2>3 DEF DeliveryStep
<1> QED BY <1>1, <1>2, <1>3, <1>4, <1>5, <1>6

LEMMA OutboxNext ==
    ASSUME ~ReuseAfterRollback, OutboxInv, [Next]_vars
    PROVE  OutboxInv'
<1>1. CASE UNCHANGED vars
  <2>1. UNCHANGED PP!vars /\ UNCHANGED DD!vars
    BY <1>1 DEF vars, publisherVars, deliveryVars, PP!vars, DD!vars, DD!rowVars, DD!memVars,
                DD!faultVars
  <2>2. PubInv' /\ PP!DurableInv'
    BY <2>1, PublishersKeep DEF OutboxInv
  <2>3. DD!IInv'
    BY <2>1, DD!Inductive, NoMessageAssumption, RetryAssumption, FlagAssumption,
       FaultAssumption DEF OutboxInv
  <2>4. RowsMatch'
    BY <1>1 DEF vars, publisherVars, deliveryVars, OutboxInv, RowsMatch, PP!Durable
  <2> QED BY <2>2, <2>3, <2>4 DEF OutboxInv
<1>2. ASSUME NEW p \in Publishers, PublisherStep(p) \/ ApplicationCall(p)
      PROVE  OutboxInv'
  BY <1>2, PublisherKeeps
<1>3. CASE DeliveryStep
  BY <1>3, DeliveryKeeps
<1> QED BY <1>1, <1>2, <1>3, StepKinds

(* The inductive invariant, on any number of nodes: whose a message is,    *)
(* that the delivery sees the durable rows and no others, and that what it *)
(* has in memory is one of those.                                          *)
THEOREM Invariance == ~ReuseAfterRollback => (Spec => []OutboxInv)
<1> SUFFICES ASSUME ~ReuseAfterRollback PROVE Spec => []OutboxInv
  OBVIOUS
<1>1. OutboxInv /\ [Next]_vars => OutboxInv'
  BY OutboxNext
<1> QED BY <1>1, OutboxInit, PTL DEF Spec

-----------------------------------------------------------------------------
(* The refinement of the Outbox                                            *)

(* A publisher's step stores the rows it makes durable, all at once.       *)
LEMMA PublisherStores ==
    ASSUME ~ReuseAfterRollback, OutboxInv, NEW p \in Publishers,
           PublisherStep(p) \/ ApplicationCall(p)
    PROVE  [Promise!Next]_(Promise!outboxVars)
<1> DEFINE stored == {m \in P!Ids : P!Durable(m)}
           ms == {m \in P!Ids : ~P!Durable(m) /\ P!Durable(m)'}
<1>0. Meet /\ (P!Step(p) \/ P!Application(p)) /\ PP!Next
  BY SamePublisher DEF PublisherStep, ApplicationCall
<1>1. \A m \in P!Ids : P!Durable(m) => P!Durable(m)'
  BY <1>0, PublishersKeep, SameIds, SameRows DEF OutboxInv
<1>2. UNCHANGED <<sends, callbacks>>
  BY <1>0 DEF Meet
<1>3. \A m \in P!Ids : status'[m] = "Deleted" <=> status[m] = "Deleted"
  BY <1>0, RowsOfPublisher, SameIds DEF Meet
<1>4. /\ UNCHANGED <<{m \in P!Ids : sends[m] > 0}, {m \in P!Ids : callbacks[m] # <<>>}>>
      /\ {m \in P!Ids : status'[m] = "Deleted"} = {m \in P!Ids : status[m] = "Deleted"}
  BY <1>2, <1>3, SameIds
<1>5. stored' = stored \union ms /\ ms \intersect stored = {} /\ ms \in SUBSET P!Ids
  BY <1>1, SameIds
<1>6. CASE ms = {}
  BY <1>4, <1>5, <1>6 DEF Promise!outboxVars
<1>7. CASE ms # {}
  <2>1. Promise!Store(ms)
    BY <1>4, <1>5, <1>7 DEF Promise!Store
  <2> QED BY <1>5, <2>1 DEF Promise!Next
<1> QED BY <1>6, <1>7

(* A step of the delivery does to the Outbox what it does without the      *)
(* publishers.                                                             *)
LEMMA DeliverySends ==
    ASSUME RetriesInTime, OutboxInv, DeliveryStep
    PROVE  [Promise!Next]_(Promise!outboxVars)
<1>1. [DD!Promise!Next]_<<DD!Stored, DD!Sent, DD!Reported, DD!Removed>>
  BY DeliveryIsNext, DD!OutboxStep, NoMessageAssumption, RetryAssumption, FlagAssumption,
     FaultAssumption DEF OutboxInv
<1>2. RowsMatch /\ RowsMatch'
  BY DeliveryKeeps DEF OutboxInv
<1>3. /\ {m \in P!Ids : P!Durable(m)} = DD!Stored
      /\ {m \in P!Ids : P!Durable(m)'} = DD!Stored'
  BY <1>2, SameIds, SameRows DEF RowsMatch, DD!Stored, Ids
<1> QED BY <1>1, <1>3, SameIds
    DEF Promise!outboxVars, Promise!Next, Promise!Store, Promise!Send, Promise!Report,
        Promise!Remove, DD!Promise!Next, DD!Promise!Store, DD!Promise!Send, DD!Promise!Report,
        DD!Promise!Remove, DD!Stored, DD!Sent, DD!Reported, DD!Removed, Ids

LEMMA StutterSends ==
    ASSUME UNCHANGED vars
    PROVE  UNCHANGED Promise!outboxVars
<1>1. \A m : P!Durable(m)' <=> P!Durable(m)
  BY DEF vars, publisherVars, P!Durable
<1> QED BY <1>1 DEF vars, deliveryVars, Promise!outboxVars

(* From the application's transaction to the broker, on any number of      *)
(* nodes: only what is committed is sent, and a row is deleted only when   *)
(* its message was sent or reported, if no row expires under its retries   *)
(* and no publisher is used again after a transaction that did not commit. *)
THEOREM Implementation == RetriesInTime /\ ~ReuseAfterRollback => (Spec => ImplementsOutbox)
<1> SUFFICES ASSUME RetriesInTime, ~ReuseAfterRollback PROVE Spec => ImplementsOutbox
  OBVIOUS
<1>1. Init => Promise!Init
  <2> SUFFICES ASSUME Init PROVE Promise!Init
    OBVIOUS
  <2>1. PP!Init /\ DD!Init
    BY SameInit
  <2>2. \A m \in P!Ids : ~P!Durable(m)
    BY <2>1, SameIds, SameRows, TxAssumption DEF PP!Init, PP!Durable
  <2> QED BY <2>1, <2>2, SameIds DEF DD!Init, Promise!Init, Ids
<1>2. OutboxInv /\ [Next]_vars => [Promise!Next]_(Promise!outboxVars)
  BY PublisherStores, DeliverySends, StutterSends, StepKinds
<1>3. Spec => []OutboxInv
  BY Invariance
<1> QED BY <1>1, <1>2, <1>3, PTL DEF Spec, ImplementsOutbox, Promise!Spec

-----------------------------------------------------------------------------
(* One node: where the copies of a message are                             *)
Disp == <<Home, "dispatcher">>
Retry == <<Home, "needRetry">>

Unflushed(m) == BeforeFlush(m) # {}
InQueue(m) == PP!InSeq(m, queue[Home])
InBatch(m) == \E c \in batch[Home] : c.msg = m
InHand(w, m) == copy[w].msg = m

(* The copies of a young message come from its publisher, those of an old  *)
(* one from the retry scan.                                                *)
Fresh(m) == Unflushed(m) \/ InQueue(m) \/ InHand(Disp, m)
Retried(m) == InBatch(m) \/ InHand(Retry, m)

IdleIsEmpty == \A w \in DD!Workers : at[w] = "idle" <=> copy[w].msg = NoMessage

(* What was handed over is in the queue or with the dispatcher, once.      *)
FreshIsOnce ==
    /\ PP!NoRepeat(queue[Home])
    /\ \A m \in Ids : InQueue(m) \/ InHand(Disp, m) => PP!InSeq(m, enqueued)
    /\ \A m \in Ids : ~(InQueue(m) /\ InHand(Disp, m))

(* A batch has one copy of a message, and not one that is being sent.      *)
RetriedIsOnce ==
    /\ \A c, e \in batch[Home] : c.msg = e.msg => c = e
    /\ \A m \in Ids : ~(InBatch(m) /\ InHand(Retry, m))

FreshOrOld ==
    \A m \in Ids : /\ status[m] = "Absent" => ~old[m]
                   /\ Fresh(m) => ~old[m]
                   /\ Retried(m) => old[m]

(* Nobody works on a message that succeeded.                               *)
InHandIsUnsettled == \A m \in Ids : Fresh(m) \/ Retried(m) => status[m] # "Succeeded"

(* No copy counts fewer failures than its row.                             *)
CopiesCountRetries ==
    \A m \in Ids : /\ Unflushed(m) \/ InQueue(m) => retries[m] = 0
                   /\ \A c \in batch[Home] : c.msg = m => c.retries >= retries[m]
                   /\ \A w \in DD!Workers : InHand(w, m) => copy[w].retries >= retries[m]

(* A message that may still be sent has not been sent, unless a fault lost *)
(* what was known of it.                                                   *)
Unsent ==
    \A m \in Ids :
        /\ sends[m] <= 1
        /\ Unflushed(m) \/ InQueue(m) \/ InBatch(m) => sends[m] = 0
        /\ \A w \in DD!Workers :
               InHand(w, m) /\ at[w] \in {"send", "setFailed"} => sends[m] = 0
        /\ status[m] \in {"Scheduled", "Failed"} =>
               sends[m] = 0 \/ \E w \in DD!Workers : at[w] = "setSucceeded" /\ InHand(w, m)

NoFaults == dbFaults + crashes = 0

(* The inductive invariant for one node.                                   *)
NodeInv ==
    /\ IdleIsEmpty /\ FreshIsOnce /\ RetriedIsOnce /\ FreshOrOld
    /\ InHandIsUnsettled /\ CopiesCountRetries
    /\ NoFaults => Unsent

SoloInv == OutboxInv /\ PP!UseInv /\ PP!FollowInv /\ NodeInv

(* The assumptions of this part.                                           *)
Solo == Nodes = {Home} /\ Timely /\ ~MixedUse /\ ~ReuseAfterRollback

LEMMA WorkersOfSolo ==
    ASSUME Solo
    PROVE  DD!Workers = {Disp, Retry} /\ Disp # Retry
  BY DEF Solo, DD!Workers, Disp, Retry

LEMMA UnflushedIs ==
    ASSUME NEW m \in Ids
    PROVE  /\ Unflushed(m) <=> \E p \in Publishers : PP!ToFlush(p, m)
           /\ Unflushed(m)' <=> \E p \in Publishers : PP!ToFlush(p, m)'
  BY SameInSeq DEF Unflushed, BeforeFlush, PP!ToFlush, P!InSeq, PP!InSeq

(* A message in a worker's hands is nowhere else.                          *)
LEMMA HeldOnce ==
    ASSUME Solo, OutboxInv, NodeInv, NEW w \in DD!Workers, NEW m \in Ids, InHand(w, m)
    PROVE  /\ ~Unflushed(m) /\ ~InQueue(m) /\ ~InBatch(m)
           /\ \A v \in DD!Workers : InHand(v, m) => v = w
<1>1. w = Disp \/ w = Retry
  BY WorkersOfSolo
<1>2. CASE w = Disp
  <2>1. PP!InSeq(m, enqueued) /\ ~InQueue(m)
    BY <1>2 DEF NodeInv, FreshIsOnce
  <2>2. ~Unflushed(m)
    BY <2>1, UnflushedIs, SameIds, PP!ToFlushOnce, TxAssumption, BoundAssumption, UseAssumption
    DEF OutboxInv, PubInv
  <2>3. ~Retried(m)
    BY <1>2 DEF NodeInv, FreshOrOld, Fresh
  <2> QED BY <1>2, <2>1, <2>2, <2>3, WorkersOfSolo DEF Retried
<1>3. CASE w = Retry
  <2>1. ~Fresh(m) /\ ~InBatch(m)
    BY <1>3 DEF NodeInv, FreshOrOld, Retried, RetriedIsOnce
  <2> QED BY <1>3, <2>1, WorkersOfSolo DEF Fresh
<1> QED BY <1>1, <1>2, <1>3

(* The types that the steps below need.                                    *)
LEMMA SoloTypes ==
    ASSUME Solo, OutboxInv
    PROVE  /\ Home \in Nodes /\ Disp \in DD!Workers /\ Retry \in DD!Workers
           /\ status \in [Ids -> {"Absent", "Scheduled", "Failed", "Succeeded", "Deleted"}]
           /\ retries \in [Ids -> Nat] /\ sends \in [Ids -> 0 .. 2] /\ old \in [Ids -> BOOLEAN]
           /\ queue \in [Nodes -> Seq(Ids)] /\ enqueued \in Seq(Ids)
           /\ batch \in [Nodes -> SUBSET DD!Copies]
           /\ at \in [DD!Workers -> {"idle", "send", "setSucceeded", "setFailed"}]
           /\ copy \in [DD!Workers -> DD!Copies]
           /\ dbFaults \in Nat /\ crashes \in Nat
           /\ \A c \in DD!Copies : c.msg \in Ids \union {NoMessage} /\ c.retries \in Nat
           /\ NoMessage \notin Ids
<1>1. PP!TypeOK /\ DD!TypeOK
  BY DEF OutboxInv, PubInv, PP!Shape, DD!IInv
<1>2. 0 .. FailedRetryCount \subseteq Nat
  BY RetryAssumption
<1> QED BY <1>1, <1>2, WorkersOfSolo, HomeAssumption, NoMessageAssumption, FaultAssumption, SameIds
        DEF PP!TypeOK, DD!TypeOK, DD!Copies, Ids

(* The step of a publisher.                                                *)
LEMMA PublisherSolo ==
    ASSUME Solo, SoloInv, NEW p \in Publishers, PublisherStep(p) \/ ApplicationCall(p)
    PROVE  NodeInv'
<1> USE DEF SoloInv, NodeInv, Solo
<1>0. /\ Meet /\ (P!Step(p) \/ P!Application(p))
      /\ PP!Step(p) \/ PP!Application(p)
  BY SamePublisher DEF PublisherStep, ApplicationCall
<1>1. UNCHANGED <<retries, old, batch, at, copy, sends, dbFaults, crashes>>
  BY <1>0 DEF Meet
<1>2. /\ \A m \in Ids : status[m] # "Absent" => status'[m] = status[m]
      /\ \A m \in Ids : status[m] = "Absent" => status'[m] \in {"Absent", "Scheduled"}
  BY <1>0, RowsOfPublisher DEF Meet
<1>3. \A m \in Ids : Unflushed(m)' => Unflushed(m) \/ status[m] = "Absent"
  <2> SUFFICES ASSUME NEW m \in Ids, NEW q \in Publishers, PP!ToFlush(q, m)'
               PROVE  PP!ToFlush(q, m) \/ status[m] = "Absent"
    BY UnflushedIs
  <2>1. PP!ToFlush(q, m) \/ ~PP!Durable(m)
    BY <1>0, PP!ToFlushIsNew, SameIds, TxAssumption, BoundAssumption, UseAssumption
    DEF OutboxInv, PubInv
  <2> QED BY <2>1 DEF OutboxInv, RowsMatch
<1>4. \/ enqueued' = enqueued /\ queue' = queue
      \/ \E h \in Ids : /\ Unflushed(h)
                        /\ enqueued' = Append(enqueued, h)
                        /\ queue' = [queue EXCEPT ![Home] = Append(@, h)]
  <2>1. \/ enqueued' = enqueued /\ queue' = queue
        \/ \E h \in Ids : /\ pc[p] = "flush" /\ PP!InSeq(h, bufferList[p])
                          /\ enqueued' = Append(enqueued, h)
                          /\ queue' = [queue EXCEPT ![Home] = Append(@, h)]
    BY <1>0, HandsOver DEF Meet, OutboxInv, DD!IInv
  <2>2. \A h \in Ids : pc[p] = "flush" /\ PP!InSeq(h, bufferList[p]) => Unflushed(h)
    BY UnflushedIs DEF PP!ToFlush
  <2> QED BY <2>1, <2>2
<1>5. \A h \in Ids : Unflushed(h) => ~PP!InSeq(h, enqueued)
  BY UnflushedIs, SameIds, PP!ToFlushOnce, TxAssumption, BoundAssumption, UseAssumption
  DEF OutboxInv, PubInv
<1>6. /\ FreshIsOnce'
      /\ \A m \in Ids : InQueue(m)' => InQueue(m) \/ Unflushed(m)
  <2>1. CASE enqueued' = enqueued /\ queue' = queue
    BY <1>1, <2>1 DEF FreshIsOnce, InQueue, InHand
  <2>2. ASSUME NEW h \in Ids, Unflushed(h), enqueued' = Append(enqueued, h),
               queue' = [queue EXCEPT ![Home] = Append(@, h)]
        PROVE  /\ FreshIsOnce'
               /\ \A m \in Ids : InQueue(m)' => InQueue(m) \/ Unflushed(m)
    <3>1. queue'[Home] = Append(queue[Home], h) /\ queue[Home] \in Seq(Ids) /\ enqueued \in Seq(Ids)
      BY <2>2, SoloTypes
    <3>2. ~PP!InSeq(h, enqueued)
      BY <1>5, <2>2
    <3>3. ~InQueue(h) /\ ~InHand(Disp, h)
      BY <3>2 DEF FreshIsOnce
    <3>4. PP!NoRepeat(queue'[Home])
      BY <3>1, <3>3, PP!AppendMembers, TxAssumption, BoundAssumption, UseAssumption
      DEF FreshIsOnce, InQueue
    <3>5. \A m : PP!InSeq(m, queue'[Home]) <=> PP!InSeq(m, queue[Home]) \/ m = h
      BY <3>1, PP!AppendMembers, TxAssumption, BoundAssumption, UseAssumption
    <3>6. \A m : PP!InSeq(m, enqueued') <=> PP!InSeq(m, enqueued) \/ m = h
      BY <2>2, <3>1, PP!AppendMembers, TxAssumption, BoundAssumption, UseAssumption
    <3> QED BY <1>1, <2>2, <3>3, <3>4, <3>5, <3>6 DEF FreshIsOnce, InQueue, InHand
  <2> QED BY <1>4, <2>1, <2>2
<1>7. \A m \in Ids : status[m] = "Absent" => retries[m] = 0 /\ sends[m] = 0 /\ ~old[m]
  BY DEF OutboxInv, DD!IInv, DD!AbsentUntouched, FreshOrOld, Ids
<1>8. IdleIsEmpty' /\ RetriedIsOnce'
  BY <1>1 DEF IdleIsEmpty, RetriedIsOnce, InBatch, InHand
<1>9. /\ \A m \in Ids : Fresh(m)' => Fresh(m) \/ status[m] = "Absent"
      /\ \A m \in Ids : Retried(m)' <=> Retried(m)
  BY <1>1, <1>3, <1>6 DEF Fresh, Retried, InBatch, InHand
<1>10. FreshOrOld' /\ InHandIsUnsettled'
  BY <1>1, <1>2, <1>7, <1>9 DEF FreshOrOld, InHandIsUnsettled
<1>11. CopiesCountRetries'
  BY <1>1, <1>3, <1>6, <1>7 DEF CopiesCountRetries, InHand
<1>12. NoFaults' => Unsent'
  BY <1>1, <1>2, <1>3, <1>6, <1>7 DEF NoFaults, Unsent, InHand, InBatch
<1> QED BY <1>6, <1>8, <1>10, <1>11, <1>12

(* While the publishers stay, they have the same messages to flush.        *)
LEMMA UnflushedStays ==
    ASSUME UNCHANGED publisherVars
    PROVE  /\ \A m \in Ids : Unflushed(m)' <=> Unflushed(m)
           /\ UNCHANGED enqueued
  BY UnflushedIs DEF publisherVars, PP!ToFlush

(* Steps after which there are at most the copies there were: some workers *)
(* let go of theirs, rows may be deleted.                                  *)
LEMMA FewerCopies ==
    ASSUME Solo, OutboxInv, NodeInv, UNCHANGED publisherVars,
           UNCHANGED <<retries, old, sends, queue>>,
           batch'[Home] \subseteq batch[Home],
           \A w \in DD!Workers :
               \/ at'[w] = at[w] /\ copy'[w] = copy[w]
               \/ /\ at'[w] = "idle" /\ copy'[w].msg = NoMessage
                  /\ NoFaults' => at[w] # "setSucceeded",
           \A m \in Ids : status'[m] = status[m] \/ status'[m] = "Deleted",
           NoFaults' => NoFaults
    PROVE  NodeInv'
<1> USE DEF NodeInv
<1>1. /\ \A m \in Ids : Unflushed(m)' <=> Unflushed(m)
      /\ \A m \in Ids : InQueue(m)' <=> InQueue(m)
      /\ \A m \in Ids : InBatch(m)' => InBatch(m)
      /\ \A m \in Ids : \A w \in DD!Workers :
             InHand(w, m)' => InHand(w, m) /\ at'[w] = at[w] /\ copy'[w] = copy[w]
      /\ UNCHANGED enqueued
  BY UnflushedStays, SoloTypes DEF InQueue, InBatch, InHand
<1>2. IdleIsEmpty'
  BY DEF IdleIsEmpty
<1>3. FreshIsOnce' /\ RetriedIsOnce'
  BY <1>1, SoloTypes DEF FreshIsOnce, RetriedIsOnce
<1>4. FreshOrOld' /\ InHandIsUnsettled'
  BY <1>1, SoloTypes DEF FreshOrOld, InHandIsUnsettled, Fresh, Retried
<1>5. CopiesCountRetries'
  BY <1>1 DEF CopiesCountRetries
<1>6. ASSUME NoFaults'
      PROVE  Unsent'
  <2>1. Unsent /\ \A w \in DD!Workers : at[w] = "setSucceeded" => at'[w] = at[w] /\ copy'[w] = copy[w]
    BY <1>6
  <2> QED BY <1>1, <2>1 DEF Unsent, InHand
<1> QED BY <1>2, <1>3, <1>4, <1>5, <1>6

(* The process dies.                                                       *)
LEMMA CrashSolo ==
    ASSUME Solo, SoloInv, Crash(Home)
    PROVE  NodeInv'
<1>1. /\ queue' = [queue EXCEPT ![Home] = <<>>] /\ batch' = [batch EXCEPT ![Home] = {}]
      /\ at' = [w \in DD!Workers |-> "idle"] /\ copy' = [w \in DD!Workers |-> DD!NoCopy]
      /\ UNCHANGED <<status, retries, old, sends, dbFaults>> /\ crashes' = crashes + 1
      /\ PP!Crash
  BY DEF Crash, D!Crash, D!rowVars, D!Workers, DD!Workers, D!NoCopy, DD!NoCopy, Solo,
         P!Crash, PP!Crash
<1>2. \A m \in Ids : /\ ~Unflushed(m)' /\ ~InQueue(m)' /\ ~InBatch(m)'
                     /\ \A w \in DD!Workers : ~InHand(w, m)'
  <2>1. \A m \in Ids : ~Unflushed(m)'
    BY <1>1, UnflushedIs DEF PP!ToFlush, PP!Crash, Ids
  <2> QED BY <1>1, <2>1, SoloTypes DEF SoloInv, InQueue, PP!InSeq, InBatch, InHand, DD!NoCopy
<1>3. IdleIsEmpty' /\ FreshIsOnce' /\ RetriedIsOnce'
  BY <1>1, <1>2, SoloTypes DEF SoloInv, IdleIsEmpty, FreshIsOnce, RetriedIsOnce, PP!NoRepeat,
                              DD!NoCopy
<1>4. FreshOrOld' /\ InHandIsUnsettled'
  BY <1>1, <1>2, SoloTypes DEF SoloInv, NodeInv, FreshOrOld, InHandIsUnsettled, Fresh, Retried
<1>5. CopiesCountRetries'
  BY <1>1, <1>2, SoloTypes DEF SoloInv, CopiesCountRetries
<1>6. ~NoFaults'
  BY <1>1, SoloTypes DEF SoloInv, NoFaults
<1> QED BY <1>3, <1>4, <1>5, <1>6 DEF NodeInv

(* The dispatcher takes the next message, the scan reads, the retry worker *)
(* takes a copy from the batch.                                            *)
LEMMA TakeSolo ==
    ASSUME Solo, OutboxInv, NodeInv, DD!Take(Home), UNCHANGED publisherVars
    PROVE  NodeInv'
<1> USE DEF NodeInv
<1>1. /\ at[Disp] = "idle" /\ queue[Home] # <<>>
      /\ copy' = [copy EXCEPT ![Disp] = [msg |-> Head(queue[Home]), retries |-> 0]]
      /\ at' = [at EXCEPT ![Disp] = "send"]
      /\ queue' = [queue EXCEPT ![Home] = Tail(@)]
      /\ UNCHANGED <<status, retries, old, batch, sends, dbFaults, crashes>>
  BY DEF DD!Take, Disp, DD!rowVars, DD!faultVars
<1>2. PICK h \in Ids : h = Head(queue[Home])
  BY <1>1, SoloTypes
<1>3. /\ InQueue(h) /\ ~InQueue(h)' /\ PP!NoRepeat(queue'[Home])
      /\ \A m \in Ids : InQueue(m)' => InQueue(m)
  BY <1>1, <1>2, SoloTypes, PP!TailMembers, TxAssumption, BoundAssumption, UseAssumption
  DEF FreshIsOnce, InQueue
<1>4. /\ at'[Disp] = "send" /\ copy'[Disp].msg = h /\ copy'[Disp].retries = 0
      /\ \A w \in DD!Workers : w # Disp => at'[w] = at[w] /\ copy'[w] = copy[w]
  BY <1>1, <1>2, SoloTypes
<1>5. /\ \A m \in Ids : Unflushed(m)' <=> Unflushed(m)
      /\ \A m \in Ids : InBatch(m)' <=> InBatch(m)
      /\ UNCHANGED enqueued
  BY <1>1, UnflushedStays DEF InBatch
<1>6. /\ \A m \in Ids : InHand(Disp, m)' <=> m = h
      /\ \A m \in Ids : InHand(Retry, m)' <=> InHand(Retry, m)
      /\ \A m \in Ids : ~InHand(Disp, m)
  BY <1>1, <1>4, SoloTypes, WorkersOfSolo DEF InHand, IdleIsEmpty
<1>7. IdleIsEmpty'
  BY <1>2, <1>4, SoloTypes DEF IdleIsEmpty
<1>8. FreshIsOnce' /\ RetriedIsOnce'
  BY <1>1, <1>3, <1>5, <1>6 DEF FreshIsOnce, RetriedIsOnce
<1>9. FreshOrOld' /\ InHandIsUnsettled'
  BY <1>1, <1>3, <1>5, <1>6 DEF FreshOrOld, InHandIsUnsettled, Fresh, Retried
<1>10. CopiesCountRetries'
  <2>1. retries[h] = 0
    BY <1>3 DEF CopiesCountRetries
  <2> QED BY <1>1, <1>3, <1>4, <1>5, <2>1 DEF CopiesCountRetries, InHand
<1>11. ASSUME NoFaults'
       PROVE  Unsent'
  <2>1. Unsent /\ sends[h] = 0
    BY <1>1, <1>3, <1>11 DEF NoFaults, Unsent
  <2>2. \A w \in DD!Workers : at[w] = "setSucceeded" => at'[w] = at[w] /\ copy'[w] = copy[w]
    BY <1>1, <1>4
  <2> QED BY <1>1, <1>3, <1>4, <1>5, <2>1, <2>2 DEF Unsent, InHand
<1> QED BY <1>7, <1>8, <1>9, <1>10, <1>11

LEMMA ScanSolo ==
    ASSUME Solo, OutboxInv, NodeInv, DD!Scan(Home), UNCHANGED publisherVars
    PROVE  NodeInv'
<1> USE DEF NodeInv
<1>1. /\ at[Retry] = "idle"
      /\ batch' = [batch EXCEPT ![Home] = {[msg |-> m, retries |-> retries[m]] :
                                              m \in {k \in Ids : DD!NeedRetry(k)}}]
      /\ UNCHANGED <<status, retries, old, queue, at, copy, sends, dbFaults, crashes>>
  BY DEF DD!Scan, Retry, DD!rowVars, DD!faultVars, Ids
<1>2. /\ \A c \in batch'[Home] : /\ c.msg \in Ids /\ DD!NeedRetry(c.msg)
                                 /\ c = [msg |-> c.msg, retries |-> retries[c.msg]]
      /\ \A m \in Ids : InBatch(m)' => DD!NeedRetry(m)
  BY <1>1, SoloTypes DEF InBatch
<1>3. /\ \A m \in Ids : Unflushed(m)' <=> Unflushed(m)
      /\ \A m \in Ids : InQueue(m)' <=> InQueue(m)
      /\ \A m \in Ids : \A w \in DD!Workers : InHand(w, m)' <=> InHand(w, m)
      /\ \A m \in Ids : ~InHand(Retry, m)
      /\ UNCHANGED enqueued
  BY <1>1, SoloTypes, UnflushedStays DEF InQueue, InHand, IdleIsEmpty
<1>4. \A m \in Ids : DD!NeedRetry(m) => status[m] \in {"Scheduled", "Failed"} /\ old[m]
  BY DEF DD!NeedRetry, DD!Unsettled
<1>5. IdleIsEmpty'
  BY <1>1 DEF IdleIsEmpty
<1>6. FreshIsOnce' /\ RetriedIsOnce'
  BY <1>1, <1>2, <1>3, SoloTypes DEF FreshIsOnce, RetriedIsOnce
<1>7. FreshOrOld' /\ InHandIsUnsettled'
  BY <1>1, <1>2, <1>3, <1>4, SoloTypes DEF FreshOrOld, InHandIsUnsettled, Fresh, Retried
<1>8. CopiesCountRetries'
  <2>1. \A c \in batch'[Home] : c.retries = retries[c.msg] /\ retries[c.msg] \in Nat
    BY <1>2, SoloTypes
  <2> QED BY <1>1, <1>3, <2>1 DEF CopiesCountRetries
<1>9. ASSUME NoFaults'
      PROVE  Unsent'
  <2>1. Unsent
    BY <1>1, <1>9 DEF NoFaults
  <2>2. \A m \in Ids : DD!NeedRetry(m) => sends[m] = 0
    BY <1>1, <1>3, <1>4, <2>1, WorkersOfSolo DEF Unsent, FreshOrOld, Fresh
  <2> QED BY <1>1, <1>2, <1>3, <2>1, <2>2 DEF Unsent
<1> QED BY <1>5, <1>6, <1>7, <1>8, <1>9

LEMMA PickSolo ==
    ASSUME Solo, OutboxInv, NodeInv, DD!PickFromBatch(Home), UNCHANGED publisherVars
    PROVE  NodeInv'
<1> USE DEF NodeInv
<1>1. PICK c \in batch[Home] : /\ copy' = [copy EXCEPT ![Retry] = c]
                               /\ batch' = [batch EXCEPT ![Home] = @ \ {c}]
  BY DEF DD!PickFromBatch, Retry
<1>2. /\ at[Retry] = "idle" /\ at' = [at EXCEPT ![Retry] = "send"]
      /\ UNCHANGED <<status, retries, old, queue, sends, dbFaults, crashes>>
  BY DEF DD!PickFromBatch, Retry, DD!rowVars, DD!faultVars
<1>3. PICK b \in Ids : b = c.msg
  BY <1>1 DEF OutboxInv, DD!IInv, DD!QueuesSane, Ids, Solo
<1>4. /\ InBatch(b) /\ ~InBatch(b)'
      /\ \A m \in Ids : InBatch(m)' => InBatch(m)
      /\ batch'[Home] \subseteq batch[Home]
  BY <1>1, <1>3, SoloTypes DEF InBatch, RetriedIsOnce
<1>5. /\ at'[Retry] = "send" /\ copy'[Retry] = c
      /\ \A w \in DD!Workers : w # Retry => at'[w] = at[w] /\ copy'[w] = copy[w]
  BY <1>1, <1>2, SoloTypes
<1>6. /\ \A m \in Ids : Unflushed(m)' <=> Unflushed(m)
      /\ \A m \in Ids : InQueue(m)' <=> InQueue(m)
      /\ UNCHANGED enqueued
  BY <1>2, UnflushedStays DEF InQueue
<1>7. /\ \A m \in Ids : InHand(Retry, m)' <=> m = b
      /\ \A m \in Ids : InHand(Disp, m)' <=> InHand(Disp, m)
  BY <1>3, <1>5, SoloTypes, WorkersOfSolo DEF InHand
<1>8. IdleIsEmpty'
  BY <1>3, <1>5, SoloTypes DEF IdleIsEmpty
<1>9. FreshIsOnce' /\ RetriedIsOnce'
  BY <1>2, <1>4, <1>6, <1>7 DEF FreshIsOnce, RetriedIsOnce
<1>10. FreshOrOld' /\ InHandIsUnsettled'
  BY <1>2, <1>4, <1>6, <1>7 DEF FreshOrOld, InHandIsUnsettled, Fresh, Retried
<1>11. CopiesCountRetries'
  BY <1>1, <1>2, <1>3, <1>4, <1>5, <1>6 DEF CopiesCountRetries, InHand
<1>12. ASSUME NoFaults'
       PROVE  Unsent'
  <2>1. Unsent /\ sends[b] = 0
    BY <1>2, <1>4, <1>12 DEF NoFaults, Unsent
  <2>2. \A w \in DD!Workers : at[w] = "setSucceeded" => at'[w] = at[w] /\ copy'[w] = copy[w]
    BY <1>2, <1>5
  <2> QED BY <1>2, <1>3, <1>4, <1>5, <1>6, <2>1, <2>2 DEF Unsent, InHand
<1> QED BY <1>8, <1>9, <1>10, <1>11, <1>12

(* SendAsync: the worker w has m in its hands, and nobody else has.        *)
LEMMA SendsSolo ==
    ASSUME Solo, OutboxInv, NodeInv, NEW w \in DD!Workers,
           DD!SendSucceeds(w) \/ DD!SendFails(w), UNCHANGED publisherVars
    PROVE  NodeInv'
<1> USE DEF NodeInv
<1>1. PICK m \in Ids : m = copy[w].msg
  BY DEF DD!SendSucceeds, DD!SendFails, OutboxInv, DD!IInv, DD!CopiesSane, Ids
<1>2. /\ at[w] = "send" /\ at'[w] \in {"setSucceeded", "setFailed"}
      /\ copy'[w].msg = m /\ copy'[w].retries \in {copy[w].retries, copy[w].retries + 1}
      /\ \A v \in DD!Workers : v # w => at'[v] = at[v] /\ copy'[v] = copy[v]
      /\ UNCHANGED <<status, retries, old, queue, batch, dbFaults, crashes>>
  BY <1>1, SoloTypes DEF DD!SendSucceeds, DD!SendFails, DD!rowVars, DD!faultVars, DD!Copies
<1>3. /\ \A k \in Ids : Unflushed(k)' <=> Unflushed(k)
      /\ \A k \in Ids : InQueue(k)' <=> InQueue(k)
      /\ \A k \in Ids : InBatch(k)' <=> InBatch(k)
      /\ \A k \in Ids : \A v \in DD!Workers : InHand(v, k)' <=> InHand(v, k)
      /\ UNCHANGED enqueued
  BY <1>1, <1>2, UnflushedStays DEF InQueue, InBatch, InHand
<1>4. IdleIsEmpty'
  BY <1>1, <1>2, SoloTypes DEF IdleIsEmpty
<1>5. FreshIsOnce' /\ RetriedIsOnce'
  BY <1>2, <1>3, SoloTypes DEF FreshIsOnce, RetriedIsOnce
<1>6. FreshOrOld' /\ InHandIsUnsettled'
  BY <1>2, <1>3, SoloTypes DEF FreshOrOld, InHandIsUnsettled, Fresh, Retried
<1>7. CopiesCountRetries'
  <2>1. /\ copy[w].retries \in Nat
        /\ \A k \in Ids : retries[k] \in Nat
    BY SoloTypes
  <2>2. copy[w].retries >= retries[m]
    BY <1>1 DEF CopiesCountRetries, InHand
  <2>3. copy'[w].retries >= retries[m]
    BY <1>2, <2>1, <2>2
  <2> QED BY <1>1, <1>2, <1>3, <2>3 DEF CopiesCountRetries, InHand
<1>8. ASSUME NoFaults'
      PROVE  Unsent'
  <2>1. Unsent /\ sends[m] = 0
    BY <1>1, <1>2, <1>8 DEF NoFaults, Unsent, InHand
  <2>2. /\ ~Unflushed(m) /\ ~InQueue(m) /\ ~InBatch(m)
        /\ \A v \in DD!Workers : InHand(v, m) => v = w
    BY <1>1, HeldOnce DEF InHand
  <2>3. \A v \in DD!Workers : at[v] = "setSucceeded" => at'[v] = at[v] /\ copy'[v] = copy[v]
    BY <1>2
  <2>4. CASE DD!SendSucceeds(w)
    <3>1. sends' = [sends EXCEPT ![m] = 1] /\ at'[w] = "setSucceeded"
      <4>1. /\ sends' = [sends EXCEPT ![m] = DD!Lesser(sends[m] + 1, 2)]
            /\ at' = [at EXCEPT ![w] = "setSucceeded"]
        BY <1>1, <2>4 DEF DD!SendSucceeds
      <4>2. DD!Lesser(sends[m] + 1, 2) = 1
        BY <2>1 DEF DD!Lesser
      <4> QED BY <4>1, <4>2, SoloTypes
    <3>2. sends'[m] = 1 /\ \A k \in Ids : k # m => sends'[k] = sends[k]
      BY <3>1, SoloTypes
    <3>3. \A k \in Ids : k # m => ~InHand(w, k)
      BY <1>1 DEF InHand
    <3>4. \A k \in Ids : sends'[k] <= 1
      BY <2>1, <3>2 DEF Unsent
    <3>5. \A k \in Ids : Unflushed(k)' \/ InQueue(k)' \/ InBatch(k)' => sends'[k] = 0
      BY <1>3, <2>1, <2>2, <3>2 DEF Unsent
    <3>6. ASSUME NEW k \in Ids, NEW v \in DD!Workers, InHand(v, k)', at'[v] \in {"send", "setFailed"}
          PROVE  sends'[k] = 0
      <4>1. v # w /\ k # m
        BY <1>3, <2>2, <3>1, <3>6
      <4> QED BY <1>2, <1>3, <2>1, <3>2, <3>6, <4>1 DEF Unsent
    <3>7. ASSUME NEW k \in Ids, status'[k] \in {"Scheduled", "Failed"}
          PROVE  sends'[k] = 0 \/ \E v \in DD!Workers : at'[v] = "setSucceeded" /\ InHand(v, k)'
      <4>1. CASE k = m
        BY <1>1, <1>2, <3>1, <4>1 DEF InHand
      <4>2. CASE k # m
        <5>1. sends[k] = 0 \/ \E v \in DD!Workers : at[v] = "setSucceeded" /\ InHand(v, k)
          BY <1>2, <2>1, <3>7 DEF Unsent
        <5> QED BY <1>3, <2>3, <3>2, <4>2, <5>1
      <4> QED BY <4>1, <4>2
    <3> QED BY <3>4, <3>5, <3>6, <3>7 DEF Unsent
  <2>5. CASE DD!SendFails(w)
    <3>1. UNCHANGED sends
      BY <2>5 DEF DD!SendFails
    <3> QED BY <1>1, <1>2, <1>3, <2>1, <2>2, <2>3, <3>1 DEF Unsent
  <2> QED BY <2>4, <2>5
<1> QED BY <1>4, <1>5, <1>6, <1>7, <1>8

(* The state is written: m keeps its copy, to be sent again, or loses it.  *)
LEMMA WritesSolo ==
    ASSUME Solo, OutboxInv, NodeInv, NEW w \in DD!Workers,
           DD!SetSucceededState(w) \/ DD!SetFailedState(w), UNCHANGED publisherVars
    PROVE  NodeInv'
<1> USE DEF NodeInv
<1>1. PICK m \in Ids : m = copy[w].msg /\ status[m] # "Absent"
  BY DEF DD!SetSucceededState, DD!SetFailedState, OutboxInv, DD!IInv, DD!CopiesSane, Ids
<1>2. /\ at[w] \in {"setSucceeded", "setFailed"}
      /\ \/ at'[w] = "idle" /\ copy'[w].msg = NoMessage
         \/ at'[w] = "send" /\ copy'[w] = copy[w] /\ at[w] = "setFailed"
      /\ \A v \in DD!Workers : v # w => at'[v] = at[v] /\ copy'[v] = copy[v]
      /\ UNCHANGED <<old, queue, batch, sends, dbFaults, crashes>>
  BY SoloTypes DEF DD!SetSucceededState, DD!SetFailedState, DD!Release, DD!NoCopy, DD!faultVars
<1>3. /\ \/ status'[m] = "Deleted" /\ status[m] = "Deleted" /\ retries'[m] = retries[m]
         \/ status'[m] = "Succeeded" /\ at'[w] = "idle" /\ retries'[m] = copy[w].retries
         \/ status'[m] = "Failed" /\ at[w] = "setFailed" /\ retries'[m] = copy[w].retries
      /\ \A k \in Ids : k # m => status'[k] = status[k] /\ retries'[k] = retries[k]
  BY <1>1, SoloTypes DEF DD!SetSucceededState, DD!SetFailedState, DD!Release, DD!Write
<1>4. /\ ~Unflushed(m) /\ ~InQueue(m) /\ ~InBatch(m)
      /\ \A v \in DD!Workers : InHand(v, m) => v = w
  BY <1>1, HeldOnce DEF InHand
<1>5. /\ \A k \in Ids : Unflushed(k)' <=> Unflushed(k)
      /\ \A k \in Ids : InQueue(k)' <=> InQueue(k)
      /\ \A k \in Ids : InBatch(k)' <=> InBatch(k)
      /\ \A k \in Ids : \A v \in DD!Workers :
             InHand(v, k)' => InHand(v, k) /\ copy'[v] = copy[v] /\ (v = w => at'[w] = "send")
      /\ UNCHANGED enqueued
  BY <1>2, UnflushedStays, SoloTypes DEF InQueue, InBatch, InHand
<1>6. IdleIsEmpty'
  BY <1>1, <1>2, SoloTypes DEF IdleIsEmpty
<1>7. FreshIsOnce' /\ RetriedIsOnce'
  BY <1>2, <1>5, SoloTypes DEF FreshIsOnce, RetriedIsOnce
<1>8. FreshOrOld'
  BY <1>1, <1>2, <1>3, <1>5, SoloTypes DEF FreshOrOld, Fresh, Retried
<1>9. InHandIsUnsettled'
  <2>1. \A k \in Ids : /\ Fresh(k)' => Fresh(k)
                       /\ Retried(k)' => Retried(k)
    BY <1>5, SoloTypes DEF Fresh, Retried
  <2>2. status'[m] = "Succeeded" => ~Fresh(m)' /\ ~Retried(m)'
    BY <1>3, <1>4, <1>5, SoloTypes DEF Fresh, Retried
  <2> QED BY <1>3, <2>1, <2>2 DEF InHandIsUnsettled
<1>10. CopiesCountRetries'
  <2>1. /\ copy[w].retries \in Nat /\ copy[w].retries >= copy[w].retries
        /\ copy[w].retries >= retries[m]
    BY <1>1, SoloTypes DEF CopiesCountRetries, InHand
  <2>2. \A k \in Ids : Unflushed(k)' \/ InQueue(k)' => retries'[k] = 0
    BY <1>3, <1>4, <1>5 DEF CopiesCountRetries
  <2>3. \A k \in Ids : \A c \in batch'[Home] : c.msg = k => c.retries >= retries'[k]
    BY <1>2, <1>3, <1>4 DEF CopiesCountRetries, InBatch
  <2>4. ASSUME NEW k \in Ids, NEW v \in DD!Workers, InHand(v, k)'
        PROVE  copy'[v].retries >= retries'[k]
    <3>1. InHand(v, k) /\ copy'[v] = copy[v] /\ copy[v].retries >= retries[k]
      BY <1>5, <2>4 DEF CopiesCountRetries
    <3>2. CASE k = m
      <4>1. v = w
        BY <1>4, <3>1, <3>2
      <4> QED BY <1>3, <2>1, <3>1, <3>2, <4>1
    <3>3. CASE k # m
      BY <1>3, <3>1, <3>3
    <3> QED BY <3>2, <3>3
  <2> QED BY <2>2, <2>3, <2>4 DEF CopiesCountRetries
<1>11. ASSUME NoFaults'
       PROVE  Unsent'
  <2>1. Unsent
    BY <1>2, <1>11 DEF NoFaults
  <2>2. at[w] = "setFailed" => sends[m] = 0
    BY <1>1, <2>1 DEF Unsent, InHand
  <2>3. \A k \in Ids : Unflushed(k)' \/ InQueue(k)' \/ InBatch(k)' => sends'[k] = 0
    BY <1>2, <1>5, <2>1 DEF Unsent
  <2>4. ASSUME NEW k \in Ids, NEW v \in DD!Workers, InHand(v, k)', at'[v] \in {"send", "setFailed"}
        PROVE  sends'[k] = 0
    <3>1. InHand(v, k) /\ at[v] \in {"send", "setFailed"}
      BY <1>2, <1>5, <2>4
    <3> QED BY <1>2, <2>1, <3>1 DEF Unsent
  <2>5. ASSUME NEW k \in Ids, status'[k] \in {"Scheduled", "Failed"}
        PROVE  sends'[k] = 0 \/ \E v \in DD!Workers : at'[v] = "setSucceeded" /\ InHand(v, k)'
    <3>1. CASE k = m
      BY <1>2, <1>3, <2>2, <2>5, <3>1
    <3>2. CASE k # m
      <4>1. sends[k] = 0 \/ \E v \in DD!Workers : at[v] = "setSucceeded" /\ InHand(v, k)
        BY <1>3, <2>1, <2>5, <3>2 DEF Unsent
      <4>2. \A v \in DD!Workers : InHand(v, k) => v # w
        BY <1>1, <3>2 DEF InHand
      <4> QED BY <1>2, <4>1, <4>2 DEF InHand
    <3> QED BY <3>1, <3>2
  <2>6. \A k \in Ids : sends'[k] <= 1
    BY <1>2, <2>1 DEF Unsent
  <2> QED BY <2>3, <2>4, <2>5, <2>6 DEF Unsent
<1> QED BY <1>6, <1>7, <1>8, <1>9, <1>10, <1>11

LEMMA AgeSolo ==
    ASSUME Solo, OutboxInv, NodeInv, NEW m \in Ids, Age(m)
    PROVE  NodeInv'
<1> USE DEF NodeInv
<1>1. /\ ~Unflushed(m) /\ ~DD!InMemory(m) /\ status[m] # "Absent"
      /\ old' = [old EXCEPT ![m] = TRUE]
      /\ UNCHANGED <<status, retries, queue, batch, at, copy, sends, dbFaults, crashes>>
      /\ UNCHANGED publisherVars
  BY SameRow DEF Age, D!Age, Solo, Unflushed, D!memVars, D!faultVars
<1>2. ~Fresh(m)
  <2>1. ~InQueue(m)
    <3> SUFFICES ASSUME NEW i \in DOMAIN queue[Home], queue[Home][i] = m
                 PROVE  FALSE
      BY DEF InQueue, PP!InSeq
    <3>1. <<Home, i>> \in {Home} \X {j \in DOMAIN queue[Home] : queue[Home][j] = m}
      OBVIOUS
    <3>2. <<Home, i>> \in DD!Queued(m)
      BY <3>1, HomeAssumption DEF DD!Queued
    <3> QED BY <1>1, <3>2 DEF DD!InMemory
  <2>2. ~InHand(Disp, m)
    BY <1>1, SoloTypes DEF DD!InMemory, DD!Holders, InHand
  <2> QED BY <1>1, <2>1, <2>2 DEF Fresh
<1>3. /\ \A k \in Ids : Unflushed(k)' <=> Unflushed(k)
      /\ \A k \in Ids : InQueue(k)' <=> InQueue(k)
      /\ \A k \in Ids : InBatch(k)' <=> InBatch(k)
      /\ \A k \in Ids : \A v \in DD!Workers : InHand(v, k)' <=> InHand(v, k)
      /\ UNCHANGED enqueued
  BY <1>1, UnflushedStays DEF InQueue, InBatch, InHand
<1>4. FreshOrOld'
  BY <1>1, <1>2, <1>3, SoloTypes DEF FreshOrOld, Fresh, Retried
<1>5. IdleIsEmpty' /\ FreshIsOnce' /\ RetriedIsOnce'
  BY <1>1, <1>3, SoloTypes DEF IdleIsEmpty, FreshIsOnce, RetriedIsOnce
<1>6. InHandIsUnsettled' /\ CopiesCountRetries'
  BY <1>1, <1>3, SoloTypes DEF InHandIsUnsettled, CopiesCountRetries, Fresh, Retried
<1>7. NoFaults' => Unsent'
  BY <1>1, <1>3 DEF NoFaults, Unsent
<1> QED BY <1>4, <1>5, <1>6, <1>7

(* The steps that only take copies or rows away.                           *)
LEMMA LossesSolo ==
    ASSUME Solo, OutboxInv, NodeInv, UNCHANGED publisherVars,
           \/ \E w \in DD!Workers : DD!SendThrows(w) \/ DD!WriteThrows(w)
           \/ \E m \in Ids : DD!Expire(m) \/ DD!Collect(m)
    PROVE  NodeInv'
<1>1. ASSUME NEW w \in DD!Workers, DD!SendThrows(w) \/ DD!WriteThrows(w)
      PROVE  NodeInv'
  <2>1. /\ UNCHANGED <<status, retries, old, sends, queue, crashes>>
        /\ batch'[Home] \subseteq batch[Home]
        /\ at'[w] = "idle" /\ copy'[w].msg = NoMessage
        /\ \A v \in DD!Workers : v # w => at'[v] = at[v] /\ copy'[v] = copy[v]
    <3>1. DD!Abandon(w) /\ UNCHANGED <<status, retries, old, sends, queue, crashes>>
      BY <1>1 DEF DD!SendThrows, DD!WriteThrows, DD!rowVars
    <3>2. batch'[Home] \subseteq batch[Home]
      BY <3>1, SoloTypes DEF DD!Abandon
    <3>3. at' = [at EXCEPT ![w] = "idle"] /\ copy' = [copy EXCEPT ![w] = DD!NoCopy]
      BY <3>1 DEF DD!Abandon, DD!Release
    <3> QED BY <3>1, <3>2, <3>3, SoloTypes DEF DD!NoCopy
  <2>2. \/ at[w] = "send" /\ dbFaults' = dbFaults
        \/ dbFaults' = dbFaults + 1
    BY <1>1 DEF DD!SendThrows, DD!WriteThrows
  <2>3. (NoFaults' => NoFaults) /\ (NoFaults' => at[w] # "setSucceeded")
    BY <2>1, <2>2, SoloTypes DEF NoFaults
  <2> QED BY <2>1, <2>3, FewerCopies
<1>2. ASSUME NEW m \in Ids, DD!Expire(m) \/ DD!Collect(m)
      PROVE  NodeInv'
  <2>1. /\ UNCHANGED <<retries, old, sends, queue, batch, at, copy, dbFaults, crashes>>
        /\ \A k \in Ids : status'[k] = status[k] \/ status'[k] = "Deleted"
    BY <1>2, SoloTypes DEF DD!Expire, DD!Collect, DD!memVars, DD!faultVars
  <2> QED BY <2>1, FewerCopies DEF NoFaults
<1> QED BY <1>1, <1>2

LEMMA SoloInit == Init => SoloInv
<1> SUFFICES ASSUME Init PROVE SoloInv
  OBVIOUS
<1>1. PP!Init /\ DD!Init /\ OutboxInv
  BY SameInit, OutboxInit
<1>2. PP!UseInv /\ PP!FollowInv
  BY <1>1, PP!UseInit, PP!FollowInit, TxAssumption, BoundAssumption, UseAssumption
<1>3. \A m \in Ids : ~Unflushed(m)
  BY <1>1, UnflushedIs DEF PP!Init, PP!ToFlush, Ids
<1>4. /\ queue[Home] = <<>> /\ batch[Home] = {}
      /\ \A w \in DD!Workers : at[w] = "idle" /\ copy[w].msg = NoMessage
      /\ \A m \in Ids : status[m] = "Absent" /\ ~old[m] /\ sends[m] = 0 /\ retries[m] = 0
      /\ Disp \in DD!Workers /\ Retry \in DD!Workers /\ NoMessage \notin Ids
  BY <1>1, HomeAssumption, NoMessageAssumption
  DEF DD!Init, DD!NoCopy, Ids, Disp, Retry, DD!Workers
<1>5. IdleIsEmpty /\ FreshIsOnce /\ RetriedIsOnce
  BY <1>4 DEF IdleIsEmpty, FreshIsOnce, RetriedIsOnce, InQueue, InBatch, InHand, PP!InSeq,
              PP!NoRepeat
<1>6. \A m \in Ids : ~InQueue(m) /\ ~InBatch(m) /\ \A w \in DD!Workers : ~InHand(w, m)
  BY <1>4 DEF InQueue, InBatch, InHand, PP!InSeq
<1>7. FreshOrOld /\ InHandIsUnsettled /\ CopiesCountRetries
  BY <1>3, <1>4, <1>6 DEF FreshOrOld, InHandIsUnsettled, CopiesCountRetries, Fresh, Retried
<1>8. Unsent
  BY <1>4 DEF Unsent
<1> QED BY <1>1, <1>2, <1>5, <1>7, <1>8 DEF SoloInv, NodeInv

LEMMA SoloNext ==
    ASSUME Solo, SoloInv, [Next]_vars
    PROVE  SoloInv'
<1>1. OutboxInv'
  BY OutboxNext DEF SoloInv, Solo
<1>2. PP!UseInv' /\ PP!FollowInv'
  <2>1. [PP!Next]_PP!vars \/ PublishersStay
    <3>1. CASE UNCHANGED vars
      BY <3>1 DEF vars, publisherVars, PP!vars
    <3>2. ASSUME NEW p \in Publishers, PublisherStep(p) \/ ApplicationCall(p)
          PROVE  PP!Next
      BY <3>2, SamePublisher DEF PublisherStep, ApplicationCall
    <3>3. CASE DeliveryStep
      BY <3>3, DeliveryKeeps DEF SoloInv
    <3> QED BY <3>1, <3>2, <3>3, StepKinds
  <2> QED BY <2>1, PublishersKeep DEF SoloInv, OutboxInv, Solo
<1>3. NodeInv'
  <2> USE DEF SoloInv
  <2>1. CASE UNCHANGED vars
    <3>1. UNCHANGED <<status, retries, old, queue, batch, at, copy, sends, dbFaults, crashes>>
          /\ UNCHANGED publisherVars
      BY <2>1 DEF vars, deliveryVars
    <3> QED BY <3>1, FewerCopies DEF NoFaults
  <2>2. ASSUME NEW p \in Publishers, PublisherStep(p) \/ ApplicationCall(p)
        PROVE  NodeInv'
    BY <2>2, PublisherSolo
  <2>3. ASSUME NEW n \in Nodes, Take(n) \/ Scan(n) \/ PickFromBatch(n) \/ Crash(n)
        PROVE  NodeInv'
    <3>1. n = Home
      BY <2>3 DEF Solo
    <3> QED BY <2>3, <3>1, SameNode, TakeSolo, ScanSolo, PickSolo, CrashSolo
            DEF Take, Scan, PickFromBatch
  <2>4. ASSUME NEW w \in D!Workers, SendAsync(w)
        PROVE  NodeInv'
    <3>1. w \in DD!Workers /\ DD!SendAsync(w) /\ UNCHANGED publisherVars
      BY <2>4, SameSender DEF SendAsync
    <3> QED BY <3>1, SendsSolo, WritesSolo, LossesSolo DEF DD!SendAsync
  <2>5. ASSUME NEW m \in Ids, Age(m) \/ Expire(m) \/ Collect(m)
        PROVE  NodeInv'
    BY <2>5, AgeSolo, LossesSolo, SameRow DEF Expire, Collect
  <2> QED BY <2>1, <2>2, <2>3, <2>4, <2>5, SameIds DEF Next
<1> QED BY <1>1, <1>2, <1>3 DEF SoloInv

(* The inductive invariant on one node: where the copies of a message are, *)
(* and what each of them knows of its row.                                 *)
THEOREM SoloInvariance == Solo => (Spec => []SoloInv)
<1> SUFFICES ASSUME Solo PROVE Spec => []SoloInv
  OBVIOUS
<1>1. SoloInv /\ [Next]_vars => SoloInv'
  BY SoloNext
<1> QED BY <1>1, SoloInit, PTL DEF Spec

-----------------------------------------------------------------------------
LEMMA AtMostOne ==
    ASSUME NEW S, \A a, b \in S : a = b
    PROVE  Cardinality(S) = IF S = {} THEN 0 ELSE 1
<1>1. CASE S = {}
  BY <1>1, FS_EmptySet
<1>2. CASE S # {}
  <2>1. PICK a : S = {a}
    BY <1>2
  <2> QED BY <1>2, <2>1, FS_Singleton
<1> QED BY <1>1, <1>2

(* On one node a message is in one place at a time: in a buffer that its   *)
(* call will flush, in the queue, in the batch of the retry scan, or with  *)
(* a worker that sends it.                                                 *)
THEOREM InOnePlace == Solo => (Spec => []OneCopy)
<1> SUFFICES ASSUME Solo PROVE Spec => []OneCopy
  OBVIOUS
<1>1. ASSUME SoloInv PROVE OneCopy
  <2> SUFFICES ASSUME NEW m \in Ids
               PROVE  Cardinality(BeforeFlush(m)) + Cardinality(D!Queued(m))
                          + Cardinality(D!Fetched(m)) + Cardinality(D!Holders(m)) <= 1
    BY SameIds DEF OneCopy
  <2> USE <1>1 DEF SoloInv, NodeInv
  <2> DEFINE B == BeforeFlush(m)
             Q == D!Queued(m)
             F == D!Fetched(m)
             H == D!Holders(m)
  <2>1. \A a, b \in B : a = b
    <3>1. \A p \in B : p \in Publishers /\ PP!ToFlush(p, m)
      BY SameInSeq DEF BeforeFlush, PP!ToFlush, P!InSeq, PP!InSeq
    <3> QED BY <3>1, SameIds, PP!ToFlushOnce, TxAssumption, BoundAssumption, UseAssumption
            DEF OutboxInv, PubInv
  <2>2. (\A a, b \in Q : a = b) /\ (Q # {} => InQueue(m))
    <3>1. \A a \in Q : \E i \in DOMAIN queue[Home] : a = <<Home, i>> /\ queue[Home][i] = m
      BY DEF D!Queued, Solo
    <3> QED BY <3>1 DEF FreshIsOnce, PP!NoRepeat, InQueue, PP!InSeq
  <2>3. (\A a, b \in F : a = b) /\ (F # {} => InBatch(m))
    BY DEF D!Fetched, Solo, InBatch
  <2>4. \A w \in H : w \in DD!Workers /\ InHand(w, m)
    BY DEF D!Holders, D!Workers, DD!Workers, InHand
  <2>5. (\A a, b \in H : a = b) /\ (H # {} => B = {} /\ Q = {} /\ F = {})
    BY <2>2, <2>3, <2>4, HeldOnce DEF Unflushed
  <2>6. F # {} => B = {} /\ Q = {}
    BY <2>2, <2>3 DEF FreshOrOld, Fresh, Retried, Unflushed
  <2>7. Q # {} => B = {}
    <3>1. InQueue(m) => PP!InSeq(m, enqueued)
      BY DEF FreshIsOnce
    <3>2. Unflushed(m) => ~PP!InSeq(m, enqueued)
      BY UnflushedIs, SameIds, PP!ToFlushOnce, TxAssumption, BoundAssumption, UseAssumption
      DEF OutboxInv, PubInv
    <3> QED BY <2>2, <3>1, <3>2 DEF Unflushed
  <2>8. /\ Cardinality(B) = IF B = {} THEN 0 ELSE 1
        /\ Cardinality(Q) = IF Q = {} THEN 0 ELSE 1
        /\ Cardinality(F) = IF F = {} THEN 0 ELSE 1
        /\ Cardinality(H) = IF H = {} THEN 0 ELSE 1
    BY <2>1, <2>2, <2>3, <2>5, AtMostOne
  <2> HIDE DEF B, Q, F, H
  <2>9. Cardinality(B) + Cardinality(Q) + Cardinality(F) + Cardinality(H) <= 1
    BY <2>5, <2>6, <2>7, <2>8
  <2> QED BY <2>9 DEF B, Q, F, H
<1> QED BY <1>1, SoloInvariance, PTL

(* On one node, without crashes and failing writes, a message is sent at   *)
(* most once, although its row can be read as soon as the database has     *)
(* committed and its buffer is flushed after that.                         *)
THEOREM SentAtMostOnce == Solo => (Spec => []SentOnce)
<1> SUFFICES ASSUME Solo PROVE Spec => []SentOnce
  OBVIOUS
<1>1. SoloInv => SentOnce
  BY DEF SoloInv, NodeInv, NoFaults, Unsent, SentOnce, D!SentOnce, Ids
<1> QED BY <1>1, SoloInvariance, PTL

(* What a step may do to a row.                                            *)
LEMMA RowsOnlyGrow ==
    ASSUME Solo, SoloInv, [Next]_vars, NEW m \in Ids
    PROVE  /\ status[m] = "Succeeded" => status'[m] \in {"Succeeded", "Deleted"}
           /\ retries'[m] >= retries[m]
<1> USE DEF SoloInv, DD!rowVars
<1>0. retries[m] \in Nat /\ retries[m] >= retries[m]
  BY SoloTypes
<1>1. CASE UNCHANGED vars
  BY <1>0, <1>1 DEF vars, deliveryVars
<1>2. ASSUME NEW p \in Publishers, PublisherStep(p) \/ ApplicationCall(p)
      PROVE  /\ status[m] = "Succeeded" => status'[m] \in {"Succeeded", "Deleted"}
             /\ retries'[m] >= retries[m]
  BY <1>0, <1>2, RowsOfPublisher DEF PublisherStep, ApplicationCall, Meet
<1>3. ASSUME NEW n \in Nodes, DD!Take(n) \/ DD!Scan(n) \/ DD!PickFromBatch(n) \/ DD!Crash(n)
      PROVE  UNCHANGED <<status, retries>>
  BY <1>3 DEF DD!Take, DD!Scan, DD!PickFromBatch, DD!Crash
<1>4. ASSUME NEW w \in DD!Workers, DD!SendAsync(w)
      PROVE  /\ status[m] = "Succeeded" => status'[m] \in {"Succeeded", "Deleted"}
             /\ retries'[m] >= retries[m]
  <2>1. CASE DD!SendSucceeds(w) \/ DD!SendFails(w) \/ DD!SendThrows(w) \/ DD!WriteThrows(w)
    BY <1>0, <2>1 DEF DD!SendSucceeds, DD!SendFails, DD!SendThrows, DD!WriteThrows
  <2>2. CASE DD!SetSucceededState(w) \/ DD!SetFailedState(w)
    <3>1. PICK state \in {"Succeeded", "Failed"} : DD!Write(w, state)
      BY <2>2 DEF DD!SetSucceededState, DD!SetFailedState
    <3>2. CASE m = copy[w].msg
      <4>1. status[m] # "Succeeded" /\ copy[w].retries >= retries[m]
        BY <3>2, WorkersOfSolo
        DEF NodeInv, InHandIsUnsettled, CopiesCountRetries, Fresh, Retried, InHand
      <4>2. retries'[m] \in {retries[m], copy[w].retries}
        BY <3>1, <3>2, SoloTypes DEF DD!Write
      <4> QED BY <1>0, <4>1, <4>2
    <3>3. CASE m # copy[w].msg
      <4>1. status'[m] = status[m] /\ retries'[m] = retries[m]
        BY <3>1, <3>3, SoloTypes DEF DD!Write
      <4> QED BY <1>0, <4>1
    <3> QED BY <3>2, <3>3
  <2> QED BY <1>4, <2>1, <2>2 DEF DD!SendAsync
<1>5. ASSUME NEW k \in Ids, DD!RowStep(k)
      PROVE  /\ status[m] = "Succeeded" => status'[m] \in {"Succeeded", "Deleted"}
             /\ retries'[m] >= retries[m]
  BY <1>0, <1>5, SoloTypes DEF DD!RowStep, DD!Age, DD!Expire, DD!Collect
<1> QED BY <1>0, <1>1, <1>2, <1>3, <1>4, <1>5, StepKinds DEF DeliveryStep

(* On one node Succeeded is final: the write of another copy never takes   *)
(* it back.                                                                *)
THEOREM SuccessIsFinal == Solo => (Spec => SucceededIsFinal)
<1> SUFFICES ASSUME Solo PROVE Spec => SucceededIsFinal
  OBVIOUS
<1>1. SoloInv /\ [Next]_vars =>
          [\A m \in 1 .. MaxMessages :
              status[m] = "Succeeded" => status'[m] \in {"Succeeded", "Deleted"}]_(D!vars)
  BY RowsOnlyGrow DEF Ids
<1> QED BY <1>1, SoloInvariance, PTL DEF Spec, SucceededIsFinal, D!SucceededIsFinal

(* On one node the failures that a row counts are never forgotten.         *)
THEOREM FailuresAreKept == Solo => (Spec => RetriesNeverLost)
<1> SUFFICES ASSUME Solo PROVE Spec => RetriesNeverLost
  OBVIOUS
<1>1. SoloInv /\ [Next]_vars =>
          [\A m \in 1 .. MaxMessages : retries'[m] >= retries[m]]_(D!vars)
  BY RowsOnlyGrow DEF Ids
<1> QED BY <1>1, SoloInvariance, PTL DEF Spec, RetriesNeverLost, D!RetriesNeverLost

=============================================================================
