------------------------------ MODULE CapOutbox -----------------------------
(***************************************************************************)
(* The sending side of CAP as a whole: the publishers of CapTransaction    *)
(* live in a node of MessageDelivery.  The two meet in the Published       *)
(* table, where a commit makes rows appear, and in the dispatcher's queue, *)
(* where Flush puts the messages of its buffer one by one while the        *)
(* dispatcher already sends the first of them.                             *)
(*                                                                         *)
(* The steps are those of the two modules.  Store of MessageDelivery,      *)
(* which stands for a publisher there, is replaced by the publishers.      *)
(***************************************************************************)
EXTENDS Integers, Sequences, FiniteSets

CONSTANTS
    Publishers, Transactions, NoTx, Noop, MaxMessages,   \* see CapTransaction
    MixedUse, ReuseAfterRollback, MaxCrashes,
    NoMessage, Nodes, FailedRetryCount, DefaultRetryCount,   \* see MessageDelivery
    Timely, RetriesInTime, MaxBrokerFaults, MaxDbFaults,
    Home                                                 \* the publishers' node

VARIABLES
    dbTransaction, autoCommit, notUseTransaction, bufferList, pc, current,
    rowTx, tx, outcome, nextId, enqueued,                          \* CapTransaction
    status, retries, expiry, old, queue, batch, at, copy, sends,
    callbacks, brokerFaults, dbFaults,                             \* MessageDelivery
    crashes                                                        \* both

P == INSTANCE CapTransaction
D == INSTANCE MessageDelivery WITH Messages <- 1 .. MaxMessages

ASSUME HomeAssumption == Home \in Nodes
ASSUME TxAssumption == NoTx \notin Transactions /\ Noop \notin Transactions /\ NoTx # Noop
ASSUME BoundAssumption == MaxMessages \in Nat /\ MaxCrashes \in Nat
ASSUME UseAssumption == MixedUse \in BOOLEAN /\ ReuseAfterRollback \in BOOLEAN
ASSUME NoMessageAssumption == NoMessage \notin 1 .. MaxMessages
ASSUME RetryAssumption == FailedRetryCount \in Nat \ {0} /\ DefaultRetryCount \in Nat \ {0}
ASSUME FlagAssumption == Timely \in BOOLEAN /\ RetriesInTime \in BOOLEAN
ASSUME FaultAssumption == MaxBrokerFaults \in Nat /\ MaxDbFaults \in Nat /\ MaxCrashes \in Nat

publisherVars == <<dbTransaction, autoCommit, notUseTransaction, bufferList, pc, current,
                   rowTx, tx, outcome, nextId, enqueued>>
deliveryVars == <<status, retries, expiry, old, queue, batch, at, copy, sends, callbacks,
                  brokerFaults, dbFaults>>
vars == <<publisherVars, deliveryVars, crashes>>

Init == P!Init /\ D!Init

-----------------------------------------------------------------------------
(* Mutant of RowsAppear: rows are seen before their transaction commits.   *)
RowsAppear_Dirty ==
    status' = [m \in P!Ids |-> IF status[m] = "Absent" /\ rowTx'[m] # NoTx
                               THEN "Scheduled" ELSE status[m]]

(* The rows a step of a publisher makes durable are Scheduled; until then  *)
(* the queries of the processors pass over them.                           *)
RowsAppear ==
    status' = [m \in P!Ids |-> IF status[m] = "Absent" /\ P!Durable(m)'
                               THEN "Scheduled" ELSE status[m]]

(* EnqueueToPublish: what is handed to the dispatcher is in its queue.     *)
Handover ==
    queue' = [queue EXCEPT ![Home] =
                 @ \o SubSeq(enqueued', Len(enqueued) + 1, Len(enqueued'))]

Meet ==
    /\ RowsAppear /\ Handover
    /\ UNCHANGED <<retries, expiry, old, batch, at, copy, sends, callbacks,
                   brokerFaults, dbFaults, crashes>>

PublisherStep(p) == P!Step(p) /\ Meet
ApplicationCall(p) == P!Application(p) /\ Meet

(* The publishers with a running call that has yet to hand m over.         *)
BeforeFlush(m) ==
    {p \in Publishers : \/ current[p] = m /\ ~P!InSeq(m, enqueued)
                        \/ pc[p] = "flush" /\ P!InSeq(m, bufferList[p])}

(* Timely: a call that commits comes to its Flush within four minutes.     *)
Age(m) ==
    /\ Timely => BeforeFlush(m) = {}
    /\ D!Age(m)
    /\ UNCHANGED publisherVars

Expire(m) == D!Expire(m) /\ UNCHANGED publisherVars
Collect(m) == D!Collect(m) /\ UNCHANGED publisherVars
Take(n) == D!Take(n) /\ UNCHANGED publisherVars
Scan(n) == D!Scan(n) /\ UNCHANGED publisherVars
PickFromBatch(n) == D!PickFromBatch(n) /\ UNCHANGED publisherVars
SendAsync(w) == D!SendAsync(w) /\ UNCHANGED publisherVars

(* A crash of Home takes its publishers with it.                           *)
Crash(n) ==
    /\ D!Crash(n)
    /\ IF n = Home THEN P!Crash ELSE UNCHANGED publisherVars

Next ==
    \/ \E p \in Publishers : PublisherStep(p) \/ ApplicationCall(p)
    \/ \E n \in Nodes : Take(n) \/ Scan(n) \/ PickFromBatch(n) \/ Crash(n)
    \/ \E w \in D!Workers : SendAsync(w)
    \/ \E m \in P!Ids : Age(m) \/ Expire(m) \/ Collect(m)

Spec == Init /\ [][Next]_vars

(* The fairness of the two modules.                                        *)
FairSpec ==
    /\ Spec
    /\ \A p \in Publishers : WF_vars(PublisherStep(p))
    /\ \A n \in Nodes : WF_vars(Take(n)) /\ WF_vars(Scan(n)) /\ WF_vars(PickFromBatch(n))
    /\ \A w \in D!Workers : WF_vars(SendAsync(w))
    /\ \A m \in P!Ids : WF_vars(Age(m))

-----------------------------------------------------------------------------
(* Properties                                                              *)

(* Without crashes and failing writes a message is sent once, although its *)
(* row can be read as soon as the database has committed and its buffer is *)
(* flushed after that.                                                     *)
SentOnce == D!SentOnce

(* A message is in one place at a time: in a buffer that its call will     *)
(* flush, in the dispatcher's queue, in a batch of the retry scan, or with *)
(* a worker that sends it.                                                 *)
OneCopy ==
    \A m \in P!Ids :
        Cardinality(BeforeFlush(m)) + Cardinality(D!Queued(m))
            + Cardinality(D!Fetched(m)) + Cardinality(D!Holders(m)) <= 1

(* Succeeded is final: no later write of another copy takes it back, which *)
(* would send the message again.                                           *)
SucceededIsFinal == D!SucceededIsFinal

(* The failures a row counts are never forgotten by a later write.         *)
RetriesNeverLost == D!RetriesNeverLost

(* From the application's transaction to the broker: only what is          *)
(* committed is sent, by whichever worker, and a row is deleted only when  *)
(* its message was sent or reported.                                       *)
Promise == INSTANCE Outbox WITH
    Messages <- P!Ids,
    stored <- {m \in P!Ids : P!Durable(m)},
    sent <- {m \in P!Ids : sends[m] > 0},
    reported <- {m \in P!Ids : callbacks[m] # <<>>},
    removed <- {m \in P!Ids : status[m] = "Deleted"}

ImplementsOutbox == Promise!Spec

(* What is committed is sent or reported in the end, though the process    *)
(* may die between the database's commit and the flush of the buffer.      *)
CommittedIsSettled == Promise!Settled

=============================================================================
