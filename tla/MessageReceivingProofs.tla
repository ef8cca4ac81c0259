----------------------- MODULE MessageReceivingProofs -----------------------
(***************************************************************************)
(* Proofs about MessageReceiving for any number of nodes, messages and     *)
(* rows and any retry limits: what is acknowledged is stored, what the     *)
(* states of a row guarantee, and, when no row expires under its retries   *)
(* and subscribers are found before the first scan, that the rows keep the *)
(* promise of the Outbox; then, when copies in memory are timely, whenever *)
(* the subscribers are found, that a row is executed by one execution at a *)
(* time on a node and, when nothing fails, that a message is consumed once.*)
(***************************************************************************)
EXTENDS MessageReceiving, FiniteSetTheorems, SequenceTheorems, TLAPS

(* What a handler has in its hands.                                        *)
HandlersSane ==
    \A n \in Nodes :
        /\ handler[n] # "idle" => handled[n] \in Messages
        /\ handler[n] \in {"commit", "enqueue"} =>
               handledRow[n] \in Rows /\ msgOf[handledRow[n]] = handled[n]

(* A row is absent until it gets its message; until then nothing happened  *)
(* to it.                                                                  *)
RowsSane ==
    \A r \in Rows :
        /\ msgOf[r] = NoMessage <=> status[r] = "Absent"
        /\ status[r] = "Absent" => /\ retries[r] = 0 /\ expiry[r] = "null" /\ ~Invoked(r)
                                   /\ r \notin answered /\ r \notin reported

QueuesSane ==
    /\ \A n \in Nodes : \A i \in DOMAIN queue[n] : status[queue[n][i]] # "Absent"
    /\ \A n \in Nodes : \A c \in batch[n] : status[c.row] # "Absent"

(* What an execution knows of its row.                                     *)
ExecutionSane(x) ==
    /\ status[x.row] # "Absent"
    /\ x.at # "setFailed" => x.retries < FailedRetryCount
    /\ x.at \in {"callback", "setSucceeded"} => Invoked(x.row) /\ Owed(x.row)
    /\ x.at = "setSucceeded" /\ msgOf[x.row] \in Answered => x.row \in answered
    /\ x.at = "setFailed" /\ x.retries = FailedRetryCount => x.row \in reported

ExecutionsSane == \A x \in running : ExecutionSane(x)

(* A node that has work has found its subscribers, if they are found       *)
(* before the first scan; then no row with a subscriber is given up.       *)
EntriesSane ==
    StartsFirst =>
        /\ \A n \in Nodes : handler[n] # "idle" \/ queue[n] # <<>> \/ batch[n] # {} => n \in entries
        /\ \A x \in running : x.node \in entries

OwedIsNotGivenUp ==
    StartsFirst =>
        /\ \A r \in Rows : Owed(r) => retries[r] <= FailedRetryCount
        /\ \A x \in running : Owed(x.row) => x.retries <= FailedRetryCount

Settled(r) == Invoked(r) \/ r \in reported

ExpiredIsSettled ==
    RetriesInTime /\ StartsFirst =>
        \A r \in Rows : Owed(r) /\ (expiry[r] = "past" \/ status[r] = "Deleted") => Settled(r)

(* The inductive invariant.                                                *)
IInv ==
    /\ TypeOK
    /\ HandlersSane
    /\ RowsSane
    /\ QueuesSane
    /\ ExecutionsSane
    /\ EntriesSane
    /\ OwedIsNotGivenUp
    /\ AckedIsStored
    /\ SucceededWasInvoked
    /\ ThresholdIsReported
    /\ ExpiredIsSettled

-----------------------------------------------------------------------------
Steps == {"invoke", "callback", "setSucceeded", "setFailed"}
AllExecutions == [node : Nodes, by : Executors, row : Rows,
                  retries : 0 .. FailedRetryCount + 1, at : Steps]

LEMMA RetryCountBound == RetryCount \in Nat /\ RetryCount <= FailedRetryCount
  BY RetryAssumption DEF RetryCount, Lesser

LEMMA Initial == Init => IInv
<1> SUFFICES ASSUME Init PROVE IInv
  OBVIOUS
<1> USE MessageAssumption, SubscriberAssumption, RetryAssumption, BoundAssumption DEF Init
<1>1. TypeOK
  BY DEF TypeOK
<1>2. HandlersSane /\ RowsSane /\ QueuesSane /\ ExecutionsSane
  BY DEF HandlersSane, RowsSane, QueuesSane, ExecutionsSane, ExecutionSane, Invoked
<1>3. EntriesSane /\ OwedIsNotGivenUp /\ ExpiredIsSettled
  BY DEF EntriesSane, OwedIsNotGivenUp, ExpiredIsSettled
<1>4. AckedIsStored /\ SucceededWasInvoked /\ ThresholdIsReported
  BY DEF AckedIsStored, SucceededWasInvoked, Invoked, ThresholdIsReported
<1> QED BY <1>1, <1>2, <1>3, <1>4 DEF IInv

-----------------------------------------------------------------------------
(* The handler.                                                            *)

(* The parts of the invariant that are about rows and executions.          *)
RowsInv == /\ RowsSane /\ QueuesSane /\ ExecutionsSane /\ OwedIsNotGivenUp
           /\ SucceededWasInvoked /\ ThresholdIsReported /\ ExpiredIsSettled

LEMMA RowsUntouched ==
    ASSUME RowsInv, UNCHANGED <<rowVars, memVars, histVars>>
    PROVE  RowsInv'
  BY DEF RowsInv, RowsSane, QueuesSane, ExecutionsSane, ExecutionSane, OwedIsNotGivenUp, SucceededWasInvoked,
         ThresholdIsReported, ExpiredIsSettled, Settled, Invoked, Owed, rowVars, memVars, histVars

LEMMA ClientSteps ==
    ASSUME IInv, NEW n \in Nodes,
           Start(n) \/ Delivery(n) \/ IdThrows(n) \/ Reject(n) \/ Commit(n) \/ CommitFails(n)
    PROVE  IInv'
<1> USE DEF IInv, rowVars, memVars, histVars, faultVars, Finish
<1>1. RowsInv'
  <2>1. UNCHANGED <<rowVars, memVars, histVars>>
    BY DEF Start, Delivery, Deliver, IdThrows, Reject, Commit, CommitFails
  <2> QED BY <2>1, RowsUntouched DEF RowsInv
<1>2. CASE Start(n)
  BY <1>1, <1>2 DEF Start, TypeOK, HandlersSane, EntriesSane, AckedIsStored, RowsInv
<1>3. CASE Delivery(n)
  <2>1. PICK m \in Messages : Deliver(n, m)
    BY <1>3 DEF Delivery
  <2>2. TypeOK' /\ HandlersSane' /\ EntriesSane' /\ AckedIsStored'
    BY <2>1, NodeAssumption DEF Deliver, TypeOK, HandlersSane, EntriesSane, AckedIsStored
  <2> QED BY <1>1, <2>2 DEF RowsInv
<1>4. CASE IdThrows(n)
  <2>1. TypeOK' /\ HandlersSane' /\ EntriesSane' /\ AckedIsStored'
    BY <1>4, BoundAssumption DEF IdThrows, TypeOK, HandlersSane, EntriesSane, AckedIsStored
  <2> QED BY <1>1, <2>1 DEF RowsInv
<1>5. CASE Reject(n)
  <2>1. TypeOK' /\ HandlersSane' /\ EntriesSane' /\ AckedIsStored'
    BY <1>5, BoundAssumption DEF Reject, TypeOK, HandlersSane, EntriesSane, AckedIsStored
  <2> QED BY <1>1, <2>1 DEF RowsInv
<1>6. CASE Commit(n)
  <2>1. TypeOK' /\ HandlersSane' /\ EntriesSane' /\ AckedIsStored'
    BY <1>6 DEF Commit, TypeOK, HandlersSane, EntriesSane, AckedIsStored
  <2> QED BY <1>1, <2>1 DEF RowsInv
<1>7. CASE CommitFails(n)
  <2>1. /\ handler[n] = "commit" /\ broker' = [broker EXCEPT ![handled[n]] = "queued"]
        /\ brokerFaults < MaxBrokerFaults /\ brokerFaults' = brokerFaults + 1
        /\ Finish(n) \/ (handler' = [handler EXCEPT ![n] = "enqueue"] /\ UNCHANGED <<handled, handledRow>>)
        /\ UNCHANGED <<entries, rowVars, memVars, histVars, failures, dbFaults, crashes>>
    BY <1>7 DEF CommitFails
  <2>2. brokerFaults' \in 0 .. MaxBrokerFaults
    BY <2>1, BoundAssumption DEF TypeOK
  <2>3. TypeOK' /\ HandlersSane' /\ EntriesSane' /\ AckedIsStored'
    <3>1. CASE Finish(n)
      BY <2>1, <2>2, <3>1 DEF TypeOK, HandlersSane, EntriesSane, AckedIsStored
    <3>2. CASE handler' = [handler EXCEPT ![n] = "enqueue"] /\ UNCHANGED <<handled, handledRow>>
      BY <2>1, <2>2, <3>2 DEF TypeOK, HandlersSane, EntriesSane, AckedIsStored
    <3> QED BY <2>1, <3>1, <3>2
  <2> QED BY <1>1, <2>3 DEF RowsInv
<1> QED BY <1>2, <1>3, <1>4, <1>5, <1>6, <1>7

LEMMA ArriveStep ==
    ASSUME IInv, NEW m \in Messages, Arrive(m)
    PROVE  IInv'
<1> USE DEF IInv, rowVars, memVars, histVars, faultVars
<1>1. RowsInv'
  BY RowsUntouched DEF RowsInv, Arrive
<1>2. TypeOK' /\ HandlersSane' /\ EntriesSane' /\ AckedIsStored'
  BY DEF Arrive, TypeOK, HandlersSane, EntriesSane, AckedIsStored
<1> QED BY <1>1, <1>2 DEF RowsInv

LEMMA StoreStep ==
    ASSUME IInv, NEW n \in Nodes, StoreMessage(n)
    PROVE  IInv'
<1> USE DEF IInv, rowVars, memVars, histVars, faultVars
<1> DEFINE m == handled[n]
<1>1. PICK r \in Rows : /\ msgOf[r] = NoMessage
                        /\ msgOf' = [msgOf EXCEPT ![r] = m]
                        /\ status' = [status EXCEPT ![r] = "Scheduled"]
                        /\ handledRow' = [handledRow EXCEPT ![n] = r]
  BY DEF StoreMessage
<1>2. /\ handler[n] = "store" /\ handler' = [handler EXCEPT ![n] = "commit"]
      /\ UNCHANGED <<broker, entries, handled, retries, expiry, old, memVars, histVars, faultVars>>
  BY DEF StoreMessage
<1>3. m \in Messages /\ m # NoMessage /\ status[r] = "Absent"
  BY <1>1, <1>2, MessageAssumption DEF HandlersSane, RowsSane
<1>4. /\ retries[r] = 0 /\ expiry[r] = "null" /\ ~Invoked(r)
      /\ r \notin answered /\ r \notin reported
  BY <1>3 DEF RowsSane
<1>5. \A k \in Rows : k # r => msgOf'[k] = msgOf[k] /\ status'[k] = status[k]
  BY <1>1 DEF TypeOK
<1>6. msgOf'[r] = m /\ status'[r] = "Scheduled"
  BY <1>1 DEF TypeOK
<1>7. TypeOK'
  BY <1>1, <1>2, <1>3 DEF TypeOK
<1>8. HandlersSane'
  <2> SUFFICES ASSUME NEW k \in Nodes
               PROVE  /\ handler'[k] # "idle" => handled'[k] \in Messages
                      /\ handler'[k] \in {"commit", "enqueue"} =>
                             handledRow'[k] \in Rows /\ msgOf'[handledRow'[k]] = handled'[k]
    BY DEF HandlersSane
  <2>1. CASE k = n
    BY <1>1, <1>2, <1>3, <1>6, <2>1 DEF TypeOK
  <2>2. CASE k # n
    <3>1. handler'[k] = handler[k] /\ handled'[k] = handled[k] /\ handledRow'[k] = handledRow[k]
      BY <1>1, <1>2, <2>2 DEF TypeOK
    <3>2. CASE handler[k] \in {"commit", "enqueue"}
      <4>1. handledRow[k] \in Rows /\ msgOf[handledRow[k]] = handled[k] /\ handled[k] \in Messages
        BY <3>2 DEF HandlersSane
      <4>2. handledRow[k] # r
        BY <1>1, <4>1, MessageAssumption
      <4> QED BY <3>1, <4>1, <4>2, <1>5
    <3>3. CASE handler[k] \notin {"commit", "enqueue"}
      BY <3>1, <3>3 DEF HandlersSane
    <3> QED BY <3>2, <3>3
  <2> QED BY <2>1, <2>2
<1>9. RowsSane'
  BY <1>2, <1>3, <1>5, <1>6, MessageAssumption DEF RowsSane, Invoked
<1>10. QueuesSane'
  BY <1>1, <1>2, <1>3, <1>5, <1>6 DEF QueuesSane, TypeOK
<1>11. \A x \in running : x.row \in Rows /\ x.row # r
  BY <1>3 DEF ExecutionsSane, ExecutionSane, TypeOK
<1>12. ExecutionsSane'
  BY <1>2, <1>5, <1>11 DEF ExecutionsSane, ExecutionSane, Invoked, Owed
<1>13. EntriesSane'
  BY <1>2 DEF EntriesSane, TypeOK
<1>14. OwedIsNotGivenUp'
  BY <1>2, <1>4, <1>5, <1>11, RetryAssumption DEF OwedIsNotGivenUp, Owed
<1>15. AckedIsStored'
  BY <1>1, <1>2, <1>5, <1>6, MessageAssumption DEF AckedIsStored
<1>16. SucceededWasInvoked' /\ ThresholdIsReported'
  BY <1>2, <1>4, <1>5, <1>6 DEF SucceededWasInvoked, Invoked, ThresholdIsReported
<1>17. ExpiredIsSettled'
  BY <1>2, <1>4, <1>5, <1>6 DEF ExpiredIsSettled, Settled, Invoked, Owed
<1> QED BY <1>7, <1>8, <1>9, <1>10, <1>12, <1>13, <1>14, <1>15, <1>16, <1>17

LEMMA EnqueueStep ==
    ASSUME IInv, NEW n \in Nodes, EnqueueToExecute(n)
    PROVE  IInv'
<1> USE DEF IInv, rowVars, memVars, histVars, faultVars, Finish
<1>1. /\ handler[n] = "enqueue"
      /\ queue' = [queue EXCEPT ![n] = Append(@, handledRow[n])]
      /\ Finish(n)
      /\ UNCHANGED <<broker, entries, rowVars, batch, running, histVars, faultVars>>
  BY DEF EnqueueToExecute
<1>2. handledRow[n] \in Rows /\ msgOf[handledRow[n]] \in Messages
  BY <1>1 DEF HandlersSane
<1>3. status[handledRow[n]] # "Absent"
  BY <1>2, MessageAssumption DEF RowsSane
<1>4. TypeOK'
  BY <1>1, <1>2 DEF TypeOK
<1>5. HandlersSane'
  BY <1>1 DEF HandlersSane, TypeOK
<1>6. QueuesSane'
  BY <1>1, <1>2, <1>3 DEF QueuesSane, TypeOK
<1>7. EntriesSane'
  BY <1>1 DEF EntriesSane, TypeOK
<1>8. RowsSane' /\ ExecutionsSane' /\ OwedIsNotGivenUp' /\ AckedIsStored'
  BY <1>1 DEF RowsSane, ExecutionsSane, ExecutionSane, Invoked, OwedIsNotGivenUp, AckedIsStored, Owed
<1>9. SucceededWasInvoked' /\ ThresholdIsReported' /\ ExpiredIsSettled'
  BY <1>1 DEF SucceededWasInvoked, ThresholdIsReported, ExpiredIsSettled, Settled, Invoked, Owed
<1> QED BY <1>4, <1>5, <1>6, <1>7, <1>8, <1>9

-----------------------------------------------------------------------------
(* Time and the collector.                                                 *)
LEMMA RowSteps ==
    ASSUME IInv, NEW r \in Rows, Age(r) \/ Expire(r) \/ Collect(r)
    PROVE  IInv'
<1> USE DEF IInv, clientVars, memVars, histVars, faultVars
<1>1. HandlersSane' /\ EntriesSane' /\ AckedIsStored' /\ OwedIsNotGivenUp' /\ ThresholdIsReported'
  BY DEF Age, Expire, Collect, HandlersSane, EntriesSane, AckedIsStored, OwedIsNotGivenUp,
         ThresholdIsReported, Owed
<1>2. CASE Age(r)
  BY <1>1, <1>2 DEF Age, TypeOK, RowsSane, QueuesSane, ExecutionsSane, ExecutionSane, SucceededWasInvoked,
              ExpiredIsSettled, Settled, Invoked, Owed
<1>3. CASE Expire(r)
  <2>1. TypeOK' /\ RowsSane' /\ QueuesSane' /\ ExecutionsSane' /\ SucceededWasInvoked'
    BY <1>3
    DEF Expire, TypeOK, RowsSane, QueuesSane, ExecutionsSane, ExecutionSane, SucceededWasInvoked, Invoked, Owed
  <2>2. ASSUME RetriesInTime, StartsFirst, Owed(r) PROVE Settled(r)
    <3>1. ~Unsettled(r) /\ status[r] # "Absent" /\ status[r] # "Deleted"
      BY <1>3, <2>2 DEF Expire, RowsSane
    <3>2. CASE status[r] = "Succeeded"
      BY <3>2 DEF SucceededWasInvoked, Settled
    <3>3. CASE status[r] # "Succeeded"
      <4>1. ~(retries[r] < FailedRetryCount)
        BY <3>1, <3>3 DEF Unsettled, TypeOK
      <4>2. retries[r] <= FailedRetryCount /\ retries[r] \in 0 .. FailedRetryCount + 1
        BY <2>2 DEF OwedIsNotGivenUp, TypeOK
      <4>3. retries[r] = FailedRetryCount
        BY <4>1, <4>2, RetryAssumption
      <4> QED BY <4>3 DEF ThresholdIsReported, Settled
    <3> QED BY <3>2, <3>3
  <2>3. ExpiredIsSettled'
    BY <1>3, <2>2 DEF Expire, TypeOK, ExpiredIsSettled, Settled, Invoked, Owed
  <2> QED BY <1>1, <2>1, <2>3
<1>4. CASE Collect(r)
  <2>1. TypeOK' /\ QueuesSane' /\ ExecutionsSane' /\ SucceededWasInvoked'
    BY <1>4 DEF Collect, TypeOK, QueuesSane, ExecutionsSane, ExecutionSane, SucceededWasInvoked, Invoked, Owed
  <2>2. RowsSane' /\ ExpiredIsSettled'
    BY <1>4 DEF Collect, TypeOK, RowsSane, ExpiredIsSettled, Settled, Invoked, Owed
  <2> QED BY <1>1, <2>1, <2>2
<1> QED BY <1>2, <1>3, <1>4

-----------------------------------------------------------------------------
(* Where executions come from.                                             *)

(* The parts of the invariant that no such step touches.                   *)
LEMMA TableUntouched ==
    ASSUME IInv, UNCHANGED <<clientVars, rowVars, histVars>>
    PROVE  HandlersSane' /\ RowsSane' /\ AckedIsStored' /\ SucceededWasInvoked'
           /\ ThresholdIsReported' /\ ExpiredIsSettled'
  BY DEF IInv, clientVars, rowVars, histVars, HandlersSane, RowsSane, AckedIsStored,
         SucceededWasInvoked, ThresholdIsReported, ExpiredIsSettled, Settled, Invoked, Owed

LEMMA ExecutionFields ==
    ASSUME NEW n \in Nodes, NEW by \in Executors, NEW r \in Rows,
           NEW count \in 0 .. FailedRetryCount + 1
    PROVE  LET y == Execution(n, by, [row |-> r, retries |-> count]) IN
           /\ y \in AllExecutions
           /\ y.node = n /\ y.row = r /\ y.retries = count /\ y.at = "invoke"
  BY DEF Execution, AllExecutions, Steps

(* An execution is added that has not failed too often.                    *)
LEMMA Started ==
    ASSUME IInv, NEW y \in AllExecutions, running' = running \union {y},
           y.at = "invoke", y.retries < FailedRetryCount, status[y.row] # "Absent",
           StartsFirst => y.node \in entries,
           UNCHANGED <<clientVars, rowVars, histVars>>
    PROVE  /\ running' \subseteq AllExecutions
           /\ ExecutionsSane' /\ OwedIsNotGivenUp'
           /\ StartsFirst => \A x \in running' : x.node \in entries'
<1> USE DEF IInv, clientVars, rowVars, histVars
<1>1. running' \subseteq AllExecutions
  BY DEF TypeOK, AllExecutions, Steps
<1>2. ExecutionsSane'
  BY DEF ExecutionsSane, ExecutionSane, Invoked, Owed
<1>3. y.retries <= FailedRetryCount
  BY RetryAssumption DEF AllExecutions
<1>4. OwedIsNotGivenUp'
  BY <1>3 DEF OwedIsNotGivenUp, Owed
<1> QED BY <1>1, <1>2, <1>4 DEF EntriesSane

LEMMA TakeStep ==
    ASSUME IInv, NEW n \in Nodes, Take(n)
    PROVE  IInv'
<1> USE DEF IInv
<1> DEFINE r == Head(queue[n])
           y == Execution(n, "processing", [row |-> r, retries |-> 0])
<1>1. /\ queue[n] # <<>> /\ queue[n] \in Seq(Rows)
      /\ running' = running \union {y}
      /\ queue' = [queue EXCEPT ![n] = Tail(@)]
      /\ UNCHANGED <<clientVars, rowVars, batch, histVars, faultVars>>
  BY DEF Take, TypeOK
<1>2. /\ r \in Rows /\ status[r] # "Absent"
      /\ Tail(queue[n]) \in Seq(Rows)
      /\ \A i \in DOMAIN Tail(queue[n]) :
             i + 1 \in DOMAIN queue[n] /\ Tail(queue[n])[i] = queue[n][i + 1]
  <2>1. 1 \in DOMAIN queue[n] /\ r = queue[n][1]
    BY <1>1
  <2> QED BY <1>1, <2>1 DEF QueuesSane
<1>3. 0 \in 0 .. FailedRetryCount + 1 /\ 0 < FailedRetryCount
  BY RetryAssumption
<1>4. /\ y \in AllExecutions
      /\ y.node = n /\ y.row = r /\ y.retries = 0 /\ y.at = "invoke"
  BY <1>2, <1>3, ExecutionFields DEF Executors
<1>5. StartsFirst => n \in entries
  BY <1>1 DEF EntriesSane
<1> HIDE DEF y
<1>6. /\ running' \subseteq AllExecutions
      /\ ExecutionsSane' /\ OwedIsNotGivenUp'
      /\ StartsFirst => \A x \in running' : x.node \in entries'
  BY <1>1, <1>2, <1>3, <1>4, <1>5, Started
<1>7. TypeOK'
  BY <1>1, <1>2, <1>6 DEF TypeOK, AllExecutions, Steps, clientVars, rowVars, histVars, faultVars
<1>8. QueuesSane'
  BY <1>1, <1>2 DEF QueuesSane, TypeOK, rowVars
<1>9. EntriesSane'
  BY <1>1, <1>5, <1>6 DEF EntriesSane, TypeOK, clientVars
<1> QED BY <1>1, <1>6, <1>7, <1>8, <1>9, TableUntouched

LEMMA ScanStep ==
    ASSUME IInv, NEW n \in Nodes, Scan(n)
    PROVE  IInv'
<1> USE DEF IInv
<1> DEFINE read == {[row |-> r, retries |-> retries[r]] : r \in {k \in Rows : NeedRetry(k)}}
<1>1. /\ batch' = [batch EXCEPT ![n] = read]
      /\ StartsFirst => n \in entries
      /\ UNCHANGED <<clientVars, rowVars, queue, running, histVars, faultVars>>
  BY DEF Scan
<1>2. \A c \in read : c \in Copies /\ status[c.row] # "Absent"
  BY RetryAssumption DEF TypeOK, Copies, NeedRetry, Unsettled
<1>3. TypeOK'
  BY <1>1, <1>2 DEF TypeOK, clientVars, rowVars, histVars, faultVars
<1>4. QueuesSane'
  BY <1>1, <1>2 DEF QueuesSane, TypeOK, rowVars
<1>5. EntriesSane'
  BY <1>1 DEF EntriesSane, TypeOK, clientVars
<1>6. ExecutionsSane' /\ OwedIsNotGivenUp'
  BY <1>1 DEF ExecutionsSane, ExecutionSane, Invoked, OwedIsNotGivenUp, Owed, rowVars, histVars
<1> QED BY <1>1, <1>3, <1>4, <1>5, <1>6, TableUntouched

LEMMA PickStep ==
    ASSUME IInv, NEW n \in Nodes, PickFromBatch(n)
    PROVE  IInv'
<1> USE DEF IInv
<1>1. PICK c \in batch[n] : /\ running' = running \union {Execution(n, "needRetry", c)}
                            /\ batch' = [batch EXCEPT ![n] = @ \ {c}]
  BY DEF PickFromBatch
<1>2. UNCHANGED <<clientVars, rowVars, queue, histVars, faultVars>>
  BY DEF PickFromBatch
<1>3. c \in Copies /\ status[c.row] # "Absent" /\ (StartsFirst => n \in entries)
  BY <1>1 DEF TypeOK, QueuesSane, EntriesSane
<1>4. c.row \in Rows /\ c.retries \in 0 .. FailedRetryCount + 1 /\ c.retries < FailedRetryCount
  BY <1>3, RetryAssumption DEF Copies
<1> DEFINE y == Execution(n, "needRetry", c)
<1>5. /\ y \in AllExecutions
      /\ y.node = n /\ y.row = c.row /\ y.retries = c.retries /\ y.at = "invoke"
  BY <1>4 DEF Execution, AllExecutions, Steps, Executors
<1> HIDE DEF y
<1>6. /\ running' \subseteq AllExecutions
      /\ ExecutionsSane' /\ OwedIsNotGivenUp'
      /\ StartsFirst => \A x \in running' : x.node \in entries'
  BY <1>1, <1>2, <1>3, <1>4, <1>5, Started DEF y
<1>7. TypeOK'
  BY <1>1, <1>2, <1>6 DEF TypeOK, AllExecutions, Steps, clientVars, rowVars, histVars, faultVars
<1>8. QueuesSane'
  BY <1>1, <1>2 DEF QueuesSane, TypeOK, rowVars
<1>9. EntriesSane'
  BY <1>1, <1>2, <1>3, <1>6 DEF EntriesSane, TypeOK, clientVars
<1> QED BY <1>2, <1>6, <1>7, <1>8, <1>9, TableUntouched

LEMMA CrashStep ==
    ASSUME IInv, NEW n \in Nodes, Crash(n)
    PROVE  IInv'
<1> USE DEF IInv, Crash, rowVars, histVars, Finish
<1>1. TypeOK'
  BY BoundAssumption DEF TypeOK
<1>2. HandlersSane' /\ AckedIsStored'
  BY NodeAssumption DEF TypeOK, HandlersSane, AckedIsStored
<1>3. RowsSane' /\ SucceededWasInvoked' /\ ThresholdIsReported' /\ ExpiredIsSettled'
  BY DEF RowsSane, SucceededWasInvoked, ThresholdIsReported, ExpiredIsSettled, Settled, Invoked, Owed
<1>4. QueuesSane'
  BY DEF TypeOK, QueuesSane
<1>5. ExecutionsSane' /\ OwedIsNotGivenUp'
  BY DEF ExecutionsSane, ExecutionSane, Invoked, OwedIsNotGivenUp, Owed
<1>6. EntriesSane'
  BY DEF TypeOK, EntriesSane
<1> QED BY <1>1, <1>2, <1>3, <1>4, <1>5, <1>6

-----------------------------------------------------------------------------
(* The executor.                                                           *)
LEMMA RunningTyped ==
    ASSUME IInv, NEW x \in running
    PROVE  /\ x \in AllExecutions
           /\ x.node \in Nodes /\ x.by \in Executors /\ x.row \in Rows
           /\ x.retries \in 0 .. FailedRetryCount + 1 /\ x.at \in Steps
  BY DEF IInv, TypeOK, AllExecutions, Steps

(* What happened to row r may grow, the other rows are left alone.         *)
HistoryGrows(r) ==
    /\ consumed' \in [Rows -> 0 .. 2] /\ swallowed' \subseteq Rows
    /\ answered' \subseteq Rows /\ reported' \subseteq Rows
    /\ \A k \in Rows : k # r => /\ consumed'[k] = consumed[k]
                                /\ k \in swallowed' <=> k \in swallowed
                                /\ k \in answered' <=> k \in answered
                                /\ k \in reported' <=> k \in reported
    /\ consumed[r] > 0 => consumed'[r] > 0
    /\ r \in swallowed => r \in swallowed'
    /\ r \in answered => r \in answered'
    /\ r \in reported => r \in reported'

FaultsOK ==
    /\ failures \in 0 .. MaxFailures
    /\ dbFaults \in 0 .. MaxDbFaults
    /\ brokerFaults \in 0 .. MaxBrokerFaults
    /\ crashes \in 0 .. MaxCrashes

(* An execution of row r goes on as y.                                     *)
LEMMA GoesOn ==
    ASSUME IInv, NEW x \in running, NEW y \in AllExecutions,
           y.node = x.node, y.row = x.row, Becomes(x, y),
           UNCHANGED <<clientVars, rowVars, queue, batch>>,
           HistoryGrows(x.row), FaultsOK', ExecutionSane(y)',
           StartsFirst /\ Owed(x.row) => y.retries <= FailedRetryCount
    PROVE  IInv'
<1> DEFINE r == x.row
<1>1. r \in Rows /\ status[r] # "Absent" /\ x.node \in Nodes
  BY RunningTyped DEF IInv, ExecutionsSane, ExecutionSane
<1>2. running' = (running \ {x}) \union {y} /\ UNCHANGED <<clientVars, rowVars, queue, batch>>
  BY DEF Becomes
<1>3. running' \subseteq AllExecutions
  BY <1>2, RunningTyped
<1>4. TypeOK'
  BY <1>2, <1>3, SMTT(30) DEF IInv, TypeOK, AllExecutions, Steps, HistoryGrows, FaultsOK, clientVars, rowVars
<1>5. HandlersSane' /\ QueuesSane' /\ AckedIsStored'
  BY <1>2 DEF IInv, HandlersSane, QueuesSane, AckedIsStored, clientVars, rowVars
<1>6. RowsSane' /\ SucceededWasInvoked' /\ ThresholdIsReported'
  BY <1>1, <1>2 DEF IInv, RowsSane, SucceededWasInvoked, Invoked, ThresholdIsReported, HistoryGrows, rowVars
<1>7. ExpiredIsSettled'
  BY <1>1, <1>2 DEF IInv, ExpiredIsSettled, Settled, Invoked, Owed, HistoryGrows, rowVars
<1>8. EntriesSane'
  BY <1>2 DEF IInv, EntriesSane, clientVars
<1>9. OwedIsNotGivenUp'
  BY <1>2 DEF IInv, OwedIsNotGivenUp, Owed, rowVars
<1>10. ExecutionsSane'
  <2> SUFFICES ASSUME NEW z \in running' PROVE ExecutionSane(z)'
    BY DEF ExecutionsSane
  <2>1. CASE z = y
    BY <2>1
  <2>2. CASE z # y
    <3>1. z \in running /\ z.row \in Rows /\ ExecutionSane(z)
      BY <1>2, <2>2, RunningTyped DEF IInv, ExecutionsSane
    <3>2. /\ Invoked(z.row) => Invoked(z.row)'
          /\ z.row \in answered => z.row \in answered'
          /\ z.row \in reported => z.row \in reported'
      BY <3>1 DEF HistoryGrows, Invoked
    <3> QED BY <1>2, <3>1, <3>2 DEF ExecutionSane, Owed, rowVars
  <2> QED BY <2>1, <2>2
<1> QED BY <1>4, <1>5, <1>6, <1>7, <1>8, <1>9, <1>10 DEF IInv

LEMMA HistoryStays ==
    ASSUME IInv, NEW r \in Rows, UNCHANGED histVars
    PROVE  HistoryGrows(r)
  BY DEF IInv, TypeOK, HistoryGrows, histVars

LEMMA FaultsStay ==
    ASSUME IInv, UNCHANGED faultVars
    PROVE  FaultsOK'
  BY DEF IInv, TypeOK, FaultsOK, faultVars

(* A failure is counted, and reported when it is the last.                 *)
LEMMA FailStep ==
    ASSUME IInv, NEW x \in running, x.at # "setFailed", Fail(x), FaultsOK',
           UNCHANGED <<clientVars, rowVars, queue, batch, consumed, swallowed, answered>>
    PROVE  IInv'
<1> DEFINE count == x.retries + 1
           y == [x EXCEPT !.retries = count, !.at = "setFailed"]
<1>1. x.row \in Rows /\ x.retries \in 0 .. FailedRetryCount + 1 /\ x.retries < FailedRetryCount
      /\ status[x.row] # "Absent"
  BY RunningTyped DEF IInv, ExecutionsSane, ExecutionSane
<1>2. count \in 0 .. FailedRetryCount + 1 /\ count <= FailedRetryCount
  BY <1>1, RetryAssumption
<1>3. "setFailed" \in Steps
  BY DEF Steps
<1>4. /\ y \in AllExecutions
      /\ y.node = x.node /\ y.row = x.row /\ y.retries = count /\ y.at = "setFailed"
  <2>1. x \in AllExecutions
    BY RunningTyped
  <2> QED BY <1>2, <1>3, <2>1 DEF AllExecutions
<1>5. Becomes(x, y)
  BY DEF Fail
<1>6. reported' = IF count >= RetryCount /\ count = FailedRetryCount
                  THEN reported \union {x.row} ELSE reported
  BY DEF Fail
<1>7. HistoryGrows(x.row)
  BY <1>1, <1>6 DEF IInv, TypeOK, HistoryGrows
<1>8. count = FailedRetryCount => x.row \in reported'
  BY <1>2, <1>6, RetryCountBound, RetryAssumption
<1> HIDE DEF y
<1>9. ExecutionSane(y)'
  BY <1>1, <1>4, <1>8 DEF ExecutionSane, Invoked, rowVars
<1> HIDE DEF count
<1> QED BY <1>2, <1>4, <1>5, <1>7, <1>9, GoesOn

(* An execution writes its copy over the row, and ends or goes round again. *)
LEMMA WriteStep ==
    ASSUME IInv, NEW x \in running, NEW state \in {"Succeeded", "Failed"},
           Write(x, state), running' \subseteq AllExecutions,
           \A z \in running' : \/ z \in running
                               \/ /\ z.node = x.node /\ z.row = x.row /\ z.at = "invoke"
                                  /\ z.retries = x.retries /\ z.retries < FailedRetryCount,
           state = "Succeeded" => x.at = "setSucceeded",
           state = "Failed" => x.at = "setFailed",
           UNCHANGED <<clientVars, msgOf, old, queue, batch, histVars, faultVars>>
    PROVE  IInv'
<1> DEFINE r == x.row
<1>1. /\ r \in Rows /\ x.retries \in 0 .. FailedRetryCount + 1 /\ x.node \in Nodes
      /\ ExecutionSane(x)
  BY RunningTyped DEF IInv, ExecutionsSane
<1>2. \A k \in Rows : k # r => /\ status'[k] = status[k] /\ retries'[k] = retries[k]
                               /\ expiry'[k] = expiry[k]
  BY DEF Write, IInv, TypeOK
<1>3. \/ /\ status[r] = "Deleted" /\ status'[r] = status[r] /\ retries'[r] = retries[r]
         /\ expiry'[r] = expiry[r]
      \/ /\ status[r] # "Deleted" /\ status'[r] = state /\ retries'[r] = x.retries
         /\ expiry'[r] = "future"
  BY <1>1 DEF Write, IInv, TypeOK
<1>4. /\ status' \in [Rows -> {"Absent", "Scheduled", "Failed", "Succeeded", "Deleted"}]
      /\ retries' \in [Rows -> 0 .. FailedRetryCount + 1]
      /\ expiry' \in [Rows -> {"null", "future", "past"}]
  <2>1. CASE status[r] = "Deleted"
    BY <2>1 DEF Write, IInv, TypeOK
  <2>2. CASE status[r] # "Deleted"
    <3>1. /\ status' = [status EXCEPT ![r] = state]
          /\ retries' = [retries EXCEPT ![r] = x.retries]
          /\ expiry' = [expiry EXCEPT ![r] = "future"]
      BY <2>2 DEF Write
    <3> QED BY <1>1, <3>1 DEF IInv, TypeOK
  <2> QED BY <2>1, <2>2
<1>5. TypeOK'
  BY <1>4 DEF IInv, TypeOK, AllExecutions, Steps, clientVars, histVars, faultVars
<1>6. \A k \in Rows : status'[k] = "Absent" <=> status[k] = "Absent"
  BY <1>1, <1>2, <1>3 DEF ExecutionSane
<1>7. HandlersSane' /\ AckedIsStored'
  BY DEF IInv, HandlersSane, AckedIsStored, clientVars
<1>8. RowsSane'
  BY <1>1, <1>2, <1>6 DEF IInv, RowsSane, ExecutionSane, Invoked, histVars
<1>9. QueuesSane'
  BY <1>6 DEF IInv, QueuesSane, TypeOK, Copies
<1>10. EntriesSane'
  BY DEF IInv, EntriesSane, clientVars
<1>11. ExecutionsSane'
  <2> SUFFICES ASSUME NEW z \in running' PROVE ExecutionSane(z)'
    BY DEF ExecutionsSane
  <2>1. CASE z \in running
    <3>1. z.row \in Rows /\ ExecutionSane(z)
      BY <2>1, RunningTyped DEF IInv, ExecutionsSane
    <3> QED BY <1>6, <3>1 DEF ExecutionSane, Invoked, Owed, histVars
  <2>2. CASE z \notin running
    <3>1. z.row = r /\ z.at = "invoke" /\ z.retries < FailedRetryCount
      BY <2>2
    <3> QED BY <1>1, <1>6, <3>1 DEF ExecutionSane
  <2> QED BY <2>1, <2>2
<1>12. OwedIsNotGivenUp'
  BY <1>1, <1>2, <1>3, RetryAssumption DEF IInv, OwedIsNotGivenUp, Owed
<1>13. SucceededWasInvoked'
  BY <1>1, <1>2, <1>3 DEF IInv, SucceededWasInvoked, ExecutionSane, Invoked, histVars
<1>14. ThresholdIsReported'
  <2>1. x.retries = FailedRetryCount => r \in reported
    BY <1>1, RetryAssumption DEF ExecutionSane
  <2> QED BY <1>2, <1>3, <2>1 DEF IInv, ThresholdIsReported, histVars
<1>15. ExpiredIsSettled'
  BY <1>2, <1>3 DEF IInv, ExpiredIsSettled, Settled, Invoked, Owed, histVars
<1> QED BY <1>5, <1>7, <1>8, <1>9, <1>10, <1>11, <1>12, <1>13, <1>14, <1>15 DEF IInv

LEMMA WriteSteps ==
    ASSUME IInv, NEW x \in running, SetSuccessfulState(x) \/ SetFailedState(x)
    PROVE  IInv'
<1>1. CASE SetSuccessfulState(x)
  <2>1. /\ x.at = "setSucceeded" /\ Write(x, "Succeeded") /\ running' = running \ {x}
        /\ UNCHANGED <<clientVars, msgOf, old, queue, batch, histVars, faultVars>>
    BY <1>1 DEF SetSuccessfulState
  <2>2. running' \subseteq AllExecutions
    BY <2>1, RunningTyped
  <2> QED BY <2>1, <2>2, WriteStep
<1>2. CASE SetFailedState(x)
  <2> DEFINE y == [x EXCEPT !.at = "invoke"]
  <2>1. /\ x.at = "setFailed" /\ Write(x, "Failed")
        /\ UNCHANGED <<clientVars, msgOf, old, queue, batch, histVars, faultVars>>
        /\ x.retries < RetryCount => running' = (running \ {x}) \union {y}
        /\ ~(x.retries < RetryCount) => running' = running \ {x}
    BY <1>2 DEF SetFailedState, Becomes
  <2>2. /\ y \in AllExecutions /\ y.node = x.node /\ y.row = x.row /\ y.at = "invoke"
        /\ y.retries = x.retries
    BY RunningTyped DEF AllExecutions, Steps
  <2>3. x.retries < RetryCount => x.retries < FailedRetryCount
    BY RunningTyped, RetryCountBound, RetryAssumption
  <2> HIDE DEF y
  <2>4. running' \subseteq AllExecutions
    BY <2>1, <2>2, RunningTyped
  <2>5. \A z \in running' : \/ z \in running
                            \/ /\ z.node = x.node /\ z.row = x.row /\ z.at = "invoke"
                               /\ z.retries = x.retries /\ z.retries < FailedRetryCount
    BY <2>1, <2>2, <2>3
  <2> QED BY <2>1, <2>4, <2>5, WriteStep
<1> QED BY <1>1, <1>2

(* The invoker came back.                                                  *)
LEMMA GoOnStep ==
    ASSUME IInv, NEW x \in running, x.at = "invoke", Found(x), GoOn(x),
           UNCHANGED <<clientVars, rowVars, queue, batch, answered, reported>>,
           HistoryGrows(x.row), Invoked(x.row)', FaultsOK'
    PROVE  IInv'
<1> DEFINE step == IF msgOf[x.row] \in Answered THEN "callback" ELSE "setSucceeded"
           next == [x EXCEPT !.at = step]
<1>1. x.row \in Rows /\ ExecutionSane(x) /\ x.retries \in 0 .. FailedRetryCount + 1
  BY RunningTyped DEF IInv, ExecutionsSane
<1>2. step \in Steps
  BY DEF Steps
<1>3. PICK y \in AllExecutions : /\ y.node = x.node /\ y.row = x.row
                                 /\ y.retries = x.retries /\ y.at = step
                                 /\ Becomes(x, y)
  <2>1. /\ next \in AllExecutions /\ next.node = x.node /\ next.row = x.row
        /\ next.retries = x.retries /\ next.at = step
    BY <1>2, RunningTyped DEF AllExecutions
  <2> QED BY <2>1 DEF GoOn
<1>4. x.retries < FailedRetryCount /\ y.retries <= FailedRetryCount
  BY <1>1, <1>3, RetryAssumption DEF ExecutionSane
<1>5. Owed(x.row)
  BY DEF Found, Owed
<1>6. ExecutionSane(y)'
  <2>1. y.at # "setFailed" /\ (y.at = "setSucceeded" => msgOf[x.row] \notin Answered)
    BY <1>3
  <2>2. Invoked(y.row)'
    BY <1>3
  <2> QED BY <1>1, <1>3, <1>4, <1>5, <2>1, <2>2 DEF ExecutionSane, Owed, rowVars
<1> QED BY <1>3, <1>4, <1>6, GoesOn

LEMMA ExecutionSteps ==
    ASSUME IInv, NEW x \in running, ExecuteAsync(x)
    PROVE  IInv'
<1>0. /\ x.row \in Rows /\ x.retries \in 0 .. FailedRetryCount + 1
      /\ ExecutionSane(x)
  BY RunningTyped DEF IInv, ExecutionsSane
<1>1. CASE SubscriberNotFound(x)
  <2> DEFINE y == [x EXCEPT !.retries = FailedRetryCount + 1, !.at = "setFailed"]
  <2>1. x.at = "invoke" /\ ~Found(x) /\ Becomes(x, y)
        /\ UNCHANGED <<clientVars, rowVars, queue, batch, histVars, faultVars>>
    BY <1>1 DEF SubscriberNotFound
  <2>2. x \in AllExecutions /\ FailedRetryCount + 1 \in 0 .. FailedRetryCount + 1
        /\ FailedRetryCount + 1 # FailedRetryCount
    BY RunningTyped, RetryAssumption
  <2>3. /\ y \in AllExecutions /\ y.node = x.node /\ y.row = x.row
        /\ y.retries = FailedRetryCount + 1 /\ y.at = "setFailed"
    BY <2>2 DEF AllExecutions, Steps
  <2> HIDE DEF y
  <2>4. ExecutionSane(y)'
    BY <1>0, <2>1, <2>2, <2>3 DEF ExecutionSane, Invoked, rowVars
  <2>5. ~(StartsFirst /\ Owed(x.row))
    BY <2>1 DEF IInv, EntriesSane, Found, Owed
  <2> QED BY <1>0, <2>1, <2>3, <2>4, <2>5, HistoryStays, FaultsStay, GoesOn
<1>2. CASE Invoke(x)
  <2>1. x.at = "invoke" /\ Found(x) /\ GoOn(x)
        /\ consumed' = [consumed EXCEPT ![x.row] = Lesser(@ + 1, 2)]
        /\ UNCHANGED <<clientVars, rowVars, queue, batch, swallowed, answered, reported, faultVars>>
    BY <1>2 DEF Invoke
  <2>2. consumed[x.row] \in 0 .. 2
    BY <1>0 DEF IInv, TypeOK
  <2>3. Lesser(consumed[x.row] + 1, 2) \in 1 .. 2
    BY <2>2 DEF Lesser
  <2>4. HistoryGrows(x.row) /\ consumed'[x.row] > 0
    BY <1>0, <2>1, <2>3 DEF IInv, TypeOK, HistoryGrows
  <2> QED BY <2>1, <2>4, FaultsStay, GoOnStep DEF Invoked
<1>8. CASE InvokeSwallows(x)
  <2>1. x.at = "invoke" /\ Found(x) /\ GoOn(x)
        /\ failures < MaxFailures /\ failures' = failures + 1
        /\ swallowed' = swallowed \union {x.row}
        /\ UNCHANGED <<clientVars, rowVars, queue, batch, consumed, answered, reported,
                       dbFaults, brokerFaults, crashes>>
    BY <1>8 DEF InvokeSwallows
  <2>2. HistoryGrows(x.row) /\ x.row \in swallowed'
    BY <1>0, <2>1 DEF IInv, TypeOK, HistoryGrows
  <2>3. FaultsOK'
    BY <2>1, BoundAssumption DEF IInv, TypeOK, FaultsOK
  <2> QED BY <2>1, <2>2, <2>3, GoOnStep DEF Invoked
<1>3. CASE SendCallback(x)
  <2> DEFINE y == [x EXCEPT !.at = "setSucceeded"]
  <2>1. x.at = "callback" /\ Becomes(x, y) /\ answered' = answered \union {x.row}
        /\ UNCHANGED <<clientVars, rowVars, queue, batch, consumed, swallowed, reported, faultVars>>
    BY <1>3 DEF SendCallback
  <2>2. /\ y \in AllExecutions /\ y.node = x.node /\ y.row = x.row /\ y.retries = x.retries
        /\ y.at = "setSucceeded"
    BY RunningTyped DEF AllExecutions, Steps
  <2>3. HistoryGrows(x.row)
    BY <1>0, <2>1 DEF IInv, TypeOK, HistoryGrows
  <2>4. x.retries < FailedRetryCount /\ y.retries <= FailedRetryCount
    BY <1>0, <2>1, <2>2, RetryAssumption DEF ExecutionSane
  <2> HIDE DEF y
  <2>5. ExecutionSane(y)'
    BY <1>0, <2>1, <2>2, <2>4 DEF ExecutionSane, Invoked, Owed, rowVars
  <2> QED BY <1>0, <2>1, <2>2, <2>3, <2>4, <2>5, FaultsStay, GoesOn
<1>4. CASE InvokeThrows(x)
  <2>1. /\ x.at # "setFailed" /\ Fail(x) /\ failures < MaxFailures /\ failures' = failures + 1
        /\ UNCHANGED <<clientVars, rowVars, queue, batch, consumed, swallowed, answered, dbFaults,
                       brokerFaults, crashes>>
    BY <1>4 DEF InvokeThrows
  <2>2. FaultsOK'
    BY <2>1, BoundAssumption DEF IInv, TypeOK, FaultsOK
  <2> QED BY <2>1, <2>2, FailStep
<1>5. CASE SetSuccessfulStateThrows(x)
  <2>1. /\ x.at # "setFailed" /\ Fail(x) /\ dbFaults < MaxDbFaults /\ dbFaults' = dbFaults + 1
        /\ UNCHANGED <<clientVars, rowVars, queue, batch, consumed, swallowed, answered, failures,
                       brokerFaults, crashes>>
    BY <1>5 DEF SetSuccessfulStateThrows
  <2>2. FaultsOK'
    BY <2>1, BoundAssumption DEF IInv, TypeOK, FaultsOK
  <2> QED BY <2>1, <2>2, FailStep
<1>6. CASE SetSuccessfulState(x) \/ SetFailedState(x)
  BY <1>6, WriteSteps
<1>7. CASE SetFailedStateThrows(x)
  <2>1. /\ running' = running \ {x} /\ dbFaults < MaxDbFaults /\ dbFaults' = dbFaults + 1
        /\ batch' = IF x.by = "needRetry" THEN [batch EXCEPT ![x.node] = {}] ELSE batch
        /\ UNCHANGED <<clientVars, rowVars, queue, histVars, failures, brokerFaults, crashes>>
    BY <1>7 DEF SetFailedStateThrows, Abandon
  <2>2. batch' \in [Nodes -> SUBSET Copies] /\ \A n \in Nodes : batch'[n] \subseteq batch[n]
    BY <2>1 DEF IInv, TypeOK
  <2>3. TypeOK'
    BY <2>1, <2>2, BoundAssumption DEF IInv, TypeOK, clientVars, rowVars, histVars
  <2>4. QueuesSane' /\ EntriesSane'
    BY <2>1, <2>2 DEF IInv, QueuesSane, EntriesSane, clientVars, rowVars
  <2>5. ExecutionsSane' /\ OwedIsNotGivenUp'
    BY <2>1 DEF IInv, ExecutionsSane, ExecutionSane, Invoked, OwedIsNotGivenUp, Owed, rowVars, histVars
  <2> QED BY <2>1, <2>3, <2>4, <2>5, TableUntouched DEF IInv
<1> QED BY <1>1, <1>2, <1>3, <1>4, <1>5, <1>6, <1>7, <1>8 DEF ExecuteAsync

-----------------------------------------------------------------------------
LEMMA Inductive == IInv /\ [Next]_vars => IInv'
<1> SUFFICES ASSUME IInv, [Next]_vars
             PROVE  IInv'
  OBVIOUS
<1>1. CASE UNCHANGED vars
  <2>1. UNCHANGED <<clientVars, rowVars, memVars, histVars, faultVars>>
    BY <1>1 DEF vars
  <2>2. TypeOK' /\ EntriesSane'
    BY <2>1 DEF IInv, TypeOK, EntriesSane, clientVars, rowVars, memVars, histVars, faultVars
  <2>3. RowsInv'
    BY <2>1, RowsUntouched DEF IInv, RowsInv
  <2> QED BY <2>1, <2>2, <2>3, TableUntouched DEF IInv, RowsInv
<1>2. ASSUME NEW n \in Nodes, NodeStep(n) PROVE IInv'
  BY <1>2, ClientSteps, StoreStep, EnqueueStep, TakeStep, ScanStep, PickStep, CrashStep
  DEF NodeStep, HandlerStep
<1>3. ASSUME NEW x \in running, ExecuteAsync(x) PROVE IInv'
  BY <1>3, ExecutionSteps
<1>4. ASSUME NEW r \in Rows, Age(r) \/ Expire(r) \/ Collect(r) PROVE IInv'
  BY <1>4, RowSteps
<1>5. ASSUME NEW m \in Messages, Arrive(m) PROVE IInv'
  BY <1>5, ArriveStep
<1> QED BY <1>1, <1>2, <1>3, <1>4, <1>5 DEF Next

(* The inductive invariant: what handlers, queues, batches and executions  *)
(* know of the rows, whichever copy is written last.                       *)
THEOREM Invariance == Spec => []IInv
  BY Initial, Inductive, PTL DEF Spec

(* The variables of the receiving half have their types; no copy in a      *)
(* batch has used up its retries.                                          *)
THEOREM TypeCorrect == Spec => []TypeOK
<1>1. IInv => TypeOK
  BY DEF IInv
<1> QED BY <1>1, Invariance, PTL

(* A message the broker has let go of has a row: storing comes before the  *)
(* acknowledgement, whatever fails and whoever crashes in between.         *)
THEOREM StoredBeforeAcked == Spec => []AckedIsStored
<1>1. IInv => AckedIsStored
  BY DEF IInv
<1> QED BY <1>1, Invariance, PTL

(* A row says Succeeded only when its method returned, or was given up for *)
(* a FormatException, and the callback message it names was published,     *)
(* whatever fails, however old the copies are, whichever is written last.  *)
THEOREM SucceededCorrect == Spec => []SucceededWasInvoked
<1>1. IInv => SucceededWasInvoked
  BY DEF IInv
<1> QED BY <1>1, Invariance, PTL

(* A row whose retries are used up was reported.                           *)
THEOREM ThresholdCorrect == Spec => []ThresholdIsReported
<1>1. IInv => ThresholdIsReported
  BY DEF IInv
<1> QED BY <1>1, Invariance, PTL

(* If a node finds its subscribers before its first scan, no message that  *)
(* has one is given up unreported.                                         *)
THEOREM NotGivenUp == StartsFirst => (Spec => []GivenUpHasNoSubscriber)
<1> SUFFICES ASSUME StartsFirst PROVE Spec => []GivenUpHasNoSubscriber
  OBVIOUS
<1>1. IInv => GivenUpHasNoSubscriber
  BY RetryAssumption DEF IInv, TypeOK, OwedIsNotGivenUp, GivenUpHasNoSubscriber, Owed
<1> QED BY <1>1, Invariance, PTL

-----------------------------------------------------------------------------
(* The rows implement the outbox: every step is one of the Outbox, or      *)
(* changes nothing the Outbox speaks of.                                   *)
Stored == {r \in Rows : Owed(r)}
Sent == {r \in Rows : Invoked(r)}
Removed == {r \in Rows : Owed(r) /\ status[r] = "Deleted"}
Seen == <<Stored, Sent, reported, Removed>>

LEMMA OutboxInit == Init => Promise!Init
  BY MessageAssumption, SubscriberAssumption DEF Init, Invoked, Promise!Init, Owed

(* The failure that is counted may be reported.                            *)
LEMMA FailIsSeen ==
    ASSUME IInv, NEW x \in running, Owed(x.row), Fail(x),
           UNCHANGED <<rowVars, consumed, swallowed>>
    PROVE  [Promise!Next]_Seen
<1>1. x.row \in Stored
  BY RunningTyped DEF Stored
<1>2. UNCHANGED <<Stored, Sent, Removed>>
  BY DEF Stored, Sent, Invoked, Removed, Owed, rowVars
<1>3. reported' = reported \/ reported' = reported \union {x.row}
  BY DEF Fail
<1>4. CASE reported' = reported
  BY <1>2, <1>4 DEF Seen
<1>5. CASE reported' = reported \union {x.row} /\ x.row \notin reported
  <2>1. x.row \in Rows
    BY RunningTyped
  <2>2. Promise!Report(x.row)
    BY <1>1, <1>2, <1>5 DEF Promise!Report, Stored, Sent, Invoked, Removed
  <2> QED BY <2>1, <2>2 DEF Promise!Next
<1>6. CASE reported' = reported \union {x.row} /\ x.row \in reported
  BY <1>2, <1>6 DEF Seen
<1> QED BY <1>3, <1>4, <1>5, <1>6

LEMMA ExecutionIsSeen ==
    ASSUME IInv, NEW x \in running, ExecuteAsync(x)
    PROVE  [Promise!Next]_Seen
<1> USE DEF rowVars, clientVars, histVars, faultVars
<1>0. x.row \in Rows /\ ExecutionSane(x)
  BY RunningTyped DEF IInv, ExecutionsSane
<1>1. CASE SubscriberNotFound(x) \/ SendCallback(x) \/ SetFailedStateThrows(x)
  BY <1>1 DEF SubscriberNotFound, SendCallback, SetFailedStateThrows, Seen, Stored, Sent, Invoked, Removed, Owed
<1>2. CASE Invoke(x) \/ InvokeSwallows(x)
  <2>1. Found(x) /\ UNCHANGED <<rowVars, reported>>
    BY <1>2 DEF Invoke, InvokeSwallows
  <2>2. x.row \in Stored
    BY <1>0, <2>1 DEF Stored, Found, Owed
  <2>3. \A r \in Rows : Invoked(r)' <=> Invoked(r) \/ r = x.row
    <3>1. CASE Invoke(x)
      <4>1. consumed' = [consumed EXCEPT ![x.row] = Lesser(@ + 1, 2)] /\ swallowed' = swallowed
        BY <3>1 DEF Invoke
      <4>2. consumed[x.row] \in 0 .. 2
        BY <1>0 DEF IInv, TypeOK
      <4>3. Lesser(consumed[x.row] + 1, 2) \in 1 .. 2
        BY <4>2 DEF Lesser
      <4> QED BY <1>0, <4>1, <4>3 DEF Invoked, IInv, TypeOK
    <3>2. CASE InvokeSwallows(x)
      BY <3>2 DEF InvokeSwallows, Invoked
    <3> QED BY <1>2, <3>1, <3>2
  <2>4. Sent' = Sent \union {x.row}
    BY <1>0, <2>3 DEF Sent
  <2>5. UNCHANGED <<Stored, reported, Removed>>
    BY <2>1 DEF Stored, Removed, Owed
  <2>6. CASE x.row \in Sent
    BY <2>4, <2>5, <2>6 DEF Seen
  <2>7. CASE x.row \notin Sent
    BY <1>0, <2>2, <2>4, <2>5, <2>7 DEF Promise!Next, Promise!Send, Stored, Sent, Removed
  <2> QED BY <2>6, <2>7
<1>3. CASE InvokeThrows(x) \/ SetSuccessfulStateThrows(x)
  <2>1. Fail(x) /\ UNCHANGED <<rowVars, consumed, swallowed>> /\ Owed(x.row)
    BY <1>0, <1>3 DEF InvokeThrows, SetSuccessfulStateThrows, Found, Owed, ExecutionSane, Invoked
  <2> QED BY <2>1, FailIsSeen
<1>4. CASE SetSuccessfulState(x) \/ SetFailedState(x)
  <2>1. \A r \in Rows : status'[r] = "Deleted" <=> status[r] = "Deleted"
    BY <1>4 DEF SetSuccessfulState, SetFailedState, Write, IInv, TypeOK
  <2>2. UNCHANGED <<msgOf, consumed, swallowed, reported>>
    BY <1>4 DEF SetSuccessfulState, SetFailedState
  <2> QED BY <2>1, <2>2 DEF Seen, Stored, Sent, Invoked, Removed, Owed
<1> QED BY <1>1, <1>2, <1>3, <1>4 DEF ExecuteAsync

LEMMA OutboxStep ==
    ASSUME RetriesInTime, StartsFirst, IInv, [Next]_vars
    PROVE  [Promise!Next]_Seen
<1> USE DEF rowVars, memVars, clientVars, histVars, faultVars
<1>1. CASE UNCHANGED vars
  BY <1>1 DEF vars, Seen, Stored, Sent, Invoked, Removed, Owed
<1>2. ASSUME NEW n \in Nodes, NodeStep(n) PROVE [Promise!Next]_Seen
  <2>1. CASE StoreMessage(n)
    <3>1. PICK r \in Rows : /\ msgOf[r] = NoMessage
                            /\ msgOf' = [msgOf EXCEPT ![r] = handled[n]]
                            /\ status' = [status EXCEPT ![r] = "Scheduled"]
      BY <2>1 DEF StoreMessage
    <3>2. UNCHANGED <<consumed, swallowed, reported>>
      BY <2>1 DEF StoreMessage
    <3>3. r \notin Stored /\ status[r] = "Absent"
      BY <3>1, MessageAssumption, SubscriberAssumption DEF Stored, Owed, IInv, RowsSane
    <3>4. \A k \in Rows : k # r => msgOf'[k] = msgOf[k] /\ status'[k] = status[k]
      BY <3>1 DEF IInv, TypeOK
    <3>5. msgOf'[r] = handled[n] /\ status'[r] = "Scheduled"
      BY <3>1 DEF IInv, TypeOK
    <3>6. UNCHANGED <<Sent, reported, Removed>>
      BY <3>2, <3>3, <3>4, <3>5 DEF Sent, Invoked, Removed, Owed
    <3>7. CASE handled[n] \in Subscribed
      <4>1. Stored' = Stored \union {r}
        BY <3>4, <3>5, <3>7 DEF Stored, Owed
      <4>2. Promise!Store({r})
        BY <3>3, <3>6, <4>1 DEF Promise!Store, Stored, Sent, Removed
      <4>3. {r} \in SUBSET Rows
        OBVIOUS
      <4> QED BY <4>2, <4>3 DEF Promise!Next
    <3>8. CASE handled[n] \notin Subscribed
      <4>1. Stored' = Stored
        BY <3>3, <3>4, <3>5, <3>8 DEF Stored, Owed
      <4> QED BY <3>6, <4>1 DEF Seen
    <3> QED BY <3>7, <3>8
  <2>2. CASE ~StoreMessage(n)
    <3>1. UNCHANGED <<msgOf, status, consumed, swallowed, reported>>
      BY <1>2, <2>2 DEF NodeStep, HandlerStep, Start, Delivery, Deliver, IdThrows, Reject, Commit,
                        CommitFails, EnqueueToExecute, Take, Scan, PickFromBatch, Crash
    <3> QED BY <3>1 DEF Seen, Stored, Sent, Invoked, Removed, Owed
  <2> QED BY <2>1, <2>2
<1>3. ASSUME NEW x \in running, ExecuteAsync(x) PROVE [Promise!Next]_Seen
  BY <1>3, ExecutionIsSeen
<1>4. ASSUME NEW r \in Rows, Age(r) \/ Expire(r) PROVE UNCHANGED Seen
  BY <1>4 DEF Age, Expire, Seen, Stored, Sent, Invoked, Removed, Owed
<1>5. ASSUME NEW r \in Rows, Collect(r) PROVE [Promise!Next]_Seen
  <2>1. UNCHANGED <<Stored, Sent, reported>>
    BY <1>5 DEF Collect, Stored, Sent, Invoked, Owed
  <2>2. CASE Owed(r)
    <3>1. r \in (Sent \union reported) \ Removed
      BY <1>5, <2>2 DEF Collect, IInv, ExpiredIsSettled, Settled, Sent, Removed
    <3>2. Removed' = Removed \union {r}
      BY <1>5, <2>2 DEF Collect, Removed, Owed, IInv, TypeOK
    <3>3. Promise!Remove(r)
      BY <2>1, <3>1, <3>2 DEF Promise!Remove, Stored, Sent, Removed
    <3> QED BY <3>3 DEF Promise!Next
  <2>3. CASE ~Owed(r)
    <3>1. Removed' = Removed
      BY <1>5, <2>3 DEF Collect, Removed, Owed, IInv, TypeOK
    <3> QED BY <2>1, <3>1 DEF Seen
  <2> QED BY <2>2, <2>3
<1>6. ASSUME NEW m \in Messages, Arrive(m) PROVE UNCHANGED Seen
  BY <1>6 DEF Arrive, Seen, Stored, Sent, Invoked, Removed, Owed
<1> QED BY <1>1, <1>2, <1>3, <1>4, <1>5, <1>6 DEF Next

(* If no row expires that is still to be retried and a node finds its      *)
(* subscribers before its first scan, every behaviour of the receiving     *)
(* half is one of the Outbox, however old the copies in memory are.        *)
THEOREM Implementation == RetriesInTime /\ StartsFirst => (Spec => ImplementsOutbox)
<1> SUFFICES ASSUME RetriesInTime, StartsFirst PROVE Spec => ImplementsOutbox
  OBVIOUS
<1>1. IInv /\ [Next]_vars => [Promise!Next]_(Promise!outboxVars)
  <2> SUFFICES ASSUME IInv, [Next]_vars PROVE [Promise!Next]_(Promise!outboxVars)
    OBVIOUS
  <2>1. Promise!outboxVars = Seen
    BY DEF Promise!outboxVars, Seen, Stored, Sent, Removed
  <2>2. [Promise!Next]_Seen
    BY OutboxStep
  <2> QED BY <2>1, <2>2 DEF Promise!outboxVars, Seen, Stored, Sent, Invoked, Removed
<1> QED BY <1>1, OutboxInit, Invariance, PTL DEF Spec, ImplementsOutbox, Promise!Spec

-----------------------------------------------------------------------------
(* No row is executed twice at a time, and no message twice without faults.*)

(* A handler that has not stored its row has none; a row that is not there *)
(* is not old.                                                             *)
NoRowYet ==
    /\ \A n \in Nodes : handler[n] \in {"idle", "store"} => handledRow[n] = 0
    /\ \A r \in Rows : status[r] = "Absent" => ~old[r]

(* The handler, the queue and Processing have a row once among them, on    *)
(* all nodes.                                                              *)
NewIsOnce ==
    /\ \A n, k \in Nodes : handledRow[n] # 0 /\ handledRow[n] = handledRow[k] => n = k
    /\ \A n, k \in Nodes : \A i \in DOMAIN queue[k] : handledRow[n] # queue[k][i]
    /\ \A n, k \in Nodes : \A i \in DOMAIN queue[n], j \in DOMAIN queue[k] :
           queue[n][i] = queue[k][j] => n = k /\ i = j
    /\ \A x \in running : x.by = "processing" =>
           /\ \A n \in Nodes : handledRow[n] # x.row
           /\ \A n \in Nodes : \A i \in DOMAIN queue[n] : queue[n][i] # x.row
           /\ \A y \in running : y.by = "processing" /\ y.row = x.row => x = y

(* On a node the retry scan has a row once.                                *)
RetriedIsOnce ==
    /\ \A n \in Nodes : \A c, d \in batch[n] : c.row = d.row => c = d
    /\ \A x, y \in running :
           x.by = "needRetry" /\ y.by = "needRetry" /\ x.node = y.node => x = y
    /\ \A x \in running : x.by = "needRetry" => \A c \in batch[x.node] : c.row # x.row

(* The former rows are new, the latter old.                                *)
NewOrOld ==
    Timely =>
        /\ \A n \in Nodes : handledRow[n] # 0 => ~old[handledRow[n]]
        /\ \A n \in Nodes : \A i \in DOMAIN queue[n] : ~old[queue[n][i]]
        /\ \A n \in Nodes : \A c \in batch[n] : old[c.row]
        /\ \A x \in running : old[x.row] <=> x.by = "needRetry"

CopyParts == NoRowYet /\ NewIsOnce /\ RetriedIsOnce /\ NewOrOld

(* The inductive invariant behind OneCopy.                                 *)
CopyInv == IInv /\ CopyParts

-----------------------------------------------------------------------------
LEMMA CopyInitial == Init => CopyInv
<1> SUFFICES ASSUME Init PROVE CopyInv
  OBVIOUS
<1>1. NoRowYet /\ NewIsOnce /\ RetriedIsOnce /\ NewOrOld
  BY DEF Init, NoRowYet, NewIsOnce, RetriedIsOnce, NewOrOld
<1> QED BY <1>1, Initial DEF CopyInv, CopyParts

(* The types the steps below need.                                         *)
LEMMA Typed ==
    ASSUME IInv
    PROVE  /\ \A n \in Nodes : /\ queue[n] \in Seq(Rows) /\ DOMAIN queue[n] = 1 .. Len(queue[n])
                               /\ handledRow[n] \in Rows \union {0}
                               /\ \A i \in DOMAIN queue[n] : queue[n][i] \in Rows
           /\ \A n \in Nodes : \A c \in batch[n] : c.row \in Rows /\ c \in Copies
           /\ \A x \in running : x.row \in Rows /\ x.node \in Nodes /\ x.by \in Executors
           /\ 0 \notin Rows
<1>1. \A n \in Nodes : queue[n] \in Seq(Rows) /\ handledRow[n] \in Rows \union {0}
                       /\ batch[n] \subseteq Copies
  BY DEF IInv, TypeOK
<1>2. \A n \in Nodes : DOMAIN queue[n] = 1 .. Len(queue[n]) /\ \A i \in DOMAIN queue[n] : queue[n][i] \in Rows
  BY <1>1
<1> QED BY <1>1, <1>2, RunningTyped DEF Copies, Rows

(* Steps that only let go of rows, or leave them where they are.           *)
LEMMA NothingAdded ==
    ASSUME CopyInv,
           \A n \in Nodes : /\ handledRow'[n] \in {0, handledRow[n]}
                            /\ queue'[n] \in {<<>>, queue[n]}
                            /\ batch'[n] \subseteq batch[n],
           running' \subseteq running, old' = old
    PROVE  NewIsOnce' /\ RetriedIsOnce' /\ NewOrOld'
<1> USE DEF CopyInv, CopyParts
<1>1. \A n \in Nodes : \A i \in DOMAIN queue'[n] : i \in DOMAIN queue[n] /\ queue'[n][i] = queue[n][i]
  OBVIOUS
<1>2. \A n \in Nodes : handledRow'[n] # 0 => handledRow'[n] = handledRow[n]
  OBVIOUS
<1>3. \A n \in Nodes : handledRow'[n] = 0 \/ handledRow'[n] = handledRow[n]
  OBVIOUS
<1>4. NewIsOnce'
  <2>1. \A n, k \in Nodes : handledRow'[n] # 0 /\ handledRow'[n] = handledRow'[k] => n = k
    BY <1>2 DEF NewIsOnce
  <2>2. \A n, k \in Nodes : \A i \in DOMAIN queue'[k] : handledRow'[n] # queue'[k][i]
    BY <1>1, <1>3, Typed DEF NewIsOnce
  <2>3. \A n, k \in Nodes : \A i \in DOMAIN queue'[n], j \in DOMAIN queue'[k] :
            queue'[n][i] = queue'[k][j] => n = k /\ i = j
    BY <1>1 DEF NewIsOnce
  <2>4. \A x \in running' : x.by = "processing" =>
           /\ \A n \in Nodes : handledRow'[n] # x.row
           /\ \A n \in Nodes : \A i \in DOMAIN queue'[n] : queue'[n][i] # x.row
           /\ \A y \in running' : y.by = "processing" /\ y.row = x.row => x = y
    BY <1>1, <1>3, Typed DEF NewIsOnce
  <2> QED BY <2>1, <2>2, <2>3, <2>4 DEF NewIsOnce
<1>5. RetriedIsOnce'
  <2>1. \A x \in running' : x \in running /\ batch'[x.node] \subseteq batch[x.node]
    BY Typed
  <2> QED BY <2>1 DEF RetriedIsOnce
<1>6. NewOrOld'
  BY <1>1, <1>2 DEF NewOrOld
<1> QED BY <1>4, <1>5, <1>6

(* An execution goes on, or round again, in the place it has.              *)
LEMMA ExecutionMoves ==
    ASSUME CopyInv, NEW x \in running, NEW y, Becomes(x, y),
           y.node = x.node, y.by = x.by, y.row = x.row,
           UNCHANGED <<handledRow, queue, batch, old>>
    PROVE  NewIsOnce' /\ RetriedIsOnce' /\ NewOrOld'
<1> USE DEF CopyInv, CopyParts
<1>1. \A z \in running' : z = y \/ (z \in running /\ z # x)
  BY DEF Becomes
<1>2. NewIsOnce'
  BY <1>1 DEF NewIsOnce
<1>3. RetriedIsOnce'
  BY <1>1 DEF RetriedIsOnce
<1>4. NewOrOld'
  BY <1>1 DEF NewOrOld
<1> QED BY <1>2, <1>3, <1>4

-----------------------------------------------------------------------------
(* The steps that bring a row to a new place.                              *)
LEMMA StoreCopies ==
    ASSUME CopyInv, NEW n \in Nodes, StoreMessage(n)
    PROVE  CopyParts'
<1> USE DEF CopyInv, CopyParts, rowVars, memVars
<1>1. PICK r \in Rows : /\ msgOf[r] = NoMessage
                        /\ status' = [status EXCEPT ![r] = "Scheduled"]
                        /\ handledRow' = [handledRow EXCEPT ![n] = r]
  BY DEF StoreMessage
<1>2. /\ handler[n] = "store" /\ handler' = [handler EXCEPT ![n] = "commit"]
      /\ UNCHANGED <<old, queue, batch, running>>
  BY DEF StoreMessage
<1>3. status[r] = "Absent" /\ ~old[r]
  BY <1>1 DEF IInv, RowsSane, NoRowYet
<1>4. /\ \A k \in Nodes : handledRow[k] # r
      /\ \A k \in Nodes : \A i \in DOMAIN queue[k] : queue[k][i] # r
      /\ \A x \in running : x.row # r
  <2>1. \A k \in Nodes : handledRow[k] # r
    <3> SUFFICES ASSUME NEW k \in Nodes, handledRow[k] = r
                 PROVE  FALSE
      OBVIOUS
    <3>1. handler[k] \in {"commit", "enqueue"}
      BY Typed DEF IInv, TypeOK, NoRowYet
    <3> QED BY <1>1, <3>1, MessageAssumption DEF IInv, HandlersSane
  <2> QED BY <1>3, <2>1 DEF IInv, QueuesSane, ExecutionsSane, ExecutionSane
<1>5. handledRow'[n] = r /\ \A k \in Nodes : k # n => handledRow'[k] = handledRow[k]
  BY <1>1 DEF IInv, TypeOK
<1>6. NoRowYet'
  BY <1>1, <1>2, <1>5 DEF NoRowYet, IInv, TypeOK
<1>7. NewIsOnce'
  BY <1>2, <1>4, <1>5 DEF NewIsOnce
<1>8. RetriedIsOnce' /\ NewOrOld'
  BY <1>2, <1>3, <1>5 DEF RetriedIsOnce, NewOrOld
<1> QED BY <1>6, <1>7, <1>8

LEMMA EnqueueCopies ==
    ASSUME CopyInv, NEW n \in Nodes, EnqueueToExecute(n)
    PROVE  CopyParts'
<1> USE DEF CopyInv, CopyParts, rowVars, Finish
<1>1. /\ handler[n] = "enqueue" /\ queue' = [queue EXCEPT ![n] = Append(@, handledRow[n])]
      /\ handler' = [handler EXCEPT ![n] = "idle"] /\ handledRow' = [handledRow EXCEPT ![n] = 0]
      /\ UNCHANGED <<status, old, batch, running>>
  BY DEF EnqueueToExecute
<1> DEFINE r == handledRow[n]
           last == Len(queue[n]) + 1
<1>2. r \in Rows /\ r # 0
  BY <1>1, Typed DEF IInv, HandlersSane
<1>3. \A k \in Nodes : handledRow'[k] = IF k = n THEN 0 ELSE handledRow[k]
  BY <1>1 DEF IInv, TypeOK
<1>4. \A k \in Nodes : \A i \in DOMAIN queue'[k] :
          \/ i \in DOMAIN queue[k] /\ queue'[k][i] = queue[k][i]
          \/ k = n /\ i = last /\ queue'[k][i] = r
  <2>1. queue'[n] = Append(queue[n], r) /\ \A k \in Nodes : k # n => queue'[k] = queue[k]
    BY <1>1 DEF IInv, TypeOK
  <2>2. \A i \in DOMAIN Append(queue[n], r) :
            \/ i \in DOMAIN queue[n] /\ Append(queue[n], r)[i] = queue[n][i]
            \/ i = last /\ Append(queue[n], r)[i] = r
    BY <1>2, Typed
  <2> QED BY <2>1, <2>2
<1>5. NoRowYet'
  BY <1>1, <1>3 DEF NoRowYet, IInv, TypeOK
<1>6. /\ \A k \in Nodes : handledRow[k] = r => k = n
      /\ \A k \in Nodes : \A i \in DOMAIN queue[k] : queue[k][i] # r
      /\ \A x \in running : x.by = "processing" => x.row # r
      /\ Timely => ~old[r]
  BY <1>2 DEF NewIsOnce, NewOrOld
<1> HIDE DEF r, last
<1>7. NewIsOnce'
  <2>1. \A k, l \in Nodes : handledRow'[k] # 0 /\ handledRow'[k] = handledRow'[l] => k = l
    BY <1>3 DEF NewIsOnce
  <2>2. \A k, l \in Nodes : \A i \in DOMAIN queue'[l] : handledRow'[k] # queue'[l][i]
    BY <1>2, <1>3, <1>4, <1>6, Typed DEF NewIsOnce
  <2>3. \A k, l \in Nodes : \A i \in DOMAIN queue'[k], j \in DOMAIN queue'[l] :
            queue'[k][i] = queue'[l][j] => k = l /\ i = j
    <3> SUFFICES ASSUME NEW k \in Nodes, NEW l \in Nodes,
                        NEW i \in DOMAIN queue'[k], NEW j \in DOMAIN queue'[l],
                        queue'[k][i] = queue'[l][j]
                 PROVE  k = l /\ i = j
      OBVIOUS
    <3>1. \/ i \in DOMAIN queue[k] /\ queue'[k][i] = queue[k][i]
          \/ k = n /\ i = last /\ queue'[k][i] = r
      BY <1>4
    <3>2. \/ j \in DOMAIN queue[l] /\ queue'[l][j] = queue[l][j]
          \/ l = n /\ j = last /\ queue'[l][j] = r
      BY <1>4
    <3> QED BY <3>1, <3>2, <1>6 DEF NewIsOnce
  <2>4. \A x \in running' : x.by = "processing" =>
           /\ \A k \in Nodes : handledRow'[k] # x.row
           /\ \A k \in Nodes : \A i \in DOMAIN queue'[k] : queue'[k][i] # x.row
           /\ \A y \in running' : y.by = "processing" /\ y.row = x.row => x = y
    BY <1>1, <1>3, <1>4, <1>6, Typed DEF NewIsOnce
  <2> QED BY <2>1, <2>2, <2>3, <2>4 DEF NewIsOnce
<1>8. RetriedIsOnce'
  BY <1>1 DEF RetriedIsOnce
<1>9. NewOrOld'
  BY <1>1, <1>3, <1>4, <1>6 DEF NewOrOld
<1> QED BY <1>5, <1>7, <1>8, <1>9

LEMMA TakeCopies ==
    ASSUME CopyInv, NEW n \in Nodes, Take(n)
    PROVE  CopyParts'
<1> USE DEF CopyInv, CopyParts, rowVars, clientVars
<1> DEFINE r == Head(queue[n])
           y == Execution(n, "processing", [row |-> r, retries |-> 0])
<1>1. /\ queue[n] # <<>> /\ running' = running \union {y}
      /\ queue' = [queue EXCEPT ![n] = Tail(@)]
      /\ UNCHANGED <<handler, handledRow, status, old, batch>>
  BY DEF Take
<1>2. y.row = r /\ y.by = "processing" /\ y.node = n
  BY DEF Execution
<1>3. 1 \in DOMAIN queue[n] /\ r = queue[n][1] /\ r \in Rows
  BY <1>1, Typed
<1>4. \A k \in Nodes : \A i \in DOMAIN queue'[k] :
          LET j == IF k = n THEN i + 1 ELSE i
          IN  /\ i \in Int /\ j \in DOMAIN queue[k] /\ queue'[k][i] = queue[k][j]
              /\ k = n => j # 1
  <2>1. queue'[n] = Tail(queue[n]) /\ \A k \in Nodes : k # n => queue'[k] = queue[k]
    BY <1>1 DEF IInv, TypeOK
  <2>2. \A i \in DOMAIN Tail(queue[n]) :
            i \in Int /\ i + 1 \in DOMAIN queue[n] /\ Tail(queue[n])[i] = queue[n][i + 1] /\ i + 1 # 1
    BY <1>1, Typed
  <2>3. \A k \in Nodes : \A i \in DOMAIN queue[k] : i \in Int
    BY Typed
  <2> QED BY <2>1, <2>2, <2>3
<1> HIDE DEF y, r
<1>5. /\ \A k \in Nodes : handledRow[k] # r
      /\ \A x \in running : x.by = "processing" => x.row # r
      /\ \A k \in Nodes : \A j \in DOMAIN queue[k] : queue[k][j] = r => k = n /\ j = 1
      /\ Timely => ~old[r]
  BY <1>3 DEF NewIsOnce, NewOrOld
<1>6. NoRowYet'
  BY <1>1 DEF NoRowYet
<1>7. \A k \in Nodes : \A i \in DOMAIN queue'[k] : queue'[k][i] # r
  BY <1>4, <1>5
<1>8. NewIsOnce'
  <2>1. \A k, l \in Nodes : handledRow'[k] # 0 /\ handledRow'[k] = handledRow'[l] => k = l
    BY <1>1 DEF NewIsOnce
  <2>2. \A k, l \in Nodes : \A i \in DOMAIN queue'[l] : handledRow'[k] # queue'[l][i]
    BY <1>1, <1>4 DEF NewIsOnce
  <2>3. \A k, l \in Nodes : \A i \in DOMAIN queue'[k], j \in DOMAIN queue'[l] :
            queue'[k][i] = queue'[l][j] => k = l /\ i = j
    BY <1>4 DEF NewIsOnce
  <2>4. \A x \in running' : x.by = "processing" =>
           /\ \A k \in Nodes : handledRow'[k] # x.row
           /\ \A k \in Nodes : \A i \in DOMAIN queue'[k] : queue'[k][i] # x.row
           /\ \A z \in running' : z.by = "processing" /\ z.row = x.row => x = z
    BY <1>1, <1>2, <1>4, <1>5, <1>7 DEF NewIsOnce
  <2> QED BY <2>1, <2>2, <2>3, <2>4 DEF NewIsOnce
<1>9. RetriedIsOnce'
  BY <1>1, <1>2 DEF RetriedIsOnce
<1>10. NewOrOld'
  BY <1>1, <1>2, <1>4, <1>5 DEF NewOrOld
<1> QED BY <1>6, <1>8, <1>9, <1>10

LEMMA ScanCopies ==
    ASSUME CopyInv, NEW n \in Nodes, Scan(n)
    PROVE  CopyParts'
<1> USE DEF CopyInv, CopyParts, rowVars, clientVars
<1> DEFINE read == {[row |-> r, retries |-> retries[r]] : r \in {k \in Rows : NeedRetry(k)}}
<1>1. /\ RetryIsIdle(n) /\ batch' = [batch EXCEPT ![n] = read]
      /\ UNCHANGED <<handler, handledRow, status, old, queue, running>>
  BY DEF Scan
<1>2. batch'[n] = read /\ \A k \in Nodes : k # n => batch'[k] = batch[k]
  BY <1>1 DEF IInv, TypeOK
<1>3. \A c \in read : old[c.row]
  BY DEF NeedRetry
<1>4. \A c, d \in read : c.row = d.row => c = d
  OBVIOUS
<1> HIDE DEF read
<1>5. RetriedIsOnce'
  BY <1>1, <1>2, <1>4 DEF RetriedIsOnce, RetryIsIdle
<1>6. NoRowYet' /\ NewIsOnce' /\ NewOrOld'
  BY <1>1, <1>2, <1>3 DEF NoRowYet, NewIsOnce, NewOrOld
<1> QED BY <1>5, <1>6

LEMMA PickCopies ==
    ASSUME CopyInv, NEW n \in Nodes, PickFromBatch(n)
    PROVE  CopyParts'
<1> USE DEF CopyInv, CopyParts, rowVars, clientVars
<1>1. PICK c \in batch[n] : /\ running' = running \union {Execution(n, "needRetry", c)}
                            /\ batch' = [batch EXCEPT ![n] = @ \ {c}]
  BY DEF PickFromBatch
<1>2. RetryIsIdle(n) /\ UNCHANGED <<handler, handledRow, status, old, queue>>
  BY DEF PickFromBatch
<1>3. PICK y : y = Execution(n, "needRetry", c)
  OBVIOUS
<1>4. y.row = c.row /\ y.by = "needRetry" /\ y.node = n
  BY <1>3 DEF Execution
<1>5. batch'[n] = batch[n] \ {c} /\ \A k \in Nodes : k # n => batch'[k] = batch[k]
  BY <1>1 DEF IInv, TypeOK
<1>6. RetriedIsOnce'
  BY <1>1, <1>2, <1>3, <1>4, <1>5, Typed DEF RetriedIsOnce, RetryIsIdle
<1>7. NewIsOnce'
  BY <1>1, <1>2, <1>3, <1>4 DEF NewIsOnce
<1>8. NoRowYet' /\ NewOrOld'
  BY <1>1, <1>2, <1>3, <1>4, <1>5 DEF NoRowYet, NewOrOld
<1> QED BY <1>6, <1>7, <1>8

(* Timely: a row that ages is in no memory.                                *)
LEMMA AgeCopies ==
    ASSUME CopyInv, NEW r \in Rows, Age(r)
    PROVE  CopyParts'
<1> USE DEF CopyInv, CopyParts
<1>1. /\ status[r] # "Absent" /\ old' = [old EXCEPT ![r] = TRUE]
      /\ UNCHANGED <<handler, handledRow, status, queue, batch, running>>
      /\ Timely => ~InMemory(r)
  BY DEF Age, clientVars, memVars
<1>2. old'[r] /\ \A k \in Rows : k # r => old'[k] = old[k]
  BY <1>1 DEF IInv, TypeOK
<1>3. Timely => /\ \A n \in Nodes : handledRow[n] # r
                /\ \A n \in Nodes : \A i \in DOMAIN queue[n] : queue[n][i] # r
                /\ \A x \in running : x.row # r
  <2> SUFFICES ASSUME Timely, ~InMemory(r)
               PROVE  /\ \A n \in Nodes : handledRow[n] # r
                      /\ \A n \in Nodes : \A i \in DOMAIN queue[n] : queue[n][i] # r
                      /\ \A x \in running : x.row # r
    BY <1>1
  <2>1. ~Handling(r) /\ Queued(r) = {} /\ Executions(r) = {}
    BY DEF InMemory
  <2>2. ASSUME NEW n \in Nodes, NEW i \in DOMAIN queue[n], queue[n][i] = r PROVE FALSE
    <3>1. <<n, i>> \in Queued(r)
      BY <2>2 DEF Queued
    <3> QED BY <2>1, <3>1
  <2> QED BY <2>1, <2>2 DEF Handling, Executions
<1>4. NoRowYet' /\ NewIsOnce' /\ RetriedIsOnce'
  BY <1>1, <1>2 DEF NoRowYet, NewIsOnce, RetriedIsOnce
<1>5. NewOrOld'
  BY <1>1, <1>2, <1>3, Typed DEF NewOrOld
<1> QED BY <1>4, <1>5

-----------------------------------------------------------------------------
(* The other steps.                                                        *)
LEMMA ClientCopies ==
    ASSUME CopyInv, NEW n \in Nodes,
           Start(n) \/ Delivery(n) \/ IdThrows(n) \/ Reject(n) \/ Commit(n) \/ CommitFails(n)
    PROVE  CopyParts'
<1> USE DEF CopyInv, CopyParts
<1>1. UNCHANGED <<status, old, queue, batch, running>>
  BY DEF Start, Delivery, Deliver, IdThrows, Reject, Commit, CommitFails, rowVars, memVars
<1>2. \/ UNCHANGED <<handler, handledRow>>
      \/ Finish(n)
      \/ handler[n] = "idle" /\ handler' = [handler EXCEPT ![n] = "store"] /\ UNCHANGED handledRow
      \/ handler[n] = "commit" /\ handler' = [handler EXCEPT ![n] = "enqueue"] /\ UNCHANGED handledRow
  BY DEF Start, Delivery, Deliver, IdThrows, Reject, Commit, CommitFails
<1>3. \A k \in Nodes : handledRow'[k] \in {0, handledRow[k]}
  BY <1>2 DEF Finish, IInv, TypeOK
<1>4. NoRowYet'
  BY <1>1, <1>2 DEF NoRowYet, Finish, IInv, TypeOK
<1> QED BY <1>1, <1>3, <1>4, NothingAdded

LEMMA CrashCopies ==
    ASSUME CopyInv, NEW n \in Nodes, Crash(n)
    PROVE  CopyParts'
<1> USE DEF CopyInv, CopyParts
<1>1. /\ UNCHANGED <<status, old>> /\ running' \subseteq running
      /\ handler' = [handler EXCEPT ![n] = "idle"] /\ handledRow' = [handledRow EXCEPT ![n] = 0]
      /\ queue' = [queue EXCEPT ![n] = <<>>] /\ batch' = [batch EXCEPT ![n] = {}]
  BY DEF Crash, Finish, rowVars
<1>2. \A k \in Nodes : /\ handledRow'[k] \in {0, handledRow[k]}
                       /\ queue'[k] \in {<<>>, queue[k]} /\ batch'[k] \subseteq batch[k]
  BY <1>1 DEF IInv, TypeOK
<1>3. NoRowYet'
  BY <1>1 DEF NoRowYet, IInv, TypeOK
<1> QED BY <1>1, <1>2, <1>3, NothingAdded

LEMMA RowCopies ==
    ASSUME CopyInv, NEW r \in Rows, Expire(r) \/ Collect(r)
    PROVE  CopyParts'
<1> USE DEF CopyInv, CopyParts
<1>1. UNCHANGED <<handler, handledRow, old, queue, batch, running>>
  BY DEF Expire, Collect, clientVars, memVars
<1>2. \A k \in Rows : status'[k] = "Absent" => status[k] = "Absent"
  BY DEF Expire, Collect, IInv, TypeOK
<1>3. NoRowYet'
  BY <1>1, <1>2 DEF NoRowYet
<1> QED BY <1>1, <1>3, NothingAdded

(* What a step of an execution leaves alone, and what becomes of it.       *)
LEMMA ExecutionShape ==
    ASSUME IInv, NEW x \in running, ExecuteAsync(x)
    PROVE  /\ UNCHANGED <<clientVars, msgOf, old, queue>>
           /\ \A k \in Rows : status'[k] = "Absent" => status[k] = "Absent"
           /\ \A n \in Nodes : batch'[n] \subseteq batch[n]
           /\ \/ running' \subseteq running
              \/ /\ UNCHANGED batch
                 /\ \E y : Becomes(x, y) /\ y.node = x.node /\ y.by = x.by /\ y.row = x.row
<1> USE DEF rowVars
<1>1. x \in AllExecutions
  BY RunningTyped
<1>2. CASE \/ SubscriberNotFound(x) \/ Invoke(x) \/ InvokeSwallows(x) \/ SendCallback(x)
           \/ InvokeThrows(x) \/ SetSuccessfulStateThrows(x)
  <2>1. UNCHANGED <<clientVars, msgOf, old, queue, status, batch>>
    BY <1>2
    DEF SubscriberNotFound, Invoke, InvokeSwallows, SendCallback, InvokeThrows, SetSuccessfulStateThrows
  <2>2. PICK count, step : Becomes(x, [x EXCEPT !.retries = count, !.at = step])
    <3>1. CASE SubscriberNotFound(x)
      BY <3>1 DEF SubscriberNotFound
    <3>2. CASE Invoke(x) \/ InvokeSwallows(x) \/ SendCallback(x)
      <4>1. \E step : Becomes(x, [x EXCEPT !.at = step])
        BY <3>2 DEF Invoke, InvokeSwallows, GoOn, SendCallback
      <4>2. \A step : [x EXCEPT !.at = step] = [x EXCEPT !.retries = x.retries, !.at = step]
        BY <1>1 DEF AllExecutions
      <4> QED BY <4>1, <4>2
    <3>3. CASE InvokeThrows(x) \/ SetSuccessfulStateThrows(x)
      BY <3>3 DEF InvokeThrows, SetSuccessfulStateThrows, Fail
    <3> QED BY <1>2, <3>1, <3>2, <3>3
  <2>3. PICK y : y = [x EXCEPT !.retries = count, !.at = step]
    OBVIOUS
  <2>4. y.node = x.node /\ y.by = x.by /\ y.row = x.row
    BY <1>1, <2>3 DEF AllExecutions
  <2> QED BY <2>1, <2>2, <2>3, <2>4
<1>3. CASE SetSuccessfulState(x) \/ SetFailedState(x)
  <2>1. UNCHANGED <<clientVars, msgOf, old, queue, batch>>
    BY <1>3 DEF SetSuccessfulState, SetFailedState
  <2>2. Write(x, "Succeeded") \/ Write(x, "Failed")
    BY <1>3 DEF SetSuccessfulState, SetFailedState
  <2>3. \A k \in Rows : status'[k] = "Absent" => status[k] = "Absent"
    BY <2>2, RunningTyped DEF Write, IInv, TypeOK
  <2>4. running' = running \ {x} \/ Becomes(x, [x EXCEPT !.at = "invoke"])
    BY <1>3 DEF SetSuccessfulState, SetFailedState
  <2>5. LET y == [x EXCEPT !.at = "invoke"] IN y.node = x.node /\ y.by = x.by /\ y.row = x.row
    BY <1>1 DEF AllExecutions
  <2> QED BY <2>1, <2>3, <2>4, <2>5
<1>4. CASE SetFailedStateThrows(x)
  BY <1>4 DEF SetFailedStateThrows, Abandon, IInv, TypeOK
<1> QED BY <1>2, <1>3, <1>4 DEF ExecuteAsync

LEMMA ExecutionCopies ==
    ASSUME CopyInv, NEW x \in running, ExecuteAsync(x)
    PROVE  CopyParts'
<1> USE DEF CopyInv, CopyParts, clientVars
<1>1. /\ UNCHANGED <<handler, handledRow, old, queue>>
      /\ \A k \in Rows : status'[k] = "Absent" => status[k] = "Absent"
      /\ \A n \in Nodes : batch'[n] \subseteq batch[n]
      /\ \/ running' \subseteq running
         \/ /\ UNCHANGED batch
            /\ \E y : Becomes(x, y) /\ y.node = x.node /\ y.by = x.by /\ y.row = x.row
  BY ExecutionShape
<1>2. NoRowYet'
  BY <1>1 DEF NoRowYet
<1>3. CASE running' \subseteq running
  BY <1>1, <1>2, <1>3, NothingAdded
<1>4. CASE /\ UNCHANGED batch
           /\ \E y : Becomes(x, y) /\ y.node = x.node /\ y.by = x.by /\ y.row = x.row
  BY <1>1, <1>2, <1>4, ExecutionMoves
<1> QED BY <1>1, <1>3, <1>4

LEMMA CopyInductive == CopyInv /\ [Next]_vars => CopyInv'
<1> SUFFICES ASSUME CopyInv, [Next]_vars
             PROVE  CopyParts'
  BY Inductive DEF CopyInv
<1>1. CASE UNCHANGED vars
  BY <1>1
  DEF vars, clientVars, rowVars, memVars, CopyInv, CopyParts, NoRowYet, NewIsOnce, RetriedIsOnce, NewOrOld
<1>2. ASSUME NEW n \in Nodes, NodeStep(n) PROVE CopyParts'
  BY <1>2, ClientCopies, StoreCopies, EnqueueCopies, TakeCopies, ScanCopies, PickCopies, CrashCopies
  DEF NodeStep, HandlerStep
<1>3. ASSUME NEW x \in running, ExecuteAsync(x) PROVE CopyParts'
  BY <1>3, ExecutionCopies
<1>4. ASSUME NEW r \in Rows, Age(r) \/ Expire(r) \/ Collect(r) PROVE CopyParts'
  BY <1>4, AgeCopies, RowCopies
<1>5. ASSUME NEW m \in Messages, Arrive(m) PROVE CopyParts'
  BY <1>5 DEF Arrive, rowVars, memVars, CopyInv, CopyParts, NoRowYet, NewIsOnce, RetriedIsOnce, NewOrOld
<1> QED BY <1>1, <1>2, <1>3, <1>4, <1>5 DEF Next

(* The inductive invariant: a new row has one place on all nodes, an old   *)
(* one has one place in the retry scan of each.                            *)
THEOREM CopyInvariance == Spec => []CopyInv
  BY CopyInitial, CopyInductive, PTL DEF Spec

-----------------------------------------------------------------------------
LEMMA AtMostOne ==
    ASSUME NEW S, \A a, b \in S : a = b
    PROVE  Cardinality(S) = IF S = {} THEN 0 ELSE 1
<1>1. CASE S = {}
  BY <1>1, FS_EmptySet
<1>2. CASE S # {}
  <2>1. PICK a : S = {a}
    BY <1>2
  <2> QED BY <1>2, <2>1, FS_Singleton
<1> QED BY <1>1, <1>2

(* Timely: on a node, a row is in the queue, in the batch of the retry     *)
(* scan, or with one execution, and in no two of these.                    *)
THEOREM ExecutedOneAtATime == Timely => (Spec => []OneCopy)
<1> SUFFICES ASSUME Timely PROVE Spec => []OneCopy
  OBVIOUS
<1>1. ASSUME CopyInv PROVE OneCopy
  <2> SUFFICES ASSUME NEW n \in Nodes, NEW r \in Rows
               PROVE  Cardinality({i \in DOMAIN queue[n] : queue[n][i] = r})
                          + Cardinality({c \in batch[n] : c.row = r})
                          + Cardinality({x \in running : x.node = n /\ x.row = r}) <= 1
    BY DEF OneCopy
  <2> USE <1>1 DEF CopyInv, CopyParts
  <2> DEFINE Q == {i \in DOMAIN queue[n] : queue[n][i] = r}
             B == {c \in batch[n] : c.row = r}
             X == {x \in running : x.node = n /\ x.row = r}
  <2>1. \A x \in running : x.by \in {"processing", "needRetry"}
    BY Typed DEF Executors
  <2>2. \A a, b \in Q : a = b
    BY DEF NewIsOnce
  <2>3. \A a, b \in B : a = b
    BY DEF RetriedIsOnce
  <2>4. \A a, b \in X : a = b
    BY <2>1 DEF NewIsOnce, RetriedIsOnce, NewOrOld
  <2>5. Q # {} => B = {} /\ X = {}
    BY <2>1 DEF NewIsOnce, NewOrOld
  <2>6. B # {} => X = {}
    BY <2>1 DEF RetriedIsOnce, NewOrOld
  <2>7. /\ Cardinality(Q) = IF Q = {} THEN 0 ELSE 1
        /\ Cardinality(B) = IF B = {} THEN 0 ELSE 1
        /\ Cardinality(X) = IF X = {} THEN 0 ELSE 1
    BY <2>2, <2>3, <2>4, AtMostOne
  <2> HIDE DEF Q, B, X
  <2>8. Cardinality(Q) + Cardinality(B) + Cardinality(X) <= 1
    BY <2>5, <2>6, <2>7
  <2> QED BY <2>8 DEF Q, B, X
<1> QED BY <1>1, CopyInvariance, PTL

-----------------------------------------------------------------------------
(* Without failures and crashes.                                           *)
NoFaults == failures + dbFaults + brokerFaults + crashes = 0

(* A message has one row: it is stored only by the handler it was          *)
(* delivered to, which acknowledges it next.                               *)
StoredOnce ==
    /\ \A n \in Nodes : handler[n] \in {"store", "commit"} => broker[handled[n]] = n
    /\ \A r \in Rows : msgOf[r] # NoMessage =>
           \/ broker[msgOf[r]] = "gone"
           \/ \E n \in Nodes : broker[msgOf[r]] = n /\ handler[n] = "commit" /\ handled[n] = msgOf[r]
    /\ \A r, k \in Rows : msgOf[r] # NoMessage /\ msgOf[r] = msgOf[k] => r = k

(* A row in need of a retry has not been given out of hand yet.            *)
ScheduledIsInHand ==
    /\ \A r \in Rows : status[r] = "Scheduled" =>
           \/ \E n \in Nodes : handledRow[n] = r
           \/ \E n \in Nodes : \E i \in DOMAIN queue[n] : queue[n][i] = r
           \/ \E x \in running : x.row = r
    /\ \A r \in Rows : status[r] = "Failed" => retries[r] > FailedRetryCount
    /\ \A n \in Nodes : batch[n] = {}
    /\ \A x \in running : x.by = "processing"

(* What waits to be invoked was not invoked before.                        *)
InvokedOnce ==
    /\ \A r \in Rows : consumed[r] <= 1
    /\ \A n \in Nodes : handledRow[n] # 0 => consumed[handledRow[n]] = 0
    /\ \A n \in Nodes : \A i \in DOMAIN queue[n] : consumed[queue[n][i]] = 0
    /\ \A x \in running : /\ x.at = "invoke" => consumed[x.row] = 0
                          /\ x.at = "setFailed" => x.retries > FailedRetryCount

OnceParts == StoredOnce /\ ScheduledIsInHand /\ InvokedOnce

(* The inductive invariant behind ConsumedOnce.                            *)
OnceInv == CopyInv /\ (Timely /\ NoFaults => OnceParts)

LEMMA OnceInitial == Init => OnceInv
<1> SUFFICES ASSUME Init PROVE OnceParts
  BY CopyInitial DEF OnceInv
<1>1. StoredOnce
  BY DEF Init, StoredOnce
<1>2. ScheduledIsInHand /\ InvokedOnce
  BY DEF Init, ScheduledIsInHand, InvokedOnce
<1> QED BY <1>1, <1>2 DEF OnceParts

(* Once something has failed NoFaults does not come back.                  *)
LEMMA FaultsAreCounted ==
    ASSUME IInv, NoFaults',
           \/ UNCHANGED faultVars
           \/ failures' = failures + 1 /\ UNCHANGED <<dbFaults, brokerFaults, crashes>>
           \/ dbFaults' = dbFaults + 1 /\ UNCHANGED <<failures, brokerFaults, crashes>>
           \/ brokerFaults' = brokerFaults + 1 /\ UNCHANGED <<failures, dbFaults, crashes>>
           \/ crashes' = crashes + 1 /\ UNCHANGED <<failures, dbFaults, brokerFaults>>
    PROVE  NoFaults /\ UNCHANGED faultVars
<1>1. failures \in Nat /\ dbFaults \in Nat /\ brokerFaults \in Nat /\ crashes \in Nat
  BY BoundAssumption DEF IInv, TypeOK
<1> QED BY <1>1 DEF NoFaults, faultVars

LEMMA FaultySteps ==
    ASSUME IInv, NoFaults'
    PROVE  /\ \A n \in Nodes : ~IdThrows(n) /\ ~Reject(n) /\ ~CommitFails(n) /\ ~Crash(n)
           /\ \A x \in running : /\ ~InvokeSwallows(x) /\ ~InvokeThrows(x)
                                /\ ~SetSuccessfulStateThrows(x) /\ ~SetFailedStateThrows(x)
<1>1. failures \in Nat /\ dbFaults \in Nat /\ brokerFaults \in Nat /\ crashes \in Nat
  BY BoundAssumption DEF IInv, TypeOK
<1>2. /\ failures' # failures + 1 \/ ~UNCHANGED <<dbFaults, brokerFaults, crashes>>
      /\ dbFaults' # dbFaults + 1 \/ ~UNCHANGED <<failures, brokerFaults, crashes>>
      /\ brokerFaults' # brokerFaults + 1 \/ ~UNCHANGED <<failures, dbFaults, crashes>>
      /\ crashes' # crashes + 1 \/ ~UNCHANGED <<failures, dbFaults, brokerFaults>>
  BY <1>1 DEF NoFaults
<1>3. \A n \in Nodes : ~IdThrows(n) /\ ~Reject(n) /\ ~CommitFails(n) /\ ~Crash(n)
  BY <1>2 DEF IdThrows, Reject, CommitFails, Crash
<1>4. \A x \in running : /\ ~InvokeSwallows(x) /\ ~InvokeThrows(x)
                        /\ ~SetSuccessfulStateThrows(x) /\ ~SetFailedStateThrows(x)
  BY <1>2 DEF InvokeSwallows, InvokeThrows, SetSuccessfulStateThrows, SetFailedStateThrows
<1> QED BY <1>3, <1>4

(* The broker and the handler.                                             *)
LEMMA ClientOnce ==
    ASSUME CopyInv, OnceParts, NEW n \in Nodes, Start(n) \/ Delivery(n) \/ Commit(n)
    PROVE  OnceParts'
<1> USE DEF OnceParts, rowVars, memVars, histVars
<1>1. UNCHANGED <<handledRow, msgOf, status, retries, queue, batch, running, consumed>>
  BY DEF Start, Delivery, Deliver, Commit
<1>2. ScheduledIsInHand' /\ InvokedOnce'
  BY <1>1 DEF ScheduledIsInHand, InvokedOnce
<1>3. CASE Start(n)
  BY <1>2, <1>3 DEF Start, StoredOnce
<1>4. CASE Delivery(n)
  <2>1. PICK m \in Messages : Deliver(n, m)
    BY <1>4 DEF Delivery
  <2>2. /\ handler[n] = "idle" /\ broker[m] = "queued" /\ broker' = [broker EXCEPT ![m] = n]
        /\ handled' = [handled EXCEPT ![n] = m] /\ handler' = [handler EXCEPT ![n] = "store"]
    BY <2>1 DEF Deliver
  <2>3. \A k \in Nodes : /\ handler'[k] = IF k = n THEN "store" ELSE handler[k]
                         /\ handled'[k] = IF k = n THEN m ELSE handled[k]
    BY <2>2 DEF CopyInv, IInv, TypeOK
  <2>4. broker'[m] = n /\ \A o \in Messages : o # m => broker'[o] = broker[o]
    BY <2>2 DEF CopyInv, IInv, TypeOK
  <2>5. \A r \in Rows : msgOf[r] # m
    BY <2>2, NodeAssumption, MessageAssumption DEF StoredOnce
  <2>6. \A r \in Rows : msgOf[r] # NoMessage => msgOf[r] \in Messages
    BY DEF CopyInv, IInv, TypeOK
  <2>7. \A k \in Nodes : k # n /\ handler[k] \in {"store", "commit"} =>
            handled[k] \in Messages /\ handled[k] # m
    BY <2>2, NodeAssumption DEF StoredOnce, CopyInv, IInv, HandlersSane
  <2>8. StoredOnce'
    <3>1. \A k \in Nodes : handler'[k] \in {"store", "commit"} => broker'[handled'[k]] = k
      BY <2>3, <2>4, <2>7 DEF StoredOnce
    <3>2. \A r \in Rows : msgOf'[r] # NoMessage =>
              \/ broker'[msgOf'[r]] = "gone"
              \/ \E k \in Nodes : /\ broker'[msgOf'[r]] = k /\ handler'[k] = "commit"
                                  /\ handled'[k] = msgOf'[r]
      <4> SUFFICES ASSUME NEW r \in Rows, msgOf[r] # NoMessage, broker[msgOf[r]] # "gone"
                   PROVE  \E k \in Nodes : /\ broker'[msgOf[r]] = k /\ handler'[k] = "commit"
                                           /\ handled'[k] = msgOf[r]
        BY <1>1, <2>4, <2>5, <2>6
      <4>1. PICK k \in Nodes : broker[msgOf[r]] = k /\ handler[k] = "commit" /\ handled[k] = msgOf[r]
        BY DEF StoredOnce
      <4>2. k # n
        BY <2>2, <4>1
      <4> QED BY <2>3, <2>4, <2>5, <2>6, <4>1, <4>2
    <3>3. \A r, k \in Rows : msgOf'[r] # NoMessage /\ msgOf'[r] = msgOf'[k] => r = k
      BY <1>1 DEF StoredOnce
    <3> QED BY <3>1, <3>2, <3>3 DEF StoredOnce
  <2> QED BY <1>2, <2>8
<1>5. CASE Commit(n)
  <2>1. PICK m : m = handled[n]
    OBVIOUS
  <2>2. /\ handler[n] = "commit" /\ broker' = [broker EXCEPT ![m] = "gone"]
        /\ handler' = [handler EXCEPT ![n] = "enqueue"] /\ UNCHANGED handled
    BY <1>5, <2>1 DEF Commit
  <2>3. m \in Messages /\ broker[m] = n
    BY <2>1, <2>2 DEF CopyInv, IInv, HandlersSane, StoredOnce
  <2>4. broker'[m] = "gone" /\ \A o \in Messages : o # m => broker'[o] = broker[o]
    BY <2>2, <2>3 DEF CopyInv, IInv, TypeOK
  <2>5. handler'[n] = "enqueue" /\ \A k \in Nodes : k # n => handler'[k] = handler[k]
    BY <2>2 DEF CopyInv, IInv, TypeOK
  <2>6. \A k \in Nodes : handler[k] \in {"store", "commit"} => handled[k] \in Messages
    BY DEF CopyInv, IInv, HandlersSane
  <2>7. \A r \in Rows : msgOf[r] # NoMessage => msgOf[r] \in Messages
    BY DEF CopyInv, IInv, TypeOK
  <2>8. \A k \in Nodes : handler'[k] \in {"store", "commit"} => broker'[handled'[k]] = k
    BY <2>1, <2>2, <2>3, <2>4, <2>5, <2>6 DEF StoredOnce
  <2>9. \A r \in Rows : msgOf'[r] # NoMessage =>
            \/ broker'[msgOf'[r]] = "gone"
            \/ \E k \in Nodes : /\ broker'[msgOf'[r]] = k /\ handler'[k] = "commit"
                                /\ handled'[k] = msgOf'[r]
    <3> SUFFICES ASSUME NEW r \in Rows, msgOf[r] # NoMessage, msgOf[r] # m, broker[msgOf[r]] # "gone"
                 PROVE  \E k \in Nodes : /\ broker'[msgOf[r]] = k /\ handler'[k] = "commit"
                                         /\ handled'[k] = msgOf[r]
      BY <1>1, <2>4, <2>7
    <3>1. PICK k \in Nodes : broker[msgOf[r]] = k /\ handler[k] = "commit" /\ handled[k] = msgOf[r]
      BY DEF StoredOnce
    <3>2. k # n
      BY <2>1, <3>1
    <3> QED BY <2>2, <2>4, <2>5, <2>7, <3>1, <3>2
  <2>10. StoredOnce'
    BY <1>1, <2>8, <2>9 DEF StoredOnce
  <2> QED BY <1>2, <2>10
<1> QED BY <1>3, <1>4, <1>5

LEMMA ArriveOnce ==
    ASSUME CopyInv, OnceParts, NEW m \in Messages, Arrive(m)
    PROVE  OnceParts'
<1> USE DEF OnceParts, rowVars, memVars, histVars
<1>1. UNCHANGED <<handler, handled, handledRow, msgOf, status, retries, queue, batch, running, consumed>>
      /\ broker[m] = "unsent" /\ broker' = [broker EXCEPT ![m] = "queued"]
  BY DEF Arrive
<1>2. ScheduledIsInHand' /\ InvokedOnce'
  BY <1>1 DEF ScheduledIsInHand, InvokedOnce
<1>3. \A o \in Messages : o # m => broker'[o] = broker[o]
  BY <1>1 DEF CopyInv, IInv, TypeOK
<1>4. \A k \in Nodes : handler[k] \in {"store", "commit"} => handled[k] \in Messages
  BY DEF CopyInv, IInv, HandlersSane
<1>5. \A r \in Rows : msgOf[r] # NoMessage => msgOf[r] \in Messages
  BY DEF CopyInv, IInv, TypeOK
<1>6. "unsent" \notin Nodes
  BY NodeAssumption
<1>7. StoredOnce'
  BY <1>1, <1>3, <1>4, <1>5, <1>6 DEF StoredOnce
<1> QED BY <1>2, <1>7

LEMMA StoreOnce ==
    ASSUME CopyInv, OnceParts, NEW n \in Nodes, StoreMessage(n)
    PROVE  OnceParts'
<1> USE DEF OnceParts, memVars, histVars
<1>1. PICK r \in Rows : /\ msgOf[r] = NoMessage
                        /\ msgOf' = [msgOf EXCEPT ![r] = handled[n]]
                        /\ status' = [status EXCEPT ![r] = "Scheduled"]
                        /\ handledRow' = [handledRow EXCEPT ![n] = r]
  BY DEF StoreMessage
<1>2. /\ handler[n] = "store" /\ handler' = [handler EXCEPT ![n] = "commit"]
      /\ UNCHANGED <<broker, handled, retries, queue, batch, running, consumed>>
  BY DEF StoreMessage
<1>3. PICK m : m = handled[n]
  OBVIOUS
<1>4. m \in Messages /\ m # NoMessage /\ broker[m] = n
  BY <1>2, <1>3, MessageAssumption DEF CopyInv, IInv, HandlersSane, StoredOnce
<1>5. /\ consumed[r] = 0 /\ handledRow[n] = 0
  <2>1. ~Invoked(r) /\ handledRow[n] = 0
    BY <1>1, <1>2 DEF CopyInv, IInv, RowsSane, CopyParts, NoRowYet
  <2>2. consumed[r] \in 0 .. 2
    BY DEF CopyInv, IInv, TypeOK
  <2> QED BY <2>1, <2>2 DEF Invoked
<1>6. \A k \in Rows : msgOf[k] # m
  <2> SUFFICES ASSUME NEW k \in Rows, msgOf[k] = m PROVE FALSE
    OBVIOUS
  <2>1. broker[m] # "gone"
    BY <1>4, NodeAssumption
  <2> QED BY <1>2, <1>4, <2>1 DEF StoredOnce
<1>7. /\ msgOf'[r] = m /\ status'[r] = "Scheduled"
      /\ \A k \in Rows : k # r => msgOf'[k] = msgOf[k] /\ status'[k] = status[k]
  BY <1>1, <1>3 DEF CopyInv, IInv, TypeOK
<1>8. /\ handler'[n] = "commit" /\ handledRow'[n] = r
      /\ \A k \in Nodes : k # n => handler'[k] = handler[k] /\ handledRow'[k] = handledRow[k]
  BY <1>1, <1>2 DEF CopyInv, IInv, TypeOK
<1>9. \A k \in Nodes : handler'[k] \in {"store", "commit"} => broker'[handled'[k]] = k
  BY <1>2, <1>3, <1>4, <1>8 DEF StoredOnce
<1>10. \A k \in Rows : msgOf'[k] # NoMessage =>
           \/ broker'[msgOf'[k]] = "gone"
           \/ \E o \in Nodes : /\ broker'[msgOf'[k]] = o /\ handler'[o] = "commit"
                               /\ handled'[o] = msgOf'[k]
  <2> SUFFICES ASSUME NEW k \in Rows, msgOf'[k] # NoMessage, broker[msgOf'[k]] # "gone"
               PROVE  \E o \in Nodes : /\ broker[msgOf'[k]] = o /\ handler'[o] = "commit"
                                       /\ handled[o] = msgOf'[k]
    BY <1>2
  <2>1. CASE k = r
    BY <1>3, <1>4, <1>7, <1>8, <2>1
  <2>2. CASE k # r
    <3>1. PICK o \in Nodes : broker[msgOf[k]] = o /\ handler[o] = "commit" /\ handled[o] = msgOf[k]
      BY <1>7, <2>2 DEF StoredOnce
    <3> QED BY <1>2, <1>7, <1>8, <2>2, <3>1
  <2> QED BY <2>1, <2>2
<1>11. \A j, k \in Rows : msgOf'[j] # NoMessage /\ msgOf'[j] = msgOf'[k] => j = k
  BY <1>6, <1>7 DEF StoredOnce
<1>12. StoredOnce'
  BY <1>9, <1>10, <1>11 DEF StoredOnce
<1>13. ScheduledIsInHand'
  <2>1. \A k \in Rows : status'[k] = "Scheduled" =>
            \/ \E o \in Nodes : handledRow'[o] = k
            \/ \E o \in Nodes : \E i \in DOMAIN queue'[o] : queue'[o][i] = k
            \/ \E x \in running' : x.row = k
    <3> SUFFICES ASSUME NEW k \in Rows, k # r, status[k] = "Scheduled",
                        ~(\E o \in Nodes : \E i \in DOMAIN queue[o] : queue[o][i] = k),
                        ~(\E x \in running : x.row = k)
                 PROVE  \E o \in Nodes : handledRow'[o] = k
      BY <1>2, <1>7, <1>8
    <3>1. PICK o \in Nodes : handledRow[o] = k
      BY DEF ScheduledIsInHand
    <3>2. o # n
      BY <1>5, <3>1 DEF Rows
    <3> QED BY <1>8, <3>1, <3>2
  <2>2. \A k \in Rows : status'[k] = "Failed" => retries'[k] > FailedRetryCount
    BY <1>2, <1>7 DEF ScheduledIsInHand
  <2> QED BY <1>2, <2>1, <2>2 DEF ScheduledIsInHand
<1>14. InvokedOnce'
  BY <1>2, <1>5, <1>8 DEF InvokedOnce
<1> QED BY <1>12, <1>13, <1>14

LEMMA EnqueueOnce ==
    ASSUME CopyInv, OnceParts, NEW n \in Nodes, EnqueueToExecute(n)
    PROVE  OnceParts'
<1> USE DEF OnceParts, rowVars, histVars, Finish
<1>1. /\ handler[n] = "enqueue" /\ queue' = [queue EXCEPT ![n] = Append(@, handledRow[n])]
      /\ handler' = [handler EXCEPT ![n] = "idle"] /\ handledRow' = [handledRow EXCEPT ![n] = 0]
      /\ handled' = [handled EXCEPT ![n] = NoMessage]
      /\ UNCHANGED <<broker, msgOf, status, retries, batch, running, consumed>>
  BY DEF EnqueueToExecute
<1>2. PICK r : r = handledRow[n]
  OBVIOUS
<1>3. r \in Rows /\ r # 0 /\ consumed[r] = 0
  BY <1>1, <1>2, Typed DEF CopyInv, IInv, HandlersSane, InvokedOnce
<1>4. \A k \in Nodes : /\ handledRow'[k] = IF k = n THEN 0 ELSE handledRow[k]
                       /\ handler'[k] = IF k = n THEN "idle" ELSE handler[k]
                       /\ k # n => handled'[k] = handled[k] /\ queue'[k] = queue[k]
  BY <1>1 DEF CopyInv, IInv, TypeOK
<1>5. queue'[n] = Append(queue[n], r) /\ queue[n] \in Seq(Rows)
  BY <1>1, <1>2 DEF CopyInv, IInv, TypeOK
<1>6. /\ Len(queue[n]) + 1 \in DOMAIN queue'[n] /\ queue'[n][Len(queue[n]) + 1] = r
      /\ \A i \in DOMAIN queue[n] : i \in DOMAIN queue'[n] /\ queue'[n][i] = queue[n][i]
      /\ \A i \in DOMAIN queue'[n] : queue'[n][i] = r \/ (i \in DOMAIN queue[n] /\ queue'[n][i] = queue[n][i])
  BY <1>3, <1>5
<1>7. StoredOnce'
  <2>1. \A k \in Nodes : handler'[k] \in {"store", "commit"} => broker'[handled'[k]] = k
    BY <1>1, <1>4 DEF StoredOnce
  <2>2. \A k \in Rows : msgOf'[k] # NoMessage =>
            \/ broker'[msgOf'[k]] = "gone"
            \/ \E o \in Nodes : /\ broker'[msgOf'[k]] = o /\ handler'[o] = "commit"
                                /\ handled'[o] = msgOf'[k]
    BY <1>1, <1>4 DEF StoredOnce
  <2>3. \A j, k \in Rows : msgOf'[j] # NoMessage /\ msgOf'[j] = msgOf'[k] => j = k
    BY <1>1 DEF StoredOnce
  <2> QED BY <2>1, <2>2, <2>3 DEF StoredOnce
<1>8. ScheduledIsInHand'
  <2>1. \A k \in Rows : status'[k] = "Scheduled" =>
            \/ \E o \in Nodes : handledRow'[o] = k
            \/ \E o \in Nodes : \E i \in DOMAIN queue'[o] : queue'[o][i] = k
            \/ \E x \in running' : x.row = k
    <3> SUFFICES ASSUME NEW k \in Rows, status[k] = "Scheduled", ~(\E x \in running : x.row = k)
                 PROVE  \/ \E o \in Nodes : handledRow'[o] = k
                        \/ \E o \in Nodes : \E i \in DOMAIN queue'[o] : queue'[o][i] = k
      BY <1>1
    <3>1. CASE \E o \in Nodes : handledRow[o] = k
      BY <1>2, <1>4, <1>6, <3>1
    <3>2. CASE \E o \in Nodes : \E i \in DOMAIN queue[o] : queue[o][i] = k
      BY <1>4, <1>6, <3>2
    <3> QED BY <3>1, <3>2 DEF ScheduledIsInHand
  <2> QED BY <1>1, <2>1 DEF ScheduledIsInHand
<1>9. InvokedOnce'
  <2>1. \A k \in Nodes : \A i \in DOMAIN queue'[k] : consumed[queue'[k][i]] = 0
    BY <1>3, <1>4, <1>6 DEF InvokedOnce
  <2> QED BY <1>1, <1>4, <2>1 DEF InvokedOnce
<1> QED BY <1>7, <1>8, <1>9

LEMMA TakeOnce ==
    ASSUME CopyInv, OnceParts, NEW n \in Nodes, Take(n)
    PROVE  OnceParts'
<1> USE DEF OnceParts, rowVars, clientVars, histVars
<1>1. PICK y : y = Execution(n, "processing", [row |-> Head(queue[n]), retries |-> 0])
  OBVIOUS
<1>2. /\ queue[n] # <<>> /\ running' = running \union {y}
      /\ queue' = [queue EXCEPT ![n] = Tail(@)]
      /\ UNCHANGED <<broker, handler, handled, handledRow, msgOf, status, retries, batch, consumed>>
  BY <1>1 DEF Take
<1>3. y.row = queue[n][1] /\ y.by = "processing" /\ y.at = "invoke" /\ 1 \in DOMAIN queue[n]
  BY <1>1, <1>2, Typed DEF Execution, CopyInv
<1>4. queue'[n] = Tail(queue[n]) /\ \A k \in Nodes : k # n => queue'[k] = queue[k]
  BY <1>2 DEF CopyInv, IInv, TypeOK
<1>5. queue[n] \in Seq(Rows)
  BY DEF CopyInv, IInv, TypeOK
<1>6. /\ \A i \in DOMAIN queue'[n] : i + 1 \in DOMAIN queue[n] /\ queue'[n][i] = queue[n][i + 1]
      /\ \A i \in DOMAIN queue[n] : i = 1 \/ (i - 1 \in DOMAIN queue'[n] /\ queue'[n][i - 1] = queue[n][i])
  <2>1. PICK s \in Seq(Rows) : s = queue[n] /\ s # <<>> /\ queue'[n] = Tail(s)
    BY <1>2, <1>4, <1>5
  <2>2. /\ \A i \in DOMAIN Tail(s) : i + 1 \in DOMAIN s /\ Tail(s)[i] = s[i + 1]
        /\ \A i \in DOMAIN s : i = 1 \/ (i - 1 \in DOMAIN Tail(s) /\ Tail(s)[i - 1] = s[i])
    BY <2>1
  <2> QED BY <2>1, <2>2
<1>7. StoredOnce'
  BY <1>2 DEF StoredOnce
<1>8. ScheduledIsInHand'
  <2>1. \A k \in Rows : status'[k] = "Scheduled" =>
            \/ \E o \in Nodes : handledRow'[o] = k
            \/ \E o \in Nodes : \E i \in DOMAIN queue'[o] : queue'[o][i] = k
            \/ \E x \in running' : x.row = k
    <3> SUFFICES ASSUME NEW k \in Rows, status[k] = "Scheduled", ~(\E o \in Nodes : handledRow[o] = k),
                        ~(\E x \in running : x.row = k)
                 PROVE  \/ \E o \in Nodes : \E i \in DOMAIN queue'[o] : queue'[o][i] = k
                        \/ y.row = k
      BY <1>2
    <3>1. PICK o \in Nodes : \E i \in DOMAIN queue[o] : queue[o][i] = k
      BY DEF ScheduledIsInHand
    <3>2. PICK i \in DOMAIN queue[o] : queue[o][i] = k
      BY <3>1
    <3>3. CASE o # n
      BY <1>4, <3>2, <3>3
    <3>4. CASE o = n
      BY <1>3, <1>6, <3>2, <3>4
    <3> QED BY <3>3, <3>4
  <2> QED BY <1>2, <1>3, <2>1 DEF ScheduledIsInHand
<1>9. InvokedOnce'
  <2>1. \A k \in Nodes : \A i \in DOMAIN queue'[k] : consumed[queue'[k][i]] = 0
    <3>1. \A i \in DOMAIN queue'[n] : consumed[queue'[n][i]] = 0
      <4> SUFFICES ASSUME NEW i \in DOMAIN queue'[n] PROVE consumed[queue'[n][i]] = 0
        OBVIOUS
      <4>1. PICK j \in DOMAIN queue[n] : queue'[n][i] = queue[n][j]
        BY <1>6
      <4> QED BY <4>1 DEF InvokedOnce
    <3>2. ASSUME NEW k \in Nodes, k # n PROVE \A i \in DOMAIN queue'[k] : consumed[queue'[k][i]] = 0
      BY <1>4, <3>2 DEF InvokedOnce
    <3> QED BY <3>1, <3>2
  <2>2. consumed[y.row] = 0
    BY <1>3 DEF InvokedOnce
  <2> QED BY <1>2, <1>3, <2>1, <2>2 DEF InvokedOnce
<1> QED BY <1>7, <1>8, <1>9

(* The retry scan finds nothing.                                           *)
LEMMA NothingToRetry ==
    ASSUME CopyInv, OnceParts, Timely, NEW n \in Nodes
    PROVE  ~Scan(n) /\ ~PickFromBatch(n)
<1> USE DEF OnceParts, CopyInv, CopyParts
<1>1. ~PickFromBatch(n)
  BY DEF PickFromBatch, ScheduledIsInHand
<1>2. \A r \in Rows : ~NeedRetry(r)
  <2> SUFFICES ASSUME NEW r \in Rows, NeedRetry(r) PROVE FALSE
    OBVIOUS
  <2>1. retries[r] \in Nat /\ FailedRetryCount \in Nat /\ retries[r] < FailedRetryCount /\ old[r]
        /\ status[r] \in {"Scheduled", "Failed"}
    BY RetryAssumption DEF NeedRetry, Unsettled, IInv, TypeOK
  <2>2. status[r] = "Scheduled"
    BY <2>1 DEF ScheduledIsInHand
  <2> QED BY <2>1, <2>2, Typed DEF ScheduledIsInHand, NewOrOld
<1> QED BY <1>1, <1>2 DEF Scan

(* The executor.                                                           *)
LEMMA ExecutionOnce ==
    ASSUME CopyInv, OnceParts, Timely, NEW x \in running, ExecuteAsync(x), NoFaults'
    PROVE  OnceParts'
<1> USE DEF OnceParts, CopyInv, CopyParts
<1>1. /\ UNCHANGED <<clientVars, msgOf, old, queue>>
      /\ \A n \in Nodes : batch'[n] \subseteq batch[n]
  BY ExecutionShape
<1>2. StoredOnce'
  BY <1>1 DEF StoredOnce, clientVars
<1>3. /\ x.row \in Rows /\ x.by = "processing" /\ x \in AllExecutions
      /\ ExecutionSane(x)
      /\ \A z \in running : z.row \in Rows /\ (z.row = x.row => z = x)
  BY RunningTyped DEF ScheduledIsInHand, NewIsOnce, IInv, ExecutionsSane
<1>4. /\ \A n \in Nodes : batch'[n] = {}
      /\ \A n \in Nodes : handledRow'[n] # 0 => handledRow[n] # x.row
      /\ \A n \in Nodes : \A i \in DOMAIN queue'[n] : queue[n][i] # x.row
  BY <1>1, <1>3 DEF ScheduledIsInHand, NewIsOnce, clientVars
<1>5. \A n \in Nodes : /\ handledRow[n] \in Rows \union {0}
                       /\ \A i \in DOMAIN queue[n] : queue[n][i] \in Rows
  BY Typed
<1>6. CASE SubscriberNotFound(x) \/ Invoke(x) \/ SendCallback(x)
  <2>1. UNCHANGED <<status, retries>>
    BY <1>6 DEF SubscriberNotFound, Invoke, SendCallback, rowVars
  <2>2. PICK y : /\ Becomes(x, y) /\ y.row = x.row /\ y.by = x.by /\ y.at # "invoke"
                 /\ y.at = "setFailed" => y.retries > FailedRetryCount
    <3>1. CASE SubscriberNotFound(x)
      <4>1. PICK y : y = [x EXCEPT !.retries = FailedRetryCount + 1, !.at = "setFailed"]
        OBVIOUS
      <4>2. y.row = x.row /\ y.by = x.by /\ y.at = "setFailed" /\ y.retries > FailedRetryCount
        BY <1>3, <4>1, RetryAssumption DEF AllExecutions
      <4> QED BY <3>1, <4>1, <4>2 DEF SubscriberNotFound
    <3>2. CASE Invoke(x) \/ SendCallback(x)
      <4>1. PICK step \in {"callback", "setSucceeded"} : Becomes(x, [x EXCEPT !.at = step])
        BY <3>2 DEF Invoke, GoOn, SendCallback
      <4>2. PICK y : y = [x EXCEPT !.at = step]
        OBVIOUS
      <4>3. y.row = x.row /\ y.by = x.by /\ y.at = step
        BY <1>3, <4>2 DEF AllExecutions
      <4> QED BY <4>1, <4>2, <4>3
    <3> QED BY <1>6, <3>1, <3>2
  <2>3. running' = (running \ {x}) \union {y}
    BY <2>2 DEF Becomes
  <2>4. /\ \A k \in Rows : k # x.row => consumed'[k] = consumed[k]
        /\ consumed'[x.row] <= 1
    <3>1. CASE Invoke(x)
      <4>1. x.at = "invoke" /\ consumed' = [consumed EXCEPT ![x.row] = Lesser(@ + 1, 2)]
        BY <3>1 DEF Invoke
      <4>2. consumed[x.row] = 0
        BY <4>1 DEF InvokedOnce
      <4> QED BY <1>3, <4>1, <4>2 DEF Lesser, IInv, TypeOK
    <3>2. CASE SubscriberNotFound(x) \/ SendCallback(x)
      BY <1>3, <3>2 DEF SubscriberNotFound, SendCallback, histVars, InvokedOnce
    <3> QED BY <1>6, <3>1, <3>2
  <2>5. ScheduledIsInHand'
    <3>1. \A k \in Rows : status'[k] = "Scheduled" =>
              \/ \E o \in Nodes : handledRow'[o] = k
              \/ \E o \in Nodes : \E i \in DOMAIN queue'[o] : queue'[o][i] = k
              \/ \E z \in running' : z.row = k
      BY <1>1, <2>1, <2>2, <2>3 DEF ScheduledIsInHand, clientVars
    <3>2. \A z \in running' : z.by = "processing"
      BY <1>3, <2>2, <2>3 DEF ScheduledIsInHand
    <3> QED BY <1>4, <2>1, <3>1, <3>2 DEF ScheduledIsInHand
  <2>6. InvokedOnce'
    <3>1. \A z \in running' : /\ z.at = "invoke" => consumed'[z.row] = 0
                              /\ z.at = "setFailed" => z.retries > FailedRetryCount
      BY <1>3, <2>2, <2>3, <2>4 DEF InvokedOnce
    <3>2. \A k \in Rows : consumed'[k] <= 1
      BY <2>4 DEF InvokedOnce
    <3>3. \A n \in Nodes : handledRow'[n] # 0 => consumed'[handledRow'[n]] = 0
      BY <1>1, <1>4, <1>5, <2>4 DEF InvokedOnce, clientVars
    <3>4. \A n \in Nodes : \A i \in DOMAIN queue'[n] : consumed'[queue'[n][i]] = 0
      BY <1>1, <1>4, <1>5, <2>4 DEF InvokedOnce
    <3> QED BY <3>1, <3>2, <3>3, <3>4 DEF InvokedOnce
  <2> QED BY <1>2, <2>5, <2>6
<1>7. CASE SetSuccessfulState(x) \/ SetFailedState(x)
  <2>1. /\ running' = running \ {x} /\ UNCHANGED consumed
        /\ \/ Write(x, "Succeeded")
           \/ Write(x, "Failed") /\ x.retries > FailedRetryCount
    <3>1. CASE SetSuccessfulState(x)
      BY <3>1 DEF SetSuccessfulState, histVars
    <3>2. CASE SetFailedState(x)
      <4>1. x.retries > FailedRetryCount
        BY <3>2 DEF SetFailedState, InvokedOnce
      <4>2. ~(x.retries < RetryCount)
        BY <1>3, <4>1, RetryCountBound, RetryAssumption DEF AllExecutions
      <4> QED BY <3>2, <4>1, <4>2 DEF SetFailedState, histVars
    <3> QED BY <1>7, <3>1, <3>2
  <2>2. /\ \A k \in Rows : k # x.row => status'[k] = status[k] /\ retries'[k] = retries[k]
        /\ \/ status'[x.row] \in {"Deleted", "Succeeded"}
           \/ status'[x.row] = "Failed" /\ retries'[x.row] > FailedRetryCount
    BY <1>3, <2>1 DEF Write, IInv, TypeOK
  <2>3. ScheduledIsInHand'
    <3>1. \A k \in Rows : status'[k] = "Scheduled" =>
              \/ \E o \in Nodes : handledRow'[o] = k
              \/ \E o \in Nodes : \E i \in DOMAIN queue'[o] : queue'[o][i] = k
              \/ \E z \in running' : z.row = k
      BY <1>1, <2>1, <2>2 DEF ScheduledIsInHand, clientVars
    <3>2. \A k \in Rows : status'[k] = "Failed" => retries'[k] > FailedRetryCount
      BY <2>2 DEF ScheduledIsInHand
    <3> QED BY <1>4, <2>1, <3>1, <3>2 DEF ScheduledIsInHand
  <2>4. InvokedOnce'
    BY <1>1, <2>1 DEF InvokedOnce, clientVars
  <2> QED BY <1>2, <2>3, <2>4
<1> QED BY <1>6, <1>7, FaultySteps DEF ExecuteAsync

(* Time and the collector.                                                 *)
LEMMA RowOnce ==
    ASSUME CopyInv, OnceParts, NEW r \in Rows, Age(r) \/ Expire(r) \/ Collect(r)
    PROVE  OnceParts'
<1> USE DEF OnceParts, clientVars, memVars, histVars
<1>1. UNCHANGED <<broker, handler, handled, handledRow, msgOf, retries, queue, batch, running, consumed>>
  BY DEF Age, Expire, Collect
<1>2. \A k \in Rows : status'[k] = status[k] \/ status'[k] = "Deleted"
  BY DEF Age, Expire, Collect, CopyInv, IInv, TypeOK
<1>3. StoredOnce' /\ InvokedOnce'
  BY <1>1 DEF StoredOnce, InvokedOnce
<1>4. ScheduledIsInHand'
  BY <1>1, <1>2 DEF ScheduledIsInHand
<1> QED BY <1>3, <1>4

LEMMA NoFaultsBefore == IInv /\ [Next]_vars /\ NoFaults' => NoFaults
<1> SUFFICES ASSUME IInv, [Next]_vars, NoFaults'
             PROVE  NoFaults
  OBVIOUS
<1> DEFINE Counted ==
               \/ UNCHANGED faultVars
               \/ failures' = failures + 1 /\ UNCHANGED <<dbFaults, brokerFaults, crashes>>
               \/ dbFaults' = dbFaults + 1 /\ UNCHANGED <<failures, brokerFaults, crashes>>
               \/ brokerFaults' = brokerFaults + 1 /\ UNCHANGED <<failures, dbFaults, crashes>>
               \/ crashes' = crashes + 1 /\ UNCHANGED <<failures, dbFaults, brokerFaults>>
<1>1. ASSUME NEW n \in Nodes, NodeStep(n) PROVE Counted
  BY <1>1 DEF NodeStep, HandlerStep, Start, Delivery, Deliver, IdThrows, StoreMessage, Reject, Commit,
              CommitFails, EnqueueToExecute, Take, Scan, PickFromBatch, Crash
<1>2. ASSUME NEW x \in running, ExecuteAsync(x) PROVE Counted
  BY <1>2 DEF ExecuteAsync, SubscriberNotFound, Invoke, InvokeSwallows, SendCallback, InvokeThrows,
              SetSuccessfulState, SetSuccessfulStateThrows, SetFailedState, SetFailedStateThrows
<1>3. ASSUME NEW r \in Rows, Age(r) \/ Expire(r) \/ Collect(r) PROVE Counted
  BY <1>3 DEF Age, Expire, Collect
<1>4. ASSUME NEW m \in Messages, Arrive(m) PROVE Counted
  BY <1>4 DEF Arrive
<1>5. ASSUME UNCHANGED vars PROVE Counted
  BY <1>5 DEF vars, faultVars
<1> HIDE DEF Counted
<1>6. Counted
  BY <1>1, <1>2, <1>3, <1>4, <1>5 DEF Next
<1> QED BY <1>6, FaultsAreCounted DEF Counted

LEMMA OnceInductive == OnceInv /\ [Next]_vars => OnceInv'
<1> SUFFICES ASSUME OnceInv, [Next]_vars, Timely, NoFaults'
             PROVE  OnceParts'
  BY CopyInductive DEF OnceInv
<1>1. CopyInv /\ IInv /\ OnceParts
  BY NoFaultsBefore DEF OnceInv, CopyInv
<1>2. CASE UNCHANGED vars
  BY <1>1, <1>2
  DEF vars, clientVars, rowVars, memVars, histVars, OnceParts, StoredOnce, ScheduledIsInHand, InvokedOnce
<1>3. ASSUME NEW n \in Nodes, NodeStep(n) PROVE OnceParts'
  BY <1>1, <1>3, ClientOnce, StoreOnce, EnqueueOnce, TakeOnce, NothingToRetry, FaultySteps
  DEF NodeStep, HandlerStep
<1>4. ASSUME NEW x \in running, ExecuteAsync(x) PROVE OnceParts'
  BY <1>1, <1>4, ExecutionOnce
<1>5. ASSUME NEW r \in Rows, Age(r) \/ Expire(r) \/ Collect(r) PROVE OnceParts'
  BY <1>1, <1>5, RowOnce
<1>6. ASSUME NEW m \in Messages, Arrive(m) PROVE OnceParts'
  BY <1>1, <1>6, ArriveOnce
<1> QED BY <1>2, <1>3, <1>4, <1>5, <1>6 DEF Next

(* Timely and without failures and crashes: the subscriber's method        *)
(* returns once for a message, over all its rows and on all nodes.         *)
THEOREM MessagesConsumedOnce == Timely => (Spec => []ConsumedOnce)
<1> SUFFICES ASSUME Timely PROVE Spec => []ConsumedOnce
  OBVIOUS
<1>1. OnceInv => ConsumedOnce
  <2> SUFFICES ASSUME CopyInv, OnceParts, NoFaults
               PROVE  /\ \A r \in Rows : consumed[r] <= 1
                      /\ \A r, k \in Rows :
                             consumed[r] > 0 /\ consumed[k] > 0 /\ msgOf[r] = msgOf[k] => r = k
    BY DEF OnceInv, ConsumedOnce, NoFaults
  <2>1. \A r \in Rows : consumed[r] > 0 => msgOf[r] # NoMessage
    BY DEF CopyInv, IInv, RowsSane, Invoked
  <2> QED BY <2>1 DEF OnceParts, InvokedOnce, StoredOnce
<1> QED BY <1>1, OnceInitial, OnceInductive, PTL DEF Spec
=============================================================================
