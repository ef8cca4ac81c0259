-------------------------- MODULE MessageReceiving --------------------------
(***************************************************************************)
(* The receiving half of CAP on every node of the application: the         *)
(* RabbitMQ consumer client and the handler ConsumerRegister gives it, the *)
(* dispatcher's queue and its Processing loop, the subscriber executor,    *)
(* the NeedRetry scan of the Received table and the collector.             *)
(*                                                                         *)
(* The handler stores a row, acknowledges the message and queues it, in    *)
(* this order.  The executor invokes the subscriber's method, publishes    *)
(* the callback message if one is named, and writes the state.  Processing *)
(* does not wait for an execution, so several run at a time.  A method     *)
(* that throws makes the execution fail, except for a FormatException,     *)
(* which the invoker swallows: that execution succeeds.                    *)
(***************************************************************************)
EXTENDS Integers, Sequences, FiniteSets

CONSTANTS
    Messages,            \* messages that may be routed to the queue of the group
    NoMessage,           \* no message is being handled; no row
    Subscribed,          \* messages whose topic has a subscriber
    Answered,            \* messages that name a callback topic
    Nodes,               \* processes of the same group, table and version
    FailedRetryCount,    \* CapOptions.FailedRetryCount
    DefaultRetryCount,   \* RetryBehavior.DefaultRetryCount, 3 in the code
    MaxArrivals,         \* bound: messages that are routed
    MaxRows,             \* bound: rows of the Received table
    Timely,              \* no copy in memory is older than four minutes (see Age)
    RetriesInTime,       \* no row expires that is still to be retried (see Expire)
    StartsFirst,         \* are the subscribers found before the first scan? (see Scan)
    MaxFailures,         \* bound: failing subscriber methods and callbacks, wrong formats
    MaxDbFaults,         \* bound: inserts and state writes the database refuses
    MaxBrokerFaults,     \* bound: deliveries left unanswered and acknowledgements lost
    MaxCrashes,          \* bound: crashes of nodes
    MaxFaults            \* bound: faults of the last three kinds together

ASSUME MessageAssumption == NoMessage \notin Messages
ASSUME NodeAssumption == Nodes \intersect {"unsent", "queued", "gone"} = {}
ASSUME SubscriberAssumption == Subscribed \subseteq Messages /\ Answered \subseteq Subscribed
ASSUME RetryAssumption == FailedRetryCount \in Nat \ {0} /\ DefaultRetryCount \in Nat \ {0}
ASSUME FlagAssumption == Timely \in BOOLEAN /\ RetriesInTime \in BOOLEAN /\ StartsFirst \in BOOLEAN
ASSUME BoundAssumption == /\ MaxArrivals \in Nat /\ MaxRows \in Nat /\ MaxFailures \in Nat /\ MaxDbFaults \in Nat
                          /\ MaxBrokerFaults \in Nat /\ MaxCrashes \in Nat
                          /\ MaxFaults \in Nat

VARIABLES
    broker,       \* each message: "unsent", "queued", unacknowledged at a node, or "gone"
    entries,      \* the nodes whose MethodMatcherCache is filled
    handler,      \* per node: where OnMessageReceived stands
    handled,      \* per node: the message it handles
    handledRow,   \* per node: the row it stored, 0 before
    msgOf,        \* the message of each row, NoMessage for a row not inserted
    status, retries, expiry, old,    \* the columns of each row, see MessageDelivery
    queue,        \* per node: Dispatcher._receivedMessageQueue
    batch,        \* per node: the copies the scan has yet to execute
    running,      \* the executions: records [node, by, row, retries, at]
    consumed,     \* per row: times the subscriber's method returned, to 2
    swallowed,    \* rows for which the invoker swallowed a FormatException
    answered,     \* rows whose callback message was published
    reported,     \* rows FailedThresholdCallback was called for
    failures, dbFaults, brokerFaults, crashes

clientVars == <<broker, entries, handler, handled, handledRow>>
rowVars == <<msgOf, status, retries, expiry, old>>
memVars == <<queue, batch, running>>
histVars == <<consumed, swallowed, answered, reported>>
faultVars == <<failures, dbFaults, brokerFaults, crashes>>
vars == <<clientVars, rowVars, memVars, histVars, faultVars>>

Rows == 1 .. MaxRows
Executors == {"processing", "needRetry"}
Lesser(a, b) == IF a < b THEN a ELSE b
RetryCount == Lesser(FailedRetryCount, DefaultRetryCount)

(* What a node has of row r: its place in the queue, its copy in a batch,  *)
(* its executions.                                                         *)
Queued(r) == UNION {{n} \X {i \in DOMAIN queue[n] : queue[n][i] = r} : n \in Nodes}
Fetched(r) == {n \in Nodes : \E c \in batch[n] : c.row = r}
Executions(r) == {x \in running : x.row = r}
Handling(r) == \E n \in Nodes : handledRow[n] = r
InMemory(r) == Handling(r) \/ Queued(r) # {} \/ Fetched(r) # {} \/ Executions(r) # {}

(* MethodMatcherCache.TryGetTopicExecutor, on the node of execution x.     *)
Found(x) == x.node \in entries /\ msgOf[x.row] \in Subscribed

(* Mutant of Unsettled: the condition on Retries is dropped.               *)
Unsettled_NoLimit(r) == status[r] \in {"Scheduled", "Failed"}

(* GetReceivedMessagesOfNeedRetry, with the condition on Added apart.      *)
Unsettled(r) == status[r] \in {"Scheduled", "Failed"} /\ retries[r] < FailedRetryCount

(* Mutant of NeedRetry: the condition on Added is dropped.                 *)
NeedRetry_AnyAge(r) == Unsettled(r)

NeedRetry(r) == Unsettled(r) /\ old[r]

MayFail == dbFaults + brokerFaults + crashes < MaxFaults

Init ==
    /\ broker = [m \in Messages |-> "unsent"]
    /\ entries = {}
    /\ handler = [n \in Nodes |-> "idle"]
    /\ handled = [n \in Nodes |-> NoMessage]
    /\ handledRow = [n \in Nodes |-> 0]
    /\ msgOf = [r \in Rows |-> NoMessage]
    /\ status = [r \in Rows |-> "Absent"]
    /\ retries = [r \in Rows |-> 0]
    /\ expiry = [r \in Rows |-> "null"]
    /\ old = [r \in Rows |-> FALSE]
    /\ queue = [n \in Nodes |-> <<>>]
    /\ batch = [n \in Nodes |-> {}]
    /\ running = {}
    /\ consumed = [r \in Rows |-> 0]
    /\ swallowed = {}
    /\ answered = {}
    /\ reported = {}
    /\ failures = 0 /\ dbFaults = 0 /\ brokerFaults = 0 /\ crashes = 0

-----------------------------------------------------------------------------
(* ConsumerRegister.Start and the handler of received messages             *)

(* Start finds the subscribers and fills the cache.                        *)
Start(n) ==
    /\ n \notin entries
    /\ entries' = entries \union {n}
    /\ UNCHANGED <<broker, handler, handled, handledRow, rowVars, memVars, histVars, faultVars>>

(* The broker routes a message to the queue, which is durable.             *)
Arrive(m) ==
    /\ broker[m] = "unsent"
    /\ Cardinality({k \in Messages : broker[k] # "unsent"}) < MaxArrivals
    /\ broker' = [broker EXCEPT ![m] = "queued"]
    /\ UNCHANGED <<entries, handler, handled, handledRow, rowVars, memVars, histVars, faultVars>>

(* Mutant of Deliver: the consumer asks for automatic acknowledgement.     *)
Deliver_AutoAck(n, m) ==
    /\ n \in entries /\ handler[n] = "idle" /\ broker[m] = "queued"
    /\ broker' = [broker EXCEPT ![m] = "gone"]
    /\ handled' = [handled EXCEPT ![n] = m]
    /\ handler' = [handler EXCEPT ![n] = "store"]
    /\ UNCHANGED <<entries, handledRow, rowVars, memVars, histVars, faultVars>>

(* The broker delivers a message to the client a node listens with; the    *)
(* client calls its handler for one message at a time.                     *)
Deliver(n, m) ==
    /\ n \in entries /\ handler[n] = "idle" /\ broker[m] = "queued"
    /\ broker' = [broker EXCEPT ![m] = n]
    /\ handled' = [handled EXCEPT ![n] = m]
    /\ handler' = [handler EXCEPT ![n] = "store"]
    /\ UNCHANGED <<entries, handledRow, rowVars, memVars, histVars, faultVars>>

(* The handler is done with its message.                                   *)
Finish(n) == /\ handler' = [handler EXCEPT ![n] = "idle"]
             /\ handled' = [handled EXCEPT ![n] = NoMessage]
             /\ handledRow' = [handledRow EXCEPT ![n] = 0]

(* NextId throws because the clock was set back (SnowflakeId), outside the *)
(* handler's try: the delivery is neither acknowledged nor rejected and    *)
(* stays with the node until its channel closes.                           *)
IdThrows(n) ==
    /\ handler[n] = "store" /\ MayFail /\ brokerFaults < MaxBrokerFaults
    /\ brokerFaults' = brokerFaults + 1
    /\ Finish(n)
    /\ UNCHANGED <<broker, entries, rowVars, memVars, histVars, failures, dbFaults, crashes>>

StoreMessage(n) ==
    /\ handler[n] = "store"
    /\ \E r \in Rows :
          /\ msgOf[r] = NoMessage /\ \A k \in Rows : k < r => msgOf[k] # NoMessage
          /\ msgOf' = [msgOf EXCEPT ![r] = handled[n]]
          /\ status' = [status EXCEPT ![r] = "Scheduled"]
          /\ handledRow' = [handledRow EXCEPT ![n] = r]
    /\ handler' = [handler EXCEPT ![n] = "commit"]
    /\ UNCHANGED <<broker, entries, handled, retries, expiry, old, memVars, histVars, faultVars>>

(* Mutant of Reject: the message is rejected without being requeued.       *)
Reject_Drops(n) ==
    /\ handler[n] = "store" /\ MayFail /\ dbFaults < MaxDbFaults
    /\ dbFaults' = dbFaults + 1
    /\ broker' = [broker EXCEPT ![handled[n]] = "gone"]
    /\ Finish(n)
    /\ UNCHANGED <<entries, rowVars, memVars, histVars, failures, brokerFaults, crashes>>

(* The insert throws and the handler rejects the message, which goes back  *)
(* to the queue.                                                           *)
Reject(n) ==
    /\ handler[n] = "store" /\ MayFail /\ dbFaults < MaxDbFaults
    /\ dbFaults' = dbFaults + 1
    /\ broker' = [broker EXCEPT ![handled[n]] = "queued"]
    /\ Finish(n)
    /\ UNCHANGED <<entries, rowVars, memVars, histVars, failures, brokerFaults, crashes>>

Commit(n) ==
    /\ handler[n] = "commit"
    /\ broker' = [broker EXCEPT ![handled[n]] = "gone"]
    /\ handler' = [handler EXCEPT ![n] = "enqueue"]
    /\ UNCHANGED <<entries, handled, handledRow, rowVars, memVars, histVars, faultVars>>

(* The acknowledgement does not reach the broker, which delivers the       *)
(* message again.  BasicAck throws when it finds the channel closed, and   *)
(* Reject does too: the row stays and is not queued.  Or it only wrote to  *)
(* a connection that is breaking, and the handler goes on.                 *)
CommitFails(n) ==
    /\ handler[n] = "commit" /\ MayFail /\ brokerFaults < MaxBrokerFaults
    /\ brokerFaults' = brokerFaults + 1
    /\ broker' = [broker EXCEPT ![handled[n]] = "queued"]
    /\ \/ Finish(n)
       \/ handler' = [handler EXCEPT ![n] = "enqueue"] /\ UNCHANGED <<handled, handledRow>>
    /\ UNCHANGED <<entries, rowVars, memVars, histVars, failures, dbFaults, crashes>>

EnqueueToExecute(n) ==
    /\ handler[n] = "enqueue"
    /\ queue' = [queue EXCEPT ![n] = Append(@, handledRow[n])]
    /\ Finish(n)
    /\ UNCHANGED <<broker, entries, rowVars, batch, running, histVars, faultVars>>

-----------------------------------------------------------------------------
(* Where executions come from                                              *)

Execution(n, by, c) == [node |-> n, by |-> by, row |-> c.row, retries |-> c.retries, at |-> "invoke"]

(* Mutant of Take: the row stays in the queue.                             *)
Take_Peeks(n) ==
    /\ queue[n] # <<>>
    /\ running' = running \union
                     {Execution(n, "processing", [row |-> Head(queue[n]), retries |-> 0])}
    /\ UNCHANGED <<clientVars, rowVars, queue, batch, histVars, faultVars>>

(* Dispatcher.Processing starts ExecuteAsync for the next row and does not *)
(* await it.                                                               *)
Take(n) ==
    /\ queue[n] # <<>>
    /\ running' = running \union
                     {Execution(n, "processing", [row |-> Head(queue[n]), retries |-> 0])}
    /\ queue' = [queue EXCEPT ![n] = Tail(@)]
    /\ UNCHANGED <<clientVars, rowVars, batch, histVars, faultVars>>

RetryIsIdle(n) == \A x \in running : ~(x.node = n /\ x.by = "needRetry")

(* NeedRetryMessageProcessor.  Its server is started before the register,  *)
(* and only the time its first query takes keeps the scan behind Start.    *)
Scan(n) ==
    /\ StartsFirst => n \in entries
    /\ RetryIsIdle(n) /\ batch[n] = {}
    /\ \E r \in Rows : NeedRetry(r)
    /\ batch' = [batch EXCEPT ![n] =
                    {[row |-> r, retries |-> retries[r]] : r \in {k \in Rows : NeedRetry(k)}}]
    /\ UNCHANGED <<clientVars, rowVars, queue, running, histVars, faultVars>>

PickFromBatch(n) ==
    /\ RetryIsIdle(n)
    /\ \E c \in batch[n] :
          /\ running' = running \union {Execution(n, "needRetry", c)}
          /\ batch' = [batch EXCEPT ![n] = @ \ {c}]
    /\ UNCHANGED <<clientVars, rowVars, queue, histVars, faultVars>>

-----------------------------------------------------------------------------
(* DefaultSubscriberExecutor.ExecuteAsync                                  *)

Becomes(x, y) == running' = (running \ {x}) \union {y}

(* ExecuteAsync throws: Processing does not observe it, the retry scan     *)
(* abandons the rest of its batch.                                         *)
Abandon(x) == /\ running' = running \ {x}
              /\ batch' = IF x.by = "needRetry" THEN [batch EXCEPT ![x.node] = {}] ELSE batch

(* Mutant of Fail: the callback waits for more than FailedRetryCount       *)
(* failures.                                                               *)
Fail_ReportsLater(x) ==
    LET count == x.retries + 1 IN
    /\ Becomes(x, [x EXCEPT !.retries = count, !.at = "setFailed"])
    /\ reported' = IF count > FailedRetryCount THEN reported \union {x.row} ELSE reported

(* SetFailedState up to the write: UpdateMessageForRetry counts the        *)
(* failure and reports the last one.                                       *)
Fail(x) ==
    LET count == x.retries + 1 IN
    /\ Becomes(x, [x EXCEPT !.retries = count, !.at = "setFailed"])
    /\ reported' = IF count >= RetryCount /\ count = FailedRetryCount
                   THEN reported \union {x.row} ELSE reported

(* No subscriber: Retries is set to FailedRetryCount, then incremented.    *)
SubscriberNotFound(x) ==
    /\ x.at = "invoke" /\ ~Found(x)
    /\ Becomes(x, [x EXCEPT !.retries = FailedRetryCount + 1, !.at = "setFailed"])
    /\ UNCHANGED <<clientVars, rowVars, queue, batch, histVars, faultVars>>

(* What ExecuteAsync does after InvokeAsync came back.                     *)
GoOn(x) == Becomes(x, [x EXCEPT !.at = IF msgOf[x.row] \in Answered THEN "callback"
                                                                   ELSE "setSucceeded"])

(* Mutant of Invoke: the callback message is forgotten.                    *)
Invoke_ForgetsCallback(x) ==
    /\ x.at = "invoke" /\ Found(x)
    /\ consumed' = [consumed EXCEPT ![x.row] = Lesser(@ + 1, 2)]
    /\ Becomes(x, [x EXCEPT !.at = "setSucceeded"])
    /\ UNCHANGED <<clientVars, rowVars, queue, batch, swallowed, answered, reported, faultVars>>

(* The subscriber's method returns.                                        *)
Invoke(x) ==
    /\ x.at = "invoke" /\ Found(x)
    /\ consumed' = [consumed EXCEPT ![x.row] = Lesser(@ + 1, 2)]
    /\ GoOn(x)
    /\ UNCHANGED <<clientVars, rowVars, queue, batch, swallowed, answered, reported, faultVars>>

(* The binder or the method itself throws a FormatException.  The invoker  *)
(* logs it and comes back with null, as if the method had returned that.   *)
InvokeSwallows(x) ==
    /\ x.at = "invoke" /\ Found(x)
    /\ failures < MaxFailures
    /\ failures' = failures + 1
    /\ swallowed' = swallowed \union {x.row}
    /\ GoOn(x)
    /\ UNCHANGED <<clientVars, rowVars, queue, batch, consumed, answered, reported,
                   dbFaults, brokerFaults, crashes>>

(* CallbackMessageSender publishes the answer, with a publisher and a row  *)
(* of its own (CapTransaction models that call).                           *)
SendCallback(x) ==
    /\ x.at = "callback"
    /\ answered' = answered \union {x.row}
    /\ Becomes(x, [x EXCEPT !.at = "setSucceeded"])
    /\ UNCHANGED <<clientVars, rowVars, queue, batch, consumed, swallowed, reported, faultVars>>

(* The method throws anything else, it cannot be called, or the callback   *)
(* message cannot be published.                                            *)
InvokeThrows(x) ==
    /\ \/ x.at = "invoke" /\ Found(x)
       \/ x.at = "callback"
    /\ failures < MaxFailures
    /\ failures' = failures + 1
    /\ Fail(x)
    /\ UNCHANGED <<clientVars, rowVars, queue, batch, consumed, swallowed, answered, dbFaults,
                   brokerFaults, crashes>>

(* The row becomes what the copy says; a row that is gone stays gone.      *)
Write(x, state) ==
    IF status[x.row] = "Deleted"
    THEN UNCHANGED <<status, retries, expiry>>
    ELSE /\ status' = [status EXCEPT ![x.row] = state]
         /\ retries' = [retries EXCEPT ![x.row] = x.retries]
         /\ expiry' = [expiry EXCEPT ![x.row] = "future"]

SetSuccessfulState(x) ==
    /\ x.at = "setSucceeded"
    /\ Write(x, "Succeeded")
    /\ running' = running \ {x}
    /\ UNCHANGED <<clientVars, msgOf, old, queue, batch, histVars, faultVars>>

(* The write throws inside the try block: the execution counts as failed.  *)
SetSuccessfulStateThrows(x) ==
    /\ x.at = "setSucceeded" /\ MayFail /\ dbFaults < MaxDbFaults
    /\ dbFaults' = dbFaults + 1
    /\ Fail(x)
    /\ UNCHANGED <<clientVars, rowVars, queue, batch, consumed, swallowed, answered, failures,
                   brokerFaults, crashes>>

SetFailedState(x) ==
    /\ x.at = "setFailed"
    /\ Write(x, "Failed")
    /\ IF x.retries < RetryCount THEN Becomes(x, [x EXCEPT !.at = "invoke"])
                                 ELSE running' = running \ {x}
    /\ UNCHANGED <<clientVars, msgOf, old, queue, batch, histVars, faultVars>>

SetFailedStateThrows(x) ==
    /\ x.at = "setFailed" /\ MayFail /\ dbFaults < MaxDbFaults
    /\ dbFaults' = dbFaults + 1
    /\ Abandon(x)
    /\ UNCHANGED <<clientVars, rowVars, queue, histVars, failures, brokerFaults, crashes>>

-----------------------------------------------------------------------------
(* Time, the collector and crashes                                         *)

(* Four minutes have passed since the row was added.  Timely: by then it   *)
(* is out of the memory of all nodes, so no subscriber runs that long.     *)
Age(r) ==
    /\ status[r] # "Absent" /\ ~old[r]
    /\ Timely => ~InMemory(r)
    /\ old' = [old EXCEPT ![r] = TRUE]
    /\ UNCHANGED <<clientVars, msgOf, status, retries, expiry, memVars, histVars, faultVars>>

(* ExpiresAt passes.  Timely: no copy is as old as that.  RetriesInTime:   *)
(* the retries of a row do not pause for so long; the code sees to neither.*)
Expire(r) ==
    /\ expiry[r] = "future" /\ status[r] # "Deleted"
    /\ Timely => ~InMemory(r)
    /\ RetriesInTime => ~Unsettled(r)
    /\ expiry' = [expiry EXCEPT ![r] = "past"]
    /\ UNCHANGED <<clientVars, msgOf, status, retries, old, memVars, histVars, faultVars>>

(* Mutant of Collect: rows are deleted by the time they were added.        *)
Collect_ByAge(r) ==
    /\ old[r] /\ status[r] # "Deleted"
    /\ status' = [status EXCEPT ![r] = "Deleted"]
    /\ UNCHANGED <<clientVars, msgOf, retries, expiry, old, memVars, histVars, faultVars>>

Collect(r) ==
    /\ expiry[r] = "past" /\ status[r] # "Deleted"
    /\ status' = [status EXCEPT ![r] = "Deleted"]
    /\ UNCHANGED <<clientVars, msgOf, retries, expiry, old, memVars, histVars, faultVars>>

(* A node dies and starts again: the broker requeues what it had not       *)
(* acknowledged, its memory is lost.                                       *)
Crash(n) ==
    /\ MayFail /\ crashes < MaxCrashes
    /\ crashes' = crashes + 1
    /\ broker' = [m \in Messages |-> IF broker[m] = n THEN "queued" ELSE broker[m]]
    /\ entries' = entries \ {n}
    /\ Finish(n)
    /\ queue' = [queue EXCEPT ![n] = <<>>]
    /\ batch' = [batch EXCEPT ![n] = {}]
    /\ running' = {x \in running : x.node # n}
    /\ UNCHANGED <<rowVars, histVars, failures, dbFaults, brokerFaults>>

-----------------------------------------------------------------------------
HandlerStep(n) ==
    \/ IdThrows(n) \/ StoreMessage(n) \/ Reject(n)
    \/ Commit(n) \/ CommitFails(n) \/ EnqueueToExecute(n)

ExecuteAsync(x) ==
    \/ SubscriberNotFound(x) \/ Invoke(x) \/ InvokeSwallows(x) \/ InvokeThrows(x)
    \/ SendCallback(x)
    \/ SetSuccessfulState(x) \/ SetSuccessfulStateThrows(x)
    \/ SetFailedState(x) \/ SetFailedStateThrows(x)

Delivery(n) == \E m \in Messages : Deliver(n, m)
ExecutionStep(n, by, r) ==
    \E x \in running : x.node = n /\ x.by = by /\ x.row = r /\ ExecuteAsync(x)

NodeStep(n) ==
    \/ Start(n) \/ Delivery(n) \/ HandlerStep(n)
    \/ Take(n) \/ Scan(n) \/ PickFromBatch(n) \/ Crash(n)

Next ==
    \/ \E n \in Nodes : NodeStep(n)
    \/ \E x \in running : ExecuteAsync(x)
    \/ \E r \in Rows : Age(r) \/ Expire(r) \/ Collect(r)
    \/ \E m \in Messages : Arrive(m)

Spec == Init /\ [][Next]_vars

(* The register is started, the broker delivers what is queued, threads    *)
(* run, the subscribers' methods come back, and time passes.               *)
FairSpec ==
    /\ Spec
    /\ \A n \in Nodes :
          /\ WF_vars(Start(n)) /\ WF_vars(Delivery(n)) /\ WF_vars(HandlerStep(n))
          /\ WF_vars(Take(n)) /\ WF_vars(Scan(n)) /\ WF_vars(PickFromBatch(n))
    /\ \A n \in Nodes, by \in Executors, r \in Rows : WF_vars(ExecutionStep(n, by, r))
    /\ \A r \in Rows : WF_vars(Age(r))

-----------------------------------------------------------------------------
(* Properties                                                              *)

Copies == [row : Rows, retries : 0 .. FailedRetryCount - 1]

TypeOK ==
    /\ broker \in [Messages -> {"unsent", "queued", "gone"} \union Nodes]
    /\ entries \subseteq Nodes
    /\ handler \in [Nodes -> {"idle", "store", "commit", "enqueue"}]
    /\ handled \in [Nodes -> Messages \union {NoMessage}]
    /\ handledRow \in [Nodes -> Rows \union {0}]
    /\ msgOf \in [Rows -> Messages \union {NoMessage}]
    /\ status \in [Rows -> {"Absent", "Scheduled", "Failed", "Succeeded", "Deleted"}]
    /\ retries \in [Rows -> 0 .. FailedRetryCount + 1]
    /\ expiry \in [Rows -> {"null", "future", "past"}]
    /\ old \in [Rows -> BOOLEAN]
    /\ queue \in [Nodes -> Seq(Rows)]
    /\ batch \in [Nodes -> SUBSET Copies]
    /\ running \subseteq [node : Nodes, by : Executors, row : Rows,
                          retries : 0 .. FailedRetryCount + 1,
                          at : {"invoke", "callback", "setSucceeded", "setFailed"}]
    /\ consumed \in [Rows -> 0 .. 2]
    /\ swallowed \subseteq Rows
    /\ answered \subseteq Rows
    /\ reported \subseteq Rows
    /\ failures \in 0 .. MaxFailures
    /\ dbFaults \in 0 .. MaxDbFaults
    /\ brokerFaults \in 0 .. MaxBrokerFaults
    /\ crashes \in 0 .. MaxCrashes

(* A message the broker has let go of has a row: it is acknowledged after  *)
(* it was stored, so no crash and no failing insert loses it.              *)
AckedIsStored ==
    \A m \in Messages : broker[m] = "gone" => \E r \in Rows : msgOf[r] = m

(* The invoker came back for row r: the method returned, or a              *)
(* FormatException of it was swallowed.                                    *)
Invoked(r) == consumed[r] > 0 \/ r \in swallowed

(* A row says Succeeded only when the subscriber's method returned, or was *)
(* given up over a FormatException, and the callback message it names was  *)
(* published, whichever copy wrote it.                                     *)
SucceededWasInvoked ==
    \A r \in Rows : status[r] = "Succeeded" =>
        /\ Invoked(r)
        /\ msgOf[r] \in Answered => r \in answered

(* A row whose retries are used up was reported.                           *)
ThresholdIsReported == \A r \in Rows : retries[r] = FailedRetryCount => r \in reported

(* Without failures and crashes a message is consumed once: over all its   *)
(* rows, the queue and the retry scan never both execute one.              *)
ConsumedOnce ==
    failures + dbFaults + brokerFaults + crashes = 0 =>
        /\ \A r \in Rows : consumed[r] <= 1
        /\ \A r, k \in Rows : consumed[r] > 0 /\ consumed[k] > 0 /\ msgOf[r] = msgOf[k] => r = k

(* On a node, a row is executed by one execution at a time, which is not   *)
(* also waiting in the queue or in a batch.                                *)
OneCopy ==
    \A n \in Nodes, r \in Rows :
        Cardinality({i \in DOMAIN queue[n] : queue[n][i] = r})
            + Cardinality({c \in batch[n] : c.row = r})
            + Cardinality({x \in running : x.node = n /\ x.row = r}) <= 1

(* Only a message without a subscriber is given up: the retry of any other *)
(* message goes on until it succeeds or FailedRetryCount is reached.       *)
GivenUpHasNoSubscriber ==
    \A r \in Rows : retries[r] > FailedRetryCount => msgOf[r] \notin Subscribed

(* The rows keep the promise of the outbox, with the invoker in the place  *)
(* of the broker: a row is deleted only when the method returned, when its *)
(* FormatException was swallowed and logged, or when its failures were     *)
(* reported.  A row without a subscriber is owed nothing and deleted in    *)
(* the end.                                                                *)
Owed(r) == msgOf[r] \in Subscribed

Promise == INSTANCE Outbox WITH
    Messages <- Rows,
    stored <- {r \in Rows : Owed(r)},
    sent <- {r \in Rows : Invoked(r)},
    reported <- reported,
    removed <- {r \in Rows : Owed(r) /\ status[r] = "Deleted"}

ImplementsOutbox == Promise!Spec

(* The broker waits for an answer to m that no handler will give.          *)
Unanswered(m) == broker[m] \in Nodes /\ handled[broker[m]] # m

(* Every message the broker routes to a subscriber is consumed, given up   *)
(* over a FormatException or reported, unless its delivery was left        *)
(* without an answer and no crash closes the channel.                      *)
SettlesEveryMessage ==
    \A m \in Subscribed :
        \/ broker[m] = "queued"
              ~> \E r \in Rows : msgOf[r] = m /\ (Invoked(r) \/ r \in reported)
        \/ <>[]Unanswered(m)

=============================================================================
