--------------------------- MODULE MessageDelivery --------------------------
(***************************************************************************)
(* The sending half of the outbox, on every node of the application: the   *)
(* dispatcher's in-memory queue, its Sending loop, the NeedRetry scan of   *)
(* the Published table, the sender's retry loop and the collector of       *)
(* expired rows.  The nodes share the table, nothing else.                 *)
(*                                                                         *)
(* Each worker sends from a copy of the row it took earlier and writes     *)
(* that copy back unconditionally.  A worker's call is split at the        *)
(* broker's answer and at the database write after it.                     *)
(***************************************************************************)
EXTENDS Integers, Sequences, FiniteSets

CONSTANTS
    Messages,            \* rows of the Published table
    NoMessage,           \* a worker without a message
    Nodes,               \* processes running CAP on the same table and version
    FailedRetryCount,    \* CapOptions.FailedRetryCount
    DefaultRetryCount,   \* RetryBehavior.DefaultRetryCount, 3 in the code
    Timely,              \* no copy in memory is older than four minutes (see Age)
    RetriesInTime,       \* no row expires that is still to be retried (see Expire)
    MaxBrokerFaults,     \* bound: sends the broker refuses
    MaxDbFaults,         \* bound: state writes the database refuses
    MaxCrashes           \* bound: crashes of nodes

ASSUME NoMessageAssumption == NoMessage \notin Messages
ASSUME RetryAssumption == FailedRetryCount \in Nat \ {0} /\ DefaultRetryCount \in Nat \ {0}
ASSUME FlagAssumption == Timely \in BOOLEAN /\ RetriesInTime \in BOOLEAN
ASSUME FaultAssumption == MaxBrokerFaults \in Nat /\ MaxDbFaults \in Nat /\ MaxCrashes \in Nat

VARIABLES
    status,       \* StatusName of each row, "Absent" and "Deleted" without one
    retries,      \* Retries of each row
    expiry,       \* ExpiresAt: "null", "future" or "past"
    old,          \* rows added more than four minutes ago
    queue,        \* per node: Dispatcher._publishedMessageQueue
    batch,        \* per node: the copies the NeedRetry scan has yet to send
    at,           \* per worker: where its SendAsync stands
    copy,         \* per worker: the copy it sends, [msg, retries]
    sends,        \* per message: BasicPublish calls that succeeded, counted to 2
    callbacks,    \* per message: the FailedThresholdCallback calls, counted to 2
    brokerFaults, dbFaults, crashes

rowVars == <<status, retries, expiry, old>>
memVars == <<queue, batch, at, copy>>
faultVars == <<brokerFaults, dbFaults, crashes>>
vars == <<rowVars, memVars, sends, callbacks, faultVars>>

Workers == Nodes \X {"dispatcher", "needRetry"}
Copies == [msg : Messages \union {NoMessage}, retries : 0 .. FailedRetryCount]
NoCopy == [msg |-> NoMessage, retries |-> 0]

Lesser(a, b) == IF a < b THEN a ELSE b

(* Math.Min(FailedRetryCount, DefaultRetry.RetryCount): a worker goes on   *)
(* at once until its copy counts this many failures.                       *)
RetryCount == Lesser(FailedRetryCount, DefaultRetryCount)

(* The copies of m in a node's memory.                                     *)
Queued(m) == UNION {{n} \X {i \in DOMAIN queue[n] : queue[n][i] = m} : n \in Nodes}
Fetched(m) == {n \in Nodes : \E c \in batch[n] : c.msg = m}
Holders(m) == {w \in Workers : copy[w].msg = m}
InMemory(m) == Queued(m) # {} \/ Fetched(m) # {} \/ Holders(m) # {}

(* Mutants of Unsettled, conditions of the query: no limit on the retries, *)
(* rows that succeeded are read too, rows still Scheduled are not.         *)
Unsettled_NoLimit(m) == status[m] \in {"Scheduled", "Failed"}
Unsettled_AnyStatus(m) == status[m] \in {"Scheduled", "Failed", "Succeeded"}
                          /\ retries[m] < FailedRetryCount
Unsettled_FailedOnly(m) == status[m] = "Failed" /\ retries[m] < FailedRetryCount

(* GetPublishedMessagesOfNeedRetry.                                        *)
Unsettled(m) == status[m] \in {"Scheduled", "Failed"} /\ retries[m] < FailedRetryCount

(* Mutant of NeedRetry: the condition on Added is dropped.                 *)
NeedRetry_AnyAge(m) == Unsettled(m)

NeedRetry(m) == Unsettled(m) /\ old[m]

Init ==
    /\ status = [m \in Messages |-> "Absent"]
    /\ retries = [m \in Messages |-> 0]
    /\ expiry = [m \in Messages |-> "null"]
    /\ old = [m \in Messages |-> FALSE]
    /\ queue = [n \in Nodes |-> <<>>]
    /\ batch = [n \in Nodes |-> {}]
    /\ at = [w \in Workers |-> "idle"]
    /\ copy = [w \in Workers |-> NoCopy]
    /\ sends = [m \in Messages |-> 0]
    /\ callbacks = [m \in Messages |-> <<>>]
    /\ brokerFaults = 0
    /\ dbFaults = 0
    /\ crashes = 0

-----------------------------------------------------------------------------
(* Where rows and copies come from                                         *)

(* A publisher on node n committed the row and flushed its buffer; without *)
(* `handed` it died, or its Commit threw, between the two (CapTransaction  *)
(* models these steps).                                                    *)
Store(n, m, handed) ==
    /\ status[m] = "Absent"
    /\ status' = [status EXCEPT ![m] = "Scheduled"]
    /\ queue' = IF handed THEN [queue EXCEPT ![n] = Append(@, m)] ELSE queue
    /\ UNCHANGED <<retries, expiry, old, batch, at, copy, sends, callbacks, faultVars>>

(* Dispatcher.Sending takes the next message; the object it was published  *)
(* as counts no failure.                                                   *)
Take(n) ==
    LET w == <<n, "dispatcher">> IN
    /\ at[w] = "idle"
    /\ queue[n] # <<>>
    /\ copy' = [copy EXCEPT ![w] = [msg |-> Head(queue[n]), retries |-> 0]]
    /\ at' = [at EXCEPT ![w] = "send"]
    /\ queue' = [queue EXCEPT ![n] = Tail(@)]
    /\ UNCHANGED <<rowVars, batch, sends, callbacks, faultVars>>

(* NeedRetryMessageProcessor reads the rows to retry: copies of what they  *)
(* are now, sent one after the other with a delay between them.            *)
Scan(n) ==
    /\ at[<<n, "needRetry">>] = "idle"
    /\ batch[n] = {}
    /\ \E m \in Messages : NeedRetry(m)
    /\ batch' = [batch EXCEPT ![n] =
                    {[msg |-> m, retries |-> retries[m]] : m \in {k \in Messages : NeedRetry(k)}}]
    /\ UNCHANGED <<rowVars, queue, at, copy, sends, callbacks, faultVars>>

PickFromBatch(n) ==
    LET w == <<n, "needRetry">> IN
    /\ at[w] = "idle"
    /\ \E c \in batch[n] :
          /\ copy' = [copy EXCEPT ![w] = c]
          /\ batch' = [batch EXCEPT ![n] = @ \ {c}]
    /\ at' = [at EXCEPT ![w] = "send"]
    /\ UNCHANGED <<rowVars, queue, sends, callbacks, faultVars>>

-----------------------------------------------------------------------------
(* BasePublishMessageSender.SendAsync                                      *)

(* The call is over, by a return.                                          *)
Release(w) == /\ at' = [at EXCEPT ![w] = "idle"]
              /\ copy' = [copy EXCEPT ![w] = NoCopy]

(* The call is over, by an exception: the dispatcher does not observe the  *)
(* task, the retry scan abandons the rest of its batch.                    *)
Abandon(w) == /\ Release(w)
              /\ batch' = IF w[2] = "needRetry" THEN [batch EXCEPT ![w[1]] = {}] ELSE batch

SendSucceeds(w) ==
    /\ at[w] = "send"
    /\ sends' = [sends EXCEPT ![copy[w].msg] = Lesser(@ + 1, 2)]
    /\ at' = [at EXCEPT ![w] = "setSucceeded"]
    /\ UNCHANGED <<rowVars, queue, batch, copy, callbacks, faultVars>>

(* FailedThresholdCallback, with the message type the sender gives it.     *)
Report(m) == callbacks' = [callbacks EXCEPT ![m] =
                               IF Len(@) < 2 THEN Append(@, "Subscribe") ELSE @]

(* Mutants of SendFails: the failure is taken for a success; the callback  *)
(* waits for more than FailedRetryCount failures.                          *)
SendFails_TakenForSuccess(w) ==
    /\ at[w] = "send"
    /\ brokerFaults < MaxBrokerFaults
    /\ brokerFaults' = brokerFaults + 1
    /\ at' = [at EXCEPT ![w] = "setSucceeded"]
    /\ UNCHANGED <<rowVars, queue, batch, copy, sends, callbacks, dbFaults, crashes>>

SendFails_ReportsLater(w) ==
    LET failures == copy[w].retries + 1 IN
    /\ at[w] = "send"
    /\ brokerFaults < MaxBrokerFaults
    /\ brokerFaults' = brokerFaults + 1
    /\ copy' = [copy EXCEPT ![w].retries = failures]
    /\ IF failures > FailedRetryCount THEN Report(copy[w].msg) ELSE UNCHANGED callbacks
    /\ at' = [at EXCEPT ![w] = "setFailed"]
    /\ UNCHANGED <<rowVars, queue, batch, sends, dbFaults, crashes>>

(* PublishAsync returns a failure; UpdateMessageForRetry counts it in the  *)
(* copy.                                                                   *)
SendFails(w) ==
    LET failures == copy[w].retries + 1 IN
    /\ at[w] = "send"
    /\ brokerFaults < MaxBrokerFaults
    /\ brokerFaults' = brokerFaults + 1
    /\ copy' = [copy EXCEPT ![w].retries = failures]
    /\ IF failures >= RetryCount /\ failures = FailedRetryCount
       THEN Report(copy[w].msg) ELSE UNCHANGED callbacks
    /\ at' = [at EXCEPT ![w] = "setFailed"]
    /\ UNCHANGED <<rowVars, queue, batch, sends, dbFaults, crashes>>

(* Rent throws, outside the try of RabbitMQPublishMessageSender.           *)
SendThrows(w) ==
    /\ at[w] = "send"
    /\ brokerFaults < MaxBrokerFaults
    /\ brokerFaults' = brokerFaults + 1
    /\ Abandon(w)
    /\ UNCHANGED <<rowVars, queue, sends, callbacks, dbFaults, crashes>>

(* StateChanger and UpdateMessage: the row becomes what the copy says,     *)
(* whatever it was; a row that is gone stays gone.                         *)
Write(w, state) ==
    LET m == copy[w].msg IN
    IF status[m] = "Deleted"
    THEN UNCHANGED <<status, retries, expiry>>
    ELSE /\ status' = [status EXCEPT ![m] = state]
         /\ retries' = [retries EXCEPT ![m] = copy[w].retries]
         /\ expiry' = [expiry EXCEPT ![m] = "future"]

SetSucceededState(w) ==
    /\ at[w] = "setSucceeded"
    /\ Write(w, "Succeeded")
    /\ Release(w)
    /\ UNCHANGED <<old, queue, batch, sends, callbacks, faultVars>>

SetFailedState(w) ==
    /\ at[w] = "setFailed"
    /\ Write(w, "Failed")
    /\ IF copy[w].retries < RetryCount
       THEN at' = [at EXCEPT ![w] = "send"] /\ UNCHANGED copy
       ELSE Release(w)
    /\ UNCHANGED <<old, queue, batch, sends, callbacks, faultVars>>

(* The state write throws.                                                 *)
WriteThrows(w) ==
    /\ at[w] \in {"setSucceeded", "setFailed"}
    /\ dbFaults < MaxDbFaults
    /\ dbFaults' = dbFaults + 1
    /\ Abandon(w)
    /\ UNCHANGED <<rowVars, queue, sends, callbacks, brokerFaults, crashes>>

-----------------------------------------------------------------------------
(* Time, the collector and crashes                                         *)

(* Four minutes have passed since the row was added.  Timely: by then no   *)
(* node still has the message in its queue or in the dispatcher's hands.   *)
Age(m) ==
    /\ status[m] # "Absent" /\ ~old[m]
    /\ Timely => ~InMemory(m)
    /\ old' = [old EXCEPT ![m] = TRUE]
    /\ UNCHANGED <<status, retries, expiry, memVars, sends, callbacks, faultVars>>

(* ExpiresAt passes: 24 hours after a success, 15 days after a failure.    *)
(* Timely: no copy is as old as that.  RetriesInTime: the retries of a row *)
(* never pause for so long; the code sees to neither.                      *)
Expire(m) ==
    /\ expiry[m] = "future" /\ status[m] # "Deleted"
    /\ Timely => ~InMemory(m)
    /\ RetriesInTime => ~Unsettled(m)
    /\ expiry' = [expiry EXCEPT ![m] = "past"]
    /\ UNCHANGED <<status, retries, old, memVars, sends, callbacks, faultVars>>

(* Mutant of Collect: rows are deleted by the time they were added.        *)
Collect_ByAge(m) ==
    /\ old[m] /\ status[m] # "Deleted"
    /\ status' = [status EXCEPT ![m] = "Deleted"]
    /\ UNCHANGED <<retries, expiry, old, memVars, sends, callbacks, faultVars>>

(* SqlServerCollectProcessor deletes what has expired.                     *)
Collect(m) ==
    /\ expiry[m] = "past" /\ status[m] # "Deleted"
    /\ status' = [status EXCEPT ![m] = "Deleted"]
    /\ UNCHANGED <<retries, expiry, old, memVars, sends, callbacks, faultVars>>

(* A node dies and starts again; its queue, batch and copies are gone.     *)
Crash(n) ==
    /\ crashes < MaxCrashes
    /\ crashes' = crashes + 1
    /\ queue' = [queue EXCEPT ![n] = <<>>]
    /\ batch' = [batch EXCEPT ![n] = {}]
    /\ at' = [w \in Workers |-> IF w[1] = n THEN "idle" ELSE at[w]]
    /\ copy' = [w \in Workers |-> IF w[1] = n THEN NoCopy ELSE copy[w]]
    /\ UNCHANGED <<rowVars, sends, callbacks, brokerFaults, dbFaults>>

-----------------------------------------------------------------------------
SendAsync(w) ==
    \/ SendSucceeds(w) \/ SendFails(w) \/ SendThrows(w)
    \/ SetSucceededState(w) \/ SetFailedState(w) \/ WriteThrows(w)

NodeStep(n) ==
    \/ Take(n) \/ Scan(n) \/ PickFromBatch(n) \/ Crash(n)
    \/ \E m \in Messages, handed \in BOOLEAN : Store(n, m, handed)

RowStep(m) == Age(m) \/ Expire(m) \/ Collect(m)

Next ==
    \/ \E n \in Nodes : NodeStep(n)
    \/ \E w \in Workers : SendAsync(w)
    \/ \E m \in Messages : RowStep(m)

Spec == Init /\ [][Next]_vars

(* The dispatcher and the processors are threads that always run, a call   *)
(* to the broker or the database always comes back, and time passes.       *)
FairSpec ==
    /\ Spec
    /\ \A n \in Nodes : WF_vars(Take(n)) /\ WF_vars(Scan(n)) /\ WF_vars(PickFromBatch(n))
    /\ \A w \in Workers : WF_vars(SendAsync(w))
    /\ \A m \in Messages : WF_vars(Age(m))

-----------------------------------------------------------------------------
(* Properties                                                              *)

TypeOK ==
    /\ status \in [Messages -> {"Absent", "Scheduled", "Failed", "Succeeded", "Deleted"}]
    /\ retries \in [Messages -> 0 .. FailedRetryCount]
    /\ expiry \in [Messages -> {"null", "future", "past"}]
    /\ old \in [Messages -> BOOLEAN]
    /\ queue \in [Nodes -> Seq(Messages)]
    /\ batch \in [Nodes -> SUBSET Copies]
    /\ at \in [Workers -> {"idle", "send", "setSucceeded", "setFailed"}]
    /\ copy \in [Workers -> Copies]
    /\ sends \in [Messages -> 0 .. 2]
    /\ callbacks \in [Messages -> Seq({"Publish", "Subscribe"})]
    /\ brokerFaults \in 0 .. MaxBrokerFaults
    /\ dbFaults \in 0 .. MaxDbFaults
    /\ crashes \in 0 .. MaxCrashes

(* A row says Succeeded only of a message the broker took, whichever       *)
(* worker's copy was written last.                                         *)
SucceededWasSent == \A m \in Messages : status[m] = "Succeeded" => sends[m] > 0

(* The retry count of a row, of the copies in flight and of the batches    *)
(* never passes FailedRetryCount, so that the test for equality in         *)
(* UpdateMessageForRetry cannot be jumped over: a row that reached it has  *)
(* been reported.                                                          *)
ThresholdIsReported ==
    \A m \in Messages : retries[m] = FailedRetryCount => callbacks[m] # <<>>

(* The collector deletes a row only after an attempt to send its message   *)
(* that succeeded or was counted as a failure.                             *)
DeletedWasTried ==
    \A m \in Messages : status[m] = "Deleted" => sends[m] > 0 \/ retries[m] > 0

(* Without crashes and failing writes, a message sent by one node goes to  *)
(* the broker once: the dispatcher and the retry scan never both have it.  *)
SentOnce ==
    \A m \in Messages : dbFaults + crashes = 0 => sends[m] <= 1

(* Succeeded is final: no later write of another copy takes it back, which *)
(* would send the message again.                                           *)
SucceededIsFinal ==
    [][\A m \in Messages :
          status[m] = "Succeeded" => status'[m] \in {"Succeeded", "Deleted"}]_vars

(* The failures a row counts are never forgotten by a later write.         *)
RetriesNeverLost ==
    [][\A m \in Messages : retries'[m] >= retries[m]]_vars

(* The delivery implements the promise of the outbox, and settles every    *)
(* stored message.                                                         *)
Promise == INSTANCE Outbox WITH
    stored <- {m \in Messages : status[m] # "Absent"},
    sent <- {m \in Messages : sends[m] > 0},
    reported <- {m \in Messages : callbacks[m] # <<>>},
    removed <- {m \in Messages : status[m] = "Deleted"}

ImplementsOutbox == Promise!Spec

SettlesEveryMessage == Promise!Settled

=============================================================================
