------------------------ MODULE MessageDeliveryProofs -----------------------
(***************************************************************************)
(* Proofs about MessageDelivery for any number of nodes and messages and   *)
(* any retry limits: what the states of a row guarantee, and, when no row  *)
(* expires under its retries, that the delivery implements the Outbox.     *)
(***************************************************************************)
EXTENDS MessageDelivery, SequenceTheorems, TLAPS

(* What every copy in memory knows of its message.                         *)
CopiesSane ==
    \A w \in Workers :
        /\ at[w] # "idle" => copy[w].msg \in Messages /\ status[copy[w].msg] # "Absent"
        /\ at[w] \in {"send", "setSucceeded"} => copy[w].retries < FailedRetryCount
        /\ at[w] = "setSucceeded" => sends[copy[w].msg] > 0
        /\ at[w] = "setFailed" /\ copy[w].retries = FailedRetryCount
               => callbacks[copy[w].msg] # <<>>

QueuesSane ==
    /\ \A n \in Nodes : \A i \in DOMAIN queue[n] : status[queue[n][i]] # "Absent"
    /\ \A n \in Nodes : \A c \in batch[n] :
           c.msg \in Messages /\ c.retries < FailedRetryCount /\ status[c.msg] # "Absent"

(* Nothing has happened to a message that is not stored.                   *)
AbsentUntouched ==
    \A m \in Messages : status[m] = "Absent" =>
        retries[m] = 0 /\ expiry[m] = "null" /\ sends[m] = 0 /\ callbacks[m] = <<>>

Settled(m) == sends[m] > 0 \/ callbacks[m] # <<>>

(* What has expired was settled, if no row expires under its retries.      *)
ExpiredIsSettled ==
    RetriesInTime => \A m \in Messages : expiry[m] = "past" \/ status[m] = "Deleted" => Settled(m)

(* The inductive invariant.                                                *)
IInv ==
    /\ TypeOK
    /\ CopiesSane
    /\ QueuesSane
    /\ AbsentUntouched
    /\ SucceededWasSent
    /\ ThresholdIsReported
    /\ ExpiredIsSettled

-----------------------------------------------------------------------------
LEMMA RetryCountBound == RetryCount \in Nat /\ RetryCount <= FailedRetryCount
  BY RetryAssumption DEF RetryCount, Lesser

LEMMA Initial == Init => IInv
  BY NoMessageAssumption, RetryAssumption, FaultAssumption
  DEF Init, IInv, TypeOK, CopiesSane, QueuesSane, AbsentUntouched, SucceededWasSent,
      ThresholdIsReported, ExpiredIsSettled, Settled, Workers, Copies, NoCopy

(* Storing a row and the passage of time.                                  *)
LEMMA StoreStep ==
    ASSUME IInv, NEW n \in Nodes, NEW m \in Messages, NEW handed \in BOOLEAN,
           Store(n, m, handed)
    PROVE  IInv'
<1> USE DEF IInv, Store, rowVars, faultVars
<1>1. TypeOK'
  BY DEF TypeOK
<1>2. CopiesSane'
  BY DEF TypeOK, CopiesSane, Workers, Copies
<1>3. QueuesSane'
  <2>1. \A k \in Nodes : \A i \in DOMAIN queue'[k] : status'[queue'[k][i]] # "Absent"
    BY DEF TypeOK, QueuesSane
  <2>2. \A k \in Nodes : \A c \in batch'[k] :
            c.msg \in Messages /\ c.retries < FailedRetryCount /\ status'[c.msg] # "Absent"
    BY DEF TypeOK, QueuesSane
  <2> QED BY <2>1, <2>2 DEF QueuesSane
<1>4. AbsentUntouched' /\ SucceededWasSent' /\ ThresholdIsReported' /\ ExpiredIsSettled'
  BY DEF TypeOK, AbsentUntouched, SucceededWasSent, ThresholdIsReported, ExpiredIsSettled,
         Settled
<1> QED BY <1>1, <1>2, <1>3, <1>4

LEMMA RowSteps ==
    ASSUME IInv, NEW m \in Messages, RowStep(m)
    PROVE  IInv'
<1> USE DEF IInv, rowVars, memVars, faultVars
<1>1. CASE Age(m)
  BY <1>1 DEF Age, TypeOK, CopiesSane, QueuesSane, AbsentUntouched, SucceededWasSent,
              ThresholdIsReported, ExpiredIsSettled, Settled
<1>2. CASE Expire(m)
  <2>1. TypeOK' /\ CopiesSane' /\ QueuesSane'
    BY <1>2 DEF Expire, TypeOK, CopiesSane, QueuesSane
  <2>2. AbsentUntouched' /\ SucceededWasSent' /\ ThresholdIsReported'
    BY <1>2 DEF Expire, TypeOK, AbsentUntouched, SucceededWasSent, ThresholdIsReported
  <2>3. ASSUME RetriesInTime PROVE Settled(m)
    <3>1. ~Unsettled(m) /\ status[m] # "Absent" /\ status[m] # "Deleted"
      BY <1>2, <2>3 DEF Expire, AbsentUntouched
    <3>2. CASE status[m] = "Succeeded"
      BY <3>2 DEF SucceededWasSent, Settled
    <3>3. CASE status[m] # "Succeeded"
      <4>1. ~(retries[m] < FailedRetryCount)
        BY <3>1, <3>3 DEF Unsettled, TypeOK
      <4>2. retries[m] = FailedRetryCount
        BY <4>1, RetryAssumption DEF TypeOK
      <4> QED BY <4>2 DEF ThresholdIsReported, Settled
    <3> QED BY <3>2, <3>3
  <2>4. ExpiredIsSettled'
    BY <1>2, <2>3 DEF Expire, TypeOK, ExpiredIsSettled, Settled
  <2> QED BY <2>1, <2>2, <2>4
<1>3. CASE Collect(m)
  <2>1. TypeOK' /\ QueuesSane'
    BY <1>3 DEF Collect, TypeOK, QueuesSane
  <2>2. CopiesSane'
    BY <1>3 DEF Collect, TypeOK, CopiesSane
  <2>3. AbsentUntouched' /\ SucceededWasSent' /\ ThresholdIsReported' /\ ExpiredIsSettled'
    BY <1>3 DEF Collect, TypeOK, AbsentUntouched, SucceededWasSent, ThresholdIsReported,
                ExpiredIsSettled, Settled
  <2> QED BY <2>1, <2>2, <2>3
<1> QED BY <1>1, <1>2, <1>3 DEF RowStep

(* The sender.                                                             *)
LEMMA ReleaseSane ==
    ASSUME IInv, NEW w \in Workers, Release(w)
    PROVE  /\ at' \in [Workers -> {"idle", "send", "setSucceeded", "setFailed"}]
           /\ copy' \in [Workers -> Copies]
           /\ \A v \in Workers : at'[v] # "idle" => v # w /\ at'[v] = at[v] /\ copy'[v] = copy[v]
  BY RetryAssumption DEF IInv, TypeOK, Release, Copies, NoCopy

LEMMA AbandonSane ==
    ASSUME IInv, NEW w \in Workers, Abandon(w)
    PROVE  /\ batch' \in [Nodes -> SUBSET Copies]
           /\ \A n \in Nodes : batch'[n] \subseteq batch[n]
  BY DEF IInv, TypeOK, Abandon, Workers

(* A worker that knows what the state it writes requires, writes its copy  *)
(* back; it keeps the copy only to send again.                             *)
WritesBack(w, state) ==
    /\ copy[w].msg \in Messages /\ status[copy[w].msg] # "Absent"
    /\ state = "Succeeded" => sends[copy[w].msg] > 0
    /\ copy[w].retries = FailedRetryCount => callbacks[copy[w].msg] # <<>>
    /\ Write(w, state)
    /\ at' \in [Workers -> {"idle", "send", "setSucceeded", "setFailed"}]
    /\ copy' \in [Workers -> Copies]
    /\ \A v \in Workers : at'[v] # "idle" =>
           /\ copy'[v] = copy[v]
           /\ \/ at'[v] = at[v]
              \/ /\ at'[v] = "send" /\ copy[v].retries < FailedRetryCount
                 /\ copy[v].msg \in Messages /\ status[copy[v].msg] # "Absent"
    /\ UNCHANGED <<old, queue, batch, sends, callbacks, faultVars>>

LEMMA WriteStep ==
    ASSUME IInv, NEW w \in Workers, NEW state \in {"Succeeded", "Failed"},
           WritesBack(w, state)
    PROVE  IInv'
<1> DEFINE m == copy[w].msg
<1> USE DEF IInv, faultVars
<1>1. m \in Messages /\ status[m] # "Absent" /\ copy[w].retries \in 0 .. FailedRetryCount
      /\ UNCHANGED <<old, queue, batch, sends, callbacks, faultVars>>
  BY DEF TypeOK, WritesBack, Copies
<1>2. CASE status[m] = "Deleted"
  <2>1. UNCHANGED <<status, retries, expiry>>
    BY <1>2 DEF WritesBack, Write
  <2>2. TypeOK'
    BY <1>1, <2>1 DEF TypeOK, WritesBack
  <2>3. CopiesSane'
    BY <1>1, <2>1 DEF CopiesSane, WritesBack
  <2>4. QueuesSane' /\ AbsentUntouched' /\ SucceededWasSent' /\ ThresholdIsReported'
        /\ ExpiredIsSettled'
    BY <1>1, <2>1 DEF QueuesSane, AbsentUntouched, SucceededWasSent, ThresholdIsReported,
                      ExpiredIsSettled, Settled
  <2> QED BY <2>2, <2>3, <2>4
<1>3. CASE status[m] # "Deleted"
  <2>1. /\ status' = [status EXCEPT ![m] = state]
        /\ retries' = [retries EXCEPT ![m] = copy[w].retries]
        /\ expiry' = [expiry EXCEPT ![m] = "future"]
    BY <1>3 DEF WritesBack, Write
  <2>2. /\ TypeOK'
        /\ \A k \in Messages : status'[k] # "Absent" <=> status[k] # "Absent"
    BY <1>1, <2>1 DEF TypeOK, WritesBack
  <2>3. CopiesSane'
    BY <1>1, <2>2 DEF CopiesSane, WritesBack
  <2>4. QueuesSane'
    BY <1>1, <2>2 DEF QueuesSane, TypeOK
  <2>5. AbsentUntouched'
    BY <1>1, <2>1 DEF TypeOK, AbsentUntouched
  <2>6. SucceededWasSent' /\ ThresholdIsReported'
    BY <1>1, <2>1 DEF TypeOK, SucceededWasSent, ThresholdIsReported, WritesBack
  <2>7. ExpiredIsSettled'
    BY <1>1, <2>1 DEF TypeOK, ExpiredIsSettled, Settled
  <2> QED BY <2>2, <2>3, <2>4, <2>5, <2>6, <2>7
<1> QED BY <1>2, <1>3

LEMMA SenderSteps ==
    ASSUME IInv, NEW w \in Workers, SendAsync(w)
    PROVE  IInv'
<1> DEFINE m == copy[w].msg
<1> USE DEF IInv, rowVars, faultVars
<1>1. CASE SendSucceeds(w)
  <2>1. TypeOK' /\ m \in Messages /\ sends'[m] > 0
        /\ \A k \in Messages : sends[k] > 0 => sends'[k] > 0
    <3>1. m \in Messages /\ sends[m] \in 0 .. 2
      BY <1>1 DEF SendSucceeds, TypeOK, CopiesSane
    <3>2. Lesser(sends[m] + 1, 2) \in 1 .. 2
      BY <3>1 DEF Lesser
    <3>3. sends' = [sends EXCEPT ![m] = Lesser(sends[m] + 1, 2)]
      BY <1>1 DEF SendSucceeds
    <3> QED BY <1>1, <3>1, <3>2, <3>3 DEF SendSucceeds, TypeOK
  <2>2. CopiesSane'
    BY <1>1, <2>1 DEF SendSucceeds, TypeOK, CopiesSane
  <2>3. QueuesSane'
    BY <1>1 DEF SendSucceeds, QueuesSane
  <2>4. AbsentUntouched'
    BY <1>1 DEF SendSucceeds, TypeOK, AbsentUntouched, CopiesSane
  <2>5. SucceededWasSent' /\ ThresholdIsReported' /\ ExpiredIsSettled'
    BY <1>1, <2>1 DEF SendSucceeds, SucceededWasSent, ThresholdIsReported,
                      ExpiredIsSettled, Settled
  <2> QED BY <2>1, <2>2, <2>3, <2>4, <2>5
<1>2. CASE SendFails(w)
  <2> DEFINE failures == copy[w].retries + 1
  <2>1. m \in Messages /\ status[m] # "Absent" /\ failures \in 1 .. FailedRetryCount
    BY <1>2, RetryAssumption DEF SendFails, TypeOK, CopiesSane, Copies
  <2>2. /\ callbacks' \in [Messages -> Seq({"Publish", "Subscribe"})]
        /\ \A k \in Messages : k # m => callbacks'[k] = callbacks[k]
        /\ callbacks[m] # <<>> => callbacks'[m] # <<>>
        /\ failures = FailedRetryCount => callbacks'[m] # <<>>
    <3>1. CASE failures >= RetryCount /\ failures = FailedRetryCount
      <4>1. callbacks' = [callbacks EXCEPT ![m] =
                              IF Len(@) < 2 THEN Append(@, "Subscribe") ELSE @]
        BY <1>2, <3>1 DEF SendFails, Report
      <4>2. callbacks[m] \in Seq({"Publish", "Subscribe"})
        BY <2>1 DEF TypeOK
      <4>3. Append(callbacks[m], "Subscribe") \in Seq({"Publish", "Subscribe"})
            /\ Append(callbacks[m], "Subscribe") # <<>>
        BY <4>2
      <4>4. ~(Len(callbacks[m]) < 2) => callbacks[m] # <<>>
        BY <4>2
      <4> QED BY <2>1, <4>1, <4>2, <4>3, <4>4 DEF TypeOK
    <3>2. CASE ~(failures >= RetryCount /\ failures = FailedRetryCount)
      <4>1. callbacks' = callbacks
        BY <1>2, <3>2 DEF SendFails
      <4>2. failures # FailedRetryCount
        BY <2>1, <3>2, RetryCountBound, RetryAssumption
      <4> QED BY <4>1, <4>2 DEF TypeOK
    <3> QED BY <3>1, <3>2
  <2>3. copy' = [copy EXCEPT ![w].retries = failures] /\ at' = [at EXCEPT ![w] = "setFailed"]
        /\ UNCHANGED <<rowVars, queue, batch, sends>>
    BY <1>2 DEF SendFails
  <2>4. copy' \in [Workers -> Copies] /\ copy'[w].msg = m /\ copy'[w].retries = failures
        /\ \A v \in Workers : v # w => copy'[v] = copy[v]
    <3>1. copy[w] \in [msg : Messages \union {NoMessage}, retries : 0 .. FailedRetryCount]
      BY DEF TypeOK, Copies
    <3>2. [copy[w] EXCEPT !.retries = failures] = [msg |-> m, retries |-> failures]
      BY <3>1
    <3>3. [msg |-> m, retries |-> failures] \in Copies
      BY <2>1, RetryAssumption DEF Copies
    <3>4. copy' = [copy EXCEPT ![w] = [msg |-> m, retries |-> failures]]
      BY <2>3, <3>2 DEF TypeOK
    <3> QED BY <3>3, <3>4 DEF TypeOK
  <2>5. TypeOK'
    <3>1. brokerFaults' \in 0 .. MaxBrokerFaults /\ UNCHANGED <<dbFaults, crashes>>
      BY <1>2, FaultAssumption DEF SendFails, TypeOK
    <3> QED BY <2>2, <2>3, <2>4, <3>1 DEF TypeOK
  <2>6. CopiesSane'
    <3> SUFFICES ASSUME NEW v \in Workers
                 PROVE  /\ at'[v] # "idle" => copy'[v].msg \in Messages
                                               /\ status'[copy'[v].msg] # "Absent"
                        /\ at'[v] \in {"send", "setSucceeded"} => copy'[v].retries < FailedRetryCount
                        /\ at'[v] = "setSucceeded" => sends'[copy'[v].msg] > 0
                        /\ at'[v] = "setFailed" /\ copy'[v].retries = FailedRetryCount
                               => callbacks'[copy'[v].msg] # <<>>
      BY DEF CopiesSane
    <3>1. CASE v = w
      BY <2>1, <2>2, <2>3, <2>4, <3>1 DEF TypeOK
    <3>2. CASE v # w
      <4>1. at'[v] = at[v] /\ copy'[v] = copy[v]
        BY <2>3, <2>4, <3>2 DEF TypeOK
      <4> QED BY <2>2, <2>3, <4>1 DEF CopiesSane
    <3> QED BY <3>1, <3>2
  <2>7. QueuesSane' /\ SucceededWasSent'
    BY <2>3 DEF QueuesSane, SucceededWasSent
  <2>8. AbsentUntouched' /\ ThresholdIsReported' /\ ExpiredIsSettled'
    BY <2>1, <2>2, <2>3 DEF AbsentUntouched, ThresholdIsReported, ExpiredIsSettled, Settled
  <2> QED BY <2>5, <2>6, <2>7, <2>8
<1>3. CASE SendThrows(w) \/ WriteThrows(w)
  <2>1. Abandon(w) /\ Release(w) /\ UNCHANGED <<rowVars, queue, sends, callbacks, crashes>>
        /\ brokerFaults' \in 0 .. MaxBrokerFaults /\ dbFaults' \in 0 .. MaxDbFaults
    BY <1>3, FaultAssumption DEF SendThrows, WriteThrows, Abandon, TypeOK
  <2>2. TypeOK'
    BY <2>1, ReleaseSane, AbandonSane DEF TypeOK
  <2>3. CopiesSane'
    BY <2>1, ReleaseSane DEF CopiesSane
  <2>4. QueuesSane'
    BY <2>1, AbandonSane DEF QueuesSane
  <2>5. AbsentUntouched' /\ SucceededWasSent' /\ ThresholdIsReported' /\ ExpiredIsSettled'
    BY <2>1 DEF AbsentUntouched, SucceededWasSent, ThresholdIsReported, ExpiredIsSettled,
                Settled
  <2> QED BY <2>2, <2>3, <2>4, <2>5
<1>4. ASSUME NEW state \in {"Succeeded", "Failed"}, WritesBack(w, state)
      PROVE  IInv'
  BY <1>4, WriteStep
<1>5. CASE SetSucceededState(w)
  <2>1. /\ m \in Messages /\ status[m] # "Absent" /\ sends[m] > 0
        /\ copy[w].retries \in 0 .. FailedRetryCount /\ copy[w].retries < FailedRetryCount
    BY <1>5 DEF SetSucceededState, TypeOK, CopiesSane, Copies
  <2>2. /\ Write(w, "Succeeded") /\ Release(w)
        /\ UNCHANGED <<old, queue, batch, sends, callbacks, faultVars>>
    BY <1>5 DEF SetSucceededState
  <2>3. copy[w].retries # FailedRetryCount
    BY <2>1, RetryAssumption
  <2>4. WritesBack(w, "Succeeded")
    BY <2>1, <2>2, <2>3, ReleaseSane DEF WritesBack
  <2> QED BY <1>4, <2>4
<1>6. CASE SetFailedState(w)
  <2>1. /\ m \in Messages /\ status[m] # "Absent"
        /\ copy[w].retries \in 0 .. FailedRetryCount
        /\ copy[w].retries = FailedRetryCount => callbacks[m] # <<>>
    BY <1>6 DEF SetFailedState, TypeOK, CopiesSane, Copies
  <2>2. Write(w, "Failed") /\ UNCHANGED <<old, queue, batch, sends, callbacks, faultVars>>
    BY <1>6 DEF SetFailedState
  <2>3. CASE copy[w].retries < RetryCount
    <3>1. at' = [at EXCEPT ![w] = "send"] /\ copy' = copy
      BY <1>6, <2>3 DEF SetFailedState
    <3>2. copy[w].retries < FailedRetryCount
      BY <2>1, <2>3, RetryCountBound, RetryAssumption
    <3>3. /\ at' \in [Workers -> {"idle", "send", "setSucceeded", "setFailed"}]
          /\ copy' \in [Workers -> Copies]
          /\ \A v \in Workers : at'[v] # "idle" =>
                 at'[v] = at[v] \/ (v = w /\ at'[v] = "send")
      BY <3>1 DEF TypeOK
    <3>4. WritesBack(w, "Failed")
      BY <2>1, <2>2, <3>1, <3>2, <3>3 DEF WritesBack
    <3> QED BY <1>4, <3>4
  <2>4. CASE ~(copy[w].retries < RetryCount)
    <3>1. Release(w)
      BY <1>6, <2>4 DEF SetFailedState
    <3>2. WritesBack(w, "Failed")
      BY <2>1, <2>2, <3>1, ReleaseSane DEF WritesBack
    <3> QED BY <1>4, <3>2
  <2> QED BY <2>3, <2>4
<1> QED BY <1>1, <1>2, <1>3, <1>5, <1>6 DEF SendAsync

-----------------------------------------------------------------------------
(* The steps of a node outside the sender.                                 *)
LEMMA NodeSteps ==
    ASSUME IInv, NEW n \in Nodes, NodeStep(n)
    PROVE  IInv'
<1> USE DEF IInv, rowVars, faultVars
<1>1. CASE Take(n)
  <2> DEFINE w == <<n, "dispatcher">>
             taken == [msg |-> Head(queue[n]), retries |-> 0]
  <2>1. /\ w \in Workers /\ queue[n] # <<>> /\ queue[n] \in Seq(Messages)
        /\ copy' = [copy EXCEPT ![w] = taken]
        /\ at' = [at EXCEPT ![w] = "send"]
        /\ queue' = [queue EXCEPT ![n] = Tail(@)]
        /\ UNCHANGED <<rowVars, batch, sends, callbacks, faultVars>>
    BY <1>1 DEF Take, Workers, TypeOK
  <2>2. /\ Head(queue[n]) \in Messages /\ status[Head(queue[n])] # "Absent"
        /\ Tail(queue[n]) \in Seq(Messages)
        /\ \A i \in DOMAIN Tail(queue[n]) :
               i + 1 \in DOMAIN queue[n] /\ Tail(queue[n])[i] = queue[n][i + 1]
    <3>1. 1 \in DOMAIN queue[n] /\ Head(queue[n]) = queue[n][1]
      BY <2>1
    <3> QED BY <2>1, <3>1 DEF QueuesSane
  <2>3. taken \in Copies /\ 0 < FailedRetryCount
    BY <2>2, RetryAssumption DEF Copies
  <2>4. TypeOK'
    BY <2>1, <2>2, <2>3 DEF TypeOK
  <2>5. CopiesSane'
    BY <2>1, <2>2, <2>3 DEF CopiesSane, TypeOK
  <2>6. QueuesSane'
    BY <2>1, <2>2 DEF QueuesSane, TypeOK
  <2>7. AbsentUntouched' /\ SucceededWasSent' /\ ThresholdIsReported' /\ ExpiredIsSettled'
    BY <2>1 DEF AbsentUntouched, SucceededWasSent, ThresholdIsReported, ExpiredIsSettled,
                Settled
  <2> QED BY <2>4, <2>5, <2>6, <2>7
<1>2. CASE Scan(n)
  <2> DEFINE read == {[msg |-> m, retries |-> retries[m]] : m \in {k \in Messages : NeedRetry(k)}}
  <2>1. batch' = [batch EXCEPT ![n] = read]
        /\ UNCHANGED <<rowVars, queue, at, copy, sends, callbacks, faultVars>>
    BY <1>2 DEF Scan
  <2>2. \A c \in read : /\ c \in Copies /\ c.msg \in Messages
                        /\ c.retries < FailedRetryCount /\ status[c.msg] # "Absent"
    BY RetryAssumption DEF TypeOK, Copies, NeedRetry, Unsettled
  <2>3. TypeOK'
    BY <2>1, <2>2 DEF TypeOK
  <2>4. QueuesSane'
    BY <2>1, <2>2 DEF QueuesSane, TypeOK
  <2>5. CopiesSane' /\ AbsentUntouched' /\ SucceededWasSent' /\ ThresholdIsReported'
        /\ ExpiredIsSettled'
    BY <2>1 DEF CopiesSane, AbsentUntouched, SucceededWasSent, ThresholdIsReported,
                ExpiredIsSettled, Settled
  <2> QED BY <2>3, <2>4, <2>5
<1>3. CASE PickFromBatch(n)
  <2> DEFINE w == <<n, "needRetry">>
  <2>1. PICK c \in batch[n] : /\ copy' = [copy EXCEPT ![w] = c]
                              /\ batch' = [batch EXCEPT ![n] = @ \ {c}]
    BY <1>3 DEF PickFromBatch
  <2>2. /\ w \in Workers /\ at' = [at EXCEPT ![w] = "send"]
        /\ UNCHANGED <<rowVars, queue, sends, callbacks, faultVars>>
    BY <1>3 DEF PickFromBatch, Workers
  <2>3. c \in Copies /\ c.msg \in Messages /\ c.retries < FailedRetryCount
        /\ status[c.msg] # "Absent"
    BY <2>1 DEF TypeOK, QueuesSane
  <2>4. TypeOK'
    BY <2>1, <2>2, <2>3 DEF TypeOK
  <2>5. CopiesSane'
    BY <2>1, <2>2, <2>3 DEF CopiesSane, TypeOK
  <2>6. QueuesSane'
    BY <2>1, <2>2 DEF QueuesSane, TypeOK
  <2>7. AbsentUntouched' /\ SucceededWasSent' /\ ThresholdIsReported' /\ ExpiredIsSettled'
    BY <2>2 DEF AbsentUntouched, SucceededWasSent, ThresholdIsReported, ExpiredIsSettled,
                Settled
  <2> QED BY <2>4, <2>5, <2>6, <2>7
<1>4. CASE Crash(n)
  <2>1. TypeOK'
    BY <1>4, RetryAssumption, FaultAssumption DEF Crash, TypeOK, Copies, NoCopy
  <2>2. CopiesSane'
    BY <1>4 DEF Crash, CopiesSane
  <2>3. QueuesSane'
    BY <1>4 DEF Crash, QueuesSane, TypeOK
  <2>4. AbsentUntouched' /\ SucceededWasSent' /\ ThresholdIsReported' /\ ExpiredIsSettled'
    BY <1>4 DEF Crash, AbsentUntouched, SucceededWasSent, ThresholdIsReported,
                ExpiredIsSettled, Settled
  <2> QED BY <2>1, <2>2, <2>3, <2>4
<1>5. CASE \E m \in Messages, handed \in BOOLEAN : Store(n, m, handed)
  BY <1>5, StoreStep
<1> QED BY <1>1, <1>2, <1>3, <1>4, <1>5 DEF NodeStep

LEMMA Inductive == IInv /\ [Next]_vars => IInv'
<1> SUFFICES ASSUME IInv, [Next]_vars
             PROVE  IInv'
  OBVIOUS
<1>1. CASE UNCHANGED vars
  BY <1>1 DEF vars, rowVars, memVars, faultVars, IInv, TypeOK, CopiesSane, QueuesSane,
              AbsentUntouched, SucceededWasSent, ThresholdIsReported, ExpiredIsSettled,
              Settled
<1>2. ASSUME NEW n \in Nodes, NodeStep(n) PROVE IInv'
  BY <1>2, NodeSteps
<1>3. ASSUME NEW w \in Workers, SendAsync(w) PROVE IInv'
  BY <1>3, SenderSteps
<1>4. ASSUME NEW m \in Messages, RowStep(m) PROVE IInv'
  BY <1>4, RowSteps
<1> QED BY <1>1, <1>2, <1>3, <1>4 DEF Next

(* The inductive invariant: what rows, queues, batches and the copies in   *)
(* the senders' hands know of each other, whichever copy is written last.  *)
THEOREM Invariance == Spec => []IInv
  BY Initial, Inductive, PTL DEF Spec

(* The variables of the delivery have their types; the retry counts of     *)
(* rows and copies stay within FailedRetryCount.                           *)
THEOREM TypeCorrect == Spec => []TypeOK
<1>1. IInv => TypeOK
  BY DEF IInv
<1> QED BY <1>1, Invariance, PTL

(* A row says Succeeded only of a message the broker took.                 *)
THEOREM SucceededCorrect == Spec => []SucceededWasSent
<1>1. IInv => SucceededWasSent
  BY DEF IInv
<1> QED BY <1>1, Invariance, PTL

(* A row whose retries are used up has been reported.                      *)
THEOREM ThresholdCorrect == Spec => []ThresholdIsReported
<1>1. IInv => ThresholdIsReported
  BY DEF IInv
<1> QED BY <1>1, Invariance, PTL

-----------------------------------------------------------------------------
(* The collector, whenever rows expire: a row gets its ExpiresAt with the  *)
(* result of an attempt.                                                   *)
FailureIsCounted == \A w \in Workers : at[w] = "setFailed" => copy[w].retries > 0

Tried(m) == sends[m] > 0 \/ retries[m] > 0

DatedWasTried ==
    \A m \in Messages : expiry[m] # "null" \/ status[m] = "Deleted" => Tried(m)

TriedInv == IInv /\ FailureIsCounted /\ DatedWasTried

LEMMA TriedInitial == Init => TriedInv
<1>1. Init => FailureIsCounted /\ DatedWasTried
  BY DEF Init, FailureIsCounted, DatedWasTried
<1> QED BY <1>1, Initial DEF TriedInv

(* A worker writes what its attempt came to.                               *)
LEMMA WriteOfAnAttempt ==
    ASSUME TriedInv, NEW w \in Workers, NEW state \in {"Succeeded", "Failed"},
           copy[w].msg \in Messages, sends[copy[w].msg] > 0 \/ copy[w].retries > 0,
           Write(w, state), sends' = sends
    PROVE  DatedWasTried'
<1> DEFINE m == copy[w].msg
<1>1. CASE status[m] = "Deleted"
  BY <1>1 DEF Write, TriedInv, DatedWasTried, Tried
<1>2. CASE status[m] # "Deleted"
  <2>1. /\ status' = [status EXCEPT ![m] = state]
        /\ retries' = [retries EXCEPT ![m] = copy[w].retries]
        /\ expiry' = [expiry EXCEPT ![m] = "future"]
    BY <1>2 DEF Write
  <2>2. ASSUME NEW k \in Messages, expiry'[k] # "null" \/ status'[k] = "Deleted"
        PROVE  Tried(k)'
    <3>1. CASE k = m
      BY <2>1, <3>1 DEF Tried, TriedInv, IInv, TypeOK
    <3>2. CASE k # m
      BY <2>1, <2>2, <3>2 DEF Tried, TriedInv, DatedWasTried, IInv, TypeOK
    <3> QED BY <3>1, <3>2
  <2> QED BY <2>2 DEF DatedWasTried
<1> QED BY <1>1, <1>2

LEMMA SenderTries ==
    ASSUME TriedInv, NEW w \in Workers, SendAsync(w)
    PROVE  FailureIsCounted' /\ DatedWasTried'
<1> USE DEF rowVars, faultVars
<1>1. copy[w] \in Copies /\ copy[w].retries \in 0 .. FailedRetryCount
  BY DEF TriedInv, IInv, TypeOK, Copies
<1>2. CASE SendSucceeds(w)
  <2>1. FailureIsCounted'
    BY <1>2 DEF SendSucceeds, TriedInv, FailureIsCounted, IInv, TypeOK
  <2>2. copy[w].msg \in Messages /\ sends[copy[w].msg] \in 0 .. 2
    BY <1>2 DEF SendSucceeds, TriedInv, IInv, TypeOK, CopiesSane
  <2>3. Lesser(sends[copy[w].msg] + 1, 2) > 0
    BY <2>2 DEF Lesser
  <2>4. \A m \in Messages : sends[m] > 0 => sends'[m] > 0
    BY <1>2, <2>3 DEF SendSucceeds, TriedInv, IInv, TypeOK
  <2> QED BY <1>2, <2>1, <2>4 DEF SendSucceeds, TriedInv, DatedWasTried, Tried
<1>3. CASE SendFails(w)
  <2>1. UNCHANGED <<rowVars, sends>> /\ at' = [at EXCEPT ![w] = "setFailed"]
        /\ copy' = [copy EXCEPT ![w].retries = copy[w].retries + 1]
    BY <1>3 DEF SendFails
  <2>2. copy'[w].retries > 0 /\ \A v \in Workers : v # w => copy'[v] = copy[v] /\ at'[v] = at[v]
    BY <1>1, <2>1, RetryAssumption DEF TriedInv, IInv, TypeOK, Copies
  <2> QED BY <2>1, <2>2 DEF TriedInv, FailureIsCounted, DatedWasTried, Tried
<1>4. CASE SendThrows(w) \/ WriteThrows(w)
  <2>1. Abandon(w) /\ Release(w) /\ UNCHANGED <<rowVars, sends>>
    BY <1>4 DEF SendThrows, WriteThrows, Abandon
  <2> QED BY <2>1, ReleaseSane DEF TriedInv, FailureIsCounted, DatedWasTried, Tried
<1>5. CASE SetSucceededState(w)
  <2>1. copy[w].msg \in Messages /\ sends[copy[w].msg] > 0
    BY <1>5 DEF SetSucceededState, TriedInv, IInv, CopiesSane
  <2>2. Write(w, "Succeeded") /\ Release(w) /\ sends' = sends
    BY <1>5 DEF SetSucceededState
  <2>3. FailureIsCounted'
    BY <2>2, ReleaseSane DEF TriedInv, FailureIsCounted
  <2> QED BY <2>1, <2>2, <2>3, WriteOfAnAttempt
<1>6. CASE SetFailedState(w)
  <2>1. copy[w].msg \in Messages /\ copy[w].retries > 0
    BY <1>6 DEF SetFailedState, TriedInv, IInv, CopiesSane, FailureIsCounted
  <2>2. Write(w, "Failed") /\ sends' = sends
    BY <1>6 DEF SetFailedState
  <2>3. CASE copy[w].retries < RetryCount
    <3>1. at' = [at EXCEPT ![w] = "send"] /\ copy' = copy
      BY <1>6, <2>3 DEF SetFailedState
    <3>2. FailureIsCounted'
      BY <3>1 DEF TriedInv, FailureIsCounted, IInv, TypeOK
    <3> QED BY <2>1, <2>2, <3>2, WriteOfAnAttempt
  <2>4. CASE ~(copy[w].retries < RetryCount)
    <3>1. Release(w)
      BY <1>6, <2>4 DEF SetFailedState
    <3>2. FailureIsCounted'
      BY <3>1, ReleaseSane DEF TriedInv, FailureIsCounted
    <3> QED BY <2>1, <2>2, <3>2, WriteOfAnAttempt
  <2> QED BY <2>3, <2>4
<1> QED BY <1>2, <1>3, <1>4, <1>5, <1>6 DEF SendAsync

LEMMA NodeTries ==
    ASSUME TriedInv, NEW n \in Nodes, NodeStep(n)
    PROVE  FailureIsCounted' /\ DatedWasTried'
<1> USE DEF rowVars, faultVars
<1>1. CASE Take(n) \/ PickFromBatch(n) \/ Scan(n) \/ Crash(n)
  <2>1. UNCHANGED <<status, expiry, retries, sends>>
    BY <1>1 DEF Take, PickFromBatch, Scan, Crash
  <2>2. \A w \in Workers : at'[w] = "setFailed" => at[w] = "setFailed" /\ copy'[w] = copy[w]
    <3>1. at \in [Workers -> {"idle", "send", "setSucceeded", "setFailed"}]
          /\ copy \in [Workers -> Copies]
      BY DEF TriedInv, IInv, TypeOK
    <3>2. CASE Take(n)
      BY <3>1, <3>2 DEF Take
    <3>3. CASE PickFromBatch(n)
      BY <3>1, <3>3 DEF PickFromBatch
    <3>4. CASE Scan(n) \/ Crash(n)
      BY <3>1, <3>4 DEF Scan, Crash
    <3> QED BY <1>1, <3>2, <3>3, <3>4
  <2> QED BY <2>1, <2>2 DEF TriedInv, FailureIsCounted, DatedWasTried, Tried
<1>2. ASSUME NEW m \in Messages, NEW handed \in BOOLEAN, Store(n, m, handed)
      PROVE  FailureIsCounted' /\ DatedWasTried'
  BY <1>2 DEF Store, TriedInv, FailureIsCounted, DatedWasTried, Tried, IInv, TypeOK
<1> QED BY <1>1, <1>2 DEF NodeStep

LEMMA RowTries ==
    ASSUME TriedInv, NEW m \in Messages, RowStep(m)
    PROVE  FailureIsCounted' /\ DatedWasTried'
<1> USE DEF rowVars, memVars, faultVars
<1>1. UNCHANGED <<at, copy, sends, retries>>
  BY DEF RowStep, Age, Expire, Collect
<1>2. \A k \in Messages : expiry'[k] # "null" \/ status'[k] = "Deleted"
                           => expiry[k] # "null" \/ status[k] = "Deleted"
  BY DEF RowStep, Age, Expire, Collect, TriedInv, IInv, TypeOK
<1> QED BY <1>1, <1>2 DEF TriedInv, FailureIsCounted, DatedWasTried, Tried

LEMMA TriedInductive == TriedInv /\ [Next]_vars => TriedInv'
<1> SUFFICES ASSUME TriedInv, [Next]_vars PROVE TriedInv'
  OBVIOUS
<1>1. IInv'
  BY Inductive DEF TriedInv
<1>2. CASE UNCHANGED vars
  BY <1>1, <1>2 DEF vars, rowVars, memVars, TriedInv, FailureIsCounted, DatedWasTried, Tried
<1>3. CASE Next
  <2>1. FailureIsCounted' /\ DatedWasTried'
    BY <1>3, SenderTries, NodeTries, RowTries DEF Next
  <2> QED BY <1>1, <2>1 DEF TriedInv
<1> QED BY <1>2, <1>3

(* The collector deletes a row only after an attempt that succeeded or was *)
(* counted, however soon rows expire and however late copies are written.  *)
THEOREM CollectorCorrect == Spec => []DeletedWasTried
<1>1. TriedInv => DeletedWasTried
  BY DEF TriedInv, DatedWasTried, DeletedWasTried, Tried
<1> QED BY <1>1, TriedInitial, TriedInductive, PTL DEF Spec

-----------------------------------------------------------------------------
(* The delivery implements the outbox: if no row expires under its         *)
(* retries, every step is one of the Outbox, or changes nothing the Outbox *)
(* speaks of.  Copies may be of any age.                                   *)
Stored == {m \in Messages : status[m] # "Absent"}
Sent == {m \in Messages : sends[m] > 0}
Reported == {m \in Messages : callbacks[m] # <<>>}
Removed == {m \in Messages : status[m] = "Deleted"}

LEMMA OutboxInit == Init => Promise!Init
  BY DEF Init, Promise!Init

(* A write of the sender is invisible to the Outbox.                       *)
LEMMA WriteInvisible ==
    ASSUME IInv, NEW w \in Workers, NEW state \in {"Succeeded", "Failed"}, Write(w, state),
           copy[w].msg \in Messages, status[copy[w].msg] # "Absent",
           UNCHANGED <<sends, callbacks>>
    PROVE  UNCHANGED <<Stored, Sent, Reported, Removed>>
<1>1. \A m \in Messages : /\ status'[m] = "Absent" <=> status[m] = "Absent"
                          /\ status'[m] = "Deleted" <=> status[m] = "Deleted"
  BY DEF Write, IInv, TypeOK
<1> QED BY <1>1 DEF Stored, Sent, Reported, Removed

LEMMA OutboxStep ==
    ASSUME RetriesInTime, IInv, [Next]_vars
    PROVE  [Promise!Next]_<<Stored, Sent, Reported, Removed>>
<1> USE DEF rowVars, memVars, faultVars
<1> DEFINE Seen == <<Stored, Sent, Reported, Removed>>
<1>1. CASE UNCHANGED vars
  BY <1>1 DEF vars, Stored, Sent, Reported, Removed
<1>2. ASSUME NEW n \in Nodes, NEW m \in Messages, NEW handed \in BOOLEAN, Store(n, m, handed)
      PROVE  Promise!Store({m})
  <2>1. m \notin Stored /\ Stored' = Stored \union {m}
    BY <1>2 DEF Store, Stored, IInv, TypeOK
  <2>2. UNCHANGED <<Sent, Reported, Removed>>
    BY <1>2 DEF Store, Sent, Reported, Removed, IInv, TypeOK
  <2> QED BY <2>1, <2>2 DEF Promise!Store, Stored, Sent, Reported, Removed
<1>3. ASSUME NEW n \in Nodes, Take(n) \/ Scan(n) \/ PickFromBatch(n) \/ Crash(n)
      PROVE  UNCHANGED Seen
  BY <1>3 DEF Take, Scan, PickFromBatch, Crash, Stored, Sent, Reported, Removed
<1>4. ASSUME NEW w \in Workers, SendSucceeds(w)
      PROVE  [Promise!Next]_Seen
  <2> DEFINE m == copy[w].msg
  <2>1. m \in Messages /\ m \in Stored /\ sends[m] \in 0 .. 2
    BY <1>4 DEF SendSucceeds, IInv, TypeOK, CopiesSane, Stored
  <2>2. Lesser(sends[m] + 1, 2) \in 1 .. 2
    BY <2>1 DEF Lesser
  <2>3. Sent' = Sent \union {m}
    BY <1>4, <2>1, <2>2 DEF SendSucceeds, Sent, IInv, TypeOK
  <2>4. UNCHANGED <<Stored, Reported, Removed>>
    BY <1>4 DEF SendSucceeds, Stored, Reported, Removed
  <2>5. CASE m \in Sent
    BY <2>3, <2>4, <2>5
  <2>6. CASE m \notin Sent
    BY <2>1, <2>3, <2>4, <2>6 DEF Promise!Next, Promise!Send, Stored, Sent, Reported, Removed
  <2> QED BY <2>5, <2>6
<1>5. ASSUME NEW w \in Workers, SendFails(w)
      PROVE  [Promise!Next]_Seen
  <2> DEFINE m == copy[w].msg
  <2>1. m \in Messages /\ m \in Stored
    BY <1>5 DEF SendFails, IInv, CopiesSane, Stored
  <2>2. UNCHANGED <<Stored, Sent, Removed>>
    BY <1>5 DEF SendFails, Stored, Sent, Removed
  <2>3. CASE callbacks' = callbacks
    BY <2>2, <2>3 DEF Reported
  <2>4. CASE callbacks' # callbacks
    <3>1. callbacks' = [callbacks EXCEPT ![m] = IF Len(@) < 2 THEN Append(@, "Subscribe") ELSE @]
      BY <1>5, <2>4 DEF SendFails, Report
    <3>2. callbacks[m] \in Seq({"Publish", "Subscribe"})
      BY <2>1 DEF IInv, TypeOK
    <3>3. /\ Append(callbacks[m], "Subscribe") # <<>>
          /\ ~(Len(callbacks[m]) < 2) => callbacks[m] # <<>>
      BY <3>2
    <3>4. callbacks'[m] # <<>> /\ \A k \in Messages : k # m => callbacks'[k] = callbacks[k]
      BY <2>1, <3>1, <3>3 DEF IInv, TypeOK
    <3>5. Reported' = Reported \union {m}
      BY <2>1, <3>4 DEF Reported
    <3>6. CASE m \in Reported
      BY <2>2, <3>5, <3>6
    <3>7. CASE m \notin Reported
      BY <2>1, <2>2, <3>5, <3>7 DEF Promise!Next, Promise!Report, Stored, Sent, Reported, Removed
    <3> QED BY <3>6, <3>7
  <2> QED BY <2>3, <2>4
<1>6. ASSUME NEW w \in Workers, SendThrows(w) \/ WriteThrows(w)
      PROVE  UNCHANGED Seen
  BY <1>6 DEF SendThrows, WriteThrows, Stored, Sent, Reported, Removed
<1>7. ASSUME NEW w \in Workers, SetSucceededState(w) \/ SetFailedState(w)
      PROVE  UNCHANGED Seen
  <2>1. copy[w].msg \in Messages /\ status[copy[w].msg] # "Absent"
    BY <1>7 DEF SetSucceededState, SetFailedState, IInv, CopiesSane
  <2>2. /\ \E state \in {"Succeeded", "Failed"} : Write(w, state)
        /\ UNCHANGED <<sends, callbacks>>
    BY <1>7 DEF SetSucceededState, SetFailedState
  <2> QED BY <2>1, <2>2, WriteInvisible
<1>8. ASSUME NEW m \in Messages, Age(m) \/ Expire(m)
      PROVE  UNCHANGED Seen
  BY <1>8 DEF Age, Expire, Stored, Sent, Reported, Removed
<1>9. ASSUME NEW m \in Messages, Collect(m)
      PROVE  Promise!Remove(m)
  <2>1. m \in (Sent \union Reported) \ Removed
    BY <1>9 DEF Collect, IInv, ExpiredIsSettled, Settled, Sent, Reported, Removed
  <2>2. Removed' = Removed \union {m}
    BY <1>9 DEF Collect, Removed, IInv, TypeOK
  <2>3. status[m] # "Absent"
    BY <1>9 DEF Collect, IInv, AbsentUntouched
  <2>4. UNCHANGED <<Stored, Sent, Reported>>
    BY <1>9, <2>3 DEF Collect, Stored, Sent, Reported, IInv, TypeOK
  <2> QED BY <2>1, <2>2, <2>4 DEF Promise!Remove, Stored, Sent, Reported, Removed
<1>10. ASSUME NEW n \in Nodes, NodeStep(n)
       PROVE  [Promise!Next]_Seen
  BY <1>2, <1>3, <1>10 DEF NodeStep, Promise!Next
<1>11. ASSUME NEW w \in Workers, SendAsync(w)
       PROVE  [Promise!Next]_Seen
  BY <1>4, <1>5, <1>6, <1>7, <1>11 DEF SendAsync
<1>12. ASSUME NEW m \in Messages, RowStep(m)
       PROVE  [Promise!Next]_Seen
  BY <1>8, <1>9, <1>12 DEF RowStep, Promise!Next
<1> QED BY <1>1, <1>10, <1>11, <1>12 DEF Next

(* Every behaviour of the delivery in which no row expires under its       *)
(* retries is one of the Outbox, however old the copies in memory are.     *)
THEOREM Implementation == RetriesInTime => (Spec => ImplementsOutbox)
<1> SUFFICES ASSUME RetriesInTime PROVE Spec => ImplementsOutbox
  OBVIOUS
<1>1. IInv /\ [Next]_vars => [Promise!Next]_(Promise!outboxVars)
  <2> SUFFICES ASSUME IInv, [Next]_vars PROVE [Promise!Next]_(Promise!outboxVars)
    OBVIOUS
  <2>1. Promise!outboxVars = <<Stored, Sent, Reported, Removed>>
    BY DEF Promise!outboxVars, Stored, Sent, Reported, Removed
  <2>2. [Promise!Next]_<<Stored, Sent, Reported, Removed>>
    BY OutboxStep
  <2> QED BY <2>1, <2>2 DEF Promise!outboxVars, Stored, Sent, Reported, Removed
<1> QED BY <1>1, OutboxInit, Invariance, PTL DEF Spec, ImplementsOutbox, Promise!Spec

=============================================================================
