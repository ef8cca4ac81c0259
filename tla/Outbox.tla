------------------------------- MODULE Outbox -------------------------------
(***************************************************************************)
(* What CAP promises of a message once its row is committed: it is sent at *)
(* least once, or FailedThresholdCallback reports that the retries are     *)
(* used up, and only then may its row go away.  How often it is sent, by   *)
(* which worker and from which copy is left to the implementation.  The    *)
(* receiving half promises the same of its rows; there "sent" means that   *)
(* the invoker of the subscriber's method came back.                       *)
(***************************************************************************)
CONSTANT Messages

VARIABLES
    stored,      \* messages whose row was committed
    sent,        \* messages handed to the broker, or to the invoker of their subscriber
    reported,    \* messages the threshold callback was called for
    removed      \* messages whose row was deleted

outboxVars == <<stored, sent, reported, removed>>

Init ==
    /\ stored = {}
    /\ sent = {}
    /\ reported = {}
    /\ removed = {}

(* A transaction commits, with the rows of one or more messages.           *)
Store(ms) ==
    /\ ms # {} /\ ms \intersect stored = {}
    /\ stored' = stored \union ms
    /\ UNCHANGED <<sent, reported, removed>>

Send(m) ==
    /\ m \in stored \ sent
    /\ sent' = sent \union {m}
    /\ UNCHANGED <<stored, reported, removed>>

Report(m) ==
    /\ m \in stored \ reported
    /\ reported' = reported \union {m}
    /\ UNCHANGED <<stored, sent, removed>>

Remove(m) ==
    /\ m \in (sent \union reported) \ removed
    /\ removed' = removed \union {m}
    /\ UNCHANGED <<stored, sent, reported>>

Next ==
    \/ \E ms \in SUBSET Messages : Store(ms)
    \/ \E m \in Messages : Send(m) \/ Report(m) \/ Remove(m)

Spec == Init /\ [][Next]_outboxVars

(* Every stored message gets its answer.                                   *)
Settled == \A m \in Messages : m \in stored ~> m \in sent \union reported

LiveSpec == Spec /\ Settled

=============================================================================
