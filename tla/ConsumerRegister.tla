-------------------------- MODULE ConsumerRegister --------------------------
(***************************************************************************)
(* How a node comes to listen to its groups and tries again when it could  *)
(* not: the bootstrapper, the consumer registers, the transport check, the *)
(* RabbitMQ clients and the one connection they share through the pool.    *)
(*                                                                         *)
(* Start runs a task per group, which creates a client, subscribes and     *)
(* listens until its token is cancelled.  A client that cannot be created  *)
(* clears the static flag _isHealthy; the transport check then calls       *)
(* ReStart.  The bootstrapper's register ("hosted") and the one the check  *)
(* restarts ("checked") are two instances with a token source each.        *)
(***************************************************************************)
EXTENDS Integers

CONSTANTS
    Groups,           \* the groups of the subscribers
    MaxRestarts,      \* bound: restarts whose tasks exist at the same time
    MaxConnections,   \* bound: connections that are in use at the same time
    MaxOutages,       \* bound: times the broker is lost
    MayStop           \* does the run look at stopping the application?

ASSUME BoundAssumption == /\ MaxRestarts \in Nat \ {0} /\ MaxConnections \in Nat \ {0}
                          /\ MaxOutages \in Nat /\ MayStop \in BOOLEAN

VARIABLES
    isHealthy,     \* the static field _isHealthy
    cts,           \* per register: the token of _cts, NoToken for null
    cancelled,     \* tokens that are cancelled
    checker,       \* the transport check: "waiting", or "pulsed" inside ReStart
    stopped,       \* the application is stopping
    at,            \* where each task stands
    token,         \* the token each task listens with
    conn,          \* the connection of each task's client
    connection,    \* ConnectionChannelPool._connection, 0 for null
    state,         \* of each connection: "open", "lost" or "disposed"
    cut,           \* has a client been disposed, and its connection with it?
    sender,        \* a sending thread in GetConnection: "idle" or "connect"
    up,            \* can the broker be reached?
    outages

registerVars == <<isHealthy, cts, cancelled, checker, stopped>>
taskVars == <<at, token, conn>>
poolVars == <<connection, state, cut>>
brokerVars == <<up, outages>>
vars == <<registerVars, taskVars, poolVars, sender, brokerVars>>

(* Start k of a register makes token k and the tasks <<k, g>>: 0 is the    *)
(* hosted register's, the others are restarts.  A token or a connection    *)
(* nothing refers to any more is used again; in between it counts as       *)
(* disposed, since nobody can tell.                                        *)
Registers == {"hosted", "checked"}
Tokens == 0 .. MaxRestarts
NoToken == -1
Tasks == Tokens \X Groups
Conns == 1 .. MaxConnections
RegisterOf(t) == IF t[1] = 0 THEN "hosted" ELSE "checked"

Live(t) == at[t] \notin {"broken", "ended"}
TokenInUse(k) == \/ \E r \in Registers : cts[r] = k
                 \/ \E t \in Tasks : Live(t) /\ (t[1] = k \/ token[t] = k)
Held(c) == \E t \in Tasks : conn[t] = c /\ Live(t)
ConnInUse(c) == connection = c \/ Held(c)
IsOpen(c) == c # 0 /\ state[c] = "open"

Init ==
    /\ isHealthy = TRUE
    /\ cts = [r \in Registers |-> NoToken]
    /\ cancelled = {}
    /\ checker = "waiting"
    /\ stopped = FALSE
    /\ at = [t \in Tasks |-> "ended"]
    /\ token = [t \in Tasks |-> NoToken]
    /\ conn = [t \in Tasks |-> 0]
    /\ connection = 0
    /\ state = [c \in Conns |-> "disposed"]
    /\ cut = FALSE
    /\ sender = "idle"
    /\ up = TRUE
    /\ outages = 0

-----------------------------------------------------------------------------
(* The registers                                                           *)

(* Start with the new token k.                                             *)
Begin(r, k) ==
    /\ cts' = [cts EXCEPT ![r] = k]
    /\ cancelled' = cancelled \ {k}
    /\ at' = [t \in Tasks |-> IF t[1] = k THEN "queued" ELSE at[t]]
    /\ token' = [t \in Tasks |-> IF t[1] = k THEN NoToken ELSE token[t]]
    /\ conn' = [t \in Tasks |-> IF t[1] = k THEN 0 ELSE conn[t]]

(* BootstrapCoreAsync starts its register, also when the application was   *)
(* told to stop before.                                                    *)
Start ==
    /\ cts["hosted"] = NoToken
    /\ Begin("hosted", 0)
    /\ UNCHANGED <<isHealthy, checker, stopped, poolVars, sender, brokerVars>>

(* Mutant of Cancel: without the test for null.                            *)
Cancel_NoTest(r) == cancelled' = cancelled \union {cts[r]}

(* Pulse: _cts?.Cancel().                                                  *)
Cancel(r) == cancelled' = cancelled \union ({cts[r]} \ {NoToken})

(* The stopping token disposes the servers: the processors end, the hosted *)
(* register is pulsed.                                                     *)
Stop ==
    /\ MayStop /\ ~stopped
    /\ stopped' = TRUE
    /\ Cancel("hosted")
    /\ UNCHANGED <<isHealthy, cts, checker, taskVars, poolVars, sender, brokerVars>>

(* Mutant of Pulse: the restart does not cancel the tasks before it.       *)
Pulse_Nothing ==
    /\ checker = "waiting" /\ ~stopped /\ ~isHealthy
    /\ checker' = "pulsed"
    /\ UNCHANGED <<isHealthy, cts, cancelled, stopped, taskVars, poolVars, sender, brokerVars>>

(* TransportCheckProcessor finds the register unhealthy; ReStart begins.   *)
Pulse ==
    /\ checker = "waiting" /\ ~stopped /\ ~isHealthy
    /\ Cancel("checked")
    /\ checker' = "pulsed"
    /\ UNCHANGED <<isHealthy, cts, stopped, taskVars, poolVars, sender, brokerVars>>

(* Mutant of ReStart: it starts the tasks and then, in the step after,     *)
(* becomes healthy.                                                        *)
ReStart_HealthyLast ==
    \/ /\ checker = "pulsed"
       /\ \E k \in Tokens \ {0} : ~TokenInUse(k) /\ Begin("checked", k)
       /\ checker' = "started"
       /\ UNCHANGED <<isHealthy, stopped, poolVars, sender, brokerVars>>
    \/ /\ checker = "started"
       /\ checker' = "waiting" /\ isHealthy' = TRUE
       /\ UNCHANGED <<cts, cancelled, stopped, taskVars, poolVars, sender, brokerVars>>

(* The rest of ReStart: _isHealthy = true and Start.                       *)
ReStart ==
    /\ checker = "pulsed"
    /\ isHealthy' = TRUE
    /\ \E k \in Tokens \ {0} :
          /\ ~TokenInUse(k)
          /\ \A j \in 1 .. k - 1 : TokenInUse(j)
          /\ Begin("checked", k)
    /\ checker' = "waiting"
    /\ UNCHANGED <<stopped, poolVars, sender, brokerVars>>

-----------------------------------------------------------------------------
(* A task of Start, with the client it creates                             *)

Goes(t, from, to) == at[t] = from /\ at' = [at EXCEPT ![t] = to]

(* A task whose token is cancelled before it runs is not run.  One that    *)
(* runs begins with GetConnection, which tests the connection there is ... *)
RunTask(t) ==
    /\ Goes(t, "queued", IF t[1] \in cancelled THEN "ended"
                         ELSE IF IsOpen(connection) THEN "createModel" ELSE "connect")
    /\ UNCHANGED <<registerVars, token, conn, poolVars, sender, brokerVars>>

(* ... and makes a new one, which replaces whatever is there by now.       *)
NewConnection ==
    /\ up
    /\ \E c \in Conns :
          /\ ~ConnInUse(c) /\ \A d \in 1 .. c - 1 : ConnInUse(d)
          /\ connection' = c
          /\ state' = [d \in Conns |-> IF d = c THEN "open"
                                      ELSE IF d = connection /\ ~Held(d) THEN "disposed"
                                      ELSE state[d]]
    /\ UNCHANGED cut

Connect(t) ==
    /\ Goes(t, "connect", "createModel")
    /\ NewConnection
    /\ UNCHANGED <<registerVars, token, conn, sender, brokerVars>>

(* GetConnection returns the field, whoever set it last; on what it        *)
(* returned a channel is created, the exchange and the queue declared.     *)
CreateModel(t) ==
    /\ IsOpen(connection)
    /\ Goes(t, "createModel", "subscribe")
    /\ conn' = [conn EXCEPT ![t] = connection]
    /\ UNCHANGED <<registerVars, token, poolVars, sender, brokerVars>>

(* Mutant of CreateThrows: the exception is logged as any other.           *)
CreateThrows_OnlyLogged(t) ==
    /\ \/ Goes(t, "connect", "ended") /\ ~up
       \/ Goes(t, "createModel", "ended") /\ ~IsOpen(connection)
    /\ UNCHANGED <<registerVars, token, conn, poolVars, sender, brokerVars>>

(* Creating the client fails: BrokerConnectionException.                   *)
CreateThrows(t) ==
    /\ \/ Goes(t, "connect", "ended") /\ ~up
       \/ Goes(t, "createModel", "ended") /\ ~IsOpen(connection)
    /\ isHealthy' = FALSE
    /\ UNCHANGED <<cts, cancelled, checker, stopped, token, conn, poolVars, sender, brokerVars>>

(* Subscribe binds the queue, then the field _cts is read and Listening    *)
(* consumes and loops.                                                     *)
Listen(t) ==
    /\ IsOpen(conn[t])
    /\ Goes(t, "subscribe", "listening")
    /\ token' = [token EXCEPT ![t] = cts[RegisterOf(t)]]
    /\ UNCHANGED <<registerVars, conn, poolVars, sender, brokerVars>>

(* The using block disposes the client and with it the connection, whoever *)
(* else has it.                                                            *)
Dispose(t) == /\ state' = [state EXCEPT ![conn[t]] = "disposed"]
              /\ cut' = TRUE
              /\ conn' = [conn EXCEPT ![t] = 0]
              /\ token' = [token EXCEPT ![t] = NoToken]
              /\ UNCHANGED <<registerVars, connection, sender, brokerVars>>

(* Binding or consuming throws: the exception is logged.                   *)
ListenThrows(t) ==
    /\ ~IsOpen(conn[t])
    /\ Goes(t, "subscribe", "broken")
    /\ Dispose(t)

(* ThrowIfCancellationRequested in the loop.                               *)
ListenEnds(t) ==
    /\ token[t] \in cancelled
    /\ Goes(t, "listening", "ended")
    /\ Dispose(t)

-----------------------------------------------------------------------------
(* A sender renting a channel, and the broker                              *)

Rent ==
    /\ sender = "idle" /\ ~IsOpen(connection)
    /\ sender' = "connect"
    /\ UNCHANGED <<registerVars, taskVars, poolVars, brokerVars>>

RentConnects ==
    /\ sender = "connect"
    /\ sender' = "idle"
    /\ NewConnection \/ (~up /\ UNCHANGED poolVars)
    /\ UNCHANGED <<registerVars, taskVars, brokerVars>>

(* The broker is lost and comes back; connections that were not disposed   *)
(* recover with their channels and consumers (AutomaticRecoveryEnabled, as *)
(* RabbitMQ.Client 5.1 has it by default).                                 *)
Outage ==
    /\ up /\ outages < MaxOutages
    /\ up' = FALSE
    /\ outages' = outages + 1
    /\ state' = [c \in Conns |-> IF state[c] = "open" THEN "lost" ELSE state[c]]
    /\ UNCHANGED <<registerVars, taskVars, connection, cut, sender>>

ComesBack ==
    /\ ~up
    /\ up' = TRUE
    /\ UNCHANGED <<registerVars, taskVars, poolVars, sender, outages>>

Recover(c) ==
    /\ up /\ state[c] = "lost"
    /\ state' = [state EXCEPT ![c] = "open"]
    /\ UNCHANGED <<registerVars, taskVars, connection, cut, sender, brokerVars>>

-----------------------------------------------------------------------------
Step(t) ==
    \/ RunTask(t) \/ Connect(t) \/ CreateModel(t) \/ CreateThrows(t)
    \/ Listen(t) \/ ListenThrows(t) \/ ListenEnds(t)

Next ==
    \/ Start \/ Stop \/ Pulse \/ ReStart
    \/ \E t \in Tasks : Step(t)
    \/ Rent \/ RentConnects
    \/ Outage \/ ComesBack \/ \E c \in Conns : Recover(c)

Spec == Init /\ [][Next]_vars

(* The bootstrapper starts, tasks and the processor's loop run, the broker *)
(* comes back and connections recover.                                     *)
FairSpec ==
    /\ Spec
    /\ WF_vars(Start) /\ WF_vars(Pulse) /\ WF_vars(ReStart)
    /\ \A t \in Tasks : WF_vars(Step(t))
    /\ WF_vars(RentConnects)
    /\ WF_vars(ComesBack) /\ \A c \in Conns : WF_vars(Recover(c))

-----------------------------------------------------------------------------
(* Properties                                                              *)

TypeOK ==
    /\ isHealthy \in BOOLEAN
    /\ cts \in [Registers -> Tokens \union {NoToken}]
    /\ cancelled \subseteq Tokens
    /\ checker \in {"waiting", "pulsed"}
    /\ stopped \in BOOLEAN
    /\ at \in [Tasks -> {"queued", "connect", "createModel", "subscribe",
                         "listening", "broken", "ended"}]
    /\ token \in [Tasks -> Tokens \union {NoToken}]
    /\ conn \in [Tasks -> Conns \union {0}]
    /\ connection \in Conns \union {0}
    /\ state \in [Conns -> {"open", "lost", "disposed"}]
    /\ cut \in BOOLEAN
    /\ sender \in {"idle", "connect"}
    /\ up \in BOOLEAN
    /\ outages \in 0 .. MaxOutages

Hears(g) == \E t \in Tasks : t[2] = g /\ at[t] = "listening" /\ IsOpen(conn[t])

(* The tasks of the last Start.                                            *)
Latest(g) == <<IF cts["checked"] = NoToken THEN 0 ELSE cts["checked"], g>>

(* A client could not be bound or consume, or its connection was disposed  *)
(* under it by another client: the flag does not know of this.             *)
CutOff(t) == at[t] = "broken" \/ (at[t] = "listening" /\ state[conn[t]] = "disposed")

(* Nothing is under way that would change who listens.                     *)
Quiet ==
    /\ cts["hosted"] # NoToken /\ ~stopped
    /\ isHealthy /\ checker = "waiting"
    /\ \A t \in Tasks : Live(t) => at[t] = "listening" /\ token[t] \notin cancelled
    /\ \A c \in Conns : state[c] # "lost"

(* A client that could not be created is never forgotten, in whatever      *)
(* order tasks fail, the check looks and ReStart sets the flag: when all   *)
(* is quiet a group is heard, or the task of the last Start was cut off.   *)
NoFailureForgotten == Quiet => \A g \in Groups : Hears(g) \/ CutOff(Latest(g))

(* Whoever listens can be told to stop: its token is cancelled or is the   *)
(* one its register would cancel, although it reads the field _cts late.   *)
EveryListenerCanBeStopped ==
    \A t \in Tasks : at[t] = "listening" =>
        token[t] \in cancelled \/ token[t] = cts[RegisterOf(t)]

(* When the broker stays, every group is listened to in the end, unless    *)
(* the application stops or some client was cut off.                       *)
ComesToListen ==
    \/ <>[](\A g \in Groups : Hears(g))
    \/ <>(stopped \/ cut)

=============================================================================
