------------------------ MODULE ConsumerRegisterProofs ------------------------
(***************************************************************************)
(* Proofs about ConsumerRegister for any number of groups, restarts,       *)
(* connections and outages: whoever listens can be told to stop, and a     *)
(* client that could not be created is not forgotten.                      *)
(***************************************************************************)
EXTENDS ConsumerRegister, TLAPS

(* The two registers use tokens of their own; before a register is started *)
(* it has no tasks.                                                        *)
RegistersApart ==
    /\ cts["hosted"] \in {NoToken, 0} /\ cts["checked"] # 0
    /\ \A t \in Tasks : cts[RegisterOf(t)] = NoToken => at[t] = "ended"

(* Inside ReStart the tasks of the last one are cancelled, and the flag is *)
(* still down.                                                             *)
PulsedIsCancelled ==
    checker = "pulsed" => /\ ~isHealthy
                          /\ cts["checked"] # NoToken => cts["checked"] \in cancelled

(* Nobody but the stopping application and the next ReStart cancels what   *)
(* was started last.                                                       *)
CancelledOnPurpose ==
    /\ 0 \in cancelled => stopped
    /\ cts["checked"] \in cancelled => checker = "pulsed"

(* A client that subscribes or listens has a connection; a listener of the *)
(* bootstrapper's register is the only one with its token.                 *)
ClientsSane ==
    \A t \in Tasks :
        /\ at[t] \in {"subscribe", "listening"} => conn[t] # 0
        /\ at[t] = "listening" /\ token[t] = 0 => t[1] = 0

(* The token of the task of the last Start is the one it was started with. *)
LatestHasItsToken ==
    \A g \in Groups : at[Latest(g)] = "listening" => token[Latest(g)] = Latest(g)[1]

(* A task of the last Start ended only because its client could not be     *)
(* created, which the flag still says, or because the application stops.   *)
Started == cts["hosted"] # NoToken \/ cts["checked"] # NoToken
FailureIsKnown ==
    \A g \in Groups : Started /\ at[Latest(g)] = "ended" => ~isHealthy \/ stopped

IInv == /\ TypeOK /\ RegistersApart /\ PulsedIsCancelled /\ CancelledOnPurpose
        /\ ClientsSane /\ LatestHasItsToken /\ FailureIsKnown /\ EveryListenerCanBeStopped

-----------------------------------------------------------------------------
States == {"queued", "connect", "createModel", "subscribe", "listening", "broken", "ended"}

LEMMA TasksArePairs ==
    /\ \A t \in Tasks : t[1] \in Tokens /\ t[2] \in Groups /\ t = <<t[1], t[2]>>
    /\ \A k \in Tokens, g \in Groups : <<k, g>> \in Tasks /\ <<k, g>>[1] = k
  BY DEF Tasks

LEMMA LatestIsTask ==
    ASSUME TypeOK, NEW g \in Groups
    PROVE  /\ Latest(g) \in Tasks
           /\ Latest(g)[1] = IF cts["checked"] = NoToken THEN 0 ELSE cts["checked"]
  BY BoundAssumption DEF TypeOK, Latest, Tasks, Tokens, NoToken, Registers

LEMMA Initial == Init => IInv
<1> SUFFICES ASSUME Init
             PROVE  IInv
  OBVIOUS
<1>1. TypeOK
  <2>1. /\ 0 \in 0 .. MaxOutages /\ 0 \in Conns \union {0} /\ NoToken \in Tokens \union {NoToken}
        /\ cancelled \subseteq Tokens
    BY BoundAssumption DEF Init
  <2>2. /\ cts \in [Registers -> Tokens \union {NoToken}] /\ at \in [Tasks -> States]
        /\ token \in [Tasks -> Tokens \union {NoToken}]
    BY <2>1 DEF Init, States
  <2>3. /\ conn \in [Tasks -> Conns \union {0}] /\ connection \in Conns \union {0}
        /\ state \in [Conns -> {"open", "lost", "disposed"}]
    BY <2>1 DEF Init
  <2>4. /\ isHealthy \in BOOLEAN /\ checker \in {"waiting", "pulsed"} /\ stopped \in BOOLEAN
        /\ cut \in BOOLEAN /\ sender \in {"idle", "connect"} /\ up \in BOOLEAN
        /\ outages \in 0 .. MaxOutages
    BY <2>1 DEF Init
  <2> QED BY <2>1, <2>2, <2>3, <2>4 DEF TypeOK, States
<1>2. RegistersApart /\ PulsedIsCancelled /\ CancelledOnPurpose /\ ClientsSane
  BY DEF Init, RegistersApart, PulsedIsCancelled, CancelledOnPurpose, ClientsSane, Registers,
         RegisterOf, NoToken
<1>3. LatestHasItsToken
  BY <1>1, LatestIsTask DEF Init, LatestHasItsToken
<1>4. FailureIsKnown /\ EveryListenerCanBeStopped
  BY DEF Init, FailureIsKnown, Started, EveryListenerCanBeStopped, Registers
<1> QED BY <1>1, <1>2, <1>3, <1>4 DEF IInv

(* What Begin leaves behind.                                               *)
LEMMA BeginEffect ==
    ASSUME TypeOK, NEW r \in Registers, NEW k \in Tokens, Begin(r, k)
    PROVE  /\ cts' \in [Registers -> Tokens \union {NoToken}]
           /\ cts'[r] = k
           /\ \A s \in Registers : s # r => cts'[s] = cts[s]
           /\ cancelled' = cancelled \ {k}
           /\ at' \in [Tasks -> States]
           /\ token' \in [Tasks -> Tokens \union {NoToken}]
           /\ conn' \in [Tasks -> Conns \union {0}]
           /\ \A t \in Tasks : IF t[1] = k THEN at'[t] = "queued"
                               ELSE at'[t] = at[t] /\ token'[t] = token[t] /\ conn'[t] = conn[t]
  BY DEF TypeOK, Begin, States

-----------------------------------------------------------------------------
(* The steps of the registers                                              *)

LEMMA StartStep == IInv /\ Start => IInv'
<1> SUFFICES ASSUME IInv, Start
             PROVE  IInv'
  OBVIOUS
<1> USE DEF IInv
<1>1. /\ cts["hosted"] = NoToken /\ Begin("hosted", 0) /\ 0 \in Tokens /\ "hosted" \in Registers
      /\ UNCHANGED <<isHealthy, checker, stopped, poolVars, sender, brokerVars>>
  BY BoundAssumption DEF Start, Tokens, Registers
<1>2. TypeOK'
  BY <1>1, BeginEffect DEF TypeOK, States, poolVars, brokerVars
<1>3. /\ cts'["hosted"] = 0 /\ cts'["checked"] = cts["checked"] /\ cancelled' = cancelled \ {0}
      /\ \A t \in Tasks : IF t[1] = 0 THEN at'[t] = "queued"
                          ELSE at'[t] = at[t] /\ token'[t] = token[t] /\ conn'[t] = conn[t]
  BY <1>1, BeginEffect DEF Registers
<1>4. RegistersApart' /\ PulsedIsCancelled' /\ CancelledOnPurpose'
  BY <1>1, <1>3 DEF RegistersApart, PulsedIsCancelled, CancelledOnPurpose, RegisterOf, NoToken, TypeOK, Registers
<1>5. ClientsSane'
  BY <1>3 DEF ClientsSane
<1>6. LatestHasItsToken'
  BY <1>2, <1>3, LatestIsTask DEF LatestHasItsToken, Latest, RegistersApart
<1>7. FailureIsKnown'
  <2> SUFFICES ASSUME NEW g \in Groups, at'[Latest(g)] = "ended"
               PROVE  ~isHealthy \/ stopped
    BY <1>1, <1>3 DEF FailureIsKnown, Latest
  <2>1. Latest(g) \in Tasks /\ Latest(g)[1] # 0
    BY <1>3, LatestIsTask
  <2>2. cts["checked"] # NoToken
    BY <2>1, LatestIsTask
  <2> QED BY <1>3, <2>1, <2>2 DEF FailureIsKnown, Started
<1>8. EveryListenerCanBeStopped'
  <2> SUFFICES ASSUME NEW t \in Tasks, at'[t] = "listening"
               PROVE  token'[t] \in cancelled' \/ token'[t] = cts'[RegisterOf(t)]
    BY DEF EveryListenerCanBeStopped
  <2>1. t[1] # 0 /\ at[t] = "listening" /\ token'[t] = token[t]
    BY <1>3
  <2>2. token[t] # 0
    BY <2>1 DEF ClientsSane
  <2> QED BY <1>3, <2>1, <2>2 DEF EveryListenerCanBeStopped, RegisterOf
<1> QED BY <1>2, <1>4, <1>5, <1>6, <1>7, <1>8

LEMMA ReStartStep == IInv /\ ReStart => IInv'
<1> SUFFICES ASSUME IInv, ReStart
             PROVE  IInv'
  OBVIOUS
<1> USE DEF IInv
<1>1. PICK k \in Tokens \ {0} :
         /\ ~TokenInUse(k) /\ Begin("checked", k) /\ "checked" \in Registers
         /\ checker = "pulsed" /\ isHealthy' = TRUE /\ checker' = "waiting"
         /\ UNCHANGED <<stopped, poolVars, sender, brokerVars>>
  BY DEF ReStart, Registers
<1>2. TypeOK'
  BY <1>1, BeginEffect DEF TypeOK, States, poolVars, brokerVars
<1>3. /\ cts'["checked"] = k /\ cts'["hosted"] = cts["hosted"] /\ cancelled' = cancelled \ {k}
      /\ \A t \in Tasks : IF t[1] = k THEN at'[t] = "queued"
                          ELSE at'[t] = at[t] /\ token'[t] = token[t] /\ conn'[t] = conn[t]
      /\ k \in Nat /\ k # NoToken
  BY <1>1, BeginEffect DEF Registers, Tokens, NoToken
<1>4. \A t \in Tasks : at[t] = "listening" => token[t] # k
  BY <1>1 DEF TokenInUse, Live
<1>5. RegistersApart' /\ PulsedIsCancelled' /\ CancelledOnPurpose'
  BY <1>1, <1>3 DEF RegistersApart, PulsedIsCancelled, CancelledOnPurpose, RegisterOf
<1>6. ClientsSane'
  BY <1>3 DEF ClientsSane
<1>7. \A g \in Groups : at'[Latest(g)'] = "queued"
  BY <1>2, <1>3, LatestIsTask, TasksArePairs DEF Latest
<1>8. LatestHasItsToken' /\ FailureIsKnown'
  BY <1>7 DEF LatestHasItsToken, FailureIsKnown
<1>9. EveryListenerCanBeStopped'
  <2> SUFFICES ASSUME NEW t \in Tasks, at'[t] = "listening"
               PROVE  token'[t] \in cancelled' \/ token'[t] = cts'[RegisterOf(t)]
    BY DEF EveryListenerCanBeStopped
  <2>1. at[t] = "listening" /\ token'[t] = token[t] /\ token[t] # k
    BY <1>3, <1>4
  <2>2. CASE RegisterOf(t) = "hosted"
    BY <1>3, <2>1, <2>2 DEF EveryListenerCanBeStopped
  <2>3. CASE RegisterOf(t) = "checked"
    <3>1. cts["checked"] # NoToken
      BY <2>1, <2>3 DEF RegistersApart
    <3>2. cts["checked"] \in cancelled
      BY <1>1, <3>1 DEF PulsedIsCancelled
    <3> QED BY <1>3, <2>1, <2>3, <3>2 DEF EveryListenerCanBeStopped
  <2> QED BY <2>2, <2>3 DEF RegisterOf
<1> QED BY <1>2, <1>5, <1>6, <1>8, <1>9

LEMMA CancelStep == IInv /\ (Stop \/ Pulse) => IInv'
<1> SUFFICES ASSUME IInv, Stop \/ Pulse
             PROVE  IInv'
  OBVIOUS
<1> USE DEF IInv
<1>1. /\ UNCHANGED <<isHealthy, cts, taskVars, poolVars, sender, brokerVars>>
      /\ \/ /\ stopped' = TRUE /\ checker' = checker
            /\ cancelled' = cancelled \union ({cts["hosted"]} \ {NoToken})
         \/ /\ stopped' = stopped /\ checker' = "pulsed" /\ ~isHealthy
            /\ cancelled' = cancelled \union ({cts["checked"]} \ {NoToken})
  BY DEF Stop, Pulse, Cancel
<1>2. TypeOK'
  BY <1>1 DEF TypeOK, Registers, taskVars, poolVars, brokerVars
<1>3. RegistersApart' /\ PulsedIsCancelled' /\ CancelledOnPurpose'
  BY <1>1 DEF RegistersApart, PulsedIsCancelled, CancelledOnPurpose, taskVars, RegisterOf
<1>4. ClientsSane' /\ LatestHasItsToken' /\ FailureIsKnown' /\ EveryListenerCanBeStopped'
  BY <1>1 DEF ClientsSane, LatestHasItsToken, Latest, FailureIsKnown, Started,
              EveryListenerCanBeStopped, taskVars
<1> QED BY <1>2, <1>3, <1>4

-----------------------------------------------------------------------------
(* The steps of a task                                                     *)

LEMMA NewConnectionTypes ==
    ASSUME TypeOK, NewConnection
    PROVE  /\ connection' \in Conns \union {0}
           /\ state' \in [Conns -> {"open", "lost", "disposed"}]
           /\ UNCHANGED cut
  BY DEF TypeOK, NewConnection

LEMMA TaskTypes == ASSUME TypeOK, NEW t \in Tasks, Step(t) PROVE TypeOK'
<1> USE DEF TypeOK, registerVars, poolVars, brokerVars, Goes
<1>1. CASE RunTask(t)
  BY <1>1 DEF RunTask
<1>2. CASE Connect(t)
  BY <1>2, NewConnectionTypes DEF Connect
<1>3. CASE CreateModel(t) \/ CreateThrows(t)
  BY <1>3 DEF CreateModel, CreateThrows
<1>4. CASE Listen(t)
  <2>1. RegisterOf(t) \in Registers
    BY DEF RegisterOf, Registers
  <2> QED BY <1>4, <2>1 DEF Listen
<1>5. CASE ListenThrows(t) \/ ListenEnds(t)
  BY <1>5 DEF ListenThrows, ListenEnds, Dispose
<1> QED BY <1>1, <1>2, <1>3, <1>4, <1>5 DEF Step

(* A task changes nothing of the registers but the flag, and nothing of    *)
(* another task.                                                           *)
LEMMA StepIsLocal ==
    ASSUME TypeOK, NEW t \in Tasks, Step(t)
    PROVE  /\ UNCHANGED <<cts, cancelled, checker, stopped>>
           /\ isHealthy' => isHealthy
           /\ at[t] # "ended"
           /\ \A u \in Tasks : u # t => at'[u] = at[u] /\ token'[u] = token[u] /\ conn'[u] = conn[u]
<1> USE DEF TypeOK, registerVars, Goes
<1>1. CASE RunTask(t) \/ Connect(t)
  BY <1>1 DEF RunTask, Connect
<1>2. CASE CreateModel(t) \/ CreateThrows(t) \/ Listen(t)
  BY <1>2 DEF CreateModel, CreateThrows, Listen
<1>3. CASE ListenThrows(t) \/ ListenEnds(t)
  BY <1>3 DEF ListenThrows, ListenEnds, Dispose
<1> QED BY <1>1, <1>2, <1>3 DEF Step

(* What a task is and has after a step.                                    *)
LEMMA StepResult ==
    ASSUME IInv, NEW t \in Tasks, Step(t)
    PROVE  /\ at'[t] \in {"subscribe", "listening"} => conn'[t] # 0
           /\ at'[t] = "listening" => token'[t] = cts[RegisterOf(t)]
           /\ at'[t] = "ended" => \/ ~isHealthy'
                                  \/ at[t] = "queued" /\ t[1] \in cancelled
                                  \/ at[t] = "listening" /\ token[t] \in cancelled
<1> USE DEF IInv, TypeOK, registerVars, Goes
<1>1. CASE RunTask(t) \/ Connect(t)
  BY <1>1 DEF RunTask, Connect
<1>2. CASE CreateModel(t)
  BY <1>2 DEF CreateModel, IsOpen
<1>3. CASE CreateThrows(t)
  BY <1>3 DEF CreateThrows
<1>4. CASE Listen(t)
  BY <1>4 DEF Listen, ClientsSane
<1>5. CASE ListenThrows(t) \/ ListenEnds(t)
  BY <1>5 DEF ListenThrows, ListenEnds, Dispose
<1> QED BY <1>1, <1>2, <1>3, <1>4, <1>5 DEF Step

LEMMA TaskStep == ASSUME IInv, NEW t \in Tasks, Step(t) PROVE IInv'
<1> USE DEF IInv
<1>1. TypeOK'
  BY TaskTypes
<1>2. /\ UNCHANGED <<cts, cancelled, checker, stopped>>
      /\ isHealthy' => isHealthy
      /\ at[t] # "ended"
      /\ \A u \in Tasks : u # t => at'[u] = at[u] /\ token'[u] = token[u] /\ conn'[u] = conn[u]
  BY StepIsLocal
<1>3. cts[RegisterOf(t)] # NoToken
  BY <1>2 DEF RegistersApart
<1>4. RegistersApart' /\ PulsedIsCancelled' /\ CancelledOnPurpose'
  BY <1>2, <1>3 DEF RegistersApart, PulsedIsCancelled, CancelledOnPurpose, TypeOK
<1>5. ClientsSane' /\ EveryListenerCanBeStopped'
  BY <1>2, StepResult DEF ClientsSane, EveryListenerCanBeStopped, RegistersApart, RegisterOf
<1>6. \A g \in Groups : Latest(g)' = Latest(g)
  BY <1>2 DEF Latest
<1>7. LatestHasItsToken'
  <2> SUFFICES ASSUME NEW g \in Groups, Latest(g) = t, at'[t] = "listening"
               PROVE  token'[t] = t[1]
    BY <1>2, <1>6, LatestIsTask DEF LatestHasItsToken
  <2>1. token'[t] = cts[RegisterOf(t)]
    BY StepResult
  <2>2. CASE cts["checked"] = NoToken
    BY <1>3, <2>1, <2>2, LatestIsTask DEF RegisterOf, RegistersApart
  <2>3. CASE cts["checked"] # NoToken
    BY <2>1, <2>3, LatestIsTask DEF RegisterOf, RegistersApart
  <2> QED BY <2>2, <2>3
<1>8. FailureIsKnown'
  <2> SUFFICES ASSUME NEW g \in Groups, at'[Latest(g)] = "ended"
               PROVE  ~isHealthy' \/ stopped
    BY <1>2, <1>6 DEF FailureIsKnown
  <2>1. CASE Latest(g) # t
    BY <1>2, <1>3, <2>1, LatestIsTask DEF FailureIsKnown, Started, RegisterOf
  <2>2. CASE Latest(g) = t
    <3>1. CASE t[1] \in cancelled
      <4>1. t[1] = 0 \/ t[1] = cts["checked"]
        BY <2>2, LatestIsTask
      <4>2. stopped \/ checker = "pulsed"
        BY <3>1, <4>1 DEF CancelledOnPurpose
      <4> QED BY <1>2, <4>2 DEF PulsedIsCancelled, TypeOK
    <3>2. CASE t[1] \notin cancelled
      BY <2>2, <3>2, StepResult DEF LatestHasItsToken
    <3> QED BY <3>1, <3>2
  <2> QED BY <2>1, <2>2
<1> QED BY <1>1, <1>4, <1>5, <1>7, <1>8

(* Senders and the broker change connections only.                         *)
LEMMA OutsideStep ==
    ASSUME IInv, Rent \/ RentConnects \/ Outage \/ ComesBack \/ (\E c \in Conns : Recover(c))
    PROVE  IInv'
<1> USE DEF IInv
<1>1. UNCHANGED <<registerVars, taskVars>>
  BY DEF Rent, RentConnects, Outage, ComesBack, Recover
<1>2. TypeOK'
  <2> USE DEF TypeOK, registerVars, taskVars, poolVars, brokerVars
  <2>1. CASE Rent \/ ComesBack \/ (\E c \in Conns : Recover(c))
    BY <2>1 DEF Rent, ComesBack, Recover
  <2>2. CASE RentConnects
    BY <2>2, NewConnectionTypes DEF RentConnects
  <2>3. CASE Outage
    <3>1. outages' \in 0 .. MaxOutages
      BY <2>3, BoundAssumption DEF Outage
    <3>2. state' \in [Conns -> {"open", "lost", "disposed"}]
      BY <2>3 DEF Outage
    <3> QED BY <2>3, <3>1, <3>2 DEF Outage
  <2> QED BY <2>1, <2>2, <2>3
<1>3. RegistersApart' /\ PulsedIsCancelled' /\ CancelledOnPurpose' /\ ClientsSane'
  BY <1>1 DEF registerVars, taskVars, RegistersApart, PulsedIsCancelled, CancelledOnPurpose,
              ClientsSane
<1>4. LatestHasItsToken' /\ FailureIsKnown' /\ EveryListenerCanBeStopped'
  BY <1>1 DEF registerVars, taskVars, LatestHasItsToken, Latest, FailureIsKnown, Started,
              EveryListenerCanBeStopped
<1> QED BY <1>2, <1>3, <1>4

LEMMA Inductive == IInv /\ [Next]_vars => IInv'
<1> SUFFICES ASSUME IInv, [Next]_vars
             PROVE  IInv'
  OBVIOUS
<1>1. CASE UNCHANGED vars
  BY <1>1
  DEF vars, registerVars, taskVars, poolVars, brokerVars, IInv, TypeOK, RegistersApart,
      PulsedIsCancelled, CancelledOnPurpose, ClientsSane, LatestHasItsToken, Latest,
      FailureIsKnown, Started, EveryListenerCanBeStopped
<1>2. CASE Start \/ Stop \/ Pulse \/ ReStart
  BY <1>2, StartStep, CancelStep, ReStartStep
<1>3. ASSUME NEW t \in Tasks, Step(t) PROVE IInv'
  BY <1>3, TaskStep
<1>4. CASE Rent \/ RentConnects \/ Outage \/ ComesBack \/ (\E c \in Conns : Recover(c))
  BY <1>4, OutsideStep
<1> QED BY <1>1, <1>2, <1>3, <1>4 DEF Next

(* When all is quiet, the task of the last Start listens or was cut off.   *)
LEMMA QuietIsHeard == IInv => NoFailureForgotten
<1> SUFFICES ASSUME IInv, Quiet, NEW g \in Groups
             PROVE  Hears(g) \/ CutOff(Latest(g))
  BY DEF NoFailureForgotten
<1> DEFINE t == Latest(g)
<1>1. t \in Tasks /\ t[2] = g
  BY LatestIsTask DEF IInv, Latest
<1>2. at[t] # "ended"
  BY DEF IInv, FailureIsKnown, Started, Quiet
<1>3. CASE at[t] = "broken"
  BY <1>3 DEF CutOff
<1>4. CASE at[t] # "broken"
  <2>1. at[t] = "listening"
    BY <1>1, <1>2, <1>4 DEF Quiet, Live
  <2>2. conn[t] \in Conns /\ conn[t] # 0
    BY <1>1, <2>1 DEF IInv, TypeOK, ClientsSane
  <2>3. state[conn[t]] \in {"open", "disposed"}
    BY <2>2 DEF Quiet, IInv, TypeOK
  <2> QED BY <1>1, <2>1, <2>2, <2>3 DEF Hears, IsOpen, CutOff
<1> QED BY <1>3, <1>4

-----------------------------------------------------------------------------
(* The inductive invariant: what tokens, tasks and the flag know of each   *)
(* other, in whatever order tasks fail and registers are restarted.        *)
THEOREM Invariance == Spec => []IInv
  BY Initial, Inductive, PTL DEF Spec

(* The variables of the registers, clients and connections have their      *)
(* types.                                                                  *)
THEOREM TypeCorrect == Spec => []TypeOK
<1>1. IInv => TypeOK
  BY DEF IInv
<1> QED BY <1>1, Invariance, PTL

(* Whoever listens can be told to stop, although the lambda reads the      *)
(* field _cts when it comes to listen and ReStart may set it before.       *)
THEOREM ListenersCanBeStopped == Spec => []EveryListenerCanBeStopped
<1>1. IInv => EveryListenerCanBeStopped
  BY DEF IInv
<1> QED BY <1>1, Invariance, PTL

(* A client that could not be created is not forgotten: when nothing is    *)
(* under way and the flag is up, every group is heard or the client of the *)
(* last Start was cut off.                                                 *)
THEOREM FailuresAreRemembered == Spec => []NoFailureForgotten
  BY Invariance, QuietIsHeard, PTL

=============================================================================
