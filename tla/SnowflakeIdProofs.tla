-------------------------- MODULE SnowflakeIdProofs -------------------------
(***************************************************************************)
(* Proofs about SnowflakeId for every set of workers and threads and every *)
(* width of an id: as long as no clock stands, after a restart, where it   *)
(* stood before, a process numbers no two of its ids alike, and ids with   *)
(* different parts are different while their times are close.              *)
(***************************************************************************)
EXTENDS SnowflakeId, SequenceTheorems, TLAPS

(* Only the thread that owns the lock is inside it.                        *)
LockExclusive ==
    \A w \in Workers, t \in Threads : pc[<<w, t>>] # "idle" => lock[w] = t

(* A generator knows all the times it has to stay clear of: there was no   *)
(* restart, or the clock is kept across restarts.                          *)
Kept == ClockKept \/ restarts = 0

(* An earlier process there is only after a restart; the clock is past     *)
(* every time such a process used.                                         *)
ClockAfterFloor ==
    /\ restarts = 0 => \A w \in Workers : floor[w] = -1
    /\ \A w \in Workers : clock[w] > floor[w]

(* n is from an earlier process, or from an earlier tick than at.          *)
Older(w, n, at) == n.at <= floor[w] \/ n.at < at

(* What is issued lies before the last time, or in its tick up to the      *)
(* sequence, which an owner of the lock may already have moved.            *)
IssuedIsPast ==
    \A w \in Workers : \A i \in DOMAIN issued[w] :
        \/ Older(w, issued[w][i], lastTimestamp[w])
        \/ /\ issued[w][i].at = lastTimestamp[w]
           /\ (\A t \in Threads : pc[<<w, t>>] \in {"idle", "read"})
                  => issued[w][i].seq <= sequence[w]

(* The number a thread is about to issue lies after all of them.           *)
IssueIsNext ==
    \A w \in Workers, t \in Threads : pc[<<w, t>>] = "issue" =>
        /\ timestamp[<<w, t>>] > floor[w]
        /\ \A i \in DOMAIN issued[w] :
              \/ Older(w, issued[w][i], timestamp[<<w, t>>])
              \/ /\ issued[w][i].at = timestamp[<<w, t>>]
                 /\ issued[w][i].seq < sequence[w]

(* The ids of a process differ in their time or in their number.           *)
NumbersDiffer ==
    \A w \in Workers : \A i, j \in DOMAIN issued[w] :
        i # j => issued[w][i] # issued[w][j]

(* The inductive invariant as long as the clocks are kept.                 *)
IInv == /\ TypeOK /\ LockExclusive /\ ClockAfterFloor
        /\ IssuedIsPast /\ IssueIsNext /\ NumbersDiffer

-----------------------------------------------------------------------------
(* Arithmetic of the parts of an id                                        *)

LEMMA ProductMonotone ==
    ASSUME NEW x \in Nat, NEW y \in Nat, NEW base \in Nat, x < y
    PROVE  x * base + base <= y * base
<1>1. PICK d \in Nat : y = x + 1 + d
  <2>1. y - x - 1 \in Nat
    OBVIOUS
  <2> QED BY <2>1
<1>2. y * base = x * base + base + d * base
  BY <1>1
<1>3. d * base >= 0
  OBVIOUS
<1> QED BY <1>2, <1>3

(* A digit next to a number can be read off their composition.             *)
LEMMA DigitsAreRead ==
    ASSUME NEW x \in Nat, NEW y \in Nat, NEW base \in Nat,
           NEW r \in 0 .. base - 1, NEW s \in 0 .. base - 1,
           x * base + r = y * base + s
    PROVE  x = y /\ r = s
<1>1. x * base \in Nat /\ y * base \in Nat
  OBVIOUS
<1>2. ~ (x < y)
  BY <1>1, ProductMonotone
<1>3. ~ (y < x)
  BY <1>1, ProductMonotone
<1> QED BY <1>2, <1>3

(* Times closer than the span do not meet when their upper bits are lost.  *)
LEMMA CloseTimesDiffer ==
    ASSUME NEW a \in Nat, NEW b \in Nat, NEW s \in Nat \ {0},
           a % s = b % s, a - b < s, b - a < s
    PROVE  a = b
<1>1. a = s * (a \div s) + (a % s) /\ a % s \in 0 .. s - 1 /\ a \div s \in Nat
  OBVIOUS
<1>2. b = s * (b \div s) + (b % s) /\ b \div s \in Nat
  OBVIOUS
<1>3. (a \div s) * s = s * (a \div s) /\ (b \div s) * s = s * (b \div s)
  BY <1>1, <1>2
<1>4. ~ (a \div s < b \div s)
  BY <1>1, <1>2, <1>3, ProductMonotone
<1>5. ~ (b \div s < a \div s)
  BY <1>1, <1>2, <1>3, ProductMonotone
<1> QED BY <1>1, <1>2, <1>4, <1>5

(* Ids that are equal though their times are close have equal parts.       *)
LEMMA PartsAreRead ==
    ASSUME NEW v \in Workers, NEW w \in Workers,
           NEW m \in Numbers, NEW n \in Numbers,
           m.at - n.at < Span, n.at - m.at < Span,
           Id(m.at, v, m.seq) = Id(n.at, w, n.seq)
    PROVE  v = w /\ m = n
<1> USE WorkerAssumption, WidthAssumption
<1> DEFINE high(k, u) == (k.at % Span) * (MaxWorkerId + 1) + u
<1>1. m.at \in Nat /\ n.at \in Nat /\ m.seq \in 0 .. SequenceMask /\ n.seq \in 0 .. SequenceMask
  BY DEF Numbers
<1>2. m.at % Span \in Nat /\ n.at % Span \in Nat
  BY <1>1
<1>3. v \in 0 .. MaxWorkerId /\ w \in 0 .. MaxWorkerId
  OBVIOUS
<1>4. high(m, v) \in Nat /\ high(n, w) \in Nat
  BY <1>2, <1>3
<1>5. high(m, v) * (SequenceMask + 1) + m.seq = high(n, w) * (SequenceMask + 1) + n.seq
  BY DEF Id
<1> HIDE DEF high
<1>6. SequenceMask + 1 \in Nat /\ SequenceMask = (SequenceMask + 1) - 1
  OBVIOUS
<1>7. high(m, v) = high(n, w) /\ m.seq = n.seq
  BY <1>1, <1>4, <1>5, <1>6, DigitsAreRead
<1>8. MaxWorkerId + 1 \in Nat /\ MaxWorkerId = (MaxWorkerId + 1) - 1
  OBVIOUS
<1>9. m.at % Span = n.at % Span /\ v = w
  BY <1>2, <1>3, <1>7, <1>8, DigitsAreRead DEF high
<1>10. m.at = n.at
  BY <1>1, <1>9, CloseTimesDiffer
<1> QED BY <1>7, <1>9, <1>10 DEF Numbers

(* The property follows from the differing parts.                          *)
LEMMA NumbersDifferSuffices == TypeOK /\ NumbersDiffer => IdsAreUnique
<1> SUFFICES ASSUME TypeOK, NumbersDiffer,
                    NEW v \in Workers, NEW w \in Workers,
                    NEW i \in DOMAIN issued[v], NEW j \in DOMAIN issued[w],
                    issued[v][i].at - issued[w][j].at < Span,
                    issued[w][j].at - issued[v][i].at < Span,
                    Id(issued[v][i].at, v, issued[v][i].seq)
                        = Id(issued[w][j].at, w, issued[w][j].seq)
             PROVE  v = w /\ i = j
  BY DEF IdsAreUnique
<1>1. issued[v][i] \in Numbers /\ issued[w][j] \in Numbers
  BY DEF TypeOK
<1>2. v = w /\ issued[v][i] = issued[w][j]
  BY <1>1, PartsAreRead
<1> QED BY <1>2 DEF NumbersDiffer

-----------------------------------------------------------------------------
(* Type correctness                                                        *)

LEMMA TypeInit == Init => TypeOK
  BY WidthAssumption DEF Init, TypeOK

LEMMA TypeNext == TypeOK /\ [Next]_vars => TypeOK'
<1> SUFFICES ASSUME TypeOK, [Next]_vars PROVE TypeOK'
  OBVIOUS
<1> USE DEF TypeOK, Callers
<1>1. CASE UNCHANGED vars
  BY <1>1 DEF vars, stateVars, boundVars
<1>2. ASSUME NEW w \in Workers, NEW t \in Threads, NextId(w, t)
      PROVE  TypeOK'
  <2>1. CASE Enter(w, t)
    BY <2>1 DEF Enter
  <2>2. CASE Refuse(w, t)
    BY <2>2 DEF Refuse, boundVars
  <2>3. CASE ReadSameTick(w, t)
    BY <2>3, WidthAssumption DEF ReadSameTick, boundVars
  <2>4. CASE ReadLaterTick(w, t)
    BY <2>4, WidthAssumption DEF ReadLaterTick, boundVars
  <2>5. CASE TilNextMillis(w, t)
    BY <2>5 DEF TilNextMillis, boundVars
  <2>6. CASE Issue(w, t)
    <3> DEFINE n == [at |-> timestamp[<<w, t>>], seq |-> sequence[w]]
    <3>1. n \in Numbers
      BY DEF Numbers
    <3>2. Append(issued[w], n) \in Seq(Numbers)
      BY <3>1
    <3>3. issued' \in [Workers -> Seq(Numbers)]
      BY <2>6, <3>2 DEF Issue
    <3> QED BY <2>6, <3>3 DEF Issue, boundVars
  <2> QED BY <1>2, <2>1, <2>2, <2>3, <2>4, <2>5, <2>6 DEF NextId
<1>3. ASSUME NEW w \in Workers, Tick(w) \/ SetBack(w) \/ Restart(w)
      PROVE  TypeOK'
  <2>1. CASE Tick(w)
    BY <2>1 DEF Tick, stateVars, boundVars
  <2>2. CASE SetBack(w)
    BY <2>2 DEF SetBack, stateVars
  <2>3. CASE Restart(w)
    BY <2>3, WidthAssumption DEF Restart
  <2> QED BY <1>3, <2>1, <2>2, <2>3
<1> QED BY <1>1, <1>2, <1>3 DEF Next

(* What is issued has integers for parts.                                  *)
LEMMA IssuedParts ==
    ASSUME TypeOK
    PROVE  \A w \in Workers : \A i \in DOMAIN issued[w] :
               issued[w][i].at \in Nat /\ issued[w][i].seq \in Nat
<1> SUFFICES ASSUME NEW w \in Workers, NEW i \in DOMAIN issued[w]
             PROVE  issued[w][i].at \in Nat /\ issued[w][i].seq \in Nat
  OBVIOUS
<1>1. issued[w] \in Seq(Numbers)
  BY DEF TypeOK
<1>2. issued[w][i] \in Numbers
  BY <1>1
<1> QED BY <1>2, WidthAssumption DEF Numbers

-----------------------------------------------------------------------------
(* The numbers of a process grow: induction                                *)

LEMMA IInvInit == Init => IInv
<1> SUFFICES ASSUME Init PROVE IInv
  OBVIOUS
<1>1. TypeOK
  BY TypeInit
<1>2. LockExclusive /\ ClockAfterFloor
  BY DEF Init, LockExclusive, ClockAfterFloor, Callers
<1>3. IssuedIsPast /\ IssueIsNext /\ NumbersDiffer
  BY DEF Init, IssuedIsPast, IssueIsNext, NumbersDiffer, Callers
<1> QED BY <1>1, <1>2, <1>3 DEF IInv

LEMMA LockNext == TypeOK /\ LockExclusive /\ [Next]_vars => LockExclusive'
<1> SUFFICES ASSUME TypeOK, LockExclusive, [Next]_vars PROVE LockExclusive'
  OBVIOUS
<1> USE ThreadAssumption DEF LockExclusive, TypeOK, Callers
<1>1. CASE UNCHANGED vars
  BY <1>1 DEF vars, stateVars
<1>2. ASSUME NEW w \in Workers, NEW t \in Threads, NextId(w, t)
      PROVE  LockExclusive'
  <2>1. CASE Enter(w, t)
    BY <2>1 DEF Enter
  <2>2. CASE Refuse(w, t)
    BY <2>2 DEF Refuse
  <2>3. CASE ReadSameTick(w, t)
    BY <2>3 DEF ReadSameTick
  <2>4. CASE ReadLaterTick(w, t)
    BY <2>4 DEF ReadLaterTick
  <2>5. CASE TilNextMillis(w, t)
    BY <2>5 DEF TilNextMillis
  <2>6. CASE Issue(w, t)
    BY <2>6 DEF Issue
  <2> QED BY <1>2, <2>1, <2>2, <2>3, <2>4, <2>5, <2>6 DEF NextId
<1>3. ASSUME NEW w \in Workers, Tick(w) \/ SetBack(w) \/ Restart(w)
      PROVE  LockExclusive'
  BY <1>3 DEF Tick, SetBack, Restart, stateVars
<1> QED BY <1>1, <1>2, <1>3 DEF Next

LEMMA ClockNext == TypeOK /\ ClockAfterFloor /\ [Next]_vars /\ Kept' => ClockAfterFloor'
<1> SUFFICES ASSUME TypeOK, ClockAfterFloor, [Next]_vars, Kept' PROVE ClockAfterFloor'
  OBVIOUS
<1> USE DEF ClockAfterFloor, TypeOK
<1>1. CASE UNCHANGED vars
  BY <1>1 DEF vars, boundVars
<1>2. ASSUME NEW w \in Workers, NEW t \in Threads, NextId(w, t)
      PROVE  ClockAfterFloor'
  BY <1>2 DEF NextId, Enter, Refuse, ReadSameTick, ReadLaterTick, TilNextMillis, Issue, boundVars
<1>3. ASSUME NEW w \in Workers, Tick(w) \/ SetBack(w) \/ Restart(w)
      PROVE  ClockAfterFloor'
  <2>1. CASE Tick(w)
    <3>1. clock' = [clock EXCEPT ![w] = @ + 1] /\ floor' = floor /\ restarts' = restarts
      BY <2>1 DEF Tick, boundVars
    <3>2. \A v \in Workers : clock[v] \in Int /\ floor[v] \in Int
      OBVIOUS
    <3>3. \A v \in Workers : clock'[v] = IF v = w THEN clock[v] + 1 ELSE clock[v]
      BY <3>1
    <3> QED BY <3>1, <3>2, <3>3
  <2>2. CASE SetBack(w)
    <3>1. PICK now \in 0 .. clock[w] - 1 : /\ ClockKept => now > floor[w]
                                           /\ clock' = [clock EXCEPT ![w] = now]
      BY <2>2 DEF SetBack
    <3>2. UNCHANGED <<floor, restarts>>
      BY <2>2 DEF SetBack
    <3>3. now > floor[w]
      BY <3>1, <3>2 DEF Kept
    <3> QED BY <3>1, <3>2, <3>3
  <2>3. CASE Restart(w)
    <3>1. restarts' = restarts + 1 /\ restarts' # 0
      BY <2>3 DEF Restart
    <3>2. ClockKept /\ clock[w] > lastTimestamp[w]
      BY <2>3, <3>1 DEF Kept, Restart
    <3> QED BY <2>3, <3>1, <3>2 DEF Restart
  <2> QED BY <1>3, <2>1, <2>2, <2>3
<1> QED BY <1>1, <1>2, <1>3 DEF Next

(* What is kept after a step was kept before: no restart is undone.        *)
LEMMA KeptBefore == TypeOK /\ [Next]_vars /\ Kept' => Kept
<1> SUFFICES ASSUME TypeOK, [Next]_vars, restarts' = 0 PROVE restarts = 0
  BY DEF Kept
<1>1. restarts' = restarts \/ restarts' = restarts + 1
  BY DEF Next, NextId, Enter, Refuse, ReadSameTick, ReadLaterTick, TilNextMillis, Issue,
         Tick, SetBack, Restart, vars, boundVars
<1>2. restarts \in Nat
  BY DEF TypeOK
<1> QED BY <1>1, <1>2

(* What was issued stays in the past.                                      *)
LEMMA PastNext == IInv /\ [Next]_vars => IssuedIsPast'
<1> SUFFICES ASSUME IInv, [Next]_vars PROVE IssuedIsPast'
  OBVIOUS
<1> USE DEF IInv, TypeOK, Callers, IssuedIsPast, Older, Numbers
<1>1. CASE UNCHANGED vars
  BY <1>1 DEF vars, stateVars
<1>2. ASSUME NEW w \in Workers, NEW t \in Threads, NextId(w, t)
      PROVE  IssuedIsPast'
  <2>1. CASE Enter(w, t)
    BY <2>1, ThreadAssumption DEF Enter, LockExclusive
  <2>2. CASE Refuse(w, t)
    BY <2>2 DEF Refuse, LockExclusive
  <2>3. CASE ReadSameTick(w, t)
    BY <2>3 DEF ReadSameTick, boundVars
  <2>4. CASE ReadLaterTick(w, t)
    BY <2>4 DEF ReadLaterTick, boundVars
  <2>5. CASE TilNextMillis(w, t)
    BY <2>5 DEF TilNextMillis, boundVars
  <2>6. CASE Issue(w, t)
    <3> DEFINE n == [at |-> timestamp[<<w, t>>], seq |-> sequence[w]]
    <3>1. /\ lastTimestamp' = [lastTimestamp EXCEPT ![w] = n.at]
          /\ issued' = [issued EXCEPT ![w] = Append(@, n)]
          /\ floor' = floor /\ sequence' = sequence
      BY <2>6 DEF Issue
    <3>2. \A i \in DOMAIN issued[w] :
             \/ Older(w, issued[w][i], n.at)
             \/ issued[w][i].at = n.at /\ issued[w][i].seq < n.seq
      BY <2>6 DEF Issue, IssueIsNext
    <3>3. n \in Numbers
      OBVIOUS
    <3> HIDE DEF n
    <3>4. IssuedIsPast!(w)'
      <4>1. lastTimestamp'[w] = n.at /\ issued'[w] = Append(issued[w], n) /\ sequence'[w] = n.seq
        BY <3>1 DEF n
      <4>2. issued[w] \in Seq(Numbers)
        OBVIOUS
      <4>3. \A i \in DOMAIN issued'[w] :
               issued'[w][i] = IF i \in DOMAIN issued[w] THEN issued[w][i] ELSE n
        BY <3>3, <4>1, <4>2
      <4>4. \A i \in DOMAIN issued[w] : issued[w][i].seq \in Nat
        BY IssuedParts
      <4>5. n.seq \in Nat
        BY <3>3, WidthAssumption
      <4>6. SUFFICES ASSUME NEW i \in DOMAIN issued'[w]
                     PROVE  IssuedIsPast!(w)!(i)'
        OBVIOUS
      <4>7. CASE i \in DOMAIN issued[w]
        BY <3>1, <3>2, <4>1, <4>3, <4>4, <4>5, <4>7
      <4>8. CASE i \notin DOMAIN issued[w]
        BY <3>1, <4>1, <4>3, <4>5, <4>8
      <4> QED BY <4>7, <4>8
    <3>5. \A v \in Workers \ {w} : IssuedIsPast!(v)'
      BY <2>6 DEF Issue
    <3> QED BY <3>4, <3>5
  <2> QED BY <1>2, <2>1, <2>2, <2>3, <2>4, <2>5, <2>6 DEF NextId
<1>3. ASSUME NEW w \in Workers, Tick(w) \/ SetBack(w) \/ Restart(w)
      PROVE  IssuedIsPast'
  <2>1. CASE Tick(w) \/ SetBack(w)
    BY <2>1 DEF Tick, SetBack, stateVars, boundVars
  <2>2. CASE Restart(w)
    <3>1. /\ floor' = [floor EXCEPT ![w] = IF lastTimestamp[w] > @ THEN lastTimestamp[w] ELSE @]
          /\ issued' = issued
      BY <2>2 DEF Restart
    <3>2. floor[w] \in Int /\ lastTimestamp[w] \in Int
      OBVIOUS
    <3>3. \A i \in DOMAIN issued[w] : issued[w][i].at <= floor'[w]
      <4>1. floor'[w] = IF lastTimestamp[w] > floor[w] THEN lastTimestamp[w] ELSE floor[w]
        BY <3>1
      <4>2. \A i \in DOMAIN issued[w] : issued[w][i].at \in Nat
        BY IssuedParts
      <4>3. \A i \in DOMAIN issued[w] :
               issued[w][i].at <= floor[w] \/ issued[w][i].at <= lastTimestamp[w]
        BY <3>2, <4>2
      <4> HIDE DEF IInv, TypeOK, IssuedIsPast
      <4> QED BY <3>2, <4>1, <4>2, <4>3
    <3> SUFFICES ASSUME NEW v \in Workers PROVE IssuedIsPast!(v)'
      OBVIOUS
    <3>4. CASE v = w
      BY <3>1, <3>3, <3>4
    <3>5. CASE v # w
      BY <2>2, <3>5 DEF Restart
    <3> QED BY <3>4, <3>5
  <2> QED BY <1>3, <2>1, <2>2
<1> QED BY <1>1, <1>2, <1>3 DEF Next

(* What a thread is about to issue stays the next number: only an owner of *)
(* the lock moves the sequence, and it reads a time past the floor.        *)
LEMMA IssueNext == IInv /\ [Next]_vars => IssueIsNext'
<1> SUFFICES ASSUME IInv, [Next]_vars PROVE IssueIsNext'
  OBVIOUS
<1> USE DEF IInv, TypeOK, Callers, IssueIsNext, Older
<1>1. CASE UNCHANGED vars
  BY <1>1 DEF vars, stateVars
<1>2. ASSUME NEW w \in Workers, NEW t \in Threads, NextId(w, t)
      PROVE  IssueIsNext'
  <2>1. CASE Enter(w, t)
    BY <2>1 DEF Enter
  <2>2. CASE Refuse(w, t)
    BY <2>2 DEF Refuse
  <2>3. ASSUME \/ ReadSameTick(w, t)
               \/ ReadLaterTick(w, t)
               \/ TilNextMillis(w, t)
        PROVE  IssueIsNext'
    <3>1. \A u \in Threads \ {t} : pc[<<w, u>>] = "idle"
      BY <2>3 DEF ReadSameTick, ReadLaterTick, TilNextMillis, LockExclusive
    <3>2. \A v \in Workers \ {w} : \A u \in Threads : IssueIsNext!(v, u)'
      <4>1. \A v \in Workers \ {w} : \A u \in Threads :
               /\ pc'[<<v, u>>] = pc[<<v, u>>]
               /\ timestamp'[<<v, u>>] = timestamp[<<v, u>>]
               /\ sequence'[v] = sequence[v]
        <5>1. CASE ReadSameTick(w, t)
          BY <5>1 DEF ReadSameTick
        <5>2. CASE ReadLaterTick(w, t)
          BY <5>2 DEF ReadLaterTick
        <5>3. CASE TilNextMillis(w, t)
          BY <5>3 DEF TilNextMillis
        <5> QED BY <2>3, <5>1, <5>2, <5>3
      <4>2. issued' = issued /\ floor' = floor
        BY <2>3 DEF ReadSameTick, ReadLaterTick, TilNextMillis
      <4> SUFFICES ASSUME NEW v \in Workers \ {w}, NEW u \in Threads
                   PROVE  IssueIsNext!(v, u)'
        OBVIOUS
      <4>3. IssueIsNext!(v, u)
        OBVIOUS
      <4> HIDE DEF IInv, TypeOK
      <4> QED BY <4>1, <4>2, <4>3
    <3>3. \A u \in Threads \ {t} : pc'[<<w, u>>] = "idle"
      BY <2>3, <3>1 DEF ReadSameTick, ReadLaterTick, TilNextMillis
    <3>4. IssueIsNext!(w, t)'
      <4>1. CASE ReadSameTick(w, t)
        <5>1. \A i \in DOMAIN issued[w] :
                 \/ Older(w, issued[w][i], clock[w])
                 \/ issued[w][i].at = clock[w] /\ issued[w][i].seq <= sequence[w]
          BY <3>1, <4>1 DEF ReadSameTick, IssuedIsPast
        <5>2. \A i \in DOMAIN issued[w] : issued[w][i].seq \in Nat
          BY IssuedParts
        <5>3. pc'[<<w, t>>] = "issue" => sequence'[w] = sequence[w] + 1
          BY <4>1 DEF ReadSameTick
        <5>4. sequence[w] \in Nat
          BY WidthAssumption
        <5> QED BY <4>1, <5>1, <5>2, <5>3, <5>4 DEF ReadSameTick, ClockAfterFloor
      <4>2. CASE ReadLaterTick(w, t) \/ TilNextMillis(w, t)
        <5>1. \A i \in DOMAIN issued[w] :
                 issued[w][i].at <= floor[w] \/ issued[w][i].at <= lastTimestamp[w]
          <6>1. \A i \in DOMAIN issued[w] : issued[w][i].at \in Nat
            BY IssuedParts
          <6>2. lastTimestamp[w] \in Int /\ floor[w] \in Int
            OBVIOUS
          <6>3. IssuedIsPast!(w)
            BY DEF IssuedIsPast
          <6> HIDE DEF IInv, TypeOK
          <6> QED BY <6>1, <6>2, <6>3
        <5>2. \A i \in DOMAIN issued[w] : Older(w, issued[w][i], clock[w])
          <6>1. \A i \in DOMAIN issued[w] : issued[w][i].at \in Nat
            BY IssuedParts
          <6>2. lastTimestamp[w] < clock[w] /\ lastTimestamp[w] \in Int /\ clock[w] \in Int
            BY <4>2 DEF ReadLaterTick, TilNextMillis
          <6> QED BY <5>1, <6>1, <6>2
        <5> QED BY <4>2, <5>2 DEF ReadLaterTick, TilNextMillis, ClockAfterFloor
      <4> QED BY <2>3, <4>1, <4>2
    <3> QED BY <3>2, <3>3, <3>4
  <2>4. CASE Issue(w, t)
    <3>1. \A u \in Threads : pc'[<<w, u>>] = "idle"
      BY <2>4 DEF Issue, LockExclusive
    <3>2. \A v \in Workers \ {w} : \A u \in Threads : IssueIsNext!(v, u)'
      BY <2>4 DEF Issue
    <3> QED BY <3>1, <3>2
  <2> QED BY <1>2, <2>1, <2>2, <2>3, <2>4 DEF NextId
<1>3. ASSUME NEW w \in Workers, Tick(w) \/ SetBack(w) \/ Restart(w)
      PROVE  IssueIsNext'
  <2>1. CASE Tick(w) \/ SetBack(w)
    BY <2>1 DEF Tick, SetBack, stateVars
  <2>2. CASE Restart(w)
    <3>1. \A u \in Threads : pc'[<<w, u>>] = "idle"
      BY <2>2 DEF Restart
    <3>2. \A v \in Workers \ {w} : \A u \in Threads :
             /\ pc'[<<v, u>>] = pc[<<v, u>>]
             /\ timestamp'[<<v, u>>] = timestamp[<<v, u>>]
             /\ sequence'[v] = sequence[v] /\ floor'[v] = floor[v]
      BY <2>2 DEF Restart
    <3>3. issued' = issued
      BY <2>2 DEF Restart
    <3> SUFFICES ASSUME NEW v \in Workers \ {w}, NEW u \in Threads
                 PROVE  IssueIsNext!(v, u)'
      BY <3>1
    <3>4. IssueIsNext!(v, u)
      OBVIOUS
    <3> HIDE DEF IInv, TypeOK
    <3> QED BY <3>2, <3>3, <3>4
  <2> QED BY <1>3, <2>1, <2>2
<1> QED BY <1>1, <1>2, <1>3 DEF Next

(* The number appended is none of those before it.                         *)
LEMMA DifferNext == IInv /\ [Next]_vars => NumbersDiffer'
<1> SUFFICES ASSUME IInv, [Next]_vars PROVE NumbersDiffer'
  OBVIOUS
<1> USE DEF IInv, NumbersDiffer
<1>1. ASSUME NEW w \in Workers, NEW t \in Threads, Issue(w, t)
      PROVE  NumbersDiffer'
  <2> DEFINE n == [at |-> timestamp[<<w, t>>], seq |-> sequence[w]]
  <2>1. issued' = [issued EXCEPT ![w] = Append(@, n)]
    BY <1>1 DEF Issue
  <2>2. n \in Numbers /\ issued[w] \in Seq(Numbers) /\ issued \in [Workers -> Seq(Numbers)]
    BY DEF TypeOK, Numbers, Callers
  <2>3. \A i \in DOMAIN issued[w] : issued[w][i] # n
    <3>1. \A i \in DOMAIN issued[w] : issued[w][i].at \in Nat /\ issued[w][i].seq \in Nat
      BY IssuedParts
    <3>2. n.at > floor[w] /\ n.at \in Nat /\ n.seq \in Nat /\ floor[w] \in Int
      BY <1>1, <2>2, WidthAssumption DEF Issue, IssueIsNext, Numbers, TypeOK
    <3>3. \A i \in DOMAIN issued[w] :
             \/ issued[w][i].at <= floor[w] \/ issued[w][i].at < n.at
             \/ issued[w][i].at = n.at /\ issued[w][i].seq < n.seq
      BY <1>1 DEF Issue, IssueIsNext, Older
    <3> QED BY <3>1, <3>2, <3>3
  <2> HIDE DEF n
  <2>4. issued'[w] = Append(issued[w], n)
    BY <2>1, <2>2
  <2>5. \A i \in DOMAIN issued'[w] :
           issued'[w][i] = IF i \in DOMAIN issued[w] THEN issued[w][i] ELSE n
    BY <2>2, <2>4
  <2>6. \A i, j \in DOMAIN issued'[w] : i # j => i \in DOMAIN issued[w] \/ j \in DOMAIN issued[w]
    BY <2>2, <2>4
  <2>7. NumbersDiffer!(w)'
    BY <2>3, <2>5, <2>6
  <2>8. \A v \in Workers \ {w} : issued'[v] = issued[v]
    BY <2>1, <2>2
  <2> QED BY <2>7, <2>8
<1>2. CASE UNCHANGED issued
  BY <1>2
<1> QED
  BY <1>1, <1>2 DEF Next, NextId, Enter, Refuse, ReadSameTick, ReadLaterTick,
     TilNextMillis, Tick, SetBack, Restart, vars

LEMMA IInvNext == IInv /\ [Next]_vars /\ Kept' => IInv'
<1> SUFFICES ASSUME IInv, [Next]_vars, Kept' PROVE IInv'
  OBVIOUS
<1>1. TypeOK' /\ LockExclusive' /\ ClockAfterFloor'
  BY TypeNext, LockNext, ClockNext DEF IInv
<1>2. IssuedIsPast' /\ IssueIsNext' /\ NumbersDiffer'
  BY PastNext, IssueNext, DifferNext
<1> QED BY <1>1, <1>2 DEF IInv

(* While the clocks are kept, the numbers of a process grow.               *)
LEMMA KeptInvariance == Spec => [](TypeOK /\ (Kept => IInv))
<1> DEFINE Inv == TypeOK /\ (Kept => IInv)
<1>1. Init => Inv
  BY TypeInit, IInvInit
<1>2. Inv /\ [Next]_vars => Inv'
  BY TypeNext, KeptBefore, IInvNext
<1> QED BY <1>1, <1>2, PTL DEF Spec

-----------------------------------------------------------------------------
(* Every variable keeps its type: for every set of workers and threads.    *)
THEOREM TypeCorrect == Spec => []TypeOK
<1>1. Init => TypeOK
  BY TypeInit
<1>2. TypeOK /\ [Next]_vars => TypeOK'
  BY TypeNext
<1> QED BY <1>1, <1>2, PTL DEF Spec

(* If no clock stands, after a restart, where it stood before, then no id  *)
(* is returned twice within the span of the shifted time: for any number   *)
(* of processes and threads and widths of the parts, and for clocks that   *)
(* are set back while a process runs (SnowflakeId.NextId).                 *)
THEOREM UniqueIds == ClockKept => (Spec => []IdsAreUnique)
<1> SUFFICES ASSUME ClockKept PROVE Spec => []IdsAreUnique
  OBVIOUS
<1>1. TypeOK /\ (Kept => IInv) => IdsAreUnique
  BY NumbersDifferSuffices DEF Kept, IInv
<1> QED BY <1>1, KeptInvariance, PTL

(* Until a process is started again no id is returned twice within that    *)
(* span, whatever the clocks do.                                           *)
THEOREM UniqueUntilRestart == Spec => [](restarts = 0 => IdsAreUnique)
<1>1. TypeOK /\ (Kept => IInv) => (restarts = 0 => IdsAreUnique)
  BY NumbersDifferSuffices DEF Kept, IInv
<1> QED BY <1>1, KeptInvariance, PTL

=============================================================================
