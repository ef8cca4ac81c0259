----------------------------- MODULE SnowflakeId ----------------------------
(***************************************************************************)
(* SnowflakeId, the source of the ids of messages and rows.  Every process *)
(* has one generator, which reads the clock of its machine under a lock.   *)
(* The parts of an id, from the left, are the time in ticks, which the     *)
(* shift by 22 cuts to 42 bits, the worker, and the number of the id       *)
(* within its tick.                                                        *)
(*                                                                         *)
(* The clock ticks, stands still for a while and is set back while calls   *)
(* are under way.  The steps of NextId are its entry into the lock, its    *)
(* readings of the clock, and the rest with the return.  Two processes     *)
(* have different workers, which the code leaves to the environment        *)
(* variables: without them Default draws the numbers.                      *)
(***************************************************************************)
EXTENDS Integers, Sequences

CONSTANTS
    Workers,        \* the processes, each known by its DatacenterId and WorkerId
    Threads,        \* threads of a process that ask for ids
    Nobody,         \* no thread is inside the lock
    MaxWorkerId,    \* of DatacenterId and WorkerId side by side: 2^10 - 1 in the code
    SequenceMask,   \* 2^12 - 1 in the code
    Span,           \* ticks after which the shifted time repeats, 2^42 in the code
    ClockKept,      \* no clock stands, after a restart, where it stood before (see SetBack)
    MaxClock,       \* bound: ticks of a clock
    MaxSetbacks,    \* bound: times a clock is set back
    MaxRestarts,    \* bound: processes that are started again
    MaxIds          \* bound: calls of NextId

ASSUME WorkerAssumption == MaxWorkerId \in Nat /\ Workers \subseteq 0 .. MaxWorkerId
ASSUME ThreadAssumption == Nobody \notin Threads
ASSUME FlagAssumption == ClockKept \in BOOLEAN
ASSUME WidthAssumption == SequenceMask \in Nat /\ Span \in Nat \ {0}
ASSUME BoundAssumption == /\ MaxClock \in Nat /\ MaxSetbacks \in Nat
                          /\ MaxRestarts \in Nat /\ MaxIds \in Nat

VARIABLES
    clock,           \* the time on the machine of each process, from Twepoch on
    lastTimestamp,   \* _lastTimestamp, -1 in a new generator
    sequence,        \* Sequence
    lock,            \* the thread inside lock (_lock)
    pc,              \* per thread: "idle", "read", "spin" or "issue"
    timestamp,       \* per thread: its local timestamp
    floor,           \* the last time an earlier process of this worker used
    issued,          \* history: per worker, the ids in the order they were returned
    calls, setbacks, restarts

stateVars == <<lastTimestamp, sequence, lock, pc, timestamp>>
boundVars == <<calls, setbacks, restarts>>
vars == <<clock, stateVars, floor, issued, boundVars>>

Callers == Workers \X Threads

(* The parts of an id put together; the time loses its upper bits.         *)
Id(at, w, seq) == ((at % Span) * (MaxWorkerId + 1) + w) * (SequenceMask + 1) + seq

Init ==
    /\ clock = [w \in Workers |-> 0]
    /\ lastTimestamp = [w \in Workers |-> -1]
    /\ sequence = [w \in Workers |-> 0]
    /\ lock = [w \in Workers |-> Nobody]
    /\ pc = [c \in Callers |-> "idle"]
    /\ timestamp = [c \in Callers |-> 0]
    /\ floor = [w \in Workers |-> -1]
    /\ issued = [w \in Workers |-> <<>>]
    /\ calls = 0 /\ setbacks = 0 /\ restarts = 0

-----------------------------------------------------------------------------
(* NextId                                                                  *)

(* Mutant of Enter: there is no lock.                                      *)
Enter_NoLock(w, t) ==
    /\ pc[<<w, t>>] = "idle"
    /\ calls < MaxIds
    /\ calls' = calls + 1
    /\ pc' = [pc EXCEPT ![<<w, t>>] = "read"]
    /\ UNCHANGED <<clock, lastTimestamp, sequence, lock, timestamp, floor, issued,
                   setbacks, restarts>>

Enter(w, t) ==
    /\ pc[<<w, t>>] = "idle" /\ lock[w] = Nobody
    /\ calls < MaxIds
    /\ calls' = calls + 1
    /\ lock' = [lock EXCEPT ![w] = t]
    /\ pc' = [pc EXCEPT ![<<w, t>>] = "read"]
    /\ UNCHANGED <<clock, lastTimestamp, sequence, timestamp, floor, issued,
                   setbacks, restarts>>

(* The clock moved backwards: NextId throws.                               *)
Refuse(w, t) ==
    /\ pc[<<w, t>>] = "read"
    /\ clock[w] < lastTimestamp[w]
    /\ lock' = [lock EXCEPT ![w] = Nobody]
    /\ pc' = [pc EXCEPT ![<<w, t>>] = "idle"]
    /\ UNCHANGED <<clock, lastTimestamp, sequence, timestamp, floor, issued, boundVars>>

(* Mutant of ReadSameTick: the sequence is not masked.                     *)
ReadSameTick_NoMask(w, t) ==
    /\ pc[<<w, t>>] = "read"
    /\ clock[w] = lastTimestamp[w]
    /\ timestamp' = [timestamp EXCEPT ![<<w, t>>] = clock[w]]
    /\ sequence' = [sequence EXCEPT ![w] = @ + 1]
    /\ pc' = [pc EXCEPT ![<<w, t>>] = "issue"]
    /\ UNCHANGED <<clock, lastTimestamp, lock, floor, issued, boundVars>>

(* Another id in the tick of the last one; when the sequence is used up    *)
(* NextId waits for the next tick.                                         *)
ReadSameTick(w, t) ==
    /\ pc[<<w, t>>] = "read"
    /\ clock[w] = lastTimestamp[w]
    /\ timestamp' = [timestamp EXCEPT ![<<w, t>>] = clock[w]]
    /\ sequence' = [sequence EXCEPT ![w] = IF @ = SequenceMask THEN 0 ELSE @ + 1]
    /\ pc' = [pc EXCEPT ![<<w, t>>] = IF sequence[w] = SequenceMask THEN "spin" ELSE "issue"]
    /\ UNCHANGED <<clock, lastTimestamp, lock, floor, issued, boundVars>>

ReadLaterTick(w, t) ==
    /\ pc[<<w, t>>] = "read"
    /\ clock[w] > lastTimestamp[w]
    /\ timestamp' = [timestamp EXCEPT ![<<w, t>>] = clock[w]]
    /\ sequence' = [sequence EXCEPT ![w] = 0]
    /\ pc' = [pc EXCEPT ![<<w, t>>] = "issue"]
    /\ UNCHANGED <<clock, lastTimestamp, lock, floor, issued, boundVars>>

(* Mutants of TilNextMillis: the loop compares the time it read before; or *)
(* it is left in the same tick.                                            *)
TilNextMillis_ReadsOnce(w, t) ==
    /\ pc[<<w, t>>] = "spin"
    /\ timestamp[<<w, t>>] > lastTimestamp[w]
    /\ pc' = [pc EXCEPT ![<<w, t>>] = "issue"]
    /\ UNCHANGED <<clock, lastTimestamp, sequence, lock, timestamp, floor, issued, boundVars>>

TilNextMillis_SameTick(w, t) ==
    /\ pc[<<w, t>>] = "spin"
    /\ clock[w] >= lastTimestamp[w]
    /\ timestamp' = [timestamp EXCEPT ![<<w, t>>] = clock[w]]
    /\ pc' = [pc EXCEPT ![<<w, t>>] = "issue"]
    /\ UNCHANGED <<clock, lastTimestamp, sequence, lock, floor, issued, boundVars>>

(* The loop reads a time after the last one and is left.                   *)
TilNextMillis(w, t) ==
    /\ pc[<<w, t>>] = "spin"
    /\ clock[w] > lastTimestamp[w]
    /\ timestamp' = [timestamp EXCEPT ![<<w, t>>] = clock[w]]
    /\ pc' = [pc EXCEPT ![<<w, t>>] = "issue"]
    /\ UNCHANGED <<clock, lastTimestamp, sequence, lock, floor, issued, boundVars>>

Issue(w, t) ==
    /\ pc[<<w, t>>] = "issue"
    /\ lastTimestamp' = [lastTimestamp EXCEPT ![w] = timestamp[<<w, t>>]]
    /\ issued' = [issued EXCEPT ![w] = Append(@, [at |-> timestamp[<<w, t>>], seq |-> sequence[w]])]
    /\ lock' = [lock EXCEPT ![w] = Nobody]
    /\ pc' = [pc EXCEPT ![<<w, t>>] = "idle"]
    /\ timestamp' = [timestamp EXCEPT ![<<w, t>>] = 0]
    /\ UNCHANGED <<clock, sequence, floor, boundVars>>

-----------------------------------------------------------------------------
(* Clocks and processes                                                    *)

Tick(w) ==
    /\ clock[w] < MaxClock
    /\ clock' = [clock EXCEPT ![w] = @ + 1]
    /\ UNCHANGED <<stateVars, floor, issued, boundVars>>

(* A clock is set back.  ClockKept: never to a time an earlier process of  *)
(* the worker used, which NextId, that keeps the last time in memory only, *)
(* would not notice; nothing in the code sees to it.                       *)
SetBack(w) ==
    /\ setbacks < MaxSetbacks
    /\ setbacks' = setbacks + 1
    /\ \E now \in 0 .. clock[w] - 1 :
          /\ ClockKept => now > floor[w]
          /\ clock' = [clock EXCEPT ![w] = now]
    /\ UNCHANGED <<stateVars, floor, issued, calls, restarts>>

(* The process dies and starts again as the same worker; Default makes a   *)
(* new generator, which knows no last time.  ClockKept: it starts in a     *)
(* tick after the last one used.                                           *)
Restart(w) ==
    /\ restarts < MaxRestarts
    /\ restarts' = restarts + 1
    /\ ClockKept => clock[w] > lastTimestamp[w]
    /\ floor' = [floor EXCEPT ![w] = IF lastTimestamp[w] > @ THEN lastTimestamp[w] ELSE @]
    /\ lastTimestamp' = [lastTimestamp EXCEPT ![w] = -1]
    /\ sequence' = [sequence EXCEPT ![w] = 0]
    /\ lock' = [lock EXCEPT ![w] = Nobody]
    /\ pc' = [c \in Callers |-> IF c[1] = w THEN "idle" ELSE pc[c]]
    /\ timestamp' = [c \in Callers |-> IF c[1] = w THEN 0 ELSE timestamp[c]]
    /\ UNCHANGED <<clock, issued, calls, setbacks>>

-----------------------------------------------------------------------------
NextId(w, t) ==
    \/ Enter(w, t) \/ Refuse(w, t)
    \/ ReadSameTick(w, t) \/ ReadLaterTick(w, t) \/ TilNextMillis(w, t)
    \/ Issue(w, t)

Next ==
    \/ \E w \in Workers, t \in Threads : NextId(w, t)
    \/ \E w \in Workers : Tick(w) \/ SetBack(w) \/ Restart(w)

Spec == Init /\ [][Next]_vars

(* Threads run, and clocks move on in the end.                             *)
FairSpec ==
    /\ Spec
    /\ \A w \in Workers : WF_vars(Tick(w))
    /\ \A w \in Workers, t \in Threads : WF_vars(NextId(w, t))

-----------------------------------------------------------------------------
(* Properties                                                              *)

Numbers == [at : Nat, seq : 0 .. SequenceMask]

TypeOK ==
    /\ clock \in [Workers -> Nat]
    /\ lastTimestamp \in [Workers -> Nat \union {-1}]
    /\ sequence \in [Workers -> 0 .. SequenceMask]
    /\ lock \in [Workers -> Threads \union {Nobody}]
    /\ pc \in [Callers -> {"idle", "read", "spin", "issue"}]
    /\ timestamp \in [Callers -> Nat]
    /\ floor \in [Workers -> Nat \union {-1}]
    /\ issued \in [Workers -> Seq(Numbers)]
    /\ calls \in Nat /\ setbacks \in Nat /\ restarts \in Nat

(* No id is returned twice within the span after which the shifted time    *)
(* repeats, whatever threads, processes and restarts ask for ids and       *)
(* whenever the clock stands still or is set back: without restarts at any *)
(* time and to any other, with restarts as far as ClockKept allows.        *)
IdsAreUnique ==
    \A v, w \in Workers : \A i \in DOMAIN issued[v], j \in DOMAIN issued[w] :
        LET m == issued[v][i]
            n == issued[w][j]
        IN  /\ m.at - n.at < Span /\ n.at - m.at < Span
            /\ Id(m.at, v, m.seq) = Id(n.at, w, n.seq)
            => v = w /\ i = j

(* A thread that waits inside the lock for the next tick gets it, also     *)
(* when the clock is set back meanwhile; nobody else gets an id before.    *)
SpinEnds ==
    \A w \in Workers, t \in Threads :
        pc[<<w, t>>] = "spin" /\ lastTimestamp[w] < MaxClock ~> pc[<<w, t>>] # "spin"

=============================================================================
