--------------------------- MODULE CapTransaction ---------------------------
(***************************************************************************)
(* The publishing half of the outbox: CapPublisherBase, the CAP            *)
(* transaction with its message buffer, and the SQL Server subclasses.     *)
(*                                                                         *)
(* A publisher stores a row for each message, puts the message in its      *)
(* transaction's _bufferList and, when the transaction commits, hands the  *)
(* buffer to the dispatcher.  A call is split where another thread, the    *)
(* database or a crash can come between: PublishAsyncInternal runs through *)
(* the control points "execute", "addToSent", "commit", "flush" and        *)
(* "dispose"; Commit called by the application enters at "commit".         *)
(***************************************************************************)
EXTENDS Integers, Sequences, FiniteSets

CONSTANTS
    Publishers,          \* CapPublisherBase instances (one transaction each)
    Transactions,        \* database transactions the application may begin
    NoTx,                \* DbTransaction = null; also: no row stored
    Noop,                \* the NoopTransaction; also: a row on its own connection
    MaxMessages,         \* bound: messages published in a behaviour
    MaxCrashes,          \* bound: process crashes in a behaviour
    MixedUse,            \* may one publisher publish without and then with a transaction?
    ReuseAfterRollback   \* may a publisher begin again after a transaction that did not commit?

ASSUME TxAssumption == NoTx \notin Transactions /\ Noop \notin Transactions /\ NoTx # Noop
ASSUME BoundAssumption == MaxMessages \in Nat /\ MaxCrashes \in Nat
ASSUME UseAssumption == MixedUse \in BOOLEAN /\ ReuseAfterRollback \in BOOLEAN

VARIABLES
    dbTransaction,       \* Transaction.DbTransaction
    autoCommit,          \* Transaction.AutoCommit
    notUseTransaction,   \* CapPublisherBase.NotUseTransaction
    bufferList,          \* CapTransactionBase._bufferList
    pc,                  \* where the publisher's current call stands
    current,             \* the message of the running Publish, 0 outside one
    rowTx,               \* the transaction a message's row was inserted under
    tx,                  \* state of each database transaction
    outcome,             \* how the Publish of each message ended
    nextId,              \* the id the next message gets
    enqueued,            \* history of Dispatcher.EnqueueToPublish calls
    crashes

vars == <<dbTransaction, autoCommit, notUseTransaction, bufferList, pc, current,
          rowTx, tx, outcome, nextId, enqueued, crashes>>

pubVars == <<dbTransaction, autoCommit, notUseTransaction>>

Ids == 1 .. MaxMessages
TxStates == {"unused", "active", "committed", "unacked", "rolledBack"}
Points == {"idle", "execute", "addToSent", "commit", "flush", "dispose"}

InPublish(p) == current[p] # 0

(* The running Publish is going to end this way; nothing outside one.      *)
Ends(p, how) == outcome' = IF InPublish(p)
                           THEN [outcome EXCEPT ![current[p]] = how] ELSE outcome

(* Mutants of CommitsItself: one of the two tests is dropped, or both.     *)
CommitsItself_AutoCommitOnly(p) == autoCommit[p]
CommitsItself_Always(p) == TRUE

(* `NotUseTransaction || Transaction.AutoCommit`, tested after the insert   *)
(* and again in the finally block.                                         *)
CommitsItself(p) == notUseTransaction[p] \/ autoCommit[p]

(* The row of m survives: it was inserted on a connection of its own, or   *)
(* its transaction committed ("unacked": it did, but Commit threw).        *)
Durable(m) == \/ rowTx[m] = Noop
              \/ rowTx[m] \in Transactions /\ tx[rowTx[m]] \in {"committed", "unacked"}

(* The publisher's DbTransaction is a transaction still open in the        *)
(* database.                                                               *)
Open(p) == dbTransaction[p] \in Transactions /\ tx[dbTransaction[p]] = "active"

Init ==
    /\ dbTransaction = [p \in Publishers |-> NoTx]
    /\ autoCommit = [p \in Publishers |-> FALSE]
    /\ notUseTransaction = [p \in Publishers |-> FALSE]
    /\ bufferList = [p \in Publishers |-> <<>>]
    /\ pc = [p \in Publishers |-> "idle"]
    /\ current = [p \in Publishers |-> 0]
    /\ rowTx = [m \in Ids |-> NoTx]
    /\ tx = [t \in Transactions |-> "unused"]
    /\ outcome = [m \in Ids |-> "none"]
    /\ nextId = 1
    /\ enqueued = <<>>
    /\ crashes = 0

-----------------------------------------------------------------------------
(* Calls of the application                                                *)

(* BeginTransaction(publisher, autoCommit): a new database transaction     *)
(* becomes the publisher's DbTransaction, whatever was there before.  The  *)
(* application ended its previous transaction first (a using block); the   *)
(* two constants say how else it may use one publisher.                    *)
BeginTransaction(p, t, auto) ==
    /\ pc[p] = "idle"
    /\ ~Open(p)
    /\ tx[t] = "unused"
    /\ MixedUse \/ ~notUseTransaction[p]
    /\ \/ ReuseAfterRollback
       \/ dbTransaction[p] \in Transactions => tx[dbTransaction[p]] = "committed"
    /\ tx' = [tx EXCEPT ![t] = "active"]
    /\ dbTransaction' = [dbTransaction EXCEPT ![p] = t]
    /\ autoCommit' = [autoCommit EXCEPT ![p] = auto]
    /\ UNCHANGED <<notUseTransaction, bufferList, pc, current, rowTx, outcome,
                   nextId, enqueued, crashes>>

(* Mutant of Publish: the message enters the buffer before its row is      *)
(* stored.                                                                 *)
Publish_BuffersFirst(p) ==
    /\ pc[p] = "idle"
    /\ nextId <= MaxMessages
    /\ dbTransaction[p] # NoTx
    /\ bufferList' = [bufferList EXCEPT ![p] = Append(@, nextId)]
    /\ current' = [current EXCEPT ![p] = nextId]
    /\ nextId' = nextId + 1
    /\ pc' = [pc EXCEPT ![p] = "execute"]
    /\ UNCHANGED <<pubVars, rowTx, tx, outcome, enqueued, crashes>>

(* Publish: a fresh id; without a DbTransaction the publisher becomes      *)
(* non-transactional, and nothing ever resets that.                        *)
Publish(p) ==
    /\ pc[p] = "idle"
    /\ nextId <= MaxMessages
    /\ IF dbTransaction[p] = NoTx
       THEN /\ notUseTransaction' = [notUseTransaction EXCEPT ![p] = TRUE]
            /\ dbTransaction' = [dbTransaction EXCEPT ![p] = Noop]
       ELSE UNCHANGED <<notUseTransaction, dbTransaction>>
    /\ current' = [current EXCEPT ![p] = nextId]
    /\ nextId' = nextId + 1
    /\ pc' = [pc EXCEPT ![p] = "execute"]
    /\ UNCHANGED <<autoCommit, bufferList, rowTx, tx, outcome, enqueued, crashes>>

(* Transaction.Commit() by the application; without a DbTransaction the    *)
(* switch has no case and nothing happens.                                 *)
CallCommit(p) ==
    /\ pc[p] = "idle"
    /\ dbTransaction[p] # NoTx
    /\ pc' = [pc EXCEPT ![p] = "commit"]
    /\ UNCHANGED <<pubVars, bufferList, current, rowTx, tx, outcome, nextId,
                   enqueued, crashes>>

(* Transaction.Rollback(), or Dispose of an open transaction at the end of *)
(* the using block: the database forgets, the buffer is left as it is.     *)
Rollback(p) ==
    /\ pc[p] = "idle"
    /\ Open(p)
    /\ tx' = [tx EXCEPT ![dbTransaction[p]] = "rolledBack"]
    /\ UNCHANGED <<pubVars, bufferList, pc, current, rowTx, outcome, nextId,
                   enqueued, crashes>>

-----------------------------------------------------------------------------
(* Steps inside the calls                                                  *)

(* The end of the try block's normal path or of a throwing one: the        *)
(* finally block disposes the transaction when the publisher commits by    *)
(* itself.  A Commit called by the application just returns or throws.     *)
Finally(p) ==
    IF InPublish(p) /\ CommitsItself(p)
    THEN pc' = [pc EXCEPT ![p] = "dispose"] /\ UNCHANGED current
    ELSE pc' = [pc EXCEPT ![p] = "idle"] /\ current' = [current EXCEPT ![p] = 0]

(* SqlServerPublisher.ExecuteAsync inserts the row: on a connection of its *)
(* own, or on the transaction's.                                           *)
Execute(p) ==
    /\ pc[p] = "execute"
    /\ notUseTransaction[p] \/ Open(p)
    /\ rowTx' = [rowTx EXCEPT ![current[p]] =
                    IF notUseTransaction[p] THEN Noop ELSE dbTransaction[p]]
    /\ pc' = [pc EXCEPT ![p] = "addToSent"]
    /\ UNCHANGED <<pubVars, bufferList, current, tx, outcome, nextId, enqueued, crashes>>

(* The insert throws: a database error, or the transaction is over and its *)
(* Connection is null.                                                     *)
ExecuteThrows(p) ==
    /\ pc[p] = "execute"
    /\ Finally(p)
    /\ Ends(p, "threw")
    /\ UNCHANGED <<pubVars, bufferList, rowTx, tx, nextId, enqueued, crashes>>

AddToSent(p) ==
    /\ pc[p] = "addToSent"
    /\ bufferList' = [bufferList EXCEPT ![p] = Append(@, current[p])]
    /\ IF CommitsItself(p)
       THEN pc' = [pc EXCEPT ![p] = "commit"] /\ UNCHANGED <<current, outcome>>
       ELSE Finally(p) /\ Ends(p, "returned")
    /\ UNCHANGED <<pubVars, rowTx, tx, nextId, enqueued, crashes>>

(* Mutants of Commit: a failed commit of the database is swallowed and the *)
(* buffer flushed; or the buffer is not flushed at all.                    *)
Commit_SwallowsFailure(p) ==
    /\ pc[p] = "commit"
    /\ dbTransaction[p] = Noop \/ Open(p)
    /\ \E left \in {"committed", "rolledBack"} :
          tx' = IF Open(p) THEN [tx EXCEPT ![dbTransaction[p]] = left] ELSE tx
    /\ pc' = [pc EXCEPT ![p] = "flush"]
    /\ UNCHANGED <<pubVars, bufferList, current, rowTx, outcome, nextId, enqueued, crashes>>

Commit_WithoutFlush(p) ==
    /\ pc[p] = "commit"
    /\ dbTransaction[p] = Noop \/ Open(p)
    /\ tx' = IF Open(p) THEN [tx EXCEPT ![dbTransaction[p]] = "committed"] ELSE tx
    /\ Finally(p)
    /\ UNCHANGED <<pubVars, bufferList, rowTx, outcome, nextId, enqueued, crashes>>

(* SqlServerCapTransaction.Commit up to Flush.                             *)
Commit(p) ==
    /\ pc[p] = "commit"
    /\ dbTransaction[p] = Noop \/ Open(p)
    /\ tx' = IF Open(p) THEN [tx EXCEPT ![dbTransaction[p]] = "committed"] ELSE tx
    /\ pc' = [pc EXCEPT ![p] = "flush"]
    /\ UNCHANGED <<pubVars, bufferList, current, rowTx, outcome, nextId, enqueued, crashes>>

(* SaveChanges or the database's commit throws and Flush is not reached.   *)
(* The transaction was already over; or it is still open, or rolled back,  *)
(* or the server did commit and the answer was lost.                       *)
CommitThrows(p) ==
    /\ pc[p] = "commit"
    /\ dbTransaction[p] \in Transactions
    /\ IF Open(p)
       THEN \E left \in {"active", "rolledBack", "unacked"} :
                tx' = [tx EXCEPT ![dbTransaction[p]] = left]
       ELSE UNCHANGED tx
    /\ Finally(p)
    /\ Ends(p, "threw")
    /\ UNCHANGED <<pubVars, bufferList, rowTx, nextId, enqueued, crashes>>

(* Mutants of Flush: the loop dequeues before it looks whether the buffer  *)
(* is empty, and hands out a null; or it peeks and does not dequeue.       *)
Flush_DequeuesFirst(p) ==
    /\ pc[p] = "flush"
    /\ enqueued' = Append(enqueued, IF bufferList[p] = <<>> THEN 0 ELSE Head(bufferList[p]))
    /\ bufferList' = [bufferList EXCEPT ![p] = IF @ = <<>> THEN @ ELSE Tail(@)]
    /\ UNCHANGED <<pubVars, pc, current, rowTx, tx, outcome, nextId, crashes>>

Flush_Peeks(p) ==
    /\ pc[p] = "flush"
    /\ bufferList[p] # <<>>
    /\ enqueued' = Append(enqueued, Head(bufferList[p]))
    /\ UNCHANGED <<pubVars, bufferList, pc, current, rowTx, tx, outcome, nextId, crashes>>

(* One turn of the loop of CapTransactionBase.Flush.                       *)
Flush(p) ==
    /\ pc[p] = "flush"
    /\ bufferList[p] # <<>>
    /\ enqueued' = Append(enqueued, Head(bufferList[p]))
    /\ bufferList' = [bufferList EXCEPT ![p] = Tail(@)]
    /\ UNCHANGED <<pubVars, pc, current, rowTx, tx, outcome, nextId, crashes>>

FlushDone(p) ==
    /\ pc[p] = "flush"
    /\ bufferList[p] = <<>>
    /\ Finally(p)
    /\ Ends(p, "returned")
    /\ UNCHANGED <<pubVars, bufferList, rowTx, tx, nextId, enqueued, crashes>>

(* SqlServerCapTransaction.Dispose: an open transaction is rolled back.    *)
(* DbTransaction stays set.                                                *)
Dispose(p) ==
    /\ pc[p] = "dispose"
    /\ tx' = IF Open(p) THEN [tx EXCEPT ![dbTransaction[p]] = "rolledBack"] ELSE tx
    /\ pc' = [pc EXCEPT ![p] = "idle"]
    /\ current' = [current EXCEPT ![p] = 0]
    /\ UNCHANGED <<pubVars, bufferList, rowTx, outcome, nextId, enqueued, crashes>>

(* The process dies and starts again: the publishers and their buffers are *)
(* gone, the server rolls the open transactions back.                      *)
Crash ==
    /\ crashes < MaxCrashes
    /\ crashes' = crashes + 1
    /\ dbTransaction' = [p \in Publishers |-> NoTx]
    /\ autoCommit' = [p \in Publishers |-> FALSE]
    /\ notUseTransaction' = [p \in Publishers |-> FALSE]
    /\ bufferList' = [p \in Publishers |-> <<>>]
    /\ pc' = [p \in Publishers |-> "idle"]
    /\ current' = [p \in Publishers |-> 0]
    /\ tx' = [t \in Transactions |-> IF tx[t] = "active" THEN "rolledBack" ELSE tx[t]]
    /\ UNCHANGED <<rowTx, outcome, nextId, enqueued>>

-----------------------------------------------------------------------------
Step(p) ==
    \/ Execute(p) \/ ExecuteThrows(p)
    \/ AddToSent(p)
    \/ Commit(p) \/ CommitThrows(p)
    \/ Flush(p) \/ FlushDone(p)
    \/ Dispose(p)

Application(p) ==
    \/ \E t \in Transactions, auto \in BOOLEAN : BeginTransaction(p, t, auto)
    \/ Publish(p)
    \/ CallCommit(p)
    \/ Rollback(p)

Next == Crash \/ \E p \in Publishers : Step(p) \/ Application(p)

Spec == Init /\ [][Next]_vars

(* A call that was entered runs on: the code between the control points    *)
(* never waits for anybody.                                                *)
FairSpec == Spec /\ \A p \in Publishers : WF_vars(Step(p))

-----------------------------------------------------------------------------
(* Properties                                                              *)

TypeOK ==
    /\ dbTransaction \in [Publishers -> Transactions \union {NoTx, Noop}]
    /\ autoCommit \in [Publishers -> BOOLEAN]
    /\ notUseTransaction \in [Publishers -> BOOLEAN]
    /\ bufferList \in [Publishers -> Seq(Ids)]
    /\ pc \in [Publishers -> Points]
    /\ current \in [Publishers -> Ids \union {0}]
    /\ rowTx \in [Ids -> Transactions \union {NoTx, Noop}]
    /\ tx \in [Transactions -> TxStates]
    /\ outcome \in [Ids -> {"none", "returned", "threw"}]
    /\ nextId \in 1 .. MaxMessages + 1
    /\ enqueued \in Seq(Ids)
    /\ crashes \in 0 .. MaxCrashes

InSeq(m, s) == \E i \in DOMAIN s : s[i] = m

(* No phantom: a message handed to the dispatcher has a row that cannot be *)
(* rolled back any more (Flush runs after the database's commit, and a     *)
(* buffer never carries a message from one transaction into the next).     *)
EnqueuedIsDurable == \A i \in DOMAIN enqueued : Durable(enqueued[i])

(* A Publish that threw is never sent by this process later on, although   *)
(* its message may sit in the buffer (CapPublisherBase rethrows, and the   *)
(* buffer is not cleared).                                                 *)
ThrewIsNotEnqueued == \A i \in DOMAIN enqueued : outcome[enqueued[i]] # "threw"

(* Between two calls nothing that is committed waits in a buffer: what a   *)
(* commit made durable, that commit flushed.  Otherwise the message would  *)
(* be sent by the retry scan only, minutes later.                          *)
NothingStranded ==
    \A p \in Publishers : pc[p] = "idle" =>
        \A i \in DOMAIN bufferList[p] :
            LET t == rowTx[bufferList[p][i]]
            IN  t \in Transactions /\ tx[t] # "committed"

(* A message is handed to the dispatcher once, whatever the order of       *)
(* commits, failed commits and reuses of its publisher.                    *)
EnqueuedOnce ==
    \A i, j \in DOMAIN enqueued : enqueued[i] = enqueued[j] => i = j

(* A transaction begun with autoCommit = false is committed by the         *)
(* application's Commit and never in the course of a Publish.              *)
CommittedWhenAsked ==
    [][\A p \in Publishers, t \in Transactions :
          /\ dbTransaction[p] = t /\ InPublish(p)
          /\ tx[t] = "active" /\ tx'[t] = "committed"
          => autoCommit[p]]_vars

(* What is committed is handed to the dispatcher: by the Commit itself, if *)
(* the process lives.                                                      *)
CommittedIsEnqueued ==
    \A m \in Ids : (rowTx[m] \in Transactions /\ tx[rowTx[m]] = "committed")
                      ~> (InSeq(m, enqueued) \/ crashes > 0)

=============================================================================
