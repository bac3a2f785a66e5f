------------------------------ MODULE TxManager ------------------------------
(***************************************************************************)
(* TxManager.run of internal/db/tx.go: concurrent calls that take a        *)
(* connection from one pool, BEGIN, run the callback's statements, and     *)
(* COMMIT or ROLLBACK, while their contexts are cancelled, connections are *)
(* lost and PostgreSQL refuses statements.                                 *)
(*                                                                         *)
(* The callback fn is arbitrary code over the *Queries it is given: it     *)
(* sends statements, may swallow their errors, and ends by returning nil,  *)
(* an error, or by panicking.  A statement reads, or writes one of a few   *)
(* rows that the calls contend for: it waits while another transaction has *)
(* that row locked, and two calls that lock two rows in opposite order     *)
(* wait for each other until PostgreSQL or a deadline ends one of them.    *)
(*                                                                         *)
(* pgx, pgxpool and PostgreSQL are external, modelled as tx.go uses them:  *)
(*   - a statement whose context is already done is not sent;              *)
(*   - one interrupted in flight costs its connection, and so do a failed  *)
(*     BEGIN, COMMIT or ROLLBACK; the server still does what it was sent,  *)
(*     or notices that the connection is gone and aborts;                  *)
(*   - COMMIT of a transaction in which a statement failed rolls back, and *)
(*     pgx reports that as an error;                                       *)
(*   - Commit and Rollback hand the connection back to the pool, which     *)
(*     replaces a closed one.                                              *)
(***************************************************************************)
CONSTANTS
    Calls,      \* concurrent calls of Run or RunReadOnly
    Conns,      \* the slots of the pool
    Rows,       \* the rows that callbacks write
    None

ASSUME TxAssumption == None \notin Calls \cup Conns \cup Rows

VARIABLES
    pc,        \* where in run the call is
    mode,      \* pgx.TxOptions.AccessMode
    ctx,       \* "live" or "done"
    held,      \* the connection the call has from the pool
    usable,    \* FALSE once that connection was lost
    session,   \* the transaction a connection's server session is in
    tx,        \* the call's transaction as the server sees it
    stmt,      \* the row the statement in flight writes, None when it reads
    wrote,     \* rows written in that transaction
    durable,   \* those of them that are committed
    err        \* the named return err, or the panic being re-raised

vars == <<pc, mode, ctx, held, usable, session, tx, stmt, wrote, durable, err>>

Labels == {"idle", "acquire", "begin", "fn", "exec", "commit", "ack", "rollback", "done"}
Errors == {"none", "nil", "begin_error", "fn_error", "panic", "commit_error"}
TxStates == {"none", "open", "failed", "committing", "committed", "rolledback"}

TypeOK ==
    /\ pc \in [Calls -> Labels]
    /\ mode \in [Calls -> {"rw", "ro"}]
    /\ ctx \in [Calls -> {"live", "done"}]
    /\ held \in [Calls -> Conns \cup {None}]
    /\ usable \in [Calls -> BOOLEAN]
    /\ session \in [Conns -> Calls \cup {None}]
    /\ tx \in [Calls -> TxStates]
    /\ stmt \in [Calls -> Rows \cup {None}]
    /\ wrote \in [Calls -> SUBSET Rows]
    /\ durable \in [Calls -> SUBSET Rows]
    /\ err \in [Calls -> Errors]

Init ==
    /\ pc = [c \in Calls |-> "idle"]
    /\ mode = [c \in Calls |-> "rw"]
    /\ ctx = [c \in Calls |-> "live"]
    /\ held = [c \in Calls |-> None]
    /\ usable = [c \in Calls |-> TRUE]
    /\ session = [k \in Conns |-> None]
    /\ tx = [c \in Calls |-> "none"]
    /\ stmt = [c \in Calls |-> None]
    /\ wrote = [c \in Calls |-> {}]
    /\ durable = [c \in Calls |-> {}]
    /\ err = [c \in Calls |-> "none"]

Goto(c, label) == pc' = [pc EXCEPT ![c] = label]
Fails(c, e) == err' = [err EXCEPT ![c] = e]
Becomes(c, state) == tx' = [tx EXCEPT ![c] = state]
Loses(c) == usable' = [usable EXCEPT ![c] = FALSE]

(* The transaction still holds its locks. *)
Unfinished(c) == tx[c] \in {"open", "failed", "committing"}

(* No connection leads to it any more. *)
Orphan(c) == Unfinished(c) /\ \A k \in Conns : session[k] # c

(* A transaction keeps the rows it has written locked; one in which a      *)
(* statement failed has let go of its locks already.                       *)
Locks(b, r) == Unfinished(b) /\ tx[b] # "failed" /\ r \in wrote[b]

(* The statement of c waits for b.  A READ ONLY transaction is refused a   *)
(* write before it asks for a lock.                                        *)
WaitsForRow(c, b) ==
    pc[c] = "exec" /\ mode[c] = "rw" /\ b # c /\ stmt[c] # None /\ Locks(b, stmt[c])

Blocked(c) == \E b \in Calls : WaitsForRow(c, b)

LeavesSession(c) == session' = [k \in Conns |-> IF session[k] = c THEN None ELSE session[k]]

(* The connection goes back to the pool, its session in no transaction. *)
Release(c) == held' = [held EXCEPT ![c] = None] /\ LeavesSession(c)

-----------------------------------------------------------------------------
(* The caller, its context, and the server. *)

Call(c) ==
    /\ pc[c] = "idle"
    /\ Goto(c, "acquire")
    /\ \E m \in {"rw", "ro"} : mode' = [mode EXCEPT ![c] = m]
    /\ UNCHANGED <<ctx, held, usable, session, tx, stmt, wrote, durable, err>>

(* The client disconnects, or the request's 30 seconds are over. *)
Cancel(c) ==
    /\ pc[c] \notin {"idle", "done"} /\ ctx[c] = "live"
    /\ ctx' = [ctx EXCEPT ![c] = "done"]
    /\ UNCHANGED <<pc, mode, held, usable, session, tx, stmt, wrote, durable, err>>

(* run has returned err or re-raised the panic.  The name is free for a    *)
(* new call once the server is done with the transaction as well.          *)
Finish(c) ==
    /\ pc[c] = "done" /\ ~ Unfinished(c)
    /\ Goto(c, "idle")
    /\ mode' = [mode EXCEPT ![c] = "rw"]
    /\ ctx' = [ctx EXCEPT ![c] = "live"]
    /\ usable' = [usable EXCEPT ![c] = TRUE]
    /\ wrote' = [wrote EXCEPT ![c] = {}]
    /\ durable' = [durable EXCEPT ![c] = {}]
    /\ Fails(c, "none")
    /\ Becomes(c, "none")
    /\ UNCHANGED <<held, session, stmt>>

(* The server notices that a connection is gone and aborts. *)
Reap(c) ==
    /\ Orphan(c)
    /\ Becomes(c, "rolledback")
    /\ UNCHANGED <<pc, mode, ctx, held, usable, session, stmt, wrote, durable, err>>

(* The server executes a COMMIT it was sent, awaited or not. *)
Commits(c) ==
    /\ tx[c] = "committing"
    /\ Becomes(c, "committed")
    /\ durable' = [durable EXCEPT ![c] = wrote[c]]
    /\ LeavesSession(c)
    /\ UNCHANGED <<pc, mode, ctx, held, usable, stmt, wrote, err>>

(* COMMIT of a failed transaction. *)
RollsBack(c) ==
    /\ pc[c] = "ack" /\ tx[c] = "failed"
    /\ Becomes(c, "rolledback")
    /\ LeavesSession(c)
    /\ UNCHANGED <<pc, mode, ctx, held, usable, stmt, wrote, durable, err>>

Server(c) == Reap(c) \/ Commits(c) \/ RollsBack(c)

-----------------------------------------------------------------------------
(* m.pool.BeginTx(ctx, opts). *)

Acquire(c) ==
    /\ pc[c] = "acquire" /\ ctx[c] = "live"
    /\ \E k \in Conns :
         /\ \A b \in Calls : held[b] # k
         /\ held' = [held EXCEPT ![c] = k]
    /\ Goto(c, "begin")
    /\ UNCHANGED <<mode, ctx, usable, session, tx, stmt, wrote, durable, err>>

(* MUTANT: the wait for a connection does not end with the context. *)
NeverGiveUp(c) == FALSE /\ UNCHANGED vars

GiveUp(c) ==
    /\ pc[c] = "acquire" /\ ctx[c] = "done"
    /\ Goto(c, "done")
    /\ Fails(c, "begin_error")
    /\ UNCHANGED <<mode, ctx, held, usable, session, tx, stmt, wrote, durable>>

Begin(c) ==
    /\ pc[c] = "begin" /\ ctx[c] = "live"
    /\ Goto(c, "fn")
    /\ Becomes(c, "open")
    /\ session' = [session EXCEPT ![held[c]] = c]
    /\ UNCHANGED <<mode, ctx, held, usable, stmt, wrote, durable, err>>

(* pgx closes the connection; BEGIN may have reached the server. *)
BeginFails(c) ==
    /\ pc[c] = "begin"
    /\ Goto(c, "done")
    /\ Fails(c, "begin_error")
    /\ \E state \in {"none", "open"} : Becomes(c, state)
    /\ Loses(c)
    /\ Release(c)
    /\ UNCHANGED <<mode, ctx, stmt, wrote, durable>>

-----------------------------------------------------------------------------
(* fn(New(tx)). *)

(* MUTANT: fn reaches for the manager's Queries(), a second connection. *)
SendOnPool(c) ==
    /\ pc[c] = "fn" /\ ctx[c] = "live" /\ usable[c] /\ tx[c] = "open"
    /\ Goto(c, "acquire")
    /\ UNCHANGED <<mode, ctx, held, usable, session, tx, stmt, wrote, durable, err>>

(* A statement the server gets to see.  On a context that is done, a lost  *)
(* connection or a failed transaction, it would return an error at once.   *)
Send(c) ==
    /\ pc[c] = "fn" /\ ctx[c] = "live" /\ usable[c] /\ tx[c] = "open"
    /\ Goto(c, "exec")
    /\ \E r \in Rows \cup {None} : stmt' = [stmt EXCEPT ![c] = r]
    /\ UNCHANGED <<mode, ctx, held, usable, session, tx, wrote, durable, err>>

(* The callback has its answer, or the error, and goes on. *)
Answered(c) == Goto(c, "fn") /\ stmt' = [stmt EXCEPT ![c] = None]

Read(c) ==
    /\ pc[c] = "exec" /\ stmt[c] = None
    /\ Answered(c)
    /\ UNCHANGED <<mode, ctx, held, usable, session, tx, wrote, durable, err>>

(* MUTANT: the statement runs on m.Queries(), outside the transaction. *)
WriteOutside(c) ==
    /\ pc[c] = "exec" /\ stmt[c] # None /\ mode[c] = "rw" /\ ~ Blocked(c)
    /\ Answered(c)
    /\ wrote' = [wrote EXCEPT ![c] = @ \cup {stmt[c]}]
    /\ durable' = [durable EXCEPT ![c] = @ \cup {stmt[c]}]
    /\ UNCHANGED <<mode, ctx, held, usable, session, tx, err>>

Write(c) ==
    /\ pc[c] = "exec" /\ stmt[c] # None /\ mode[c] = "rw" /\ ~ Blocked(c)
    /\ Answered(c)
    /\ wrote' = [wrote EXCEPT ![c] = @ \cup {stmt[c]}]
    /\ UNCHANGED <<mode, ctx, held, usable, session, tx, durable, err>>

(* A constraint, the victim of a deadlock, a write in a READ ONLY          *)
(* transaction.                                                            *)
Refused(c) ==
    /\ pc[c] = "exec"
    /\ Answered(c)
    /\ Becomes(c, "failed")
    /\ UNCHANGED <<mode, ctx, held, usable, session, wrote, durable, err>>

(* The context is done while the statement runs, or the connection breaks. *)
Interrupted(c) ==
    /\ pc[c] = "exec"
    /\ Answered(c)
    /\ Loses(c)
    /\ LeavesSession(c)
    /\ UNCHANGED <<mode, ctx, held, tx, wrote, durable, err>>

FnReturnsNil(c) ==
    /\ pc[c] = "fn"
    /\ Goto(c, "commit")
    /\ UNCHANGED <<mode, ctx, held, usable, session, tx, stmt, wrote, durable, err>>

(* MUTANT: the error is wrapped, and errors.Is no longer finds fn's. *)
FnErrorReworded(c) ==
    /\ pc[c] = "fn"
    /\ Goto(c, "rollback")
    /\ Fails(c, "run_error")
    /\ UNCHANGED <<mode, ctx, held, usable, session, tx, stmt, wrote, durable>>

FnFails(c) ==
    /\ pc[c] = "fn"
    /\ Goto(c, "rollback")
    /\ Fails(c, "fn_error")
    /\ UNCHANGED <<mode, ctx, held, usable, session, tx, stmt, wrote, durable>>

(* MUTANT: no recover, so nothing rolls back before the panic goes on. *)
FnPanicsThrough(c) ==
    /\ pc[c] = "fn"
    /\ Goto(c, "done")
    /\ Fails(c, "panic")
    /\ UNCHANGED <<mode, ctx, held, usable, session, tx, stmt, wrote, durable>>

FnPanics(c) ==
    /\ pc[c] = "fn"
    /\ Goto(c, "rollback")
    /\ Fails(c, "panic")
    /\ UNCHANGED <<mode, ctx, held, usable, session, tx, stmt, wrote, durable>>

FnEnds(c) == FnReturnsNil(c) \/ FnFails(c) \/ FnPanics(c)

-----------------------------------------------------------------------------
(* tx.Commit(ctx). *)

CommitSent(c) ==
    /\ pc[c] = "commit" /\ ctx[c] = "live" /\ usable[c]
    /\ Goto(c, "ack")
    /\ Becomes(c, IF tx[c] = "open" THEN "committing" ELSE tx[c])
    /\ UNCHANGED <<mode, ctx, held, usable, session, stmt, wrote, durable, err>>

(* Not sent, or lost on its way: the connection is closed. *)
CommitFails(c) ==
    /\ pc[c] = "commit"
    /\ Goto(c, "rollback")
    /\ Fails(c, "commit_error")
    /\ Loses(c)
    /\ Release(c)
    /\ UNCHANGED <<mode, ctx, tx, stmt, wrote, durable>>

(* MUTANT: ErrTxCommitRollback taken for success. *)
AnyAckIsSuccess(c) ==
    /\ pc[c] = "ack" /\ ~ Unfinished(c)
    /\ Goto(c, "done")
    /\ Fails(c, "nil")
    /\ Release(c)
    /\ UNCHANGED <<mode, ctx, usable, tx, stmt, wrote, durable>>

CommitReturns(c) ==
    /\ pc[c] = "ack" /\ ~ Unfinished(c)
    /\ IF tx[c] = "committed" THEN Goto(c, "done") /\ Fails(c, "nil")
       ELSE Goto(c, "rollback") /\ Fails(c, "commit_error")
    /\ Release(c)
    /\ UNCHANGED <<mode, ctx, usable, tx, stmt, wrote, durable>>

(* The context is done or the connection breaks before the answer comes. *)
AckLost(c) ==
    /\ pc[c] = "ack"
    /\ Goto(c, "rollback")
    /\ Fails(c, "commit_error")
    /\ Loses(c)
    /\ Release(c)
    /\ UNCHANGED <<mode, ctx, tx, stmt, wrote, durable>>

-----------------------------------------------------------------------------
(* The deferred function: rollback(ctx, tx), whose error is ignored. *)

(* MUTANT: ROLLBACK is issued on ctx, and dropped when that is done. *)
RollbackOnCtx(c) ==
    /\ pc[c] = "rollback" /\ held[c] # None /\ usable[c]
    /\ Goto(c, "done")
    /\ Becomes(c, IF ctx[c] = "live" THEN "rolledback" ELSE tx[c])
    /\ Release(c)
    /\ UNCHANGED <<mode, ctx, usable, stmt, wrote, durable, err>>

Rollback(c) ==
    /\ pc[c] = "rollback" /\ held[c] # None /\ usable[c]
    /\ Goto(c, "done")
    /\ Becomes(c, "rolledback")
    /\ Release(c)
    /\ UNCHANGED <<mode, ctx, usable, stmt, wrote, durable, err>>

(* The connection was lost before, or is lost now. *)
RollbackFails(c) ==
    /\ pc[c] = "rollback" /\ held[c] # None
    /\ Goto(c, "done")
    /\ Loses(c)
    /\ Release(c)
    /\ UNCHANGED <<mode, ctx, tx, stmt, wrote, durable, err>>

(* Commit has closed the transaction: pgx answers ErrTxClosed. *)
RollbackOfClosed(c) ==
    /\ pc[c] = "rollback" /\ held[c] = None
    /\ Goto(c, "done")
    /\ UNCHANGED <<mode, ctx, held, usable, session, tx, stmt, wrote, durable, err>>

-----------------------------------------------------------------------------
Run(c) ==
    \/ Acquire(c) \/ GiveUp(c) \/ Begin(c) \/ BeginFails(c)
    \/ Send(c) \/ Read(c) \/ Write(c) \/ Refused(c) \/ Interrupted(c) \/ FnEnds(c)
    \/ CommitSent(c) \/ CommitFails(c) \/ CommitReturns(c) \/ AckLost(c)
    \/ Rollback(c) \/ RollbackFails(c) \/ RollbackOfClosed(c)

Next == \E c \in Calls : Call(c) \/ Cancel(c) \/ Run(c) \/ Finish(c) \/ Server(c)

Spec == Init /\ [][Next]_vars

(* A statement that waits for a lock is certain to end only when the lock  *)
(* is released or its context is done.                                     *)
Advances(c) == Run(c) /\ ~ (Blocked(c) /\ ctx[c] = "live")

(* Every request has a deadline, callbacks end, messages are answered or   *)
(* their connection breaks, and the server notices closed connections.     *)
Fairness ==
    \A c \in Calls :
        /\ WF_vars(Cancel(c)) /\ WF_vars(Advances(c)) /\ SF_vars(FnEnds(c))
        /\ WF_vars(Server(c))

FairSpec == Spec /\ Fairness

-----------------------------------------------------------------------------
(* "It commits when fn returns nil and rolls back on any error": a caller  *)
(* told nil has all its writes in the database, whatever the callback      *)
(* swallowed and whichever answer was late; the error or the panic of the  *)
(* callback, or of BEGIN, leaves nothing behind, and no COMMIT under way.  *)
ErrorTellsTruth ==
    \A c \in Calls :
        /\ err[c] = "nil" => tx[c] = "committed" /\ durable[c] = wrote[c]
        /\ err[c] \in {"begin_error", "fn_error", "panic"}
              => durable[c] = {} /\ tx[c] \notin {"committing", "committed"}

(* A connection serves one call, only while run is on the stack, and comes *)
(* back to the pool in no transaction, whichever way out run takes.        *)
ConnectionsAccountedFor ==
    /\ \A c \in Calls : held[c] # None => pc[c] \notin {"idle", "acquire", "done"}
    /\ \A a, b \in Calls : held[a] # None /\ held[a] = held[b] => a = b
    /\ \A k \in Conns : session[k] # None => held[session[k]] = k

(* rollback "detaches from the caller's context deadline": a callback that *)
(* failed or panicked on a good connection leaves no transaction open.     *)
NoAbandonedTransaction ==
    \A c \in Calls :
        /\ pc[c] = "done" /\ usable[c]
        /\ err[c] \in {"fn_error", "panic"}
        => ~ Unfinished(c)

(* Whom c cannot move without: the holders of an exhausted pool, or the    *)
(* transaction that has its row locked.                                    *)
PoolExhausted == \A k \in Conns : \E b \in Calls : held[b] = k

WaitsFor(c) ==
    {b \in Calls : \/ pc[c] = "acquire" /\ PoolExhausted /\ held[b] # None
                   \/ WaitsForRow(c, b)}

(* Calls that wait for one another: each for one of them, and one of them  *)
(* for each.                                                               *)
Circle(S) ==
    /\ S # {}
    /\ \A c \in S : WaitsFor(c) \cap S # {}
    /\ \A c \in S : \E b \in S : c \in WaitsFor(b)

(* "fn must use only the *Queries it is handed": so no circle of calls     *)
(* that wait for one another runs through the pool.  Circles of row locks  *)
(* do close, and two calls are enough; PostgreSQL sees the whole of one of *)
(* those and ends it (DeadlockDetected in Organizations).  One that ran    *)
(* through the pool it could not see, and the requests in it would sit     *)
(* there until their deadlines, with every other request behind them.      *)
PoolOutsideCircles ==
    \A S \in SUBSET Calls : Circle(S) => \A c \in S : pc[c] = "exec"

(* Every call of Run returns, however many wait for the pool or a lock.    *)
RunsReturn == \A c \in Calls : pc[c] = "acquire" ~> pc[c] = "done"

(* No transaction keeps its locks for ever.                                *)
TransactionsEnd == \A c \in Calls : Unfinished(c) ~> ~ Unfinished(c)

(* The calls are units of work as UnitOfWork describes them.               *)
Phase ==
    [c \in Calls |-> IF pc[c] \in {"idle", "done"} THEN pc[c] ELSE "running"]

Promise == INSTANCE UnitOfWork WITH
    Writes <- Rows,
    phase <- Phase,
    written <- wrote,
    applied <- [c \in Calls |-> tx[c] = "committed"],
    effect <- durable,
    verdict <- [c \in Calls |-> IF pc[c] = "done" THEN err[c] ELSE "none"]

ImplementsUnitOfWork == Promise!UowSpec
=============================================================================
