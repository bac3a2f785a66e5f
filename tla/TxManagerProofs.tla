--------------------------- MODULE TxManagerProofs ---------------------------
(***************************************************************************)
(* Proofs about TxManager for any number of calls, connections and rows:   *)
(* type correctness, the accounting of connections and transactions, and   *)
(* that the calls implement UnitOfWork.                                    *)
(*                                                                         *)
(* The inductive invariant says, label by label, what a call knows of its  *)
(* connection and its transaction (At), that committed writes are those    *)
(* of committed transactions (Ledger), and that connections and sessions   *)
(* belong to one call each (Pool).                                         *)
(***************************************************************************)
EXTENDS TxManager, TLAPS

Closed == {"none", "committed", "rolledback"}

Leads(c) == held[c] # None /\ session[held[c]] = c

(* What holds of call c at each of its labels. *)
Fresh(c) ==
    pc[c] \in {"idle", "acquire", "begin"}
        => tx[c] = "none" /\ wrote[c] = {} /\ usable[c] /\ err[c] = "none"

Handle(c) ==
    /\ pc[c] \in {"idle", "acquire", "done"} => held[c] = None
    /\ pc[c] \in {"begin", "fn", "exec", "commit", "ack"} => held[c] # None /\ err[c] = "none"

InFn(c) ==
    /\ pc[c] \in {"fn", "commit"} =>
          /\ tx[c] \in {"open", "failed", "rolledback"}
          /\ usable[c] => Leads(c) /\ Unfinished(c)
    /\ pc[c] = "exec" => usable[c] /\ Leads(c) /\ tx[c] = "open"

InCommit(c) ==
    pc[c] = "ack" =>
        /\ usable[c] /\ tx[c] # "open" /\ tx[c] # "none"
        /\ Unfinished(c) => Leads(c)

InRollback(c) ==
    pc[c] = "rollback" =>
        IF held[c] = None THEN err[c] = "commit_error"
        ELSE /\ err[c] \in {"fn_error", "panic"}
             /\ tx[c] \in {"open", "failed", "rolledback"}

AtEnd(c) ==
    pc[c] = "done" =>
        /\ err[c] # "none"
        /\ err[c] = "nil" => tx[c] = "committed"
        /\ err[c] \in {"begin_error", "fn_error", "panic"}
              => tx[c] \notin {"committing", "committed"}
        /\ usable[c] /\ err[c] \in {"fn_error", "panic"} => tx[c] \in Closed

At(c) == Fresh(c) /\ Handle(c) /\ InFn(c) /\ InCommit(c) /\ InRollback(c) /\ AtEnd(c)

Ledger(c) == durable[c] = IF tx[c] = "committed" THEN wrote[c] ELSE {}

Pool ==
    /\ \A a, b \in Calls : held[a] # None /\ held[a] = held[b] => a = b
    /\ \A k \in Conns : session[k] # None => held[session[k]] = k

IInv == TypeOK /\ (\A c \in Calls : At(c) /\ Ledger(c)) /\ Pool

-----------------------------------------------------------------------------
(* What a step of call c leaves alone: everything about the other calls.   *)
Apart(c) ==
    \A b \in Calls \ {c} :
        /\ pc'[b] = pc[b] /\ held'[b] = held[b] /\ usable'[b] = usable[b]
        /\ tx'[b] = tx[b] /\ wrote'[b] = wrote[b] /\ durable'[b] = durable[b]
        /\ err'[b] = err[b]
        /\ \A k \in Conns : session[k] = b => session'[k] = b

LEMMA OthersKeep ==
    ASSUME IInv, NEW c \in Calls, Apart(c), NEW b \in Calls \ {c}
    PROVE  At(b)' /\ Ledger(b)'
<1>1. At(b) /\ Ledger(b) /\ b \in Calls /\ held[b] \in Conns \cup {None}
  BY DEF IInv, TypeOK
<1>2. Leads(b) => Leads(b)'
  BY <1>1 DEF Apart, Leads
<1>3. Unfinished(b)' <=> Unfinished(b)
  BY DEF Apart, Unfinished
<1>4. Fresh(b)' /\ Handle(b)' /\ AtEnd(b)' /\ InRollback(b)'
  BY <1>1 DEF Apart, At, Fresh, Handle, AtEnd, InRollback
<1>5. InFn(b)' /\ InCommit(b)'
  BY <1>1, <1>2, <1>3 DEF Apart, At, InFn, InCommit
<1>6. Ledger(b)'
  BY <1>1 DEF Apart, Ledger
<1> QED BY <1>4, <1>5, <1>6 DEF At

LEMMA Initially == Init => IInv
BY TxAssumption DEF Init, IInv, TypeOK, At, Ledger, Pool, Fresh, Handle, InFn, InCommit,
   InRollback, AtEnd, Labels, Errors, TxStates

LEMMA TypeStep == ASSUME IInv, Next PROVE TypeOK'
<1> USE TxAssumption DEF IInv, TypeOK, Labels, Errors, TxStates, Goto, Fails, Becomes, Loses,
        LeavesSession, Release, Answered
<1> PICK c \in Calls : Call(c) \/ Cancel(c) \/ Run(c) \/ Finish(c) \/ Server(c)
  BY DEF Next
<1>1. CASE Call(c) BY <1>1 DEF Call
<1>2. CASE Cancel(c) BY <1>2 DEF Cancel
<1>3. CASE Finish(c) BY <1>3 DEF Finish
<1>4. CASE Server(c)
  <2>1. CASE Reap(c) BY <2>1 DEF Reap
  <2>2. CASE Commits(c) BY <2>2 DEF Commits
  <2>3. CASE RollsBack(c) BY <2>3 DEF RollsBack
  <2> QED BY <1>4, <2>1, <2>2, <2>3 DEF Server
<1>5. CASE Run(c)
  <2>1. CASE Acquire(c) BY <2>1 DEF Acquire
  <2>2. CASE GiveUp(c) BY <2>2 DEF GiveUp
  <2>3. CASE Begin(c) BY <2>3 DEF Begin
  <2>4. CASE BeginFails(c) BY <2>4 DEF BeginFails
  <2>5. CASE Send(c) \/ Read(c) BY <2>5 DEF Send, Read
  <2>6. CASE Write(c) BY <2>6 DEF Write
  <2>7. CASE Refused(c) BY <2>7 DEF Refused
  <2>8. CASE Interrupted(c) BY <2>8 DEF Interrupted
  <2>9. CASE FnEnds(c) BY <2>9 DEF FnEnds, FnReturnsNil, FnFails, FnPanics
  <2>10. CASE CommitSent(c) BY <2>10 DEF CommitSent
  <2>11. CASE CommitFails(c) BY <2>11 DEF CommitFails
  <2>12. CASE CommitReturns(c) BY <2>12 DEF CommitReturns
  <2>13. CASE AckLost(c) BY <2>13 DEF AckLost
  <2>14. CASE Rollback(c) BY <2>14 DEF Rollback
  <2>15. CASE RollbackFails(c) BY <2>15 DEF RollbackFails
  <2>16. CASE RollbackOfClosed(c) BY <2>16 DEF RollbackOfClosed
  <2> QED BY <1>5, <2>1, <2>2, <2>3, <2>4, <2>5, <2>6, <2>7, <2>8, <2>9, <2>10, <2>11, <2>12,
             <2>13, <2>14, <2>15, <2>16 DEF Run
<1> QED BY <1>1, <1>2, <1>3, <1>4, <1>5

-----------------------------------------------------------------------------
(* What one step of call c has to show for the rest of IInv.               *)
Preserves(c) == Apart(c) /\ At(c)' /\ Ledger(c)' /\ Pool'

LEMMA EnvironmentSteps ==
    ASSUME IInv, NEW c \in Calls, Call(c) \/ Cancel(c) \/ Finish(c) \/ Server(c)
    PROVE  Preserves(c)
<1> USE TxAssumption DEF IInv, TypeOK, Preserves, Apart, At, Ledger, Pool, Goto, Fails, Becomes, Unfinished
<1>1. CASE Call(c)
  BY <1>1 DEF Call, Fresh, Handle, InFn, InCommit, InRollback, AtEnd
<1>2. CASE Cancel(c)
  BY <1>2 DEF Cancel, Fresh, Handle, InFn, InCommit, InRollback, AtEnd, Leads, Unfinished
<1>3. CASE Finish(c)
  BY <1>3 DEF Finish, Fresh, Handle, InFn, InCommit, InRollback, AtEnd
<1>4. CASE Reap(c)
  BY <1>4 DEF Reap, Orphan, Fresh, Handle, InFn, InCommit, InRollback, AtEnd, Leads, Unfinished, Closed
<1>5. CASE Commits(c)
  BY <1>5 DEF Commits, LeavesSession, Fresh, Handle, InFn, InCommit, InRollback, AtEnd, Unfinished, Closed
<1>6. CASE RollsBack(c)
  BY <1>6 DEF RollsBack, LeavesSession, Fresh, Handle, InFn, InCommit, InRollback, AtEnd, Unfinished
<1> QED BY <1>1, <1>2, <1>3, <1>4, <1>5, <1>6 DEF Server

LEMMA RunSteps == ASSUME IInv, NEW c \in Calls, Run(c) PROVE Preserves(c)
<1> USE TxAssumption DEF IInv, TypeOK, Preserves, Apart, At, Ledger, Pool, Goto, Fails, Becomes, Unfinished
<1> USE DEF Fresh, Handle, InFn, InCommit, InRollback, AtEnd, Leads, Unfinished, Closed
<1>1. CASE Acquire(c) BY <1>1 DEF Acquire
<1>2. CASE GiveUp(c) BY <1>2 DEF GiveUp
<1>3. CASE Begin(c) BY <1>3 DEF Begin
<1>4. CASE BeginFails(c) BY <1>4 DEF BeginFails, Loses, Release, LeavesSession
<1>5. CASE Send(c) BY <1>5 DEF Send
<1>6. CASE Read(c) BY <1>6 DEF Read, Answered
<1>7. CASE Write(c) BY <1>7 DEF Write, Answered
<1>8. CASE Refused(c) BY <1>8 DEF Refused, Answered
<1>9. CASE Interrupted(c) BY <1>9 DEF Interrupted, Answered, Loses, LeavesSession
<1>10. CASE FnEnds(c)
  <2>1. CASE FnReturnsNil(c) BY <2>1 DEF FnReturnsNil
  <2>2. CASE FnFails(c) BY <2>2 DEF FnFails
  <2>3. CASE FnPanics(c) BY <2>3 DEF FnPanics
  <2> QED BY <1>10, <2>1, <2>2, <2>3 DEF FnEnds
<1>11. CASE CommitSent(c) BY <1>11 DEF CommitSent
<1>12. CASE CommitFails(c) BY <1>12 DEF CommitFails, Loses, Release, LeavesSession
<1>13. CASE CommitReturns(c) BY <1>13 DEF CommitReturns, Release, LeavesSession
<1>14. CASE AckLost(c) BY <1>14 DEF AckLost, Loses, Release, LeavesSession
<1>15. CASE Rollback(c) BY <1>15 DEF Rollback, Release, LeavesSession
<1>16. CASE RollbackFails(c) BY <1>16 DEF RollbackFails, Loses, Release, LeavesSession
<1>17. CASE RollbackOfClosed(c) BY <1>17 DEF RollbackOfClosed
<1> QED BY <1>1, <1>2, <1>3, <1>4, <1>5, <1>6, <1>7, <1>8,
           <1>9, <1>10, <1>11, <1>12, <1>13, <1>14, <1>15, <1>16, <1>17 DEF Run

LEMMA Inductive == ASSUME IInv, [Next]_vars PROVE IInv'
<1>1. CASE Next
  <2>1. TypeOK' BY <1>1, TypeStep
  <2>2. PICK c \in Calls : Call(c) \/ Cancel(c) \/ Run(c) \/ Finish(c) \/ Server(c)
    BY <1>1 DEF Next
  <2>3. Preserves(c) BY <2>2, EnvironmentSteps, RunSteps
  <2>4. ASSUME NEW b \in Calls PROVE At(b)' /\ Ledger(b)'
    BY <2>3, OthersKeep DEF Preserves
  <2> QED BY <2>1, <2>3, <2>4 DEF IInv, Preserves
<1>2. CASE UNCHANGED vars
  BY <1>2 DEF vars, IInv, TypeOK, At, Ledger, Pool, Fresh, Handle, InFn, InCommit,
     InRollback, AtEnd, Leads, Unfinished
<1> QED BY <1>1, <1>2

(* IInv holds in every reachable state. *)
THEOREM Invariance == Spec => []IInv
<1>1. Init => IInv BY Initially
<1>2. IInv /\ [Next]_vars => IInv' BY Inductive
<1> QED BY <1>1, <1>2, PTL DEF Spec

(* Every variable of run and of the pool keeps its type. *)
THEOREM TypeCorrect == Spec => []TypeOK
<1>1. IInv => TypeOK BY DEF IInv
<1> QED BY <1>1, Invariance, PTL

(* nil means that all writes are committed; the failure of BEGIN or of the *)
(* callback, and a panic, mean that none ever will be.                     *)
THEOREM ErrorsTrue == Spec => []ErrorTellsTruth
<1>1. IInv => ErrorTellsTruth
  BY DEF IInv, TypeOK, At, Fresh, Handle, InRollback, AtEnd, Ledger, ErrorTellsTruth, Labels
<1> QED BY <1>1, Invariance, PTL

(* Connections are held by one call, inside run, and come back clean. *)
THEOREM ConnectionsSound == Spec => []ConnectionsAccountedFor
<1>1. IInv => ConnectionsAccountedFor
  BY DEF IInv, TypeOK, At, Handle, Pool, ConnectionsAccountedFor
<1> QED BY <1>1, Invariance, PTL

(* A callback that fails on a good connection leaves no open transaction. *)
THEOREM NothingAbandoned == Spec => []NoAbandonedTransaction
<1>1. IInv => NoAbandonedTransaction
  BY DEF IInv, At, AtEnd, NoAbandonedTransaction, Unfinished, Closed
<1> QED BY <1>1, Invariance, PTL

(* A call that waits for the pool holds no connection, and no transaction  *)
(* that another call could wait for.                                       *)
LEMMA NobodyWaitsForAPoolWaiter ==
    ASSUME IInv, NEW b \in Calls, NEW c \in Calls, c \in WaitsFor(b)
    PROVE  pc[c] # "acquire"
BY DEF IInv, At, Fresh, Handle, WaitsFor, WaitsForRow, Locks, Unfinished

(* However many calls wait for one another in a circle, each of them waits *)
(* for a row that another has locked: none waits for the pool.             *)
THEOREM PoolClosesNoCircle == Spec => []PoolOutsideCircles
<1>1. ASSUME IInv, NEW S \in SUBSET Calls, Circle(S), NEW c \in S
      PROVE  pc[c] = "exec"
  <2>1. PICK b \in S : c \in WaitsFor(b) BY <1>1 DEF Circle
  <2>2. pc[c] # "acquire" BY <1>1, <2>1, NobodyWaitsForAPoolWaiter
  <2>3. WaitsFor(c) # {} BY <1>1 DEF Circle
  <2> QED BY <2>2, <2>3 DEF WaitsFor, WaitsForRow
<1>2. IInv => PoolOutsideCircles BY <1>1 DEF PoolOutsideCircles
<1> QED BY <1>2, Invariance, PTL

-----------------------------------------------------------------------------
(* Refinement: BEGIN, statements and messages stutter; Write is AddWrite,  *)
(* the COMMIT the server executes is Apply, and whatever ends run is End.  *)

LEMMA StartsAsPromised == Init => Promise!UowInit
<1> SUFFICES ASSUME Init PROVE Promise!UowInit OBVIOUS
<1>1. Phase = [c \in Calls |-> "idle"] BY DEF Init, Phase
<1>2. \A c \in Calls : tx[c] # "committed" BY DEF Init
<1>3. [c \in Calls |-> tx[c] = "committed"] = [c \in Calls |-> FALSE] BY <1>2, Zenon
<1>4. [c \in Calls |-> IF pc[c] = "done" THEN err[c] ELSE "none"] = [c \in Calls |-> "none"]
  BY DEF Init
<1> QED BY <1>1, <1>3, <1>4 DEF Init, Promise!UowInit, Promise!Untold

LEMMA EveryStepIsPromised == ASSUME IInv, [Next]_vars PROVE [Promise!UowNext]_(Promise!uowVars)
<1> USE DEF Promise!uowVars, Phase, IInv, TypeOK, Goto, Fails, Becomes
<1>1. CASE UNCHANGED vars BY <1>1 DEF vars
<1> SUFFICES ASSUME NEW c \in Calls, Call(c) \/ Cancel(c) \/ Run(c) \/ Finish(c) \/ Server(c)
             PROVE  \/ Promise!Start(c) \/ Promise!AddWrite(c) \/ Promise!Apply(c)
                    \/ Promise!End(c) \/ Promise!Forget(c)
                    \/ UNCHANGED Promise!uowVars
  BY <1>1 DEF Next, Promise!UowNext
<1>2. At(c) /\ Ledger(c) OBVIOUS
<1>3. CASE Call(c)
  <2> Promise!Start(c) BY <1>2, <1>3 DEF Call, Promise!Start
  <2> QED OBVIOUS
<1>4. CASE Cancel(c) BY <1>4 DEF Cancel
<1>5. CASE Finish(c)
  <2> Promise!Forget(c) BY <1>5 DEF Finish, Promise!Forget, Promise!Untold
  <2> QED OBVIOUS
<1>6. CASE Reap(c) BY <1>6 DEF Reap, Orphan, Unfinished
<1>7. CASE RollsBack(c) BY <1>7 DEF RollsBack
<1>8. CASE Commits(c)
  <2> Promise!Apply(c)
    BY <1>2, <1>8 DEF Commits, Promise!Apply, Promise!InDoubt, At, Fresh, AtEnd, Errors, Ledger
  <2> QED OBVIOUS
<1>9. CASE Write(c)
  <2> Promise!AddWrite(c) BY <1>2, <1>9 DEF Write, Answered, Promise!AddWrite, At, InFn
  <2> QED OBVIOUS
<1> DEFINE Stutters ==
    \/ Acquire(c) \/ Begin(c) \/ Send(c) \/ Read(c) \/ Refused(c) \/ Interrupted(c)
    \/ FnEnds(c) \/ CommitSent(c) \/ CommitFails(c) \/ AckLost(c)
<1>10. CASE Stutters
  BY <1>2, <1>10 DEF Acquire, Begin, Send, Read, Refused, Interrupted, FnEnds, FnReturnsNil,
     FnFails, FnPanics, CommitSent, CommitFails, AckLost, Answered, At, Fresh, InFn
<1> DEFINE Ends ==
    GiveUp(c) \/ BeginFails(c) \/ Rollback(c) \/ RollbackFails(c) \/ RollbackOfClosed(c)
<1>11. CASE Ends
  <2>1. \A b \in Calls : (tx'[b] = "committed") <=> (tx[b] = "committed")
    BY <1>2, <1>11 DEF GiveUp, BeginFails, Rollback, RollbackFails, RollbackOfClosed,
       At, Fresh, InRollback
  <2>2. [b \in Calls |-> tx[b] = "committed"]' = [b \in Calls |-> tx[b] = "committed"]
    BY <2>1, Zenon
  <2>3. UNCHANGED <<wrote, durable>> /\ pc[c] \notin {"idle", "done"}
    BY <1>11 DEF GiveUp, BeginFails, Rollback, RollbackFails, RollbackOfClosed
  <2>4. pc' = [pc EXCEPT ![c] = "done"] /\ \A b \in Calls \ {c} : err'[b] = err[b]
    BY <1>11 DEF GiveUp, BeginFails, Rollback, RollbackFails, RollbackOfClosed
  <2>5. err'[c] \in Promise!Told(c)
    BY <1>2, <1>11 DEF GiveUp, BeginFails, Rollback, RollbackFails, RollbackOfClosed,
       At, Fresh, Handle, InRollback, Promise!Told
  <2>6. Phase[c] = "running" /\ Phase' = [Phase EXCEPT ![c] = "done"]
    BY <2>3, <2>4
  <2>7. [b \in Calls |-> IF pc[b] = "done" THEN err[b] ELSE "none"]'
          = [[b \in Calls |-> IF pc[b] = "done" THEN err[b] ELSE "none"] EXCEPT ![c] = err'[c]]
    BY <2>4
  <2> HIDE DEF Phase
  <2> Promise!End(c) BY <2>2, <2>3, <2>5, <2>6, <2>7 DEF Promise!End
  <2> QED OBVIOUS
<1>12. CASE CommitReturns(c)
  <2>1. CASE tx[c] = "committed"
    <3>1. pc[c] = "ack" /\ pc' = [pc EXCEPT ![c] = "done"] /\ err' = [err EXCEPT ![c] = "nil"]
      BY <2>1, <1>12 DEF CommitReturns
    <3>2. UNCHANGED <<wrote, tx, durable>> BY <1>12 DEF CommitReturns
    <3>3. "nil" \in Promise!Told(c) BY <2>1 DEF Promise!Told
    <3>4. [b \in Calls |-> IF pc[b] = "done" THEN err[b] ELSE "none"]'
            = [[b \in Calls |-> IF pc[b] = "done" THEN err[b] ELSE "none"] EXCEPT ![c] = "nil"]
      BY <3>1
    <3>5. Phase[c] = "running" /\ Phase' = [Phase EXCEPT ![c] = "done"] BY <3>1
    <3> HIDE DEF Phase
    <3>6. Promise!End(c) BY <3>2, <3>3, <3>4, <3>5 DEF Promise!End
    <3> QED BY <3>6
  <2>2. CASE tx[c] # "committed" BY <2>2, <1>12 DEF CommitReturns
  <2> QED BY <2>1, <2>2
<1> QED BY <1>3, <1>4, <1>5, <1>6, <1>7, <1>8, <1>9, <1>10, <1>11, <1>12 DEF Run, Server

(* The calls of Run are units of work: all their writes take effect at one *)
(* moment or never, as their caller is told, in doubt only after COMMIT.   *)
THEOREM Refinement == Spec => ImplementsUnitOfWork
<1>1. Init => Promise!UowInit BY StartsAsPromised
<1>2. IInv /\ [Next]_vars => [Promise!UowNext]_(Promise!uowVars) BY EveryStepIsPromised
<1> QED BY <1>1, <1>2, Invariance, PTL DEF Spec, ImplementsUnitOfWork, Promise!UowSpec

=============================================================================
