---------------------------- MODULE MigrateProofs ----------------------------
(***************************************************************************)
(* Proofs about Migrate for any operators, checkouts, migrations and       *)
(* command lines.  The inductive invariant says what the holder of the     *)
(* lock knows at each stage of its command (At); nobody else knows         *)
(* anything of the database.                                               *)
(***************************************************************************)
EXTENDS Migrate, TLAPS

USE MigrateAssumption DEF MigrateAssumption

Commanded(o) ==
    LET c == op[o].cmd IN
    /\ op[o].pc = "lock" => ~ Refused(c) /\ ~ NoChange(c) /\ c.name # "version"
    /\ op[o].pc = "force" => c.name = "force" /\ c.n >= 0
    /\ op[o].pc \in {"check", "step", "run", "clean"} => Moves(c) /\ ~ NoChange(c)

(* How far the command has come from where it began. *)
Under(o) ==
    /\ op[o].from \in {Nil} \cup 1..Files[o]
    /\ op[o].began \in {Nil} \cup 1..Files[o]
    /\ IF op[o].cmd.name = "up" THEN op[o].left = Unlimited
       ELSE /\ op[o].left \in Nat
            /\ IF op[o].cmd.n < 0
               THEN op[o].left = Level(op[o].began) - Level(op[o].from) - op[o].cmd.n
               ELSE op[o].left = op[o].cmd.n - (Level(op[o].began) - Level(op[o].from))

UnderWay(o) == op[o].pc \in {"step", "run", "clean"} => Under(o)

Known(o) ==
    /\ op[o].pc = "step" => ~ dirty /\ version = op[o].from
    /\ op[o].pc \in {"run", "clean"} => dirty /\ version = Target(o) /\ More(o)
    /\ op[o].pc = "run" /\ ~ lied => applied = 1..op[o].from
    /\ op[o].pc = "clean" /\ ~ lied => applied = 1..Target(o)

Outcome(o) ==
    op[o].pc = "unlock" /\ op[o].result = "ok" /\ Moves(op[o].cmd)
        => ~ dirty /\ version = Goal(o)

At(o) == Commanded(o) /\ UnderWay(o) /\ Known(o) /\ Outcome(o)

IInv == TypeOK /\ (\A o \in Operators : At(o)) /\ ClaimTrue /\ DoubtIsOneStep

-----------------------------------------------------------------------------
(* What the other operators know is not touched by a step of o. *)
Apart(o) ==
    /\ \A p \in Operators \ {o} : op'[p] = op[p]
    /\ lock = o \/ UNCHANGED <<version, dirty, applied, lied>>

LEMMA OthersKeep ==
    ASSUME IInv, NEW o \in Operators, Apart(o), NEW p \in Operators \ {o}
    PROVE  At(p)'
<1>1. At(p) /\ op'[p] = op[p] /\ p \in Operators
  BY DEF IInv, Apart
<1>2. Commanded(p)' /\ UnderWay(p)'
  BY <1>1 DEF At, Commanded, UnderWay, Under
<1>3. CASE lock = o
  <2>1. op[p].pc \notin Locked
    BY <1>3 DEF IInv, TypeOK
  <2> QED
    BY <1>1, <1>2, <2>1 DEF At, Known, Outcome, Locked
<1>4. CASE UNCHANGED <<version, dirty, applied, lied>>
  BY <1>1, <1>2, <1>4 DEF At, Known, Outcome, More, Target, Goal
<1> QED
  BY <1>3, <1>4 DEF Apart

(* What a step of o has to establish. *)
Keeps(o) ==
    TypeOK' /\ At(o)' /\ ClaimTrue' /\ DoubtIsOneStep' /\ Apart(o)

(* A step that only moves o's command on, outside what At knows of the database. *)
LEMMA FrameKeeps ==
    ASSUME IInv, NEW o \in Operators, UNCHANGED <<version, dirty, applied, lied>>,
           op' = [op EXCEPT ![o] = op'[o]],
           lock' = lock \/ (lock = NoOne /\ lock' = o) \/ (lock = o /\ lock' = NoOne),
           op'[o] \in Progress,
           lock' = o <=> op'[o].pc \in Locked
    PROVE  TypeOK' /\ ClaimTrue' /\ DoubtIsOneStep' /\ Apart(o)
<1>1. ClaimTrue' /\ DoubtIsOneStep'
  BY DEF IInv, ClaimTrue, DoubtIsOneStep, OneStepAway
<1>2. \A p \in Operators \ {o} : op'[p] = op[p]
  BY DEF IInv, TypeOK
<1>3. \A p \in Operators : lock' = p <=> op'[p].pc \in Locked
  BY <1>2 DEF IInv, TypeOK
<1>4. TypeOK'
  BY <1>3 DEF IInv, TypeOK
<1> QED
  BY <1>1, <1>2, <1>4 DEF Apart

LEMMA BeginKeeps ==
    ASSUME IInv, NEW o \in Operators, NEW c \in Commands, Begin(o, c)
    PROVE  Keeps(o)
<1>1. op[o].pc = "idle" /\ lock # o /\ op'[o].pc = "open"
  <2>1. op[o] \in Progress /\ op'[o] = [op[o] EXCEPT !.pc = "open", !.cmd = c]
    BY DEF Begin, IInv, TypeOK
  <2>2. op'[o].pc = "open"
    BY <2>1 DEF Progress
  <2>3. op[o].pc = "idle" /\ op[o].pc \notin Locked
    BY DEF Begin, Locked
  <2> QED
    BY <2>2, <2>3 DEF IInv, TypeOK
<1>2. At(o)'
  BY <1>1 DEF At, Commanded, UnderWay, Known, Outcome
<1>3. op[o] \in Progress /\ op'[o] = [op[o] EXCEPT !.pc = "open", !.cmd = c]
  BY DEF Begin, IInv, TypeOK
<1>4. op'[o] \in Progress
  BY <1>3 DEF Progress, Stages
<1>5. op' = [op EXCEPT ![o] = op'[o]]
  BY DEF Begin, IInv, TypeOK
<1> QED
  BY <1>1, <1>2, <1>4, <1>5, FrameKeeps DEF Begin, Locked, Keeps

(* A command that ends leaves the database as it is, and may claim success *)
(* of a move only where the move has reached its goal.                     *)
LEMMA EndKeeps ==
    ASSUME IInv, NEW o \in Operators, NEW r \in {"ok", "error", "lost"},
           Ends(o, r), UNCHANGED <<version, dirty, applied, lock, lied>>,
           r = "ok" /\ lock = o /\ Moves(op[o].cmd) => ~ dirty /\ version = Goal(o)
    PROVE  Keeps(o)
<1>1. /\ op[o] \in Progress
      /\ op'[o] = [op[o] EXCEPT !.pc = IF lock = o THEN "unlock" ELSE "done", !.result = r]
      /\ op' = [op EXCEPT ![o] = op'[o]]
  BY DEF Ends, IInv, TypeOK
<1>2. op'[o] \in Progress
  BY <1>1 DEF Progress, Stages
<1>3. op'[o].pc = (IF lock = o THEN "unlock" ELSE "done") /\ op'[o].result = r
  BY <1>1 DEF Progress
<1>4. Outcome(o)'
  <2>1. op'[o].cmd = op[o].cmd /\ op'[o].began = op[o].began
    BY <1>1 DEF Progress
  <2> QED
    BY <1>3, <2>1 DEF Outcome, Goal
<1>5. At(o)'
  BY <1>3, <1>4 DEF At, Commanded, UnderWay, Known
<1> QED
  BY <1>1, <1>2, <1>3, <1>5, FrameKeeps DEF Keeps, Locked

LEMMA OpensKeeps ==
    ASSUME IInv, NEW o \in Operators, Opens(o)
    PROVE  Keeps(o)
<1> DEFINE c == op[o].cmd
<1>1. lock # o /\ UNCHANGED <<version, dirty, applied, lock, lied>>
  BY DEF Opens
<1>2. CASE \/ Refused(c) /\ Ends(o, "error")
           \/ NoChange(c) /\ Ends(o, "ok")
  BY <1>1, <1>2, EndKeeps
<1>3. ASSUME NEW to \in {"report", "lock"}, Goes(o, "open", to),
             to = "lock" => ~ Refused(c) /\ ~ NoChange(c) /\ c.name # "version"
      PROVE  Keeps(o)
  <2>1. /\ op[o] \in Progress
        /\ op'[o] = [op[o] EXCEPT !.pc = to]
        /\ op' = [op EXCEPT ![o] = op'[o]]
    BY <1>3 DEF Goes, IInv, TypeOK
  <2>2. op'[o] \in Progress /\ op'[o].pc = to /\ op'[o].cmd = c
    BY <2>1 DEF Progress, Stages
  <2>3. At(o)'
    BY <1>3, <2>2 DEF At, Commanded, UnderWay, Known, Outcome, Refused, NoChange
  <2> QED
    BY <1>1, <2>1, <2>2, <2>3, FrameKeeps DEF Keeps, Locked
<1>4. CASE c.name = "version" /\ Goes(o, "open", "report")
  BY <1>3, <1>4
<1>5. CASE ~ Refused(c) /\ ~ NoChange(c) /\ c.name # "version" /\ Goes(o, "open", "lock")
  BY <1>3, <1>5
<1> QED
  BY <1>2, <1>4, <1>5 DEF Opens

LEMMA LocksKeeps ==
    ASSUME IInv, NEW o \in Operators, Locks(o)
    PROVE  Keeps(o)
<1> DEFINE c == op[o].cmd
           to == IF c.name = "force" THEN "force" ELSE "check"
<1>1. /\ op[o] \in Progress
      /\ op'[o] = [op[o] EXCEPT !.pc = to]
      /\ op' = [op EXCEPT ![o] = op'[o]]
  BY DEF Locks, Goes, IInv, TypeOK
<1>2. op'[o] \in Progress /\ op'[o].pc = to /\ op'[o].cmd = c
  BY <1>1 DEF Progress, Stages
<1>3. ~ Refused(c) /\ ~ NoChange(c) /\ c.name # "version"
  BY DEF Locks, Goes, IInv, At, Commanded
<1>4. c.name \in {"up", "down", "version", "force"} /\ c.n \in Int
  <2>1. c \in Commands \cup {Idle.cmd}
    BY <1>1 DEF Progress
  <2> QED
    BY <2>1 DEF Idle
<1>5. Commanded(o)'
  BY <1>2, <1>3, <1>4 DEF Commanded, Refused, NoChange, Moves
<1>6. At(o)'
  BY <1>2, <1>5 DEF At, UnderWay, Known, Outcome
<1> QED
  BY <1>1, <1>2, <1>6, FrameKeeps DEF Keeps, Locked, Locks

LEMMA ChecksKeeps ==
    ASSUME IInv, NEW o \in Operators, Checks(o)
    PROVE  Keeps(o)
<1> DEFINE c == op[o].cmd
<1>1. lock = o /\ op[o].pc = "check"
  BY DEF Checks, IInv, TypeOK, Locked
<1>2. CASE dirty \/ version \notin {Nil} \cup 1..Files[o]
  BY <1>1, <1>2, EndKeeps DEF Checks
<1>3. CASE ~ (dirty \/ version \notin {Nil} \cup 1..Files[o])
  <2>1. /\ op[o] \in Progress
        /\ op'[o] = [op[o] EXCEPT !.pc = "step", !.began = version,
                                  !.from = version, !.left = Limit(c)]
        /\ op' = [op EXCEPT ![o] = op'[o]]
    BY <1>3 DEF Checks, IInv, TypeOK
  <2>2. Moves(c) /\ ~ NoChange(c) /\ c.n \in Int
    <3>1. Moves(c) /\ ~ NoChange(c)
      BY <1>1 DEF IInv, At, Commanded
    <3>2. c \in Commands \cup {Idle.cmd}
      BY <2>1 DEF Progress
    <3> QED
      BY <3>1, <3>2 DEF Idle
  <2>3. Limit(c) \in Int
    BY <2>2 DEF Limit, Unlimited
  <2>4. /\ op'[o] \in Progress /\ op'[o].pc = "step" /\ op'[o].cmd = c
        /\ op'[o].began = version /\ op'[o].from = version /\ op'[o].left = Limit(c)
    BY <2>1, <2>3 DEF Progress, Stages, IInv, TypeOK
  <2>5. Under(o)'
    BY <1>3, <2>2, <2>4 DEF Under, Limit, Level, Unlimited, Moves, NoChange, Nil
  <2>6. Commanded(o)'
    BY <2>2, <2>4 DEF Commanded, Moves, NoChange
  <2>7. At(o)'
    BY <1>3, <2>4, <2>5, <2>6 DEF At, UnderWay, Known, Outcome, Checks
  <2> QED
    BY <1>1, <2>1, <2>4, <2>7, FrameKeeps DEF Keeps, Locked, Checks
<1> QED
  BY <1>2, <1>3

LEMMA FinishesKeeps ==
    ASSUME IInv, NEW o \in Operators, Finishes(o)
    PROVE  Keeps(o)
<1> DEFINE r == IF op[o].left \in {0, Unlimited} THEN "ok" ELSE "error"
<1>1. /\ lock = o /\ op[o].pc = "step" /\ ~ More(o) /\ Ends(o, r)
      /\ UNCHANGED <<version, dirty, applied, lock, lied>>
  BY DEF Finishes, IInv, TypeOK, Locked
<1>2. Under(o) /\ Moves(op[o].cmd) /\ ~ NoChange(op[o].cmd)
  BY <1>1 DEF IInv, At, UnderWay, Commanded
<1>3. ~ dirty /\ version = op[o].from
  BY <1>1 DEF IInv, At, Known
<1>4. op[o].cmd.n \in Int /\ Files[o] \in Nat \ {0}
  <2>1. op[o].cmd \in Commands \cup {Idle.cmd}
    BY DEF IInv, TypeOK, Progress
  <2> QED
    BY <2>1 DEF Idle
<1>5. ASSUME r = "ok" PROVE version = Goal(o)
  <2>1. CASE op[o].cmd.name = "up"
    BY <1>1, <1>2, <1>3, <1>4, <2>1 DEF Under, More, Upward, Goal, Unlimited, Nil
  <2>2. ASSUME op[o].cmd.name # "up"
        PROVE  /\ op[o].left = 0
               /\ op[o].from \in {-1} \cup 1..Files[o]
               /\ op[o].began \in {-1} \cup 1..Files[o]
    BY <1>2, <1>5, <2>2 DEF Under, Unlimited, Nil
  <2>3. CASE op[o].cmd.name = "down" /\ op[o].cmd.n < 0
    <3>1. Level(op[o].from) \in Int /\ Level(op[o].began) \in Int
      BY <1>4, <2>2, <2>3 DEF Level, Nil
    <3>2. 0 = Level(op[o].began) - Level(op[o].from) - op[o].cmd.n
      BY <1>2, <2>2, <2>3 DEF Under
    <3>3. Level(op[o].from) = Level(op[o].began) - op[o].cmd.n
      BY <1>4, <3>1, <3>2
    <3>4. Goal(o) = Level(op[o].began) - op[o].cmd.n
      BY <2>3 DEF Goal
    <3>5. Level(op[o].from) > 0
      BY <1>4, <2>2, <2>3, <3>1, <3>3 DEF Level, Nil
    <3>6. op[o].from = Level(op[o].from)
      BY <3>5 DEF Level
    <3> QED
      BY <1>3, <3>3, <3>4, <3>6
  <2>4. CASE op[o].cmd.name = "down" /\ op[o].cmd.n > 0
    <3>1. Level(op[o].from) \in Int /\ Level(op[o].began) \in Int
      BY <1>4, <2>2, <2>4 DEF Level, Nil
    <3>2. 0 = op[o].cmd.n - (Level(op[o].began) - Level(op[o].from))
      BY <1>2, <1>4, <2>2, <2>4 DEF Under
    <3> QED
      BY <1>3, <1>4, <2>2, <2>4, <3>1, <3>2 DEF Goal, Level, Nil
  <2> QED
    BY <1>2, <1>4, <2>1, <2>3, <2>4 DEF Moves, NoChange
<1> QED
  BY <1>1, <1>3, <1>5, EndKeeps

LEMMA UnlocksKeeps ==
    ASSUME IInv, NEW o \in Operators, Unlocks(o)
    PROVE  Keeps(o)
<1> DEFINE to == IF ReadsVersion(o) THEN "report" ELSE "done"
<1>1. /\ op[o] \in Progress
      /\ op'[o] = [op[o] EXCEPT !.pc = to]
      /\ op' = [op EXCEPT ![o] = op'[o]]
  BY DEF Unlocks, Goes, IInv, TypeOK
<1>2. op'[o] \in Progress /\ op'[o].pc = to
  BY <1>1 DEF Progress, Stages
<1>3. At(o)'
  BY <1>2 DEF At, Commanded, UnderWay, Known, Outcome
<1> QED
  BY <1>1, <1>2, <1>3, FrameKeeps DEF Keeps, Locked, Unlocks, IInv, TypeOK

LEMMA ReportsKeeps ==
    ASSUME IInv, NEW o \in Operators, Reports(o)
    PROVE  Keeps(o)
<1>1. /\ op[o] \in Progress
      /\ op'[o] = [op[o] EXCEPT !.pc = "done", !.result = "ok", !.said = Shown(o)]
      /\ op' = [op EXCEPT ![o] = op'[o]]
      /\ lock # o
  BY DEF Reports, IInv, TypeOK, Locked
<1>2. op'[o] \in Progress /\ op'[o].pc = "done"
  BY <1>1 DEF Progress, Stages, Shown
<1>3. At(o)'
  BY <1>2 DEF At, Commanded, UnderWay, Known, Outcome
<1> QED
  BY <1>1, <1>2, <1>3, FrameKeeps DEF Keeps, Locked, Reports

(* Returns and Dies: the process is gone, and its lock with it. *)
LEMMA GoneKeeps ==
    ASSUME IInv, NEW o \in Operators, op' = [op EXCEPT ![o] = Idle],
           UNCHANGED <<version, dirty, applied, lied>>,
           lock' = IF lock = o THEN NoOne ELSE lock
    PROVE  Keeps(o)
<1>1. op'[o] = Idle /\ op' = [op EXCEPT ![o] = op'[o]]
  BY DEF IInv, TypeOK
<1>2. Idle \in Progress /\ Idle.pc = "idle"
  BY DEF Progress, Idle, Stages, Versions, Nil
<1>3. At(o)'
  BY <1>1, <1>2 DEF At, Commanded, UnderWay, Known, Outcome
<1> QED
  BY <1>1, <1>2, <1>3, FrameKeeps DEF Keeps, Locked

(* What the holder of the lock knows of the step it is taking. *)
LEMMA NextMigration ==
    ASSUME IInv, NEW o \in Operators, op[o].pc \in {"step", "run", "clean"}, More(o)
    PROVE  /\ lock = o
           /\ Body(o) \in 1..Latest
           /\ Target(o) \in {Nil} \cup 1..Files[o]
           /\ op[o].from \in {Nil} \cup 1..Files[o]
           /\ IF Upward(op[o].cmd) THEN Target(o) = Level(op[o].from) + 1 /\ Body(o) = Target(o)
              ELSE op[o].from # Nil /\ Level(Target(o)) = op[o].from - 1 /\ Body(o) = op[o].from
<1>1. Under(o) /\ lock = o
  BY DEF IInv, TypeOK, At, UnderWay, Locked
<1>2. Files[o] \in 1..Latest /\ Latest \in Nat
  OBVIOUS
<1> QED
  BY <1>1, <1>2 DEF Under, More, Body, Target, Level, Nil

LEMMA MarksDirtyKeeps ==
    ASSUME IInv, NEW o \in Operators, MarksDirty(o)
    PROVE  Keeps(o)
<1>1. /\ op[o] \in Progress /\ op[o].pc = "step" /\ More(o)
      /\ op'[o] = [op[o] EXCEPT !.pc = "run"]
      /\ op' = [op EXCEPT ![o] = op'[o]]
  BY DEF MarksDirty, Goes, IInv, TypeOK
<1>2. /\ op'[o] \in Progress /\ op'[o].pc = "run"
      /\ op'[o].cmd = op[o].cmd /\ op'[o].from = op[o].from
      /\ op'[o].left = op[o].left /\ op'[o].began = op[o].began
  BY <1>1 DEF Progress, Stages
<1>3. lock = o /\ ~ dirty /\ version = op[o].from /\ Under(o) /\ Commanded(o)
  BY <1>1, NextMigration DEF IInv, At, Known, UnderWay
<1>4. Target(o) \in Versions
  BY <1>1, NextMigration DEF Versions
<1>5. At(o)'
  <2>1. Commanded(o)' /\ UnderWay(o)' /\ Outcome(o)'
    BY <1>1, <1>2, <1>3 DEF Commanded, UnderWay, Under, Outcome
  <2>2. Target(o)' = Target(o) /\ More(o)'
    BY <1>1, <1>2 DEF Target, More
  <2>3. ~ lied => applied = 1..op[o].from
    BY <1>3 DEF IInv, ClaimTrue
  <2> QED
    BY <1>2, <2>1, <2>2, <2>3 DEF At, Known, MarksDirty
<1>6. ClaimTrue' /\ DoubtIsOneStep'
  <2>1. SUFFICES ASSUME ~ lied PROVE OneStepAway'
    BY DEF ClaimTrue, DoubtIsOneStep, MarksDirty
  <2>2. applied = 1..Level(op[o].from)
    BY <1>3, <2>1 DEF IInv, ClaimTrue, Level, Nil
  <2>3. \E d \in {-1, 0, 1} : Level(op[o].from) = Level(Target(o)) + d
    BY <1>1, NextMigration DEF Level, Nil
  <2> QED
    BY <2>2, <2>3 DEF OneStepAway, MarksDirty
<1>7. \A p \in Operators \ {o} : op'[p] = op[p]
  BY DEF MarksDirty, Goes, IInv, TypeOK
<1>8. TypeOK'
  BY <1>1, <1>2, <1>3, <1>4, <1>7 DEF TypeOK, IInv, MarksDirty, Locked
<1> QED
  BY <1>3, <1>5, <1>6, <1>7, <1>8 DEF Keeps, Apart

LEMMA RunsKeeps ==
    ASSUME IInv, NEW o \in Operators, Runs(o)
    PROVE  Keeps(o)
<1>1. /\ op[o] \in Progress /\ op[o].pc = "run" /\ lock = o
      /\ dirty /\ version = Target(o) /\ More(o) /\ Under(o) /\ Commanded(o)
      /\ ~ lied => applied = 1..op[o].from
  BY DEF Runs, Goes, Ends, IInv, TypeOK, Locked, At, Known, UnderWay
<1>2. CASE ~ Runnable(o)
  BY <1>1, <1>2, EndKeeps DEF Runs
<1>3. CASE Runnable(o)
  <2>1. /\ op'[o] = [op[o] EXCEPT !.pc = "clean"]
        /\ \A p \in Operators \ {o} : op'[p] = op[p]
        /\ op' = [op EXCEPT ![o] = op'[o]]
    BY <1>1, <1>3 DEF Runs, Goes, IInv, TypeOK
  <2>2. /\ op'[o] \in Progress /\ op'[o].pc = "clean"
        /\ op'[o].cmd = op[o].cmd /\ op'[o].from = op[o].from
        /\ op'[o].left = op[o].left /\ op'[o].began = op[o].began
    BY <1>1, <2>1 DEF Progress, Stages
  <2>3. ASSUME ~ lied PROVE applied' = 1..Target(o)
    <3>1. applied = 1..Level(op[o].from) /\ applied' = AfterBody(o)
      BY <1>1, <1>3, <2>3 DEF Runs, Level, Nil
    <3>2. CASE Upward(op[o].cmd)
      BY <1>1, <3>1, <3>2, NextMigration DEF AfterBody, Level, Nil
    <3>3. CASE ~ Upward(op[o].cmd)
      <4>1. op[o].from \in Nat \ {0} /\ applied' = (1..op[o].from) \ {op[o].from}
        BY <1>1, <3>1, <3>3, NextMigration DEF AfterBody, Level, Nil
      <4>2. applied' = 1..(op[o].from - 1)
        BY <4>1
      <4> QED
        BY <1>1, <3>3, <4>1, <4>2, NextMigration DEF Level, Nil
    <3> QED
      BY <3>2, <3>3
  <2>4. Target(o)' = Target(o) /\ More(o)'
    BY <1>1, <2>2 DEF Target, More
  <2>5. At(o)'
    <3>1. Commanded(o)' /\ UnderWay(o)' /\ Outcome(o)'
      BY <1>1, <2>2 DEF Commanded, UnderWay, Under, Outcome
    <3> QED
      BY <1>1, <2>2, <2>3, <2>4, <3>1 DEF At, Known, Runs
  <2>6. ClaimTrue' /\ DoubtIsOneStep'
    <3>1. SUFFICES ASSUME ~ lied PROVE OneStepAway'
      BY <1>1 DEF ClaimTrue, DoubtIsOneStep, Runs
    <3>2. Target(o) \in {Nil} \cup 1..Files[o]
      BY <1>1, NextMigration
    <3>3. applied' = 1..(Level(Target(o)) + 0)
      BY <2>3, <3>1, <3>2 DEF Level, Nil
    <3> QED
      BY <1>1, <3>3 DEF OneStepAway, Runs
  <2>7. applied' \subseteq 1..Latest
    BY <1>1, <1>3, NextMigration DEF Runs, AfterBody, IInv, TypeOK
  <2>8. TypeOK'
    BY <1>1, <2>1, <2>2, <2>7 DEF TypeOK, IInv, Runs, Locked
  <2> QED
    BY <1>1, <2>1, <2>5, <2>6, <2>8 DEF Keeps, Apart
<1> QED
  BY <1>2, <1>3

LEMMA MarksCleanKeeps ==
    ASSUME IInv, NEW o \in Operators, MarksClean(o)
    PROVE  Keeps(o)
<1> DEFINE left == IF op[o].left = Unlimited THEN Unlimited ELSE op[o].left - 1
<1>1. /\ op[o] \in Progress /\ op[o].pc = "clean" /\ lock = o
      /\ dirty /\ version = Target(o) /\ More(o) /\ Under(o) /\ Commanded(o)
      /\ ~ lied => applied = 1..Target(o)
  BY DEF MarksClean, IInv, TypeOK, Locked, At, Known, UnderWay
<1>2. /\ op'[o] = [op[o] EXCEPT !.pc = "step", !.from = Target(o), !.left = left]
      /\ \A p \in Operators \ {o} : op'[p] = op[p]
      /\ op' = [op EXCEPT ![o] = op'[o]]
  BY <1>1 DEF MarksClean, IInv, TypeOK
<1>3. Target(o) \in Versions /\ left \in Int
  <2>1. Target(o) \in Versions
    BY <1>1, NextMigration DEF Versions
  <2>2. op[o].left \in Int
    BY <1>1 DEF Progress
  <2> QED
    BY <2>1, <2>2 DEF Unlimited
<1>4. /\ op'[o] \in Progress /\ op'[o].pc = "step" /\ op'[o].cmd = op[o].cmd
      /\ op'[o].from = Target(o) /\ op'[o].left = left /\ op'[o].began = op[o].began
  BY <1>1, <1>2, <1>3 DEF Progress, Stages
<1>5. Under(o)'
  <2>1. /\ Target(o) \in {Nil} \cup 1..Files[o]
        /\ op[o].began \in {Nil} \cup 1..Files[o]
        /\ op[o].from \in {Nil} \cup 1..Files[o]
        /\ IF Upward(op[o].cmd) THEN Level(Target(o)) = Level(op[o].from) + 1
           ELSE Level(Target(o)) = Level(op[o].from) - 1
    BY <1>1, NextMigration DEF Under, Level, Nil
  <2>2. Level(Target(o)) \in Int /\ Level(op[o].from) \in Int /\ Level(op[o].began) \in Int
    BY <2>1 DEF Level, Nil
  <2>3. op[o].cmd.n \in Int
    <3>1. op[o].cmd \in Commands \cup {Idle.cmd}
      BY <1>1 DEF Progress
    <3> QED
      BY <3>1 DEF Idle
  <2>4. CASE op[o].cmd.name = "up"
    BY <1>1, <1>4, <2>1, <2>4 DEF Under
  <2>5. CASE op[o].cmd.name # "up"
    <3>1. op[o].left \in Nat \ {0}
      BY <1>1, <2>5 DEF Under, More
    <3>2. left = op[o].left - 1
      BY <3>1 DEF Unlimited
    <3>3. /\ op[o].cmd.n < 0 =>
                left = Level(op[o].began) - Level(Target(o)) - op[o].cmd.n
          /\ ~ op[o].cmd.n < 0 =>
                left = op[o].cmd.n - (Level(op[o].began) - Level(Target(o)))
      <4>1. Upward(op[o].cmd) <=> op[o].cmd.n < 0
        BY <2>5 DEF Upward
      <4>2. CASE op[o].cmd.n < 0
        <5>1. op[o].left = Level(op[o].began) - Level(op[o].from) - op[o].cmd.n
          BY <1>1, <2>5, <4>2 DEF Under
        <5>2. Level(Target(o)) = Level(op[o].from) + 1
          BY <2>1, <4>1, <4>2
        <5> QED
          BY <2>2, <2>3, <3>2, <4>2, <5>1, <5>2
      <4>3. CASE ~ op[o].cmd.n < 0
        <5>1. op[o].left = op[o].cmd.n - (Level(op[o].began) - Level(op[o].from))
          BY <1>1, <2>5, <4>3 DEF Under
        <5>2. Level(Target(o)) = Level(op[o].from) - 1
          BY <2>1, <4>1, <4>3
        <5> QED
          BY <2>2, <2>3, <3>1, <3>2, <4>3, <5>1, <5>2
      <4> QED
        BY <4>2, <4>3
    <3> QED
      BY <1>4, <2>1, <2>5, <3>1, <3>2, <3>3 DEF Under, Level
  <2> QED
    BY <2>4, <2>5
<1>6. At(o)'
  BY <1>1, <1>4, <1>5 DEF At, Commanded, UnderWay, Known, Outcome, MarksClean
<1>7. ClaimTrue' /\ DoubtIsOneStep'
  <2>1. SUFFICES ASSUME ~ lied PROVE applied = 1..Target(o) /\ OneStepAway'
    BY <1>1 DEF ClaimTrue, DoubtIsOneStep, MarksClean
  <2>2. applied = 1..Target(o)
    BY <1>1, <2>1
  <2>3. Target(o) \in {Nil} \cup 1..Files[o]
    BY <1>1, NextMigration
  <2>4. applied = 1..(Level(Target(o)) + 0)
    BY <2>2, <2>3 DEF Level, Nil
  <2> QED
    BY <2>2, <2>4 DEF OneStepAway, MarksClean
<1>8. TypeOK'
  BY <1>1, <1>2, <1>3, <1>4 DEF TypeOK, IInv, MarksClean, Locked
<1> QED
  BY <1>1, <1>2, <1>6, <1>7, <1>8 DEF Keeps, Apart

LEMMA ForcesKeeps ==
    ASSUME IInv, NEW o \in Operators, Forces(o)
    PROVE  Keeps(o)
<1> DEFINE n == op[o].cmd.n
<1>1. /\ op[o] \in Progress /\ lock = o
      /\ op[o].cmd.name = "force" /\ n >= 0 /\ n \in Int
  <2>1. op[o] \in Progress /\ lock = o /\ op[o].cmd.name = "force" /\ n >= 0
    BY DEF Forces, IInv, TypeOK, Locked, At, Commanded
  <2>2. op[o].cmd \in Commands \cup {Idle.cmd}
    BY <2>1 DEF Progress
  <2> QED
    BY <2>1, <2>2 DEF Idle
<1>2. /\ op'[o] = [op[o] EXCEPT !.pc = "unlock", !.result = "ok"]
      /\ \A p \in Operators \ {o} : op'[p] = op[p]
      /\ op' = [op EXCEPT ![o] = op'[o]]
  BY <1>1 DEF Forces, Ends, IInv, TypeOK
<1>3. op'[o] \in Progress /\ op'[o].pc = "unlock" /\ op'[o].cmd = op[o].cmd
  BY <1>1, <1>2 DEF Progress, Stages
<1>4. At(o)'
  BY <1>1, <1>3 DEF At, Commanded, UnderWay, Known, Outcome, Moves
<1>5. ClaimTrue' /\ DoubtIsOneStep'
  <2>1. SUFFICES ASSUME ~ lied' PROVE applied' = 1..version' /\ OneStepAway'
    BY DEF ClaimTrue, DoubtIsOneStep
  <2>2. applied' = 1..n /\ version' = n
    BY <2>1 DEF Forces
  <2>3. applied' = 1..(Level(n) + 0)
    BY <1>1, <2>2 DEF Level, Nil
  <2> QED
    BY <2>2, <2>3 DEF OneStepAway
<1>6. lied' \in BOOLEAN
  BY DEF Forces
<1>7. TypeOK'
  <2>1. version' \in Versions /\ dirty' \in BOOLEAN
    <3>1. version' = n /\ dirty' = FALSE
      BY DEF Forces
    <3>2. n \in Nat
      BY <1>1
    <3>3. dirty' \in BOOLEAN
      BY <3>1
    <3> QED
      BY <3>1, <3>2, <3>3 DEF Versions
  <2>2. op' \in [Operators -> Progress]
    BY <1>2, <1>3 DEF IInv, TypeOK
  <2>3. \A p \in Operators : lock' = p <=> op'[p].pc \in Locked
    BY <1>1, <1>2, <1>3 DEF IInv, TypeOK, Forces, Locked
  <2> QED
    BY <1>6, <2>1, <2>2, <2>3 DEF TypeOK, IInv, Forces
<1> QED
  BY <1>1, <1>2, <1>4, <1>5, <1>7 DEF Keeps, Apart

-----------------------------------------------------------------------------
LEMMA InitEstablishes == Init => IInv
<1> SUFFICES ASSUME Init PROVE IInv
  OBVIOUS
<1>1. Idle \in Progress /\ Idle.pc = "idle"
  BY DEF Progress, Idle, Stages, Versions, Nil
<1>2. \A o \in Operators : op[o] = Idle
  BY DEF Init
<1>3. TypeOK
  BY <1>1, <1>2 DEF Init, TypeOK, Versions, Locked
<1>4. \A o \in Operators : At(o)
  BY <1>1, <1>2 DEF At, Commanded, UnderWay, Known, Outcome
<1>5. applied = 1..(Level(version) + 0) /\ applied = 1..version
  BY DEF Init, Level, Nil
<1> QED
  BY <1>3, <1>4, <1>5 DEF IInv, ClaimTrue, DoubtIsOneStep, OneStepAway

LEMMA StepKeeps ==
    ASSUME IInv, NEW o \in Operators,
           Starts(o) \/ Works(o) \/ TimesOut(o) \/ Fails(o) \/ Dies(o)
    PROVE  Keeps(o)
<1>1. CASE Starts(o)
  BY <1>1, BeginKeeps DEF Starts
<1>2. CASE Works(o)
  <2>1. CASE Returns(o)
    <3>1. lock # o
      BY <2>1 DEF Returns, IInv, TypeOK, Locked
    <3> QED
      BY <2>1, <3>1, GoneKeeps DEF Returns
  <2> QED
    BY <1>2, <2>1, OpensKeeps, LocksKeeps, ChecksKeeps, MarksDirtyKeeps, RunsKeeps,
       MarksCleanKeeps, FinishesKeeps, ForcesKeeps, UnlocksKeeps, ReportsKeeps DEF Works
<1>3. CASE TimesOut(o)
  BY <1>3, EndKeeps DEF TimesOut
<1>4. CASE Fails(o)
  BY <1>4, EndKeeps DEF Fails
<1>5. CASE Dies(o)
  BY <1>5, GoneKeeps DEF Dies
<1> QED
  BY <1>1, <1>2, <1>3, <1>4, <1>5

LEMMA NextKeeps == IInv /\ [Next]_vars => IInv'
<1> SUFFICES ASSUME IInv, [Next]_vars PROVE IInv'
  OBVIOUS
<1>1. CASE UNCHANGED vars
  BY <1>1 DEF vars, IInv, TypeOK, ClaimTrue, DoubtIsOneStep, OneStepAway, At, Commanded,
     UnderWay, Under, Known, Outcome, More, Target, Goal
<1>2. ASSUME NEW o \in Operators,
             Starts(o) \/ Works(o) \/ TimesOut(o) \/ Fails(o) \/ Dies(o)
      PROVE  IInv'
  <2>1. Keeps(o)
    BY <1>2, StepKeeps
  <2>2. \A p \in Operators \ {o} : At(p)'
    BY <2>1, OthersKeep DEF Keeps
  <2> QED
    BY <2>1, <2>2 DEF Keeps, IInv
<1> QED
  BY <1>1, <1>2 DEF Next

LEMMA Inductive == Spec => []IInv
BY InitEstablishes, NextKeeps, PTL DEF Spec

(* Database, lock and commands keep their types, and the lock is held      *)
(* exactly by the operator between Locks and Unlocks.                      *)
THEOREM TypeCorrect == Spec => []TypeOK
<1>1. IInv => TypeOK
  BY DEF IInv
<1> QED
  BY <1>1, Inductive, PTL

(* A clean version is the truth, unless the last force said otherwise.     *)
THEOREM CleanIsTrue == Spec => []ClaimTrue
<1>1. IInv => ClaimTrue
  BY DEF IInv
<1> QED
  BY <1>1, Inductive, PTL

(* A dirty version is at most one migration away from the schema.          *)
THEOREM DoubtBounded == Spec => []DoubtIsOneStep
<1>1. IInv => DoubtIsOneStep
  BY DEF IInv
<1> QED
  BY <1>1, Inductive, PTL

(* Success is reported only from where the command was told to go.         *)
THEOREM SuccessIsGoal == Spec => []OutcomeTrue
<1>1. IInv => OutcomeTrue
  BY DEF IInv, At, Outcome, OutcomeTrue
<1> QED
  BY <1>1, Inductive, PTL

-----------------------------------------------------------------------------
(* The mapping: a dirty row claims {0}, which no version does. *)
LEMMA IntervalsAreClaims == \A n \in Int : 1..n # {0}
OBVIOUS

(* Steps that leave schema and row alone are stutters of SchemaClaim.      *)
LEMMA StutterMaps ==
    UNCHANGED <<version, dirty, applied, lied>> => UNCHANGED Abstract!claimVars
BY DEF Abstract!claimVars

LEMMA MarksDirtyMaps ==
    ASSUME IInv, NEW o \in Operators, MarksDirty(o)
    PROVE  Abstract!Doubt
<1>1. ~ dirty /\ version \in Int
  BY DEF MarksDirty, Goes, IInv, At, Known, TypeOK, Versions, Nil
<1>2. 1..version # {0}
  BY <1>1, IntervalsAreClaims
<1>3. dirty' = TRUE /\ applied' = applied /\ lied' = lied
  BY DEF MarksDirty
<1> QED
  BY <1>1, <1>2, <1>3 DEF Abstract!Doubt

LEMMA RunsMaps ==
    ASSUME IInv, NEW o \in Operators, Runs(o)
    PROVE  Abstract!Change \/ UNCHANGED Abstract!claimVars
<1>1. dirty /\ op[o].pc = "run" /\ More(o)
  BY DEF Runs, Goes, Ends, IInv, At, Known
<1>2. version' = version /\ dirty' = dirty /\ lied' = lied
  BY DEF Runs
<1>3. CASE ~ Runnable(o)
  BY <1>2, <1>3, StutterMaps DEF Runs
<1>4. CASE Runnable(o)
  <2>1. Body(o) \in 1..Latest
    BY <1>1, NextMigration
  <2>2. applied' = applied \cup {Body(o)} \/ applied' = applied \ {Body(o)}
    BY <1>4 DEF Runs, AfterBody
  <2> QED
    BY <1>1, <1>2, <2>1, <2>2 DEF Abstract!Change
<1> QED
  BY <1>3, <1>4

LEMMA MarksCleanMaps ==
    ASSUME IInv, NEW o \in Operators, MarksClean(o)
    PROVE  Abstract!Settle
<1>1. dirty /\ op[o].pc = "clean" /\ More(o) /\ (~ lied => applied = 1..Target(o))
  BY DEF MarksClean, IInv, At, Known
<1>2. dirty' = FALSE /\ version' = Target(o) /\ applied' = applied /\ lied' = lied
  BY DEF MarksClean
<1>3. Target(o) \in Int
  BY <1>1, NextMigration DEF Nil
<1>4. 1..Target(o) # {0}
  BY <1>3, IntervalsAreClaims
<1> QED
  BY <1>1, <1>2, <1>4 DEF Abstract!Settle

LEMMA ForcesMaps ==
    ASSUME IInv, NEW o \in Operators, Forces(o)
    PROVE  Abstract!Assert
<1> DEFINE n == op[o].cmd.n
<1>1. /\ version' = n /\ dirty' = FALSE /\ applied' = applied
      /\ lied' = (applied # 1..n)
  BY DEF Forces
<1>2. op[o].cmd \in Commands \cup {Idle.cmd}
  BY DEF IInv, TypeOK, Progress
<1>3. n \in Int
  BY <1>2 DEF Idle
<1>4. 1..n # {0}
  BY <1>3, IntervalsAreClaims
<1>5. (~ lied') = (1..n = applied)
  BY <1>1, Zenon
<1> QED
  BY <1>1, <1>4, <1>5 DEF Abstract!Assert

(* Whatever operators type, however commands race, fail or are killed, the *)
(* command keeps SchemaClaim: the schema changes only while nothing is     *)
(* claimed about it, and what is claimed again is true.                    *)
THEOREM Refinement == Spec => ImplementsSchemaClaim
<1>1. Init => Abstract!ClaimInit
  <2> SUFFICES ASSUME Init PROVE Abstract!ClaimInit
    OBVIOUS
  <2>1. applied = {} /\ version = -1 /\ dirty = FALSE /\ lied = FALSE
    BY DEF Init, Nil
  <2>2. 1..version = {}
    BY <2>1
  <2> QED
    BY <2>1, <2>2 DEF Abstract!ClaimInit
<1>2. IInv /\ [Next]_vars => [Abstract!ClaimNext]_(Abstract!claimVars)
  <2> SUFFICES ASSUME IInv, [Next]_vars PROVE [Abstract!ClaimNext]_(Abstract!claimVars)
    OBVIOUS
  <2>1. CASE UNCHANGED vars
    BY <2>1, StutterMaps DEF vars
  <2>2. ASSUME NEW o \in Operators, MarksDirty(o) \/ Runs(o) \/ MarksClean(o) \/ Forces(o)
        PROVE  Abstract!ClaimNext \/ UNCHANGED Abstract!claimVars
    BY <2>2, MarksDirtyMaps, RunsMaps, MarksCleanMaps, ForcesMaps DEF Abstract!ClaimNext
  <2>3. ASSUME NEW o \in Operators,
               \/ Starts(o) \/ Opens(o) \/ Locks(o) \/ Checks(o) \/ Finishes(o)
               \/ Unlocks(o) \/ Reports(o) \/ Returns(o) \/ TimesOut(o) \/ Fails(o)
               \/ Dies(o)
        PROVE  UNCHANGED Abstract!claimVars
    <3>1. UNCHANGED <<version, dirty, applied, lied>>
      BY <2>3 DEF Starts, Begin, Opens, Locks, Checks, Finishes, Unlocks, Reports,
         Returns, TimesOut, Fails, Dies
    <3> QED
      BY <3>1, StutterMaps
  <2> QED
    BY <2>1, <2>2, <2>3 DEF Next, Works
<1>3. Spec => Abstract!ClaimSpec
  BY <1>1, <1>2, Inductive, PTL DEF Spec, Abstract!ClaimSpec
<1> QED
  BY <1>3 DEF ImplementsSchemaClaim
=============================================================================
