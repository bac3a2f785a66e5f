------------------------------- MODULE Migrate -------------------------------
(***************************************************************************)
(* The migration command (cmd/migrate/main.go): operators, each with a     *)
(* checkout of its own, run up, down, version and force against one        *)
(* database.  golang-migrate and PostgreSQL are external and are modelled  *)
(* as the command uses them: one migration is three writes, each atomic    *)
(* (mark the target version dirty, run the file, mark it clean), under an  *)
(* advisory lock that belongs to the session and dies with it.  A command  *)
(* may fail or be killed between any two of them.                          *)
(***************************************************************************)
EXTENDS Integers, FiniteSets

CONSTANTS
    Operators,
    Latest,       \* the migrations are numbered 1..Latest
    Files,        \* Files[o]: the last migration in o's checkout
    Requires,     \* Requires[v]: the migrations whose objects v.up.sql uses
    Replayable,   \* those whose up file succeeds on its own result
    Tolerant,     \* those whose down file succeeds when there is nothing to drop
    Commands,     \* the command lines operators type
    NoOne         \* nobody holds the lock

Nil == -1         \* database.NilVersion: no migration applied
Unlimited == -1   \* the limit of Up

MigrateAssumption ==
    /\ Latest \in Nat
    /\ Files \in [Operators -> 1..Latest]
    /\ Requires \in [1..Latest -> SUBSET (1..Latest)]
    /\ Replayable \subseteq 1..Latest
    /\ Tolerant \subseteq 1..Latest
    /\ Commands \subseteq [name : {"up", "down", "version", "force"}, n : Int]
    /\ NoOne \notin Operators

ASSUME MigrateAssumption

VARIABLES
    version, dirty,   \* the row of schema_migrations; Nil and clean: no row
    applied,          \* the migrations whose objects the database has
    lock,             \* the session holding the advisory lock
    lied,             \* whether the last force named a version that was not there
    op                \* what each operator's command is doing

vars == <<version, dirty, applied, lock, lied, op>>

-----------------------------------------------------------------------------
Idle == [pc |-> "idle", cmd |-> [name |-> "up", n |-> 0], began |-> Nil,
         from |-> Nil, left |-> 0, result |-> "none", said |-> "nothing"]

(* The command line.  `down n` is Steps(-n), so a negative n goes up. *)
Moves(c) == c.name \in {"up", "down"}
Upward(c) == c.name = "up" \/ c.n < 0
Limit(c) == IF c.name = "up" THEN Unlimited ELSE IF c.n < 0 THEN -c.n ELSE c.n
Refused(c) == c.name = "force" /\ c.n < 0
NoChange(c) == c.name = "down" /\ c.n = 0

(* What readUp and readDown hand out next, from the version reached. *)
More(o) ==
    /\ op[o].left # 0
    /\ IF Upward(op[o].cmd) THEN op[o].from < Files[o] ELSE op[o].from # Nil
Target(o) ==
    LET f == op[o].from IN
    IF Upward(op[o].cmd) THEN IF f = Nil THEN 1 ELSE f + 1
    ELSE IF f = 1 THEN Nil ELSE f - 1
Body(o) == IF Upward(op[o].cmd) THEN Target(o) ELSE op[o].from

(* MUTANT: a DROP without IF EXISTS. *)
RunnableStrictly(o) ==
    LET b == Body(o) IN
    IF Upward(op[o].cmd)
    THEN Requires[b] \subseteq applied /\ (b \in applied => b \in Replayable)
    ELSE b \in applied /\ \A w \in applied : b \notin Requires[w]

(* Whether the file of one migration can run on the schema as it is, and   *)
(* what it leaves.  One file is one implicit transaction.                  *)
Runnable(o) ==
    LET b == Body(o) IN
    IF Upward(op[o].cmd)
    THEN Requires[b] \subseteq applied /\ (b \in applied => b \in Replayable)
    ELSE IF b \in applied THEN \A w \in applied : b \notin Requires[w]
         ELSE b \in Tolerant
AfterBody(o) ==
    IF Upward(op[o].cmd) THEN applied \cup {Body(o)} ELSE applied \ {Body(o)}

-----------------------------------------------------------------------------
Goes(o, from, to) ==
    /\ op[o].pc = from
    /\ op' = [op EXCEPT ![o].pc = to]

Ends(o, result) ==
    op' = [op EXCEPT ![o].pc = IF lock = o THEN "unlock" ELSE "done", ![o].result = result]

Init ==
    /\ version = Nil /\ dirty = FALSE
    /\ applied = {}
    /\ lock = NoOne
    /\ lied = FALSE
    /\ op = [o \in Operators |-> Idle]

Begin(o, c) ==
    /\ op[o].pc = "idle"
    /\ op' = [op EXCEPT ![o].pc = "open", ![o].cmd = c]
    /\ UNCHANGED <<version, dirty, applied, lock, lied>>

Starts(o) == \E c \in Commands : Begin(o, c)

(* migrate.New creates schema_migrations under the lock and releases it;   *)
(* then the command line is looked at.                                     *)
Opens(o) ==
    /\ op[o].pc = "open" /\ lock = NoOne
    /\ LET c == op[o].cmd IN
       \/ Refused(c) /\ Ends(o, "error")
       \/ NoChange(c) /\ Ends(o, "ok")
       \/ c.name = "version" /\ Goes(o, "open", "report")
       \/ ~ Refused(c) /\ ~ NoChange(c) /\ c.name # "version" /\ Goes(o, "open", "lock")
    /\ UNCHANGED <<version, dirty, applied, lock, lied>>

(* MUTANT: commands do not wait for one another. *)
LocksRegardless(o) ==
    /\ lock' = o
    /\ Goes(o, "lock", IF op[o].cmd.name = "force" THEN "force" ELSE "check")
    /\ UNCHANGED <<version, dirty, applied, lied>>

Locks(o) ==
    /\ lock = NoOne
    /\ lock' = o
    /\ Goes(o, "lock", IF op[o].cmd.name = "force" THEN "force" ELSE "check")
    /\ UNCHANGED <<version, dirty, applied, lied>>

TimesOut(o) ==
    /\ op[o].pc = "lock" /\ lock # NoOne
    /\ Ends(o, "error")
    /\ UNCHANGED <<version, dirty, applied, lock, lied>>

(* MUTANT: going on from a dirty version. *)
ChecksFileOnly(o) ==
    /\ op[o].pc = "check"
    /\ IF version \notin {Nil} \cup 1..Files[o]
       THEN Ends(o, "error")
       ELSE op' = [op EXCEPT ![o].pc = "step", ![o].began = version,
                             ![o].from = version, ![o].left = Limit(op[o].cmd)]
    /\ UNCHANGED <<version, dirty, applied, lock, lied>>

(* ErrDirty, and a version the checkout has no file for. *)
Checks(o) ==
    /\ op[o].pc = "check"
    /\ IF dirty \/ version \notin {Nil} \cup 1..Files[o]
       THEN Ends(o, "error")
       ELSE op' = [op EXCEPT ![o].pc = "step", ![o].began = version,
                             ![o].from = version, ![o].left = Limit(op[o].cmd)]
    /\ UNCHANGED <<version, dirty, applied, lock, lied>>

(* MUTANT: the version is written first, and not as dirty. *)
MarksVersion(o) ==
    /\ More(o)
    /\ Goes(o, "step", "run")
    /\ version' = Target(o)
    /\ UNCHANGED <<dirty, applied, lock, lied>>

MarksDirty(o) ==
    /\ More(o)
    /\ Goes(o, "step", "run")
    /\ version' = Target(o) /\ dirty' = TRUE
    /\ UNCHANGED <<applied, lock, lied>>

Runs(o) ==
    /\ op[o].pc = "run"
    /\ IF Runnable(o)
       THEN applied' = AfterBody(o) /\ Goes(o, "run", "clean")
       ELSE Ends(o, "error") /\ UNCHANGED applied
    /\ UNCHANGED <<version, dirty, lock, lied>>

MarksClean(o) ==
    /\ op[o].pc = "clean"
    /\ version' = Target(o) /\ dirty' = FALSE
    /\ op' = [op EXCEPT ![o].pc = "step", ![o].from = Target(o),
                        ![o].left = IF @ = Unlimited THEN @ ELSE @ - 1]
    /\ UNCHANGED <<applied, lock, lied>>

(* MUTANT: falling short of the limit is success. *)
FinishesAnyway(o) ==
    /\ op[o].pc = "step" /\ ~ More(o)
    /\ Ends(o, "ok")
    /\ UNCHANGED <<version, dirty, applied, lock, lied>>

(* Out of files before the limit is an error, though what ran stays. *)
Finishes(o) ==
    /\ op[o].pc = "step" /\ ~ More(o)
    /\ Ends(o, IF op[o].left \in {0, Unlimited} THEN "ok" ELSE "error")
    /\ UNCHANGED <<version, dirty, applied, lock, lied>>

Forces(o) ==
    /\ op[o].pc = "force"
    /\ version' = op[o].cmd.n /\ dirty' = FALSE
    /\ lied' = (applied # 1..op[o].cmd.n)
    /\ Ends(o, "ok")
    /\ UNCHANGED <<applied, lock>>

(* up with nothing to apply is ErrNoChange, whose report reads no version. *)
ReadsVersion(o) ==
    op[o].result = "ok" /\ Moves(op[o].cmd) /\ op[o].from # op[o].began

Unlocks(o) ==
    /\ lock = o
    /\ lock' = NoOne
    /\ Goes(o, "unlock", IF ReadsVersion(o) THEN "report" ELSE "done")
    /\ UNCHANGED <<version, dirty, applied, lied>>

(* The version is read without the lock.  ErrNilVersion hides the flag:    *)
(* `version` says that nothing is applied, and up and down say nothing.    *)
Shown(o) ==
    IF version # Nil THEN IF dirty THEN "dirty" ELSE "clean"
    ELSE IF Moves(op[o].cmd) THEN "nothing" ELSE "none applied"

Reports(o) ==
    /\ op[o].pc = "report"
    /\ op' = [op EXCEPT ![o].pc = "done", ![o].result = "ok", ![o].said = Shown(o)]
    /\ UNCHANGED <<version, dirty, applied, lock, lied>>

Returns(o) ==
    /\ op[o].pc = "done"
    /\ op' = [op EXCEPT ![o] = Idle]
    /\ UNCHANGED <<version, dirty, applied, lock, lied>>

(* A connection refused, a statement that fails, a process killed: what    *)
(* was written stays, and the session's lock goes with the session.        *)
Fails(o) ==
    /\ op[o].pc \in {"open", "lock", "check", "step", "run", "clean", "force"}
    /\ Ends(o, "lost")
    /\ UNCHANGED <<version, dirty, applied, lock, lied>>

(* MUTANT: a lock that is a row instead of a session's. *)
DiesLocked(o) ==
    /\ op[o].pc \notin {"idle", "done"}
    /\ op' = [op EXCEPT ![o] = Idle]
    /\ UNCHANGED <<version, dirty, applied, lock, lied>>

Dies(o) ==
    /\ op[o].pc \notin {"idle", "done"}
    /\ op' = [op EXCEPT ![o] = Idle]
    /\ lock' = IF lock = o THEN NoOne ELSE lock
    /\ UNCHANGED <<version, dirty, applied, lied>>

Works(o) ==
    \/ Opens(o) \/ Locks(o) \/ Checks(o) \/ MarksDirty(o) \/ Runs(o) \/ MarksClean(o)
    \/ Finishes(o) \/ Forces(o) \/ Unlocks(o) \/ Reports(o) \/ Returns(o)

Next ==
    \E o \in Operators : Starts(o) \/ Works(o) \/ TimesOut(o) \/ Fails(o) \/ Dies(o)

Spec == Init /\ [][Next]_vars

-----------------------------------------------------------------------------
(* Recovery.  An operator who inspects the schema, as the usage text asks, *)
(* and types the one command that helps: the procedure is the operator's,  *)
(* what each command does is the code's.  Force cannot name Nil, so a      *)
(* first migration that failed is forced to 1 and taken down.  The         *)
(* fairness is the operator's patience: going on until it works.           *)
Procedure ==
    IF dirty
    THEN [name |-> "force", n |-> IF applied = {} THEN 1 ELSE Cardinality(applied)]
    ELSE IF version = 1 /\ applied = {} THEN [name |-> "down", n |-> 1]
    ELSE [name |-> "up", n |-> 0]

Level(v) == IF v = Nil THEN 0 ELSE v

(* The row is at most one migration away from the schema. *)
OneStepAway == \E d \in {-1, 0, 1} : applied = 1..(Level(version) + d)

(* Every state that commands without a false force can leave behind. *)
LeftBehind ==
    /\ version \in {Nil} \cup 1..Latest
    /\ dirty \in BOOLEAN
    /\ \E n \in 0..Latest : applied = 1..n
    /\ OneStepAway
    /\ ~ dirty => applied = 1..version
    /\ lock = NoOne /\ lied = FALSE
    /\ op = [o \in Operators |-> Idle]

Repairs(o) == Begin(o, Procedure) \/ Works(o)

Faults == \E o \in Operators : Fails(o) \/ Dies(o)

RepairSpec ==
    /\ LeftBehind
    /\ [][(\E o \in Operators : Repairs(o) \/ TimesOut(o)) \/ Faults]_vars
    /\ \A o \in Operators : WF_vars(Repairs(o))

-----------------------------------------------------------------------------
Stages == {"idle", "open", "lock", "check", "step", "run", "clean", "force",
           "unlock", "report", "done"}
Locked == {"check", "step", "run", "clean", "force", "unlock"}

Versions == {Nil} \cup Nat

Progress ==
    [pc : Stages, cmd : Commands \cup {Idle.cmd},
     began : Versions, from : Versions, left : Int,
     result : {"none", "ok", "error", "lost"},
     said : {"nothing", "none applied", "clean", "dirty"}]

(* Types, and the lock: it is held exactly by an operator between Locks    *)
(* and Unlocks.                                                            *)
TypeOK ==
    /\ version \in Versions /\ dirty \in BOOLEAN /\ lied \in BOOLEAN
    /\ applied \subseteq 1..Latest
    /\ lock \in Operators \cup {NoOne}
    /\ op \in [Operators -> Progress]
    /\ \A o \in Operators : lock = o <=> op[o].pc \in Locked

(* A clean version is the truth: whatever commands were run, raced, failed *)
(* or killed, the database has exactly the migrations up to the version it *)
(* is marked with, unless the last force named a version that was not      *)
(* there (main.go:60-89).                                                  *)
ClaimTrue == ~ dirty /\ ~ lied => applied = 1..version

(* A dirty version tells where to look: the schema is the marked version   *)
(* or one migration off, so `force` has at most three candidates (the      *)
(* usage text, "inspect the schema by hand first").                        *)
DoubtIsOneStep == ~ lied => OneStepAway

Goal(o) ==
    LET c == op[o].cmd IN
    IF c.name = "up" THEN Files[o]
    ELSE IF c.n < 0 THEN Level(op[o].began) - c.n
    ELSE IF c.n = op[o].began THEN Nil ELSE op[o].began - c.n

(* A command that is about to report success has left the database clean   *)
(* and exactly where it was told to: up at the last file of its checkout,  *)
(* down n exactly n below where it began; fewer is an error (main.go:67).  *)
OutcomeTrue ==
    \A o \in Operators :
        op[o].pc = "unlock" /\ op[o].result = "ok" /\ Moves(op[o].cmd)
            => ~ dirty /\ version = Goal(o)

(* What the schema holds changes only under the dirty flag and only by the *)
(* holder of the lock, so a crash at any moment is visible afterwards, and *)
(* what is claimed again is true: the commands implement SchemaClaim.      *)
Abstract == INSTANCE SchemaClaim WITH
    schema <- applied,
    claim <- IF dirty THEN {0} ELSE 1..version,
    Unknown <- {0},
    trusted <- ~ lied

ImplementsSchemaClaim == Abstract!ClaimSpec

(* Once commands stop failing, the procedure brings every database that    *)
(* commands can leave behind to the last version, with the command alone.  *)
FaultsCease == <>[][~ Faults]_vars
Healthy == ~ dirty /\ version = Latest /\ applied = 1..Latest
Repaired == FaultsCease => <>[]Healthy

(* The usage text: "print the current version and dirty flag".             *)
VersionShowsDirty ==
    [][\A o \in Operators :
          op'[o].said = "none applied" /\ op[o].said # "none applied" => ~ dirty]_vars
=============================================================================
