------------------------------ MODULE Startup ------------------------------
(***************************************************************************)
(* The start of the site: several uvicorn workers, one database.           *)
(*                                                                         *)
(* Every worker runs the lifespan of app/main.py: prepare_database of      *)
(* app/migrations.py under the file lock of app/locks.py (tables, columns, *)
(* five one-time repairs of the data, the administrator of .env, the legal *)
(* documents), then start_scheduler of app/scheduler.py under a second     *)
(* lock that is asked for once and never waited for.  Every step first     *)
(* looks whether its work is there and then does it, in transactions of    *)
(* its own, so a worker that dies leaves what it has committed.  The       *)
(* kernel drops the locks of a dead process; the supervisor (uvicorn and   *)
(* docker compose) starts it again.                                        *)
(***************************************************************************)
EXTENDS Naturals, Sequences, FiniteSets

CONSTANTS
    Workers,     \* WEB_CONCURRENCY processes
    NoOne,       \* nobody holds the migration lock
    LockWorks,   \* acquire_file_lock really locks; FALSE where it returns -1
    Faults,      \* what may be refused: steps of Order, "scheduler"
    MaxStarts    \* bound: how often one worker is started

ASSUME StartupAssumption ==
    /\ Workers # {} /\ NoOne \notin Workers
    /\ LockWorks \in BOOLEAN
    /\ MaxStarts \in Nat

VARIABLES
    phase,   \* where each worker is in its start
    at,      \* the step of Order a worker has come to
    held,    \* the worker in file_lock(MIGRATION_LOCK), or NoOne
    sched,   \* the workers whose scheduler runs (they hold its lock)
    broken,  \* the workers whose scheduler would not start
    made,    \* the steps whose trace the database has: tables, flags, rows
    done,    \* how often the work of a repair has been committed
    starts   \* how often a worker has been started

startupVars == <<phase, at, held, sched, broken, made, done, starts>>
data == <<made, done>>
jobs == <<sched, broken>>

\* The one-time repairs, each behind its flag in the table _migrations.
Backfills == {"packSizes", "photos", "externalIds", "subtotals", "taxonomy"}

\* The repairs that take their flag back when the work fails.
Retried == {"taxonomy"}

\* prepare_database: create_all, _auto_migrate_inner with its repairs, then
\* the steps main.py hands over.
Order == <<"tables", "columns", "packSizes", "photos", "externalIds",
           "subtotals", "taxonomy", "admin", "docs">>

Steps == 1 .. 9
Thing(w) == Order[at[w]]

\* The program counters of a worker between _acquire and release_file_lock.
Inside == {"looking", "doing", "working", "undoing"}

Stages == Inside \cup {"down", "waiting", "starting", "serving", "failed"}

----------------------------------------------------------------------------
\* A fresh database, or one an older version of the program has left.
StartupInit ==
    /\ phase = [w \in Workers |-> "down"]
    /\ at = [w \in Workers |-> 1]
    /\ held = NoOne
    /\ sched = {} /\ broken = {}
    /\ made \in {{}, {"tables"}, {"tables", "admin", "packSizes"}}
    /\ done = [b \in Backfills |-> IF b \in made THEN 1 ELSE 0]
    /\ starts = [w \in Workers |-> 0]

To(w, stage) == phase' = [phase EXCEPT ![w] = stage]

\* The supervisor starts the process.
Start(w) == /\ phase[w] \in {"down", "failed"}
            /\ starts[w] < MaxStarts
            /\ To(w, "waiting")
            /\ at' = [at EXCEPT ![w] = 1]
            /\ starts' = [starts EXCEPT ![w] = @ + 1]
            /\ UNCHANGED <<held, jobs, data>>

\* Whether acquire_file_lock returns to a worker that waits.
MayLockAlways(w) == w \in Workers
MayLock(w) == LockWorks => held = NoOne

\* with file_lock(MIGRATION_LOCK).
Lock(w) == /\ phase[w] = "waiting"
           /\ MayLock(w)
           /\ To(w, "looking")
           /\ held' = IF LockWorks THEN w ELSE held
           /\ UNCHANGED <<at, jobs, data, starts>>

\* release_file_lock, or the kernel's: the lock of w, and of w only.
Released(w) == IF held = w THEN NoOne ELSE held

IsLast(w) == at[w] = Len(Order)

\* On to the next step; after the last the lock is released.
Advance(w) == IF IsLast(w)
                THEN /\ To(w, "starting")
                     /\ at' = at
                     /\ held' = Released(w)
                ELSE /\ To(w, "looking")
                     /\ at' = [at EXCEPT ![w] = @ + 1]
                     /\ held' = held

\* prepare_database raises: the lock is released and the worker exits.
Abort(w) == /\ To(w, "failed")
            /\ held' = Released(w)
            /\ at' = at

\* checkfirst, get_columns, SELECT FROM _migrations, the query of the user,
\* the query of the documents: is there anything to do?
Look(w) == /\ phase[w] = "looking"
           /\ IF Thing(w) \in made
                THEN Advance(w)
                ELSE To(w, "doing") /\ UNCHANGED <<at, held>>
           /\ UNCHANGED <<jobs, data, starts>>

\* create_all.  A table somebody else has made meanwhile is an error nobody
\* catches; new tables have every column of the models.  Any other error ends
\* the worker as well, which is what Die does here.
CreateTables(w) == /\ phase[w] = "doing" /\ Thing(w) = "tables"
                   /\ IF "tables" \in made THEN Abort(w) ELSE Advance(w)
                   /\ made' = made \cup {"tables", "columns"}
                   /\ UNCHANGED <<jobs, done, starts>>

\* ALTER TABLE and CREATE INDEX, each by _exec_one.
AddColumns(w) == /\ phase[w] = "doing" /\ Thing(w) = "columns"
                 /\ Advance(w)
                 /\ made' = IF "tables" \in made THEN made \cup {"columns"} ELSE made
                 /\ UNCHANGED <<jobs, done, starts>>

\* _backfill_once commits the flag before the work is begun.  ON CONFLICT DO
\* NOTHING: a flag set by another worker meanwhile does not stop this one.
SetFlag(w) == /\ phase[w] = "doing" /\ Thing(w) \in Backfills
              /\ To(w, "working")
              /\ made' = made \cup {Thing(w)}
              /\ UNCHANGED <<at, held, jobs, done, starts>>

\* The body of a _backfill_* function, one transaction.
Work(w) == /\ phase[w] = "working"
           /\ done' = [done EXCEPT ![Thing(w)] = @ + 1]
           /\ Advance(w)
           /\ UNCHANGED <<jobs, made, starts>>

\* The transaction of a repair fails, perhaps because a column it speaks of
\* could not be added, and is rolled back: a warning in the log,
WorkFails(w) == /\ phase[w] = "working"
                /\ Thing(w) \in Faults \/ "columns" \notin made
                /\ IF Thing(w) \in Retried
                     THEN To(w, "undoing") /\ UNCHANGED <<at, held>>
                     ELSE Advance(w)
                /\ UNCHANGED <<jobs, data, starts>>

\* and for the taxonomy DELETE FROM _migrations, to try at the next start; by
\* _exec_one again, so it may not happen either.
TakeFlagBack(w) == /\ phase[w] = "undoing"
                   /\ made' \in {made, made \ {Thing(w)}}
                   /\ Advance(w)
                   /\ UNCHANGED <<jobs, done, starts>>

\* ensure_default_admin and ensure_default_legal_docs make their rows.
AddRows(w) == /\ phase[w] = "doing" /\ Thing(w) \in {"admin", "docs"}
              /\ made' = IF "tables" \in made THEN made \cup {Thing(w)} ELSE made
              /\ Advance(w)
              /\ UNCHANGED <<jobs, done, starts>>

\* Whatever goes wrong in these steps is swallowed and the start goes on: an
\* ALTER TABLE or an index by _exec_one, the flag of a repair by _backfill_once
\* (which then skips it), and the rows by their own functions, which also do
\* nothing when .env names no administrator or somebody has the address.
StepFails(w) == /\ phase[w] = "doing"
                /\ Thing(w) \in Faults \ {"tables"}
                /\ Advance(w)
                /\ UNCHANGED <<jobs, data, starts>>

\* _acquire_scheduler_lock, asked once: who does not get it serves without.
MayScheduleUnlessStale(w) == sched = {} /\ \A v \in Workers : starts[v] <= 1
MaySchedule(w) == LockWorks => sched = {}

StartScheduler(w) == /\ phase[w] = "starting"
                     /\ To(w, "serving")
                     /\ sched' = IF MaySchedule(w) THEN sched \cup {w} ELSE sched
                     /\ UNCHANGED <<at, held, broken, data, starts>>

\* except Exception: the lock is given back, the worker serves, and neither it
\* nor a worker that was refused the lock meanwhile asks for it again.
SchedulerFails(w) == /\ phase[w] = "starting" /\ "scheduler" \in Faults
                     /\ MaySchedule(w)
                     /\ To(w, "serving")
                     /\ broken' = broken \cup {w}
                     /\ UNCHANGED <<at, held, sched, data, starts>>

\* The process ends, by a signal (stop_scheduler) or a crash: the kernel
\* drops its locks.  bound: it will be started again.
Die(w) == /\ phase[w] \notin {"down", "failed"}
          /\ starts[w] < MaxStarts
          /\ To(w, "down")
          /\ held' = Released(w)
          /\ sched' = sched \ {w} /\ broken' = broken \ {w}
          /\ UNCHANGED <<at, data, starts>>

\* The steps of a worker that runs.
Proceed(w) == \/ Look(w) \/ CreateTables(w) \/ AddColumns(w)
              \/ SetFlag(w) \/ Work(w) \/ WorkFails(w) \/ TakeFlagBack(w)
              \/ AddRows(w) \/ StepFails(w)
              \/ StartScheduler(w) \/ SchedulerFails(w)

Rest == /\ \A w \in Workers : phase[w] = "serving" /\ starts[w] = MaxStarts
        /\ UNCHANGED startupVars

StartupNext ==
    \/ \E w \in Workers : Start(w) \/ Lock(w) \/ Proceed(w) \/ Die(w)
    \/ Rest

Safety == StartupInit /\ [][StartupNext]_startupVars

\* A started process runs, the lock file is granted to who waits for it, and
\* the supervisor restarts a process that has ended.
Fairness == \A w \in Workers : /\ WF_startupVars(Start(w))
                               /\ WF_startupVars(Lock(w))
                               /\ WF_startupVars(Proceed(w))

StartupSpec == Safety /\ Fairness

----------------------------------------------------------------------------
(* Properties *)

\* The shape of the state.
StartupTypeOK ==
    /\ phase \in [Workers -> Stages]
    /\ at \in [Workers -> Steps]
    /\ held \in Workers \cup {NoOne}
    /\ sched \subseteq Workers /\ broken \subseteq Workers
    /\ made \subseteq {Order[i] : i \in Steps}
    /\ done \in [Backfills -> Nat]
    /\ starts \in [Workers -> 0 .. MaxStarts]

\* The work of a repair is committed once in the life of a database, however
\* often workers start, die and fail: a second run of the pack sizes would
\* rewrite orders that really had packs of one.
EachRepairOnce == \A b \in Backfills : done[b] <= 1

\* No worker's start fails because another one is creating the tables.
NobodyFallsOver == \A w \in Workers : phase[w] # "failed"

\* The lock of the scheduler is asked for once per start, and most workers are
\* refused.  Still the site never stands with all workers serving and the hourly
\* unloading run by none, unless it would not start in one that serves.
SomebodySchedules ==
    (\A w \in Workers : phase[w] = "serving") => sched \cup broken # {}

\* When the workers stop dying all of them serve, whatever steps were refused,
\* and one of them has the scheduler, though nobody asks for its lock a second
\* time; nobody has it only if it would not start in one of them.
StartsSettle == <>[](/\ \A w \in Workers : phase[w] = "serving"
                     /\ \/ Cardinality(sched) = 1
                        \/ sched = {} /\ broken # {})

\* _backfill_taxonomy: a failure does not leave the work marked as done.
FailureLeavesNoMark ==
    "taxonomy" \in made =>
        \/ done["taxonomy"] > 0
        \/ \E w \in Workers : phase[w] \in {"working", "undoing"} /\ Thing(w) = "taxonomy"
============================================================================
