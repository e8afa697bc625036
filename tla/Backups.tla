------------------------------ MODULE Backups ------------------------------
(***************************************************************************)
(* Database backups of one organisation (src/apps/api/src/backups): the    *)
(* schedule row, the table of runs, the dumps in object storage, the       *)
(* worker's "backups" loop, backups started by an administrator, restore   *)
(* and pruning.  A dump is a copy of the whole database, so it contains    *)
(* the backups table itself: the row of the run that takes it is in it as  *)
(* 'running'.                                                              *)
(*                                                                         *)
(* `wish', `abandoned' and `rewritten' are history variables (abandoned    *)
(* also keeps the identifiers of deleted rows from being drawn again).     *)
(***************************************************************************)
EXTENDS Naturals, Sequences, FiniteSets

CONSTANTS Runs,         \* identifiers of backup rows
          MaxDay,       \* bound: days the clock runs
          Chores        \* sets of chores explored together

\* The columns of backup_schedules, in the order updateSchedule names them.
Fields == <<"destination", "kinds", "frequency", "retention", "enabled">>
ColumnType == [destination |-> "text", kinds |-> "array", frequency |-> "text",
               retention |-> "int", enabled |-> "bool"]
FieldSet == {Fields[i] : i \in DOMAIN Fields}

VARIABLES sched,        \* the schedule row: a value 1 or 2 per column, and next
          runs,         \* the backups table: Runs -> row
          objects,      \* object storage: Runs -> the dump, or NoDump
          engine,       \* Engines -> what each is doing
          day,          \* the clock
          chore,        \* the chores of this behaviour, a member of Chores
          wish, abandoned, rewritten

vars == <<chore, sched, runs, objects, engine, day, wish, abandoned, rewritten>>

Engines == {"worker", "admin"}
NoRun   == [st |-> "none", ref |-> FALSE, born |-> 0]
NoDump  == [ok |-> FALSE]
Resting == [pc |-> "idle"]
DefaultSched == [row |-> TRUE, next |-> 0, val |-> [f \in FieldSet |-> 1]]
NoSched == [DefaultSched EXCEPT !.row = FALSE]

Enabled(s)   == s.row /\ s.val["enabled"] = 1
Frequency(s) == s.val["frequency"]        \* days to the next run: daily 1, longer 2
Retention(s) == s.val["retention"]        \* retention_days

Init == /\ chore \in Chores
        /\ sched = NoSched
        /\ runs = [i \in Runs |-> NoRun]
        /\ objects = [i \in Runs |-> NoDump]
        /\ engine = [w \in Engines |-> Resting]
        /\ day = 0
        /\ wish = [f \in FieldSet |-> 1]
        /\ abandoned = {} /\ rewritten = FALSE

-----------------------------------------------------------------------------
(* The schedule.  The parameters are bound in the order of Fields from $3;  *)
(* the SET list numbers only the columns the request names.                 *)

GetSchedule == /\ ~sched.row
               /\ sched' = DefaultSched
               /\ UNCHANGED <<runs, objects, engine, day, wish, abandoned, rewritten, chore>>

\* The places of the named columns up to f, and the column whose value f is bound to.
UpTo(named, f) == {i \in DOMAIN Fields : Fields[i] \in named /\ \E j \in i .. Len(Fields) : Fields[j] = f}
Bound(named, f) == Fields[Cardinality(UpTo(named, f))]

\* PostgreSQL refuses a placeholder of another type and a NULL in a NOT NULL column.
Accepted(named) ==
  \A f \in named : /\ ColumnType[Bound(named, f)] = ColumnType[f]
                   /\ sched.row => Bound(named, f) \in named

UpdateSchedule(named, v) ==
  /\ Accepted(named)
  /\ sched' = [sched EXCEPT !.row = TRUE, !.val =
                 [f \in FieldSet |-> IF f \in named THEN v[IF sched.row THEN Bound(named, f) ELSE f]
                                     ELSE sched.val[f]]]
  /\ wish' = [f \in FieldSet |-> IF f \in named THEN v[f] ELSE wish[f]]
  /\ UNCHANGED <<runs, objects, engine, day, abandoned, rewritten, chore>>

-----------------------------------------------------------------------------
(* One backup: INSERT 'running', pg_dump, put, UPDATE 'completed'.          *)

Fresh == {i \in Runs : runs[i] = NoRun /\ objects[i] = NoDump /\ i \notin abandoned
                       /\ \A w \in Engines : engine[w].pc \in {"idle", "due"} \/ engine[w].id # i}

InsertRun(w, i) ==
  /\ i \in Fresh
  /\ engine[w].pc = (IF w = "worker" THEN "due" ELSE "idle")
  /\ runs' = [runs EXCEPT ![i] = [st |-> "running", ref |-> FALSE, born |-> day]]
  /\ engine' = [engine EXCEPT ![w] = [pc |-> "dump", id |-> i]]
  /\ UNCHANGED <<sched, objects, day, wish, abandoned, rewritten, chore>>

Dump(w) == /\ engine[w].pc = "dump"
           /\ engine' = [engine EXCEPT ![w] = [pc |-> "put", id |-> @.id,
                           dump |-> [ok |-> TRUE, runs |-> runs, sched |-> sched]]]
           /\ UNCHANGED <<sched, runs, objects, day, wish, abandoned, rewritten, chore>>

PutLost(w) == /\ engine[w].pc = "put"            \* Faulty variant: the upload is not awaited
              /\ engine' = [engine EXCEPT ![w] = [pc |-> "mark", id |-> @.id]]
              /\ UNCHANGED <<sched, runs, objects, day, wish, abandoned, rewritten, chore>>

Put(w) == /\ engine[w].pc = "put"
          /\ objects' = [objects EXCEPT ![engine[w].id] = engine[w].dump]
          /\ engine' = [engine EXCEPT ![w] = [pc |-> "mark", id |-> @.id]]
          /\ UNCHANGED <<sched, runs, day, wish, abandoned, rewritten, chore>>

\* UPDATE ... WHERE id = $1: no row, no effect.
Marked(i, st, ref) == IF runs[i] = NoRun THEN runs
                      ELSE [runs EXCEPT ![i] = [st |-> st, ref |-> ref, born |-> runs[i].born]]
After(w) == [engine EXCEPT ![w] = IF w = "worker" THEN [pc |-> "next", id |-> @.id]
                                                  ELSE Resting]

Complete(w) == /\ engine[w].pc = "mark"
               /\ runs' = Marked(engine[w].id, "completed", TRUE)
               /\ engine' = After(w)
               /\ UNCHANGED <<sched, objects, day, wish, abandoned, rewritten, chore>>

Fail(w) == /\ engine[w].pc \in {"dump", "put", "mark"}
           /\ runs' = Marked(engine[w].id, "failed", FALSE)
           /\ engine' = After(w)
           /\ UNCHANGED <<sched, objects, day, wish, abandoned, rewritten, chore>>

-----------------------------------------------------------------------------
(* The worker's tick.                                                       *)

RunDue == /\ engine["worker"].pc = "idle"
          /\ Enabled(sched) /\ sched.next <= day
          /\ engine' = [engine EXCEPT !["worker"] = [pc |-> "due"]]
          /\ UNCHANGED <<sched, runs, objects, day, wish, abandoned, rewritten, chore>>

\* The old rows of the table that are not running.
Cutoff(i) == runs[i].born + Retention(sched) < day
Prunable  == {i \in Runs : runs[i] # NoRun /\ Cutoff(i) /\ runs[i].st # "running"}

\* finally: the next run is set ...
SetNextRun == /\ engine["worker"].pc = "next"
              /\ sched' = [sched EXCEPT !.next = day + Frequency(sched)]
              /\ engine' = [engine EXCEPT !["worker"] = [pc |-> "select", id |-> @.id]]
              /\ UNCHANGED <<runs, objects, day, wish, abandoned, rewritten, chore>>

\* ... then prune reads the expired rows.
SelectExpired == /\ engine["worker"].pc = "select"
                 /\ engine' = [engine EXCEPT !["worker"] =
                                 [pc |-> "prune", id |-> @.id, rows |-> Prunable]]
                 /\ UNCHANGED <<sched, runs, objects, day, wish, abandoned, rewritten, chore>>

\* storage.remove is best effort; the DELETE follows it.
PruneObject(i) ==
  /\ engine["worker"].pc = "prune" /\ i \in engine["worker"].rows
  /\ \/ objects' = [objects EXCEPT ![i] = NoDump]
     \/ UNCHANGED objects
  /\ engine' = [engine EXCEPT !["worker"] = [pc |-> "delete", id |-> i, rows |-> @.rows \ {i}]]
  /\ UNCHANGED <<sched, runs, day, wish, abandoned, rewritten, chore>>

DeleteRun == /\ engine["worker"].pc = "delete"
             /\ runs' = [runs EXCEPT ![engine["worker"].id] = NoRun]
             /\ abandoned' = abandoned \cup {engine["worker"].id}
             /\ engine' = [engine EXCEPT !["worker"] = [pc |-> "prune", id |-> @.id, rows |-> @.rows]]
             /\ UNCHANGED <<sched, objects, day, wish, rewritten, chore>>

EndTick == /\ engine["worker"].pc = "prune" /\ engine["worker"].rows = {}
           /\ engine' = [engine EXCEPT !["worker"] = Resting]
           /\ UNCHANGED <<sched, runs, objects, day, wish, abandoned, rewritten, chore>>

-----------------------------------------------------------------------------
(* Restore: the row, the object and its checksum, then pg_restore --clean,  *)
(* which replaces table by table and may stop between two of them.          *)

RestoreRead(i) ==
  /\ engine["admin"].pc = "idle"
  /\ runs[i].st = "completed" /\ runs[i].ref
  /\ engine' = [engine EXCEPT !["admin"] = [pc |-> "stream", id |-> i]]
  /\ UNCHANGED <<sched, runs, objects, day, wish, abandoned, rewritten, chore>>

\* An object that is gone, or that does not have the row's checksum, ends it.
RestoreStream ==
  /\ engine["admin"].pc = "stream"
  /\ LET i == engine["admin"].id
     IN engine' = [engine EXCEPT !["admin"] =
                     IF objects[i].ok THEN [pc |-> "restore", id |-> i, dump |-> objects[i]]
                     ELSE Resting]
  /\ UNCHANGED <<sched, runs, objects, day, wish, abandoned, rewritten, chore>>

RestoreSchedules ==
  /\ engine["admin"].pc = "restore"
  /\ sched' = engine["admin"].dump.sched
  /\ wish' = engine["admin"].dump.sched.val
  /\ engine' = [engine EXCEPT !["admin"].pc = "restore2"]
  /\ rewritten' = TRUE
  /\ UNCHANGED <<runs, objects, day, abandoned, chore>>

RestoreRuns ==
  /\ engine["admin"].pc = "restore2"
  /\ \/ runs' = engine["admin"].dump.runs
     \/ UNCHANGED runs                              \* pg_restore stops half-way
  /\ engine' = [engine EXCEPT !["admin"] = Resting]
  /\ UNCHANGED <<sched, objects, day, wish, abandoned, rewritten, chore>>

-----------------------------------------------------------------------------
Crash(w) == /\ engine[w].pc # "idle"
            /\ abandoned' = IF engine[w].pc \in {"dump", "put", "mark", "delete"}
                            THEN abandoned \cup {engine[w].id} ELSE abandoned
            /\ engine' = [engine EXCEPT ![w] = Resting]
            /\ UNCHANGED <<sched, runs, objects, day, wish, rewritten, chore>>

Tick == /\ day < MaxDay
        /\ day' = day + 1
        /\ UNCHANGED <<sched, runs, objects, engine, wish, abandoned, rewritten, chore>>

Requests == [FieldSet -> 1..2]

RunStep(w) == \/ Dump(w) \/ Put(w) \/ Complete(w) \/ Fail(w) \/ Crash(w)
              \/ \E i \in Runs : InsertRun(w, i)

WorkerStep == \/ RunDue \/ SetNextRun \/ SelectExpired \/ DeleteRun \/ EndTick \/ RunStep("worker")
              \/ \E i \in Runs : PruneObject(i)

RestoreStep == \/ RestoreStream \/ RestoreSchedules \/ RestoreRuns
               \/ \E i \in Runs : RestoreRead(i)

Next == \/ GetSchedule
        \/ "schedule" \in chore /\ \E named \in SUBSET FieldSet, v \in Requests : UpdateSchedule(named, v)
        \/ "worker"  \in chore /\ (Tick \/ WorkerStep)
        \/ "admin"   \in chore /\ RunStep("admin")
        \/ "restore" \in chore /\ RestoreStep

Spec == Init /\ [][Next]_vars

-----------------------------------------------------------------------------
Running(i) == \E w \in Engines :
                 engine[w].pc \in {"dump", "put", "mark"} /\ engine[w].id = i
BeingPruned(i) == engine["worker"].pc = "delete" /\ engine["worker"].id = i

\* The engine's book-keeping.  Until a restore rewrites the tables, a
\* completed run has its object (unless the worker is, or died, between
\* removing the object and the row), and a running row has a live runner or was abandoned
\* by a crash.  Every dump shows its own run as running, so a restored
\* database lists it as running for ever.  An accepted update of the
\* schedule gives the named columns the requested values and no other column
\* a new one.
BackupsSound ==
  /\ ~rewritten =>
       \A i \in Runs :
         /\ runs[i].st = "completed" => objects[i].ok \/ BeingPruned(i) \/ i \in abandoned
         /\ runs[i].st = "running" => Running(i) \/ i \in abandoned
  /\ \A i \in Runs : objects[i].ok /\ ~rewritten => objects[i].runs[i].st = "running"
  /\ sched.row => sched.val = wish
=============================================================================
