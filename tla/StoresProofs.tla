---------------------------- MODULE StoresProofs ----------------------------
(***************************************************************************)
(* Theorems about what the service and its clients keep for their users,   *)
(* for any instance: object storage with its migration and previews,       *)
(* retention with legal holds and exports, backups, profile pictures, the  *)
(* offline cache, the drafts of the compose panel, the console's directory *)
(* and provider connections, and the secrets it shows once.  The eight     *)
(* components share no variable; each is an instance here, under its own   *)
(* names.                                                                  *)
(***************************************************************************)
EXTENDS Integers, Sequences, FiniteSets, FiniteSetTheorems, SequenceTheorems, TLAPS

\* Storage.
CONSTANTS Keys, Tmp, Absent, Contents, MaxWrites, MaxFaults, MaxByte, Tasks
VARIABLES task, kinds, verify, src, tgt, write, mig, served, thumb, writes, faults, quiet
Objects == INSTANCE Storage

\* Retention.
CONSTANTS Boxes, Mail, BoxOf, Expired, Admins, MaxHolds, Exports, Duties
VARIABLES policy, holds, young, asking, loc, prune, export, stored, duty
Retain == INSTANCE Retention

\* Backups.
CONSTANTS Runs, MaxDay, Chores
VARIABLES sched, runs, objects, engine, day, chore, wish, abandoned, rewritten
Backup == INSTANCE Backups

\* Avatars.
CONSTANTS Pictures, Exts, Slots, LogoUrls, Plans
VARIABLES plan, logo, path, store, redis, req, tab, used, spoiled, litter, changes
Avatar == INSTANCE Avatars

\* OfflineCache.
CONSTANTS MaxReads, MaxVersion
VARIABLES worker, caches, version, online, fetch, puts, page, best, crossed, push, spent
Offline == INSTANCE OfflineCache WITH used <- spent

\* Composer.
CONSTANTS PanelPlans, Files, MaxCount
VARIABLES panelPlan, ui, inst, initial, head, dom, sigDue, timer, save, draftUid, discard, drafts, files,
          post, sendRow, cancel, poll, told, panelFaults, marks
Compose == INSTANCE Composer WITH Plans <- PanelPlans, plan <- panelPlan, faults <- panelFaults, row <- sendRow

\* Connections.
CONSTANTS MaxId, LinkPlans, Letters, RoleMaps
VARIABLES linkPlan, links, typed, mixed, linkTab, secrets, linkUsed
Connect == INSTANCE Connections WITH Plans <- LinkPlans, plan <- linkPlan, rows <- links, last <- typed, tab <- linkTab, used <- linkUsed

\* IssuedSecrets.
CONSTANTS MaxSecret, IssuePlans
VARIABLES issuePlan, secretRow, settings, issueTab, onScreen, blind, issueUsed
Secrets == INSTANCE IssuedSecrets WITH MaxId <- MaxSecret, Plans <- IssuePlans, plan <- issuePlan, row <- secretRow,
                                  tab <- issueTab, seen <- onScreen, used <- issueUsed

--------------------------------------------------------------------------------
(* Object storage, migration and thumbnails. *)

\* The stores hold whole objects at the names clients ask for; what is staged is one.
WholeObjects == {Absent} \cup Contents
StoresInv ==
  /\ src = [n \in Objects!Names |-> src[n]] /\ tgt = [n \in Objects!Names |-> tgt[n]]
  /\ \A k \in Keys : src[k] \in WholeObjects /\ tgt[k] \in WholeObjects
  /\ write.pc = "staged" => write.key \in Keys /\ write.obj \in Contents

\* The migration is a record of these fields.
MigShape ==
  mig = [pc |-> mig.pc, todo |-> mig.todo, key |-> mig.key, size |-> mig.size, failed |-> mig.failed]

\* While nothing changes the source, a name the run has passed without a failure is at the target.
Arrived(n) == tgt[n] # Absent /\ tgt[n].size = src[n].size
Migrating == {"list", "entry", "done"}
MigInv ==
  /\ mig.failed \in Nat
  /\ mig.pc \in Migrating /\ quiet /\ mig.failed = 0 =>
       \A n \in Objects!Names : src[n] # Absent =>
         n \in mig.todo \/ (mig.pc = "entry" /\ n = mig.key) \/ Arrived(n)
  /\ mig.pc = "done" => mig.todo = {}
  /\ mig.pc = "entry" => mig.key \in Objects!Names
  /\ mig.pc = "entry" /\ quiet => mig.size = Objects!Sized(src[mig.key])

\* The preview's object comes before its row, and its row before it is marked ready.
ThumbShape == thumb = [pc |-> thumb.pc, state |-> thumb.state, row |-> thumb.row, obj |-> thumb.obj]
ThumbInv ==
  /\ thumb.pc \in {"row", "ready"} => thumb.obj
  /\ thumb.pc = "ready" => thumb.row
  /\ thumb.state = "ready" => thumb.row /\ thumb.obj

\* A download got what it asked for.
ServedInv ==
  served # Objects!NoServe =>
    (IF served.ok THEN served.from..served.to ELSE {}) = Objects!Asked(served.start, served.end, served.size)

\* The inductive invariant.
StorageInv == StoresInv /\ MigShape /\ MigInv /\ ThumbShape /\ ThumbInv /\ ServedInv

LEMMA StorageInit ==
  ASSUME Objects!Init
  PROVE  StorageInv
  <1>1. StoresInv
    BY DEF Objects!Init, StoresInv, WholeObjects, Objects!Names, Objects!NoWrite
  <1>2. MigShape /\ MigInv
    BY DEF Objects!Init, MigShape, MigInv, Objects!NoMig, Migrating
  <1>3. ThumbShape /\ ThumbInv
    BY DEF Objects!Init, ThumbShape, ThumbInv
  <1>4. ServedInv
    BY DEF Objects!Init, ServedInv
  <1> QED BY <1>1, <1>2, <1>3, <1>4 DEF StorageInv

--------------------------------------------------------------------------------
\* Writes of the running system: a change of the source ends the quiet.
Elsewhere == UNCHANGED <<tgt, mig, served, thumb>>

LEMMA WriteFrame ==
  ASSUME StorageInv, Elsewhere, StoresInv', ~quiet'
  PROVE  StorageInv'
  <1>1. MigShape' /\ MigInv'
    BY DEF Elsewhere, StorageInv, MigShape, MigInv
  <1>2. ThumbShape' /\ ThumbInv' /\ ServedInv'
    BY DEF Elsewhere, StorageInv, ThumbShape, ThumbInv, ServedInv
  <1> QED BY <1>1, <1>2 DEF StorageInv

LEMMA WritesKeep ==
  ASSUME Objects!NamesAssumption, StorageInv,
         \/ \E k \in Keys : Objects!DeleteObject(k) \/ \E c \in Contents : Objects!PutObject(k, c)
         \/ Objects!Rename \/ Objects!PutFails
  PROVE  StorageInv'
  <1> USE DEF StoresInv, Objects!Names, WholeObjects, Objects!NamesAssumption
  <1>0. StoresInv
    BY DEF StorageInv
  <1>i. Objects!NoWrite.pc = "idle"
    BY DEF Objects!NoWrite
  <1>1. Elsewhere /\ ~quiet'
    BY DEF Objects!DeleteObject, Objects!PutObject, Objects!Rename, Objects!PutFails, Objects!Changes, Elsewhere
  <1>2. ASSUME NEW k \in Keys, Objects!DeleteObject(k) PROVE StoresInv'
    BY <1>0, <1>2 DEF Objects!DeleteObject
  <1>3. ASSUME NEW k \in Keys, NEW c \in Contents, Objects!PutObject(k, c) PROVE StoresInv'
    <2>1. CASE kinds.from = "posix"
      <3>1. PICK o : o = [c EXCEPT !.size = 0]
        OBVIOUS
      <3>2. src' = [src EXCEPT ![Tmp] = o] /\ write' = [pc |-> "staged", key |-> k, obj |-> c] /\ tgt' = tgt
        BY <1>3, <2>1, <3>1 DEF Objects!PutObject, Objects!Stage
      <3> QED BY <1>0, <3>2
    <2>2. CASE kinds.from # "posix"
      BY <1>0, <1>3, <2>2 DEF Objects!PutObject
    <2> QED BY <2>1, <2>2
  <1>4. ASSUME Objects!Rename PROVE StoresInv'
    <2>1. /\ src' = [src EXCEPT ![write.key] = write.obj, ![Tmp] = Absent] /\ tgt' = tgt
          /\ write.key \in Keys /\ write.obj \in Contents /\ write' = Objects!NoWrite
      BY <1>0, <1>4 DEF Objects!Rename
    <2> QED BY <1>0, <2>1, <1>i
  <1>5. ASSUME Objects!PutFails PROVE StoresInv'
    <2>1. (src' = src \/ src' = [src EXCEPT ![Tmp] = Absent]) /\ tgt' = tgt /\ write' = Objects!NoWrite
      BY <1>5 DEF Objects!PutFails
    <2>2. CASE src' = src
      BY <1>0, <1>i, <2>1, <2>2
    <2>3. CASE src' = [src EXCEPT ![Tmp] = Absent]
      BY <1>0, <1>i, <2>1, <2>3
    <2> QED BY <2>1, <2>2, <2>3
  <1> QED BY <1>1, <1>2, <1>3, <1>4, <1>5, WriteFrame

--------------------------------------------------------------------------------
\* The migration: the source and the rest stay.
LEMMA MigrateFrame ==
  ASSUME StorageInv, UNCHANGED <<src, write, served, thumb>>, MigShape', MigInv',
         tgt' = tgt \/ \E n \in Objects!Names : tgt' = [tgt EXCEPT ![n] = src[n]]
  PROVE  StorageInv'
  <1>1. StoresInv'
    BY DEF StorageInv, StoresInv, Objects!Names
  <1>2. ThumbShape' /\ ThumbInv' /\ ServedInv'
    BY DEF StorageInv, ThumbShape, ThumbInv, ServedInv
  <1> QED BY <1>1, <1>2 DEF StorageInv

LEMMA MigrationKeeps ==
  ASSUME StorageInv,
         Objects!Migrate \/ (\E n \in Objects!Names : Objects!Entry(n)) \/ Objects!CopyOne \/ Objects!CopyFails \/ Objects!Summary \/ Objects!Again
  PROVE  StorageInv'
  <1>0. MigShape /\ MigInv /\ UNCHANGED <<src, write, served, thumb>>
    BY DEF StorageInv, Objects!Migrate, Objects!Entry, Objects!CopyOne, Objects!CopyFails, Objects!Summary, Objects!Again
  <1>n. ASSUME NEW r, mig' = r, r = Objects!NoMig \/ r = [Objects!NoMig EXCEPT !.pc = "aborted"], tgt' = tgt PROVE StorageInv'
    <2>1. /\ r = [pc |-> r.pc, todo |-> r.todo, key |-> r.key, size |-> r.size, failed |-> r.failed]
          /\ r.failed = 0 /\ r.pc \in {"off", "aborted"}
      BY <1>n DEF Objects!NoMig
    <2>2. MigShape' /\ MigInv'
      BY <1>n, <2>1 DEF MigShape, MigInv, Migrating
    <2> QED BY <1>0, <1>n, <2>2, MigrateFrame
  <1>f. ASSUME mig' = Objects!Failed, mig.pc = "entry", tgt' = tgt \/ \E n \in Objects!Names : tgt' = [tgt EXCEPT ![n] = src[n]]
        PROVE  StorageInv'
    <2>1. mig' = [mig EXCEPT !.pc = "list", !.failed = mig.failed + 1]
      BY <1>f DEF Objects!Failed
    <2>2. MigShape' /\ mig'.pc = "list" /\ mig'.failed = mig.failed + 1
      BY <1>0, <2>1 DEF MigShape
    <2>3. MigInv'
      BY <1>0, <2>2 DEF MigInv
    <2> QED BY <1>0, <1>f, <2>2, <2>3, MigrateFrame
  <1>1. CASE Objects!Migrate
    <2>1. /\ tgt' = tgt /\ MigShape' /\ mig'.pc = "list" /\ mig'.todo = {n \in Objects!Names : src[n] # Absent}
          /\ mig'.failed = 0
      BY <1>1 DEF Objects!Migrate, Objects!NoMig, MigShape
    <2>2. MigInv'
      BY <1>0, <2>1 DEF MigInv
    <2> QED BY <1>0, <2>1, <2>2, MigrateFrame
  <1>2. ASSUME NEW n \in Objects!Names, Objects!Entry(n) PROVE StorageInv'
    <2>1. CASE src[n] = Absent /\ kinds.from = "posix"
      BY <1>2, <1>n, <2>1 DEF Objects!Entry
    <2>2. CASE ~(src[n] = Absent /\ kinds.from = "posix")
      <3>1. PICK s : s = Objects!Sized(src[n])
        OBVIOUS
      <3>2. /\ mig.pc = "list" /\ tgt' = tgt /\ quiet' = quiet
            /\ mig' = [mig EXCEPT !.pc = "entry", !.todo = mig.todo \ {n}, !.key = n, !.size = s]
        BY <1>2, <2>2, <3>1 DEF Objects!Entry
      <3>3. /\ MigShape' /\ mig'.pc = "entry" /\ mig'.todo = mig.todo \ {n} /\ mig'.key = n /\ mig'.size = s
            /\ mig'.failed = mig.failed
        BY <1>0, <3>2 DEF MigShape
      <3>4. MigInv'
        BY <1>0, <3>1, <3>2, <3>3 DEF MigInv, Migrating, Arrived, Objects!Sized
      <3> QED BY <1>0, <3>2, <3>3, <3>4, MigrateFrame
    <2> QED BY <2>1, <2>2
  <1>3. CASE Objects!CopyOne
    <2>0. mig.pc = "entry" /\ mig.key \in Objects!Names /\ quiet' = quiet
      BY <1>0, <1>3 DEF Objects!CopyOne, MigInv
    <2>p. ASSUME mig' = [mig EXCEPT !.pc = "list"]
          PROVE  /\ MigShape' /\ mig'.pc = "list" /\ mig'.todo = mig.todo /\ mig'.failed = mig.failed
      BY <1>0, <2>p DEF MigShape
    <2>1. CASE Objects!SameSize(mig.key, mig.size)
      <3>1. mig' = [mig EXCEPT !.pc = "list"] /\ tgt' = tgt
        BY <1>3, <2>1 DEF Objects!CopyOne
      <3>2. quiet /\ src[mig.key] # Absent => Arrived(mig.key)
        BY <1>0, <2>0, <2>1 DEF MigInv, Objects!SameSize, Arrived, Objects!Sized
      <3>3. MigInv'
        BY <1>0, <2>0, <2>p, <3>1, <3>2 DEF MigInv, Migrating, Arrived
      <3> QED BY <1>0, <2>p, <3>1, <3>3, MigrateFrame
    <2>2. CASE ~Objects!SameSize(mig.key, mig.size) /\ src[mig.key] = Absent
      <3>1. mig' = Objects!Failed /\ tgt' = tgt
        BY <1>3, <2>2 DEF Objects!CopyOne
      <3> QED BY <1>f, <2>0, <3>1
    <2>3. CASE ~Objects!SameSize(mig.key, mig.size) /\ src[mig.key] # Absent
      <3>1. tgt' = [tgt EXCEPT ![mig.key] = src[mig.key]]
        BY <1>3, <2>3 DEF Objects!CopyOne
      <3>2. CASE mig' = Objects!Failed
        BY <1>f, <2>0, <3>1, <3>2
      <3>3. CASE mig' = [mig EXCEPT !.pc = "list"]
        <4>1. tgt'[mig.key] = src[mig.key] /\ \A n \in Objects!Names : n # mig.key => tgt'[n] = tgt[n]
          BY <2>0, <3>1 DEF StorageInv, StoresInv
        <4>2. MigInv'
          BY <1>0, <2>0, <2>3, <2>p, <3>3, <4>1 DEF MigInv, Migrating, Arrived
        <4> QED BY <1>0, <2>0, <2>p, <3>1, <3>3, <4>2, MigrateFrame
      <3> QED BY <1>3, <2>3, <3>2, <3>3 DEF Objects!CopyOne
    <2> QED BY <2>1, <2>2, <2>3
  <1>4. CASE Objects!CopyFails
    BY <1>4, <1>f, <1>n DEF Objects!CopyFails
  <1>5. CASE Objects!Summary
    <2>1. mig.pc = "list" /\ mig.todo = {} /\ mig' = [mig EXCEPT !.pc = "done"] /\ tgt' = tgt /\ quiet' = quiet
      BY <1>5 DEF Objects!Summary
    <2>2. MigShape' /\ mig'.pc = "done" /\ mig'.todo = {} /\ mig'.failed = mig.failed
      BY <1>0, <2>1 DEF MigShape
    <2>3. MigInv'
      BY <1>0, <2>1, <2>2 DEF MigInv, Migrating, Arrived
    <2> QED BY <1>0, <2>1, <2>2, <2>3, MigrateFrame
  <1>6. CASE Objects!Again
    BY <1>6, <1>n DEF Objects!Again
  <1> QED BY <1>1, <1>2, <1>3, <1>4, <1>5, <1>6

--------------------------------------------------------------------------------
\* parseRange, for every header and size: the bytes asked for, or none.
LEMMA LargerOfTwo ==
  ASSUME NEW a \in Int, NEW b \in Int
  PROVE  Objects!Max({a, b}) = IF a >= b THEN a ELSE b
  <1>1. \E x \in {a, b} : \A y \in {a, b} : x >= y
    OBVIOUS
  <1>2. Objects!Max({a, b}) \in {a, b} /\ \A y \in {a, b} : Objects!Max({a, b}) >= y
    BY <1>1 DEF Objects!Max
  <1> QED BY <1>2

LEMMA SmallerOfTwo ==
  ASSUME NEW a \in Int, NEW b \in Int
  PROVE  Objects!Min({a, b}) = IF a <= b THEN a ELSE b
  <1>1. \E x \in {a, b} : \A y \in {a, b} : x =< y
    OBVIOUS
  <1>2. Objects!Min({a, b}) \in {a, b} /\ \A y \in {a, b} : Objects!Min({a, b}) =< y
    BY <1>1 DEF Objects!Min
  <1> QED BY <1>2

LEMMA RangeIsExact ==
  ASSUME NEW start \in Int, start >= -1, NEW end \in Int, end >= -1, NEW size \in Nat
  PROVE  LET r == Objects!ParseRange(start, end, size)
         IN /\ r = <<r[1], r[2]>> /\ r[1] \in Int /\ r[2] \in Int
            /\ (IF r[1] <= r[2] THEN r[1]..r[2] ELSE {}) = Objects!Asked(start, end, size)
  <1> DEFINE from == IF start # -1 THEN start ELSE Objects!Max({0, size - end})
             to == IF start = -1 \/ end = -1 THEN size - 1 ELSE Objects!Min({end, size - 1})
             none == (start = -1 /\ end \in {-1, 0}) \/ from > to \/ from >= size
  <1>1. Objects!ParseRange(start, end, size) = IF none THEN <<1, 0>> ELSE <<from, to>>
    BY DEF Objects!ParseRange
  <1>2. from = IF start # -1 THEN start ELSE IF end >= size THEN 0 ELSE size - end
    BY LargerOfTwo
  <1>3. to = IF start = -1 \/ end = -1 THEN size - 1 ELSE IF end <= size - 1 THEN end ELSE size - 1
    BY SmallerOfTwo
  <1>4. from \in Int /\ to \in Int
    BY <1>2, <1>3
  <1> HIDE DEF from, to
  <1>5. CASE none
    <2>1. ASSUME NEW b \in Objects!Asked(start, end, size) PROVE FALSE
      BY <1>2, <1>3, <1>5, <2>1 DEF Objects!Asked
    <2>2. Objects!Asked(start, end, size) = {}
      BY <2>1
    <2> QED BY <1>1, <1>5, <2>2
  <1>6. CASE ~none
    <2>1. from <= to /\ Objects!ParseRange(start, end, size) = <<from, to>>
      BY <1>1, <1>4, <1>6
    <2>2. \A b : b \in from..to <=> b \in Objects!Asked(start, end, size)
      BY <1>2, <1>3, <1>4, <1>6 DEF Objects!Asked
    <2>3. from..to = Objects!Asked(start, end, size)
      BY <2>2
    <2> QED BY <1>4, <2>1, <2>3
  <1> QED BY <1>5, <1>6

\* Nothing but a download changes what was served.
LEMMA DownloadKeeps ==
  ASSUME Objects!NamesAssumption, StorageInv, NEW start \in Objects!Offsets, NEW end \in Objects!Offsets, NEW size \in 0..MaxByte,
         Objects!Download(start, end, size)
  PROVE  StorageInv'
  <1>1. PICK r : r = Objects!ParseRange(start, end, size)
    OBVIOUS
  <1>2. /\ start \in Int /\ start >= -1 /\ end \in Int /\ end >= -1 /\ size \in Nat
    BY DEF Objects!Offsets, Objects!NamesAssumption
  <1>3. /\ r = <<r[1], r[2]>> /\ r[1] \in Int /\ r[2] \in Int
        /\ (IF r[1] <= r[2] THEN r[1]..r[2] ELSE {}) = Objects!Asked(start, end, size)
    BY <1>1, <1>2, RangeIsExact
  <1>4. PICK f, t : f = r[1] /\ t = r[2]
    OBVIOUS
  <1>5. Objects!Read(kinds.from, f, t)[1] = f /\ Objects!Read(kinds.from, f, t)[2] = t
    BY <1>3, <1>4 DEF Objects!Read
  <1>6. /\ served' = [size |-> size, start |-> start, end |-> end, ok |-> f <= t, from |-> f, to |-> t]
        /\ UNCHANGED <<src, tgt, write, mig, thumb, quiet>>
    BY <1>1, <1>4, <1>5 DEF Objects!Download
  <1>7. ServedInv'
    <2>1. served'.ok = (f <= t) /\ served'.from = f /\ served'.to = t /\ served'.start = start
          /\ served'.end = end /\ served'.size = size
      BY <1>6
    <2> QED BY <1>3, <1>4, <2>1 DEF ServedInv
  <1>8. StoresInv' /\ MigShape' /\ MigInv' /\ ThumbShape' /\ ThumbInv'
    BY <1>6 DEF StorageInv, StoresInv, MigShape, MigInv, ThumbShape, ThumbInv, Arrived
  <1> QED BY <1>7, <1>8 DEF StorageInv

\* The preview's steps, in their order, and failures between them.
LEMMA ThumbKeeps ==
  ASSUME StorageInv, Objects!Pending \/ Objects!PutThumb \/ Objects!RowThumb \/ Objects!ReadyThumb \/ Objects!ThumbFails
  PROVE  StorageInv'
  <1>0. ThumbShape /\ ThumbInv
    BY DEF StorageInv
  <1>1. UNCHANGED <<src, tgt, write, mig, served, quiet>>
    BY DEF Objects!Pending, Objects!PutThumb, Objects!RowThumb, Objects!ReadyThumb, Objects!ThumbFails, Objects!ThumbStep
  <1>2. StoresInv' /\ MigShape' /\ MigInv' /\ ServedInv'
    BY <1>1 DEF StorageInv, StoresInv, MigShape, MigInv, ServedInv, Arrived
  <1>3. ASSUME NEW t, t = [thumb EXCEPT !.pc = "make", !.state = "pending"], thumb' = t
        PROVE  ThumbShape' /\ ThumbInv'
    BY <1>0, <1>3 DEF ThumbShape, ThumbInv
  <1>4. CASE Objects!Pending
    <2>1. thumb' = [thumb EXCEPT !.pc = "make", !.state = "pending"]
      BY <1>0, <1>4 DEF Objects!Pending, Objects!ThumbStep, ThumbShape
    <2> QED BY <1>2, <1>3, <2>1 DEF StorageInv
  <1>5. CASE Objects!PutThumb
    <2>1. thumb' = [pc |-> "row", state |-> thumb.state, row |-> thumb.row, obj |-> TRUE] /\ thumb.pc = "make"
      BY <1>0, <1>5 DEF Objects!PutThumb, Objects!ThumbStep, ThumbShape
    <2>2. ThumbShape' /\ ThumbInv'
      BY <1>0, <2>1 DEF ThumbShape, ThumbInv
    <2> QED BY <1>2, <2>2 DEF StorageInv
  <1>6. CASE Objects!RowThumb
    <2>1. thumb' = [pc |-> "ready", state |-> thumb.state, row |-> TRUE, obj |-> thumb.obj] /\ thumb.pc = "row"
      BY <1>0, <1>6 DEF Objects!RowThumb, Objects!ThumbStep, ThumbShape
    <2>2. ThumbShape' /\ ThumbInv'
      BY <1>0, <2>1 DEF ThumbShape, ThumbInv
    <2> QED BY <1>2, <2>2 DEF StorageInv
  <1>7. CASE Objects!ReadyThumb
    <2>1. thumb' = [pc |-> "idle", state |-> "ready", row |-> thumb.row, obj |-> thumb.obj] /\ thumb.pc = "ready"
      BY <1>0, <1>7 DEF Objects!ReadyThumb, Objects!ThumbStep, ThumbShape
    <2>2. ThumbShape' /\ ThumbInv'
      BY <1>0, <2>1 DEF ThumbShape, ThumbInv
    <2> QED BY <1>2, <2>2 DEF StorageInv
  <1>8. CASE Objects!ThumbFails
    <2>1. PICK s \in {"failed", thumb.state} : thumb' = [thumb EXCEPT !.pc = "idle", !.state = s]
      BY <1>8 DEF Objects!ThumbFails
    <2>2. thumb' = [pc |-> "idle", state |-> s, row |-> thumb.row, obj |-> thumb.obj]
      BY <1>0, <2>1 DEF ThumbShape
    <2>3. ThumbShape' /\ ThumbInv'
      BY <1>0, <2>1, <2>2 DEF ThumbShape, ThumbInv
    <2> QED BY <1>2, <2>3 DEF StorageInv
  <1> QED BY <1>4, <1>5, <1>6, <1>7, <1>8

--------------------------------------------------------------------------------
LEMMA StorageStep ==
  ASSUME Objects!NamesAssumption, StorageInv, [Objects!Next]_(Objects!vars)
  PROVE  StorageInv'
  <1>1. CASE UNCHANGED Objects!vars
    <2>1. UNCHANGED <<src, tgt, write, mig, served, thumb, quiet>>
      BY <1>1 DEF Objects!vars
    <2> QED BY <2>1 DEF StorageInv, StoresInv, MigShape, MigInv, ThumbShape, ThumbInv, ServedInv, Arrived
  <1> QED BY <1>1, WritesKeep, MigrationKeeps, DownloadKeeps, ThumbKeeps DEF Objects!Next

LEMMA StorageSafe ==
  ASSUME StorageInv
  PROVE  Objects!StorageSound /\ Objects!MigrationComplete
  <1>1. Objects!StorageSound
    BY DEF StorageInv, StoresInv, ThumbInv, ServedInv, Objects!StorageSound, WholeObjects
  <1>2. Objects!MigrationComplete
    BY DEF StorageInv, MigInv, Objects!MigrationComplete, Migrating, Arrived
  <1> QED BY <1>1, <1>2

\* putObject, parseRange and generate, for any keys, objects, headers, sizes and faults: no name
\* holds half an object, a download gets exactly the bytes it asks for, and a preview marked ready
\* has its row and its image.
THEOREM StoreIsSound ==
  ASSUME Objects!NamesAssumption
  PROVE  Objects!Spec => []Objects!StorageSound
  <1>1. Objects!Init => StorageInv
    BY StorageInit
  <1>2. StorageInv /\ [Objects!Next]_(Objects!vars) => StorageInv'
    BY StorageStep
  <1>3. StorageInv => Objects!StorageSound
    BY StorageSafe
  <1> QED BY <1>1, <1>2, <1>3, PTL DEF Objects!Spec

\* migrateStorage, for any store and after any number of interrupted runs: a run that reports no
\* failure, while nobody wrote, leaves every object of the source at the target with its size.
THEOREM MigrationsComplete ==
  ASSUME Objects!NamesAssumption
  PROVE  Objects!Spec => []Objects!MigrationComplete
  <1>1. Objects!Init => StorageInv
    BY StorageInit
  <1>2. StorageInv /\ [Objects!Next]_(Objects!vars) => StorageInv'
    BY StorageStep
  <1>3. StorageInv => Objects!MigrationComplete
    BY StorageSafe
  <1> QED BY <1>1, <1>2, <1>3, PTL DEF Objects!Spec

--------------------------------------------------------------------------------
(* Retention, legal holds and exports. *)

\* The worker's run and an export are records of these fields.
PruneShape ==
  prune = [pc |-> prune.pc, folders |-> prune.folders, held |-> prune.held, todo |-> prune.todo,
           box |-> prune.box, left |-> prune.left, at |-> prune.at, found |-> prune.found]
ExportShape(r) ==
  r = [status |-> r.status, live |-> r.live, box |-> r.box, left |-> r.left, got |-> r.got,
       start |-> r.start, skipped |-> r.skipped, touched |-> r.touched]

HoldTypes ==
  /\ holds \in [Retain!Scopes -> Nat]
  /\ asking \in [Admins -> Retain!Scopes \cup {Retain!NoScope}]
MailTypes == loc \in [Mail -> Retain!Folders \cup {Retain!Gone}]

\* Past its read of the holds, a run knows every hold that is not younger.
WorkerReading == {"boxes", "folders", "delete"}
HoldsSeen ==
  prune.pc \in WorkerReading =>
    /\ holds[Retain!OrgWide] = 0 \/ Retain!OrgWide \in young
    /\ \A b \in Boxes : holds[b] = 0 \/ b \in young \/ b \in prune.held

\* It works in a mailbox that was not held, on expired mail of that mailbox.
FoundIsDue ==
  /\ prune.pc \in {"folders", "delete"} => prune.box \in Boxes /\ prune.box \notin prune.held
  /\ prune.found # {} => prune.pc = "delete"
  /\ \A m \in prune.found : m \in Mail /\ m \in Expired /\ BoxOf[m] = prune.box

PrunerInv == PruneShape /\ HoldTypes /\ MailTypes /\ HoldsSeen /\ FoundIsDue

\* What an export has of the mailbox while it runs, and afterwards.
Collected(e) ==
  LET x == export[e] IN
  /\ x.got \in [Mail -> Nat] /\ x.start \subseteq Mail
  /\ x.status = "pending" => \A m \in Mail : x.got[m] = 0
  /\ \A m \in Mail : x.got[m] > 0 => BoxOf[m] = x.box
  /\ x.status = "running" => \A m \in x.start \ x.touched :
       /\ loc[m] # Retain!Gone /\ BoxOf[m] = x.box
       /\ loc[m] \in x.left => x.got[m] = 0
       /\ loc[m] \notin x.left /\ ~x.skipped => x.got[m] = 1
  /\ x.status = "done" => e \in stored
  /\ x.status = "done" /\ ~x.skipped => \A m \in x.start \ x.touched : x.got[m] = 1

ExportInv == \A e \in Exports : ExportShape(export[e]) /\ Collected(e)
ExportTable == export = [e \in Exports |-> export[e]]

\* The inductive invariant.
RetentionInv == PrunerInv /\ ExportTable /\ ExportInv

LEMMA RetentionInit ==
  ASSUME Retain!MailAssumption, Retain!Init
  PROVE  RetentionInv
  <1> USE DEF Retain!Init
  <1>1. HoldTypes /\ MailTypes
    BY DEF HoldTypes, MailTypes
  <1>2. PruneShape /\ HoldsSeen /\ FoundIsDue
    BY DEF PruneShape, HoldsSeen, FoundIsDue, Retain!Idle, WorkerReading
  <1>3. ExportTable /\ \A e \in Exports : ExportShape(export[e]) /\ Collected(e)
    <2>1. ExportShape(Retain!NoExport) /\ Retain!NoExport.status = "none" /\ Retain!NoExport.got = [m \in Mail |-> 0] /\ Retain!NoExport.start = {}
      BY DEF ExportShape, Retain!NoExport
    <2>2. export = [e \in Exports |-> Retain!NoExport]
      OBVIOUS
    <2>3. \A e \in Exports : export[e] = Retain!NoExport
      BY <2>2
    <2>4. ASSUME NEW e \in Exports PROVE ExportShape(export[e]) /\ Collected(e)
      <3>1. export[e] = Retain!NoExport
        BY <2>3
      <3> HIDE DEF Retain!Init
      <3> QED BY <2>1, <3>1 DEF Collected
    <2> QED BY <2>2, <2>4 DEF ExportTable
  <1> QED BY <1>1, <1>2, <1>3 DEF RetentionInv, PrunerInv, ExportInv

\* Holds come and go: the run has seen those that are not younger than its read.
LEMMA HoldsStep ==
  ASSUME PrunerInv, Retain!HoldStep
  PROVE  PrunerInv'
  <1> USE DEF PrunerInv, HoldTypes, Retain!Scopes
  <1>1. ASSUME NEW a \in Admins, NEW s \in Retain!Scopes, Retain!HoldCheck(a, s) PROVE PrunerInv'
    BY <1>1 DEF Retain!HoldCheck, PruneShape, MailTypes, HoldsSeen, FoundIsDue
  <1>2. ASSUME NEW a \in Admins, Retain!HoldInsert(a) PROVE PrunerInv'
    <2>1. PICK s \in Retain!Scopes : s = asking[a]
      BY <1>2 DEF Retain!HoldInsert
    <2>2. /\ holds' = [holds EXCEPT ![s] = @ + 1] /\ prune' = prune /\ loc' = loc
          /\ young' = IF holds[s] = 0 /\ prune.pc \notin {"idle", "org"} THEN young \cup {s} ELSE young
          /\ asking' = [asking EXCEPT ![a] = Retain!NoScope]
      BY <1>2, <2>1 DEF Retain!HoldInsert
    <2>3. HoldTypes'
      BY <2>2
    <2>4. \A t \in Retain!Scopes : holds'[t] = 0 => holds[t] = 0
      BY <2>2
    <2>5. \A t \in Retain!Scopes : prune.pc \in WorkerReading /\ holds'[t] # 0 => holds[t] # 0 \/ t \in young'
      BY <2>2 DEF WorkerReading
    <2>6. young \subseteq young'
      BY <2>2
    <2>7. HoldsSeen'
      BY <2>2, <2>5, <2>6 DEF HoldsSeen
    <2> QED BY <2>2, <2>3, <2>7 DEF PruneShape, MailTypes, FoundIsDue
  <1>3. ASSUME NEW s \in Retain!Scopes, Retain!Release(s) PROVE PrunerInv'
    <2>1. /\ holds' = [holds EXCEPT ![s] = @ - 1] /\ prune' = prune /\ loc' = loc /\ asking' = asking
          /\ young' = IF holds[s] = 1 THEN young \ {s} ELSE young
          /\ holds[s] > 0
      BY <1>3 DEF Retain!Release
    <2>2. HoldTypes'
      BY <2>1
    <2>3. \A t \in Retain!Scopes : holds'[t] # 0 => holds[t] # 0 /\ (t \in young => t \in young')
      BY <2>1
    <2>4. HoldsSeen'
      BY <2>1, <2>3 DEF HoldsSeen
    <2> QED BY <2>1, <2>2, <2>4 DEF PruneShape, MailTypes, FoundIsDue
  <1> QED BY <1>1, <1>2, <1>3 DEF Retain!HoldStep

\* The worker's run keeps to what it has read.
LEMMA WorkerKeeps ==
  ASSUME Retain!MailAssumption, PrunerInv, Retain!WorkerStep \/ Retain!WorkerCrash
  PROVE  PrunerInv'
  <1> USE DEF PrunerInv, HoldTypes
  <1>1. CASE Retain!RunDuePruning
    BY <1>1 DEF Retain!RunDuePruning, Retain!Idle, PruneShape, MailTypes, HoldsSeen, FoundIsDue, WorkerReading
  <1>2. CASE Retain!PruneOrg
    <2>1. holds' = holds /\ loc' = loc /\ asking' = asking /\ young' = {} /\ prune.found = {}
      BY <1>2 DEF Retain!PruneOrg, FoundIsDue
    <2>2. CASE prune' = Retain!Idle
      BY <2>1, <2>2 DEF Retain!Idle, PruneShape, MailTypes, HoldsSeen, FoundIsDue, WorkerReading
    <2>3. CASE ~Retain!Spared /\ prune' = [prune EXCEPT !.pc = "boxes", !.held = Retain!HeldMailboxIds, !.todo = Boxes]
      <3>1. /\ PruneShape' /\ prune'.pc = "boxes" /\ prune'.held = Retain!HeldMailboxIds /\ prune'.found = {}
        BY <2>1, <2>3 DEF PruneShape
      <3>2. holds[Retain!OrgWide] = 0 /\ \A b \in Boxes : holds[b] = 0 \/ b \in Retain!HeldMailboxIds
        BY <2>3 DEF Retain!Spared, Retain!HeldMailboxIds, Retain!Scopes
      <3> QED BY <2>1, <3>1, <3>2 DEF MailTypes, HoldsSeen, FoundIsDue, Retain!Scopes
    <2> QED BY <1>2, <2>2, <2>3 DEF Retain!PruneOrg
  <1>3. ASSUME NEW b \in Boxes, Retain!NextBox(b) PROVE PrunerInv'
    BY <1>3 DEF Retain!NextBox, PruneShape, MailTypes, HoldsSeen, FoundIsDue, WorkerReading
  <1>4. ASSUME NEW f \in Retain!Folders, Retain!SearchFolder(f) PROVE PrunerInv'
    <2> DEFINE hits == {m \in Retain!In(prune.box) : loc[m] = f /\ m \in Expired}
    <2>1. /\ prune.pc = "folders" /\ holds' = holds /\ loc' = loc /\ asking' = asking /\ young' = young
          /\ \/ prune' = [prune EXCEPT !.left = prune.left \ {f}]
             \/ prune' = [prune EXCEPT !.pc = "delete", !.at = f, !.found = hits]
      BY <1>4 DEF Retain!SearchFolder
    <2>2. \A m \in hits : m \in Mail /\ m \in Expired /\ BoxOf[m] = prune.box
      BY DEF Retain!In
    <2> HIDE DEF hits
    <2>3. HoldTypes' /\ MailTypes'
      BY <2>1 DEF MailTypes
    <2>4. CASE prune' = [prune EXCEPT !.left = prune.left \ {f}]
      BY <2>1, <2>3, <2>4 DEF PruneShape, HoldsSeen, FoundIsDue, WorkerReading
    <2>5. CASE prune' = [prune EXCEPT !.pc = "delete", !.at = f, !.found = hits]
      BY <2>1, <2>2, <2>3, <2>5 DEF PruneShape, HoldsSeen, FoundIsDue, WorkerReading
    <2> QED BY <2>1, <2>4, <2>5
  <1>5. CASE Retain!DeleteFound
    <2>1. MailTypes'
      BY <1>5 DEF Retain!DeleteFound, MailTypes
    <2> QED BY <1>5, <2>1 DEF Retain!DeleteFound, PruneShape, HoldsSeen, FoundIsDue, WorkerReading
  <1>6. CASE Retain!EndBox
    BY <1>6 DEF Retain!EndBox, PruneShape, MailTypes, HoldsSeen, FoundIsDue, WorkerReading
  <1>7. CASE Retain!EndRun \/ Retain!WorkerCrash
    BY <1>7 DEF Retain!EndRun, Retain!WorkerCrash, Retain!Idle, PruneShape, MailTypes, HoldsSeen, FoundIsDue, WorkerReading
  <1> QED BY <1>1, <1>2, <1>3, <1>4, <1>5, <1>6, <1>7 DEF Retain!WorkerStep

\* So does everyone else.
LEMMA PruneStep ==
  ASSUME Retain!MailAssumption, PrunerInv, [Retain!Next]_(Retain!vars)
  PROVE  PrunerInv'
  <1>1. ASSUME UNCHANGED <<holds, young, asking, loc, prune>> PROVE PrunerInv'
    BY <1>1 DEF PrunerInv, PruneShape, HoldTypes, MailTypes, HoldsSeen, FoundIsDue
  <1>2. ASSUME NEW m \in Mail, NEW f \in Retain!Folders \cup {Retain!Gone}, Retain!OwnerMoves(m, f) PROVE PrunerInv'
    BY <1>2 DEF Retain!OwnerMoves, PrunerInv, PruneShape, HoldTypes, MailTypes, HoldsSeen, FoundIsDue
  <1>3. CASE Retain!PolicyStep
    BY <1>1, <1>3 DEF Retain!PolicyStep, Retain!GetPolicy, Retain!UpdatePolicy
  <1>4. ASSUME NEW e \in Exports, Retain!ExportStep(e) PROVE PrunerInv'
    BY <1>1, <1>4 DEF Retain!ExportStep, Retain!StartExport, Retain!PutArchive, Retain!FinishExport, Retain!FailExport, Retain!FetchFolder, Retain!SkipFolder
  <1>5. ASSUME NEW e \in Exports, NEW b \in Boxes, Retain!RequestExport(e, b) PROVE PrunerInv'
    BY <1>1, <1>5 DEF Retain!RequestExport
  <1>6. CASE Retain!ApiCrash
    BY <1>1, <1>6 DEF Retain!ApiCrash
  <1>7. CASE UNCHANGED Retain!vars
    BY <1>1, <1>7 DEF Retain!vars
  <1> QED BY <1>2, <1>3, <1>4, <1>5, <1>6, <1>7, HoldsStep, WorkerKeeps DEF Retain!Next

\* An export nobody works on, while others are stored.
LEMMA ExportKept ==
  ASSUME NEW e, ExportShape(export[e]), Collected(e),
         export'[e] = export[e], loc' = loc, stored \subseteq stored'
  PROVE  ExportShape(export'[e]) /\ Collected(e)'
  BY DEF Collected

\* Mail that moves leaves the guarantee of the exports that run.
LEMMA ExportTouched ==
  ASSUME NEW e, NEW ms, ExportShape(export[e]), Collected(e),
         export'[e] = [export[e] EXCEPT !.touched = export[e].touched \cup ms],
         \A m \in Mail \ ms : loc'[m] = loc[m], stored' = stored
  PROVE  ExportShape(export'[e]) /\ Collected(e)'
  <1> DEFINE x == export[e]
             y == export'[e]
  <1>1. y = [status |-> x.status, live |-> x.live, box |-> x.box, left |-> x.left, got |-> x.got,
             start |-> x.start, skipped |-> x.skipped, touched |-> x.touched \cup ms]
    BY DEF ExportShape
  <1>2. ExportShape(y) /\ y.status = x.status /\ y.box = x.box /\ y.left = x.left /\ y.got = x.got
        /\ y.start = x.start /\ y.skipped = x.skipped /\ y.touched = x.touched \cup ms
    BY <1>1 DEF ExportShape
  <1>3. \A m \in y.start \ y.touched : m \in x.start \ x.touched /\ (x.start \subseteq Mail => loc'[m] = loc[m])
    BY <1>2
  <1> HIDE DEF y
  <1>4. Collected(e)' <=> /\ y.got \in [Mail -> Nat] /\ y.start \subseteq Mail
                          /\ y.status = "pending" => \A m \in Mail : y.got[m] = 0
                          /\ \A m \in Mail : y.got[m] > 0 => BoxOf[m] = y.box
                          /\ y.status = "running" => \A m \in y.start \ y.touched :
                               /\ loc'[m] # Retain!Gone /\ BoxOf[m] = y.box
                               /\ loc'[m] \in y.left => y.got[m] = 0
                               /\ loc'[m] \notin y.left /\ ~y.skipped => y.got[m] = 1
                          /\ y.status = "done" => e \in stored'
                          /\ y.status = "done" /\ ~y.skipped => \A m \in y.start \ y.touched : y.got[m] = 1
    BY DEF Collected, y
  <1> QED BY <1>2, <1>3, <1>4 DEF Collected, y

\* The export at work.
LEMMA ExportWorks ==
  ASSUME Retain!MailAssumption, MailTypes, NEW e \in Exports, ExportTable, ExportShape(export[e]), Collected(e),
         Retain!ExportStep(e) \/ \E b \in Boxes : Retain!RequestExport(e, b)
  PROVE  ExportShape(export'[e]) /\ Collected(e)'
  <1> DEFINE x == export[e]
  <1>0. x.got \in [Mail -> Nat] /\ x.start \subseteq Mail
    BY DEF Collected
  <1>t. ASSUME NEW r, export' = [export EXCEPT ![e] = r] PROVE export'[e] = r
    BY <1>t DEF ExportTable
  <1>1. CASE Retain!PutArchive(e)
    BY <1>1, ExportKept DEF Retain!PutArchive
  <1>2. ASSUME NEW b \in Boxes, Retain!RequestExport(e, b) PROVE ExportShape(export'[e]) /\ Collected(e)'
    <2>1. PICK r : r = [Retain!NoExport EXCEPT !.status = "pending", !.live = TRUE, !.box = b]
      OBVIOUS
    <2>2. ExportShape(r) /\ r.status = "pending" /\ r.got = [m \in Mail |-> 0] /\ r.start = {}
      BY <2>1 DEF Retain!NoExport, ExportShape
    <2>3. export'[e] = r
      BY <1>2, <1>t, <2>1 DEF Retain!RequestExport
    <2> QED BY <2>2, <2>3 DEF Collected
  <1>3. CASE Retain!StartExport(e)
    <2>1. PICK r : r = [x EXCEPT !.status = "running", !.left = Retain!Folders, !.start = Retain!In(x.box), !.touched = {}]
      OBVIOUS
    <2>2. /\ ExportShape(r) /\ r.status = "running" /\ r.got = x.got /\ r.start = Retain!In(x.box)
          /\ r.left = Retain!Folders /\ r.box = x.box
      BY <2>1 DEF ExportShape
    <2>3. export'[e] = r /\ loc' = loc /\ stored' = stored /\ x.status = "pending"
      BY <1>3, <1>t, <2>1 DEF Retain!StartExport
    <2>4. \A m \in Mail : x.got[m] = 0
      BY <2>3 DEF Collected
    <2>5. r.start \subseteq Mail /\ \A m \in r.start : loc[m] # Retain!Gone /\ BoxOf[m] = r.box /\ loc[m] \in r.left
      BY <2>2 DEF Retain!In, MailTypes
    <2> QED BY <1>0, <2>2, <2>3, <2>4, <2>5 DEF Collected
  <1>4. ASSUME NEW f \in Retain!Folders, Retain!FetchFolder(e, f) PROVE ExportShape(export'[e]) /\ Collected(e)'
    <2>1. PICK r : r = [x EXCEPT !.left = x.left \ {f}, !.got = Retain!Appended(x.got, {m \in Retain!In(x.box) : loc[m] = f})]
      OBVIOUS
    <2>2. /\ ExportShape(r) /\ r.status = x.status /\ r.start = x.start /\ r.touched = x.touched
          /\ r.left = x.left \ {f} /\ r.box = x.box /\ r.skipped = x.skipped
          /\ r.got = Retain!Appended(x.got, {m \in Retain!In(x.box) : loc[m] = f})
      BY <2>1 DEF ExportShape
    <2>3. export'[e] = r /\ loc' = loc /\ stored' = stored /\ x.status = "running" /\ f \in x.left
      BY <1>4, <1>t, <2>1 DEF Retain!FetchFolder
    <2>4. r.got \in [Mail -> Nat]
      BY <1>0, <2>2 DEF Retain!Appended
    <2>5. \A m \in Mail : r.got[m] = IF BoxOf[m] = x.box /\ loc[m] # Retain!Gone /\ loc[m] = f THEN x.got[m] + 1 ELSE x.got[m]
      BY <1>0, <2>2 DEF Retain!Appended, Retain!In
    <2>6. \A m \in Mail : r.got[m] > 0 => BoxOf[m] = x.box
      BY <2>5 DEF Collected
    <2>7. ASSUME NEW m \in x.start \ x.touched
          PROVE  /\ loc[m] # Retain!Gone /\ BoxOf[m] = x.box
                 /\ loc[m] \in r.left => r.got[m] = 0
                 /\ loc[m] \notin r.left /\ ~x.skipped => r.got[m] = 1
      <3>1. /\ m \in Mail /\ loc[m] # Retain!Gone /\ BoxOf[m] = x.box
            /\ loc[m] \in x.left => x.got[m] = 0
            /\ loc[m] \notin x.left /\ ~x.skipped => x.got[m] = 1
        BY <1>0, <2>3 DEF Collected
      <3> QED BY <2>2, <2>3, <2>5, <3>1
    <2> QED BY <1>0, <2>2, <2>3, <2>4, <2>6, <2>7 DEF Collected
  <1>5. ASSUME NEW f \in Retain!Folders, Retain!SkipFolder(e, f) PROVE ExportShape(export'[e]) /\ Collected(e)'
    <2>1. PICK r : r = [x EXCEPT !.left = x.left \ {f}, !.skipped = TRUE]
      OBVIOUS
    <2>2. /\ ExportShape(r) /\ r.status = x.status /\ r.start = x.start /\ r.touched = x.touched
          /\ r.left = x.left \ {f} /\ r.box = x.box /\ r.skipped /\ r.got = x.got
      BY <2>1 DEF ExportShape
    <2>3. export'[e] = r /\ loc' = loc /\ stored' = stored /\ x.status = "running"
      BY <1>5, <1>t, <2>1 DEF Retain!SkipFolder
    <2> QED BY <2>2, <2>3 DEF Collected
  <1>6. CASE Retain!FinishExport(e)
    <2>1. PICK r : r = [x EXCEPT !.status = "done", !.live = FALSE]
      OBVIOUS
    <2>2. /\ ExportShape(r) /\ r.status = "done" /\ r.start = x.start /\ r.touched = x.touched
          /\ r.box = x.box /\ r.skipped = x.skipped /\ r.got = x.got
      BY <2>1 DEF ExportShape
    <2>3. /\ export'[e] = r /\ loc' = loc /\ stored' = stored
          /\ x.status = "running" /\ x.left = {} /\ e \in stored
      BY <1>6, <1>t, <2>1 DEF Retain!FinishExport, Retain!Ready
    <2> QED BY <2>2, <2>3 DEF Collected
  <1>7. CASE Retain!FailExport(e)
    <2>1. PICK r : r = [x EXCEPT !.status = "error", !.live = FALSE]
      OBVIOUS
    <2>2. ExportShape(r) /\ r.status = "error" /\ r.start = x.start /\ r.box = x.box /\ r.got = x.got
      BY <2>1 DEF ExportShape
    <2>3. export'[e] = r /\ loc' = loc /\ stored' = stored
      BY <1>7, <1>t, <2>1 DEF Retain!FailExport
    <2> QED BY <2>2, <2>3 DEF Collected
  <1> QED BY <1>1, <1>2, <1>3, <1>4, <1>5, <1>6, <1>7 DEF Retain!ExportStep

LEMMA ExportsStep ==
  ASSUME Retain!MailAssumption, PrunerInv, ExportTable, ExportInv, [Retain!Next]_(Retain!vars)
  PROVE  ExportTable' /\ ExportInv'
  <1>0. MailTypes /\ FoundIsDue
    BY DEF PrunerInv
  <1>1. ASSUME export' = export, loc' = loc, stored \subseteq stored' PROVE ExportTable' /\ ExportInv'
    BY <1>1, ExportKept DEF ExportInv, ExportTable
  <1>2. ASSUME NEW ms, export' = Retain!Touch(ms), \A m \in Mail \ ms : loc'[m] = loc[m], stored' = stored
        PROVE  ExportTable' /\ ExportInv'
    <2>1. ExportTable'
      BY <1>2 DEF ExportTable, Retain!Touch
    <2>2. ASSUME NEW e \in Exports PROVE ExportShape(export'[e]) /\ Collected(e)'
      <3>1. export'[e] = [export[e] EXCEPT !.touched = export[e].touched \cup ms]
        BY <1>2 DEF Retain!Touch
      <3> QED BY <1>2, <3>1, ExportTouched DEF ExportInv
    <2> QED BY <2>1, <2>2 DEF ExportInv
  <1>3. ASSUME NEW e \in Exports, Retain!ExportStep(e) \/ \E b \in Boxes : Retain!RequestExport(e, b)
        PROVE  ExportTable' /\ ExportInv'
    <2>1. ExportShape(export'[e]) /\ Collected(e)'
      BY <1>0, <1>3, ExportWorks DEF ExportInv
    <2>2. loc' = loc /\ stored \subseteq stored' /\ ExportTable' /\ \A d \in Exports \ {e} : export'[d] = export[d]
      BY <1>3 DEF Retain!ExportStep, Retain!RequestExport, Retain!StartExport, Retain!PutArchive, Retain!FinishExport, Retain!FailExport, Retain!FetchFolder,
                  Retain!SkipFolder, ExportTable
    <2>3. ASSUME NEW d \in Exports \ {e} PROVE ExportShape(export'[d]) /\ Collected(d)'
      BY <2>2, ExportKept DEF ExportInv
    <2> QED BY <2>1, <2>2, <2>3 DEF ExportInv
  <1>4. CASE Retain!ApiCrash
    <2>1. loc' = loc /\ stored' = stored /\ ExportTable'
      BY <1>4 DEF Retain!ApiCrash, ExportTable
    <2>2. ASSUME NEW e \in Exports PROVE ExportShape(export'[e]) /\ Collected(e)'
      <3>1. PICK x : x = export[e]
        OBVIOUS
      <3>2. PICK r : r = [x EXCEPT !.live = FALSE]
        OBVIOUS
      <3>3. export'[e] = r
        BY <1>4, <3>1, <3>2 DEF Retain!ApiCrash
      <3>4. ExportShape(x) /\ Collected(e)
        BY <3>1 DEF ExportInv
      <3>5. /\ ExportShape(r) /\ r.status = x.status /\ r.start = x.start /\ r.touched = x.touched
            /\ r.left = x.left /\ r.box = x.box /\ r.skipped = x.skipped /\ r.got = x.got
        BY <3>2, <3>4 DEF ExportShape
      <3> QED BY <2>1, <3>1, <3>3, <3>4, <3>5 DEF Collected
    <2> QED BY <2>1, <2>2 DEF ExportInv
  <1>5. CASE Retain!DeleteFound
    BY <1>2, <1>5 DEF Retain!DeleteFound
  <1>6. ASSUME NEW m \in Mail, NEW f \in Retain!Folders \cup {Retain!Gone}, Retain!OwnerMoves(m, f) PROVE ExportTable' /\ ExportInv'
    BY <1>0, <1>2, <1>6 DEF Retain!OwnerMoves, MailTypes
  <1>7. CASE Retain!PolicyStep \/ Retain!HoldStep
    BY <1>1, <1>7 DEF Retain!PolicyStep, Retain!GetPolicy, Retain!UpdatePolicy, Retain!HoldStep, Retain!HoldCheck, Retain!HoldInsert, Retain!Release
  <1>8. CASE (Retain!WorkerStep /\ ~Retain!DeleteFound) \/ Retain!WorkerCrash
    BY <1>1, <1>8 DEF Retain!WorkerStep, Retain!WorkerCrash, Retain!RunDuePruning, Retain!PruneOrg, Retain!EndBox, Retain!EndRun, Retain!NextBox, Retain!SearchFolder
  <1>9. CASE UNCHANGED Retain!vars
    BY <1>1, <1>9 DEF Retain!vars
  <1> QED BY <1>3, <1>4, <1>5, <1>6, <1>7, <1>8, <1>9 DEF Retain!Next

LEMMA RetentionStep ==
  ASSUME Retain!MailAssumption, RetentionInv, [Retain!Next]_(Retain!vars)
  PROVE  RetentionInv'
  BY PruneStep, ExportsStep DEF RetentionInv

LEMMA ExportsDone ==
  ASSUME RetentionInv
  PROVE  Retain!ExportSound
  BY DEF RetentionInv, ExportInv, Collected, Retain!ExportSound

\* What the worker removes is what it found, in a mailbox it had read to be free of holds.
LEMMA FoundIsFree ==
  ASSUME Retain!MailAssumption, RetentionInv, NEW m \in prune.found
  PROVE  m \in Expired /\ ~Retain!HeldSinceRead(BoxOf[m])
  <1>1. /\ m \in Mail /\ m \in Expired /\ BoxOf[m] = prune.box
        /\ prune.pc = "delete" /\ prune.box \in Boxes /\ prune.box \notin prune.held
    BY DEF RetentionInv, PrunerInv, FoundIsDue
  <1>2. (holds[Retain!OrgWide] = 0 \/ Retain!OrgWide \in young) /\ (holds[prune.box] = 0 \/ prune.box \in young)
    BY <1>1 DEF RetentionInv, PrunerInv, HoldsSeen, WorkerReading
  <1> QED BY <1>1, <1>2 DEF Retain!HeldSinceRead, RetentionInv, PrunerInv, HoldTypes, Retain!Scopes

LEMMA HoldsRespected ==
  ASSUME Retain!MailAssumption, RetentionInv
  PROVE  Retain!HoldsProtect
  BY FoundIsFree DEF Retain!HoldsProtect

\* buildMbox and run, for any number of exports, mailboxes and messages: a finished export has its
\* archive, nothing of another mailbox, and every undisturbed message exactly once, unless a folder
\* was passed over.
THEOREM ExportsComplete ==
  ASSUME Retain!MailAssumption
  PROVE  Retain!Spec => []Retain!ExportSound
  <1>1. Retain!Init => RetentionInv
    BY RetentionInit
  <1>2. RetentionInv /\ [Retain!Next]_(Retain!vars) => RetentionInv'
    BY RetentionStep
  <1>3. RetentionInv => Retain!ExportSound
    BY ExportsDone
  <1> QED BY <1>1, <1>2, <1>3, PTL DEF Retain!Spec

\* pruneOrg and pruneMailbox, for any number of mailboxes, holds and administrators: no step removes
\* found mail that has not expired or whose mailbox is under a hold older than the run's read.
THEOREM HoldsAlwaysProtect ==
  ASSUME Retain!MailAssumption
  PROVE  Retain!Spec => [][Retain!HoldsProtect]_(Retain!vars)
  <1>1. Retain!Init => RetentionInv
    BY RetentionInit
  <1>2. RetentionInv /\ [Retain!Next]_(Retain!vars) => RetentionInv'
    BY RetentionStep
  <1>3. RetentionInv => Retain!HoldsProtect
    BY HoldsRespected
  <1> QED BY <1>1, <1>2, <1>3, PTL DEF Retain!Spec

--------------------------------------------------------------------------------
(* Backups. *)

\* A schedule row that is not there yet has the defaults, here and in every dump.
ScheduleDefaults == [f \in Backup!FieldSet |-> 1]
Schedule(s) ==
  /\ s = [row |-> s.row, next |-> s.next, val |-> s.val]
  /\ s.val = [f \in Backup!FieldSet |-> s.val[f]]
  /\ ~s.row => s.val = ScheduleDefaults
ScheduleInv ==
  /\ Schedule(sched) /\ sched.val = wish
  /\ \A i \in Runs : objects[i].ok => Schedule(objects[i].sched)
  /\ \A w \in Backup!Engines : engine[w].pc \in {"put", "restore"} => Schedule(engine[w].dump.sched)

\* The objects and what the engines do.
BackupTables ==
  /\ engine = [w \in Backup!Engines |-> engine[w]] /\ objects = [i \in Runs |-> objects[i]]
  /\ \A w \in Backup!Engines : engine[w].pc \in {"restore", "restore2"} =>
       engine[w] = [pc |-> engine[w].pc, id |-> engine[w].id, dump |-> engine[w].dump]
  /\ \A w \in Backup!Engines : engine[w].pc = "stream" => engine[w].id \in Runs
  /\ engine["admin"].pc = "restore2" => rewritten

\* What an engine is doing agrees with the row it works on.
EngineBusy == {"dump", "put", "mark"}
RunnersInv ==
  /\ runs = [i \in Runs |-> runs[i]] /\ \A i \in Runs : runs[i].st = "none" => runs[i] = Backup!NoRun
  /\ \A w \in Backup!Engines : engine[w].pc \in EngineBusy => engine[w].id \in Runs /\ runs[engine[w].id].st = "running"
  /\ \A w, x \in Backup!Engines : engine[w].pc \in EngineBusy /\ engine[x].pc \in EngineBusy /\ engine[w].id = engine[x].id => w = x
  /\ \A w \in Backup!Engines : engine[w].pc = "put" => engine[w].dump.ok /\ engine[w].dump.runs[engine[w].id].st = "running"
  /\ \A w \in Backup!Engines : engine[w].pc = "mark" => objects[engine[w].id].ok

\* The worker prunes rows whose run has ended.
RunEnded(i) == i \in Runs /\ runs[i].st \notin {"none", "running"}
PruningInv ==
  /\ engine["worker"].pc \in {"prune", "delete"} => \A i \in engine["worker"].rows : RunEnded(i)
  /\ engine["worker"].pc = "delete" => RunEnded(engine["worker"].id) /\ engine["worker"].id \notin engine["worker"].rows

\* A row that says completed has its object, one that says running its runner, and a dump shows itself running.
RowsInv ==
  /\ \A i \in Runs :
       /\ runs[i].st = "completed" => objects[i].ok \/ Backup!BeingPruned(i) \/ i \in abandoned
       /\ runs[i].st = "running" => Backup!Running(i) \/ i \in abandoned
  /\ \A i \in Runs : objects[i].ok => objects[i].runs[i].st = "running"

\* The inductive invariant.  A restore rewrites the rows under the engines.
BackupsInv == BackupTables /\ ScheduleInv /\ (~rewritten => RunnersInv /\ PruningInv /\ RowsInv)

--------------------------------------------------------------------------------
\* The columns.
LEMMA ScheduleColumns ==
  /\ Len(Backup!Fields) = 5 /\ DOMAIN Backup!Fields = 1 .. 5
  /\ Backup!Fields[1] = "destination" /\ Backup!Fields[2] = "kinds" /\ Backup!Fields[3] = "frequency"
  /\ Backup!Fields[4] = "retention" /\ Backup!Fields[5] = "enabled"
  /\ Backup!FieldSet = {"destination", "kinds", "frequency", "retention", "enabled"}
  <1>1. Len(Backup!Fields) = 5 /\ DOMAIN Backup!Fields = 1 .. 5
    BY DEF Backup!Fields
  <1>2. /\ Backup!Fields[1] = "destination" /\ Backup!Fields[2] = "kinds" /\ Backup!Fields[3] = "frequency"
        /\ Backup!Fields[4] = "retention" /\ Backup!Fields[5] = "enabled"
    BY DEF Backup!Fields
  <1>3. 1 .. 5 = {1, 2, 3, 4, 5}
    OBVIOUS
  <1>4. Backup!FieldSet = {"destination", "kinds", "frequency", "retention", "enabled"}
    BY <1>1, <1>2, <1>3 DEF Backup!FieldSet
  <1> QED BY <1>1, <1>2, <1>4

\* The instance counts as this module does.
LEMMA SameCount ==
  ASSUME NEW S
  PROVE  Backup!Cardinality(S) = Cardinality(S)
  BY DEF Backup!Cardinality, Cardinality

\* The place of a named column in the SET list is one of the five.
LEMMA ColumnPlaces ==
  ASSUME NEW named \in SUBSET Backup!FieldSet, NEW f \in named
  PROVE  /\ IsFiniteSet(Backup!UpTo(named, f)) /\ Cardinality(Backup!UpTo(named, f)) \in 1 .. 5
         /\ Backup!Bound(named, f) \in Backup!FieldSet
  <1>1. PICK k \in 1 .. 5 : Backup!Fields[k] = f
    BY ScheduleColumns DEF Backup!FieldSet
  <1>2. Backup!UpTo(named, f) \subseteq 1 .. 5 /\ k \in Backup!UpTo(named, f)
    BY <1>1, ScheduleColumns DEF Backup!UpTo
  <1>3. IsFiniteSet(1 .. 5) /\ Cardinality(1 .. 5) = 5
    <2>1. PICK a \in Int, b \in Int : a = 1 /\ b = 5
      OBVIOUS
    <2>2. IsFiniteSet(a .. b) /\ Cardinality(a .. b) = IF a > b THEN 0 ELSE b - a + 1
      BY ONLY a \in Int, b \in Int, FS_Interval
    <2> QED BY <2>1, <2>2
  <1>4. IsFiniteSet(Backup!UpTo(named, f)) /\ Cardinality(Backup!UpTo(named, f)) <= 5
    BY <1>2, <1>3, FS_Subset
  <1>5. Cardinality(Backup!UpTo(named, f)) \in Nat /\ Cardinality(Backup!UpTo(named, f)) # 0
    BY <1>2, <1>4, FS_CardinalityType, FS_EmptySet
  <1>6. Cardinality(Backup!UpTo(named, f)) \in 1 .. 5
    BY <1>4, <1>5
  <1> QED BY <1>4, <1>6, ScheduleColumns, SameCount DEF Backup!Bound, Backup!FieldSet

\* An update that PostgreSQL accepts on a row that is there takes every named column's own value: of two columns of
\* one type, the first is the first of the list, and the second is bound to it only when it is not named.
LEMMA BoundToItself ==
  ASSUME NEW named \in SUBSET Backup!FieldSet, sched.row, Backup!Accepted(named), NEW f \in named
  PROVE  Backup!Bound(named, f) = f
  <1> DEFINE g == Backup!Bound(named, f)
  <1>1. g \in Backup!FieldSet /\ f \in Backup!FieldSet /\ g \in named /\ Backup!ColumnType[g] = Backup!ColumnType[f]
    BY ColumnPlaces DEF Backup!Accepted
  <1>2. g = f \/ (g = "destination" /\ f = "frequency") \/ (g = "frequency" /\ f = "destination")
    BY <1>1, ScheduleColumns DEF Backup!ColumnType
  <1>3. PICK c \in {1, 2, 3, 4, 5} : c = Cardinality(Backup!UpTo(named, f)) /\ g = Backup!Fields[c]
    BY ColumnPlaces, SameCount DEF Backup!Bound
  <1>4. ASSUME g = "destination", f = "frequency" PROVE FALSE
    <2>1. 1 \in Backup!UpTo(named, f) /\ 3 \in Backup!UpTo(named, f)
      BY <1>1, <1>4, ScheduleColumns DEF Backup!UpTo
    <2>2. c = 1
      BY <1>3, <1>4, ScheduleColumns
    <2>3. IsFiniteSet({1}) /\ Cardinality({1}) = 1
      BY FS_Singleton
    <2>4. IsFiniteSet({1} \cup {3}) /\ Cardinality({1} \cup {3}) = 2
      <3>1. IsFiniteSet({1} \cup {3}) /\ Cardinality({1} \cup {3}) = IF 3 \in {1} THEN Cardinality({1}) ELSE Cardinality({1}) + 1
        BY <2>3, FS_AddElement, Zenon
      <3> QED BY <2>3, <3>1
    <2>5. {1} \cup {3} \subseteq Backup!UpTo(named, f)
      BY <2>1
    <2>6. IsFiniteSet(Backup!UpTo(named, f))
      BY ColumnPlaces
    <2>7. Cardinality({1} \cup {3}) <= Cardinality(Backup!UpTo(named, f))
      BY <2>5, <2>6, FS_Subset
    <2> QED BY <1>3, <2>2, <2>4, <2>7
  <1>5. ASSUME g = "frequency", f = "destination" PROVE FALSE
    <2>1. Backup!UpTo(named, f) \subseteq {1}
      BY <1>5, ScheduleColumns DEF Backup!UpTo
    <2>2. c <= 1
      <3>1. IsFiniteSet({1}) /\ Cardinality({1}) = 1
        BY FS_Singleton
      <3>2. Cardinality(Backup!UpTo(named, f)) <= Cardinality({1})
        BY <2>1, <3>1, FS_Subset
      <3> QED BY <1>3, <3>1, <3>2
    <2>3. c = 3
      BY <1>3, <1>5, ScheduleColumns
    <2> QED BY <2>2, <2>3
  <1> QED BY <1>2, <1>4, <1>5

LEMMA ScheduleKeeps ==
  ASSUME BackupsInv,
         \/ Backup!GetSchedule
         \/ \E named \in SUBSET Backup!FieldSet, v \in Backup!Requests : Backup!UpdateSchedule(named, v)
  PROVE  BackupsInv'
  <1>1. UNCHANGED <<runs, objects, engine, abandoned, rewritten>>
    BY DEF Backup!GetSchedule, Backup!UpdateSchedule
  <1>2. BackupTables' /\ (~rewritten' => RunnersInv' /\ PruningInv' /\ RowsInv')
    BY <1>1 DEF BackupsInv, BackupTables, RunnersInv, PruningInv, RowsInv, RunEnded, Backup!BeingPruned, Backup!Running
  <1>3. Schedule(sched)' /\ sched'.val = wish'
    <2>0. Schedule(sched) /\ sched.val = wish
      BY DEF BackupsInv, ScheduleInv
    <2>1. CASE Backup!GetSchedule
      BY <2>0, <2>1 DEF Backup!GetSchedule, Schedule, Backup!DefaultSched, ScheduleDefaults
    <2>2. ASSUME NEW named \in SUBSET Backup!FieldSet, NEW v \in Backup!Requests, Backup!UpdateSchedule(named, v)
          PROVE  Schedule(sched)' /\ sched'.val = wish'
      <3>1. PICK new : new = [f \in Backup!FieldSet |-> IF f \in named THEN v[IF sched.row THEN Backup!Bound(named, f) ELSE f] ELSE sched.val[f]]
        OBVIOUS
      <3>2. sched' = [sched EXCEPT !.row = TRUE, !.val = new]
        BY <2>2, <3>1 DEF Backup!UpdateSchedule
      <3>3. sched' = [row |-> TRUE, next |-> sched.next, val |-> new]
        BY <2>0, <3>2 DEF Schedule
      <3>4. \A f \in named : sched.row => Backup!Bound(named, f) = f
        BY <2>2, BoundToItself DEF Backup!UpdateSchedule
      <3>5. new = [f \in Backup!FieldSet |-> IF f \in named THEN v[f] ELSE wish[f]]
        BY <2>0, <3>1, <3>4
      <3>6. wish' = new
        BY <2>2, <3>5 DEF Backup!UpdateSchedule
      <3>7. new = [f \in Backup!FieldSet |-> new[f]]
        BY <3>1
      <3> QED BY <3>3, <3>6, <3>7 DEF Schedule
    <2> QED BY <2>1, <2>2
  <1>4. ScheduleInv'
    BY <1>1, <1>3 DEF BackupsInv, ScheduleInv, Schedule, ScheduleDefaults
  <1> QED BY <1>2, <1>4 DEF BackupsInv

--------------------------------------------------------------------------------
\* One engine moves on to e, the other stays.
LEMMA EngineMoves ==
  ASSUME BackupTables, NEW w \in Backup!Engines, NEW e, engine' = [engine EXCEPT ![w] = e]
  PROVE  /\ engine' = [x \in Backup!Engines |-> engine'[x]] /\ engine'[w] = e
         /\ \A x \in Backup!Engines : x # w => engine'[x] = engine[x]
  BY DEF BackupTables

LEMMA BackupTablesFrame ==
  ASSUME BackupTables, objects' = [i \in Runs |-> objects'[i]], rewritten' = rewritten,
         NEW w \in Backup!Engines, NEW e, engine' = [engine EXCEPT ![w] = e], e.pc # "restore2",
         e.pc = "stream" => e.id \in Runs, e.pc = "restore" => e = [pc |-> e.pc, id |-> e.id, dump |-> e.dump]
  PROVE  BackupTables'
  <1>1. /\ engine' = [x \in Backup!Engines |-> engine'[x]] /\ engine'[w] = e
        /\ \A x \in Backup!Engines : x # w => engine'[x] = engine[x]
    BY EngineMoves
  <1>2. ASSUME NEW x \in Backup!Engines, engine'[x].pc \in {"restore", "restore2"}
        PROVE  engine'[x] = [pc |-> engine'[x].pc, id |-> engine'[x].id, dump |-> engine'[x].dump]
    <2>1. CASE x = w
      BY <1>1, <1>2, <2>1
    <2>2. CASE x # w
      BY <1>1, <1>2, <2>2 DEF BackupTables
    <2> QED BY <2>1, <2>2
  <1>3. /\ engine'["admin"].pc = "restore2" => rewritten'
        /\ \A x \in Backup!Engines : engine'[x].pc = "stream" => engine'[x].id \in Runs
    BY <1>1 DEF BackupTables, Backup!Engines
  <1> QED BY <1>1, <1>2, <1>3 DEF BackupTables

LEMMA ScheduleFrame ==
  ASSUME BackupTables, ScheduleInv, Schedule(sched'), sched'.val = wish', NEW w \in Backup!Engines, NEW e, engine' = [engine EXCEPT ![w] = e],
         e.pc \in {"put", "restore"} => Schedule(e.dump.sched),
         \A i \in Runs : objects'[i].ok => objects'[i] = objects[i] \/ Schedule(objects'[i].sched)
  PROVE  ScheduleInv'
  <1>1. engine'[w] = e /\ \A x \in Backup!Engines : x # w => engine'[x] = engine[x]
    BY EngineMoves
  <1>2. \A s : Schedule(s) => Schedule(s)'
    BY DEF Schedule, ScheduleDefaults
  <1>3. \A i \in Runs : objects'[i].ok => Schedule(objects'[i].sched)
    BY DEF ScheduleInv
  <1>4. \A x \in Backup!Engines : engine'[x].pc \in {"put", "restore"} => Schedule(engine'[x].dump.sched)
    BY <1>1 DEF ScheduleInv
  <1> QED BY <1>3, <1>4 DEF ScheduleInv, Schedule, ScheduleDefaults

\* Steps that change only what one engine is doing, and not to a run of its own.
LEMMA EngineRests ==
  ASSUME BackupsInv, Schedule(sched'), sched'.val = wish', UNCHANGED <<runs, objects, rewritten>>,
         abandoned \subseteq abandoned',
         NEW w \in Backup!Engines, NEW e, engine' = [engine EXCEPT ![w] = e],
         e.pc \notin EngineBusy \cup {"delete", "restore2"}, e.pc = "stream" => e.id \in Runs,
         e.pc = "restore" => e = [pc |-> e.pc, id |-> e.id, dump |-> e.dump] /\ Schedule(e.dump.sched),
         e.pc = "prune" => \A i \in e.rows : ~rewritten => RunEnded(i),
         engine[w].pc \in EngineBusy \cup {"delete"} => engine[w].id \in abandoned'
  PROVE  BackupsInv'
  <1>1. engine'[w] = e /\ \A x \in Backup!Engines : x # w => engine'[x] = engine[x]
    BY EngineMoves DEF BackupsInv
  <1>2. BackupTables'
    BY BackupTablesFrame DEF BackupsInv, BackupTables
  <1>3. ScheduleInv'
    BY ScheduleFrame DEF BackupsInv, EngineBusy
  <1>4. ASSUME ~rewritten PROVE RunnersInv' /\ PruningInv' /\ RowsInv'
    <2>0. RunnersInv /\ PruningInv /\ RowsInv /\ "worker" \in Backup!Engines
      BY <1>4 DEF BackupsInv, Backup!Engines
    <2>1. RunnersInv'
      BY <1>1, <2>0 DEF RunnersInv, EngineBusy
    <2>2. PruningInv'
      BY <1>1, <1>4, <2>0 DEF PruningInv, RunEnded
    <2>3. RowsInv'
      <3>1. \A i : Backup!Running(i) => Backup!Running(i)' \/ i \in abandoned'
        BY <1>1 DEF Backup!Running, EngineBusy
      <3>2. \A i : Backup!BeingPruned(i) => Backup!BeingPruned(i)' \/ i \in abandoned'
        BY <1>1, <2>0 DEF Backup!BeingPruned
      <3> QED BY <2>0, <3>1, <3>2 DEF RowsInv
    <2> QED BY <2>1, <2>2, <2>3
  <1> QED BY <1>2, <1>3, <1>4 DEF BackupsInv

LEMMA InsertKeeps ==
  ASSUME BackupsInv, NEW w \in Backup!Engines, NEW i \in Runs, Backup!InsertRun(w, i)
  PROVE  BackupsInv'
  <1>0. BackupTables /\ ScheduleInv
    BY DEF BackupsInv
  <1>1. PICK e : e = [pc |-> "dump", id |-> i]
    OBVIOUS
  <1>2. e.pc = "dump" /\ e.id = i /\ engine' = [engine EXCEPT ![w] = e]
    BY <1>1 DEF Backup!InsertRun
  <1>3. PICK row : row = [st |-> "running", ref |-> FALSE, born |-> day]
    OBVIOUS
  <1>4. row.st = "running" /\ runs' = [runs EXCEPT ![i] = row]
    BY <1>3 DEF Backup!InsertRun
  <1>5. UNCHANGED <<sched, objects, wish, abandoned, rewritten>> /\ runs[i] = Backup!NoRun /\ Backup!NoRun.st = "none"
    BY DEF Backup!InsertRun, Backup!Fresh, Backup!NoRun
  <1>6. engine'[w] = e /\ \A x \in Backup!Engines : x # w => engine'[x] = engine[x]
    BY <1>0, <1>2, EngineMoves
  <1>7. BackupTables' /\ ScheduleInv'
    BY <1>0, <1>2, <1>5, BackupTablesFrame, ScheduleFrame DEF BackupTables, ScheduleInv
  <1>8. ASSUME ~rewritten PROVE RunnersInv' /\ PruningInv' /\ RowsInv'
    <2>0. RunnersInv /\ PruningInv /\ RowsInv /\ "worker" \in Backup!Engines
      BY <1>8 DEF BackupsInv, Backup!Engines
    <2>1. /\ runs' = [j \in Runs |-> runs'[j]] /\ runs'[i].st = "running"
          /\ \A j \in Runs : j # i => runs'[j] = runs[j]
      BY <1>4, <2>0 DEF RunnersInv
    <2>2. engine[w].pc \in {"due", "idle"}
      BY DEF Backup!InsertRun
    <2>3. \A x \in Backup!Engines : engine[x].pc \in EngineBusy => engine[x].id # i
      BY <1>5, <2>0 DEF RunnersInv
    <2>4. RunnersInv'
      BY <1>2, <1>5, <1>6, <2>0, <2>1, <2>3, SMTT(40) DEF RunnersInv, EngineBusy
    <2>5. \A j : RunEnded(j) => RunEnded(j)'
      BY <1>5, <2>1 DEF RunEnded
    <2>6. PruningInv'
      BY <1>2, <1>6, <2>0, <2>5 DEF PruningInv
    <2>7. RowsInv'
      <3>1. \A j : Backup!Running(j) => Backup!Running(j)'
        BY <1>6, <2>2 DEF Backup!Running
      <3>2. \A j : Backup!BeingPruned(j) => Backup!BeingPruned(j)'
        BY <1>6, <2>0, <2>2 DEF Backup!BeingPruned
      <3>3. Backup!Running(i)'
        BY <1>2, <1>6 DEF Backup!Running
      <3> QED BY <1>5, <2>0, <2>1, <3>1, <3>2, <3>3 DEF RowsInv
    <2> QED BY <2>4, <2>6, <2>7
  <1> QED BY <1>5, <1>7, <1>8 DEF BackupsInv

LEMMA DumpKeeps ==
  ASSUME BackupsInv, NEW w \in Backup!Engines, Backup!Dump(w)
  PROVE  BackupsInv'
  <1>0. BackupTables /\ ScheduleInv
    BY DEF BackupsInv
  <1>1. PICK d : d = [ok |-> TRUE, runs |-> runs, sched |-> sched]
    OBVIOUS
  <1>2. d.ok /\ d.runs = runs /\ d.sched = sched
    BY <1>1
  <1>3. PICK e : e = [pc |-> "put", id |-> engine[w].id, dump |-> d]
    OBVIOUS
  <1>4. e.pc = "put" /\ e.id = engine[w].id /\ e.dump = d /\ engine' = [engine EXCEPT ![w] = e]
    BY <1>0, <1>1, <1>3 DEF Backup!Dump, BackupTables
  <1>5. UNCHANGED <<sched, runs, objects, wish, abandoned, rewritten>> /\ engine[w].pc = "dump"
    BY DEF Backup!Dump
  <1>6. engine'[w] = e /\ \A x \in Backup!Engines : x # w => engine'[x] = engine[x]
    BY <1>0, <1>4, EngineMoves
  <1>7. BackupTables' /\ ScheduleInv'
    BY <1>0, <1>2, <1>4, <1>5, BackupTablesFrame, ScheduleFrame DEF BackupTables, ScheduleInv
  <1>8. ASSUME ~rewritten PROVE RunnersInv' /\ PruningInv' /\ RowsInv'
    <2>0. RunnersInv /\ PruningInv /\ RowsInv /\ "worker" \in Backup!Engines
      BY <1>8 DEF BackupsInv, Backup!Engines
    <2>1. RunnersInv'
      BY <1>2, <1>4, <1>5, <1>6, <2>0 DEF RunnersInv, EngineBusy
    <2>2. PruningInv'
      BY <1>4, <1>5, <1>6, <2>0 DEF PruningInv, RunEnded
    <2>3. RowsInv'
      <3>1. \A j : Backup!Running(j) => Backup!Running(j)'
        BY <1>4, <1>6 DEF Backup!Running
      <3>2. \A j : Backup!BeingPruned(j) => Backup!BeingPruned(j)'
        BY <1>5, <1>6, <2>0 DEF Backup!BeingPruned
      <3> QED BY <1>5, <2>0, <3>1, <3>2 DEF RowsInv
    <2> QED BY <2>1, <2>2, <2>3
  <1> QED BY <1>5, <1>7, <1>8 DEF BackupsInv

LEMMA PutDumpKeeps ==
  ASSUME BackupsInv, NEW w \in Backup!Engines, Backup!Put(w)
  PROVE  BackupsInv'
  <1> DEFINE i == engine[w].id
  <1>0. BackupTables /\ ScheduleInv
    BY DEF BackupsInv
  <1>1. PICK e : e = [pc |-> "mark", id |-> engine[w].id]
    OBVIOUS
  <1>2. e.pc = "mark" /\ e.id = engine[w].id /\ engine' = [engine EXCEPT ![w] = e]
    BY <1>0, <1>1 DEF Backup!Put, BackupTables
  <1>3. UNCHANGED <<sched, runs, wish, abandoned, rewritten>> /\ engine[w].pc = "put"
    BY DEF Backup!Put
  <1>4. /\ objects' = [j \in Runs |-> objects'[j]]
        /\ \A j \in Runs : objects'[j] = IF j = i THEN engine[w].dump ELSE objects[j]
    BY <1>0 DEF Backup!Put, BackupTables
  <1>5. engine'[w] = e /\ \A x \in Backup!Engines : x # w => engine'[x] = engine[x]
    BY <1>0, <1>2, EngineMoves
  <1>6. BackupTables' /\ ScheduleInv'
    BY <1>0, <1>2, <1>3, <1>4, BackupTablesFrame, ScheduleFrame DEF ScheduleInv
  <1>7. ASSUME ~rewritten PROVE RunnersInv' /\ PruningInv' /\ RowsInv'
    <2>0. RunnersInv /\ PruningInv /\ RowsInv /\ "worker" \in Backup!Engines
      BY <1>7 DEF BackupsInv, Backup!Engines
    <2>1. i \in Runs /\ engine[w].dump.ok /\ engine[w].dump.runs[i].st = "running"
      BY <1>3, <2>0 DEF RunnersInv, EngineBusy
    <2>2. \A j \in Runs : objects[j].ok => objects'[j].ok
      BY <1>4, <2>1
    <2>3. RunnersInv'
      BY <1>2, <1>3, <1>4, <1>5, <2>0, <2>1, <2>2 DEF RunnersInv, EngineBusy
    <2>4. PruningInv'
      BY <1>2, <1>3, <1>5, <2>0 DEF PruningInv, RunEnded
    <2>5. RowsInv'
      <3>1. \A j : Backup!Running(j) => Backup!Running(j)'
        BY <1>2, <1>5 DEF Backup!Running
      <3>2. \A j : Backup!BeingPruned(j) => Backup!BeingPruned(j)'
        BY <1>3, <1>5, <2>0 DEF Backup!BeingPruned
      <3> QED BY <1>3, <1>4, <2>0, <2>1, <2>2, <3>1, <3>2 DEF RowsInv
    <2> QED BY <2>3, <2>4, <2>5
  <1> QED BY <1>3, <1>6, <1>7 DEF BackupsInv

LEMMA MarkKeeps ==
  ASSUME BackupsInv, NEW w \in Backup!Engines, Backup!Complete(w) \/ Backup!Fail(w)
  PROVE  BackupsInv'
  <1> DEFINE i == engine[w].id
  <1>0. BackupTables /\ ScheduleInv
    BY DEF BackupsInv
  <1>1. PICK e : e = IF w = "worker" THEN [pc |-> "next", id |-> engine[w].id] ELSE Backup!Resting
    OBVIOUS
  <1>2. e.pc \in {"next", "idle"} /\ engine' = [engine EXCEPT ![w] = e]
    BY <1>0, <1>1 DEF Backup!Complete, Backup!Fail, Backup!After, Backup!Resting, BackupTables
  <1>3. UNCHANGED <<sched, objects, wish, abandoned, rewritten>> /\ engine[w].pc \in EngineBusy
    BY DEF Backup!Complete, Backup!Fail, EngineBusy
  <1>4. engine'[w] = e /\ \A x \in Backup!Engines : x # w => engine'[x] = engine[x]
    BY <1>0, <1>2, EngineMoves
  <1>5. BackupTables' /\ ScheduleInv'
    BY <1>0, <1>2, <1>3, BackupTablesFrame, ScheduleFrame DEF BackupTables, ScheduleInv
  <1>6. ASSUME ~rewritten PROVE RunnersInv' /\ PruningInv' /\ RowsInv'
    <2>0. RunnersInv /\ PruningInv /\ RowsInv /\ "worker" \in Backup!Engines
      BY <1>6 DEF BackupsInv, Backup!Engines
    <2>1. i \in Runs /\ runs[i].st = "running" /\ runs[i] # Backup!NoRun
      BY <1>3, <2>0 DEF RunnersInv, Backup!NoRun
    <2>2. PICK row : /\ runs' = [runs EXCEPT ![i] = row]
                     /\ row.st = "failed" \/ (row.st = "completed" /\ engine[w].pc = "mark")
      BY <2>1 DEF Backup!Complete, Backup!Fail, Backup!Marked
    <2>3. runs' = [j \in Runs |-> runs'[j]] /\ runs'[i] = row /\ \A j \in Runs : j # i => runs'[j] = runs[j]
      BY <2>0, <2>1, <2>2 DEF RunnersInv
    <2>4. \A x \in Backup!Engines : x # w /\ engine[x].pc \in EngineBusy => engine[x].id # i
      BY <1>3, <2>0 DEF RunnersInv
    <2>5. RunnersInv'
      BY <1>2, <1>3, <1>4, <2>0, <2>2, <2>3, <2>4 DEF RunnersInv, EngineBusy
    <2>6. \A j : RunEnded(j) => RunEnded(j)'
      BY <2>1, <2>3 DEF RunEnded
    <2>7. PruningInv'
      BY <1>2, <1>4, <2>0, <2>6 DEF PruningInv
    <2>8. RowsInv'
      <3>1. \A j : j # i /\ Backup!Running(j) => Backup!Running(j)'
        BY <1>4 DEF Backup!Running
      <3>2. \A j : Backup!BeingPruned(j) => Backup!BeingPruned(j)'
        BY <1>3, <1>4, <2>0 DEF Backup!BeingPruned, EngineBusy
      <3>3. row.st = "completed" => objects[i].ok
        BY <2>0, <2>2 DEF RunnersInv
      <3> QED BY <1>3, <2>0, <2>2, <2>3, <3>1, <3>2, <3>3 DEF RowsInv
    <2> QED BY <2>5, <2>7, <2>8
  <1> QED BY <1>3, <1>5, <1>6 DEF BackupsInv

LEMMA EngineCrashKeeps ==
  ASSUME BackupsInv, NEW w \in Backup!Engines, Backup!Crash(w)
  PROVE  BackupsInv'
  <1>1. engine' = [engine EXCEPT ![w] = Backup!Resting] /\ Backup!Resting.pc = "idle"
    BY DEF Backup!Crash, Backup!Resting
  <1>2. UNCHANGED <<sched, runs, objects, wish, rewritten>> /\ abandoned \subseteq abandoned'
    BY DEF Backup!Crash
  <1>3. engine[w].pc \in EngineBusy \cup {"delete"} => engine[w].id \in abandoned'
    BY DEF Backup!Crash, EngineBusy
  <1>4. Schedule(sched') /\ sched'.val = wish'
    BY <1>2 DEF BackupsInv, ScheduleInv
  <1> QED BY <1>1, <1>2, <1>3, <1>4, EngineRests DEF EngineBusy

--------------------------------------------------------------------------------
\* The worker's tick.
LEMMA DayKeeps ==
  ASSUME BackupsInv, Backup!RunDue \/ Backup!SetNextRun \/ Backup!SelectExpired \/ Backup!EndTick
  PROVE  BackupsInv'
  <1>0. BackupTables /\ ScheduleInv /\ "worker" \in Backup!Engines
    BY DEF BackupsInv, Backup!Engines
  <1>1. UNCHANGED <<runs, objects, wish, rewritten, abandoned>>
    BY DEF Backup!RunDue, Backup!SetNextRun, Backup!SelectExpired, Backup!EndTick
  <1>2. engine["worker"].pc \notin EngineBusy \cup {"delete"}
    BY DEF Backup!RunDue, Backup!SetNextRun, Backup!SelectExpired, Backup!EndTick, EngineBusy
  <1>3. Schedule(sched') /\ sched'.val = wish'
    <2>1. CASE sched' = sched
      BY <1>0, <1>1, <2>1 DEF ScheduleInv
    <2>2. CASE Backup!SetNextRun
      BY <1>0, <1>1, <2>2 DEF ScheduleInv, Backup!SetNextRun, Schedule
    <2> QED BY <2>1, <2>2 DEF Backup!RunDue, Backup!SelectExpired, Backup!EndTick
  <1>4. CASE Backup!RunDue
    <2>1. PICK e : e = [pc |-> "due"]
      OBVIOUS
    <2>2. e.pc = "due" /\ engine' = [engine EXCEPT !["worker"] = e]
      BY <1>4, <2>1 DEF Backup!RunDue
    <2> QED BY <1>0, <1>1, <1>2, <1>3, <2>2, EngineRests DEF EngineBusy
  <1>7. CASE Backup!SetNextRun
    <2>1. PICK e : e = [pc |-> "select", id |-> engine["worker"].id]
      OBVIOUS
    <2>2. e.pc = "select" /\ engine' = [engine EXCEPT !["worker"] = e]
      BY <1>0, <1>7, <2>1 DEF Backup!SetNextRun, BackupTables
    <2> QED BY <1>0, <1>1, <1>2, <1>3, <2>2, EngineRests DEF EngineBusy
  <1>5. CASE Backup!SelectExpired
    <2>1. PICK e : e = [pc |-> "prune", id |-> engine["worker"].id, rows |-> Backup!Prunable]
      OBVIOUS
    <2>2. e.pc = "prune" /\ e.rows = Backup!Prunable /\ engine' = [engine EXCEPT !["worker"] = e]
      BY <1>0, <1>5, <2>1 DEF Backup!SelectExpired, BackupTables
    <2>3. ASSUME ~rewritten, NEW i \in e.rows PROVE RunEnded(i)
      <3>1. i \in Runs /\ runs[i] # Backup!NoRun /\ runs[i].st # "running"
        BY <2>2, <2>3 DEF Backup!Prunable
      <3>2. runs[i].st # "none"
        BY <2>3, <3>1 DEF BackupsInv, RunnersInv
      <3> QED BY <3>1, <3>2 DEF RunEnded
    <2> QED BY <1>0, <1>1, <1>2, <1>3, <2>2, <2>3, EngineRests DEF EngineBusy
  <1>6. CASE Backup!EndTick
    <2>1. engine' = [engine EXCEPT !["worker"] = Backup!Resting] /\ Backup!Resting.pc = "idle"
      BY <1>6 DEF Backup!EndTick, Backup!Resting
    <2> QED BY <1>0, <1>1, <1>2, <1>3, <2>1, EngineRests DEF EngineBusy
  <1> QED BY <1>4, <1>5, <1>6, <1>7

LEMMA PruningKeeps ==
  ASSUME BackupsInv, NEW i \in Runs, Backup!PruneObject(i)
  PROVE  BackupsInv'
  <1> DEFINE old == engine["worker"]
  <1>0. BackupTables /\ ScheduleInv /\ "worker" \in Backup!Engines
    BY DEF BackupsInv, Backup!Engines
  <1>1. PICK e : e = [pc |-> "delete", id |-> i, rows |-> engine["worker"].rows \ {i}]
    OBVIOUS
  <1>2. /\ e.pc = "delete" /\ e.id = i /\ e.rows = engine["worker"].rows \ {i}
        /\ engine' = [engine EXCEPT !["worker"] = e]
    BY <1>0, <1>1 DEF Backup!PruneObject, BackupTables
  <1>3. /\ UNCHANGED <<sched, runs, wish, abandoned, rewritten>>
        /\ engine["worker"].pc = "prune" /\ i \in engine["worker"].rows
    BY DEF Backup!PruneObject
  <1>4. /\ objects' = [j \in Runs |-> objects'[j]]
        /\ \A j \in Runs : objects'[j] = objects[j] \/ (j = i /\ objects'[j].ok = FALSE)
    BY <1>0 DEF Backup!PruneObject, BackupTables, Backup!NoDump
  <1>5. engine'["worker"] = e /\ \A x \in Backup!Engines : x # "worker" => engine'[x] = engine[x]
    BY <1>0, <1>2, EngineMoves
  <1>6. BackupTables' /\ ScheduleInv'
    BY <1>0, <1>2, <1>3, <1>4, BackupTablesFrame, ScheduleFrame DEF ScheduleInv
  <1>7. ASSUME ~rewritten PROVE RunnersInv' /\ PruningInv' /\ RowsInv'
    <2>0. RunnersInv /\ PruningInv /\ RowsInv
      BY <1>7 DEF BackupsInv
    <2>1. RunEnded(i) /\ \A x \in Backup!Engines : engine[x].pc \in EngineBusy => engine[x].id # i
      BY <1>3, <2>0 DEF PruningInv, RunnersInv, RunEnded
    <2>2. RunnersInv'
      BY <1>2, <1>3, <1>4, <1>5, <2>0, <2>1 DEF RunnersInv, EngineBusy
    <2>3. PruningInv'
      BY <1>2, <1>3, <1>5, <2>0, <2>1 DEF PruningInv, RunEnded
    <2>4. RowsInv'
      <3>1. \A j : Backup!Running(j) => Backup!Running(j)'
        BY <1>3, <1>5 DEF Backup!Running
      <3>2. Backup!BeingPruned(i)' /\ \A j : ~Backup!BeingPruned(j)
        BY <1>2, <1>3, <1>5 DEF Backup!BeingPruned
      <3> QED BY <1>3, <1>4, <2>0, <3>1, <3>2 DEF RowsInv
    <2> QED BY <2>2, <2>3, <2>4
  <1> QED BY <1>3, <1>6, <1>7 DEF BackupsInv

LEMMA DeleteKeeps ==
  ASSUME BackupsInv, Backup!DeleteRun
  PROVE  BackupsInv'
  <1> DEFINE i == engine["worker"].id
  <1>0. BackupTables /\ ScheduleInv /\ "worker" \in Backup!Engines
    BY DEF BackupsInv, Backup!Engines
  <1>1. PICK e : e = [pc |-> "prune", id |-> engine["worker"].id, rows |-> engine["worker"].rows]
    OBVIOUS
  <1>2. e.pc = "prune" /\ e.rows = engine["worker"].rows /\ engine' = [engine EXCEPT !["worker"] = e]
    BY <1>0, <1>1 DEF Backup!DeleteRun, BackupTables
  <1>3. /\ UNCHANGED <<sched, objects, wish, rewritten>> /\ engine["worker"].pc = "delete"
        /\ runs' = [runs EXCEPT ![i] = Backup!NoRun] /\ abandoned \subseteq abandoned'
    BY DEF Backup!DeleteRun
  <1>4. engine'["worker"] = e /\ \A x \in Backup!Engines : x # "worker" => engine'[x] = engine[x]
    BY <1>0, <1>2, EngineMoves
  <1>5. BackupTables' /\ ScheduleInv'
    BY <1>0, <1>2, <1>3, BackupTablesFrame, ScheduleFrame DEF ScheduleInv, BackupTables
  <1>6. ASSUME ~rewritten PROVE RunnersInv' /\ PruningInv' /\ RowsInv'
    <2>0. RunnersInv /\ PruningInv /\ RowsInv /\ Backup!NoRun.st = "none"
      BY <1>6 DEF BackupsInv, Backup!NoRun
    <2>1. RunEnded(i) /\ i \notin engine["worker"].rows /\ \A x \in Backup!Engines : engine[x].pc \in EngineBusy => engine[x].id # i
      BY <1>3, <2>0 DEF PruningInv, RunnersInv, RunEnded
    <2>2. runs' = [j \in Runs |-> runs'[j]] /\ runs'[i] = Backup!NoRun /\ \A j \in Runs : j # i => runs'[j] = runs[j]
      BY <1>3, <2>0, <2>1 DEF RunnersInv, RunEnded
    <2>3. RunnersInv'
      BY <1>2, <1>3, <1>4, <2>0, <2>1, <2>2 DEF RunnersInv, EngineBusy
    <2>4. PruningInv'
      <3>1. \A j : j # i /\ RunEnded(j) => RunEnded(j)'
        BY <2>2 DEF RunEnded
      <3> QED BY <1>2, <1>3, <1>4, <2>0, <2>1, <3>1 DEF PruningInv
    <2>5. RowsInv'
      <3>1. \A j : Backup!Running(j) => Backup!Running(j)'
        BY <1>3, <1>4 DEF Backup!Running
      <3>2. \A j : j # i => ~Backup!BeingPruned(j)
        BY DEF Backup!BeingPruned
      <3> QED BY <1>3, <2>0, <2>2, <3>1, <3>2 DEF RowsInv
    <2> QED BY <2>3, <2>4, <2>5
  <1> QED BY <1>3, <1>5, <1>6 DEF BackupsInv

--------------------------------------------------------------------------------
\* Restore.
LEMMA RestoreKeeps ==
  ASSUME BackupsInv, Backup!RestoreStep
  PROVE  BackupsInv'
  <1>0. BackupTables /\ ScheduleInv /\ "admin" \in Backup!Engines
    BY DEF BackupsInv, Backup!Engines
  <1>1. ASSUME UNCHANGED <<sched, runs, objects, wish, rewritten, abandoned>>, NEW e, engine' = [engine EXCEPT !["admin"] = e],
               engine["admin"].pc \notin EngineBusy \cup {"delete"}, e.pc \notin EngineBusy \cup {"delete", "restore2", "prune"},
               e.pc = "stream" => e.id \in Runs,
               e.pc = "restore" => e = [pc |-> e.pc, id |-> e.id, dump |-> e.dump] /\ Schedule(e.dump.sched)
        PROVE  BackupsInv'
    BY <1>0, <1>1, EngineRests DEF ScheduleInv
  <1>2. ASSUME NEW i \in Runs, Backup!RestoreRead(i) PROVE BackupsInv'
    <2>1. PICK e : e = [pc |-> "stream", id |-> i]
      OBVIOUS
    <2>2. e.pc = "stream" /\ e.id = i
      BY <2>1
    <2> QED BY <1>1, <1>2, <2>1, <2>2 DEF Backup!RestoreRead, EngineBusy
  <1>3. ASSUME Backup!RestoreStream PROVE BackupsInv'
    <2> DEFINE i == engine["admin"].id
    <2>1. PICK e : e = IF objects[i].ok THEN [pc |-> "restore", id |-> i, dump |-> objects[i]] ELSE Backup!Resting
      OBVIOUS
    <2>2. engine' = [engine EXCEPT !["admin"] = e] /\ engine["admin"].pc = "stream"
      BY <1>3, <2>1 DEF Backup!RestoreStream
    <2>3. e.pc \in {"restore", "idle"}
      BY <2>1 DEF Backup!Resting
    <2>4. e.pc = "restore" => /\ e = [pc |-> e.pc, id |-> e.id, dump |-> e.dump] /\ e.dump = objects[i] /\ objects[i].ok
      BY <2>1 DEF Backup!Resting
    <2>5. i \in Runs
      BY <1>0, <2>2 DEF BackupTables
    <2> QED BY <1>0, <1>1, <1>3, <2>2, <2>3, <2>4, <2>5 DEF Backup!RestoreStream, EngineBusy, ScheduleInv
  <1>4. ASSUME Backup!RestoreSchedules PROVE BackupsInv'
    <2>1. PICK e : e = [engine["admin"] EXCEPT !.pc = "restore2"]
      OBVIOUS
    <2>2. engine' = [engine EXCEPT !["admin"] = e] /\ engine["admin"].pc = "restore"
      BY <1>0, <1>4, <2>1 DEF Backup!RestoreSchedules, BackupTables
    <2>3. e.pc = "restore2" /\ e = [pc |-> e.pc, id |-> e.id, dump |-> e.dump]
      BY <1>0, <2>1, <2>2 DEF BackupTables
    <2>4. engine' = [x \in Backup!Engines |-> engine'[x]] /\ engine'["admin"] = e /\ \A x \in Backup!Engines : x # "admin" => engine'[x] = engine[x]
      BY <1>0, <2>2, EngineMoves
    <2>5. rewritten' /\ objects' = objects /\ sched' = engine["admin"].dump.sched /\ wish' = sched'.val
      BY <1>4 DEF Backup!RestoreSchedules
    <2>6. BackupTables'
      <3>1. \A x \in Backup!Engines : engine'[x].pc \in {"restore", "restore2"} =>
              engine'[x] = [pc |-> engine'[x].pc, id |-> engine'[x].id, dump |-> engine'[x].dump]
        BY <1>0, <2>3, <2>4 DEF BackupTables
      <3>2. \A x \in Backup!Engines : engine'[x].pc = "stream" => engine'[x].id \in Runs
        BY <1>0, <2>3, <2>4 DEF BackupTables
      <3> QED BY <1>0, <2>4, <2>5, <3>1, <3>2 DEF BackupTables
    <2>7. ScheduleInv'
      BY <1>0, <2>2, <2>3, <2>5, ScheduleFrame DEF ScheduleInv
    <2> QED BY <2>5, <2>6, <2>7 DEF BackupsInv
  <1>5. ASSUME Backup!RestoreRuns PROVE BackupsInv'
    <2>1. engine' = [engine EXCEPT !["admin"] = Backup!Resting] /\ Backup!Resting.pc = "idle" /\ engine["admin"].pc = "restore2"
      BY <1>5 DEF Backup!RestoreRuns, Backup!Resting
    <2>2. UNCHANGED <<sched, objects, wish, rewritten>> /\ rewritten
      BY <1>0, <1>5, <2>1 DEF Backup!RestoreRuns, BackupTables
    <2>3. BackupTables' /\ ScheduleInv'
      BY <1>0, <2>1, <2>2, BackupTablesFrame, ScheduleFrame DEF BackupTables, ScheduleInv
    <2> QED BY <2>2, <2>3 DEF BackupsInv
  <1> QED BY <1>2, <1>3, <1>4, <1>5 DEF Backup!RestoreStep

--------------------------------------------------------------------------------
LEMMA BackupsInit ==
  ASSUME Backup!Init
  PROVE  BackupsInv
  <1>1. \A w \in Backup!Engines : engine[w].pc = "idle"
    BY DEF Backup!Init, Backup!Resting
  <1>2. \A i \in Runs : runs[i] = Backup!NoRun /\ Backup!NoRun.st = "none" /\ objects[i].ok = FALSE
    BY DEF Backup!Init, Backup!NoRun, Backup!NoDump
  <1>3. Schedule(sched) /\ sched.val = wish
    <2>1. sched = [row |-> FALSE, next |-> 0, val |-> ScheduleDefaults] /\ wish = ScheduleDefaults
      BY DEF Backup!Init, Backup!NoSched, Backup!DefaultSched, ScheduleDefaults
    <2>2. ScheduleDefaults = [f \in Backup!FieldSet |-> ScheduleDefaults[f]]
      BY DEF ScheduleDefaults
    <2> QED BY <2>1, <2>2 DEF Schedule
  <1>4. BackupTables
    BY <1>1 DEF Backup!Init, BackupTables, Backup!Engines
  <1>5. ScheduleInv
    BY <1>1, <1>2, <1>3 DEF ScheduleInv
  <1>6. RunnersInv /\ PruningInv /\ RowsInv
    BY <1>1, <1>2 DEF Backup!Init, RunnersInv, PruningInv, RowsInv, EngineBusy, Backup!Engines
  <1> QED BY <1>4, <1>5, <1>6 DEF BackupsInv

LEMMA BackupsStep ==
  ASSUME BackupsInv, [Backup!Next]_(Backup!vars)
  PROVE  BackupsInv'
  <1>1. ASSUME NEW w \in Backup!Engines, Backup!RunStep(w) PROVE BackupsInv'
    BY <1>1, InsertKeeps, DumpKeeps, PutDumpKeeps, MarkKeeps, EngineCrashKeeps DEF Backup!RunStep
  <1>2. CASE UNCHANGED Backup!vars \/ Backup!Tick
    <2>1. UNCHANGED <<sched, runs, objects, engine, wish, abandoned, rewritten>>
      BY <1>2 DEF Backup!vars, Backup!Tick
    <2>2. BackupTables' /\ ScheduleInv'
      BY <2>1 DEF BackupsInv, BackupTables, ScheduleInv, Schedule, ScheduleDefaults
    <2>3. ~rewritten' => RunnersInv' /\ PruningInv' /\ RowsInv'
      BY <2>1 DEF BackupsInv, RunnersInv, PruningInv, RowsInv, RunEnded, Backup!BeingPruned, Backup!Running
    <2> QED BY <2>2, <2>3 DEF BackupsInv
  <1>3. CASE Backup!WorkerStep
    BY <1>1, <1>3, DayKeeps, PruningKeeps, DeleteKeeps DEF Backup!WorkerStep, Backup!Engines
  <1>4. CASE Backup!GetSchedule \/ \E named \in SUBSET Backup!FieldSet, v \in Backup!Requests : Backup!UpdateSchedule(named, v)
    BY <1>4, ScheduleKeeps
  <1>5. "admin" \in Backup!Engines
    BY DEF Backup!Engines
  <1> QED BY <1>1, <1>2, <1>3, <1>4, <1>5, RestoreKeeps DEF Backup!Next

LEMMA BackupsSafe ==
  ASSUME BackupsInv
  PROVE  Backup!BackupsSound
  BY DEF BackupsInv, ScheduleInv, RowsInv, Backup!BackupsSound

\* Rows, objects and runners agree until a restore, every dump shows its own run running, and the schedule has what was asked.
THEOREM BackupsAreSound == Backup!Spec => []Backup!BackupsSound
  <1>1. Backup!Init => BackupsInv
    BY BackupsInit
  <1>2. BackupsInv /\ [Backup!Next]_(Backup!vars) => BackupsInv'
    BY BackupsStep
  <1>3. BackupsInv => Backup!BackupsSound
    BY BackupsSafe
  <1> QED BY <1>1, <1>2, <1>3, PTL DEF Backup!Spec

--------------------------------------------------------------------------------
(* Profile pictures. *)

\* Requests, the tab and the budget are records of these fields.
RequestShape(q) ==
  q = [op |-> q.op, at |-> q.at, ext |-> q.ext, pic |-> q.pic, old |-> q.old, out |-> q.out, mine |-> q.mine]
TabShape ==
  tab = [data |-> tab.data, preview |-> tab.preview, open |-> tab.open, asked |-> tab.asked, told |-> tab.told,
         at |-> tab.at, joined |-> tab.joined]
UsedShape == used = [changes |-> used.changes, reads |-> used.reads, faults |-> used.faults] /\ used.faults \in Nat

\* What a request is doing, and what it holds.
Cacheable(out) == out \in Avatar!Outside \cup {Avatar!Nothing}
KnownRequest(q) ==
  /\ RequestShape(q) /\ q.op \in {"none", "set", "remove", "resolve"}
  /\ Avatar!Writing(q) => q.at \in {"start", "put", "clean", "update"}
  /\ q.op = "set" => q.ext \in Exts /\ q.pic \in Pictures
  /\ q.op = "remove" => q.at # "put" /\ q.pic = Avatar!Nothing
  /\ q.op = "resolve" => q.mine /\ q.at \in {"start", "stream", "external", "cache", "answer"}
  /\ q.op = "resolve" /\ q.at = "stream" => q.old \in Exts
  /\ q.op = "resolve" /\ q.at = "cache" => Cacheable(q.out)
  /\ q.op = "resolve" /\ q.at = "answer" => q.out \in Avatar!Answers
  /\ q.op = "none" => q.at = "none"
RequestTable == req = [r \in Slots |-> req[r]] /\ \A r \in Slots : KnownRequest(req[r])

PictureTypes ==
  /\ path \in Exts \cup {"none"} /\ store \in [Exts -> Pictures \cup {Avatar!Nothing}]
  /\ redis = Avatar!Unknown \/ Cacheable(redis)
  /\ TabShape /\ UsedShape
  /\ tab.data \in Avatar!Answers \cup {Avatar!Unknown} /\ tab.asked \in {"none", "set", "remove", "refetch"}
  /\ changes \in Nat /\ tab.at \in Nat /\ tab.at <= changes

\* Where the row and the objects stand between changes, and at each stage of the one that runs.
RowMatches ==
  /\ path # "none" => store[path] # Avatar!Nothing
  /\ ~litter => \A e \in Exts : store[e] # Avatar!Nothing => e = path
ChangeStage(q) ==
  /\ q.at \in {"start", "put"} => RowMatches
  /\ q.at \in {"put", "clean"} => q.old = path
  /\ q.at = "clean" /\ q.op = "remove" => RowMatches
  /\ q.at = "clean" /\ q.op = "set" => store[q.ext] = q.pic /\ (~litter => \A e \in Exts : store[e] # Avatar!Nothing => e \in {path, q.ext})
  /\ q.at = "update" /\ q.op = "set" => store[q.ext] = q.pic /\ (~litter => \A e \in Exts : store[e] # Avatar!Nothing => e = q.ext)
  /\ q.at = "update" /\ q.op = "remove" /\ ~litter => \A e \in Exts : store[e] = Avatar!Nothing
RowInv ==
  ~spoiled =>
    /\ \A r, s \in Slots : Avatar!Writing(req[r]) /\ Avatar!Writing(req[s]) => r = s
    /\ \A r \in Slots : Avatar!Writing(req[r]) => ChangeStage(req[r])
    /\ (\A r \in Slots : ~Avatar!Writing(req[r])) => RowMatches

\* Since the tab's change ended the row names what it announced, and a lookup finds that.
Announced(shown) == IF tab.told = Avatar!Nothing THEN shown \notin Pictures ELSE shown = tab.told
LookupFits(q) ==
  q.op = "resolve" => \/ q.at = "start"
                      \/ q.at = "stream" /\ q.old = path
                      \/ q.at \in {"external", "cache"} /\ tab.told = Avatar!Nothing
                      \/ q.at = "answer" /\ Announced(q.out)
JustTold == tab.told \in Pictures \cup {Avatar!Nothing} /\ tab.at = changes /\ ~tab.joined /\ ~spoiled /\ used.faults = 0
ShownInv ==
  JustTold => /\ IF tab.told = Avatar!Nothing THEN path = "none" ELSE path \in Exts /\ store[path] = tab.told
              /\ tab.asked = "none" => Announced(tab.data)
              /\ \A r \in Slots : LookupFits(req[r])

\* The inductive invariant.
AvatarsInv == RequestTable /\ PictureTypes /\ RowInv /\ ShownInv

--------------------------------------------------------------------------------
LEMMA NoReqFields ==
  /\ RequestShape(Avatar!NoReq) /\ Avatar!NoReq.op = "none" /\ Avatar!NoReq.at = "none" /\ Avatar!NoReq.mine = FALSE /\ Avatar!NoReq.pic = Avatar!Nothing
  BY DEF Avatar!NoReq, RequestShape

LEMMA NoReqKnown == KnownRequest(Avatar!NoReq) /\ ~Avatar!Writing(Avatar!NoReq) /\ LookupFits(Avatar!NoReq) /\ LookupFits(Avatar!NoReq)'
  BY NoReqFields DEF KnownRequest, Avatar!Writing, LookupFits

\* One request goes on as q, the others stay.
LEMMA RequestMoves ==
  ASSUME RequestTable, NEW r \in Slots, NEW q, KnownRequest(q), req' = [req EXCEPT ![r] = q], UNCHANGED <<plan, logo>>
  PROVE  RequestTable' /\ req'[r] = q /\ \A s \in Slots : s # r => req'[s] = req[s]
  <1>1. req' = [s \in Slots |-> req'[s]] /\ req'[r] = q /\ \A s \in Slots : s # r => req'[s] = req[s]
    BY DEF RequestTable
  <1>2. \A s \in Slots : KnownRequest(req'[s])
    BY <1>1 DEF RequestTable
  <1>3. \A s \in Slots : KnownRequest(req[s])'
    BY <1>2 DEF KnownRequest, RequestShape, Avatar!Writing, Cacheable
  <1> QED BY <1>1, <1>3 DEF RequestTable

LEMMA CacheableFrame ==
  ASSUME UNCHANGED <<plan, logo>>, NEW out, Cacheable(out)
  PROVE  Cacheable(out)'
  BY DEF Cacheable

\* A lookup moves: the row and the objects are not touched.
LEMMA LookupRow ==
  ASSUME RowInv, UNCHANGED <<path, store, litter, spoiled>>,
         \A s \in Slots : Avatar!Writing(req'[s]) => req'[s] = req[s],
         \A s \in Slots : Avatar!Writing(req[s]) => Avatar!Writing(req'[s])
  PROVE  RowInv'
  <1>1. RowMatches => RowMatches'
    BY DEF RowMatches
  <1>2. ASSUME NEW s \in Slots, ChangeStage(req[s]), req'[s] = req[s] PROVE ChangeStage(req[s])'
    BY <1>2 DEF ChangeStage, RowMatches
  <1>3. \A s \in Slots : Avatar!Writing(req[s])' <=> Avatar!Writing(req'[s])
    BY DEF Avatar!Writing
  <1> QED BY <1>1, <1>2, <1>3 DEF RowInv

LEMMA LookupKeeps ==
  ASSUME Avatar!PicturesAssumption, AvatarsInv, NEW r \in Slots, Avatar!ReadRow(r) \/ Avatar!StreamObject(r) \/ Avatar!LookOutside(r) \/ Avatar!CacheSet(r)
  PROVE  AvatarsInv'
  <1> DEFINE p == req[r]
  <1>0. RequestTable /\ PictureTypes /\ RowInv /\ ShownInv /\ KnownRequest(p) /\ p.op = "resolve"
    BY DEF AvatarsInv, RequestTable, Avatar!ReadRow, Avatar!StreamObject, Avatar!LookOutside, Avatar!CacheSet
  <1>1. /\ UNCHANGED <<plan, logo, path, store, litter, changes, tab, spoiled>>
        /\ used' = used \/ Avatar!Spend("faults")
    BY DEF Avatar!ReadRow, Avatar!StreamObject, Avatar!LookOutside, Avatar!CacheSet, Avatar!Server
  <1>2. PICK q : /\ KnownRequest(q) /\ q.op = "resolve" /\ req' = [req EXCEPT ![r] = q]
                 /\ JustTold /\ LookupFits(p) => LookupFits(q) \/ used'.faults # 0
    <2>1. CASE Avatar!ReadRow(r)
      <3>1. PICK q : q = [p EXCEPT !.old = path, !.at = IF path = "none" THEN "external" ELSE "stream"]
        OBVIOUS
      <3>2. /\ RequestShape(q) /\ q.op = p.op /\ q.mine = p.mine /\ q.old = path
            /\ q.at = IF path = "none" THEN "external" ELSE "stream"
        BY <1>0, <3>1 DEF KnownRequest, RequestShape
      <3>3. KnownRequest(q)
        BY <1>0, <3>2 DEF KnownRequest, Avatar!Writing, PictureTypes
      <3>4. req' = [req EXCEPT ![r] = q]
        BY <2>1, <3>1 DEF Avatar!ReadRow, Avatar!Advance
      <3>5. JustTold => LookupFits(q)
        BY <1>0, <3>2 DEF LookupFits, ShownInv, JustTold, Avatar!PicturesAssumption
      <3> QED BY <1>0, <3>2, <3>3, <3>4, <3>5
    <2>2. CASE Avatar!StreamObject(r)
      <3>0. p.at = "stream" /\ p.old \in Exts /\ store[p.old] \in Pictures \cup {Avatar!Nothing}
        BY <1>0, <2>2 DEF Avatar!StreamObject, KnownRequest, PictureTypes
      <3>1. CASE Avatar!Advance(r, [p EXCEPT !.out = store[p.old], !.at = IF store[p.old] = Avatar!Nothing THEN "external" ELSE "answer"])
        <4>1. PICK q : q = [p EXCEPT !.out = store[p.old], !.at = IF store[p.old] = Avatar!Nothing THEN "external" ELSE "answer"]
          OBVIOUS
        <4>2. /\ RequestShape(q) /\ q.op = p.op /\ q.mine = p.mine /\ q.out = store[p.old]
              /\ q.at = IF store[p.old] = Avatar!Nothing THEN "external" ELSE "answer"
          BY <1>0, <4>1 DEF KnownRequest, RequestShape
        <4>3. KnownRequest(q)
          BY <1>0, <3>0, <4>2 DEF KnownRequest, Avatar!Writing, Avatar!Answers
        <4>4. JustTold /\ LookupFits(p) => store[p.old] = tab.told /\ tab.told \in Pictures
          BY <1>0, <3>0 DEF LookupFits, ShownInv, JustTold, Avatar!PicturesAssumption
        <4> QED BY <1>0, <3>1, <4>1, <4>2, <4>3, <4>4 DEF Avatar!Advance, LookupFits, Announced, Avatar!PicturesAssumption
      <3>2. CASE Avatar!Spend("faults") /\ Avatar!Advance(r, [p EXCEPT !.at = "external"])
        <4>1. PICK q : q = [p EXCEPT !.at = "external"]
          OBVIOUS
        <4>2. RequestShape(q) /\ q.op = p.op /\ q.mine = p.mine /\ q.at = "external"
          BY <1>0, <4>1 DEF KnownRequest, RequestShape
        <4>3. KnownRequest(q)
          BY <1>0, <4>2 DEF KnownRequest, Avatar!Writing
        <4>4. used'.faults # 0
          BY <1>0, <3>2 DEF Avatar!Spend, PictureTypes, UsedShape
        <4> QED BY <1>0, <3>2, <4>1, <4>2, <4>3, <4>4 DEF Avatar!Advance
      <3> QED BY <2>2, <3>1, <3>2 DEF Avatar!StreamObject
    <2>3. CASE Avatar!LookOutside(r)
      <3>1. PICK out, at : /\ Avatar!Advance(r, [p EXCEPT !.out = out, !.at = at])
                           /\ at \in {"answer", "cache"} /\ Cacheable(out)
        <4>1. CASE Avatar!Advance(r, [p EXCEPT !.out = Avatar!Nothing, !.at = "answer"])
          BY <4>1 DEF Cacheable
        <4>2. CASE redis # Avatar!Unknown /\ Avatar!Advance(r, [p EXCEPT !.out = redis, !.at = "answer"])
          BY <1>0, <4>2 DEF PictureTypes
        <4>3. CASE plan.proxy /\ \E out \in Avatar!fetchExternal : Avatar!Advance(r, [p EXCEPT !.out = out, !.at = "cache"])
          <5>1. PICK out \in Avatar!fetchExternal : Avatar!Advance(r, [p EXCEPT !.out = out, !.at = "cache"])
            BY <4>3
          <5>2. Cacheable(out)
            BY <4>3 DEF Avatar!fetchExternal, Cacheable, Avatar!Outside, Avatar!Nothing
          <5> QED BY <5>1, <5>2
        <4> QED BY <2>3, <4>1, <4>2, <4>3 DEF Avatar!LookOutside
      <3>2. PICK q : q = [p EXCEPT !.out = out, !.at = at]
        OBVIOUS
      <3>3. RequestShape(q) /\ q.op = p.op /\ q.mine = p.mine /\ q.at = at /\ q.out = out
        BY <1>0, <3>2 DEF KnownRequest, RequestShape
      <3>4. KnownRequest(q)
        BY <1>0, <3>1, <3>3 DEF KnownRequest, Avatar!Writing, Cacheable, Avatar!Answers
      <3>5. LookupFits(p) => LookupFits(q)
        BY <1>0, <2>3, <3>1, <3>3 DEF LookupFits, Avatar!LookOutside, Announced, Cacheable, Avatar!PicturesAssumption
      <3> QED BY <1>0, <3>1, <3>2, <3>3, <3>4, <3>5 DEF Avatar!Advance
    <2>4. CASE Avatar!CacheSet(r)
      <3>1. PICK q : q = [p EXCEPT !.at = "answer"]
        OBVIOUS
      <3>2. RequestShape(q) /\ q.op = p.op /\ q.mine = p.mine /\ q.at = "answer" /\ q.out = p.out
        BY <1>0, <3>1 DEF KnownRequest, RequestShape
      <3>3. KnownRequest(q)
        BY <1>0, <2>4, <3>2 DEF KnownRequest, Avatar!Writing, Avatar!CacheSet, Cacheable, Avatar!Answers
      <3>4. LookupFits(p) => LookupFits(q)
        BY <1>0, <2>4, <3>2 DEF LookupFits, Avatar!CacheSet, KnownRequest, Announced, Cacheable, Avatar!PicturesAssumption
      <3> QED BY <1>0, <2>4, <3>1, <3>2, <3>3, <3>4 DEF Avatar!Advance, Avatar!CacheSet
    <2> QED BY <2>1, <2>2, <2>3, <2>4
  <1>3. RequestTable' /\ req'[r] = q /\ \A s \in Slots : s # r => req'[s] = req[s]
    BY <1>0, <1>1, <1>2, RequestMoves
  <1>4. RowInv'
    BY <1>0, <1>1, <1>2, <1>3, LookupRow DEF Avatar!Writing
  <1>5. redis' = Avatar!Unknown \/ Cacheable(redis)'
    BY <1>0, <1>1, CacheableFrame DEF PictureTypes, Avatar!ReadRow, Avatar!StreamObject, Avatar!LookOutside, Avatar!CacheSet, Avatar!Server, KnownRequest, Cacheable
  <1>6. UsedShape' /\ (used.faults # 0 => used'.faults # 0)
    BY <1>0, <1>1 DEF PictureTypes, UsedShape, Avatar!Spend
  <1>7. PictureTypes'
    BY <1>0, <1>1, <1>5, <1>6 DEF PictureTypes, TabShape
  <1>8. ShownInv'
    <2>1. \A x : LookupFits(x) => LookupFits(x)'
      BY <1>1 DEF LookupFits, Announced
    <2>2. JustTold' => JustTold
      BY <1>1, <1>6 DEF JustTold
    <2>3. ASSUME JustTold' PROVE \A s \in Slots : LookupFits(req'[s])
      BY <1>0, <1>2, <1>3, <2>2, <2>3 DEF ShownInv, JustTold
    <2> QED BY <1>0, <1>1, <2>2, <2>3 DEF ShownInv, LookupFits, Announced
  <1> QED BY <1>3, <1>4, <1>7, <1>8 DEF AvatarsInv

\* The answer reaches the tab.
LEMMA AnswerKeeps ==
  ASSUME AvatarsInv, NEW r \in Slots, Avatar!Answer(r)
  PROVE  AvatarsInv'
  <1> DEFINE p == req[r]
  <1>0. RequestTable /\ PictureTypes /\ RowInv /\ ShownInv /\ KnownRequest(p) /\ p.op = "resolve" /\ p.at = "answer"
    BY DEF AvatarsInv, RequestTable, Avatar!Answer
  <1>1. UNCHANGED <<plan, logo, path, store, redis, litter, changes, used, spoiled>> /\ req' = [req EXCEPT ![r] = Avatar!NoReq]
    BY DEF Avatar!Answer, Avatar!Server
  <1>2. RequestTable' /\ req'[r] = Avatar!NoReq /\ \A s \in Slots : s # r => req'[s] = req[s]
    BY <1>0, <1>1, NoReqKnown, RequestMoves
  <1>3. RowInv'
    BY <1>0, <1>1, <1>2, NoReqFields, LookupRow DEF Avatar!Writing
  <1>4. /\ TabShape' /\ tab'.data = p.out /\ tab'.told = tab.told /\ tab'.at = tab.at /\ tab'.joined = tab.joined
        /\ tab'.asked \in {"none", tab.asked}
    BY <1>0 DEF PictureTypes, TabShape, Avatar!Answer
  <1>5. redis' = Avatar!Unknown \/ Cacheable(redis)'
    BY <1>0, <1>1, CacheableFrame DEF PictureTypes, Cacheable
  <1>6. p.out \in Avatar!Answers
    BY <1>0 DEF KnownRequest
  <1>7. PictureTypes'
    BY <1>0, <1>1, <1>4, <1>5, <1>6 DEF PictureTypes, UsedShape
  <1>8. ShownInv'
    <2>1. ASSUME JustTold' PROVE JustTold /\ Announced(p.out)
      <3>1. JustTold
        BY <1>1, <1>4, <2>1 DEF JustTold
      <3> QED BY <1>0, <3>1 DEF ShownInv, LookupFits
    <2>2. ASSUME JustTold', NEW s \in Slots PROVE LookupFits(req[s])'
      <3>1. LookupFits(req[s])
        BY <1>0, <2>1, <2>2 DEF ShownInv
      <3> QED BY <1>1, <1>2, <1>4, <3>1, NoReqFields DEF LookupFits, Announced
    <2> QED BY <1>0, <1>1, <1>4, <2>1, <2>2 DEF ShownInv, Announced
  <1> QED BY <1>2, <1>3, <1>7, <1>8 DEF AvatarsInv

--------------------------------------------------------------------------------
\* A request begins.
LEMMA StartKeeps ==
  ASSUME AvatarsInv, NEW r \in Slots, NEW q, KnownRequest(q), Avatar!Start(r, q), q.at = "start",
         UNCHANGED <<plan, logo, Avatar!Server>>, TabShape', UsedShape', used'.faults = used.faults,
         tab'.data = tab.data, tab'.asked \in {"none", "set", "remove", "refetch"}, tab'.at = tab.at, tab'.joined = tab.joined,
         (tab'.told = tab.told /\ tab'.asked = tab.asked) \/ tab'.told \notin Pictures \cup {Avatar!Nothing}
  PROVE  AvatarsInv'
  <1>0. RequestTable /\ PictureTypes /\ RowInv /\ ShownInv /\ KnownRequest(req[r]) /\ req[r].op = "none"
    BY DEF AvatarsInv, RequestTable, Avatar!Start, Avatar!Free
  <1>1. UNCHANGED <<plan, logo, path, store, redis, litter, changes>> /\ req' = [req EXCEPT ![r] = q]
    BY DEF Avatar!Start, Avatar!Server
  <1>2. RequestTable' /\ req'[r] = q /\ \A s \in Slots : s # r => req'[s] = req[s]
    BY <1>0, <1>1, RequestMoves
  <1>3. redis' = Avatar!Unknown \/ Cacheable(redis)'
    BY <1>0, <1>1, CacheableFrame DEF PictureTypes, Cacheable
  <1>4. PictureTypes'
    BY <1>0, <1>1, <1>3 DEF PictureTypes
  <1>5. spoiled => spoiled'
    BY DEF Avatar!Start
  <1>6. RowInv'
    <2>1. ASSUME ~spoiled'
          PROVE  /\ ~spoiled /\ (Avatar!Writing(q) => \A s \in Slots : ~Avatar!Writing(req[s]))
                 /\ (Avatar!Writing(q) => RowMatches)
      BY <1>0, <2>1 DEF Avatar!Start, RowInv
    <2>2. RowMatches => RowMatches'
      BY <1>1 DEF RowMatches
    <2>3. ASSUME NEW s \in Slots, s # r, ChangeStage(req[s]) PROVE ChangeStage(req[s])'
      BY <1>1, <1>2, <2>3 DEF ChangeStage, RowMatches
    <2>4. Avatar!Writing(q) /\ RowMatches => ChangeStage(req[r])'
      BY <1>2, <2>2 DEF ChangeStage
    <2>5. \A s \in Slots : Avatar!Writing(req[s])' <=> Avatar!Writing(req'[s])
      BY DEF Avatar!Writing
    <2>6. ~Avatar!Writing(req[r])
      BY <1>0 DEF Avatar!Writing
    <2> QED BY <1>0, <1>2, <2>1, <2>2, <2>3, <2>4, <2>5, <2>6 DEF RowInv
  <1>7. ShownInv'
    <2>1. ASSUME JustTold' PROVE JustTold /\ tab'.told = tab.told /\ tab'.asked = tab.asked
      BY <1>1, <1>5, <2>1 DEF JustTold
    <2>2. ASSUME JustTold', NEW s \in Slots PROVE LookupFits(req[s])'
      <3>1. LookupFits(req[s])
        BY <1>0, <2>1, <2>2 DEF ShownInv
      <3> QED BY <1>1, <1>2, <2>1, <2>2, <3>1 DEF LookupFits, Announced
    <2> QED BY <1>0, <1>1, <2>1, <2>2 DEF ShownInv, Announced
  <1> QED BY <1>2, <1>4, <1>6, <1>7 DEF AvatarsInv

LEMMA SpendKeeps ==
  ASSUME UsedShape, NEW what \in {"changes", "reads"}, Avatar!Spend(what)
  PROVE  UsedShape' /\ used'.faults = used.faults
  BY DEF UsedShape, Avatar!Spend

LEMMA FaultSpent ==
  ASSUME UsedShape, Avatar!Spend("faults")
  PROVE  UsedShape' /\ used'.faults # 0
  <1>1. used' = [changes |-> used.changes, reads |-> used.reads, faults |-> used.faults + 1]
    BY DEF UsedShape, Avatar!Spend
  <1>2. used'.changes = used.changes /\ used'.reads = used.reads /\ used'.faults = used.faults + 1
    BY <1>1
  <1> QED BY <1>1, <1>2 DEF UsedShape

LEMMA BeginKeeps ==
  ASSUME Avatar!PicturesAssumption, AvatarsInv, NEW r \in Slots,
         \/ Avatar!Query(r) \/ Avatar!ClickRemove(r) \/ Avatar!ClientRemoves(r)
         \/ \E pic \in Pictures : Avatar!Pick(r, pic) \/ \E e \in Exts : Avatar!ClientSets(r, e, pic)
  PROVE  AvatarsInv'
  <1>0. PictureTypes /\ TabShape /\ UsedShape
    BY DEF AvatarsInv, PictureTypes
  <1>1. UsedShape' /\ used'.faults = used.faults /\ UNCHANGED <<plan, logo, Avatar!Server>>
    <2>1. Avatar!Spend("changes") \/ Avatar!Spend("reads")
      BY DEF Avatar!Query, Avatar!ClickRemove, Avatar!ClientRemoves, Avatar!Pick, Avatar!ClientSets
    <2> QED BY <1>0, <2>1, SpendKeeps DEF Avatar!Query, Avatar!ClickRemove, Avatar!ClientRemoves, Avatar!Pick, Avatar!ClientSets
  <1>2. Avatar!Unknown \notin Pictures \cup {Avatar!Nothing} /\ Avatar!CanvasExt \in Exts
    BY DEF Avatar!PicturesAssumption, Avatar!Unknown, Avatar!Nothing
  <1>3. ASSUME Avatar!Query(r) PROVE AvatarsInv'
    <2>1. PICK q : q = [Avatar!NoReq EXCEPT !.op = "resolve", !.at = "start", !.mine = TRUE]
      OBVIOUS
    <2>2. RequestShape(q) /\ q.op = "resolve" /\ q.at = "start" /\ q.mine = TRUE
      BY <2>1, NoReqFields DEF RequestShape
    <2>3. KnownRequest(q) /\ Avatar!Start(r, q) /\ tab' = tab
      BY <1>3, <2>1, <2>2 DEF KnownRequest, Avatar!Writing, Avatar!Query
    <2> QED BY <1>0, <1>1, <2>2, <2>3, StartKeeps DEF PictureTypes, TabShape
  <1>4. ASSUME Avatar!ClientRemoves(r) PROVE AvatarsInv'
    <2>1. PICK q : q = [Avatar!NoReq EXCEPT !.op = "remove", !.at = "start"]
      OBVIOUS
    <2>2. RequestShape(q) /\ q.op = "remove" /\ q.at = "start" /\ q.pic = Avatar!Nothing
      BY <2>1, NoReqFields DEF RequestShape
    <2>3. KnownRequest(q) /\ Avatar!Start(r, q) /\ tab' = tab
      BY <1>4, <2>1, <2>2 DEF KnownRequest, Avatar!Writing, Avatar!ClientRemoves
    <2> QED BY <1>0, <1>1, <2>2, <2>3, StartKeeps DEF PictureTypes, TabShape
  <1>5. ASSUME NEW pic \in Pictures, NEW e \in Exts, Avatar!ClientSets(r, e, pic) PROVE AvatarsInv'
    <2>1. PICK q : q = [Avatar!NoReq EXCEPT !.op = "set", !.at = "start", !.ext = e, !.pic = pic]
      OBVIOUS
    <2>2. RequestShape(q) /\ q.op = "set" /\ q.at = "start" /\ q.ext = e /\ q.pic = pic
      BY <2>1, NoReqFields DEF RequestShape
    <2>3. KnownRequest(q) /\ Avatar!Start(r, q) /\ tab' = tab
      BY <1>5, <2>1, <2>2 DEF KnownRequest, Avatar!Writing, Avatar!ClientSets
    <2> QED BY <1>0, <1>1, <2>2, <2>3, StartKeeps DEF PictureTypes, TabShape
  <1>6. ASSUME Avatar!ClickRemove(r) PROVE AvatarsInv'
    <2>1. PICK q : q = [Avatar!NoReq EXCEPT !.op = "remove", !.at = "start", !.mine = TRUE]
      OBVIOUS
    <2>2. RequestShape(q) /\ q.op = "remove" /\ q.at = "start" /\ q.pic = Avatar!Nothing
      BY <2>1, NoReqFields DEF RequestShape
    <2>3. KnownRequest(q) /\ Avatar!Start(r, q)
      BY <1>6, <2>1, <2>2 DEF KnownRequest, Avatar!Writing, Avatar!ClickRemove
    <2>4. /\ TabShape' /\ tab'.data = tab.data /\ tab'.asked = "remove" /\ tab'.at = tab.at /\ tab'.joined = tab.joined
          /\ tab'.told = Avatar!Unknown
      BY <1>0, <1>6 DEF TabShape, Avatar!ClickRemove
    <2> QED BY <1>1, <1>2, <2>2, <2>3, <2>4, StartKeeps
  <1>7. ASSUME NEW pic \in Pictures, Avatar!Pick(r, pic) PROVE AvatarsInv'
    <2>1. PICK q : q = [Avatar!NoReq EXCEPT !.op = "set", !.at = "start", !.ext = Avatar!CanvasExt, !.pic = pic, !.mine = TRUE]
      OBVIOUS
    <2>2. RequestShape(q) /\ q.op = "set" /\ q.at = "start" /\ q.ext = Avatar!CanvasExt /\ q.pic = pic
      BY <2>1, NoReqFields DEF RequestShape
    <2>3. KnownRequest(q) /\ Avatar!Start(r, q)
      BY <1>2, <1>7, <2>1, <2>2 DEF KnownRequest, Avatar!Writing, Avatar!Pick
    <2>4. /\ TabShape' /\ tab'.data = tab.data /\ tab'.asked = "set" /\ tab'.at = tab.at /\ tab'.joined = tab.joined
          /\ tab'.told = Avatar!Unknown
      BY <1>0, <1>7 DEF TabShape, Avatar!Pick
    <2> QED BY <1>1, <1>2, <2>2, <2>3, <2>4, StartKeeps
  <1> QED BY <1>3, <1>4, <1>5, <1>6, <1>7

--------------------------------------------------------------------------------
\* The steps of a change.  The stage of the one that moves is the whole of RowInv.
LEMMA StageRow ==
  ASSUME RowInv, NEW r \in Slots, Avatar!Writing(req[r]), spoiled' = spoiled, Avatar!Writing(req'[r]),
         \A s \in Slots : s # r => req'[s] = req[s], ~spoiled => ChangeStage(req[r])'
  PROVE  RowInv'
  <1>1. \A s \in Slots : Avatar!Writing(req[s])' <=> Avatar!Writing(req'[s])
    BY DEF Avatar!Writing
  <1> QED BY <1>1 DEF RowInv

LEMMA ReadPreviousKeeps ==
  ASSUME AvatarsInv, NEW r \in Slots, Avatar!ReadPrevious(r)
  PROVE  AvatarsInv'
  <1> DEFINE p == req[r]
  <1>0. RequestTable /\ PictureTypes /\ RowInv /\ ShownInv /\ KnownRequest(p) /\ Avatar!Writing(p) /\ p.at = "start"
    BY DEF AvatarsInv, RequestTable, Avatar!ReadPrevious
  <1>1. UNCHANGED <<plan, logo, path, store, redis, litter, changes, tab, used, spoiled>>
    BY DEF Avatar!ReadPrevious, Avatar!Server
  <1>2. PICK q : q = [p EXCEPT !.at = IF p.op = "set" THEN "put" ELSE "clean", !.old = path]
    OBVIOUS
  <1>3. /\ RequestShape(q) /\ q.op = p.op /\ q.ext = p.ext /\ q.pic = p.pic /\ q.mine = p.mine /\ q.old = path
        /\ q.at = (IF p.op = "set" THEN "put" ELSE "clean") /\ req' = [req EXCEPT ![r] = q]
    BY <1>0, <1>2 DEF KnownRequest, RequestShape, Avatar!ReadPrevious, Avatar!Advance
  <1>4. KnownRequest(q) /\ Avatar!Writing(q)
    BY <1>0, <1>3 DEF KnownRequest, Avatar!Writing
  <1>5. RequestTable' /\ req'[r] = q /\ \A s \in Slots : s # r => req'[s] = req[s]
    BY <1>0, <1>1, <1>3, <1>4, RequestMoves
  <1>6. ASSUME ~spoiled PROVE ChangeStage(req[r])'
    <2>1. ChangeStage(p)
      BY <1>0, <1>6 DEF RowInv
    <2>2. RowMatches'
      BY <1>0, <1>1, <2>1 DEF ChangeStage, RowMatches
    <2> QED BY <1>0, <1>1, <1>3, <1>5, <2>2 DEF ChangeStage, Avatar!Writing
  <1>7. RowInv'
    BY <1>0, <1>1, <1>4, <1>5, <1>6, StageRow
  <1>8. PictureTypes'
    BY <1>0, <1>1, CacheableFrame DEF PictureTypes, TabShape, UsedShape, Cacheable
  <1>9. ShownInv'
    <2>1. ASSUME NEW s \in Slots, LookupFits(req[s]) PROVE LookupFits(req[s])'
      <3>1. CASE s = r
        BY <1>4, <1>5, <3>1 DEF LookupFits, Avatar!Writing
      <3>2. CASE s # r
        BY <1>1, <1>5, <2>1, <3>2 DEF LookupFits, Announced
      <3> QED BY <3>1, <3>2
    <2> QED BY <1>0, <1>1, <2>1 DEF ShownInv, JustTold, Announced
  <1> QED BY <1>5, <1>7, <1>8, <1>9 DEF AvatarsInv

LEMMA PutPictureKeeps ==
  ASSUME Avatar!PicturesAssumption, AvatarsInv, NEW r \in Slots, Avatar!PutObject(r)
  PROVE  AvatarsInv'
  <1> DEFINE p == req[r]
  <1>0. RequestTable /\ PictureTypes /\ RowInv /\ ShownInv /\ KnownRequest(p) /\ Avatar!Writing(p) /\ p.op = "set" /\ p.at = "put"
    BY DEF AvatarsInv, RequestTable, Avatar!PutObject, Avatar!Writing
  <1>1. UNCHANGED <<plan, logo, path, redis, litter, spoiled>>
    BY DEF Avatar!PutObject
  <1>e. p.ext \in Exts /\ p.pic \in Pictures /\ p.pic # Avatar!Nothing /\ "none" \notin Exts
    BY <1>0 DEF KnownRequest, Avatar!PicturesAssumption
  <1>c. redis' = Avatar!Unknown \/ Cacheable(redis)'
    BY <1>0, <1>1, CacheableFrame DEF PictureTypes, Cacheable
  <1>2. CASE /\ store' = [store EXCEPT ![p.ext] = p.pic] /\ Avatar!Advance(r, [p EXCEPT !.at = "clean"])
             /\ changes' = changes + 1 /\ UNCHANGED <<tab, used>>
    <2>1. PICK q : q = [p EXCEPT !.at = "clean"]
      OBVIOUS
    <2>2. /\ RequestShape(q) /\ q.op = p.op /\ q.ext = p.ext /\ q.pic = p.pic /\ q.mine = p.mine /\ q.old = p.old
          /\ q.at = "clean" /\ req' = [req EXCEPT ![r] = q]
      BY <1>0, <1>2, <2>1 DEF KnownRequest, RequestShape, Avatar!Advance
    <2>3. KnownRequest(q) /\ Avatar!Writing(q)
      BY <1>0, <2>2 DEF KnownRequest, Avatar!Writing
    <2>4. RequestTable' /\ req'[r] = q /\ \A s \in Slots : s # r => req'[s] = req[s]
      BY <1>0, <1>1, <2>2, <2>3, RequestMoves
    <2>5. /\ store' \in [Exts -> Pictures \cup {Avatar!Nothing}] /\ store'[p.ext] = p.pic
          /\ \A e \in Exts : e # p.ext => store'[e] = store[e]
      BY <1>0, <1>2, <1>e DEF PictureTypes
    <2>6. ASSUME ~spoiled PROVE ChangeStage(req[r])'
      <3>1. RowMatches /\ p.old = path
        BY <1>0, <2>6 DEF RowInv, ChangeStage
      <3> QED BY <1>0, <1>1, <1>e, <2>2, <2>4, <2>5, <3>1 DEF ChangeStage, RowMatches
    <2>7. RowInv'
      BY <1>0, <1>1, <2>3, <2>4, <2>6, StageRow
    <2>8. PictureTypes' /\ ~JustTold'
      BY <1>0, <1>1, <1>2, <1>c, <2>5 DEF PictureTypes, TabShape, UsedShape, JustTold
    <2> QED BY <2>4, <2>7, <2>8 DEF AvatarsInv, ShownInv
  <1>3. CASE Avatar!Spend("faults") /\ Avatar!Failed(r) /\ UNCHANGED <<store, changes>>
    <2>1. RequestTable' /\ req'[r] = Avatar!NoReq /\ \A s \in Slots : s # r => req'[s] = req[s]
      BY <1>0, <1>1, <1>3, NoReqKnown, RequestMoves DEF Avatar!Failed
    <2>2. UsedShape' /\ used'.faults # 0
      BY <1>0, <1>3, FaultSpent DEF PictureTypes
    <2>3. TabShape' /\ tab'.data = tab.data /\ tab'.at = tab.at /\ tab'.asked \in {"none", tab.asked}
      BY <1>0, <1>3 DEF PictureTypes, TabShape, Avatar!Failed
    <2>4. PictureTypes'
      BY <1>0, <1>1, <1>3, <1>c, <2>2, <2>3 DEF PictureTypes
    <2>5. ASSUME ~spoiled PROVE RowMatches' /\ \A s \in Slots : ~Avatar!Writing(req[s])'
      <3>1. RowMatches
        BY <1>0, <2>5 DEF RowInv, ChangeStage
      <3>2. \A s \in Slots : s # r => ~Avatar!Writing(req[s])
        BY <1>0, <2>5 DEF RowInv
      <3> QED BY <1>1, <1>3, <2>1, <3>1, <3>2, NoReqFields DEF RowMatches, Avatar!Writing
    <2>6. RowInv'
      BY <1>1, <2>5 DEF RowInv
    <2>7. ShownInv'
      BY <2>2 DEF ShownInv, JustTold
    <2> QED BY <2>1, <2>4, <2>6, <2>7 DEF AvatarsInv
  <1> QED BY <1>2, <1>3 DEF Avatar!PutObject

LEMMA CleanUpKeeps ==
  ASSUME Avatar!PicturesAssumption, AvatarsInv, NEW r \in Slots, Avatar!CleanUp(r)
  PROVE  AvatarsInv'
  <1> DEFINE p == req[r]
  <1> DEFINE gone == Avatar!CleanOld(req[r])
  <1>0. RequestTable /\ PictureTypes /\ RowInv /\ ShownInv /\ KnownRequest(p) /\ Avatar!Writing(p) /\ p.at = "clean"
    BY DEF AvatarsInv, RequestTable, Avatar!CleanUp
  <1>1. UNCHANGED <<plan, logo, path, redis, tab, spoiled>> /\ changes' = changes + 1
    BY DEF Avatar!CleanUp
  <1>2. PICK q : q = [p EXCEPT !.at = "update"]
    OBVIOUS
  <1>3. /\ RequestShape(q) /\ q.op = p.op /\ q.ext = p.ext /\ q.pic = p.pic /\ q.mine = p.mine /\ q.old = p.old
        /\ q.at = "update" /\ req' = [req EXCEPT ![r] = q]
    BY <1>0, <1>2 DEF KnownRequest, RequestShape, Avatar!CleanUp, Avatar!Advance
  <1>4. KnownRequest(q) /\ Avatar!Writing(q)
    BY <1>0, <1>3 DEF KnownRequest, Avatar!Writing
  <1>5. RequestTable' /\ req'[r] = q /\ \A s \in Slots : s # r => req'[s] = req[s]
    BY <1>0, <1>1, <1>3, <1>4, RequestMoves
  <1>6. /\ store' \in [Exts -> Pictures \cup {Avatar!Nothing}]
        /\ \A e \in Exts : e # gone => store'[e] = store[e]
        /\ ~litter' => ~litter /\ \A e \in Exts : e = gone => store'[e] = Avatar!Nothing
    <2>1. "none" \notin Exts
      BY DEF Avatar!PicturesAssumption
    <2> QED BY <1>0, <2>1 DEF Avatar!CleanUp, PictureTypes
  <1>7. UsedShape'
    BY <1>0 DEF Avatar!CleanUp, PictureTypes, UsedShape, Avatar!Spend
  <1>8. ASSUME ~spoiled PROVE ChangeStage(req[r])'
    <2>1. ChangeStage(p) /\ p.old = path
      BY <1>0, <1>8 DEF RowInv, ChangeStage
    <2>2. CASE p.op = "set"
      <3>1. p.ext \in Exts /\ gone # p.ext /\ "none" \notin Exts
        BY <1>0, <2>2 DEF KnownRequest, Avatar!CleanOld, Avatar!PicturesAssumption
      <3>2. store'[p.ext] = p.pic
        BY <1>0, <1>6, <2>1, <2>2, <3>1 DEF ChangeStage
      <3>3. ASSUME ~litter', NEW e \in Exts, store'[e] # Avatar!Nothing PROVE e = p.ext
        <4>1. e # gone /\ store[e] # Avatar!Nothing /\ e \in {path, p.ext}
          BY <1>0, <1>6, <2>1, <2>2, <3>3 DEF ChangeStage
        <4> QED BY <2>1, <2>2, <4>1 DEF Avatar!CleanOld
      <3> QED BY <1>3, <1>5, <2>2, <3>2, <3>3 DEF ChangeStage
    <2>3. CASE p.op = "remove"
      <3>1. gone = path /\ RowMatches
        BY <1>0, <2>1, <2>3 DEF Avatar!CleanOld, ChangeStage
      <3> QED BY <1>3, <1>5, <1>6, <2>3, <3>1 DEF ChangeStage, RowMatches
    <2> QED BY <1>0, <2>2, <2>3 DEF Avatar!Writing
  <1>9. RowInv'
    BY <1>0, <1>1, <1>4, <1>5, <1>8, StageRow
  <1>10. PictureTypes' /\ ~JustTold'
    <2>1. redis' = Avatar!Unknown \/ Cacheable(redis)'
      BY <1>0, <1>1, CacheableFrame DEF PictureTypes, Cacheable
    <2> QED BY <1>0, <1>1, <1>6, <1>7, <2>1 DEF PictureTypes, TabShape, JustTold
  <1> QED BY <1>5, <1>9, <1>10 DEF AvatarsInv, ShownInv

\* The row is written: the change is over, and the tab announces it.
LEMMA UpdateKeeps ==
  ASSUME Avatar!PicturesAssumption, AvatarsInv, NEW r \in Slots, Avatar!UpdateRow(r)
  PROVE  AvatarsInv'
  <1> DEFINE p == req[r]
  <1>0. RequestTable /\ PictureTypes /\ RowInv /\ ShownInv /\ KnownRequest(p) /\ Avatar!Writing(p) /\ p.at = "update"
    BY DEF AvatarsInv, RequestTable, Avatar!UpdateRow
  <1>1. /\ UNCHANGED <<plan, logo, store, redis, used, spoiled, litter>> /\ changes' = changes + 1
        /\ path' = IF p.op = "set" THEN p.ext ELSE "none"
    BY DEF Avatar!UpdateRow
  <1>2. /\ req' = [s \in Slots |-> req'[s]] /\ req'[r] = Avatar!NoReq
        /\ \A s \in Slots : req'[s] = Avatar!NoReq \/ req'[s] = req[s]
        /\ \A s \in Slots : s # r /\ Avatar!Writing(req[s]) => req'[s] = req[s]
        /\ \A s \in Slots : p.mine /\ tab.data # Avatar!Unknown /\ req[s].op = "resolve" /\ req[s].mine => req'[s] = Avatar!NoReq
    BY DEF Avatar!UpdateRow, Avatar!Writing
  <1>3. RequestTable'
    <2>1. \A s \in Slots : KnownRequest(req'[s])
      BY <1>0, <1>2, NoReqKnown DEF RequestTable
    <2>2. \A s \in Slots : KnownRequest(req[s])'
      BY <1>1, <2>1 DEF KnownRequest, RequestShape, Avatar!Writing, Cacheable
    <2> QED BY <1>2, <2>2 DEF RequestTable
  <1>4. ASSUME ~spoiled PROVE RowMatches' /\ \A s \in Slots : ~Avatar!Writing(req[s])'
    <2>1. ChangeStage(p) /\ \A s \in Slots : s # r => ~Avatar!Writing(req[s])
      BY <1>0, <1>4 DEF RowInv
    <2>2. \A s \in Slots : ~Avatar!Writing(req[s])'
      BY <1>2, <2>1, NoReqFields DEF Avatar!Writing
    <2>3. RowMatches'
      BY <1>0, <1>1, <2>1 DEF ChangeStage, RowMatches, Avatar!Writing, KnownRequest, Avatar!PicturesAssumption
    <2> QED BY <2>2, <2>3
  <1>5. RowInv'
    BY <1>1, <1>4 DEF RowInv
  <1>6. /\ TabShape' /\ tab'.data = tab.data
        /\ ~p.mine => tab' = tab
        /\ p.mine => /\ tab'.asked = "refetch" /\ tab'.told = p.pic /\ tab'.at = changes + 1
                     /\ tab'.joined = (Avatar!Reading /\ tab.data = Avatar!Unknown)
    <2>1. CASE ~p.mine
      BY <1>0, <2>1 DEF Avatar!UpdateRow, PictureTypes, TabShape
    <2>2. CASE p.mine
      <3>1. PICK t : t = [tab EXCEPT !.asked = "refetch", !.joined = Avatar!Reading /\ tab.data = Avatar!Unknown]
        OBVIOUS
      <3>2. /\ t = [data |-> t.data, preview |-> t.preview, open |-> t.open, asked |-> t.asked, told |-> t.told,
                    at |-> t.at, joined |-> t.joined]
            /\ t.data = tab.data /\ t.asked = "refetch" /\ t.joined = (Avatar!Reading /\ tab.data = Avatar!Unknown)
        BY <1>0, <3>1 DEF PictureTypes, TabShape
      <3>3. tab' = [t EXCEPT !.told = p.pic, !.at = changes + 1]
        BY <2>2, <3>1 DEF Avatar!UpdateRow, Avatar!Settled
      <3> QED BY <2>2, <3>2, <3>3 DEF TabShape
    <2> QED BY <2>1, <2>2
  <1>7. PictureTypes'
    <2>1. redis' = Avatar!Unknown \/ Cacheable(redis)'
      BY <1>0, <1>1, CacheableFrame DEF PictureTypes, Cacheable
    <2>2. path' \in Exts \cup {"none"}
      BY <1>0, <1>1 DEF KnownRequest
    <2> QED BY <1>0, <1>1, <1>6, <2>1, <2>2 DEF PictureTypes, UsedShape
  <1>8. ShownInv'
    <2> SUFFICES ASSUME JustTold'
                 PROVE  /\ IF tab'.told = Avatar!Nothing THEN path' = "none" ELSE path' \in Exts /\ store'[path'] = tab'.told
                        /\ tab'.asked # "none"
                        /\ \A s \in Slots : LookupFits(req[s])'
      BY DEF ShownInv
    <2>1. p.mine
      BY <1>0, <1>1, <1>6 DEF JustTold, PictureTypes
    <2>2. ~spoiled /\ tab'.told = p.pic
      BY <1>1, <1>6, <2>1 DEF JustTold
    <2>3. IF p.pic = Avatar!Nothing THEN path' = "none" ELSE path' \in Exts /\ store[path'] = p.pic
      <3>1. CASE p.op = "set"
        BY <1>0, <1>1, <2>2, <3>1 DEF RowInv, ChangeStage, KnownRequest, Avatar!PicturesAssumption
      <3>2. CASE p.op = "remove"
        BY <1>0, <1>1, <3>2 DEF KnownRequest
      <3> QED BY <1>0, <3>1, <3>2 DEF Avatar!Writing
    <2>4. tab.data # Avatar!Unknown \/ ~Avatar!Reading
      BY <1>6, <2>1 DEF JustTold
    <2>5. ASSUME NEW s \in Slots PROVE req'[s].op # "resolve"
      <3>1. req[s].op = "resolve" => req[s].mine
        BY <1>0 DEF RequestTable, KnownRequest
      <3> QED BY <1>2, <2>1, <2>4, <3>1, NoReqFields DEF Avatar!Reading
    <2> QED BY <1>1, <1>6, <2>1, <2>2, <2>3, <2>5 DEF LookupFits
  <1> QED BY <1>3, <1>5, <1>7, <1>8 DEF AvatarsInv

--------------------------------------------------------------------------------
\* The dialog, the cache and the clock.
LEMMA QuietKeeps ==
  ASSUME AvatarsInv, Avatar!CacheExpires \/ Avatar!OpenDialog \/ Avatar!CloseDialog \/ UNCHANGED Avatar!vars
  PROVE  AvatarsInv'
  <1>0. RequestTable /\ PictureTypes /\ RowInv /\ ShownInv
    BY DEF AvatarsInv
  <1>1. UNCHANGED <<plan, logo, path, store, litter, changes, req, used, spoiled>> /\ redis' \in {redis, Avatar!Unknown}
    BY DEF Avatar!CacheExpires, Avatar!OpenDialog, Avatar!CloseDialog, Avatar!Server, Avatar!vars
  <1>2. /\ TabShape' /\ tab'.data = tab.data /\ tab'.asked = tab.asked /\ tab'.told = tab.told /\ tab'.at = tab.at
        /\ tab'.joined = tab.joined
    <2>1. CASE tab' = tab
      BY <1>0, <2>1 DEF PictureTypes, TabShape
    <2>2. CASE Avatar!OpenDialog \/ Avatar!CloseDialog
      BY <1>0, <2>2 DEF Avatar!OpenDialog, Avatar!CloseDialog, PictureTypes, TabShape
    <2> QED BY <2>1, <2>2 DEF Avatar!CacheExpires, Avatar!vars
  <1>3. RequestTable'
    BY <1>0, <1>1 DEF RequestTable, KnownRequest, RequestShape, Avatar!Writing, Cacheable
  <1>4. redis' = Avatar!Unknown \/ Cacheable(redis)'
    BY <1>0, <1>1 DEF PictureTypes, Cacheable
  <1>5. PictureTypes'
    BY <1>0, <1>1, <1>2, <1>4 DEF PictureTypes, UsedShape
  <1>6. RowInv'
    BY <1>0, <1>1, LookupRow
  <1>7. ShownInv'
    <2>1. \A s \in Slots : LookupFits(req[s]) => LookupFits(req[s])'
      BY <1>1, <1>2 DEF LookupFits, Announced
    <2>2. JustTold' => JustTold
      BY <1>1, <1>2 DEF JustTold
    <2> QED BY <1>0, <1>1, <1>2, <2>1, <2>2 DEF ShownInv, Announced
  <1> QED BY <1>3, <1>5, <1>6, <1>7 DEF AvatarsInv

LEMMA ReloadKeeps ==
  ASSUME AvatarsInv, Avatar!Reload
  PROVE  AvatarsInv'
  <1>0. RequestTable /\ PictureTypes /\ RowInv /\ ShownInv
    BY DEF AvatarsInv
  <1>1. UNCHANGED <<plan, logo, path, store, redis, litter, changes, spoiled>> /\ Avatar!Spend("faults") /\ tab' = Avatar!NoTab
    BY DEF Avatar!Reload, Avatar!Server
  <1>2. ASSUME NEW s \in Slots
        PROVE  /\ KnownRequest(req'[s]) /\ (Avatar!Writing(req'[s]) <=> Avatar!Writing(req[s]))
               /\ Avatar!Writing(req[s]) => /\ req'[s].at = req[s].at /\ req'[s].op = req[s].op /\ req'[s].ext = req[s].ext
                                            /\ req'[s].pic = req[s].pic /\ req'[s].old = req[s].old
    <2>0. KnownRequest(req[s])
      BY <1>0 DEF RequestTable
    <2>1. CASE req[s].op = "resolve"
      <3>1. req'[s] = Avatar!NoReq
        BY <2>1 DEF Avatar!Reload
      <3> QED BY <2>1, <3>1, NoReqKnown DEF Avatar!Writing
    <2>2. CASE req[s].op # "resolve"
      <3>1. PICK q : q = [req[s] EXCEPT !.mine = FALSE]
        OBVIOUS
      <3>2. /\ RequestShape(q) /\ q.op = req[s].op /\ q.at = req[s].at /\ q.ext = req[s].ext /\ q.pic = req[s].pic
            /\ q.old = req[s].old /\ q.out = req[s].out
        BY <2>0, <3>1 DEF KnownRequest, RequestShape
      <3>3. req'[s] = q
        BY <2>2, <3>1 DEF Avatar!Reload
      <3>4. KnownRequest(q)
        BY <2>0, <2>2, <3>2 DEF KnownRequest, Avatar!Writing
      <3> QED BY <3>2, <3>3, <3>4 DEF Avatar!Writing
    <2> QED BY <2>1, <2>2
  <1>3. RequestTable'
    <2>1. \A s \in Slots : KnownRequest(req[s])'
      BY <1>1, <1>2 DEF KnownRequest, RequestShape, Avatar!Writing, Cacheable
    <2>2. req' = [s \in Slots |-> req'[s]]
      BY DEF Avatar!Reload
    <2> QED BY <2>1, <2>2 DEF RequestTable
  <1>4. RowInv'
    <2>1. RowMatches => RowMatches'
      BY <1>1 DEF RowMatches
    <2>2. ASSUME NEW s \in Slots, Avatar!Writing(req[s]), ChangeStage(req[s]) PROVE ChangeStage(req[s])'
      BY <1>1, <1>2, <2>1, <2>2 DEF ChangeStage
    <2>3. \A s \in Slots : Avatar!Writing(req[s])' <=> Avatar!Writing(req[s])
      BY <1>2 DEF Avatar!Writing
    <2> QED BY <1>0, <1>1, <2>1, <2>2, <2>3 DEF RowInv
  <1>5. UsedShape' /\ used'.faults # 0
    BY <1>0, <1>1, FaultSpent DEF PictureTypes
  <1>6. /\ TabShape' /\ tab'.data = Avatar!Unknown /\ tab'.asked = "none" /\ tab'.at = 0
    BY <1>1 DEF Avatar!NoTab, TabShape
  <1>7. redis' = Avatar!Unknown \/ Cacheable(redis)'
    BY <1>0, <1>1, CacheableFrame DEF PictureTypes, Cacheable
  <1>8. PictureTypes' /\ ~JustTold'
    BY <1>0, <1>1, <1>5, <1>6, <1>7 DEF PictureTypes, JustTold
  <1> QED BY <1>3, <1>4, <1>8 DEF AvatarsInv, ShownInv

\* The process dies: a change that had not yet touched the objects leaves them as they were.
LEMMA ProcessDeathKeeps ==
  ASSUME AvatarsInv, Avatar!Crash
  PROVE  AvatarsInv'
  <1>0. RequestTable /\ PictureTypes /\ RowInv /\ ShownInv
    BY DEF AvatarsInv
  <1>1. UNCHANGED <<plan, logo, path, store, redis, litter, changes>> /\ Avatar!Spend("faults")
    BY DEF Avatar!Crash, Avatar!Server
  <1>2. \A s \in Slots : req'[s] = Avatar!NoReq
    BY DEF Avatar!Crash
  <1>3. RequestTable'
    <2>1. \A s \in Slots : KnownRequest(req[s])'
      BY <1>1, <1>2, NoReqKnown DEF KnownRequest, RequestShape, Avatar!Writing, Cacheable
    <2>2. req' = [s \in Slots |-> req'[s]]
      BY DEF Avatar!Crash
    <2> QED BY <2>1, <2>2 DEF RequestTable
  <1>4. ASSUME ~spoiled' PROVE RowMatches
    <2>1. ~spoiled /\ \A s \in Slots : req[s].at \notin {"clean", "update"}
      BY <1>4 DEF Avatar!Crash
    <2>2. CASE \E s \in Slots : Avatar!Writing(req[s])
      <3>1. PICK s \in Slots : Avatar!Writing(req[s])
        BY <2>2
      <3> QED BY <1>0, <2>1, <3>1 DEF RowInv, ChangeStage, RequestTable, KnownRequest
    <2> QED BY <1>0, <2>1, <2>2 DEF RowInv
  <1>5. RowInv'
    <2>1. \A s \in Slots : ~Avatar!Writing(req[s])'
      BY <1>2, NoReqFields DEF Avatar!Writing
    <2>2. RowMatches => RowMatches'
      BY <1>1 DEF RowMatches
    <2> QED BY <1>4, <2>1, <2>2 DEF RowInv
  <1>6. UsedShape' /\ used'.faults # 0
    BY <1>0, <1>1, FaultSpent DEF PictureTypes
  <1>7. TabShape' /\ tab'.data = tab.data /\ tab'.asked = "none" /\ tab'.at = tab.at
    BY <1>0 DEF PictureTypes, TabShape, Avatar!Crash
  <1>8. redis' = Avatar!Unknown \/ Cacheable(redis)'
    BY <1>0, <1>1, CacheableFrame DEF PictureTypes, Cacheable
  <1>9. PictureTypes' /\ ~JustTold'
    BY <1>0, <1>1, <1>6, <1>7, <1>8 DEF PictureTypes, JustTold
  <1> QED BY <1>3, <1>5, <1>9 DEF AvatarsInv, ShownInv

--------------------------------------------------------------------------------
LEMMA AvatarsInit ==
  ASSUME Avatar!PicturesAssumption, Avatar!Init
  PROVE  AvatarsInv
  <1>1. \A r \in Slots : req[r] = Avatar!NoReq
    BY DEF Avatar!Init
  <1>2. RequestTable
    <2>1. req = [r \in Slots |-> req[r]]
      BY DEF Avatar!Init
    <2> QED BY <1>1, <2>1, NoReqKnown DEF RequestTable
  <1>3. TabShape /\ tab.data = Avatar!Unknown /\ tab.asked = "none" /\ tab.at = 0 /\ tab.told = Avatar!Unknown
    BY DEF Avatar!Init, Avatar!NoTab, TabShape
  <1>4. UsedShape
    BY DEF Avatar!Init, UsedShape
  <1>5. PictureTypes
    BY <1>3, <1>4 DEF Avatar!Init, PictureTypes
  <1>6. RowInv
    BY <1>1, NoReqKnown DEF Avatar!Init, RowInv, RowMatches
  <1>7. ~JustTold
    BY <1>3 DEF JustTold, Avatar!PicturesAssumption, Avatar!Nothing, Avatar!Unknown
  <1> QED BY <1>2, <1>5, <1>6, <1>7 DEF AvatarsInv, ShownInv

LEMMA AvatarsStep ==
  ASSUME Avatar!PicturesAssumption, AvatarsInv, [Avatar!Next]_(Avatar!vars)
  PROVE  AvatarsInv'
  <1>1. CASE Avatar!CacheExpires \/ Avatar!OpenDialog \/ Avatar!CloseDialog \/ UNCHANGED Avatar!vars
    BY <1>1, QuietKeeps
  <1>2. CASE Avatar!Reload
    BY <1>2, ReloadKeeps
  <1>3. CASE Avatar!Crash
    BY <1>3, ProcessDeathKeeps
  <1>4. ASSUME NEW r \in Slots, Avatar!ReadPrevious(r) \/ Avatar!PutObject(r) \/ Avatar!CleanUp(r) \/ Avatar!UpdateRow(r)
        PROVE  AvatarsInv'
    BY <1>4, ReadPreviousKeeps, PutPictureKeeps, CleanUpKeeps, UpdateKeeps
  <1>5. ASSUME NEW r \in Slots, Avatar!ReadRow(r) \/ Avatar!StreamObject(r) \/ Avatar!LookOutside(r) \/ Avatar!CacheSet(r) \/ Avatar!Answer(r)
        PROVE  AvatarsInv'
    BY <1>5, LookupKeeps, AnswerKeeps
  <1>6. ASSUME NEW r \in Slots,
               \/ Avatar!Query(r) \/ Avatar!ClickRemove(r) \/ Avatar!ClientRemoves(r)
               \/ \E pic \in Pictures : Avatar!Pick(r, pic) \/ \E e \in Exts : Avatar!ClientSets(r, e, pic)
        PROVE  AvatarsInv'
    BY <1>6, BeginKeeps
  <1> QED BY <1>1, <1>2, <1>3, <1>4, <1>5, <1>6 DEF Avatar!Next

LEMMA AvatarsSafe ==
  ASSUME AvatarsInv
  PROVE  Avatar!AvatarSound
  <1>0. RequestTable /\ PictureTypes /\ RowInv /\ ShownInv
    BY DEF AvatarsInv
  <1>1. Avatar!TypeOK
    BY <1>0 DEF PictureTypes, Avatar!TypeOK, Cacheable
  <1>2. Avatar!RowNamesObject
    BY <1>0 DEF Avatar!RowNamesObject, RowInv, RowMatches
  <1>3. Avatar!AnnouncedIsShown
    BY <1>0 DEF Avatar!AnnouncedIsShown, ShownInv, JustTold, Announced
  <1> QED BY <1>1, <1>2, <1>3 DEF Avatar!AvatarSound

\* Whatever setProfileAvatar, removeProfileAvatar, resolveForEmail and the
\* picture dialog do in any order, with failing stores, reloads and a dying
\* process: the row names a stored picture unless two changes overlapped or
\* one died half way, and a tab that announced a picture or its removal shows
\* that, unless something failed or changed since.
THEOREM AvatarsAreSound ==
  ASSUME Avatar!PicturesAssumption
  PROVE  Avatar!Spec => []Avatar!AvatarSound
  <1>1. Avatar!Init => AvatarsInv
    BY AvatarsInit
  <1>2. AvatarsInv /\ [Avatar!Next]_(Avatar!vars) => AvatarsInv'
    BY AvatarsStep
  <1>3. AvatarsInv => Avatar!AvatarSound
    BY AvatarsSafe
  <1> QED BY <1>1, <1>2, <1>3, PTL DEF Avatar!Spec

--------------------------------------------------------------------------------
(* The service worker's cache. *)

\* The answers, the puts under way and the subscription.
Copies == Offline!Absent .. MaxVersion
FetchShape(f) == f = [url |-> f.url, at |-> f.at, by |-> f.by, awaited |-> f.awaited, seen |-> f.seen]
FetchTable ==
  /\ fetch = [s \in Offline!Slots |-> fetch[s]]
  /\ \A s \in Offline!Slots : /\ FetchShape(fetch[s]) /\ fetch[s].url \in Offline!Urls
                              /\ fetch[s].at = "answered" => fetch[s].seen \in {Offline!Refused} \cup 1 .. MaxVersion
CacheTypes ==
  /\ caches \in [{Offline!OlderCache, Offline!CACHE} -> [Offline!Urls -> Copies]]
  /\ version \in [Offline!Urls -> 1 .. MaxVersion]
  /\ page \in [Offline!Urls -> Offline!Stored] /\ best \in [Offline!Urls -> Copies]
  /\ \A p \in puts : p.url \in Offline!Urls /\ p.ver \in 1 .. MaxVersion
PushInv ==
  /\ push = [at |-> push.at, sub |-> push.sub, told |-> push.told]
  /\ push.at = "post" \/ push.told = "enabled" => push.sub

\* The worker's reads and puts begin once it is active, and by then the older caches are gone.
WorkerInv ==
  /\ worker # "active" => /\ puts = {} /\ \A u \in Offline!Urls : best[u] = Offline!Absent
                          /\ \A s \in Offline!Slots : fetch[s].at # "none" => fetch[s].by = "page"
  /\ worker = "active" => \A u \in Offline!Urls : caches[Offline!OlderCache][u] = Offline!Absent
  /\ \A s \in Offline!Slots : fetch[s].at = "catch" => fetch[s].by = "worker"

\* Of a request that never overlapped or lost a put: one read or one put at a time, the put is of the last answer,
\* and with no put under way the cache has the last answer.
Reads(s, u) == fetch[s].at # "none" /\ fetch[s].url = u
CopyInv ==
  \A u \in Offline!Urls \ crossed :
    /\ \A s, t \in Offline!Slots : Reads(s, u) /\ Reads(t, u) => s = t
    /\ \A p \in puts : p.url = u => p.ver = best[u] /\ \A s \in Offline!Slots : ~Reads(s, u)
    /\ (\A p \in puts : p.url # u) /\ best[u] # Offline!Absent => caches[Offline!CACHE][u] = best[u]

\* The inductive invariant.
OfflineInv == FetchTable /\ CacheTypes /\ PushInv /\ WorkerInv /\ CopyInv

--------------------------------------------------------------------------------
LEMMA NoFetchFields ==
  FetchShape(Offline!NoFetch) /\ Offline!NoFetch.url \in Offline!Urls /\ Offline!NoFetch.at = "none"
  BY DEF FetchShape, Offline!NoFetch, Offline!Urls

LEMMA OfflineInit ==
  ASSUME Offline!VersionsAssumption, Offline!Init
  PROVE  OfflineInv
  <1>1. FetchTable
    BY NoFetchFields DEF Offline!Init, FetchTable
  <1>2. CacheTypes
    <2>1. {Offline!Absent, 1} \subseteq Copies /\ Offline!Absent \in Offline!Stored
      BY DEF Offline!VersionsAssumption, Copies, Offline!Absent, Offline!Stored
    <2>2. caches \in [{Offline!OlderCache, Offline!CACHE} -> [Offline!Urls -> Copies]]
      BY <2>1 DEF Offline!Init
    <2> QED BY <2>1, <2>2 DEF Offline!Init, CacheTypes, Offline!VersionsAssumption
  <1>3. PushInv
    BY DEF Offline!Init, PushInv
  <1>4. WorkerInv
    BY NoFetchFields DEF Offline!Init, WorkerInv
  <1>5. CopyInv
    BY NoFetchFields DEF Offline!Init, CopyInv, Reads
  <1> QED BY <1>1, <1>2, <1>3, <1>4, <1>5 DEF OfflineInv

\* enablePush touches nothing else.
LEMMA PushKeeps ==
  ASSUME OfflineInv, Offline!EnablePush \/ Offline!Permission \/ Offline!Subscribe \/ Offline!PostSubscription
  PROVE  OfflineInv'
  <1>1. UNCHANGED <<worker, caches, version, online, fetch, puts, page, best, crossed>>
    BY DEF Offline!EnablePush, Offline!Permission, Offline!Subscribe, Offline!PostSubscription, Offline!Wire, Offline!View
  <1>2. PushInv'
    <2>1. PushInv
      BY DEF OfflineInv
    <2>2. CASE Offline!EnablePush
      BY <2>1, <2>2 DEF Offline!EnablePush, PushInv
    <2>3. CASE Offline!Permission
      BY <2>1, <2>3 DEF Offline!Permission, PushInv
    <2>4. CASE Offline!Subscribe
      BY <2>1, <2>4 DEF Offline!Subscribe, PushInv
    <2>5. CASE Offline!PostSubscription
      BY <2>1, <2>5 DEF Offline!PostSubscription, PushInv
    <2> QED BY <2>2, <2>3, <2>4, <2>5
  <1> QED BY <1>1, <1>2 DEF OfflineInv, FetchTable, CacheTypes, WorkerInv, CopyInv, Reads, Copies

\* The worker's life, the server, the network and the page.
LEMMA LifeKeeps ==
  ASSUME Offline!VersionsAssumption, OfflineInv, Offline!Install \/ Offline!Activate \/ Offline!ServerChanges \/ Offline!NetworkChanges \/ Offline!Logout \/ UNCHANGED Offline!vars
  PROVE  OfflineInv'
  <1>0. FetchTable /\ CacheTypes /\ PushInv /\ WorkerInv /\ CopyInv
    BY DEF OfflineInv
  <1>1. UNCHANGED <<puts, best, crossed, push>>
    BY DEF Offline!Install, Offline!Activate, Offline!ServerChanges, Offline!NetworkChanges, Offline!Logout, Offline!Wire, Offline!View, Offline!vars
  <1>2. /\ FetchTable'
        /\ \A s \in Offline!Slots : fetch'[s].at = fetch[s].at /\ fetch'[s].url = fetch[s].url /\ fetch'[s].by = fetch[s].by
    <2>1. CASE Offline!Logout
      <3>1. ASSUME NEW s \in Offline!Slots
            PROVE  /\ FetchShape(fetch'[s]) /\ fetch'[s].at = fetch[s].at /\ fetch'[s].url = fetch[s].url
                   /\ fetch'[s].by = fetch[s].by /\ fetch'[s].seen = fetch[s].seen
        <4>1. fetch'[s] = [fetch[s] EXCEPT !.awaited = fetch[s].at = "none"]
          BY <2>1 DEF Offline!Logout
        <4>2. FetchShape(fetch[s])
          BY <1>0 DEF FetchTable
        <4> QED BY <4>1, <4>2 DEF FetchShape
      <3>2. fetch' = [s \in Offline!Slots |-> fetch'[s]]
        BY <2>1 DEF Offline!Logout
      <3> QED BY <1>0, <3>1, <3>2 DEF FetchTable, FetchShape
    <2>2. CASE fetch' = fetch
      BY <1>0, <2>2 DEF FetchTable, FetchShape
    <2> QED BY <2>1, <2>2 DEF Offline!Install, Offline!Activate, Offline!ServerChanges, Offline!NetworkChanges, Offline!vars
  <1>3. /\ caches' \in [{Offline!OlderCache, Offline!CACHE} -> [Offline!Urls -> Copies]]
        /\ worker # "none" => caches'[Offline!CACHE] = caches[Offline!CACHE]
        /\ worker' = "active" => \A u \in Offline!Urls : caches'[Offline!OlderCache][u] = Offline!Absent
    <2>1. CASE Offline!Install
      <3>0. version[Offline!OFFLINE_URL] \in Copies /\ Offline!Absent \in Copies
        BY <1>0 DEF CacheTypes, Copies, Offline!Urls, Offline!Absent, Offline!VersionsAssumption
      <3>1. PICK got \in Copies : caches' = [caches EXCEPT ![Offline!CACHE][Offline!OFFLINE_URL] = got]
        BY <2>1, <3>0 DEF Offline!Install
      <3>2. worker = "none" /\ worker' = "installed"
        BY <2>1 DEF Offline!Install
      <3>3. caches' = [caches EXCEPT ![Offline!CACHE] = [caches[Offline!CACHE] EXCEPT ![Offline!OFFLINE_URL] = got]]
        BY <3>1
      <3> QED BY <1>0, <3>2, <3>3 DEF CacheTypes
    <2>2. CASE Offline!Activate
      <3>1. Offline!Absent \in Copies /\ Offline!OlderCache # Offline!CACHE
        BY DEF Copies, Offline!Absent, Offline!VersionsAssumption, Offline!OlderCache, Offline!CACHE
      <3>2. DOMAIN caches = {Offline!OlderCache, Offline!CACHE}
        BY <1>0 DEF CacheTypes
      <3> QED BY <1>0, <2>2, <3>1, <3>2 DEF Offline!Activate, CacheTypes
    <2>3. CASE caches' = caches /\ worker' = worker
      BY <1>0, <2>3 DEF CacheTypes, WorkerInv
    <2> QED BY <2>1, <2>2, <2>3 DEF Offline!ServerChanges, Offline!NetworkChanges, Offline!Logout, Offline!vars
  <1>4. version' \in [Offline!Urls -> 1 .. MaxVersion]
    <2>1. CASE Offline!ServerChanges
      <3>1. "/v1/read" \in Offline!Urls /\ version["/v1/read"] \in 1 .. MaxVersion
        BY <1>0 DEF Offline!Urls, CacheTypes
      <3>2. version["/v1/read"] + 1 \in 1 .. MaxVersion
        BY <2>1, <3>1 DEF Offline!ServerChanges, Offline!VersionsAssumption
      <3> QED BY <1>0, <2>1, <3>1, <3>2 DEF Offline!ServerChanges, CacheTypes
    <2> QED BY <1>0, <2>1 DEF CacheTypes, Offline!Install, Offline!Activate, Offline!NetworkChanges, Offline!Logout, Offline!Wire, Offline!vars
  <1>5. page' \in [Offline!Urls -> Offline!Stored]
    BY <1>0 DEF CacheTypes, Offline!Install, Offline!Activate, Offline!ServerChanges, Offline!NetworkChanges, Offline!Logout, Offline!View, Offline!vars, Offline!Stored
  <1>6. CacheTypes'
    BY <1>0, <1>1, <1>3, <1>4, <1>5 DEF CacheTypes, Copies, Offline!Stored
  <1>7. worker' = worker \/ worker # "active"
    BY DEF Offline!Install, Offline!Activate, Offline!ServerChanges, Offline!NetworkChanges, Offline!Logout, Offline!vars
  <1>8. WorkerInv'
    <2>1. ASSUME worker' # "active" PROVE worker # "active"
      BY <1>7, <2>1
    <2> QED BY <1>0, <1>1, <1>2, <1>3, <2>1 DEF WorkerInv
  <1>9. CopyInv'
    <2>1. ASSUME NEW u \in Offline!Urls, best[u] # Offline!Absent PROVE caches'[Offline!CACHE][u] = caches[Offline!CACHE][u]
      <3>1. worker = "active"
        BY <1>0, <2>1 DEF WorkerInv
      <3> QED BY <1>3, <3>1
    <2>2. \A s \in Offline!Slots, u \in Offline!Urls : Reads(s, u)' <=> Reads(s, u)
      BY <1>2 DEF Reads
    <2> QED BY <1>0, <1>1, <2>1, <2>2 DEF CopyInv
  <1>10. PushInv'
    BY <1>0, <1>1 DEF PushInv
  <1> QED BY <1>2, <1>6, <1>8, <1>9, <1>10 DEF OfflineInv

\* A request is sent, or answered from the cache.
LEMMA RequestKeeps ==
  ASSUME OfflineInv, NEW s \in Offline!Slots, NEW u \in Offline!Urls, Offline!Request(s, u)
  PROVE  OfflineInv'
  <1>0. FetchTable /\ CacheTypes /\ PushInv /\ WorkerInv /\ CopyInv
    BY DEF OfflineInv
  <1>1. UNCHANGED <<worker, caches, version, online, puts, best, push>> /\ crossed \subseteq crossed'
    BY DEF Offline!Request, Offline!Wire, Offline!View
  <1>2. u \notin crossed' => (\A t \in Offline!Slots : ~Reads(t, u)) /\ \A p \in puts : p.url # u
    BY DEF Offline!Request, Reads
  <1>3. page' \in [Offline!Urls -> Offline!Stored]
    <2>1. Offline!Match(u) \in Offline!Stored
      BY <1>0 DEF Offline!Match, CacheTypes, Copies, Offline!Stored, Offline!Absent
    <2> QED BY <1>0, <2>1 DEF Offline!Request, CacheTypes, Offline!View
  <1>4. CASE fetch' = fetch
    <2>1. FetchTable' /\ CacheTypes' /\ PushInv' /\ WorkerInv' /\ CopyInv'
      BY <1>0, <1>1, <1>3, <1>4 DEF FetchTable, CacheTypes, PushInv, WorkerInv, CopyInv, Reads, FetchShape, Copies, Offline!Stored
    <2> QED BY <2>1 DEF OfflineInv
  <1>5. CASE fetch' # fetch
    <2>1. PICK f : /\ f = [Offline!NoFetch EXCEPT !.url = u, !.at = "wire", !.by = IF worker = "active" THEN "worker" ELSE "page"]
                   /\ fetch' = [fetch EXCEPT ![s] = f]
      BY <1>5 DEF Offline!Request
    <2>2. FetchShape(f) /\ f.url = u /\ f.at = "wire" /\ (worker # "active" => f.by = "page")
      BY <2>1 DEF FetchShape, Offline!NoFetch
    <2>3. fetch' = [t \in Offline!Slots |-> fetch'[t]] /\ fetch'[s] = f /\ \A t \in Offline!Slots : t # s => fetch'[t] = fetch[t]
      BY <1>0, <2>1 DEF FetchTable
    <2>4. FetchTable'
      BY <1>0, <2>2, <2>3 DEF FetchTable, FetchShape
    <2>5. WorkerInv'
      BY <1>0, <1>1, <2>2, <2>3 DEF WorkerInv
    <2>6. CopyInv'
      <3>1. fetch[s].at = "none"
        BY DEF Offline!Request
      <3>2. \A t \in Offline!Slots, z \in Offline!Urls : Reads(t, z)' <=> Reads(t, z) \/ (t = s /\ z = u)
        BY <2>2, <2>3, <3>1 DEF Reads
      <3> QED BY <1>0, <1>1, <1>2, <3>2 DEF CopyInv
    <2>7. CacheTypes' /\ PushInv'
      BY <1>0, <1>1, <1>3 DEF CacheTypes, PushInv, Copies, Offline!Stored
    <2> QED BY <2>4, <2>5, <2>6, <2>7 DEF OfflineInv
  <1> QED BY <1>4, <1>5

LEMMA AnswersKeep ==
  ASSUME OfflineInv, NEW s \in Offline!Slots, Offline!ServerAnswers(s)
  PROVE  OfflineInv'
  <1>0. FetchTable /\ CacheTypes /\ PushInv /\ WorkerInv /\ CopyInv
    BY DEF OfflineInv
  <1>1. UNCHANGED <<worker, caches, version, online, puts, page, best, crossed, push>>
    BY DEF Offline!ServerAnswers, Offline!Wire, Offline!View
  <1>2. PICK v \in {version[fetch[s].url], Offline!Refused} : fetch' = [fetch EXCEPT ![s].at = "answered", ![s].seen = v]
    BY DEF Offline!ServerAnswers
  <1>3. FetchShape(fetch[s]) /\ fetch[s].url \in Offline!Urls /\ fetch[s].at = "wire"
    BY <1>0 DEF FetchTable, Offline!ServerAnswers
  <1>4. PICK f : f = [fetch[s] EXCEPT !.at = "answered", !.seen = v]
    OBVIOUS
  <1>5. FetchShape(f) /\ f.url = fetch[s].url /\ f.at = "answered" /\ f.by = fetch[s].by /\ f.seen = v
    BY <1>3, <1>4 DEF FetchShape
  <1>6. fetch' = [t \in Offline!Slots |-> fetch'[t]] /\ fetch'[s] = f /\ \A t \in Offline!Slots : t # s => fetch'[t] = fetch[t]
    BY <1>0, <1>2, <1>4 DEF FetchTable
  <1>7. v \in {Offline!Refused} \cup 1 .. MaxVersion
    BY <1>0, <1>2, <1>3 DEF CacheTypes
  <1>8. FetchTable'
    BY <1>0, <1>3, <1>5, <1>6, <1>7 DEF FetchTable, FetchShape
  <1>9. WorkerInv'
    BY <1>0, <1>1, <1>3, <1>5, <1>6 DEF WorkerInv
  <1>10. CopyInv'
    <2>1. \A t \in Offline!Slots, z \in Offline!Urls : Reads(t, z)' <=> Reads(t, z)
      BY <1>3, <1>5, <1>6 DEF Reads
    <2> QED BY <1>0, <1>1, <2>1 DEF CopyInv
  <1>11. CacheTypes' /\ PushInv'
    BY <1>0, <1>1 DEF CacheTypes, PushInv, Copies, Offline!Stored
  <1> QED BY <1>8, <1>9, <1>10, <1>11 DEF OfflineInv

\* A slot is free again.
LEMMA SlotFreed ==
  ASSUME FetchTable, NEW s \in Offline!Slots, fetch' = [fetch EXCEPT ![s] = Offline!NoFetch]
  PROVE  /\ FetchTable' /\ fetch'[s] = Offline!NoFetch /\ \A t \in Offline!Slots : t # s => fetch'[t] = fetch[t]
         /\ \A t \in Offline!Slots, u \in Offline!Urls : Reads(t, u)' <=> Reads(t, u) /\ t # s
  <1>1. fetch' = [t \in Offline!Slots |-> fetch'[t]] /\ fetch'[s] = Offline!NoFetch /\ \A t \in Offline!Slots : t # s => fetch'[t] = fetch[t]
    BY DEF FetchTable
  <1>2. FetchTable'
    BY <1>1, NoFetchFields DEF FetchTable, FetchShape
  <1>3. \A t \in Offline!Slots, u \in Offline!Urls : Reads(t, u)' <=> Reads(t, u) /\ t # s
    BY <1>1, NoFetchFields DEF Reads
  <1> QED BY <1>1, <1>2, <1>3

LEMMA DeliverKeeps ==
  ASSUME OfflineInv, NEW s \in Offline!Slots, Offline!Deliver(s)
  PROVE  OfflineInv'
  <1> DEFINE u == fetch[s].url
             v == fetch[s].seen
  <1>0. FetchTable /\ CacheTypes /\ PushInv /\ WorkerInv /\ CopyInv
    BY DEF OfflineInv
  <1>1. UNCHANGED <<worker, caches, version, online, crossed, push>> /\ fetch[s].at = "answered"
    BY DEF Offline!Deliver, Offline!Wire
  <1>2. u \in Offline!Urls /\ v \in {Offline!Refused} \cup 1 .. MaxVersion /\ Reads(s, u)
    BY <1>0, <1>1 DEF FetchTable, Reads
  <1>3. /\ FetchTable' /\ fetch'[s] = Offline!NoFetch /\ \A t \in Offline!Slots : t # s => fetch'[t] = fetch[t]
        /\ \A t \in Offline!Slots, z \in Offline!Urls : Reads(t, z)' <=> Reads(t, z) /\ t # s
    BY <1>0, SlotFreed DEF Offline!Deliver, Offline!Answered
  <1>4. page' \in [Offline!Urls -> Offline!Stored]
    BY <1>0, <1>2 DEF Offline!Deliver, Offline!Answered, CacheTypes, Offline!Stored
  <1>5. CASE fetch[s].by = "worker" /\ v # Offline!Refused
    <2>1. PICK p : p = [url |-> u, ver |-> v]
      OBVIOUS
    <2>2. puts' = puts \cup {p} /\ p.url = u /\ p.ver = v /\ best' = [best EXCEPT ![u] = v]
      BY <1>5, <2>1 DEF Offline!Deliver
    <2>3. v \in 1 .. MaxVersion /\ v \in Copies
      BY <1>2, <1>5 DEF Copies, Offline!Absent
    <2>4. best' \in [Offline!Urls -> Copies] /\ best'[u] = v /\ \A z \in Offline!Urls : z # u => best'[z] = best[z]
      BY <1>0, <1>2, <2>2, <2>3 DEF CacheTypes
    <2>5. CacheTypes'
      BY <1>0, <1>1, <1>2, <1>4, <2>2, <2>3, <2>4 DEF CacheTypes, Copies, Offline!Stored
    <2>6. worker = "active"
      BY <1>0, <1>1, <1>5 DEF WorkerInv
    <2>7. WorkerInv'
      BY <1>0, <1>1, <1>3, <2>6, NoFetchFields DEF WorkerInv
    <2>8. CopyInv'
      <3> SUFFICES ASSUME NEW z \in Offline!Urls \ crossed
                   PROVE  /\ \A a, t \in Offline!Slots : Reads(a, z)' /\ Reads(t, z)' => a = t
                          /\ \A w \in puts' : w.url = z => w.ver = best'[z] /\ \A t \in Offline!Slots : ~Reads(t, z)'
                          /\ (\A w \in puts' : w.url # z) /\ best'[z] # Offline!Absent => caches'[Offline!CACHE][z] = best'[z]
        BY <1>1 DEF CopyInv
      <3>1. CASE z = u
        BY <1>0, <1>1, <1>2, <1>3, <2>2, <2>4, <3>1 DEF CopyInv
      <3>2. CASE z # u
        BY <1>0, <1>1, <1>2, <1>3, <2>2, <2>4, <3>2 DEF CopyInv
      <3> QED BY <3>1, <3>2
    <2> QED BY <1>0, <1>1, <1>3, <2>5, <2>7, <2>8 DEF OfflineInv, PushInv
  <1>6. CASE ~(fetch[s].by = "worker" /\ v # Offline!Refused)
    <2>1. UNCHANGED <<puts, best>>
      BY <1>6 DEF Offline!Deliver
    <2>2. CacheTypes' /\ PushInv'
      BY <1>0, <1>1, <1>4, <2>1 DEF CacheTypes, PushInv, Copies, Offline!Stored
    <2>3. WorkerInv'
      BY <1>0, <1>1, <1>3, <2>1, NoFetchFields DEF WorkerInv
    <2>4. CopyInv'
      BY <1>0, <1>1, <1>3, <2>1 DEF CopyInv
    <2> QED BY <1>3, <2>2, <2>3, <2>4 DEF OfflineInv
  <1> QED BY <1>5, <1>6

\* A rejected await ends in the catch, or fails the request.
LEMMA ThrowsKeeps ==
  ASSUME OfflineInv, NEW s \in Offline!Slots, Offline!Throws(s), fetch[s].at # "none",
         UNCHANGED <<worker, caches, version, online, puts, best, crossed, push>>
  PROVE  OfflineInv'
  <1>0. FetchTable /\ CacheTypes /\ PushInv /\ WorkerInv /\ CopyInv /\ FetchShape(fetch[s]) /\ fetch[s].url \in Offline!Urls
    BY DEF OfflineInv, FetchTable
  <1>1. CASE fetch[s].by = "worker" /\ ~Offline!isStaticAsset(fetch[s].url)
    <2>1. PICK f : f = [fetch[s] EXCEPT !.at = "catch"]
      OBVIOUS
    <2>2. FetchShape(f) /\ f.url = fetch[s].url /\ f.at = "catch" /\ f.by = "worker"
      BY <1>0, <1>1, <2>1 DEF FetchShape
    <2>3. page' = page /\ fetch' = [fetch EXCEPT ![s] = f]
      BY <1>1, <2>1 DEF Offline!Throws
    <2>4. fetch' = [t \in Offline!Slots |-> fetch'[t]] /\ fetch'[s] = f /\ \A t \in Offline!Slots : t # s => fetch'[t] = fetch[t]
      BY <1>0, <2>3 DEF FetchTable
    <2>5. FetchTable'
      BY <1>0, <2>2, <2>4 DEF FetchTable, FetchShape
    <2>6. WorkerInv'
      BY <1>0, <1>1, <2>2, <2>4 DEF WorkerInv
    <2>7. \A t \in Offline!Slots, z \in Offline!Urls : Reads(t, z)' <=> Reads(t, z)
      BY <2>2, <2>4 DEF Reads
    <2>8. CopyInv'
      BY <1>0, <2>7 DEF CopyInv
    <2>9. CacheTypes' /\ PushInv'
      BY <1>0, <2>3 DEF CacheTypes, PushInv, Copies, Offline!Stored
    <2> QED BY <2>5, <2>6, <2>8, <2>9 DEF OfflineInv
  <1>2. CASE ~(fetch[s].by = "worker" /\ ~Offline!isStaticAsset(fetch[s].url))
    <2>1. /\ FetchTable' /\ fetch'[s] = Offline!NoFetch /\ \A t \in Offline!Slots : t # s => fetch'[t] = fetch[t]
          /\ \A t \in Offline!Slots, z \in Offline!Urls : Reads(t, z)' <=> Reads(t, z) /\ t # s
      BY <1>0, <1>2, SlotFreed DEF Offline!Throws, Offline!Answered
    <2>2. page' \in [Offline!Urls -> Offline!Stored]
      BY <1>0, <1>2 DEF Offline!Throws, Offline!Answered, CacheTypes, Offline!Stored
    <2>3. CacheTypes' /\ PushInv'
      BY <1>0, <2>2 DEF CacheTypes, PushInv, Copies, Offline!Stored
    <2>4. WorkerInv'
      BY <1>0, <2>1, NoFetchFields DEF WorkerInv
    <2>5. CopyInv'
      BY <1>0, <2>1 DEF CopyInv
    <2> QED BY <2>1, <2>3, <2>4, <2>5 DEF OfflineInv
  <1> QED BY <1>1, <1>2

LEMMA FailsKeep ==
  ASSUME OfflineInv, NEW s \in Offline!Slots, Offline!NetworkFails(s) \/ Offline!OpenFails(s)
  PROVE  OfflineInv'
  <1>1. /\ Offline!Throws(s) /\ fetch[s].at # "none"
        /\ UNCHANGED <<worker, caches, version, online, puts, best, crossed, push>>
    BY DEF Offline!NetworkFails, Offline!OpenFails, Offline!Wire
  <1> QED BY <1>1, ThrowsKeeps

LEMMA FallsBackKeeps ==
  ASSUME OfflineInv, NEW s \in Offline!Slots, Offline!FallsBack(s)
  PROVE  OfflineInv'
  <1>0. FetchTable /\ CacheTypes /\ PushInv /\ WorkerInv /\ CopyInv
    BY DEF OfflineInv
  <1>1. UNCHANGED <<worker, caches, version, online, puts, best, crossed, push>>
    BY DEF Offline!FallsBack, Offline!Wire
  <1>2. /\ FetchTable' /\ fetch'[s] = Offline!NoFetch /\ \A t \in Offline!Slots : t # s => fetch'[t] = fetch[t]
        /\ \A t \in Offline!Slots, z \in Offline!Urls : Reads(t, z)' <=> Reads(t, z) /\ t # s
    BY <1>0, SlotFreed DEF Offline!FallsBack, Offline!Answered
  <1>3. page' \in [Offline!Urls -> Offline!Stored]
    <2>1. \A u \in Offline!Urls : Offline!Match(u) \in Offline!Stored
      BY <1>0 DEF Offline!Match, CacheTypes, Copies, Offline!Stored, Offline!Absent
    <2>2. fetch[s].url \in Offline!Urls /\ Offline!OFFLINE_URL \in Offline!Urls
      BY <1>0 DEF FetchTable, Offline!Urls
    <2>3. Offline!Failed \in Offline!Stored
      BY DEF Offline!Stored
    <2>4. Offline!Fallback(fetch[s].url) \in Offline!Stored
      BY <2>1, <2>2, <2>3 DEF Offline!Fallback
    <2> QED BY <1>0, <2>2, <2>3, <2>4 DEF Offline!FallsBack, Offline!Answered, CacheTypes
  <1>4. CacheTypes' /\ PushInv'
    BY <1>0, <1>1, <1>3 DEF CacheTypes, PushInv, Copies, Offline!Stored
  <1>5. WorkerInv'
    BY <1>0, <1>1, <1>2, NoFetchFields DEF WorkerInv
  <1>6. CopyInv'
    BY <1>0, <1>1, <1>2 DEF CopyInv
  <1> QED BY <1>2, <1>4, <1>5, <1>6 DEF OfflineInv

LEMMA PutLostKeeps ==
  ASSUME OfflineInv, NEW p \in puts, Offline!PutLost(p)
  PROVE  OfflineInv'
  <1>0. FetchTable /\ CacheTypes /\ PushInv /\ WorkerInv /\ CopyInv
    BY DEF OfflineInv
  <1>1. /\ UNCHANGED <<worker, caches, version, online, fetch, page, best, push>>
        /\ puts' = puts \ {p} /\ crossed' = crossed \cup {p.url}
    BY DEF Offline!PutLost, Offline!Wire, Offline!View
  <1>2. CacheTypes' /\ PushInv' /\ FetchTable' /\ WorkerInv'
    BY <1>0, <1>1 DEF CacheTypes, PushInv, FetchTable, FetchShape, WorkerInv, Copies, Offline!Stored
  <1>3. \A t \in Offline!Slots, z \in Offline!Urls : Reads(t, z)' <=> Reads(t, z)
    BY <1>1 DEF Reads
  <1>4. CopyInv'
    BY <1>0, <1>1, <1>3 DEF CopyInv
  <1> QED BY <1>2, <1>4 DEF OfflineInv

LEMMA PutLandsKeeps ==
  ASSUME OfflineInv, NEW p \in puts, Offline!PutLands(p)
  PROVE  OfflineInv'
  <1>0. FetchTable /\ CacheTypes /\ PushInv /\ WorkerInv /\ CopyInv
    BY DEF OfflineInv
  <1>1. UNCHANGED <<worker, version, online, fetch, page, best, crossed, push>> /\ puts' = puts \ {p}
    BY DEF Offline!PutLands, Offline!Wire, Offline!View
  <1>2. p.url \in Offline!Urls /\ p.ver \in Copies /\ worker = "active"
    BY <1>0 DEF CacheTypes, Copies, Offline!Absent, WorkerInv
  <1>3. caches' = [caches EXCEPT ![Offline!CACHE] = [caches[Offline!CACHE] EXCEPT ![p.url] = p.ver]]
    BY DEF Offline!PutLands
  <1>4. /\ caches' \in [{Offline!OlderCache, Offline!CACHE} -> [Offline!Urls -> Copies]] /\ caches'[Offline!OlderCache] = caches[Offline!OlderCache]
        /\ caches'[Offline!CACHE][p.url] = p.ver /\ \A z \in Offline!Urls : z # p.url => caches'[Offline!CACHE][z] = caches[Offline!CACHE][z]
    <2>1. Offline!OlderCache # Offline!CACHE
      BY DEF Offline!OlderCache, Offline!CACHE
    <2> QED BY <1>0, <1>2, <1>3, <2>1 DEF CacheTypes
  <1>5. CacheTypes' /\ PushInv' /\ FetchTable'
    BY <1>0, <1>1, <1>4 DEF CacheTypes, PushInv, FetchTable, FetchShape, Copies, Offline!Stored
  <1>6. WorkerInv'
    BY <1>0, <1>1, <1>2, <1>4 DEF WorkerInv
  <1>7. CopyInv'
    <2>1. \A t \in Offline!Slots, z \in Offline!Urls : Reads(t, z)' <=> Reads(t, z)
      BY <1>1 DEF Reads
    <2> SUFFICES ASSUME NEW z \in Offline!Urls \ crossed
                 PROVE  /\ \A a, t \in Offline!Slots : Reads(a, z)' /\ Reads(t, z)' => a = t
                        /\ \A w \in puts' : w.url = z => w.ver = best'[z] /\ \A t \in Offline!Slots : ~Reads(t, z)'
                        /\ (\A w \in puts' : w.url # z) /\ best'[z] # Offline!Absent => caches'[Offline!CACHE][z] = best'[z]
      BY <1>1 DEF CopyInv
    <2>2. p.url = z => p.ver = best[z]
      BY <1>0 DEF CopyInv
    <2> QED BY <1>0, <1>1, <1>4, <2>1, <2>2 DEF CopyInv
  <1> QED BY <1>5, <1>6, <1>7 DEF OfflineInv

LEMMA OfflineStep ==
  ASSUME Offline!VersionsAssumption, OfflineInv, [Offline!Next]_(Offline!vars)
  PROVE  OfflineInv'
  BY PushKeeps, LifeKeeps, RequestKeeps, AnswersKeep, DeliverKeeps, FailsKeep, FallsBackKeeps, PutLandsKeeps, PutLostKeeps DEF Offline!Next

LEMMA OfflineSafe ==
  ASSUME OfflineInv
  PROVE  Offline!OfflineSound
  <1>1. Offline!TypeOK
    BY DEF OfflineInv, CacheTypes, PushInv, Offline!TypeOK, Copies
  <1>2. Offline!LastKnownCopy
    BY DEF OfflineInv, CopyInv, Offline!LastKnownCopy
  <1>3. Offline!OneRelease
    BY DEF OfflineInv, WorkerInv, Offline!OneRelease
  <1> QED BY <1>1, <1>2, <1>3 DEF Offline!OfflineSound

\* What the page newly shows online came from the network, or out of the catch.
LEMMA OfflineFresh ==
  ASSUME OfflineInv, [Offline!Next]_(Offline!vars)
  PROVE  Offline!FreshOnline
  <1>0. page \in [Offline!Urls -> Offline!Stored] /\ \A s \in Offline!Slots : fetch[s].url \in Offline!Urls
    BY DEF OfflineInv, CacheTypes, FetchTable
  <1> SUFFICES ASSUME NEW u \in Offline!Urls, ~Offline!isStaticAsset(u), online,
                      page'[u] # page[u], page'[u] # Offline!Absent, page'[u] # Offline!Failed
               PROVE  Offline!FromNetwork(u) \/ Offline!FromCatch(u)
    BY DEF Offline!FreshOnline
  <1>1. ASSUME NEW s \in Offline!Slots, Offline!Deliver(s) PROVE Offline!FromNetwork(u)
    BY <1>0, <1>1 DEF Offline!Deliver, Offline!Answered, Offline!FromNetwork
  <1>2. ASSUME NEW s \in Offline!Slots, NEW z \in Offline!Urls, Offline!Request(s, z) PROVE FALSE
    BY <1>0, <1>2 DEF Offline!Request, Offline!CacheFirst, Offline!View
  <1>3. ASSUME NEW s \in Offline!Slots, Offline!NetworkFails(s) \/ Offline!OpenFails(s) PROVE FALSE
    BY <1>0, <1>3 DEF Offline!NetworkFails, Offline!OpenFails, Offline!Throws, Offline!Answered
  <1>4. ASSUME NEW s \in Offline!Slots, Offline!FallsBack(s) PROVE Offline!FromCatch(u)
    <2>1. fetch[s].at = "catch" /\ fetch[s].url = u /\ page'[u] = Offline!Fallback(u)
      BY <1>0, <1>4 DEF Offline!FallsBack, Offline!Answered
    <2>2. fetch[s].by = "worker"
      BY <2>1 DEF OfflineInv, WorkerInv
    <2>3. worker = "active"
      BY <2>1, <2>2 DEF OfflineInv, WorkerInv
    <2>4. Offline!Match(u) = caches[Offline!CACHE][u]
      BY <2>3 DEF OfflineInv, WorkerInv, Offline!Match
    <2>5. ASSUME u \notin crossed, best[u] # Offline!Absent, \A p \in puts : p.url # u PROVE page'[u] = best[u]
      <3>1. caches[Offline!CACHE][u] = best[u]
        BY <2>5 DEF OfflineInv, CopyInv
      <3> QED BY <2>1, <2>4, <2>5, <3>1 DEF Offline!Fallback
    <2> QED BY <2>1, <2>5 DEF Offline!FromCatch
  <1>5. CASE Offline!Logout
    BY <1>5 DEF Offline!Logout
  <1>6. CASE page' = page
    BY <1>6
  <1>7. ASSUME NEW s \in Offline!Slots, Offline!ServerAnswers(s) PROVE page' = page
    BY <1>7 DEF Offline!ServerAnswers, Offline!View
  <1>8. ASSUME NEW p \in puts, Offline!PutLands(p) \/ Offline!PutLost(p) PROVE page' = page
    BY <1>8 DEF Offline!PutLands, Offline!PutLost, Offline!View
  <1>9. CASE Offline!Install \/ Offline!Activate \/ Offline!ServerChanges \/ Offline!NetworkChanges
    BY <1>6, <1>9 DEF Offline!Install, Offline!Activate, Offline!ServerChanges, Offline!NetworkChanges, Offline!View
  <1>10. CASE Offline!EnablePush \/ Offline!Permission \/ Offline!Subscribe \/ Offline!PostSubscription
    BY <1>6, <1>10 DEF Offline!EnablePush, Offline!Permission, Offline!Subscribe, Offline!PostSubscription, Offline!View
  <1> QED BY <1>1, <1>2, <1>3, <1>4, <1>5, <1>6, <1>7, <1>8, <1>9, <1>10 DEF Offline!Next, Offline!vars

\* The service worker's cache, for any number of reads and versions, with fetches, cache opens and
\* puts that fail: once the puts have landed it has the last answer the page got, unless two reads of
\* it overlapped or a put was lost, and no older release's cache stays in use.
THEOREM OfflineCacheIsSound ==
  ASSUME Offline!VersionsAssumption
  PROVE  Offline!Spec => []Offline!OfflineSound
  <1>1. Offline!Init => OfflineInv
    BY OfflineInit
  <1>2. OfflineInv /\ [Offline!Next]_(Offline!vars) => OfflineInv'
    BY OfflineStep
  <1>3. OfflineInv => Offline!OfflineSound
    BY OfflineSafe
  <1> QED BY <1>1, <1>2, <1>3, PTL DEF Offline!Spec

--------------------------------------------------------------------------------
(* The compose panel. *)

\* The panel: which instance is mounted, and what its timer and its flags presuppose.
Shown == ui # "closed"
PanelInv ==
  /\ panelPlan \in PanelPlans /\ panelPlan.opens \in Nat
  /\ inst \in 0..panelPlan.opens
  /\ ui \in {"closed", "open", "minimized"}
  /\ Shown => inst \in Compose!Panels
  /\ timer => Shown
  /\ ui = "minimized" => marks.wiped

\* The records and tables have these fields and domains; an instance not yet mounted did nothing.
Saves  == {"idle", "call", "appended", "answer"}
Tables ==
  /\ save = [i \in Compose!Panels |-> save[i]]
  /\ draftUid = [i \in Compose!Panels |-> draftUid[i]]
  /\ discard = [i \in Compose!Panels |-> discard[i]]
  /\ \A i \in Compose!Panels :
       /\ save[i] = [at |-> save[i].at, body |-> save[i].body, replace |-> save[i].replace, uid |-> save[i].uid]
       /\ save[i].at \in Saves
       /\ i > inst => save[i] = Compose!NoSave /\ draftUid[i] = 0 /\ discard[i] = {}
MarksShape ==
  marks = [typed |-> marks.typed, lost |-> marks.lost, overtaken |-> marks.overtaken, skipped |-> marks.skipped,
           wiped |-> marks.wiped, last |-> marks.last]

\* The send mutation and the sendRow it made.
Sent    == {"accepted", "shown", "over"}
PostInv ==
  /\ post = [at |-> post.at, inst |-> post.inst, body |-> post.body, reply |-> post.reply, files |-> post.files,
             wait |-> post.wait]
  /\ post.at \in {"idle", "posting"} \cup Sent
  /\ sendRow # "none" <=> post.at \in Sent
  /\ post.at # "idle" => post.inst \in Compose!Panels /\ post.inst <= inst
  /\ post.at \in {"shown", "over"} => ~Shown \/ post.inst < inst
  /\ told \in {"sent", "failed", "cancelled"} => sendRow = told

\* Uids are given out once; nobody refers to one that was not.
Given == 0..marks.last
UidInv ==
  /\ marks.last \in Nat
  /\ \A d \in drafts : d.uid \in Given /\ d.uid # 0 /\ d.by \in Compose!Panels /\ d.by <= inst
  /\ \A d, e \in drafts : d.uid = e.uid => d = e
  /\ \A i \in Compose!Panels : draftUid[i] \in Given /\ save[i].replace \in Given /\ save[i].uid \in Given /\ discard[i] \subseteq Given \ {0}

\* What an instance saves it has not discarded or replaced; what the mounted one saved, no other touches.
InFlight(i) == save[i].at \in {"appended", "answer"}
OwnInv ==
  /\ \A i \in Compose!Panels : draftUid[i] \notin discard[i]
  /\ \A i \in Compose!Panels : InFlight(i) => /\ save[i].uid # save[i].replace /\ save[i].uid # draftUid[i]
                                              /\ save[i].uid \notin discard[i]
                                              /\ save[i].uid # 0
  /\ \A j \in Compose!Panels, d \in drafts : Shown /\ d.by = inst /\ j # inst =>
       d.uid # draftUid[j] /\ d.uid # save[j].replace /\ d.uid # save[j].uid /\ d.uid \notin discard[j]

\* The draft of the mounted panel is what its editor holds, or the save that will make it so is under way.
Holds(u)  == \E d \in drafts : d.uid = u /\ d.body = dom /\ d.by = inst
SavedInv ==
  ~timer /\ ui = "open" /\ dom # Compose!Empty /\ ~marks.lost /\ ~marks.skipped /\ ~marks.wiped =>
    /\ save[inst].at = "idle" /\ draftUid[inst] # 0 => Holds(draftUid[inst])
    /\ save[inst].at = "call" => save[inst].body = dom
    /\ InFlight(inst) => Holds(save[inst].uid)

\* The drafts of an instance: those its next or current save replaces or made, and others.
Chain(i, u) ==
  \/ save[i].at = "idle" /\ u = draftUid[i]
  \/ save[i].at \in {"call", "appended"} /\ u = save[i].replace
  \/ InFlight(i) /\ u = save[i].uid
Other(i, d)  == d.by = i /\ ~Chain(i, d.uid)
NoOther(i)   == \A d \in drafts : ~Other(i, d)
OneOther(i)  == \A d, e \in drafts : Other(i, d) /\ Other(i, e) => d = e
AllBut(i, u) == \A d, e \in drafts : d.by = i /\ e.by = i /\ d.uid # u /\ e.uid # u => d = e
Mounted(i)   == Shown /\ i = inst
Accepted(i)  == sendRow # "none" /\ post.inst = i
ChainInv ==
  ~marks.lost => \A i \in Compose!Panels :
    /\ Mounted(i) /\ ~Accepted(i) => NoOther(i)
    /\ Mounted(i) \/ save[i].at # "idle" => OneOther(i)
    /\ save[i].at = "idle" => \E u \in Given : AllBut(i, u)

\* As long as no save overlapped a discard, an instance has one draft, its own or being discarded.
CleanInv ==
  ~marks.lost /\ ~marks.overtaken => \A i \in Compose!Panels :
    /\ save[i].at = "idle" => AllBut(i, 0) /\ \A d \in drafts : d.by = i => d.uid = draftUid[i] \/ d.uid \in discard[i]
    /\ save[i].at # "idle" => NoOther(i)
    /\ save[i].at = "call" => save[i].replace = draftUid[i]
    /\ Accepted(i) => save[i].at = "idle" /\ draftUid[i] = 0

ComposerInv == PanelInv /\ Tables /\ MarksShape /\ PostInv /\ UidInv /\ OwnInv /\ SavedInv /\ ChainInv /\ CleanInv

LEMMA ComposerInit ==
  ASSUME Compose!PlansAssumption, Compose!Init
  PROVE  ComposerInv
  <1>0. panelPlan.opens \in Nat
    BY DEF Compose!PlansAssumption, Compose!Init
  <1>1. PanelInv
    <2>1. panelPlan \in PanelPlans /\ inst = 0 /\ ui = "closed" /\ ~timer
      BY DEF Compose!Init
    <2>2. inst \in 0..panelPlan.opens
      BY <1>0, <2>1
    <2> QED BY <1>0, <2>1, <2>2 DEF PanelInv, Shown
  <1>2. Tables /\ MarksShape
    BY DEF Compose!Init, Tables, MarksShape, Compose!NoSave, Saves
  <1>3. PostInv
    BY <1>1 DEF Compose!Init, PostInv, Compose!NoPost, Sent
  <1>4. UidInv /\ OwnInv
    <2>1. \A i \in Compose!Panels : save[i] = Compose!NoSave /\ draftUid[i] = 0 /\ discard[i] = {}
      BY DEF Compose!Init
    <2>2. drafts = {} /\ marks.last = 0
      BY DEF Compose!Init
    <2>3. 0 \in Given
      BY <2>2 DEF Given
    <2> QED BY <2>1, <2>2, <2>3 DEF UidInv, OwnInv, Compose!NoSave, InFlight
  <1>5. SavedInv
    BY DEF Compose!Init, SavedInv
  <1>6. ChainInv /\ CleanInv
    <2>0. drafts = {} /\ marks.last = 0 /\ sendRow = "none"
      BY DEF Compose!Init
    <2>1. 0 \in Given
      BY <2>0 DEF Given
    <2>2. \A i \in Compose!Panels : NoOther(i) /\ OneOther(i) /\ AllBut(i, 0) /\ ~Accepted(i) /\ save[i].at = "idle"
      BY <2>0 DEF Compose!Init, NoOther, OneOther, AllBut, Accepted, Compose!NoSave
    <2> QED BY <2>0, <2>1, <2>2 DEF ChainInv, CleanInv
  <1> QED BY <1>1, <1>2, <1>3, <1>4, <1>5, <1>6 DEF ComposerInv

--------------------------------------------------------------------------------
(* Frames. *)

\* The drafts and who refers to them stay, and no panel is mounted.
DraftsRest ==
  /\ panelPlan' = panelPlan /\ inst' = inst /\ save' = save /\ draftUid' = draftUid /\ discard' = discard /\ drafts' = drafts
  /\ Shown' => Shown
  /\ marks'.last = marks.last /\ marks'.lost = marks.lost /\ marks'.overtaken = marks.overtaken
  /\ sendRow' # "none" <=> sendRow # "none"
  /\ sendRow # "none" => post'.inst = post.inst

DraftGroups == Tables /\ UidInv /\ OwnInv /\ ChainInv /\ CleanInv

LEMMA DraftsFrame ==
  ASSUME ComposerInv, DraftsRest
  PROVE  DraftGroups'
  <1> USE DEF DraftsRest
  <1>1. Tables'
    BY DEF ComposerInv, Tables, Compose!Panels
  <1>2. UidInv'
    BY DEF ComposerInv, UidInv, Compose!Panels, Given
  <1>3. OwnInv'
    BY DEF ComposerInv, OwnInv, Compose!Panels, InFlight, Shown
  <1>4. \A i \in Compose!Panels : /\ Mounted(i)' => Mounted(i)
                                  /\ Accepted(i)' <=> Accepted(i)
                                  /\ NoOther(i)' <=> NoOther(i)
                                  /\ OneOther(i)' <=> OneOther(i)
                                  /\ \A u : AllBut(i, u)' <=> AllBut(i, u)
    BY DEF Mounted, Accepted, Shown, NoOther, OneOther, AllBut, Other, Chain, InFlight
  <1>5. Compose!Panels' = Compose!Panels /\ Given' = Given
    BY DEF Compose!Panels, Given
  <1>6. ChainInv'
    BY <1>4, <1>5 DEF ComposerInv, ChainInv
  <1>7. CleanInv'
    BY <1>4, <1>5 DEF ComposerInv, CleanInv
  <1> QED BY <1>1, <1>2, <1>3, <1>6, <1>7 DEF DraftGroups

\* The editor rests, or is not compared with the draft.
LEMMA SavedFrame ==
  ASSUME ComposerInv, save' = save, draftUid' = draftUid, drafts' = drafts, inst' = inst,
         ui' = "open" /\ ~timer' /\ ~marks'.wiped => ui = "open" /\ ~timer /\ ~marks.wiped /\ dom' = dom,
         marks'.lost = marks.lost, marks'.skipped = marks.skipped
  PROVE  SavedInv'
  BY DEF ComposerInv, SavedInv, Holds, InFlight

\* The send mutation, the sendRow and what was told rest.
LEMMA PostFrame ==
  ASSUME ComposerInv, panelPlan' = panelPlan, post' = post, sendRow' = sendRow, told' = told, inst' = inst, Shown' => Shown
  PROVE  PostInv'
  BY DEF ComposerInv, PostInv, Sent, Compose!Panels, Shown

LEMMA StutterKeeps ==
  ASSUME ComposerInv, UNCHANGED Compose!vars
  PROVE  ComposerInv'
  <1>1. DraftGroups'
    BY DraftsFrame DEF DraftsRest, Compose!vars, Shown
  <1>2. SavedInv'
    BY SavedFrame DEF Compose!vars
  <1>3. PostInv'
    BY PostFrame DEF Compose!vars, Shown
  <1>4. PanelInv' /\ MarksShape'
    BY DEF ComposerInv, PanelInv, MarksShape, Compose!vars, Shown, Compose!Panels
  <1> QED BY <1>1, <1>2, <1>3, <1>4 DEF ComposerInv, DraftGroups

--------------------------------------------------------------------------------
(* The panel and its editor. *)

\* A click on Reply while a panel is mounted changes the prop only.
LEMMA RetargetKeeps ==
  ASSUME ComposerInv, NEW init, Compose!SetCompose(init), Shown
  PROVE  ComposerInv'
  <1>0. /\ UNCHANGED <<panelPlan, inst, ui, dom, draftUid, marks, save, discard, drafts, post, sendRow, told>>
        /\ timer' = (timer \/ head # 0 \/ dom # Compose!Empty)
    BY DEF Compose!SetCompose, Shown
  <1>1. DraftGroups'
    BY <1>0, DraftsFrame DEF DraftsRest, Shown
  <1>2. SavedInv'
    BY <1>0 DEF ComposerInv, SavedInv, Holds, InFlight
  <1>3. PostInv'
    BY <1>0, PostFrame DEF Shown
  <1>4. PanelInv' /\ MarksShape'
    BY <1>0 DEF ComposerInv, PanelInv, MarksShape, Shown, Compose!Panels
  <1> QED BY <1>1, <1>2, <1>3, <1>4 DEF ComposerInv, DraftGroups

LEMMA SeedKeeps ==
  ASSUME ComposerInv, Compose!SeedSignature
  PROVE  ComposerInv'
  <1>0. /\ UNCHANGED <<panelPlan, ui, inst, save, draftUid, discard, drafts, post, sendRow, told, marks>>
        /\ \/ timer' = TRUE /\ Shown
           \/ ui # "open" /\ timer' = timer
    BY DEF Compose!SeedSignature, Compose!Draft, Compose!Outcome, Shown
  <1>1. DraftGroups'
    BY <1>0, DraftsFrame DEF DraftsRest, Shown
  <1>2. SavedInv'
    BY <1>0 DEF SavedInv
  <1>3. PostInv'
    BY <1>0, PostFrame DEF Shown
  <1>4. PanelInv' /\ MarksShape'
    BY <1>0 DEF ComposerInv, PanelInv, MarksShape, Shown, Compose!Panels
  <1> QED BY <1>1, <1>2, <1>3, <1>4 DEF ComposerInv, DraftGroups

LEMMA TypeKeeps ==
  ASSUME ComposerInv, Compose!Type
  PROVE  ComposerInv'
  <1>0. /\ UNCHANGED <<panelPlan, ui, inst, save, draftUid, discard, drafts, post, sendRow, told>>
        /\ timer' = TRUE /\ ui = "open"
    BY DEF Compose!Type, Compose!Draft, Compose!Outcome
  <1>m. PICK n : marks' = [marks EXCEPT !.typed = n, !.skipped = FALSE]
    BY DEF Compose!Type
  <1>n. /\ marks'.last = marks.last /\ marks'.lost = marks.lost /\ marks'.overtaken = marks.overtaken
        /\ marks'.wiped = marks.wiped /\ MarksShape'
    BY <1>m DEF ComposerInv, MarksShape
  <1>1. DraftGroups'
    BY <1>0, <1>n, DraftsFrame DEF DraftsRest, Shown
  <1>2. SavedInv'
    BY <1>0 DEF SavedInv
  <1>3. PostInv'
    BY <1>0, PostFrame DEF Shown
  <1>4. PanelInv'
    BY <1>0, <1>n DEF ComposerInv, PanelInv, Shown, Compose!Panels
  <1> QED BY <1>1, <1>2, <1>3, <1>4, <1>n DEF ComposerInv, DraftGroups

LEMMA MinimizeKeeps ==
  ASSUME ComposerInv, Compose!Minimize
  PROVE  ComposerInv'
  <1>0. /\ UNCHANGED <<panelPlan, inst, timer, save, draftUid, discard, drafts, post, sendRow, told>>
        /\ ui = "open" /\ ui' = "minimized"
    BY DEF Compose!Minimize, Compose!Draft, Compose!Outcome
  <1>n. /\ marks'.last = marks.last /\ marks'.lost = marks.lost /\ marks'.overtaken = marks.overtaken
        /\ marks'.wiped /\ MarksShape'
    BY DEF ComposerInv, MarksShape, Compose!Minimize
  <1>1. DraftGroups'
    BY <1>0, <1>n, DraftsFrame DEF DraftsRest, Shown
  <1>2. SavedInv'
    BY <1>0 DEF SavedInv
  <1>3. PostInv'
    BY <1>0, PostFrame DEF Shown
  <1>4. PanelInv'
    BY <1>0, <1>n DEF ComposerInv, PanelInv, Shown, Compose!Panels
  <1> QED BY <1>1, <1>2, <1>3, <1>4, <1>n DEF ComposerInv, DraftGroups

LEMMA RestorePanelKeeps ==
  ASSUME ComposerInv, Compose!Restore
  PROVE  ComposerInv'
  <1>0. /\ UNCHANGED <<panelPlan, inst, timer, save, draftUid, discard, drafts, post, sendRow, told, marks>>
        /\ ui = "minimized" /\ ui' = "open"
    BY DEF Compose!Restore, Compose!Draft, Compose!Outcome
  <1>1. DraftGroups'
    BY <1>0, DraftsFrame DEF DraftsRest, Shown
  <1>2. SavedInv'
    BY <1>0 DEF SavedInv, ComposerInv, PanelInv
  <1>3. PostInv'
    BY <1>0, PostFrame DEF Shown
  <1>4. PanelInv' /\ MarksShape'
    BY <1>0 DEF ComposerInv, PanelInv, MarksShape, Shown, Compose!Panels
  <1> QED BY <1>1, <1>2, <1>3, <1>4 DEF ComposerInv, DraftGroups

LEMMA CloseKeeps ==
  ASSUME ComposerInv, Compose!Close
  PROVE  ComposerInv'
  <1>0. /\ UNCHANGED <<panelPlan, inst, save, draftUid, discard, drafts, post, sendRow, told, marks>>
        /\ ui' = "closed" /\ ~timer'
    BY DEF Compose!Close, Compose!OnClose, Compose!Draft, Compose!Outcome
  <1>1. DraftGroups'
    BY <1>0, DraftsFrame DEF DraftsRest, Shown
  <1>2. SavedInv'
    BY <1>0 DEF SavedInv
  <1>3. PostInv'
    BY <1>0, PostFrame DEF Shown
  <1>4. PanelInv' /\ MarksShape'
    BY <1>0 DEF ComposerInv, PanelInv, MarksShape, Shown, Compose!Panels
  <1> QED BY <1>1, <1>2, <1>3, <1>4 DEF ComposerInv, DraftGroups

LEMMA FilesKeep ==
  ASSUME ComposerInv, NEW f, NEW from, NEW to, Compose!FileStep(f, from, to)
  PROVE  ComposerInv'
  <1>0. UNCHANGED <<panelPlan, ui, inst, dom, timer, save, draftUid, discard, drafts, post, sendRow, told, marks>>
    BY DEF Compose!FileStep, Compose!Draft, Compose!Outcome
  <1>1. DraftGroups'
    BY <1>0, DraftsFrame DEF DraftsRest, Shown
  <1>2. SavedInv'
    BY <1>0, SavedFrame
  <1>3. PostInv'
    BY <1>0, PostFrame DEF Shown
  <1>4. PanelInv' /\ MarksShape'
    BY <1>0 DEF ComposerInv, PanelInv, MarksShape, Shown, Compose!Panels
  <1> QED BY <1>1, <1>2, <1>3, <1>4 DEF ComposerInv, DraftGroups

\* Mounting: the new instance has done nothing, and a draft it resumes is another's.
LEMMA MountKeeps ==
  ASSUME Compose!PlansAssumption, ComposerInv, NEW init, Compose!SetCompose(init), ui = "closed",
         init.draft \in Given
  PROVE  ComposerInv'
  <1>0. /\ UNCHANGED <<panelPlan, save, discard, drafts, post, sendRow, told>>
        /\ inst < panelPlan.opens /\ inst' = inst + 1 /\ ui' = "open" /\ dom' = init.body
        /\ timer' = (init # Compose!Blank)
        /\ draftUid' = [draftUid EXCEPT ![inst + 1] = init.draft]
    BY DEF Compose!SetCompose
  <1>1. panelPlan.opens \in Nat /\ inst \in 0..panelPlan.opens
    BY DEF ComposerInv, PanelInv, Compose!PlansAssumption
  <1>k. PICK k \in Compose!Panels : k = inst + 1
    BY <1>0, <1>1 DEF Compose!Panels
  <1>2. k \in Compose!Panels /\ Compose!Panels' = Compose!Panels /\ inst' \in 0..panelPlan'.opens
    BY <1>0, <1>1, <1>k DEF Compose!Panels
  <1>m. PICK n : marks' = [marks EXCEPT !.typed = n, !.skipped = FALSE, !.wiped = FALSE]
    BY DEF Compose!SetCompose
  <1>n. /\ marks'.last = marks.last /\ marks'.lost = marks.lost /\ marks'.overtaken = marks.overtaken
        /\ MarksShape'
    BY <1>m DEF ComposerInv, MarksShape
  <1>3. PanelInv'
    BY <1>0, <1>k, <1>2 DEF ComposerInv, PanelInv, Shown
  <1>4. /\ draftUid' = [j \in Compose!Panels |-> draftUid'[j]] /\ draftUid'[k] = init.draft
        /\ \A i \in Compose!Panels : i # k => draftUid'[i] = draftUid[i]
    BY <1>0, <1>k DEF ComposerInv, Tables
  <1>s. save[k] = Compose!NoSave /\ discard[k] = {} /\ save'[k].at = "idle" /\ discard'[k] = {}
    BY <1>0, <1>1, <1>k DEF ComposerInv, Tables, Compose!NoSave
  <1>5. Tables'
    <2>1. \A i \in Compose!Panels : i > inst' => i > inst /\ i # k
      BY <1>0, <1>1, <1>k DEF Compose!Panels
    <2> QED BY <1>0, <1>k, <1>2, <1>4, <1>s, <2>1 DEF ComposerInv, Tables
  <1>6. PostInv'
    BY <1>0, <1>1, <1>k, <1>2 DEF ComposerInv, PostInv, Sent, Shown, Compose!Panels
  <1>7. Given' = Given /\ 0 \in Given
    BY <1>n DEF Given, ComposerInv, UidInv
  <1>8. UidInv'
    BY <1>0, <1>k, <1>1, <1>2, <1>4, <1>s, <1>7, <1>n DEF ComposerInv, UidInv, Compose!Panels
  <1>9. \A d \in drafts : d.by # k
    BY <1>1, <1>k DEF ComposerInv, UidInv, Compose!Panels
  <1>10. OwnInv'
    <2>1. \A i \in Compose!Panels : draftUid'[i] \notin discard'[i]
      BY <1>0, <1>k, <1>4, <1>s DEF ComposerInv, OwnInv
    <2>2. \A i \in Compose!Panels : InFlight(i)' => InFlight(i) /\ i # k
      BY <1>0, <1>k, <1>4, <1>s DEF InFlight, Compose!NoSave
    <2> QED BY <1>0, <1>k, <1>2, <1>4, <1>s, <1>9, <2>1, <2>2 DEF ComposerInv, OwnInv
  <1>11. SavedInv'
    <2>1. CASE init = Compose!Blank
      BY <1>0, <2>1 DEF SavedInv, Compose!Blank
    <2>2. CASE init # Compose!Blank
      BY <1>0, <2>2 DEF SavedInv
    <2> QED BY <2>1, <2>2
  <1>12. \A i \in Compose!Panels : Accepted(i)' <=> Accepted(i)
    BY <1>0 DEF Accepted
  <1>a. \A i \in Compose!Panels : \A u : AllBut(i, u)' <=> AllBut(i, u)
    BY <1>0 DEF AllBut
  <1>b. \A i \in Compose!Panels : i # k => ~Mounted(i)'
    BY <1>0, <1>k DEF Mounted
  <1>c. \A i \in Compose!Panels, d \in drafts : i # k => (Other(i, d)' <=> Other(i, d))
    BY <1>0, <1>4 DEF Other, Chain, InFlight
  <1>d. \A i \in Compose!Panels : i # k => (NoOther(i)' <=> NoOther(i)) /\ (OneOther(i)' <=> OneOther(i))
    BY <1>0, <1>c DEF NoOther, OneOther
  <1>13. NoOther(k)' /\ OneOther(k)' /\ AllBut(k, 0)' /\ ~Accepted(k)
    <2>1. ~Accepted(k)
      BY <1>1, <1>k DEF Accepted, ComposerInv, PostInv, Sent, Compose!Panels
    <2> QED BY <1>0, <1>9, <2>1 DEF NoOther, OneOther, AllBut, Other
  <1>14. ChainInv'
    <2> SUFFICES ASSUME ~marks.lost, NEW i \in Compose!Panels
                 PROVE  /\ Mounted(i)' /\ ~Accepted(i)' => NoOther(i)'
                        /\ Mounted(i)' \/ save'[i].at # "idle" => OneOther(i)'
                        /\ save'[i].at = "idle" => \E u \in Given : AllBut(i, u)'
      BY <1>2, <1>7, <1>n DEF ChainInv
    <2>1. CASE i = k
      BY <1>7, <1>13, <2>1
    <2>2. CASE i # k
      BY <1>0, <1>12, <1>a, <1>b, <1>d, <2>2 DEF ComposerInv, ChainInv
    <2> QED BY <2>1, <2>2
  <1>15. CleanInv'
    <2> SUFFICES ASSUME ~marks.lost, ~marks.overtaken, NEW i \in Compose!Panels
                 PROVE  /\ save'[i].at = "idle" => AllBut(i, 0)' /\ \A d \in drafts' : d.by = i => d.uid = draftUid'[i] \/ d.uid \in discard'[i]
                        /\ save'[i].at # "idle" => NoOther(i)'
                        /\ save'[i].at = "call" => save'[i].replace = draftUid'[i]
                        /\ Accepted(i)' => save'[i].at = "idle" /\ draftUid'[i] = 0
      BY <1>2, <1>n DEF CleanInv
    <2>1. CASE i = k
      BY <1>0, <1>k, <1>4, <1>s, <1>9, <1>12, <1>a, <1>b, <1>d, <1>13, <2>1 DEF Compose!NoSave
    <2>2. CASE i # k
      BY <1>0, <1>k, <1>4, <1>s, <1>12, <1>a, <1>b, <1>d, <2>2 DEF ComposerInv, CleanInv
    <2> QED BY <2>1, <2>2
  <1> QED BY <1>3, <1>5, <1>6, <1>8, <1>10, <1>11, <1>14, <1>15, <1>n DEF ComposerInv

--------------------------------------------------------------------------------
(* Autosave. *)

LEMMA SkipKeeps ==
  ASSUME ComposerInv, Compose!AutosaveFires, save[inst].at # "idle"
  PROVE  ComposerInv'
  <1>0. /\ UNCHANGED <<panelPlan, ui, inst, dom, save, draftUid, discard, drafts, post, sendRow, told>>
        /\ ~timer'
    BY DEF Compose!AutosaveFires, Compose!Outcome
  <1>n. /\ marks'.last = marks.last /\ marks'.lost = marks.lost /\ marks'.overtaken = marks.overtaken
        /\ marks'.wiped = marks.wiped /\ marks'.skipped /\ MarksShape'
    BY DEF ComposerInv, MarksShape, Compose!AutosaveFires
  <1>1. DraftGroups'
    BY <1>0, <1>n, DraftsFrame DEF DraftsRest, Shown
  <1>2. SavedInv'
    BY <1>n DEF SavedInv
  <1>3. PostInv'
    BY <1>0, PostFrame DEF Shown
  <1>4. PanelInv'
    BY <1>0, <1>n DEF ComposerInv, PanelInv, Shown, Compose!Panels
  <1> QED BY <1>1, <1>2, <1>3, <1>4, <1>n DEF ComposerInv, DraftGroups

LEMMA FireKeeps ==
  ASSUME ComposerInv, Compose!AutosaveFires, save[inst].at = "idle"
  PROVE  ComposerInv'
  <1>0. /\ UNCHANGED <<panelPlan, ui, inst, dom, draftUid, discard, drafts, post, sendRow, told>>
        /\ ~timer' /\ Shown
    BY DEF Compose!AutosaveFires, Compose!Outcome, ComposerInv, PanelInv
  <1>k. PICK k \in Compose!Panels : k = inst
    BY <1>0 DEF ComposerInv, PanelInv
  <1>1. save' = [save EXCEPT ![k] = [at |-> "call", body |-> dom, replace |-> draftUid[k], uid |-> 0]]
    BY <1>k DEF Compose!AutosaveFires, Compose!NoSave
  <1>2. /\ save' = [j \in Compose!Panels |-> save'[j]]
        /\ save'[k].at = "call" /\ save'[k].body = dom /\ save'[k].replace = draftUid[k] /\ save'[k].uid = 0
        /\ save'[k] = [at |-> "call", body |-> dom, replace |-> draftUid[k], uid |-> 0]
        /\ \A j \in Compose!Panels : j # k => save'[j] = save[j]
    BY <1>1 DEF ComposerInv, Tables
  <1>n. /\ marks'.last = marks.last /\ marks'.lost = marks.lost /\ (~marks'.overtaken => ~marks.overtaken /\ ~(post.at = "accepted" /\ post.inst = k))
        /\ marks'.wiped = marks.wiped /\ marks'.skipped = marks.skipped /\ MarksShape'
    BY <1>k DEF ComposerInv, MarksShape, Compose!AutosaveFires
  <1>3. PanelInv' /\ PostInv'
    BY <1>0, <1>n, PostFrame DEF ComposerInv, PanelInv, Shown, Compose!Panels
  <1>p. Compose!Panels' = Compose!Panels /\ Given' = Given /\ 0 \in Given
    BY <1>0, <1>n DEF Compose!Panels, Given, ComposerInv, UidInv
  <1>4. Tables'
    <2>1. save'[k].at \in Saves
      BY <1>2 DEF Saves
    <2>2. \A j \in Compose!Panels : j > inst => j # k
      BY <1>k DEF Compose!Panels
    <2> QED BY <1>0, <1>2, <1>p, <2>1, <2>2 DEF ComposerInv, Tables
  <1>5. UidInv'
    BY <1>0, <1>2, <1>n, <1>p DEF ComposerInv, UidInv
  <1>6. \A j \in Compose!Panels : InFlight(j)' => InFlight(j) /\ j # k
    BY <1>2 DEF InFlight
  <1>7. OwnInv'
    BY <1>0, <1>2, <1>k, <1>6, <1>p DEF ComposerInv, OwnInv, UidInv, Shown
  <1>8. SavedInv'
    BY <1>0, <1>2, <1>k, <1>6 DEF SavedInv
  <1>9. \A j \in Compose!Panels, d \in drafts : Other(j, d)' <=> Other(j, d)
    BY <1>0, <1>2, <1>k DEF Other, Chain, InFlight
  <1>10. \A j \in Compose!Panels : (NoOther(j)' <=> NoOther(j)) /\ (OneOther(j)' <=> OneOther(j))
    BY <1>0, <1>9 DEF NoOther, OneOther
  <1>11. \A j \in Compose!Panels : /\ Mounted(j)' <=> Mounted(j)
                                   /\ Accepted(j)' <=> Accepted(j)
                                   /\ \A u : AllBut(j, u)' <=> AllBut(j, u)
    BY <1>0 DEF Mounted, Accepted, AllBut, Shown
  <1>12. Mounted(k)
    BY <1>0, <1>k DEF Mounted
  <1>13. ChainInv'
    BY <1>2, <1>p, <1>n, <1>10, <1>11, <1>12 DEF ComposerInv, ChainInv
  <1>14. ASSUME ~marks'.overtaken PROVE ~Accepted(k)
    BY <1>14, <1>0, <1>k, <1>n DEF Accepted, ComposerInv, PostInv, Sent, PanelInv, Compose!Panels
  <1>15. CleanInv'
    BY <1>0, <1>2, <1>p, <1>n, <1>10, <1>11, <1>12, <1>14 DEF ComposerInv, ChainInv, CleanInv
  <1> QED BY <1>3, <1>4, <1>5, <1>7, <1>8, <1>13, <1>15, <1>n DEF ComposerInv

\* A step of the server for the save of instance i leaves these alone.
LEMMA SaveStepRest ==
  ASSUME ComposerInv, NEW i \in Compose!Panels, NEW from, NEW s, NEW ds, NEW m, Compose!SaveStep(i, from, s, ds, m), m.wiped = marks.wiped
  PROVE  /\ UNCHANGED <<panelPlan, ui, inst, dom, timer, draftUid, discard, post, sendRow, told>>
         /\ save' = [j \in Compose!Panels |-> save'[j]] /\ save'[i] = s /\ save[i].at = from
         /\ \A j \in Compose!Panels : j # i => save'[j] = save[j]
         /\ drafts' = ds /\ marks' = m
         /\ PanelInv' /\ PostInv' /\ Compose!Panels' = Compose!Panels
  <1>1. /\ UNCHANGED <<panelPlan, ui, inst, dom, timer, draftUid, discard, post, sendRow, told>>
        /\ drafts' = ds /\ marks' = m /\ save[i].at = from
    BY DEF Compose!SaveStep, Compose!Outcome
  <1>2. save' = [j \in Compose!Panels |-> save'[j]] /\ save'[i] = s /\ \A j \in Compose!Panels : j # i => save'[j] = save[j]
    BY DEF Compose!SaveStep, ComposerInv, Tables
  <1>3. PanelInv' /\ PostInv' /\ Compose!Panels' = Compose!Panels
    BY <1>1, PostFrame DEF ComposerInv, PanelInv, Shown, Compose!Panels
  <1> QED BY <1>1, <1>2, <1>3

LEMMA AppendKeeps ==
  ASSUME ComposerInv, NEW i \in Compose!Panels, Compose!AppendDraft(i)
  PROVE  ComposerInv'
  <1>u. PICK n \in Nat : n = marks.last + 1 /\ n \notin Given /\ n # 0
    BY DEF ComposerInv, UidInv, Given
  <1>s. PICK s : s = [save[i] EXCEPT !.at = "appended", !.uid = n]
    OBVIOUS
  <1>e. /\ s.at = "appended" /\ s.body = save[i].body /\ s.replace = save[i].replace /\ s.uid = n
        /\ s = [at |-> s.at, body |-> s.body, replace |-> s.replace, uid |-> s.uid]
    <2>1. save[i] = [at |-> save[i].at, body |-> save[i].body, replace |-> save[i].replace, uid |-> save[i].uid]
      BY DEF ComposerInv, Tables
    <2> QED BY <1>s, <2>1
  <1>d. PICK nd : nd = [uid |-> n, body |-> save[i].body, by |-> i]
    OBVIOUS
  <1>m. PICK m : m = [marks EXCEPT !.last = n]
    OBVIOUS
  <1>n. /\ m.last = n /\ m.lost = marks.lost /\ m.overtaken = marks.overtaken
        /\ m.wiped = marks.wiped /\ m.skipped = marks.skipped
        /\ m = [typed |-> m.typed, lost |-> m.lost, overtaken |-> m.overtaken, skipped |-> m.skipped,
                wiped |-> m.wiped, last |-> m.last]
    BY <1>m DEF ComposerInv, MarksShape
  <1>0. Compose!SaveStep(i, "call", s, drafts \cup {nd}, m)
    BY <1>u, <1>s, <1>d, <1>m DEF Compose!AppendDraft, Compose!NextUid
  <1>1. /\ UNCHANGED <<panelPlan, ui, inst, dom, timer, draftUid, discard, post, sendRow, told>>
        /\ save' = [j \in Compose!Panels |-> save'[j]] /\ save'[i] = s /\ save[i].at = "call"
        /\ \A j \in Compose!Panels : j # i => save'[j] = save[j]
        /\ drafts' = drafts \cup {nd} /\ marks' = m
        /\ PanelInv' /\ PostInv' /\ Compose!Panels' = Compose!Panels
    BY <1>0, <1>n, SaveStepRest
  <1>2. save'[i].at = "appended" /\ save'[i].body = save[i].body /\ save'[i].replace = save[i].replace /\ save'[i].uid = n
    BY <1>1, <1>e
  <1>3. nd.uid = n /\ nd.by = i /\ nd.body = save[i].body
    BY <1>d
  <1>4. MarksShape'
    BY <1>1, <1>n DEF MarksShape
  <1>i. i <= inst
    <2>1. i > inst => save[i].at = "idle"
      BY DEF ComposerInv, Tables, Compose!NoSave
    <2>2. i \in Int /\ inst \in Int
      BY DEF ComposerInv, PanelInv, Compose!Panels
    <2> QED BY <1>1, <2>1, <2>2
  <1>5. Tables'
    <2>1. save'[i] = [at |-> save'[i].at, body |-> save'[i].body, replace |-> save'[i].replace, uid |-> save'[i].uid]
      BY <1>1, <1>e
    <2>2. save'[i].at \in Saves
      BY <1>2 DEF Saves
    <2>3. \A j \in Compose!Panels : j > inst => j # i
      BY <1>i DEF Compose!Panels, ComposerInv, PanelInv
    <2> QED BY <1>1, <2>1, <2>2, <2>3 DEF ComposerInv, Tables
  <1>g. Given \subseteq Given' /\ n \in Given' /\ marks'.last \in Nat
    BY <1>1, <1>n, <1>u DEF Given, ComposerInv, UidInv
  <1>6. UidInv'
    BY <1>1, <1>2, <1>3, <1>i, <1>g, <1>u DEF ComposerInv, UidInv
  <1>7. \A j \in Compose!Panels : j # i => (InFlight(j)' <=> InFlight(j))
    BY <1>1 DEF InFlight
  <1>8. OwnInv'
    <2>1. \A d \in drafts : d.uid # n
      BY <1>u DEF ComposerInv, UidInv
    <2>2. \A j \in Compose!Panels : draftUid[j] # n /\ save[j].replace # n /\ save[j].uid # n /\ n \notin discard[j]
      BY <1>u DEF ComposerInv, UidInv
    <2>3. \A j \in Compose!Panels : InFlight(j)' => /\ save'[j].uid # save'[j].replace /\ save'[j].uid # draftUid'[j]
                                                    /\ save'[j].uid \notin discard'[j] /\ save'[j].uid # 0
      BY <1>1, <1>2, <1>7, <1>u, <2>2 DEF ComposerInv, OwnInv
    <2>4. \A j \in Compose!Panels, d \in drafts' : Shown' /\ d.by = inst' /\ j # inst' =>
       d.uid # draftUid'[j] /\ d.uid # save'[j].replace /\ d.uid # save'[j].uid /\ d.uid \notin discard'[j]
      BY <1>1, <1>2, <1>3, <2>1, <2>2 DEF ComposerInv, OwnInv, Shown
    <2> QED BY <1>1, <2>3, <2>4 DEF ComposerInv, OwnInv
  <1>9. SavedInv'
    <2>1. \A u : Holds(u) => Holds(u)'
      BY <1>1 DEF Holds
    <2>2. CASE i = inst
      BY <1>1, <1>2, <1>3, <1>n, <2>2 DEF ComposerInv, SavedInv, InFlight, Holds
    <2>3. CASE i # inst
      <3>1. Shown => save'[inst] = save[inst] /\ (InFlight(inst)' <=> InFlight(inst))
        BY <1>1, <2>3 DEF ComposerInv, PanelInv, InFlight
      <3> QED BY <1>1, <1>n, <2>1, <3>1 DEF ComposerInv, SavedInv, Shown
    <2> QED BY <2>2, <2>3
  <1>10. \A j \in Compose!Panels : ~Other(j, nd)' /\ \A d \in drafts : Other(j, d)' <=> Other(j, d)
    BY <1>1, <1>2, <1>3, <1>u DEF Other, Chain, InFlight, ComposerInv, UidInv
  <1>11. \A j \in Compose!Panels : (NoOther(j)' <=> NoOther(j)) /\ (OneOther(j)' <=> OneOther(j))
    BY <1>1, <1>10 DEF NoOther, OneOther
  <1>12. \A j \in Compose!Panels : /\ Mounted(j)' <=> Mounted(j)
                                   /\ Accepted(j)' <=> Accepted(j)
                                   /\ j # i => \A u : AllBut(j, u)' <=> AllBut(j, u)
    BY <1>1, <1>3 DEF Mounted, Accepted, AllBut, Shown
  <1>13. ChainInv'
    BY <1>1, <1>2, <1>n, <1>g, <1>11, <1>12 DEF ComposerInv, ChainInv
  <1>14. CleanInv'
    BY <1>1, <1>2, <1>3, <1>n, <1>11, <1>12 DEF ComposerInv, CleanInv
  <1> QED BY <1>1, <1>4, <1>5, <1>6, <1>8, <1>9, <1>13, <1>14 DEF ComposerInv

LEMMA DeletePriorKeeps ==
  ASSUME ComposerInv, NEW i \in Compose!Panels, Compose!DeletePrior(i)
  PROVE  ComposerInv'
  <1>s. PICK s : s = [save[i] EXCEPT !.at = "answer"]
    OBVIOUS
  <1>e. /\ s.at = "answer" /\ s.body = save[i].body /\ s.replace = save[i].replace /\ s.uid = save[i].uid
        /\ s = [at |-> s.at, body |-> s.body, replace |-> s.replace, uid |-> s.uid]
    <2>1. save[i] = [at |-> save[i].at, body |-> save[i].body, replace |-> save[i].replace, uid |-> save[i].uid]
      BY DEF ComposerInv, Tables
    <2> QED BY <1>s, <2>1
  <1>0. Compose!SaveStep(i, "appended", s, Compose!Replaced(i), marks)
    BY <1>s DEF Compose!DeletePrior
  <1>1. /\ UNCHANGED <<panelPlan, ui, inst, dom, timer, draftUid, discard, post, sendRow, told>>
        /\ save' = [j \in Compose!Panels |-> save'[j]] /\ save'[i] = s /\ save[i].at = "appended"
        /\ \A j \in Compose!Panels : j # i => save'[j] = save[j]
        /\ drafts' = Compose!Replaced(i) /\ marks' = marks
        /\ PanelInv' /\ PostInv' /\ Compose!Panels' = Compose!Panels
    BY <1>0, SaveStepRest
  <1>d. drafts' \subseteq drafts /\ \A d \in drafts : d \in drafts' <=> d.uid # save[i].replace
    BY <1>1 DEF Compose!Replaced
  <1>4. MarksShape' /\ Given' = Given
    BY <1>1 DEF ComposerInv, MarksShape, Given
  <1>5. Tables'
    <2>1. save'[i] = [at |-> save'[i].at, body |-> save'[i].body, replace |-> save'[i].replace, uid |-> save'[i].uid]
      BY <1>1, <1>e
    <2>2. save'[i].at \in Saves
      BY <1>1, <1>e DEF Saves
    <2>3. i > inst => save[i].at = "idle"
      BY DEF ComposerInv, Tables, Compose!NoSave
    <2> QED BY <1>1, <2>1, <2>2, <2>3 DEF ComposerInv, Tables
  <1>6. UidInv'
    BY <1>1, <1>d, <1>e, <1>4 DEF ComposerInv, UidInv
  <1>7. \A j \in Compose!Panels : /\ InFlight(j)' <=> InFlight(j)
                                  /\ save'[j].uid = save[j].uid /\ save'[j].replace = save[j].replace
    BY <1>1, <1>e DEF InFlight
  <1>8. OwnInv'
    BY <1>1, <1>d, <1>7 DEF ComposerInv, OwnInv, Shown
  <1>9. SavedInv'
    <2>1. CASE i = inst
      BY <1>1, <1>d, <1>e, <2>1 DEF ComposerInv, SavedInv, InFlight, Holds, OwnInv
    <2>2. CASE i # inst
      <3>1. Shown => /\ save'[inst] = save[inst] /\ (InFlight(inst)' <=> InFlight(inst))
                     /\ \A u : Holds(u) => Holds(u)'
        BY <1>1, <1>d, <2>2 DEF ComposerInv, PanelInv, InFlight, Holds, OwnInv
      <3> QED BY <1>1, <3>1 DEF ComposerInv, SavedInv, Shown
    <2> QED BY <2>1, <2>2
  <1>10. \A j \in Compose!Panels, d \in drafts' : Other(j, d)' <=> Other(j, d)
    BY <1>1, <1>d, <1>e DEF Other, Chain, InFlight
  <1>11. \A j \in Compose!Panels : (NoOther(j) => NoOther(j)') /\ (OneOther(j) => OneOther(j)')
    BY <1>d, <1>10 DEF NoOther, OneOther
  <1>12. \A j \in Compose!Panels : /\ Mounted(j)' <=> Mounted(j)
                                   /\ Accepted(j)' <=> Accepted(j)
                                   /\ \A u : AllBut(j, u) => AllBut(j, u)'
    BY <1>1, <1>d DEF Mounted, Accepted, AllBut, Shown
  <1>13. ChainInv'
    BY <1>1, <1>e, <1>4, <1>11, <1>12 DEF ComposerInv, ChainInv
  <1>14. CleanInv'
    BY <1>1, <1>d, <1>e, <1>11, <1>12 DEF ComposerInv, CleanInv
  <1> QED BY <1>1, <1>4, <1>5, <1>6, <1>8, <1>9, <1>13, <1>14 DEF ComposerInv

LEMMA DeleteFailsKeeps ==
  ASSUME ComposerInv, NEW i \in Compose!Panels, Compose!DeleteFails(i)
  PROVE  ComposerInv'
  <1>s. PICK s : s = [save[i] EXCEPT !.at = "answer"]
    OBVIOUS
  <1>e. /\ s.at = "answer" /\ s.body = save[i].body /\ s.replace = save[i].replace /\ s.uid = save[i].uid
        /\ s = [at |-> s.at, body |-> s.body, replace |-> s.replace, uid |-> s.uid]
    <2>1. save[i] = [at |-> save[i].at, body |-> save[i].body, replace |-> save[i].replace, uid |-> save[i].uid]
      BY DEF ComposerInv, Tables
    <2> QED BY <1>s, <2>1
  <1>n. PICK n : n = [marks EXCEPT !.lost = TRUE]
    OBVIOUS
  <1>w. n.last = marks.last /\ n.wiped = marks.wiped /\ n.lost
    BY <1>n DEF ComposerInv, MarksShape
  <1>0. Compose!SaveStep(i, "appended", s, drafts, n)
    BY <1>s, <1>n DEF Compose!DeleteFails
  <1>1. /\ UNCHANGED <<panelPlan, ui, inst, dom, timer, draftUid, discard, post, sendRow, told>>
        /\ save' = [j \in Compose!Panels |-> save'[j]] /\ save'[i] = s /\ save[i].at = "appended"
        /\ \A j \in Compose!Panels : j # i => save'[j] = save[j]
        /\ drafts' = drafts /\ marks' = n
        /\ PanelInv' /\ PostInv' /\ Compose!Panels' = Compose!Panels
    BY <1>0, <1>w, SaveStepRest
  <1>4. MarksShape' /\ Given' = Given /\ marks'.lost
    BY <1>1, <1>n, <1>w DEF ComposerInv, MarksShape, Given
  <1>5. Tables'
    <2>1. save'[i] = [at |-> save'[i].at, body |-> save'[i].body, replace |-> save'[i].replace, uid |-> save'[i].uid]
      BY <1>1, <1>e
    <2>2. save'[i].at \in Saves
      BY <1>1, <1>e DEF Saves
    <2>3. i > inst => save[i].at = "idle"
      BY DEF ComposerInv, Tables, Compose!NoSave
    <2> QED BY <1>1, <2>1, <2>2, <2>3 DEF ComposerInv, Tables
  <1>6. UidInv'
    BY <1>1, <1>e, <1>w, <1>4 DEF ComposerInv, UidInv
  <1>7. \A j \in Compose!Panels : /\ InFlight(j)' <=> InFlight(j)
                                  /\ save'[j].uid = save[j].uid /\ save'[j].replace = save[j].replace
    BY <1>1, <1>e DEF InFlight
  <1>8. OwnInv'
    BY <1>1, <1>7 DEF ComposerInv, OwnInv, Shown
  <1>9. SavedInv' /\ ChainInv' /\ CleanInv'
    BY <1>4 DEF SavedInv, ChainInv, CleanInv
  <1> QED BY <1>1, <1>4, <1>5, <1>6, <1>8, <1>9 DEF ComposerInv

LEMMA AnsweredKeeps ==
  ASSUME ComposerInv, NEW i \in Compose!Panels, Compose!SaveAnswered(i)
  PROVE  ComposerInv'
  <1>1. /\ UNCHANGED <<panelPlan, ui, inst, dom, timer, discard, drafts, post, sendRow, told, marks>>
        /\ save[i].at = "answer"
    BY DEF Compose!SaveAnswered, Compose!Outcome
  <1>2. /\ save' = [j \in Compose!Panels |-> save'[j]] /\ save'[i] = Compose!NoSave
        /\ \A j \in Compose!Panels : j # i => save'[j] = save[j]
        /\ draftUid' = [j \in Compose!Panels |-> draftUid'[j]] /\ draftUid'[i] = save[i].uid
        /\ \A j \in Compose!Panels : j # i => draftUid'[j] = draftUid[j]
    BY DEF Compose!SaveAnswered, ComposerInv, Tables
  <1>e. save'[i].at = "idle" /\ save'[i].replace = 0 /\ save'[i].uid = 0
    BY <1>2 DEF Compose!NoSave
  <1>3. PanelInv' /\ PostInv' /\ Compose!Panels' = Compose!Panels
    BY <1>1, PostFrame DEF ComposerInv, PanelInv, Shown, Compose!Panels
  <1>4. MarksShape' /\ Given' = Given /\ 0 \in Given
    BY <1>1 DEF ComposerInv, MarksShape, Given, UidInv
  <1>5. Tables'
    <2>1. save'[i] = [at |-> save'[i].at, body |-> save'[i].body, replace |-> save'[i].replace, uid |-> save'[i].uid]
      BY <1>2 DEF Compose!NoSave
    <2>2. save'[i].at \in Saves
      BY <1>e DEF Saves
    <2>3. i > inst => save[i].at = "idle"
      BY DEF ComposerInv, Tables, Compose!NoSave
    <2> QED BY <1>1, <1>2, <1>3, <2>1, <2>2, <2>3 DEF ComposerInv, Tables
  <1>6. UidInv'
    BY <1>1, <1>2, <1>e, <1>3, <1>4 DEF ComposerInv, UidInv
  <1>7. \A j \in Compose!Panels : InFlight(j)' => InFlight(j) /\ j # i
    BY <1>2, <1>e DEF InFlight
  <1>8. OwnInv'
    <2>1. \A j \in Compose!Panels : draftUid'[j] \notin discard'[j]
      BY <1>1, <1>2 DEF ComposerInv, OwnInv, InFlight
    <2>2. \A j \in Compose!Panels, d \in drafts' : Shown' /\ d.by = inst' /\ j # inst' =>
       d.uid # draftUid'[j] /\ d.uid # save'[j].replace /\ d.uid # save'[j].uid /\ d.uid \notin discard'[j]
      BY <1>1, <1>2, <1>e DEF ComposerInv, OwnInv, Shown, UidInv
    <2> QED BY <1>1, <1>2, <1>3, <1>7, <2>1, <2>2 DEF ComposerInv, OwnInv
  <1>9. SavedInv'
    <2>0. \A u : Holds(u) => Holds(u)'
      BY <1>1 DEF Holds
    <2>1. CASE i = inst
      BY <1>1, <1>2, <1>e, <2>0, <2>1 DEF ComposerInv, SavedInv, InFlight
    <2>2. CASE i # inst
      <3>1. Shown => save'[inst] = save[inst] /\ draftUid'[inst] = draftUid[inst] /\ (InFlight(inst)' <=> InFlight(inst))
        <4>1. Shown => save'[inst] = save[inst] /\ draftUid'[inst] = draftUid[inst]
          BY <1>2, <2>2 DEF ComposerInv, PanelInv
        <4> QED BY <1>1, <4>1 DEF InFlight
      <3> QED BY <1>1, <2>0, <3>1 DEF ComposerInv, SavedInv, Shown
    <2> QED BY <2>1, <2>2
  <1>10. \A j \in Compose!Panels, d \in drafts : Other(j, d)' <=> Other(j, d)
    BY <1>1, <1>2, <1>e DEF Other, Chain, InFlight
  <1>11. \A j \in Compose!Panels : (NoOther(j) <=> NoOther(j)') /\ (OneOther(j) <=> OneOther(j)')
    BY <1>1, <1>10 DEF NoOther, OneOther
  <1>12. \A j \in Compose!Panels : /\ Mounted(j)' <=> Mounted(j)
                                   /\ Accepted(j)' <=> Accepted(j)
                                   /\ \A u : AllBut(j, u) <=> AllBut(j, u)'
    BY <1>1 DEF Mounted, Accepted, AllBut, Shown
  <1>13. ChainInv'
    <2>1. save[i].uid \in Given /\ (OneOther(i) => AllBut(i, save[i].uid))
      BY <1>1 DEF OneOther, AllBut, Other, Chain, InFlight, ComposerInv, UidInv
    <2> QED BY <1>1, <1>2, <1>e, <1>3, <1>4, <1>11, <1>12, <2>1 DEF ComposerInv, ChainInv
  <1>14. CleanInv'
    <2>1. NoOther(i) => \A d \in drafts : d.by = i => d.uid = save[i].uid
      BY <1>1 DEF NoOther, Other, Chain, InFlight
    <2>2. NoOther(i) => AllBut(i, 0)
      BY <2>1 DEF AllBut, ComposerInv, UidInv
    <2> QED BY <1>1, <1>2, <1>e, <1>3, <1>11, <1>12, <2>1, <2>2 DEF ComposerInv, CleanInv
  <1> QED BY <1>1, <1>3, <1>4, <1>5, <1>6, <1>8, <1>9, <1>13, <1>14 DEF ComposerInv

LEMMA SaveFailsKeeps ==
  ASSUME ComposerInv, NEW i \in Compose!Panels, Compose!SaveFails(i)
  PROVE  ComposerInv'
  <1>1. /\ UNCHANGED <<panelPlan, ui, inst, dom, timer, draftUid, discard, drafts, post, sendRow, told>>
        /\ save[i].at # "idle"
    BY DEF Compose!SaveFails, Compose!Outcome
  <1>2. /\ save' = [j \in Compose!Panels |-> save'[j]] /\ save'[i] = Compose!NoSave
        /\ \A j \in Compose!Panels : j # i => save'[j] = save[j]
    BY DEF Compose!SaveFails, ComposerInv, Tables
  <1>e. save'[i].at = "idle" /\ save'[i].replace = 0 /\ save'[i].uid = 0
    BY <1>2 DEF Compose!NoSave
  <1>n. marks'.last = marks.last /\ marks'.lost /\ marks'.wiped = marks.wiped /\ MarksShape'
    BY DEF ComposerInv, MarksShape, Compose!SaveFails
  <1>3. PanelInv' /\ PostInv' /\ Compose!Panels' = Compose!Panels
    BY <1>1, <1>n, PostFrame DEF ComposerInv, PanelInv, Shown, Compose!Panels
  <1>4. Given' = Given /\ 0 \in Given
    BY <1>n DEF ComposerInv, Given, UidInv
  <1>5. Tables'
    <2>1. save'[i] = [at |-> save'[i].at, body |-> save'[i].body, replace |-> save'[i].replace, uid |-> save'[i].uid]
      BY <1>2 DEF Compose!NoSave
    <2>2. save'[i].at \in Saves
      BY <1>e DEF Saves
    <2>3. i > inst => save[i].at = "idle"
      BY DEF ComposerInv, Tables, Compose!NoSave
    <2> QED BY <1>1, <1>2, <1>3, <2>1, <2>2, <2>3 DEF ComposerInv, Tables
  <1>6. UidInv'
    BY <1>1, <1>2, <1>e, <1>n, <1>3, <1>4 DEF ComposerInv, UidInv
  <1>7. \A j \in Compose!Panels : InFlight(j)' => InFlight(j) /\ j # i
    BY <1>2, <1>e DEF InFlight
  <1>8. OwnInv'
    BY <1>1, <1>2, <1>e, <1>3, <1>7 DEF ComposerInv, OwnInv, Shown, UidInv
  <1>9. SavedInv' /\ ChainInv' /\ CleanInv'
    BY <1>n DEF SavedInv, ChainInv, CleanInv
  <1> QED BY <1>3, <1>5, <1>6, <1>8, <1>9, <1>n DEF ComposerInv

--------------------------------------------------------------------------------
(* Discarding. *)

\* discardDraft of instance i, as far as the panel has a part in it: what the actions that ask for it share.
Asked(i) ==
  /\ UNCHANGED <<panelPlan, inst, save, drafts, told>>
  /\ Compose!AskDiscard(i)
  /\ marks'.last = marks.last /\ marks'.lost = marks.lost
  /\ marks'.overtaken = (marks.overtaken \/ save[i].at # "idle")

LEMMA AskKeeps ==
  ASSUME ComposerInv, NEW i \in Compose!Panels, Asked(i), Shown' => Shown, i <= inst
  PROVE  /\ Tables' /\ UidInv' /\ OwnInv' /\ Compose!Panels' = Compose!Panels /\ Given' = Given
         /\ draftUid'[i] = 0 /\ \A j \in Compose!Panels : j # i => draftUid'[j] = draftUid[j] /\ discard'[j] = discard[j]
         /\ \A u : u \in discard'[i] <=> u \in discard[i] \/ (u = draftUid[i] /\ u # 0)
         /\ \A j \in Compose!Panels : InFlight(j)' <=> InFlight(j)
         /\ \A j \in Compose!Panels : j # i \/ save[j].at # "idle" => (NoOther(j)' <=> NoOther(j)) /\ (OneOther(j)' <=> OneOther(j))
         /\ \A j \in Compose!Panels : \A u : AllBut(j, u)' <=> AllBut(j, u)
  <1>1. /\ draftUid' = [j \in Compose!Panels |-> draftUid'[j]] /\ discard' = [j \in Compose!Panels |-> discard'[j]]
        /\ draftUid'[i] = 0 /\ discard'[i] = discard[i] \cup ({draftUid[i]} \ {0})
        /\ \A j \in Compose!Panels : j # i => draftUid'[j] = draftUid[j] /\ discard'[j] = discard[j]
    BY DEF Asked, Compose!AskDiscard, ComposerInv, Tables
  <1>2. \A u : u \in discard'[i] <=> u \in discard[i] \/ (u = draftUid[i] /\ u # 0)
    BY <1>1
  <1>3. Compose!Panels' = Compose!Panels /\ Given' = Given /\ 0 \in Given
    BY DEF Asked, Compose!Panels, Given, ComposerInv, UidInv
  <1>4. Tables'
    <2>1. \A j \in Compose!Panels : j > inst => j # i
      BY DEF Compose!Panels, ComposerInv, PanelInv
    <2> QED BY <1>1, <1>3, <2>1 DEF ComposerInv, Tables, Asked
  <1>5. UidInv'
    BY <1>1, <1>2, <1>3 DEF ComposerInv, UidInv, Asked
  <1>6. \A j \in Compose!Panels : InFlight(j)' <=> InFlight(j)
    BY DEF InFlight, Asked
  <1>7. OwnInv'
    <2>1. \A j \in Compose!Panels : draftUid'[j] \notin discard'[j]
      BY <1>1, <1>2 DEF ComposerInv, OwnInv, UidInv
    <2>2. \A j \in Compose!Panels : InFlight(j)' => /\ save'[j].uid # save'[j].replace /\ save'[j].uid # draftUid'[j]
                                                    /\ save'[j].uid \notin discard'[j] /\ save'[j].uid # 0
      BY <1>1, <1>2, <1>6 DEF ComposerInv, OwnInv, Asked
    <2>3. \A j \in Compose!Panels, d \in drafts' : Shown' /\ d.by = inst' /\ j # inst' =>
       d.uid # draftUid'[j] /\ d.uid # save'[j].replace /\ d.uid # save'[j].uid /\ d.uid \notin discard'[j]
      BY <1>1, <1>2 DEF ComposerInv, OwnInv, UidInv, Asked
    <2> QED BY <1>3, <2>1, <2>2, <2>3 DEF OwnInv
  <1>8. \A j \in Compose!Panels, d \in drafts : j # i \/ save[j].at # "idle" => (Other(j, d)' <=> Other(j, d))
    BY <1>1, <1>6 DEF Other, Chain, Asked
  <1>9. \A j \in Compose!Panels : j # i \/ save[j].at # "idle" => (NoOther(j)' <=> NoOther(j)) /\ (OneOther(j)' <=> OneOther(j))
    BY <1>8 DEF NoOther, OneOther, Asked
  <1>10. \A j \in Compose!Panels : \A u : AllBut(j, u)' <=> AllBut(j, u)
    BY DEF AllBut, Asked
  <1> QED BY <1>1, <1>2, <1>3, <1>4, <1>5, <1>6, <1>7, <1>9, <1>10

LEMMA DiscardKeeps ==
  ASSUME ComposerInv, Compose!Discard
  PROVE  ComposerInv'
  <1>1. /\ UNCHANGED <<panelPlan, inst, save, drafts, post, sendRow, told>> /\ Compose!AskDiscard(inst)
        /\ ui = "open" /\ ui' = "closed" /\ ~timer'
    BY DEF Compose!Discard, Compose!OnClose, Compose!Outcome
  <1>k. PICK k \in Compose!Panels : k = inst
    BY <1>1 DEF ComposerInv, PanelInv, Shown
  <1>n. /\ marks'.last = marks.last /\ marks'.lost = marks.lost
        /\ marks'.overtaken = (marks.overtaken \/ save[k].at # "idle") /\ MarksShape'
    BY <1>k DEF ComposerInv, MarksShape, Compose!Discard
  <1>2. Asked(k) /\ ~Shown' /\ k <= inst /\ Shown
    BY <1>1, <1>k, <1>n DEF Asked, Shown, ComposerInv, PanelInv
  <1>3. /\ Tables' /\ UidInv' /\ OwnInv' /\ Compose!Panels' = Compose!Panels /\ Given' = Given
        /\ draftUid'[k] = 0 /\ \A j \in Compose!Panels : j # k => draftUid'[j] = draftUid[j] /\ discard'[j] = discard[j]
        /\ \A u : u \in discard'[k] <=> u \in discard[k] \/ (u = draftUid[k] /\ u # 0)
        /\ \A j \in Compose!Panels : j # k \/ save[j].at # "idle" => (NoOther(j)' <=> NoOther(j)) /\ (OneOther(j)' <=> OneOther(j))
        /\ \A j \in Compose!Panels : \A u : AllBut(j, u)' <=> AllBut(j, u)
    BY <1>2, AskKeeps
  <1>4. PanelInv' /\ PostInv'
    BY <1>1, <1>2, PostFrame DEF ComposerInv, PanelInv, Shown, Compose!Panels
  <1>5. SavedInv'
    BY <1>1 DEF SavedInv
  <1>6. \A j \in Compose!Panels : ~Mounted(j)' /\ (Accepted(j)' <=> Accepted(j))
    BY <1>1, <1>2 DEF Mounted, Accepted
  <1>7. Mounted(k)
    BY <1>2, <1>k DEF Mounted
  <1>8. ChainInv'
    <2>1. save[k].at = "idle" => draftUid[k] \in Given /\ (OneOther(k) => AllBut(k, draftUid[k]))
      BY DEF OneOther, AllBut, Other, Chain, InFlight, ComposerInv, UidInv
    <2> QED BY <1>1, <1>3, <1>6, <1>7, <1>n, <2>1 DEF ComposerInv, ChainInv
  <1>9. CleanInv'
    <2> SUFFICES ASSUME ~marks.lost, ~marks'.overtaken, NEW i \in Compose!Panels
                 PROVE  /\ save'[i].at = "idle" => AllBut(i, 0)' /\ \A d \in drafts' : d.by = i => d.uid = draftUid'[i] \/ d.uid \in discard'[i]
                        /\ save'[i].at # "idle" => NoOther(i)'
                        /\ save'[i].at = "call" => save'[i].replace = draftUid'[i]
                        /\ Accepted(i)' => save'[i].at = "idle" /\ draftUid'[i] = 0
      BY <1>3, <1>n DEF CleanInv
    <2>1. CASE i = k
      BY <1>1, <1>3, <1>6, <1>n, <2>1 DEF ComposerInv, CleanInv, UidInv
    <2>2. CASE i # k
      BY <1>1, <1>3, <1>6, <1>n, <2>2 DEF ComposerInv, CleanInv
    <2> QED BY <2>1, <2>2
  <1> QED BY <1>3, <1>4, <1>5, <1>8, <1>9, <1>n DEF ComposerInv

LEMMA DiscardedKeeps ==
  ASSUME ComposerInv, NEW i \in Compose!Panels, Compose!DiscardDraft(i)
  PROVE  ComposerInv'
  <1>1. UNCHANGED <<panelPlan, ui, inst, dom, timer, save, draftUid, post, sendRow, told, marks>>
    BY DEF Compose!DiscardDraft, Compose!Outcome
  <1>u. PICK u \in discard[i] : drafts' = {d \in drafts : d.uid # u} /\ discard' = [discard EXCEPT ![i] = discard[i] \ {u}]
    BY DEF Compose!DiscardDraft
  <1>2. /\ discard' = [j \in Compose!Panels |-> discard'[j]] /\ discard'[i] = discard[i] \ {u}
        /\ \A j \in Compose!Panels : j # i => discard'[j] = discard[j]
    BY <1>u DEF ComposerInv, Tables
  <1>d. drafts' \subseteq drafts /\ (\A d \in drafts : d \in drafts' <=> d.uid # u) /\ \A j \in Compose!Panels : discard'[j] \subseteq discard[j]
    BY <1>u, <1>2
  <1>3. PanelInv' /\ PostInv' /\ Compose!Panels' = Compose!Panels
    BY <1>1, PostFrame DEF ComposerInv, PanelInv, Shown, Compose!Panels
  <1>4. MarksShape' /\ Given' = Given
    BY <1>1 DEF ComposerInv, MarksShape, Given
  <1>5. Tables'
    BY <1>1, <1>2, <1>3 DEF ComposerInv, Tables
  <1>6. UidInv'
    BY <1>1, <1>d, <1>3, <1>4 DEF ComposerInv, UidInv
  <1>7. \A j \in Compose!Panels : InFlight(j)' <=> InFlight(j)
    BY <1>1 DEF InFlight
  <1>8. OwnInv'
    BY <1>1, <1>d, <1>3, <1>7 DEF ComposerInv, OwnInv, Shown
  <1>9. SavedInv'
    <2>1. Shown => \A w : Holds(w) /\ w # u => Holds(w)'
      BY <1>1, <1>d DEF Holds
    <2>2. Shown => \A w : Holds(w) /\ i # inst => Holds(w)'
      BY <1>1, <1>d DEF Holds, ComposerInv, OwnInv
    <2>3. Shown /\ i = inst => draftUid[inst] # u /\ (InFlight(inst) => save[inst].uid # u)
      BY <1>u DEF ComposerInv, OwnInv
    <2>4. Shown => (InFlight(inst)' <=> InFlight(inst))
      BY <1>1 DEF InFlight
    <2> QED BY <1>1, <2>1, <2>2, <2>3, <2>4 DEF ComposerInv, SavedInv, Shown
  <1>10. \A j \in Compose!Panels, d \in drafts' : Other(j, d)' <=> Other(j, d)
    BY <1>1, <1>d DEF Other, Chain, InFlight
  <1>11. \A j \in Compose!Panels : (NoOther(j) => NoOther(j)') /\ (OneOther(j) => OneOther(j)')
    BY <1>d, <1>10 DEF NoOther, OneOther
  <1>12. \A j \in Compose!Panels : /\ Mounted(j)' <=> Mounted(j)
                                   /\ Accepted(j)' <=> Accepted(j)
                                   /\ \A w : AllBut(j, w) => AllBut(j, w)'
    BY <1>1, <1>d DEF Mounted, Accepted, AllBut, Shown
  <1>13. ChainInv'
    BY <1>1, <1>3, <1>4, <1>11, <1>12 DEF ComposerInv, ChainInv
  <1>14. CleanInv'
    BY <1>1, <1>2, <1>d, <1>3, <1>11, <1>12 DEF ComposerInv, CleanInv
  <1> QED BY <1>3, <1>4, <1>5, <1>6, <1>8, <1>9, <1>13, <1>14 DEF ComposerInv

LEMMA DiscardFailsKeeps ==
  ASSUME ComposerInv, NEW i \in Compose!Panels, Compose!DiscardFails(i)
  PROVE  ComposerInv'
  <1>1. UNCHANGED <<panelPlan, ui, inst, dom, timer, save, draftUid, drafts, post, sendRow, told>>
    BY DEF Compose!DiscardFails, Compose!Outcome
  <1>u. PICK u \in discard[i] : discard' = [discard EXCEPT ![i] = discard[i] \ {u}]
    BY DEF Compose!DiscardFails
  <1>2. /\ discard' = [j \in Compose!Panels |-> discard'[j]]
        /\ \A j \in Compose!Panels : discard'[j] \subseteq discard[j]
    BY <1>u DEF ComposerInv, Tables
  <1>n. marks'.last = marks.last /\ marks'.lost /\ marks'.wiped = marks.wiped /\ MarksShape'
    BY DEF ComposerInv, MarksShape, Compose!DiscardFails
  <1>3. PanelInv' /\ PostInv' /\ Compose!Panels' = Compose!Panels /\ Given' = Given
    BY <1>1, <1>n, PostFrame DEF ComposerInv, PanelInv, Shown, Compose!Panels, Given
  <1>5. Tables'
    BY <1>1, <1>2, <1>3 DEF ComposerInv, Tables
  <1>6. UidInv'
    BY <1>1, <1>2, <1>n, <1>3 DEF ComposerInv, UidInv
  <1>8. OwnInv'
    BY <1>1, <1>2, <1>3 DEF ComposerInv, OwnInv, Shown, InFlight
  <1>9. SavedInv' /\ ChainInv' /\ CleanInv'
    BY <1>n DEF SavedInv, ChainInv, CleanInv
  <1> QED BY <1>3, <1>5, <1>6, <1>8, <1>9, <1>n DEF ComposerInv

--------------------------------------------------------------------------------
(* Sending, and its outcome. *)

LEMMA SendAcceptedKeeps ==
  ASSUME ComposerInv, Compose!SendAccepted
  PROVE  ComposerInv'
  <1>1. /\ UNCHANGED <<panelPlan, inst, save, drafts, told>> /\ Compose!AskDiscard(post.inst)
        /\ post.at = "posting" /\ sendRow' = "pending" /\ sendRow = "none"
    BY DEF Compose!SendAccepted, ComposerInv, PostInv, Sent
  <1>k. PICK k \in Compose!Panels : k = post.inst /\ k <= inst
    BY <1>1 DEF ComposerInv, PostInv
  <1>n. /\ marks'.last = marks.last /\ marks'.lost = marks.lost /\ marks'.wiped = marks.wiped /\ marks'.skipped = marks.skipped
        /\ marks'.overtaken = (marks.overtaken \/ save[k].at # "idle") /\ MarksShape'
    BY <1>k DEF ComposerInv, MarksShape, Compose!SendAccepted
  <1>2. \/ /\ post' = [post EXCEPT !.at = "shown"] /\ ui' = "closed" /\ ~timer'
        \/ /\ post' = [post EXCEPT !.at = "accepted", !.wait = draftUid[k]] /\ UNCHANGED <<ui, dom, timer>>
    BY <1>k DEF Compose!SendAccepted, Compose!ShowsUndo, Compose!OnClose
  <1>3. Asked(k) /\ (Shown' => Shown)
    BY <1>1, <1>k, <1>2, <1>n DEF Asked, Shown
  <1>4. /\ Tables' /\ UidInv' /\ OwnInv' /\ Compose!Panels' = Compose!Panels /\ Given' = Given
        /\ draftUid'[k] = 0 /\ \A j \in Compose!Panels : j # k => draftUid'[j] = draftUid[j] /\ discard'[j] = discard[j]
        /\ \A u : u \in discard'[k] <=> u \in discard[k] \/ (u = draftUid[k] /\ u # 0)
        /\ \A j \in Compose!Panels : InFlight(j)' <=> InFlight(j)
        /\ \A j \in Compose!Panels : j # k \/ save[j].at # "idle" => (NoOther(j)' <=> NoOther(j)) /\ (OneOther(j)' <=> OneOther(j))
        /\ \A j \in Compose!Panels : \A u : AllBut(j, u)' <=> AllBut(j, u)
    BY <1>3, <1>k, AskKeeps
  <1>5. /\ post' = [at |-> post'.at, inst |-> post'.inst, body |-> post'.body, reply |-> post'.reply, files |-> post'.files,
                    wait |-> post'.wait]
        /\ post'.inst = k /\ post'.at \in {"accepted", "shown"}
        /\ post'.at = "shown" => ui' = "closed"
    BY <1>2, <1>k DEF ComposerInv, PostInv
  <1>6. PostInv'
    BY <1>1, <1>k, <1>4, <1>5 DEF ComposerInv, PostInv, Sent, Shown
  <1>7. PanelInv'
    BY <1>1, <1>2, <1>4, <1>n DEF ComposerInv, PanelInv, Shown
  <1>8. SavedInv'
    <2>1. CASE ui' = "closed"
      BY <2>1 DEF SavedInv
    <2>2. CASE UNCHANGED <<ui, dom, timer>>
      <3>1. \A u : Holds(u) => Holds(u)'
        BY <1>1, <2>2 DEF Holds
      <3>2. Shown => (draftUid'[inst] # 0 => draftUid'[inst] = draftUid[inst]) /\ (InFlight(inst)' <=> InFlight(inst))
        <4>1. Shown => (draftUid'[inst] # 0 => draftUid'[inst] = draftUid[inst])
          BY <1>4 DEF ComposerInv, PanelInv
        <4>2. InFlight(inst)' <=> InFlight(inst)
          BY <1>1 DEF InFlight
        <4> QED BY <4>1, <4>2
      <3> QED BY <1>1, <1>n, <2>2, <3>1, <3>2 DEF ComposerInv, SavedInv, Shown
    <2> QED BY <1>2, <2>1, <2>2
  <1>9. \A j \in Compose!Panels : /\ Mounted(j)' => Mounted(j)
                                  /\ ~Accepted(j)
                                  /\ Accepted(j)' <=> j = k
    BY <1>1, <1>3, <1>5 DEF Mounted, Accepted
  <1>10. save[k].at = "idle" /\ NoOther(k) => OneOther(k)'
    BY <1>1 DEF NoOther, OneOther, Other, Chain, InFlight, ComposerInv, UidInv
  <1>11. ChainInv'
    BY <1>1, <1>4, <1>9, <1>10, <1>n DEF ComposerInv, ChainInv
  <1>12. CleanInv'
    <2> SUFFICES ASSUME ~marks.lost, ~marks'.overtaken, NEW i \in Compose!Panels
                 PROVE  /\ save'[i].at = "idle" => AllBut(i, 0)' /\ \A d \in drafts' : d.by = i => d.uid = draftUid'[i] \/ d.uid \in discard'[i]
                        /\ save'[i].at # "idle" => NoOther(i)'
                        /\ save'[i].at = "call" => save'[i].replace = draftUid'[i]
                        /\ Accepted(i)' => save'[i].at = "idle" /\ draftUid'[i] = 0
      BY <1>4, <1>n DEF CleanInv
    <2>1. CASE i = k
      BY <1>1, <1>4, <1>9, <1>n, <2>1 DEF ComposerInv, CleanInv, UidInv
    <2>2. CASE i # k
      BY <1>1, <1>4, <1>9, <1>n, <2>2 DEF ComposerInv, CleanInv
    <2> QED BY <2>1, <2>2
  <1> QED BY <1>4, <1>6, <1>7, <1>8, <1>11, <1>12, <1>n DEF ComposerInv

LEMMA SubmitKeeps ==
  ASSUME ComposerInv, Compose!Submit
  PROVE  ComposerInv'
  <1>0. UNCHANGED <<panelPlan, ui, inst, dom, timer, save, draftUid, discard, drafts, sendRow, told, marks>>
    BY DEF Compose!Submit, Compose!Draft, Compose!Outcome
  <1>p. /\ post' = [at |-> post'.at, inst |-> post'.inst, body |-> post'.body, reply |-> post'.reply, files |-> post'.files,
                    wait |-> post'.wait]
        /\ post'.at = "posting" /\ post'.inst = inst /\ sendRow = "none" /\ ui = "open"
    BY DEF Compose!Submit
  <1>1. DraftGroups'
    BY <1>0, <1>p, DraftsFrame DEF DraftsRest, Shown
  <1>2. SavedInv'
    BY <1>0, SavedFrame
  <1>3. PostInv'
    BY <1>0, <1>p DEF ComposerInv, PostInv, PanelInv, Sent, Shown, Compose!Panels
  <1>4. PanelInv' /\ MarksShape'
    BY <1>0 DEF ComposerInv, PanelInv, MarksShape, Shown, Compose!Panels
  <1> QED BY <1>1, <1>2, <1>3, <1>4 DEF ComposerInv, DraftGroups

LEMMA SendRefusedKeeps ==
  ASSUME ComposerInv, Compose!SendRefused
  PROVE  ComposerInv'
  <1>0. /\ UNCHANGED <<panelPlan, ui, inst, dom, timer, save, draftUid, discard, drafts, sendRow, told, marks>>
        /\ post.at = "posting" /\ post' = Compose!NoPost
    BY DEF Compose!SendRefused, Compose!Draft, Compose!Outcome
  <1>p. sendRow = "none"
    BY <1>0 DEF ComposerInv, PostInv, Sent
  <1>1. DraftGroups'
    BY <1>0, <1>p, DraftsFrame DEF DraftsRest, Shown
  <1>2. SavedInv'
    BY <1>0, SavedFrame
  <1>3. PostInv'
    BY <1>0, <1>p DEF ComposerInv, PostInv, Compose!NoPost, Sent
  <1>4. PanelInv' /\ MarksShape'
    BY <1>0 DEF ComposerInv, PanelInv, MarksShape, Shown, Compose!Panels
  <1> QED BY <1>1, <1>2, <1>3, <1>4 DEF ComposerInv, DraftGroups

LEMMA ShowUndoKeeps ==
  ASSUME ComposerInv, Compose!ShowUndo
  PROVE  ComposerInv'
  <1>0. /\ UNCHANGED <<panelPlan, inst, save, draftUid, discard, drafts, sendRow, told, marks>>
        /\ post.at = "accepted" /\ post' = [post EXCEPT !.at = "shown"] /\ ui' = "closed" /\ ~timer'
    BY DEF Compose!ShowUndo, Compose!ShowsUndo, Compose!OnClose, Compose!Draft
  <1>p. /\ post' = [at |-> post'.at, inst |-> post'.inst, body |-> post'.body, reply |-> post'.reply, files |-> post'.files,
                    wait |-> post'.wait]
        /\ post'.inst = post.inst /\ post'.at = "shown"
    BY <1>0 DEF ComposerInv, PostInv
  <1>1. DraftGroups'
    BY <1>0, <1>p, DraftsFrame DEF DraftsRest, Shown
  <1>2. SavedInv'
    BY <1>0 DEF SavedInv
  <1>3. PostInv'
    BY <1>0, <1>p DEF ComposerInv, PostInv, Sent, Shown, Compose!Panels
  <1>4. PanelInv' /\ MarksShape'
    BY <1>0 DEF ComposerInv, PanelInv, MarksShape, Shown, Compose!Panels
  <1> QED BY <1>1, <1>2, <1>3, <1>4 DEF ComposerInv, DraftGroups

LEMMA WindowEndsKeeps ==
  ASSUME ComposerInv, Compose!WindowEnds
  PROVE  ComposerInv'
  <1>0. /\ UNCHANGED <<panelPlan, ui, inst, dom, timer, save, draftUid, discard, drafts, sendRow, told, marks>>
        /\ post.at = "shown" /\ post' = [post EXCEPT !.at = "over"]
    BY DEF Compose!WindowEnds, Compose!Draft
  <1>p. /\ post' = [at |-> post'.at, inst |-> post'.inst, body |-> post'.body, reply |-> post'.reply, files |-> post'.files,
                    wait |-> post'.wait]
        /\ post'.inst = post.inst /\ post'.at = "over"
    BY <1>0 DEF ComposerInv, PostInv
  <1>1. DraftGroups'
    BY <1>0, <1>p, DraftsFrame DEF DraftsRest, Shown
  <1>2. SavedInv'
    BY <1>0, SavedFrame
  <1>3. PostInv'
    BY <1>0, <1>p DEF ComposerInv, PostInv, Sent, Shown, Compose!Panels
  <1>4. PanelInv' /\ MarksShape'
    BY <1>0 DEF ComposerInv, PanelInv, MarksShape, Shown, Compose!Panels
  <1> QED BY <1>1, <1>2, <1>3, <1>4 DEF ComposerInv, DraftGroups

\* Undo, the answer to it, the poll and the worker: what is told is what the sendRow says by then.
LEMMA OutcomeKeeps ==
  ASSUME ComposerInv, Compose!Undo \/ Compose!CancelAnswered \/ Compose!CancelLost \/ Compose!PollOutcome \/ Compose!WorkerStep
  PROVE  ComposerInv'
  <1>0. UNCHANGED <<panelPlan, ui, inst, dom, timer, save, draftUid, discard, drafts, post, marks>>
    BY DEF Compose!Undo, Compose!CancelAnswered, Compose!CancelLost, Compose!PollOutcome, Compose!WorkerStep, Compose!OutcomeStep, Compose!Draft
  <1>r. sendRow' # "none" <=> sendRow # "none"
    BY DEF Compose!Undo, Compose!CancelAnswered, Compose!CancelLost, Compose!PollOutcome, Compose!WorkerStep
  <1>t. told' \in {"sent", "failed", "cancelled"} => sendRow' = told'
    <2>1. told \in {"sent", "failed", "cancelled"} => sendRow = told
      BY DEF ComposerInv, PostInv
    <2>2. CASE Compose!Undo
      BY <2>1, <2>2 DEF Compose!Undo
    <2>3. CASE Compose!CancelAnswered
      BY <2>1, <2>3 DEF Compose!CancelAnswered
    <2>4. CASE Compose!PollOutcome
      BY <2>1, <2>4 DEF Compose!PollOutcome, Compose!Report, Compose!LastWord
    <2>5. CASE Compose!WorkerStep
      BY <2>1, <2>5 DEF Compose!WorkerStep
    <2>6. CASE Compose!CancelLost
      BY <2>6 DEF Compose!CancelLost
    <2> QED BY <2>2, <2>3, <2>4, <2>5, <2>6
  <1>1. DraftGroups'
    BY <1>0, <1>r, DraftsFrame DEF DraftsRest, Shown
  <1>2. SavedInv'
    BY <1>0, SavedFrame
  <1>3. PostInv'
    BY <1>0, <1>r, <1>t DEF ComposerInv, PostInv, Sent, Shown, Compose!Panels
  <1>4. PanelInv' /\ MarksShape'
    BY <1>0 DEF ComposerInv, PanelInv, MarksShape, Shown, Compose!Panels
  <1> QED BY <1>1, <1>2, <1>3, <1>4 DEF ComposerInv, DraftGroups

--------------------------------------------------------------------------------
(* The theorem. *)

LEMMA ComposerStep ==
  ASSUME Compose!PlansAssumption, ComposerInv, [Compose!Next]_(Compose!vars)
  PROVE  ComposerInv'
  <1>1. ASSUME NEW init, Compose!SetCompose(init), init.draft \in Given PROVE ComposerInv'
    BY <1>1, MountKeeps, RetargetKeeps DEF Shown
  <1>2. CASE Compose!Compose
    <2>1. Compose!Blank.draft \in Given
      BY DEF Compose!Blank, Given, ComposerInv, UidInv
    <2> QED BY <1>1, <1>2, <2>1 DEF Compose!Compose
  <1>3. CASE Compose!ReplyTo
    <2>1. PICK init : init = [Compose!Blank EXCEPT !.reply = 1]
      OBVIOUS
    <2>2. init.draft \in Given
      BY <2>1 DEF Compose!Blank, Given, ComposerInv, UidInv
    <2> QED BY <1>1, <1>3, <2>1, <2>2 DEF Compose!ReplyTo
  <1>4. ASSUME NEW d \in drafts, Compose!ResumeDraft(d) PROVE ComposerInv'
    <2>1. PICK init : init = [body |-> d.body, reply |-> 0, draft |-> d.uid]
      OBVIOUS
    <2>2. init.draft \in Given
      BY <2>1 DEF ComposerInv, UidInv
    <2> QED BY <1>1, <1>4, <2>1, <2>2 DEF Compose!ResumeDraft
  <1>5. CASE Compose!SeedSignature \/ Compose!Type \/ Compose!Minimize \/ Compose!Restore \/ Compose!Close \/ Compose!Discard
    BY <1>5, SeedKeeps, TypeKeeps, MinimizeKeeps, RestorePanelKeeps, CloseKeeps, DiscardKeeps
  <1>6. CASE Compose!AutosaveFires
    BY <1>6, SkipKeeps, FireKeeps
  <1>7. ASSUME NEW i \in Compose!Panels,
               \/ Compose!AppendDraft(i) \/ Compose!DeletePrior(i) \/ Compose!DeleteFails(i) \/ Compose!SaveAnswered(i)
               \/ Compose!SaveFails(i) \/ Compose!DiscardDraft(i) \/ Compose!DiscardFails(i)
        PROVE  ComposerInv'
    BY <1>7, AppendKeeps, DeletePriorKeeps, DeleteFailsKeeps, AnsweredKeeps, SaveFailsKeeps, DiscardedKeeps, DiscardFailsKeeps
  <1>8. ASSUME NEW f \in Files,
               Compose!OnPick(f) \/ Compose!Uploaded(f) \/ Compose!UploadFails(f) \/ Compose!RetryUpload(f) \/ Compose!RemoveAttachment(f)
        PROVE  ComposerInv'
    BY <1>8, FilesKeep DEF Compose!OnPick, Compose!Uploaded, Compose!UploadFails, Compose!RetryUpload, Compose!RemoveAttachment
  <1>9. CASE Compose!Submit \/ Compose!SendRefused \/ Compose!SendAccepted \/ Compose!ShowUndo \/ Compose!WindowEnds
    BY <1>9, SubmitKeeps, SendRefusedKeeps, SendAcceptedKeeps, ShowUndoKeeps, WindowEndsKeeps
  <1>10. CASE Compose!Undo \/ Compose!CancelAnswered \/ Compose!CancelLost \/ Compose!PollOutcome \/ Compose!WorkerStep
    BY <1>10, OutcomeKeeps
  <1>11. CASE UNCHANGED Compose!vars
    BY <1>11, StutterKeeps
  <1> QED BY <1>2, <1>3, <1>4, <1>5, <1>6, <1>7, <1>8, <1>9, <1>10, <1>11 DEF Compose!Next

\* Counting: a set with nothing but x, x and y, or x, y and z.
LEMMA OneOrNone ==
  ASSUME NEW S, \A a, b \in S : a = b
  PROVE  IsFiniteSet(S) /\ Cardinality(S) \in Nat /\ Cardinality(S) <= 1
  <1>1. CASE S = {}
    BY <1>1, FS_EmptySet
  <1>2. CASE S # {}
    <2>1. PICK a : S = {a}
      BY <1>2
    <2> QED BY <2>1, FS_Singleton, SMTT(40)
  <1> QED BY <1>1, <1>2

LEMMA OneMore ==
  ASSUME NEW S, NEW x, NEW n \in Nat, IsFiniteSet(S \ {x}), Cardinality(S \ {x}) <= n
  PROVE  IsFiniteSet(S) /\ Cardinality(S) \in Nat /\ Cardinality(S) <= n + 1
  <1>0. Cardinality(S \ {x}) \in Nat
    BY FS_CardinalityType
  <1>1. CASE x \in S
    <2>1. S = (S \ {x}) \cup {x} /\ x \notin S \ {x}
      BY <1>1
    <2>2. IsFiniteSet((S \ {x}) \cup {x}) /\ Cardinality((S \ {x}) \cup {x}) = Cardinality(S \ {x}) + 1
      BY <2>1, FS_AddElement
    <2> QED BY <1>0, <2>1, <2>2
  <1>2. CASE x \notin S
    <2>1. S = S \ {x}
      BY <1>2
    <2> QED BY <1>0, <2>1
  <1> QED BY <1>1, <1>2

\* Among the drafts of an instance, one has uid u at most.
LEMMA ButOne ==
  ASSUME ComposerInv, NEW i \in Compose!Panels, NEW u, NEW n \in Nat, NEW T \in SUBSET Compose!Mine(i),
         IsFiniteSet({d \in T : d.uid # u}), Cardinality({d \in T : d.uid # u}) <= n
  PROVE  IsFiniteSet(T) /\ Cardinality(T) \in Nat /\ Cardinality(T) <= n + 1
  <1>1. CASE \E x \in T : x.uid = u
    <2>1. PICK x \in T : x.uid = u
      BY <1>1
    <2>2. {d \in T : d.uid # u} = T \ {x}
      BY <2>1 DEF Compose!Mine, ComposerInv, UidInv
    <2> QED BY <2>2, OneMore
  <1>2. CASE ~\E x \in T : x.uid = u
    <2>1. {d \in T : d.uid # u} = T
      BY <1>2
    <2>2. IsFiniteSet(T) /\ Cardinality(T) <= n
      BY <2>1
    <2>3. Cardinality(T) \in Nat
      BY <2>2, FS_CardinalityType
    <2> QED BY <2>2, <2>3
  <1> QED BY <1>1, <1>2

\* How many drafts an instance can have.
LEMMA DraftsCounted ==
  ASSUME ComposerInv, ~marks.lost, NEW i \in Compose!Panels
  PROVE  Cardinality(Compose!Mine(i)) <= 1 + (IF save[i].at = "appended" THEN 1 ELSE 0) + (IF marks.overtaken THEN 1 ELSE 0)
  <1> DEFINE M(u, v) == {d \in Compose!Mine(i) : d.uid # u /\ d.uid # v}
             K(u) == {d \in Compose!Mine(i) : d.uid # u}
  <1>0. save[i].at \in Saves
    BY DEF ComposerInv, Tables
  <1>1. CASE save[i].at = "idle"
    <2>1. CASE marks.overtaken
      <3>1. PICK u \in Given : AllBut(i, u)
        BY <1>1 DEF ComposerInv, ChainInv
      <3>2. \A a, b \in K(u) : a = b
        BY <3>1 DEF AllBut, Compose!Mine
      <3>3. IsFiniteSet(K(u)) /\ Cardinality(K(u)) <= 1
        BY <3>2, OneOrNone
      <3>4. Cardinality(Compose!Mine(i)) \in Nat /\ Cardinality(Compose!Mine(i)) <= 1 + 1
        BY <3>3, ButOne
      <3> QED BY <1>1, <2>1, <3>4
    <2>2. CASE ~marks.overtaken
      <3>1. \A a, b \in Compose!Mine(i) : a = b
        BY <1>1, <2>2 DEF ComposerInv, CleanInv, AllBut, Compose!Mine, UidInv
      <3>2. Cardinality(Compose!Mine(i)) \in Nat /\ Cardinality(Compose!Mine(i)) <= 1
        BY <3>1, OneOrNone
      <3> QED BY <1>1, <2>2, <3>2
    <2> QED BY <2>1, <2>2
  <1>2. ASSUME NEW u, NEW v, save[i].at # "idle",
               \A w : Chain(i, w) <=> w = u \/ w = v
        PROVE  /\ Cardinality(Compose!Mine(i)) \in Nat
               /\ Cardinality(Compose!Mine(i)) <= (IF marks.overtaken THEN 1 ELSE 0) + (IF u = v THEN 1 ELSE 2)
    <2>1. PICK n \in Nat : n = IF marks.overtaken THEN 1 ELSE 0
      OBVIOUS
    <2>2. IsFiniteSet(M(u, v)) /\ Cardinality(M(u, v)) <= n
      <3>1. CASE marks.overtaken
        <4>1. \A a, b \in M(u, v) : a = b
          BY <1>2 DEF ComposerInv, ChainInv, OneOther, Other, Compose!Mine
        <4> QED BY <2>1, <3>1, <4>1, OneOrNone
      <3>2. CASE ~marks.overtaken
        <4>1. M(u, v) = {}
          BY <1>2, <3>2 DEF ComposerInv, CleanInv, NoOther, Other, Compose!Mine
        <4> QED BY <2>1, <3>2, <4>1, FS_EmptySet
      <3> QED BY <3>1, <3>2
    <2>3. M(u, v) = {d \in K(u) : d.uid # v} /\ K(u) \in SUBSET Compose!Mine(i)
      OBVIOUS
    <2>4. IsFiniteSet(K(u)) /\ Cardinality(K(u)) <= n + 1
      BY <2>2, <2>3, ButOne
    <2>5. Cardinality(Compose!Mine(i)) \in Nat /\ Cardinality(Compose!Mine(i)) <= n + 1 + 1
      <3>1. n + 1 \in Nat /\ Compose!Mine(i) \in SUBSET Compose!Mine(i)
        OBVIOUS
      <3> QED BY <2>4, <3>1, ButOne
    <2>6. CASE u = v
      <3>1. M(u, v) = K(u)
        BY <2>6
      <3>2. Cardinality(Compose!Mine(i)) \in Nat /\ Cardinality(Compose!Mine(i)) <= n + 1
        BY <2>2, <3>1, ButOne
      <3> QED BY <2>1, <2>6, <3>2
    <2> QED BY <2>1, <2>5, <2>6
  <1>3. CASE save[i].at = "call"
    <2>1. \A w : Chain(i, w) <=> w = save[i].replace \/ w = save[i].replace
      BY <1>3 DEF Chain, InFlight
    <2>2. /\ Cardinality(Compose!Mine(i)) \in Nat
          /\ Cardinality(Compose!Mine(i)) <= (IF marks.overtaken THEN 1 ELSE 0) + (IF save[i].replace = save[i].replace THEN 1 ELSE 2)
      <3>1. save[i].at # "idle"
        BY <1>3
      <3> QED BY <1>2, <2>1, <3>1
    <2> QED BY <1>3, <2>2
  <1>4. CASE save[i].at = "answer"
    <2>1. \A w : Chain(i, w) <=> w = save[i].uid \/ w = save[i].uid
      BY <1>4 DEF Chain, InFlight
    <2>2. /\ Cardinality(Compose!Mine(i)) \in Nat
          /\ Cardinality(Compose!Mine(i)) <= (IF marks.overtaken THEN 1 ELSE 0) + (IF save[i].uid = save[i].uid THEN 1 ELSE 2)
      <3>1. save[i].at # "idle"
        BY <1>4
      <3> QED BY <1>2, <2>1, <3>1
    <2> QED BY <1>4, <2>2
  <1>5. CASE save[i].at = "appended"
    <2>1. \A w : Chain(i, w) <=> w = save[i].replace \/ w = save[i].uid
      BY <1>5 DEF Chain, InFlight
    <2>2. /\ Cardinality(Compose!Mine(i)) \in Nat
          /\ Cardinality(Compose!Mine(i)) <= (IF marks.overtaken THEN 1 ELSE 0) + (IF save[i].replace = save[i].uid THEN 1 ELSE 2)
      <3>1. save[i].at # "idle"
        BY <1>5
      <3> QED BY <1>2, <2>1, <3>1
    <2> QED BY <1>5, <2>2
  <1> QED BY <1>0, <1>1, <1>3, <1>4, <1>5 DEF Saves

LEMMA ComposerSafe ==
  ASSUME ComposerInv
  PROVE  Compose!ComposerSound
  <1>1. ~marks.lost => \A i \in Compose!Panels : Cardinality(Compose!Mine(i)) <= 1 + (IF save[i].at = "appended" THEN 1 ELSE 0)
                                                                + (IF marks.overtaken THEN 1 ELSE 0)
    BY DraftsCounted
  <1>2. (Compose!Calm /\ ~marks.lost /\ ~marks.overtaken /\ post.at \in {"shown", "over"}) => Compose!Mine(post.inst) = {}
    <2> SUFFICES ASSUME Compose!Calm, ~marks.lost, ~marks.overtaken, post.at \in {"shown", "over"}
                 PROVE  Compose!Mine(post.inst) = {}
      OBVIOUS
    <2>1. post.inst \in Compose!Panels /\ Accepted(post.inst)
      BY DEF ComposerInv, PostInv, Sent, Accepted
    <2>2. \A d \in drafts : d.by = post.inst => d.uid = 0
      BY <2>1 DEF ComposerInv, CleanInv, Compose!Calm
    <2> QED BY <2>2 DEF Compose!Mine, ComposerInv, UidInv
  <1>3. (Compose!Calm /\ ~timer /\ ui = "open" /\ dom # Compose!Empty /\ ~marks.lost /\ ~marks.skipped /\ ~marks.wiped /\ draftUid[inst] # 0)
          => \E d \in drafts : d.uid = draftUid[inst] /\ d.body = dom
    BY DEF ComposerInv, SavedInv, Holds, Compose!Calm, PanelInv, Shown
  <1>4. told \in {"sent", "failed", "cancelled"} => sendRow = told
    BY DEF ComposerInv, PostInv
  <1> QED BY <1>1, <1>2, <1>3, <1>4 DEF Compose!ComposerSound, Compose!Cardinality, Cardinality

\* The compose panel, for any number of panels opened, edits, failing calls and polls: as long as no save
\* or discard failed, one draft per panel and none of a message that left; the draft is what the editor
\* holds; and whatever failed, a message reported sent, failed or cancelled is just that.
THEOREM ComposerIsSound ==
  ASSUME Compose!PlansAssumption
  PROVE  Compose!Spec => []Compose!ComposerSound
  <1>1. Compose!Init => ComposerInv
    BY ComposerInit
  <1>2. ComposerInv /\ [Compose!Next]_(Compose!vars) => ComposerInv'
    BY ComposerStep
  <1>3. ComposerInv => Compose!ComposerSound
    BY ComposerSafe
  <1> QED BY <1>1, <1>2, <1>3, PTL DEF Compose!Spec

--------------------------------------------------------------------------------
(* Identity providers and directories, as their administrators edit them. *)

\* A nonempty set of positions has a first and a last.
LEMMA FirstOf ==
  ASSUME NEW U, U \subseteq Nat, U # {}
  PROVE  \E i \in U : \A j \in U : i <= j
  <1>1. PICK i \in U : \A j \in U : ~(<<j, i>> \in OpToRel(<, Nat))
    BY NatLessThanWellFounded, WFMin, Zenon
  <1>2. \A j \in U : ~(j < i)
    BY <1>1 DEF OpToRel
  <1> QED BY <1>2

LEMMA LastOf ==
  ASSUME NEW n \in Nat, NEW T, T \subseteq 1..n, T # {}
  PROVE  \E i \in T : \A j \in T : j <= i
  <1> DEFINE U == {n - i : i \in T}
  <1>1. PICK t \in T : TRUE
    OBVIOUS
  <1>2. n - t \in U
    OBVIOUS
  <1>3. U \subseteq Nat
    OBVIOUS
  <1>4. PICK u \in U : \A w \in U : u <= w
    <2> HIDE DEF U
    <2> QED BY <1>2, <1>3, FirstOf
  <1>5. PICK i \in T : u = n - i
    OBVIOUS
  <1>6. ASSUME NEW j \in T PROVE j <= i
    <2>1. n - j \in U
      OBVIOUS
    <2>2. n - i <= n - j
      BY <1>4, <1>5, <2>1
    <2> QED BY <2>2
  <1> QED BY <1>6

Lines == Seq(Connect!Chars)
Trimmed(s) == s # <<>> => s[1] # "sp" /\ s[Len(s)] # "sp"

LEMMA PartOf ==
  ASSUME NEW s \in Seq(Connect!Chars), NEW a \in 1..Len(s), NEW b \in a..Len(s), NEW t, t = SubSeq(s, a, b)
  PROVE  t \in Seq(Connect!Chars) /\ Len(t) = b - a + 1 /\ \A i \in 1..b - a + 1 : t[i] = s[a + i - 1]
  <1>1. a \in Int /\ b \in Int /\ a <= b /\ \A i \in a..b : s[i] \in Connect!Chars
    OBVIOUS
  <1> QED BY <1>1, SubSeqProperties

\* trim: a part of the string, with no blank at either end.
LEMMA StripTrims ==
  ASSUME NEW s \in Lines
  PROVE  Connect!Strip(s) \in Lines /\ Trimmed(Connect!Strip(s))
  <1> DEFINE solid == {i \in DOMAIN s : s[i] # "sp"}
  <1>1. DOMAIN s = 1..Len(s) /\ Len(s) \in Nat
    BY DEF Lines
  <1>2. CASE solid = {}
    <2>1. Connect!Strip(s) = <<>>
      BY <1>2 DEF Connect!Strip
    <2> QED BY <2>1 DEF Trimmed, Lines
  <1>3. CASE solid # {}
    <2> DEFINE a == CHOOSE i \in solid : \A j \in solid : i <= j
               b == CHOOSE i \in solid : \A j \in solid : j <= i
    <2>1. solid \subseteq 1..Len(s) /\ \A i \in solid : s[i] # "sp"
      BY <1>1
    <2>2. Connect!Strip(s) = SubSeq(s, a, b)
      BY <1>3 DEF Connect!Strip
    <2> HIDE DEF solid
    <2>3. solid \subseteq Nat
      BY <2>1
    <2>4. (\E i \in solid : \A j \in solid : i <= j) /\ (\E i \in solid : \A j \in solid : j <= i)
      BY <1>1, <1>3, <2>1, <2>3, FirstOf, LastOf
    <2>5. a \in solid /\ \A j \in solid : a <= j
      BY <2>4
    <2>6. b \in solid /\ \A j \in solid : j <= b
      BY <2>4
    <2> HIDE DEF a, b
    <2>7. a \in 1..Len(s) /\ b \in 1..Len(s) /\ s[a] # "sp" /\ s[b] # "sp"
      BY <2>1, <2>5, <2>6
    <2>8. a <= b /\ a \in Int /\ b \in Int
      BY <1>1, <2>7, <2>5, <2>6
    <2>9. \A i \in a..b : s[i] \in Connect!Chars
      BY <2>7, <1>1 DEF Lines
    <2>10. /\ SubSeq(s, a, b) \in Seq(Connect!Chars)
           /\ Len(SubSeq(s, a, b)) = IF a <= b THEN b - a + 1 ELSE 0
           /\ \A i \in 1..b - a + 1 : SubSeq(s, a, b)[i] = s[a + i - 1]
      BY <2>8, <2>9, SubSeqProperties
    <2>11. SubSeq(s, a, b)[1] = s[a] /\ SubSeq(s, a, b)[b - a + 1] = s[b]
      <3>1. 1 \in 1..b - a + 1 /\ b - a + 1 \in 1..b - a + 1 /\ a + 1 - 1 = a /\ a + (b - a + 1) - 1 = b
        BY <2>8
      <3> QED BY <2>10, <3>1
    <2> QED BY <2>2, <2>7, <2>8, <2>10, <2>11 DEF Trimmed, Lines
  <1> QED BY <1>2, <1>3

\* A blank after a trimmed string is all that trim takes.
LEMMA StripsBlank ==
  ASSUME NEW dn \in Lines, dn # <<>>, Trimmed(dn)
  PROVE  Connect!Strip(dn \o <<"sp">>) = dn
  <1> DEFINE n == Len(dn)
  <1>1. n \in Nat /\ n # 0 /\ dn \in Seq(Connect!Chars)
    BY DEF Lines
  <1>2. <<"sp">> \in Seq(Connect!Chars) /\ Len(<<"sp">>) = 1 /\ <<"sp">>[1] = "sp"
    BY DEF Connect!Chars
  <1>3. PICK s : s = dn \o <<"sp">>
    OBVIOUS
  <1>4. s \in Seq(Connect!Chars) /\ Len(s) = n + 1 /\ \A i \in 1..n + 1 : s[i] = IF i <= n THEN dn[i] ELSE <<"sp">>[i - n]
    BY <1>1, <1>2, <1>3, ConcatProperties
  <1>5. DOMAIN s = 1..n + 1
    BY <1>4
  <1>6. s[1] # "sp" /\ s[n] # "sp" /\ s[n + 1] = "sp"
    BY <1>1, <1>2, <1>4 DEF Trimmed
  <1> DEFINE solid == {i \in DOMAIN s : s[i] # "sp"}
  <1>7. 1 \in solid /\ n \in solid
    BY <1>1, <1>5, <1>6
  <1>8. \A i \in solid : i \in Int /\ 1 <= i /\ i <= n
    <2> SUFFICES ASSUME NEW i \in solid PROVE i \in Int /\ 1 <= i /\ i <= n
      OBVIOUS
    <2>1. i \in 1..n + 1 /\ i # n + 1
      BY <1>5, <1>6
    <2> QED BY <2>1, <1>1
  <1>9. Connect!Strip(s) = SubSeq(s, CHOOSE i \in solid : \A j \in solid : i <= j, CHOOSE i \in solid : \A j \in solid : j <= i)
    BY <1>7 DEF Connect!Strip
  <1> HIDE DEF solid, n
  <1>10. (CHOOSE i \in solid : \A j \in solid : i <= j) = 1
    <2>1. PICK c : c = CHOOSE i \in solid : \A j \in solid : i <= j
      OBVIOUS
    <2>2. \A j \in solid : 1 <= j
      BY <1>8
    <2>3. c \in solid /\ \A j \in solid : c <= j
      BY <1>7, <2>1, <2>2
    <2>4. c \in Int /\ 1 <= c /\ c <= 1
      BY <1>7, <1>8, <2>3
    <2> QED BY <2>1, <2>4
  <1>11. (CHOOSE i \in solid : \A j \in solid : j <= i) = n
    <2>1. PICK c : c = CHOOSE i \in solid : \A j \in solid : j <= i
      OBVIOUS
    <2>2. \A j \in solid : j <= n
      BY <1>8
    <2>3. c \in solid /\ \A j \in solid : j <= c
      BY <1>7, <2>1, <2>2
    <2>4. c \in Int /\ n <= c /\ c <= n
      BY <1>7, <1>8, <2>3
    <2> QED BY <1>1, <2>1, <2>4
  <1>12. SubSeq(s, 1, n) = SubSeq(dn, 1, n)
    <2>1. 1 \in 1..Len(dn) /\ n \in 1..Len(dn)
      BY <1>1 DEF n
    <2> QED BY <1>1, <1>2, <1>3, <2>1, SubSeqOfConcat1
  <1>13. SubSeq(dn, 1, n) = dn
    BY <1>1, SubSeqFull DEF n
  <1> QED BY <1>3, <1>9, <1>10, <1>11, <1>12, <1>13

LEMMA StripsRole ==
  ASSUME NEW r \in Connect!Roles
  PROVE  Connect!Strip(<<"sp", r>>) = <<r>>
  <1>1. PICK s : s = <<"sp", r>>
    OBVIOUS
  <1>2. r # "sp" /\ r \in Connect!Chars /\ "sp" \in Connect!Chars
    BY DEF Connect!Chars, Connect!Roles
  <1>3. s \in Seq(Connect!Chars) /\ DOMAIN s = 1..2
    BY <1>1, <1>2
  <1>4. s[1] = "sp" /\ s[2] = r
    BY <1>1
  <1> DEFINE solid == {i \in DOMAIN s : s[i] # "sp"}
  <1>5. 2 \in solid
    BY <1>2, <1>3, <1>4
  <1>6. \A i \in solid : i = 2
    <2> SUFFICES ASSUME NEW i \in solid PROVE i = 2
      OBVIOUS
    <2>1. i \in 1..2 /\ s[i] # "sp"
      BY <1>3
    <2> QED BY <2>1, <1>4
  <1>7. Connect!Strip(s) = SubSeq(s, CHOOSE i \in solid : \A j \in solid : i <= j, CHOOSE i \in solid : \A j \in solid : j <= i)
    BY <1>5 DEF Connect!Strip
  <1> HIDE DEF solid
  <1>8. (CHOOSE i \in solid : \A j \in solid : i <= j) = 2
    BY <1>5, <1>6
  <1>9. (CHOOSE i \in solid : \A j \in solid : j <= i) = 2
    BY <1>5, <1>6
  <1>10. \A i \in 2..2 : s[i] \in Connect!Chars
    BY <1>2, <1>4
  <1>11. SubSeq(s, 2, 2) \in Seq(Connect!Chars) /\ Len(SubSeq(s, 2, 2)) = 1 /\ \A i \in 1..2 - 2 + 1 : SubSeq(s, 2, 2)[i] = s[2 + i - 1]
    BY <1>10, SubSeqProperties
  <1>12. SubSeq(s, 2, 2)[1] = r
    BY <1>4, <1>11
  <1>13. <<r>> \in Seq(Connect!Chars) /\ Len(<<r>>) = 1 /\ <<r>>[1] = r
    BY <1>2
  <1>14. SubSeq(s, 2, 2) = <<r>>
    <2>1. \A i \in 1..Len(SubSeq(s, 2, 2)) : SubSeq(s, 2, 2)[i] = <<r>>[i]
      BY <1>11, <1>12, <1>13
    <2> QED BY <1>11, <1>13, <2>1, SeqEqual
  <1> QED BY <1>1, <1>7, <1>8, <1>9, <1>14

\* A line of roleMapToText is read as the entry it was written for.
LEMMA LineIsEntry ==
  ASSUME NEW dn \in Lines, dn # <<>>, Trimmed(dn), NEW r \in Connect!Roles,
         NEW line, line = dn \o <<"sp", "eq", "sp", r>>
  PROVE  line \in Lines /\ Connect!IsEntry(line) /\ Connect!DnOf(line) = dn /\ Connect!RoleOf(line) = <<r>>
  <1>0. PICK e : e = <<"sp", "eq", "sp", r>>
    OBVIOUS
  <1> DEFINE n == Len(dn)
  <1>1. n \in Nat /\ n # 0 /\ dn \in Seq(Connect!Chars)
    BY DEF Lines
  <1>2. r # "eq" /\ r \in Connect!Chars /\ "sp" \in Connect!Chars /\ "eq" \in Connect!Chars /\ "sp" # "eq"
    BY DEF Connect!Chars, Connect!Roles
  <1>3. e \in Seq(Connect!Chars) /\ Len(e) = 4
    BY <1>0, <1>2
  <1>4. e[1] = "sp" /\ e[2] = "eq" /\ e[3] = "sp" /\ e[4] = r
    BY <1>0
  <1>5. line \in Seq(Connect!Chars) /\ Len(line) = n + 4 /\ \A i \in 1..n + 4 : line[i] = IF i <= n THEN dn[i] ELSE e[i - n]
    BY <1>0, <1>1, <1>3, ConcatProperties
  <1> HIDE DEF n
  <1>6. DOMAIN line = 1..n + 4
    BY <1>5
  <1>7. line[n + 1] = "sp" /\ line[n + 2] = "eq" /\ line[n + 3] = "sp" /\ line[n + 4] = r
    <2>1. line[n + 1] = e[1]
      <3>1. PICK m : m = n + 1
        OBVIOUS
      <3>2. m \in 1..n + 4 /\ ~(m <= n) /\ m - n = 1
        BY <1>1, <3>1
      <3>3. line[m] = e[m - n]
        BY <1>5, <3>2
      <3> QED BY <3>1, <3>2, <3>3
    <2>2. line[n + 2] = e[2]
      <3>1. PICK m : m = n + 2
        OBVIOUS
      <3>2. m \in 1..n + 4 /\ ~(m <= n) /\ m - n = 2
        BY <1>1, <3>1
      <3>3. line[m] = e[m - n]
        BY <1>5, <3>2
      <3> QED BY <3>1, <3>2, <3>3
    <2>3. line[n + 3] = e[3]
      <3>1. PICK m : m = n + 3
        OBVIOUS
      <3>2. m \in 1..n + 4 /\ ~(m <= n) /\ m - n = 3
        BY <1>1, <3>1
      <3>3. line[m] = e[m - n]
        BY <1>5, <3>2
      <3> QED BY <3>1, <3>2, <3>3
    <2>4. line[n + 4] = e[4]
      <3>1. PICK m : m = n + 4
        OBVIOUS
      <3>2. m \in 1..n + 4 /\ ~(m <= n) /\ m - n = 4
        BY <1>1, <3>1
      <3>3. line[m] = e[m - n]
        BY <1>5, <3>2
      <3> QED BY <3>1, <3>2, <3>3
    <2> QED BY <1>4, <2>1, <2>2, <2>3, <2>4
  <1> DEFINE at == {i \in DOMAIN line : line[i] = "eq"}
  <1>8. n + 2 \in at
    <2>1. n + 2 \in 1..n + 4
      BY <1>1
    <2> QED BY <1>6, <1>7, <2>1
  <1>9. \A i \in at : i \in Int /\ i <= n + 2
    <2> SUFFICES ASSUME NEW i \in at PROVE i \in Int /\ i <= n + 2
      OBVIOUS
    <2>1. i \in 1..n + 4 /\ i # n + 3 /\ i # n + 4
      BY <1>2, <1>6, <1>7
    <2> QED BY <1>1, <2>1
  <1>10. Connect!LastEq(line) = CHOOSE i \in at : \A j \in at : j <= i
    BY <1>8 DEF Connect!LastEq
  <1> HIDE DEF at
  <1>11. Connect!LastEq(line) = n + 2
    <2>1. \A j \in at : j <= n + 2
      BY <1>9
    <2>2. Connect!LastEq(line) \in at /\ \A j \in at : j <= Connect!LastEq(line)
      BY <1>8, <1>10, <2>1
    <2>3. Connect!LastEq(line) \in Int /\ Connect!LastEq(line) <= n + 2 /\ n + 2 <= Connect!LastEq(line)
      BY <1>8, <1>9, <2>2
    <2> QED BY <1>1, <2>3
  <1>12. SubSeq(line, 1, n + 1) = dn \o <<"sp">>
    <2>1. PICK s : s = SubSeq(line, 1, n + 1)
      OBVIOUS
    <2>2. PICK w : w = dn \o <<"sp">>
      OBVIOUS
    <2>3. PICK b : b = n + 1
      OBVIOUS
    <2>4. s \in Seq(Connect!Chars) /\ Len(s) = n + 1 /\ \A i \in 1..n + 1 : s[i] = line[i]
      <3>1. 1 \in 1..Len(line) /\ b \in 1..Len(line) /\ b - 1 + 1 = b /\ s = SubSeq(line, 1, b)
        BY <1>1, <1>5, <2>1, <2>3
      <3>2. s \in Seq(Connect!Chars) /\ Len(s) = b - 1 + 1 /\ \A i \in 1..b - 1 + 1 : s[i] = line[1 + i - 1]
        <4>1. PICK a : a = 1
          OBVIOUS
        <4>2. line \in Seq(Connect!Chars) /\ a \in 1..Len(line) /\ b \in a..Len(line) /\ s = SubSeq(line, a, b)
          BY <1>5, <3>1, <4>1
        <4>3. s \in Seq(Connect!Chars) /\ Len(s) = b - a + 1 /\ \A i \in 1..b - a + 1 : s[i] = line[a + i - 1]
          BY <4>2, PartOf, ZenonT(60)
        <4> QED BY <4>1, <4>3
      <3>3. s \in Seq(Connect!Chars) /\ Len(s) = b /\ \A i \in 1..b : s[i] = line[1 + i - 1]
        BY <3>1, <3>2
      <3>4. \A i \in 1..b : 1 + i - 1 = i
        OBVIOUS
      <3>5. \A i \in 1..b : s[i] = line[i]
        BY <3>3, <3>4
      <3> QED BY <2>3, <3>3, <3>5
    <2>5. <<"sp">> \in Seq(Connect!Chars) /\ Len(<<"sp">>) = 1 /\ <<"sp">>[1] = "sp"
      BY <1>2
    <2>6. w \in Seq(Connect!Chars) /\ Len(w) = n + 1
          /\ \A i \in 1..n + 1 : w[i] = IF i <= n THEN dn[i] ELSE <<"sp">>[i - n]
      BY <1>1, <2>2, <2>5, ConcatProperties DEF n
    <2>7. ASSUME NEW i \in 1..n + 1 PROVE s[i] = w[i]
      <3>1. s[i] = line[i]
        BY <2>4
      <3>2. CASE i <= n
        BY <1>1, <1>5, <2>6, <3>1, <3>2
      <3>3. CASE i = n + 1
        <4>1. i - n = 1 /\ ~(i <= n)
          BY <1>1, <3>3
        <4>2. w[i] = "sp"
          BY <2>5, <2>6, <4>1
        <4> QED BY <1>7, <3>1, <3>3, <4>2
      <3> QED BY <1>1, <3>2, <3>3
    <2> QED BY <2>1, <2>2, <2>4, <2>6, <2>7, SeqEqual
  <1>13. SubSeq(line, n + 3, n + 4) = <<"sp", r>>
    <2>1. PICK s : s = SubSeq(line, n + 3, n + 4)
      OBVIOUS
    <2>2. PICK w : w = <<"sp", r>>
      OBVIOUS
    <2>3. PICK a : a = n + 3
      OBVIOUS
    <2>4. PICK b : b = n + 4
      OBVIOUS
    <2>5. a \in 1..Len(line) /\ b \in a..Len(line) /\ b - a + 1 = 2 /\ a + 1 - 1 = a /\ a + 2 - 1 = b
      BY <1>1, <1>5, <2>3, <2>4
    <2>6. s \in Seq(Connect!Chars) /\ Len(s) = 2 /\ s[1] = "sp" /\ s[2] = r
      <3>1. s \in Seq(Connect!Chars) /\ Len(s) = b - a + 1 /\ \A i \in 1..b - a + 1 : s[i] = line[a + i - 1]
        <4>1. line \in Seq(Connect!Chars) /\ a \in 1..Len(line) /\ b \in a..Len(line) /\ s = SubSeq(line, a, b)
          BY <1>5, <2>1, <2>3, <2>4, <2>5
        <4> QED BY <4>1, PartOf, ZenonT(60)
      <3>2. Len(s) = 2 /\ \A i \in 1..2 : s[i] = line[a + i - 1]
        BY <2>5, <3>1
      <3>3. s[1] = line[a + 1 - 1] /\ s[2] = line[a + 2 - 1]
        <4>1. 1 \in 1..2 /\ 2 \in 1..2
          OBVIOUS
        <4> QED BY <3>2, <4>1, Zenon
      <3>4. s[1] = line[n + 3] /\ s[2] = line[n + 4]
        BY <2>3, <2>4, <2>5, <3>3
      <3> QED BY <3>1, <3>2, <3>4, <1>7
    <2>7. w \in Seq(Connect!Chars) /\ Len(w) = 2
      BY <1>2, <2>2
    <2>8. w[1] = "sp" /\ w[2] = r
      BY <2>2
    <2>9. \A i \in 1..Len(s) : s[i] = w[i]
      BY <2>6, <2>8
    <2> QED BY <2>1, <2>2, <2>6, <2>7, <2>9, SeqEqual
  <1>14. Connect!DnOf(line) = dn
    <2>1. Connect!LastEq(line) - 1 = n + 1
      BY <1>1, <1>11
    <2> QED BY <2>1, <1>12, StripsBlank DEF Connect!DnOf
  <1>15. Connect!RoleOf(line) = <<r>>
    <2>1. Connect!LastEq(line) + 1 = n + 3 /\ Len(line) = n + 4
      BY <1>1, <1>5, <1>11
    <2> QED BY <2>1, <1>13, StripsRole DEF Connect!RoleOf
  <1>16. Connect!LastEq(line) > 0
    BY <1>1, <1>11
  <1> QED BY <1>5, <1>14, <1>15, <1>16 DEF Connect!IsEntry, Lines

\* The map, for any finite map from DNs to roles.
IsMap(m) == /\ IsFiniteSet(DOMAIN m) /\ m \in [DOMAIN m -> Connect!Roles]
            /\ \A dn \in DOMAIN m : dn \in Lines
Tidy(m) == IsMap(m) /\ \A dn \in DOMAIN m : dn # <<>> /\ Trimmed(dn)
Texts == Seq(Lines)

LEMMA ListsAll ==
  ASSUME NEW D, IsFiniteSet(D)
  PROVE  /\ Cardinality(D) \in Nat
         /\ Connect!Listing(D) \in [1..Cardinality(D) -> D]
         /\ \A d \in D : \E i \in 1..Cardinality(D) : Connect!Listing(D)[i] = d
  <1> DEFINE n == Cardinality(D)
             Lists(s) == \A d \in D : \E i \in 1..n : s[i] = d
  <1>1. n \in Nat /\ ExistsBijection(1..n, D)
    BY FS_CardinalityType
  <1>2. PICK f \in [1..n -> D] : Lists(f)
    BY <1>1 DEF ExistsBijection, Bijection, Surjection
  <1>3. Connect!Listing(D) = CHOOSE s \in [1..n -> D] : Lists(s)
    BY DEF Connect!Listing, Connect!Cardinality, Cardinality
  <1> HIDE DEF n, Lists
  <1>4. Connect!Listing(D) \in [1..n -> D] /\ Lists(Connect!Listing(D))
    BY <1>2, <1>3
  <1> QED BY <1>1, <1>4 DEF n, Lists

LEMMA TextOfMap ==
  ASSUME NEW m, IsMap(m)
  PROVE  Connect!roleMapToText(m) \in Texts
  <1> DEFINE n == Cardinality(DOMAIN m)
             l == Connect!Listing(DOMAIN m)
  <1>1. n \in Nat /\ l \in [1..n -> DOMAIN m]
    BY ListsAll DEF IsMap
  <1> HIDE DEF n, l
  <1>2. ASSUME NEW i \in 1..n PROVE l[i] \o <<"sp", "eq", "sp", m[l[i]]>> \in Lines
    <2>1. l[i] \in Seq(Connect!Chars) /\ m[l[i]] \in Connect!Chars
      BY <1>1 DEF IsMap, Lines, Connect!Chars
    <2>2. <<"sp", "eq", "sp", m[l[i]]>> \in Seq(Connect!Chars)
      BY <2>1 DEF Connect!Chars
    <2> QED BY <2>1, <2>2 DEF Lines
  <1>3. Connect!roleMapToText(m) = [i \in 1..n |-> l[i] \o <<"sp", "eq", "sp", m[l[i]]>>]
    BY DEF Connect!roleMapToText, Connect!Cardinality, Cardinality, n, l
  <1> QED BY <1>1, <1>2, <1>3 DEF Texts

\* What the form's text parses to is a tidy map.
LEMMA MapOfText ==
  ASSUME NEW t \in Texts
  PROVE  Tidy(Connect!roleMapFromText(t))
  <1> DEFINE good == {i \in DOMAIN t : Connect!IsEntry(t[i])}
             at(dn) == CHOOSE i \in good : Connect!DnOf(t[i]) = dn /\ \A j \in good : Connect!DnOf(t[j]) = dn => j <= i
             D == {Connect!DnOf(t[i]) : i \in good}
             m == Connect!roleMapFromText(t)
  <1>1. DOMAIN t = 1..Len(t) /\ Len(t) \in Nat /\ \A i \in 1..Len(t) : t[i] \in Lines
    BY DEF Texts
  <1>2. m = [dn \in D |-> Connect!RoleOf(t[at(dn)])[1]]
    BY DEF Connect!roleMapFromText
  <1>3. good \subseteq 1..Len(t) /\ \A i \in good : Connect!IsEntry(t[i])
    BY <1>1
  <1> HIDE DEF good
  <1>4. ASSUME NEW dn \in D
        PROVE  at(dn) \in good
    <2> DEFINE T == {i \in good : Connect!DnOf(t[i]) = dn}
    <2>1. T # {} /\ T \subseteq 1..Len(t)
      BY <1>3
    <2>2. PICK k \in T : \A j \in T : j <= k
      <3> HIDE DEF T
      <3> QED BY <1>1, <2>1, LastOf
    <2>3. k \in good /\ Connect!DnOf(t[k]) = dn /\ \A j \in good : Connect!DnOf(t[j]) = dn => j <= k
      BY <2>2
    <2> QED BY <2>3
  <1>5. ASSUME NEW dn \in D
        PROVE  Connect!RoleOf(t[at(dn)])[1] \in Connect!Roles
    <2> PICK k : k = at(dn)
      OBVIOUS
    <2>1. Connect!IsEntry(t[k])
      BY <1>3, <1>4
    <2>2. PICK r \in Connect!Roles : Connect!RoleOf(t[k]) = <<r>>
      BY <2>1 DEF Connect!IsEntry
    <2> QED BY <2>2
  <1>6. ASSUME NEW dn \in D
        PROVE  dn \in Lines /\ dn # <<>> /\ Trimmed(dn)
    <2>1. PICK i \in good : dn = Connect!DnOf(t[i])
      OBVIOUS
    <2>2. Connect!IsEntry(t[i]) /\ t[i] \in Lines
      BY <1>1, <1>3
    <2>3. Connect!LastEq(t[i]) \in 1..Len(t[i])
      <3> DEFINE eqs == {j \in DOMAIN t[i] : t[i][j] = "eq"}
      <3>1. DOMAIN t[i] = 1..Len(t[i]) /\ Len(t[i]) \in Nat
        BY <2>2 DEF Lines
      <3>2. eqs \subseteq 1..Len(t[i])
        BY <3>1
      <3>3. Connect!LastEq(t[i]) = IF eqs = {} THEN 0 ELSE CHOOSE j \in eqs : \A k \in eqs : k <= j
        BY DEF Connect!LastEq
      <3> HIDE DEF eqs
      <3>4. eqs # {}
        BY <2>2, <3>3 DEF Connect!IsEntry
      <3>5. \E j \in eqs : \A k \in eqs : k <= j
        BY <3>1, <3>2, <3>4, LastOf
      <3> QED BY <3>2, <3>3, <3>4, <3>5
    <2>4. SubSeq(t[i], 1, Connect!LastEq(t[i]) - 1) \in Lines
      <3> PICK b : b = Connect!LastEq(t[i]) - 1
        OBVIOUS
      <3>1. b \in Int /\ \A j \in 1..b : t[i][j] \in Connect!Chars
        BY <2>2, <2>3 DEF Lines
      <3>2. SubSeq(t[i], 1, b) \in Seq(Connect!Chars)
        BY <3>1, SubSeqProperties
      <3> QED BY <3>2 DEF Lines
    <2>5. dn \in Lines /\ Trimmed(dn)
      BY <2>1, <2>4, StripTrims DEF Connect!DnOf
    <2> QED BY <2>1, <2>2, <2>5 DEF Connect!IsEntry
  <1>7. IsFiniteSet(D)
    <2>1. IsFiniteSet(good)
      <3>1. IsFiniteSet(1..Len(t))
        BY <1>1, FS_Interval
      <3> QED BY <1>3, <3>1, FS_Subset
    <2>2. PICK f : f = [i \in good |-> Connect!DnOf(t[i])]
      OBVIOUS
    <2>3. f \in Surjection(good, D)
      BY <2>2 DEF Surjection
    <2> QED BY <2>1, <2>3, FS_Surjection
  <1> HIDE DEF D, at, m
  <1>8. DOMAIN m = D /\ m \in [D -> Connect!Roles]
    BY <1>2, <1>5
  <1>9. Tidy(m)
    BY <1>6, <1>7, <1>8 DEF Tidy, IsMap
  <1> QED BY <1>9 DEF m

\* Every tidy map survives the trip through the form's text.
LEMMA RoundTrip ==
  ASSUME NEW m, Tidy(m)
  PROVE  Connect!roleMapFromText(Connect!roleMapToText(m)) = m
  <1> DEFINE n == Cardinality(DOMAIN m)
             l == Connect!Listing(DOMAIN m)
             t == Connect!roleMapToText(m)
             good == {i \in DOMAIN t : Connect!IsEntry(t[i])}
             at(dn) == CHOOSE i \in good : Connect!DnOf(t[i]) = dn /\ \A j \in good : Connect!DnOf(t[j]) = dn => j <= i
             D == {Connect!DnOf(t[i]) : i \in good}
  <1>1. n \in Nat /\ l \in [1..n -> DOMAIN m] /\ \A dn \in DOMAIN m : \E i \in 1..n : l[i] = dn
    BY ListsAll DEF Tidy, IsMap
  <1>2. t = [i \in 1..n |-> l[i] \o <<"sp", "eq", "sp", m[l[i]]>>]
    BY DEF Connect!roleMapToText, Connect!Cardinality, Cardinality
  <1>3. Connect!roleMapFromText(t) = [dn \in D |-> Connect!RoleOf(t[at(dn)])[1]]
    BY DEF Connect!roleMapFromText
  <1> HIDE DEF n, l, t
  <1>4. ASSUME NEW i \in 1..n
        PROVE  Connect!IsEntry(t[i]) /\ Connect!DnOf(t[i]) = l[i] /\ Connect!RoleOf(t[i]) = <<m[l[i]]>>
    <2>1. l[i] \in Lines /\ l[i] # <<>> /\ Trimmed(l[i]) /\ m[l[i]] \in Connect!Roles
      BY <1>1 DEF Tidy, IsMap
    <2>2. t[i] = l[i] \o <<"sp", "eq", "sp", m[l[i]]>>
      BY <1>2
    <2> QED BY <2>1, <2>2, LineIsEntry
  <1>5. DOMAIN t = 1..n
    BY <1>2
  <1>6. good = 1..n
    BY <1>4, <1>5
  <1> HIDE DEF good
  <1>7. D = DOMAIN m
    <2>1. ASSUME NEW dn \in D PROVE dn \in DOMAIN m
      <3>1. PICK i \in good : dn = Connect!DnOf(t[i])
        OBVIOUS
      <3> QED BY <1>1, <1>4, <1>6, <3>1
    <2>2. ASSUME NEW dn \in DOMAIN m PROVE dn \in D
      <3>1. PICK i \in 1..n : l[i] = dn
        BY <1>1
      <3>2. i \in good /\ Connect!DnOf(t[i]) = dn
        BY <1>4, <1>6, <3>1
      <3> QED BY <3>2
    <2> QED BY <2>1, <2>2
  <1> HIDE DEF D
  <1>8. ASSUME NEW dn \in DOMAIN m PROVE Connect!RoleOf(t[at(dn)])[1] = m[dn]
    <2> DEFINE T == {i \in good : Connect!DnOf(t[i]) = dn}
    <2>1. PICK i \in 1..n : l[i] = dn
      BY <1>1
    <2>2. i \in T
      BY <1>4, <1>6, <2>1
    <2>3. T \subseteq 1..n
      BY <1>6
    <2>4. PICK k \in T : \A j \in T : j <= k
      <3> HIDE DEF T
      <3> QED BY <1>1, <2>2, <2>3, LastOf
    <2>5. k \in good /\ Connect!DnOf(t[k]) = dn /\ \A j \in good : Connect!DnOf(t[j]) = dn => j <= k
      BY <2>4
    <2>6. PICK c : c = at(dn)
      OBVIOUS
    <2>7. c \in good /\ Connect!DnOf(t[c]) = dn
      BY <2>5, <2>6
    <2>8. c \in 1..n /\ l[c] = dn /\ Connect!RoleOf(t[c]) = <<m[dn]>>
      BY <1>4, <1>6, <2>7
    <2> QED BY <2>6, <2>8
  <1> HIDE DEF at
  <1>9. Connect!roleMapFromText(t) = [dn \in DOMAIN m |-> m[dn]]
    BY <1>3, <1>7, <1>8
  <1>10. m = [dn \in DOMAIN m |-> m[dn]]
    BY DEF Tidy, IsMap
  <1> QED BY <1>9, <1>10 DEF t

\* Types.
Kinds == {"oidc", "saml", "ldap", "none"}
Domains == {"none", "d"}
NamesTyped == {"", "a", "b"}
Maps == {m \in UNION {[D -> Connect!Roles] : D \in SUBSET Lines} : Tidy(m)}
Row == [live : BOOLEAN, born : BOOLEAN, kind : Kinds, name : NamesTyped, domain : Domains, on : BOOLEAN,
        secret : Nat, map : Maps, ver : Nat]
Card == [live : BOOLEAN, born : BOOLEAN, kind : Kinds, name : NamesTyped, domain : Domains, on : BOOLEAN,
         secret : Int, map : Maps, ver : Nat]
Form == [name : NamesTyped, domain : Domains, on : BOOLEAN, secret : Nat, text : Texts]
Body == {b \in [kind : Kinds, name : NamesTyped, domain : Domains, on : BOOLEAN, map : Maps, secret : Nat \cup {Connect!Omitted}] :
           b.kind = "saml" => b.secret = Connect!Omitted}
Save == [at : {"none", "sent", "read", "ok", "refused"}, id : Connect!Ids \cup {Connect!NoId}, body : Body, kept : Nat, met : BOOLEAN,
         opened : {"none", "creating", "editing"}]
Test == [at : {"none", "sent", "read", "shown"}, id : Connect!Ids \cup {Connect!NoId}, ok : BOOLEAN, ver : Nat, secret : Nat]
Tab == [list : [Connect!Ids -> Card], due : BOOLEAN, mode : {"list", "creating", "editing", "managing"}, id : Connect!Ids \cup {Connect!NoId},
        kind : Kinds, form : Form, save : Save, del : {Connect!NoId}, test : Test]
Types ==
  /\ linkPlan \in LinkPlans
  /\ links \in [Connect!Ids -> Row]
  /\ typed \in [Connect!Ids -> Nat]
  /\ linkTab \in [Connect!Tabs -> Tab]
  /\ secrets \in Nat

\* The stored secret is the last one typed, and one provider serves a domain.
LinksInv ==
  /\ \A i \in Connect!Ids : links[i].live => links[i].born
  /\ \A i \in Connect!Ids : links[i].live /\ links[i].kind = "saml" => links[i].secret = Connect!Null
  /\ \A i \in Connect!Ids : links[i].live /\ i \notin mixed => links[i].secret = typed[i]
  /\ \A i, j \in Connect!Ids : links[i].live /\ links[j].live /\ links[i].on /\ links[j].on
                       /\ links[i].domain = links[j].domain /\ links[i].domain # "none" => i = j

\* What an update read is what it will write, unless another met it.
SaveOK(s) ==
  s.at = "read" =>
    /\ s.id \in Connect!Ids /\ links[s.id].born
    /\ s.body.kind = "saml" => s.kept = Connect!Null
    /\ links[s.id].live => s.body.kind = links[s.id].kind
    /\ links[s.id].live /\ ~s.met => s.kept = links[s.id].secret

\* A test is about the secret stored when it read the row.
TestOK(x) ==
  /\ x.at # "none" => x.id \in Connect!Ids
  /\ x.at \in {"read", "shown"} => links[x.id].born /\ x.ver <= links[x.id].ver
  /\ x.at = "read" /\ links[x.id].ver = x.ver /\ links[x.id].live => x.secret = links[x.id].secret
  /\ x.at = "shown" /\ links[x.id].ver = x.ver /\ links[x.id].live => (x.ok => links[x.id].secret = Connect!Truth)

TabsInv == \A t \in Connect!Tabs : SaveOK(linkTab[t].save) /\ TestOK(linkTab[t].test)

ConnectionsInv == Types /\ LinksInv /\ TabsInv

LEMMA MapsAreTidy ==
  ASSUME NEW m
  PROVE  m \in Maps <=> Tidy(m)
  <1>1. ASSUME Tidy(m) PROVE m \in Maps
    <2>1. m \in [DOMAIN m -> Connect!Roles] /\ DOMAIN m \subseteq Lines
      BY <1>1 DEF Tidy, IsMap
    <2> QED BY <1>1, <2>1 DEF Maps
  <1> QED BY <1>1 DEF Maps

LEMMA NoMapTyped == Connect!NoMap \in Maps
  <1>1. IsFiniteSet({}) /\ DOMAIN Connect!NoMap = {} /\ Connect!NoMap \in [{} -> Connect!Roles]
    BY FS_EmptySet DEF Connect!NoMap
  <1>2. Tidy(Connect!NoMap)
    BY <1>1 DEF Tidy, IsMap
  <1> QED BY <1>2, MapsAreTidy

LEMMA FormsTyped ==
  /\ Connect!NewForm \in Form
  /\ \A c \in Card : Connect!defaults(c) \in Form
  <1>1. <<>> \in Texts
    BY DEF Texts
  <1>2. ASSUME NEW c \in Card PROVE Connect!roleMapToText(c.map) \in Texts
    <2>1. IsMap(c.map)
      BY MapsAreTidy DEF Card, Tidy
    <2> QED BY <2>1, TextOfMap
  <1> QED BY <1>1, <1>2 DEF Connect!NewForm, Connect!defaults, Form, Card, Connect!Null, NamesTyped, Domains

LEMMA BodiesTyped ==
  ASSUME NEW k \in Kinds, NEW f \in Form, NEW e \in BOOLEAN
  PROVE  Connect!buildBody(k, f, e) \in Body
  <1>1. Connect!roleMapFromText(f.text) \in Maps
    BY MapOfText, MapsAreTidy DEF Form
  <1>2. PICK m \in Maps : m = Connect!roleMapFromText(f.text)
    BY <1>1
  <1>3. Connect!buildBody(k, f, e) = [kind |-> k, name |-> f.name, domain |-> f.domain, on |-> f.on, map |-> m,
                              secret |-> IF k = "saml" \/ (f.secret = Connect!Null /\ e) THEN Connect!Omitted ELSE f.secret]
    BY <1>2 DEF Connect!buildBody
  <1> QED BY <1>3 DEF Body, Form

LEMMA NothingTyped == Connect!NoRow \in Row /\ Connect!NoSave \in Save /\ Connect!NoTest \in Test
  <1>1. Connect!NoRow \in Row
    BY NoMapTyped DEF Connect!NoRow, Row, Connect!Null, Kinds, NamesTyped, Domains
  <1>2. Connect!buildBody("saml", Connect!NewForm, TRUE) \in Body
    BY FormsTyped, BodiesTyped DEF Kinds
  <1>3. Connect!NoSave \in Save
    BY <1>2 DEF Connect!NoSave, Save, Connect!Null
  <1> QED BY <1>1, <1>3 DEF Connect!NoTest, Test, Connect!Null

LEMMA ShownTyped ==
  ASSUME NEW table \in [Connect!Ids -> Row]
  PROVE  Connect!Shown(table) \in [Connect!Ids -> Card]
  <1>1. ASSUME NEW r \in Row PROVE Connect!toDirectory(r) \in Card
    BY DEF Connect!toDirectory, Row, Card, Connect!Null, Connect!Masked
  <1> QED BY <1>1 DEF Connect!Shown

LEMMA EditsTyped ==
  ASSUME Connect!RoleMapsAssumption, secrets \in Nat, NEW k, NEW f \in Form, NEW g \in Connect!FormEdits(k, f)
  PROVE  g \in Form
  <1>1. CASE g = [f EXCEPT !.name = "b"]
    BY <1>1 DEF Form, NamesTyped
  <1>2. CASE g = [f EXCEPT !.secret = secrets + 1]
    BY <1>2 DEF Form
  <1>3. ASSUME NEW m \in RoleMaps, g = [f EXCEPT !.text = @ \o Connect!roleMapToText(m)]
        PROVE  g \in Form
    <2>1. IsMap(m)
      BY DEF Connect!RoleMapsAssumption, Connect!IsFiniteSet, IsFiniteSet, IsMap, Lines
    <2>2. Connect!roleMapToText(m) \in Texts
      BY <2>1, TextOfMap
    <2>3. f.text \o Connect!roleMapToText(m) \in Texts
      BY <2>2 DEF Form, Texts
    <2>4. g = [f EXCEPT !.text = f.text \o Connect!roleMapToText(m)]
      BY <1>3 DEF Form
    <2> QED BY <2>3, <2>4 DEF Form
  <1>4. CASE g = [f EXCEPT !.text = Append(@, <<"x">>)]
    <2>1. <<"x">> \in Lines
      BY DEF Lines, Connect!Chars
    <2>2. Append(f.text, <<"x">>) \in Texts
      BY <2>1 DEF Form, Texts
    <2>3. g = [f EXCEPT !.text = Append(f.text, <<"x">>)]
      BY <1>4 DEF Form
    <2> QED BY <2>2, <2>3 DEF Form
  <1>5. CASE g = [f EXCEPT !.on = ~@]
    BY <1>5 DEF Form
  <1>6. CASE g = [f EXCEPT !.domain = IF @ = "none" THEN "d" ELSE "none"]
    BY <1>6 DEF Form, Domains
  <1> QED BY <1>1, <1>2, <1>3, <1>4, <1>5, <1>6 DEF Connect!FormEdits

LEMMA ConnectionsInit ==
  ASSUME Connect!KindsAssumption, Connect!Init
  PROVE  ConnectionsInv
  <1>1. PICK k \in linkPlan.kinds : links = [i \in Connect!Ids |-> IF i <= linkPlan.seeds THEN Connect!Seed(k) ELSE Connect!NoRow]
    BY DEF Connect!Init
  <1>2. linkPlan \in LinkPlans /\ k \in {"oidc", "saml", "ldap"}
    BY DEF Connect!Init, Connect!KindsAssumption
  <1>3. Connect!Seed(k) \in Row /\ Connect!NoRow \in Row
    <2>1. Connect!Seed(k) \in Row
      BY <1>2, NoMapTyped DEF Connect!Seed, Row, Connect!Null, Connect!Truth, Kinds, NamesTyped, Domains
    <2> QED BY <2>1, NothingTyped
  <1>4. links \in [Connect!Ids -> Row]
    BY <1>1, <1>3
  <1>5. typed \in [Connect!Ids -> Nat]
    BY <1>4 DEF Connect!Init, Row
  <1>6. linkTab \in [Connect!Tabs -> Tab]
    <2>1. Connect!Shown(links) \in [Connect!Ids -> Card]
      BY <1>4, ShownTyped
    <2>2. [list |-> Connect!Shown(links), due |-> FALSE, mode |-> "list", id |-> Connect!NoId, kind |-> "none", form |-> Connect!NewForm,
           save |-> Connect!NoSave, del |-> Connect!NoId, test |-> Connect!NoTest] \in Tab
      BY <2>1, FormsTyped, NothingTyped DEF Tab, Kinds
    <2> QED BY <2>2 DEF Connect!Init
  <1>7. Types
    BY <1>2, <1>4, <1>5, <1>6 DEF Types, Connect!Init, Connect!Truth
  <1>8. LinksInv
    <2>1. \A i \in Connect!Ids : links[i] = Connect!Seed(k) \/ links[i] = Connect!NoRow
      BY <1>1
    <2>2. Connect!Seed(k).live /\ Connect!Seed(k).born /\ Connect!Seed(k).domain = "none" /\ (Connect!Seed(k).kind = "saml" => Connect!Seed(k).secret = Connect!Null)
      BY DEF Connect!Seed
    <2>3. Connect!NoRow.live = FALSE /\ Connect!NoRow.domain = "none"
      BY DEF Connect!NoRow
    <2>4. ASSUME NEW i \in Connect!Ids
          PROVE  /\ links[i].live => links[i].born
                 /\ links[i].live /\ links[i].kind = "saml" => links[i].secret = Connect!Null
                 /\ links[i].domain = "none" /\ links[i].secret = typed[i]
      <3>1. CASE links[i] = Connect!Seed(k)
        BY <2>2, <3>1 DEF Connect!Init
      <3>2. CASE links[i] = Connect!NoRow
        BY <2>3, <3>2 DEF Connect!Init
      <3> QED BY <2>1, <3>1, <3>2
    <2>5. ASSUME NEW i \in Connect!Ids, NEW j \in Connect!Ids
          PROVE  links[i].live /\ links[j].live /\ links[i].on /\ links[j].on
                 /\ links[i].domain = links[j].domain /\ links[i].domain # "none" => i = j
      BY <2>4
    <2> QED BY <2>4, <2>5 DEF LinksInv
  <1>9. TabsInv
    BY DEF TabsInv, Connect!Init, SaveOK, TestOK, Connect!NoSave, Connect!NoTest
  <1> QED BY <1>7, <1>8, <1>9 DEF ConnectionsInv

\* A step that changes only what one tab holds.
LEMMA TabMoves ==
  ASSUME ConnectionsInv, NEW t \in Connect!Tabs, NEW r \in Tab, linkTab' = [linkTab EXCEPT ![t] = r], UNCHANGED <<linkPlan, Connect!Stored>>,
         secrets' \in Nat, SaveOK(r.save), TestOK(r.test)
  PROVE  ConnectionsInv'
  <1>1. links' = links /\ typed' = typed /\ mixed' = mixed /\ linkPlan' = linkPlan /\ Connect!Tabs' = Connect!Tabs
    BY DEF Connect!Stored, Connect!Tabs
  <1>2. Types'
    BY <1>1 DEF ConnectionsInv, Types
  <1>3. LinksInv'
    BY <1>1 DEF ConnectionsInv, LinksInv
  <1>4. TabsInv'
    <2> SUFFICES ASSUME NEW z \in Connect!Tabs PROVE SaveOK(linkTab[z].save)' /\ TestOK(linkTab[z].test)'
      BY <1>1 DEF TabsInv
    <2>1. linkTab'[z].save = (IF z = t THEN r.save ELSE linkTab[z].save) /\ linkTab'[z].test = (IF z = t THEN r.test ELSE linkTab[z].test)
      BY DEF ConnectionsInv, Types
    <2>2. SaveOK(linkTab[z].save) /\ TestOK(linkTab[z].test)
      BY DEF ConnectionsInv, TabsInv
    <2>3. SaveOK(linkTab'[z].save) /\ TestOK(linkTab'[z].test)
      BY <2>1, <2>2
    <2>4. SaveOK(linkTab[z].save)'
      BY <1>1, <2>3 DEF SaveOK
    <2>5. TestOK(linkTab[z].test)'
      BY <1>1, <2>3 DEF TestOK
    <2> QED BY <2>4, <2>5
  <1> QED BY <1>2, <1>3, <1>4 DEF ConnectionsInv

LEMMA PageSteps ==
  ASSUME Connect!RoleMapsAssumption, Connect!KindsAssumption, ConnectionsInv, NEW t \in Connect!Tabs,
         \/ Connect!Refetch(t) \/ Connect!Type(t) \/ Connect!Cancel(t) \/ Connect!Submit(t) \/ Connect!Answer(t) \/ Connect!Lost(t)
         \/ \E kind \in {"oidc", "saml", "ldap"} : Connect!Add(t, kind)
         \/ \E id \in Connect!Ids : Connect!Edit(t, id) \/ Connect!Manage(t, id)
  PROVE  ConnectionsInv'
  <1>0. linkTab[t] \in Tab /\ SaveOK(linkTab[t].save) /\ TestOK(linkTab[t].test) /\ links \in [Connect!Ids -> Row] /\ secrets \in Nat
    BY DEF ConnectionsInv, Types, TabsInv
  <1>1. PICK o : o = linkTab[t]
    OBVIOUS
  <1>2. CASE Connect!Refetch(t)
    <2>1. PICK r : r = [o EXCEPT !.due = FALSE, !.list = Connect!Shown(links)]
      OBVIOUS
    <2>2. r \in Tab /\ r.save = o.save /\ r.test = o.test
      BY <1>0, <1>1, <2>1, ShownTyped DEF Tab
    <2>3. linkTab' = [linkTab EXCEPT ![t] = r] /\ UNCHANGED <<linkPlan, Connect!Stored>> /\ secrets' \in Nat
      BY <1>0, <1>1, <1>2, <2>1 DEF Connect!Refetch, Connect!Set
    <2> QED BY <1>0, <1>1, <2>2, <2>3, TabMoves
  <1>3. CASE Connect!Type(t)
    <2>1. PICK f \in Connect!FormEdits(linkTab[t].kind, linkTab[t].form) :
            /\ Connect!Set(t, [linkTab[t] EXCEPT !.form = f])
            /\ secrets' = IF f.secret > secrets THEN f.secret ELSE secrets
      BY <1>3 DEF Connect!Type
    <2>2. o.form \in Form
      BY <1>0, <1>1 DEF Tab
    <2>3. f \in Form
      BY <1>0, <1>1, <2>1, <2>2, EditsTyped
    <2>4. PICK r : r = [o EXCEPT !.form = f]
      OBVIOUS
    <2>5. r \in Tab /\ r.save = o.save /\ r.test = o.test
      BY <1>0, <1>1, <2>3, <2>4 DEF Tab
    <2>6. linkTab' = [linkTab EXCEPT ![t] = r] /\ UNCHANGED <<linkPlan, Connect!Stored>> /\ secrets' \in Nat
      BY <1>0, <1>1, <1>3, <2>1, <2>3, <2>4 DEF Connect!Type, Connect!Set, Form
    <2> QED BY <1>0, <1>1, <2>5, <2>6, TabMoves
  <1>4. CASE Connect!Cancel(t)
    <2>1. PICK x : x = IF o.test.at = "shown" THEN Connect!NoTest ELSE o.test
      OBVIOUS
    <2>2. PICK r : r = [o EXCEPT !.mode = "list", !.test = x]
      OBVIOUS
    <2>3. x \in Test /\ TestOK(x)
      BY <1>0, <1>1, <2>1, NothingTyped DEF Tab, TestOK, Connect!NoTest
    <2>4. r \in Tab /\ r.save = o.save /\ r.test = x
      BY <1>0, <1>1, <2>2, <2>3 DEF Tab
    <2>5. linkTab' = [linkTab EXCEPT ![t] = r] /\ UNCHANGED <<linkPlan, Connect!Stored>> /\ secrets' \in Nat
      BY <1>0, <1>1, <1>4, <2>1, <2>2 DEF Connect!Cancel, Connect!Set, Tab
    <2> QED BY <1>0, <1>1, <2>3, <2>4, <2>5, TabMoves
  <1>5. CASE Connect!Submit(t)
    <2>1. PICK e \in BOOLEAN : e = (o.mode = "editing")
      OBVIOUS
    <2>2. PICK b : b = Connect!buildBody(o.kind, o.form, e)
      OBVIOUS
    <2>3. b \in Body
      BY <1>0, <1>1, <2>2, BodiesTyped DEF Tab
    <2>4. PICK s : s = [Connect!NoSave EXCEPT !.at = "sent", !.id = o.id, !.opened = o.mode, !.body = b]
      OBVIOUS
    <2>5. o.mode \in {"creating", "editing"} /\ o.id \in Connect!Ids \cup {Connect!NoId}
      BY <1>0, <1>1, <1>5 DEF Connect!Submit, Tab
    <2>6. s \in Save /\ SaveOK(s)
      BY <2>3, <2>4, <2>5, NothingTyped DEF Save, SaveOK
    <2>7. PICK r : r = [o EXCEPT !.save = s]
      OBVIOUS
    <2>8. r \in Tab /\ r.save = s /\ r.test = o.test
      BY <1>0, <1>1, <2>6, <2>7 DEF Tab
    <2>9. linkTab' = [linkTab EXCEPT ![t] = r] /\ UNCHANGED <<linkPlan, Connect!Stored>> /\ secrets' \in Nat
      BY <1>0, <1>1, <1>5, <2>1, <2>2, <2>4, <2>7 DEF Connect!Submit, Connect!Set
    <2> QED BY <1>0, <1>1, <2>6, <2>8, <2>9, TabMoves
  <1>6. CASE Connect!Answer(t)
    <2>1. PICK d \in BOOLEAN, m \in {o.mode, "list"} : linkTab' = [linkTab EXCEPT ![t] = [o EXCEPT !.save = Connect!NoSave, !.due = d, !.mode = m]]
      <3>1. CASE o.save.at = "refused"
        <4>1. [o EXCEPT !.save = Connect!NoSave] = [o EXCEPT !.save = Connect!NoSave, !.due = o.due, !.mode = o.mode]
          BY <1>0, <1>1 DEF Tab
        <4>2. o.due \in BOOLEAN
          BY <1>0, <1>1 DEF Tab
        <4> QED BY <1>1, <1>6, <3>1, <4>1, <4>2 DEF Connect!Answer, Connect!Set
      <3>2. CASE o.save.at # "refused"
        <4>1. PICK r : r = [o EXCEPT !.save = Connect!NoSave]
          OBVIOUS
        <4>2. r.mode = o.mode
          BY <1>0, <1>1, <4>1 DEF Tab
        <4>3. PICK m \in {o.mode, "list"} : m = IF r.mode = o.save.opened THEN "list" ELSE r.mode
          BY <4>2
        <4>4. [r EXCEPT !.due = TRUE, !.mode = IF @ = o.save.opened THEN "list" ELSE @]
                = [o EXCEPT !.save = Connect!NoSave, !.due = TRUE, !.mode = m]
          BY <1>0, <1>1, <4>1, <4>2, <4>3 DEF Tab
        <4>5. linkTab' = [linkTab EXCEPT ![t] = [r EXCEPT !.due = TRUE, !.mode = IF @ = o.save.opened THEN "list" ELSE @]]
          BY <1>1, <1>6, <3>2, <4>1 DEF Connect!Answer, Connect!Set
        <4> QED BY <4>4, <4>5
      <3> QED BY <3>1, <3>2
    <2>2. PICK r : r = [o EXCEPT !.save = Connect!NoSave, !.due = d, !.mode = m]
      OBVIOUS
    <2>3. r \in Tab /\ r.save = Connect!NoSave /\ r.test = o.test
      BY <1>0, <1>1, <2>2, NothingTyped DEF Tab
    <2>4. SaveOK(Connect!NoSave)
      BY DEF SaveOK, Connect!NoSave
    <2>5. linkTab' = [linkTab EXCEPT ![t] = r] /\ UNCHANGED <<linkPlan, Connect!Stored>> /\ secrets' \in Nat
      BY <1>0, <1>6, <2>1, <2>2 DEF Connect!Answer
    <2> QED BY <1>0, <1>1, <2>3, <2>4, <2>5, TabMoves
  <1>7. CASE Connect!Lost(t)
    <2>1. PICK r : r = [o EXCEPT !.save = Connect!NoSave]
      OBVIOUS
    <2>2. r \in Tab /\ r.save = Connect!NoSave /\ r.test = o.test
      BY <1>0, <1>1, <2>1, NothingTyped DEF Tab
    <2>3. SaveOK(Connect!NoSave)
      BY DEF SaveOK, Connect!NoSave
    <2>4. linkTab' = [linkTab EXCEPT ![t] = r] /\ UNCHANGED <<linkPlan, Connect!Stored>> /\ secrets' \in Nat
      BY <1>0, <1>1, <1>7, <2>1 DEF Connect!Lost, Connect!Set
    <2> QED BY <1>0, <1>1, <2>2, <2>3, <2>4, TabMoves
  <1>8. ASSUME NEW kind \in {"oidc", "saml", "ldap"}, Connect!Add(t, kind) PROVE ConnectionsInv'
    <2>1. PICK r : r = [o EXCEPT !.mode = "creating", !.id = Connect!NoId, !.kind = kind, !.form = Connect!NewForm]
      OBVIOUS
    <2>2. r \in Tab /\ r.save = o.save /\ r.test = o.test
      BY <1>0, <1>1, <2>1, FormsTyped DEF Tab, Kinds
    <2>3. linkTab' = [linkTab EXCEPT ![t] = r] /\ UNCHANGED <<linkPlan, Connect!Stored>> /\ secrets' \in Nat
      BY <1>0, <1>1, <1>8, <2>1 DEF Connect!Add, Connect!Set
    <2> QED BY <1>0, <1>1, <2>2, <2>3, TabMoves
  <1>9. ASSUME NEW id \in Connect!Ids, Connect!Edit(t, id) PROVE ConnectionsInv'
    <2>0. PICK c \in Card : c = o.list[id]
      BY <1>0, <1>1 DEF Tab
    <2>1. PICK f \in Form : f = Connect!defaults(c)
      BY FormsTyped
    <2>2. PICK r : r = [o EXCEPT !.mode = "editing", !.id = id, !.kind = c.kind, !.form = f]
      OBVIOUS
    <2>3. r \in Tab /\ r.save = o.save /\ r.test = o.test
      BY <1>0, <1>1, <2>2 DEF Tab, Card
    <2>4. linkTab' = [linkTab EXCEPT ![t] = r] /\ UNCHANGED <<linkPlan, Connect!Stored>> /\ secrets' \in Nat
      BY <1>0, <1>1, <1>9, <2>0, <2>1, <2>2 DEF Connect!Edit, Connect!Set
    <2> QED BY <1>0, <1>1, <2>3, <2>4, TabMoves
  <1>10. ASSUME NEW id \in Connect!Ids, Connect!Manage(t, id) PROVE ConnectionsInv'
    <2>1. PICK x : x = [Connect!NoTest EXCEPT !.at = "sent", !.id = id]
      OBVIOUS
    <2>2. x \in Test /\ TestOK(x)
      BY <2>1, NothingTyped DEF Test, TestOK
    <2>3. PICK r : r = [o EXCEPT !.mode = "managing", !.id = id, !.test = x]
      OBVIOUS
    <2>4. r \in Tab /\ r.save = o.save /\ r.test = x
      BY <1>0, <1>1, <2>2, <2>3 DEF Tab
    <2>5. linkTab' = [linkTab EXCEPT ![t] = r] /\ UNCHANGED <<linkPlan, Connect!Stored>> /\ secrets' \in Nat
      BY <1>0, <1>1, <1>10, <2>1, <2>3 DEF Connect!Manage, Connect!Set
    <2> QED BY <1>0, <1>1, <2>2, <2>4, <2>5, TabMoves
  <1> QED BY <1>2, <1>3, <1>4, <1>5, <1>6, <1>7, <1>8, <1>9, <1>10

LEMMA ReadSteps ==
  ASSUME ConnectionsInv, NEW t \in Connect!Tabs, Connect!updateRead(t) \/ Connect!testConnection(t) \/ Connect!fetchDirectory(t)
  PROVE  ConnectionsInv'
  <1>0. linkTab[t] \in Tab /\ SaveOK(linkTab[t].save) /\ TestOK(linkTab[t].test) /\ links \in [Connect!Ids -> Row] /\ secrets \in Nat /\ LinksInv
    BY DEF ConnectionsInv, Types, TabsInv
  <1>1. PICK o : o = linkTab[t]
    OBVIOUS
  <1>2. CASE Connect!updateRead(t)
    <2>1. PICK s : s = o.save
      OBVIOUS
    <2>2. s \in Save /\ s.id \in Connect!Ids /\ s.body \in Body
      BY <1>0, <1>1, <1>2, <2>1 DEF Connect!updateRead, Tab, Save
    <2>3. PICK row \in Row : row = links[s.id]
      BY <1>0, <2>2
    <2>4. CASE ~row.live \/ row.kind # s.body.kind
      <3>1. PICK n : n = [s EXCEPT !.at = "refused"]
        OBVIOUS
      <3>2. n \in Save /\ SaveOK(n)
        BY <2>2, <3>1 DEF Save, SaveOK
      <3>3. PICK r : r = [o EXCEPT !.save = n]
        OBVIOUS
      <3>4. r \in Tab /\ r.save = n /\ r.test = o.test
        BY <1>0, <1>1, <3>2, <3>3 DEF Tab
      <3>5. linkTab' = [linkTab EXCEPT ![t] = r] /\ UNCHANGED <<linkPlan, Connect!Stored>> /\ secrets' \in Nat
        BY <1>0, <1>1, <1>2, <2>1, <2>3, <2>4, <3>1, <3>3 DEF Connect!updateRead, Connect!Set
      <3> QED BY <1>0, <1>1, <3>2, <3>4, <3>5, TabMoves
    <2>5. CASE row.live /\ row.kind = s.body.kind
      <3>0. PICK k : k = Connect!Kept(s.body, row.secret)
        OBVIOUS
      <3>1. k \in Nat /\ k = row.secret /\ (s.body.kind = "saml" => k = Connect!Null) /\ row.born
        BY <1>0, <2>2, <2>3, <2>5, <3>0 DEF Connect!Kept, Row, LinksInv, Connect!Null
      <3>2. PICK n : n = [s EXCEPT !.at = "read", !.kept = k]
        OBVIOUS
      <3>3. n \in Save /\ n.id = s.id /\ n.body = s.body /\ n.kept = k
        BY <2>2, <3>1, <3>2 DEF Save
      <3>4. SaveOK(n)
        BY <2>2, <2>3, <2>5, <3>1, <3>3 DEF SaveOK
      <3>5. PICK r : r = [o EXCEPT !.save = n]
        OBVIOUS
      <3>6. r \in Tab /\ r.save = n /\ r.test = o.test
        BY <1>0, <1>1, <3>3, <3>5 DEF Tab
      <3>7. linkTab' = [linkTab EXCEPT ![t] = r] /\ UNCHANGED <<linkPlan, Connect!Stored>> /\ secrets' \in Nat
        BY <1>0, <1>1, <1>2, <2>1, <2>3, <2>5, <3>0, <3>2, <3>5 DEF Connect!updateRead, Connect!Set
      <3> QED BY <1>0, <1>1, <3>4, <3>6, <3>7, TabMoves
    <2> QED BY <2>4, <2>5
  <1>3. CASE Connect!testConnection(t)
    <2>1. PICK x : x = o.test
      OBVIOUS
    <2>2. x \in Test /\ x.id \in Connect!Ids
      BY <1>0, <1>1, <1>3, <2>1 DEF Connect!testConnection, Tab, TestOK
    <2>3. PICK row \in Row : row = links[x.id]
      BY <1>0, <2>2
    <2>4. PICK n : n = IF row.live THEN [x EXCEPT !.at = "read", !.secret = row.secret, !.ver = row.ver] ELSE Connect!NoTest
      OBVIOUS
    <2>5. n \in Test /\ TestOK(n)
      <3>1. CASE row.live
        <4>1. n \in Test /\ n.at = "read" /\ n.id = x.id /\ n.secret = row.secret /\ n.ver = row.ver
          BY <2>2, <2>3, <2>4, <3>1 DEF Test, Row
        <4>2. row.born /\ row.ver \in Nat
          BY <1>0, <2>2, <2>3, <3>1 DEF LinksInv, Row
        <4> QED BY <2>2, <2>3, <4>1, <4>2 DEF TestOK
      <3>2. CASE ~row.live
        BY <2>4, <3>2, NothingTyped DEF TestOK, Connect!NoTest
      <3> QED BY <3>1, <3>2
    <2>6. PICK r : r = [o EXCEPT !.test = n]
      OBVIOUS
    <2>7. r \in Tab /\ r.save = o.save /\ r.test = n
      BY <1>0, <1>1, <2>5, <2>6 DEF Tab
    <2>8. linkTab' = [linkTab EXCEPT ![t] = r] /\ UNCHANGED <<linkPlan, Connect!Stored>> /\ secrets' \in Nat
      BY <1>0, <1>1, <1>3, <2>1, <2>3, <2>4, <2>6 DEF Connect!testConnection, Connect!Set
    <2> QED BY <1>0, <1>1, <2>5, <2>7, <2>8, TabMoves
  <1>4. CASE Connect!fetchDirectory(t)
    <2>0. PICK reached \in BOOLEAN :
            linkTab' = [linkTab EXCEPT ![t] = [linkTab[t] EXCEPT !.test =
              IF linkTab[t].mode = "managing" THEN [linkTab[t].test EXCEPT !.at = "shown", !.ok = reached /\ linkTab[t].test.secret = Connect!Truth]
              ELSE Connect!NoTest]]
      BY <1>4 DEF Connect!fetchDirectory, Connect!Set
    <2>1. PICK x : x = o.test
      OBVIOUS
    <2>2. x \in Test /\ x.at = "read" /\ TestOK(x)
      BY <1>0, <1>1, <1>4, <2>1 DEF Connect!fetchDirectory, Tab
    <2>3. PICK n : n = IF o.mode = "managing" THEN [x EXCEPT !.at = "shown", !.ok = reached /\ x.secret = Connect!Truth] ELSE Connect!NoTest
      OBVIOUS
    <2>4. n \in Test /\ TestOK(n)
      <3>1. CASE o.mode = "managing"
        <4>1. n \in Test /\ n.at = "shown" /\ n.id = x.id /\ n.ok = (reached /\ x.secret = Connect!Truth) /\ n.ver = x.ver
          BY <2>2, <2>3, <3>1 DEF Test
        <4> QED BY <2>2, <4>1 DEF TestOK
      <3>2. CASE o.mode # "managing"
        BY <2>3, <3>2, NothingTyped DEF TestOK, Connect!NoTest
      <3> QED BY <3>1, <3>2
    <2>5. PICK r : r = [o EXCEPT !.test = n]
      OBVIOUS
    <2>6. r \in Tab /\ r.save = o.save /\ r.test = n
      BY <1>0, <1>1, <2>4, <2>5 DEF Tab
    <2>7. linkTab' = [linkTab EXCEPT ![t] = r] /\ UNCHANGED <<linkPlan, Connect!Stored>> /\ secrets' \in Nat
      <3>1. linkTab' = [linkTab EXCEPT ![t] = r]
        BY <1>1, <2>0, <2>1, <2>3, <2>5
      <3> QED BY <1>0, <1>4, <3>1 DEF Connect!fetchDirectory
    <2> QED BY <1>0, <1>1, <2>4, <2>6, <2>7, TabMoves
  <1> QED BY <1>2, <1>3, <1>4

\* Row i becomes n; what the tabs read of it is kept as read, and marked as met if n lives.
ReadsKept(i, n) ==
  \A z \in Connect!Tabs :
    /\ linkTab'[z].test = linkTab[z].test
    /\ linkTab'[z].save.at = "read" =>
         /\ linkTab[z].save.at = "read"
         /\ linkTab'[z].save.id = linkTab[z].save.id
         /\ linkTab'[z].save.body = linkTab[z].save.body
         /\ linkTab'[z].save.kept = linkTab[z].save.kept
         /\ linkTab'[z].save.met = FALSE => linkTab[z].save.met = FALSE /\ (linkTab[z].save.id # i \/ ~n.live)

LEMMA RowWritten ==
  ASSUME ConnectionsInv, NEW i \in Connect!Ids, NEW n \in Row, links' = [links EXCEPT ![i] = n], n.born,
         linkPlan' = linkPlan, typed' \in [Connect!Ids -> Nat], secrets' \in Nat, linkTab' \in [Connect!Tabs -> Tab], LinksInv',
         links[i].born => (n.live => links[i].live /\ n.kind = links[i].kind /\ n.ver = links[i].ver + 1) /\ n.ver >= links[i].ver,
         ReadsKept(i, n)
  PROVE  ConnectionsInv'
  <1>1. Connect!Tabs' = Connect!Tabs /\ links \in [Connect!Ids -> Row] /\ linkTab \in [Connect!Tabs -> Tab]
    BY DEF Connect!Tabs, ConnectionsInv, Types
  <1>2. Types'
    BY <1>1 DEF ConnectionsInv, Types
  <1>3. \A j \in Connect!Ids : links'[j] = IF j = i THEN n ELSE links[j]
    BY <1>1
  <1>4. ASSUME NEW z \in Connect!Tabs PROVE SaveOK(linkTab[z].save)' /\ TestOK(linkTab[z].test)'
    <2>1. SaveOK(linkTab[z].save) /\ TestOK(linkTab[z].test)
      BY DEF ConnectionsInv, TabsInv
    <2>2. PICK s \in Save : s = linkTab'[z].save
      BY DEF Tab
    <2>3. PICK b \in Save : b = linkTab[z].save
      BY <1>1 DEF Tab
    <2>4. SaveOK(linkTab[z].save)'
      <3> SUFFICES ASSUME s.at = "read"
                   PROVE  /\ s.id \in Connect!Ids /\ links'[s.id].born
                          /\ s.body.kind = "saml" => s.kept = Connect!Null
                          /\ links'[s.id].live => s.body.kind = links'[s.id].kind
                          /\ links'[s.id].live /\ ~s.met => s.kept = links'[s.id].secret
        BY <2>2 DEF SaveOK
      <3>1. /\ b.at = "read" /\ s.id = b.id /\ s.body = b.body /\ s.kept = b.kept
            /\ s.met = FALSE => b.met = FALSE /\ (b.id # i \/ ~n.live)
        BY <2>2, <2>3 DEF ReadsKept
      <3>2. /\ b.id \in Connect!Ids /\ links[b.id].born
            /\ b.body.kind = "saml" => b.kept = Connect!Null
            /\ links[b.id].live => b.body.kind = links[b.id].kind
            /\ links[b.id].live /\ ~b.met => b.kept = links[b.id].secret
        BY <2>1, <2>3, <3>1 DEF SaveOK
      <3>3. s.met \in BOOLEAN
        BY <2>2 DEF Save
      <3>4. CASE b.id # i
        BY <1>3, <3>1, <3>2, <3>3, <3>4
      <3>5. CASE b.id = i
        <4>1. links'[s.id] = n
          BY <1>3, <3>1, <3>5
        <4> QED BY <3>1, <3>2, <3>3, <3>5, <4>1
      <3> QED BY <3>4, <3>5
    <2>5. PICK x \in Test : x = linkTab[z].test
      BY <1>1 DEF Tab
    <2>6. TestOK(linkTab[z].test)'
      <3>1. linkTab'[z].test = x /\ TestOK(x)
        BY <2>1, <2>5 DEF ReadsKept
      <3>2. CASE x.at \in {"read", "shown"} /\ x.id = i
        <4>1. x.id \in Connect!Ids /\ links[i].born /\ x.ver <= links[i].ver /\ x.ver \in Nat /\ links[i].ver \in Nat /\ n.ver \in Nat
          BY <1>1, <2>5, <3>1, <3>2 DEF TestOK, Row, Test
        <4>2. links'[x.id] = n /\ x.ver <= n.ver /\ ~(n.live /\ n.ver = x.ver)
          BY <1>3, <3>2, <4>1
        <4> QED BY <3>1, <4>1, <4>2 DEF TestOK
      <3>3. CASE ~(x.at \in {"read", "shown"} /\ x.id = i)
        BY <1>3, <3>1, <3>3 DEF TestOK
      <3> QED BY <3>2, <3>3
    <2> QED BY <2>4, <2>6
  <1>5. TabsInv'
    BY <1>1, <1>4 DEF TabsInv
  <1> QED BY <1>2, <1>5 DEF ConnectionsInv

LEMMA RemoveStep ==
  ASSUME ConnectionsInv, NEW t \in Connect!Tabs, NEW id \in Connect!Ids, Connect!remove(t, id)
  PROVE  ConnectionsInv'
  <1>0. linkTab \in [Connect!Tabs -> Tab] /\ links \in [Connect!Ids -> Row] /\ typed \in [Connect!Ids -> Nat] /\ secrets \in Nat /\ LinksInv
    BY DEF ConnectionsInv, Types
  <1>1. PICK n : n = [Connect!NoRow EXCEPT !.born = TRUE, !.ver = links[id].ver]
    OBVIOUS
  <1>2. n \in Row /\ n.born /\ n.live = FALSE /\ n.ver = links[id].ver /\ links[id].ver \in Nat
    <2>1. links[id].ver \in Nat /\ Connect!NoRow.live = FALSE
      BY <1>0 DEF Row, Connect!NoRow
    <2> QED BY <1>1, <2>1, NothingTyped DEF Row
  <1>3. /\ links' = [links EXCEPT ![id] = n] /\ typed' = [typed EXCEPT ![id] = Connect!Null] /\ mixed' = mixed \ {id}
        /\ linkPlan' = linkPlan /\ secrets' = secrets
    BY <1>1 DEF Connect!remove
  <1>4. PICK d \in BOOLEAN : linkTab' = [linkTab EXCEPT ![t] = [linkTab[t] EXCEPT !.due = d]]
    <2>1. PICK d : d = (linkTab[t].due \/ links[id].live)
      OBVIOUS
    <2>2. linkTab' = [linkTab EXCEPT ![t] = [linkTab[t] EXCEPT !.due = d]] /\ d \in BOOLEAN
      BY <1>0, <2>1 DEF Connect!remove, Connect!Set, Tab
    <2> QED BY <2>2
  <1>5. PICK r : r = [linkTab[t] EXCEPT !.due = d]
    OBVIOUS
  <1>6. r \in Tab /\ r.save = linkTab[t].save /\ r.test = linkTab[t].test
    BY <1>0, <1>5 DEF Tab
  <1>7. linkTab' \in [Connect!Tabs -> Tab] /\ \A z \in Connect!Tabs : linkTab'[z].save = linkTab[z].save /\ linkTab'[z].test = linkTab[z].test
    BY <1>0, <1>4, <1>5, <1>6
  <1>8. \A j \in Connect!Ids : links'[j] = (IF j = id THEN n ELSE links[j]) /\ typed'[j] = IF j = id THEN Connect!Null ELSE typed[j]
    BY <1>0, <1>3
  <1>9. LinksInv'
    BY <1>0, <1>2, <1>3, <1>8 DEF LinksInv
  <1>10. typed' \in [Connect!Ids -> Nat]
    BY <1>0, <1>3 DEF Connect!Null
  <1>11. ReadsKept(id, n)
    BY <1>2, <1>7 DEF ReadsKept
  <1>12. n.ver >= links[id].ver
    BY <1>2
  <1> QED BY <1>0, <1>2, <1>3, <1>7, <1>9, <1>10, <1>11, <1>12, RowWritten

LEMMA CreateStep ==
  ASSUME ConnectionsInv, NEW t \in Connect!Tabs, Connect!create(t)
  PROVE  ConnectionsInv'
  <1>0. linkTab \in [Connect!Tabs -> Tab] /\ links \in [Connect!Ids -> Row] /\ typed \in [Connect!Ids -> Nat] /\ secrets \in Nat /\ LinksInv
        /\ SaveOK(linkTab[t].save) /\ TestOK(linkTab[t].test)
    BY DEF ConnectionsInv, Types, TabsInv
  <1>1. PICK o \in Tab : o = linkTab[t]
    BY <1>0
  <1>2. PICK body \in Body : body = o.save.body
    BY DEF Tab, Save
  <1>3. UNCHANGED <<linkPlan, secrets, linkUsed>>
    BY DEF Connect!create
  <1>4. CASE Connect!DomainTaken(body, Connect!NoId)
    <2>1. PICK s : s = [o.save EXCEPT !.at = "refused"]
      OBVIOUS
    <2>2. s \in Save /\ SaveOK(s)
      BY <2>1 DEF Tab, Save, SaveOK
    <2>3. PICK r : r = [o EXCEPT !.save = s]
      OBVIOUS
    <2>4. r \in Tab /\ r.save = s /\ r.test = o.test
      BY <2>2, <2>3 DEF Tab
    <2>5. [o EXCEPT !.save.at = "refused"] = r
      BY <2>1, <2>3 DEF Tab
    <2>6. linkTab' = [linkTab EXCEPT ![t] = r] /\ UNCHANGED Connect!Stored
      BY <1>1, <1>2, <1>4, <2>5 DEF Connect!create, Connect!Set
    <2> QED BY <1>0, <1>1, <1>3, <2>2, <2>4, <2>6, TabMoves
  <1>5. CASE ~Connect!DomainTaken(body, Connect!NoId)
    <2> DEFINE free == {i \in Connect!Ids : ~links[i].born}
    <2>1. PICK id : id = CHOOSE i \in free : \A j \in free : i <= j
      OBVIOUS
    <2>2. PICK secret : secret = Connect!splitRequest(body)
      OBVIOUS
    <2>3. /\ free # {} /\ links' = [links EXCEPT ![id] = Connect!RowOf(body, secret, Connect!NoRow)] /\ typed' = [typed EXCEPT ![id] = secret]
          /\ linkTab' = [linkTab EXCEPT ![t] = [o EXCEPT !.save.at = "ok", !.save.id = id]] /\ mixed' = mixed
      BY <1>1, <1>2, <1>5, <2>1, <2>2 DEF Connect!create, Connect!Set
    <2>4. id \in free
      <3>1. free \subseteq Nat
        BY DEF Connect!Ids
      <3> HIDE DEF free
      <3>2. \E i \in free : \A j \in free : i <= j
        BY <2>3, <3>1, FirstOf
      <3> QED BY <2>1, <3>2
    <2>5. id \in Connect!Ids /\ ~links[id].born
      BY <2>4
    <2> HIDE DEF free
    <2>6. secret \in Nat /\ (body.kind = "saml" => secret = Connect!Null)
      BY <2>2 DEF Connect!splitRequest, Body, Connect!Null, Connect!Omitted
    <2>7. PICK n : n = Connect!RowOf(body, secret, Connect!NoRow)
      OBVIOUS
    <2>8. /\ n \in Row /\ n.born /\ n.live /\ n.kind = body.kind /\ n.secret = secret /\ n.domain = body.domain /\ n.on = body.on
      <3>1. Connect!NoRow.ver = 0
        BY DEF Connect!NoRow
      <3> QED BY <2>6, <2>7, <3>1 DEF Connect!RowOf, Row, Body
    <2>9. PICK s : s = [o.save EXCEPT !.at = "ok", !.id = id]
      OBVIOUS
    <2>10. s \in Save /\ s.at = "ok"
      BY <2>5, <2>9 DEF Tab, Save
    <2>11. PICK r : r = [o EXCEPT !.save = s]
      OBVIOUS
    <2>12. r \in Tab /\ r.save = s /\ r.test = o.test
      BY <2>10, <2>11 DEF Tab
    <2>13. [o EXCEPT !.save.at = "ok", !.save.id = id] = r
      BY <2>9, <2>11 DEF Tab
    <2>14. linkTab' \in [Connect!Tabs -> Tab] /\ \A z \in Connect!Tabs : linkTab'[z] = IF z = t THEN r ELSE linkTab[z]
      BY <1>0, <2>3, <2>12, <2>13
    <2>15. \A z \in Connect!Tabs : /\ linkTab'[z].test = linkTab[z].test
                                   /\ linkTab'[z].save.at = "read" => z # t /\ linkTab'[z].save = linkTab[z].save
      BY <1>1, <2>10, <2>12, <2>14
    <2>16. ASSUME NEW z \in Connect!Tabs, linkTab'[z].save.at = "read" PROVE linkTab[z].save.id # id
      BY <2>5, <2>15, <2>16 DEF ConnectionsInv, TabsInv, SaveOK
    <2>17. \A j \in Connect!Ids : links'[j] = (IF j = id THEN n ELSE links[j]) /\ typed'[j] = IF j = id THEN secret ELSE typed[j]
      BY <1>0, <2>3, <2>7
    <2>18. \A j \in Connect!Ids : links[j].live /\ links[j].on /\ links[j].domain = body.domain => body.domain = "none" \/ ~body.on
      BY <1>5 DEF Connect!DomainTaken, Connect!Live, Connect!Ids, Connect!NoId
    <2>19. LinksInv'
      <3>1. \A i \in Connect!Ids : links'[i].live => links'[i].born
        BY <1>0, <2>8, <2>17 DEF LinksInv
      <3>2. \A i \in Connect!Ids : links'[i].live /\ links'[i].kind = "saml" => links'[i].secret = Connect!Null
        BY <1>0, <2>6, <2>8, <2>17 DEF LinksInv
      <3>3. \A i \in Connect!Ids : links'[i].live /\ i \notin mixed' => links'[i].secret = typed'[i]
        BY <1>0, <2>3, <2>8, <2>17 DEF LinksInv
      <3>4. ASSUME NEW i \in Connect!Ids, NEW j \in Connect!Ids, links'[i].live, links'[j].live, links'[i].on, links'[j].on,
                   links'[i].domain = links'[j].domain, links'[i].domain # "none"
            PROVE  i = j
        BY <1>0, <2>8, <2>17, <2>18, <3>4 DEF LinksInv
      <3> QED BY <3>1, <3>2, <3>3, <3>4 DEF LinksInv
    <2>20. typed' \in [Connect!Ids -> Nat]
      BY <1>0, <2>3, <2>6
    <2>21. links' = [links EXCEPT ![id] = n]
      BY <2>3, <2>7
    <2>22. ReadsKept(id, n)
      BY <2>15, <2>16 DEF ReadsKept
    <2> QED BY <1>0, <1>3, <2>5, <2>8, <2>14, <2>19, <2>20, <2>21, <2>22, RowWritten
  <1> QED BY <1>4, <1>5

LEMMA WriteStep ==
  ASSUME ConnectionsInv, NEW t \in Connect!Tabs, Connect!updateWrite(t)
  PROVE  ConnectionsInv'
  <1>0. linkTab \in [Connect!Tabs -> Tab] /\ links \in [Connect!Ids -> Row] /\ typed \in [Connect!Ids -> Nat] /\ secrets \in Nat /\ LinksInv
        /\ SaveOK(linkTab[t].save) /\ TestOK(linkTab[t].test)
    BY DEF ConnectionsInv, Types, TabsInv
  <1>1. PICK o \in Tab : o = linkTab[t]
    BY <1>0
  <1>2. PICK s \in Save : s = o.save
    BY DEF Tab
  <1>3. s.at = "read" /\ s.id \in Connect!Ids /\ links[s.id].born /\ s.body \in Body /\ (s.body.kind = "saml" => s.kept = Connect!Null) /\ s.kept \in Nat
        /\ s.met \in BOOLEAN
    BY <1>0, <1>1, <1>2 DEF Connect!updateWrite, SaveOK, Save
  <1>4. UNCHANGED <<linkPlan, secrets, linkUsed>>
    BY DEF Connect!updateWrite
  <1>5. CASE ~links[s.id].live \/ Connect!DomainTaken(s.body, s.id)
    <2>1. PICK w : w = [s EXCEPT !.at = "refused"]
      OBVIOUS
    <2>2. w \in Save /\ SaveOK(w)
      BY <2>1 DEF Save, SaveOK
    <2>3. PICK r : r = [o EXCEPT !.save = w]
      OBVIOUS
    <2>4. r \in Tab /\ r.save = w /\ r.test = o.test
      BY <2>2, <2>3 DEF Tab
    <2>5. [o EXCEPT !.save.at = "refused"] = r
      BY <1>2, <2>1, <2>3 DEF Tab
    <2>6. linkTab' = [linkTab EXCEPT ![t] = r] /\ UNCHANGED Connect!Stored
      BY <1>1, <1>2, <1>5, <2>5 DEF Connect!updateWrite, Connect!Set
    <2> QED BY <1>0, <1>1, <1>4, <2>2, <2>4, <2>6, TabMoves
  <1>6. CASE links[s.id].live /\ ~Connect!DomainTaken(s.body, s.id)
    <2>1. PICK secret : secret = IF s.body.secret = Connect!Omitted THEN s.kept ELSE s.body.secret
      OBVIOUS
    <2>2. PICK id : id = s.id
      OBVIOUS
    <2>3. PICK n : n = Connect!RowOf(s.body, secret, links[id])
      OBVIOUS
    <2>4. /\ links' = [links EXCEPT ![id] = n]
          /\ typed' = IF s.body.secret = Connect!Omitted THEN typed ELSE [typed EXCEPT ![id] = secret]
          /\ mixed' = IF s.body.secret # Connect!Omitted THEN mixed \ {id} ELSE IF s.met THEN mixed \cup {id} ELSE mixed
          /\ linkTab' = [z \in Connect!Tabs |-> IF z = t THEN [o EXCEPT !.save.at = "ok"]
                                    ELSE IF linkTab[z].save.at = "read" /\ linkTab[z].save.id = id
                                         THEN [linkTab[z] EXCEPT !.save.met = TRUE] ELSE linkTab[z]]
      BY <1>1, <1>2, <1>6, <2>1, <2>2, <2>3 DEF Connect!updateWrite
    <2>5. secret \in Nat /\ (s.body.kind = "saml" => secret = Connect!Null)
      BY <1>3, <2>1 DEF Body, Connect!Omitted
    <2>6. PICK old \in Row : old = links[id]
      BY <1>0, <1>3, <2>2
    <2>7. /\ n \in Row /\ n.born /\ n.live /\ n.kind = s.body.kind /\ n.secret = secret /\ n.domain = s.body.domain /\ n.on = s.body.on
          /\ n.ver = old.ver + 1
      BY <1>3, <2>3, <2>5, <2>6 DEF Connect!RowOf, Row, Body
    <2>8. /\ id \in Connect!Ids /\ old.born /\ old.live /\ old.kind = s.body.kind
          /\ ~s.met => s.kept = old.secret
      BY <1>0, <1>1, <1>2, <1>3, <1>6, <2>2, <2>6 DEF SaveOK
    <2>9. PICK r : r = [o EXCEPT !.save = [s EXCEPT !.at = "ok"]]
      OBVIOUS
    <2>10. r = [o EXCEPT !.save.at = "ok"] /\ r \in Tab /\ r.test = o.test /\ r.save.at = "ok"
      <3>1. PICK w : w = [s EXCEPT !.at = "ok"]
        OBVIOUS
      <3>2. w \in Save /\ w.at = "ok"
        BY <3>1 DEF Save
      <3> QED BY <1>2, <2>9, <3>1, <3>2 DEF Tab
    <2>11. ASSUME NEW z \in Connect!Tabs, z # t
           PROVE  /\ linkTab'[z] \in Tab /\ linkTab'[z].test = linkTab[z].test
                  /\ linkTab'[z].save.at = linkTab[z].save.at /\ linkTab'[z].save.id = linkTab[z].save.id
                  /\ linkTab'[z].save.body = linkTab[z].save.body /\ linkTab'[z].save.kept = linkTab[z].save.kept
                  /\ linkTab'[z].save.at = "read" /\ linkTab'[z].save.met = FALSE => linkTab[z].save.met = FALSE /\ linkTab[z].save.id # id
      <3>1. PICK y \in Tab : y = linkTab[z]
        BY <1>0
      <3>2. PICK w \in Save : w = y.save
        BY DEF Tab
      <3>3. CASE w.at = "read" /\ w.id = id
        <4>1. linkTab'[z] = [y EXCEPT !.save.met = TRUE]
          BY <2>4, <2>11, <3>1, <3>2, <3>3
        <4>2. PICK v : v = [w EXCEPT !.met = TRUE]
          OBVIOUS
        <4>3. v \in Save /\ v.at = w.at /\ v.id = w.id /\ v.body = w.body /\ v.kept = w.kept /\ v.met = TRUE
          BY <4>2 DEF Save
        <4>4. linkTab'[z] = [y EXCEPT !.save = v]
          BY <3>2, <4>1, <4>2 DEF Tab
        <4>5. linkTab'[z] \in Tab /\ linkTab'[z].save = v /\ linkTab'[z].test = y.test
          BY <4>3, <4>4 DEF Tab
        <4> QED BY <3>1, <3>2, <4>3, <4>5
      <3>4. CASE ~(w.at = "read" /\ w.id = id)
        <4>1. linkTab'[z] = y
          BY <2>4, <2>11, <3>1, <3>2, <3>4
        <4> QED BY <3>1, <3>2, <3>4, <4>1
      <3> QED BY <3>3, <3>4
    <2>12. linkTab'[t] = r
      BY <2>4, <2>10
    <2>13. linkTab' \in [Connect!Tabs -> Tab]
      <3>1. linkTab' = [z \in Connect!Tabs |-> linkTab'[z]]
        BY <2>4
      <3>2. \A z \in Connect!Tabs : linkTab'[z] \in Tab
        BY <2>10, <2>11, <2>12
      <3> QED BY <3>1, <3>2
    <2>14. \A j \in Connect!Ids : links'[j] = (IF j = id THEN n ELSE links[j])
      BY <1>0, <2>4
    <2>15. \A j \in Connect!Ids : j # id => typed'[j] = typed[j]
      BY <1>0, <2>4
    <2>16. \A j \in Connect!Ids : j # id /\ j \notin mixed' => j \notin mixed
      BY <2>4
    <2>17. id \notin mixed' => secret = typed'[id]
      <3>1. CASE s.body.secret # Connect!Omitted
        BY <1>0, <2>4, <2>8, <3>1
      <3>2. CASE s.body.secret = Connect!Omitted
        <4> SUFFICES ASSUME id \notin mixed' PROVE secret = typed'[id]
          OBVIOUS
        <4>1. ~s.met /\ id \notin mixed
          BY <2>4, <3>2
        <4>2. secret = old.secret /\ typed'[id] = typed[id]
          BY <2>1, <2>4, <2>8, <3>2, <4>1
        <4> QED BY <1>0, <2>6, <2>8, <4>1, <4>2 DEF LinksInv
      <3> QED BY <3>1, <3>2
    <2>18. \A j \in Connect!Ids : j # id /\ links[j].live /\ links[j].on /\ links[j].domain = s.body.domain => s.body.domain = "none" \/ ~s.body.on
      BY <1>6, <2>2 DEF Connect!DomainTaken, Connect!Live
    <2>19. LinksInv'
      <3>1. \A i \in Connect!Ids : links'[i].live => links'[i].born
        BY <1>0, <2>7, <2>14 DEF LinksInv
      <3>2. \A i \in Connect!Ids : links'[i].live /\ links'[i].kind = "saml" => links'[i].secret = Connect!Null
        BY <1>0, <2>5, <2>7, <2>14 DEF LinksInv
      <3>3. \A i \in Connect!Ids : links'[i].live /\ i \notin mixed' => links'[i].secret = typed'[i]
        BY <1>0, <2>7, <2>14, <2>15, <2>16, <2>17 DEF LinksInv
      <3>4. ASSUME NEW i \in Connect!Ids, NEW j \in Connect!Ids, links'[i].live, links'[j].live, links'[i].on, links'[j].on,
                   links'[i].domain = links'[j].domain, links'[i].domain # "none"
            PROVE  i = j
        BY <1>0, <2>7, <2>14, <2>18, <3>4 DEF LinksInv
      <3> QED BY <3>1, <3>2, <3>3, <3>4 DEF LinksInv
    <2>20. typed' \in [Connect!Ids -> Nat]
      BY <1>0, <2>4, <2>5, <2>8
    <2>21. ReadsKept(id, n)
      BY <1>1, <2>10, <2>11, <2>12 DEF ReadsKept
    <2>22. old.ver \in Nat /\ n.ver >= old.ver
      BY <2>6, <2>7 DEF Row
    <2> QED BY <1>0, <1>4, <2>4, <2>6, <2>7, <2>8, <2>13, <2>19, <2>20, <2>21, <2>22, RowWritten
  <1> QED BY <1>5, <1>6

LEMMA ConnectionsStep ==
  ASSUME Connect!RoleMapsAssumption, Connect!KindsAssumption, ConnectionsInv, [Connect!Next]_(Connect!vars)
  PROVE  ConnectionsInv'
  <1>1. CASE UNCHANGED Connect!vars
    <2>1. Connect!Tabs' = Connect!Tabs
      BY <1>1 DEF Connect!vars, Connect!Tabs
    <2> QED BY <1>1, <2>1 DEF Connect!vars, ConnectionsInv, Types, LinksInv, TabsInv, SaveOK, TestOK
  <1>2. CASE Connect!Next
    BY <1>2, PageSteps, ReadSteps, RemoveStep, CreateStep, WriteStep DEF Connect!Next
  <1> QED BY <1>1, <1>2

LEMMA ConnectionsSafe ==
  ASSUME ConnectionsInv
  PROVE  Connect!ConnectionsSound
  <1>1. \A i \in Connect!Live : Connect!roleMapFromText(Connect!roleMapToText(links[i].map)) = links[i].map
    <2>1. \A i \in Connect!Live : links[i].map \in Maps
      BY DEF Connect!Live, ConnectionsInv, Types, Row
    <2> QED BY <2>1, MapsAreTidy, RoundTrip
  <1>2. \A i \in Connect!Live \ mixed : links[i].secret = typed[i]
    BY DEF Connect!Live, ConnectionsInv, LinksInv
  <1>3. \A i, j \in Connect!Live : links[i].on /\ links[j].on /\ links[i].domain = links[j].domain /\ links[i].domain # "none" => i = j
    BY DEF Connect!Live, ConnectionsInv, LinksInv
  <1>4. \A t \in Connect!Tabs : TestOK(linkTab[t].test)
    BY DEF ConnectionsInv, TabsInv
  <1> QED BY <1>1, <1>2, <1>3, <1>4 DEF Connect!ConnectionsSound, TestOK

\* The console's connections, for any number of administrators, connections, edits and lost answers:
\* the last secret typed is the one stored, one enabled provider serves a domain, every stored role
\* map survives the form's text, and a test shown as passed vouches for the secret of the row it read.
THEOREM ConnectionsAreSound ==
  ASSUME Connect!RoleMapsAssumption, Connect!KindsAssumption
  PROVE  Connect!Spec => []Connect!ConnectionsSound
  <1>1. Connect!Init => ConnectionsInv
    BY ConnectionsInit
  <1>2. ConnectionsInv /\ [Connect!Next]_(Connect!vars) => ConnectionsInv'
    BY ConnectionsStep
  <1>3. ConnectionsInv => Connect!ConnectionsSound
    BY ConnectionsSafe
  <1> QED BY <1>1, <1>2, <1>3, PTL DEF Connect!Spec

--------------------------------------------------------------------------------
(* Secrets shown once. *)

\* What a tab holds.
PostShape(p) ==
  p = [at |-> p.at, id |-> p.id, inst |-> p.inst] /\ p.at \in {"none", "sent", "done"} /\ p.inst \in Nat
PageShape(r) ==
  /\ r = [here |-> r.here, data |-> r.data, stale |-> r.stale, fetch |-> r.fetch, behind |-> r.behind, inst |-> r.inst,
          open |-> r.open, filled |-> r.filled, shown |-> r.shown, post |-> r.post, del |-> r.del,
          typed |-> r.typed, save |-> r.save, stirred |-> r.stirred]
  /\ r.here \in BOOLEAN /\ r.stale \in BOOLEAN /\ r.behind \in BOOLEAN /\ r.open \in BOOLEAN /\ r.stirred \in BOOLEAN
  /\ r.inst \in Nat
  /\ r.post = [s \in Secrets!Slots |-> r.post[s]] /\ \A s \in Secrets!Slots : PostShape(r.post[s])

\* A dialog or page waits for one creation of its own at most, and shows nothing while it does.
OneCreation(r) ==
  /\ \A s \in Secrets!Slots : r.post[s].at # "none" => r.post[s].inst <= r.inst
  /\ \A s \in Secrets!Slots : r.post[s].at # "none" /\ r.post[s].inst = r.inst => r.shown = Secrets!NoId
  /\ \A s, z \in Secrets!Slots :
       r.post[s].at # "none" /\ r.post[s].inst = r.inst /\ r.post[z].at # "none" /\ r.post[z].inst = r.inst => s = z

\* A write of this tab has not been answered: its answer will refetch the list.
Unanswered(r) == r.del.at = "ok" \/ r.save.at = "ok" \/ \E s \in Secrets!Slots : r.post[s].at = "done"

\* What was read is the table, or the tab is behind, marked, or about to be told; what is typed
\* and not stirred was typed over the table as it is.
UpToDate(r) ==
  /\ r.here => ~r.stale
  /\ ~r.behind /\ ~Unanswered(r) =>
       /\ r.fetch.at = "read" => r.fetch.data = Secrets!Listed
       /\ r.fetch.at = "none" /\ ~r.stale => r.data = Secrets!Listed
  /\ r.typed # 0 /\ ~r.stirred => r.data = Secrets!Listed /\ (r.fetch.at = "read" => r.fetch.data = Secrets!Listed)
  /\ r.fetch.at \in {"none", "asked", "read"}

ConsoleTabsInv ==
  /\ issueTab = [t \in Secrets!Tabs |-> issueTab[t]]
  /\ \A t \in Secrets!Tabs : PageShape(issueTab[t]) /\ OneCreation(issueTab[t]) /\ UpToDate(issueTab[t])

\* A secret is known, unseen, or in one answer on its way; a screen shows a known one of its own.
AnswersInv ==
  /\ \A t \in Secrets!Tabs : \A s \in Secrets!Slots : issueTab[t].post[s].at = "done" =>
       issueTab[t].post[s].id \in Secrets!Ids \ (onScreen \cup blind) /\ secretRow[issueTab[t].post[s].id] # "free"
  /\ \A t, z \in Secrets!Tabs : \A s, y \in Secrets!Slots :
       issueTab[t].post[s].at = "done" /\ issueTab[z].post[y].at = "done" /\ issueTab[t].post[s].id = issueTab[z].post[y].id => t = z /\ s = y
ScreensInv ==
  /\ \A t \in Secrets!Tabs : issueTab[t].shown # Secrets!NoId => issueTab[t].shown \in onScreen
  /\ \A t, z \in Secrets!Tabs : t # z => issueTab[t].shown = Secrets!NoId \/ issueTab[t].shown # issueTab[z].shown
IssuedInv ==
  /\ secretRow \in [Secrets!Ids -> {"free", "live", "ended", "used"}]
  /\ onScreen \subseteq Secrets!Ids /\ blind \subseteq Secrets!Ids /\ onScreen \cap blind = {}
  /\ \A i \in onScreen \cup blind : secretRow[i] # "free"
  /\ Secrets!Page.single => \A i, j \in Secrets!Ids : secretRow[i] = "live" /\ secretRow[j] = "live" => i = j
InForceInv ==
  \A i \in Secrets!Ids : secretRow[i] = "live" =>
    i \in onScreen \cup blind \/ \E t \in Secrets!Tabs : \E s \in Secrets!Slots : issueTab[t].post[s].at = "done" /\ issueTab[t].post[s].id = i

SecretsInv == ConsoleTabsInv /\ AnswersInv /\ ScreensInv /\ IssuedInv /\ InForceInv

-----------------------------------------------------------------------------
LEMMA SecretsStart ==
  ASSUME Secrets!Init
  PROVE  SecretsInv
  <1>1. \A s \in Secrets!Slots : Secrets!NoPost = [at |-> "none", id |-> Secrets!NoId, inst |-> 0]
    BY DEF Secrets!NoPost
  <1>2. ConsoleTabsInv
    <2>1. issueTab = [t \in Secrets!Tabs |-> issueTab[t]]
      BY DEF Secrets!Init
    <2>2. ASSUME NEW t \in Secrets!Tabs PROVE PageShape(issueTab[t]) /\ OneCreation(issueTab[t]) /\ UpToDate(issueTab[t])
      <3>1. PICK r : r = [here |-> TRUE, data |-> Secrets!Unread, stale |-> FALSE, fetch |-> Secrets!Asked, behind |-> FALSE, inst |-> 1,
                              open |-> FALSE, filled |-> {}, shown |-> Secrets!NoId, post |-> [s \in Secrets!Slots |-> Secrets!NoPost], del |-> Secrets!NoDel,
                              typed |-> 0, save |-> Secrets!NoSave, stirred |-> FALSE]
        OBVIOUS
      <3>2. issueTab[t] = r
        BY <3>1 DEF Secrets!Init
      <3>3. \A s \in Secrets!Slots : r.post[s] = Secrets!NoPost
        BY <3>1
      <3>4. PageShape(r)
        BY <3>1, <3>3 DEF PageShape, PostShape, Secrets!NoPost
      <3>5. OneCreation(r)
        BY <3>3 DEF OneCreation, Secrets!NoPost
      <3>6. UpToDate(r)
        BY <3>1 DEF UpToDate, Secrets!Asked
      <3> QED BY <3>2, <3>4, <3>5, <3>6
    <2> QED BY <2>1, <2>2 DEF ConsoleTabsInv
  <1>3. \A t \in Secrets!Tabs : issueTab[t].shown = Secrets!NoId /\ \A s \in Secrets!Slots : issueTab[t].post[s].at = "none"
    BY DEF Secrets!Init, Secrets!NoPost
  <1>4. IssuedInv
    BY DEF IssuedInv, Secrets!Init
  <1>5. InForceInv
    BY DEF InForceInv, Secrets!Init
  <1> QED BY <1>2, <1>3, <1>4, <1>5 DEF SecretsInv, AnswersInv, ScreensInv

\* What the answers still under way carry is the same in q as in r.
SameAnswers(q, r) ==
  \A s \in Secrets!Slots : (q.post[s].at = "done" <=> r.post[s].at = "done") /\ (q.post[s].at = "done" => q.post[s].id = r.post[s].id)

\* What a step of tab t, from q to r, does to the screen and to the form.
KeepsScreen(t, q, r) ==
  /\ q.shown # Secrets!NoId /\ r.shown # q.shown => ~r.open /\ r.shown = Secrets!NoId /\ (Secrets!Close(t) \/ Secrets!Leave(t))
  /\ q.typed # 0 /\ r.typed # q.typed => q.stirred \/ ~r.here \/ Secrets!Type(t)

\* A step of one tab that leaves the tables and the secrets alone.
LEMMA QuietStep ==
  ASSUME SecretsInv, NEW t \in Secrets!Tabs, NEW r, Secrets!Set(t, r), UNCHANGED <<issuePlan, Secrets!Stored, Secrets!Known>>,
         PageShape(r), OneCreation(r), UpToDate(r), SameAnswers(r, issueTab[t]), r.shown \in {issueTab[t].shown, Secrets!NoId},
         KeepsScreen(t, issueTab[t], r)
  PROVE  SecretsInv' /\ Secrets!SecretsStep
  <1>0. issuePlan' = issuePlan /\ secretRow' = secretRow /\ settings' = settings /\ onScreen' = onScreen /\ blind' = blind
    BY DEF Secrets!Stored, Secrets!Known
  <1>1. Secrets!Tabs' = Secrets!Tabs /\ Secrets!Listed' = Secrets!Listed /\ Secrets!Page' = Secrets!Page
    BY <1>0 DEF Secrets!Tabs, Secrets!Listed, Secrets!Page
  <1>2. issueTab' = [z \in Secrets!Tabs |-> issueTab'[z]] /\ issueTab'[t] = r /\ \A z \in Secrets!Tabs : z # t => issueTab'[z] = issueTab[z]
    BY DEF Secrets!Set, SecretsInv, ConsoleTabsInv
  <1>3. ConsoleTabsInv'
    <2>1. ASSUME NEW z \in Secrets!Tabs PROVE PageShape(issueTab'[z]) /\ OneCreation(issueTab'[z]) /\ UpToDate(issueTab'[z])
      <3>1. PageShape(issueTab[z]) /\ OneCreation(issueTab[z]) /\ UpToDate(issueTab[z])
        BY DEF SecretsInv, ConsoleTabsInv
      <3> QED BY <1>2, <3>1
    <2>2. \A z \in Secrets!Tabs : UpToDate(issueTab[z])' 
      BY <1>1, <2>1 DEF UpToDate, Unanswered
    <2>3. \A z \in Secrets!Tabs : PageShape(issueTab[z])' /\ OneCreation(issueTab[z])'
      BY <2>1 DEF PageShape, OneCreation
    <2> QED BY <1>1, <1>2, <2>2, <2>3 DEF ConsoleTabsInv
  <1>4. \A z \in Secrets!Tabs : SameAnswers(issueTab'[z], issueTab[z])
    BY <1>2 DEF SameAnswers
  <1>5. AnswersInv'
    BY <1>0, <1>1, <1>4 DEF AnswersInv, SecretsInv, SameAnswers
  <1>6. ScreensInv'
    BY <1>0, <1>1, <1>2 DEF ScreensInv, SecretsInv
  <1>7. IssuedInv'
    BY <1>0, <1>1 DEF IssuedInv, SecretsInv
  <1>8. InForceInv'
    BY <1>0, <1>1, <1>4 DEF InForceInv, SecretsInv, SameAnswers
  <1>9. Secrets!SecretsStep
    BY <1>0, <1>2 DEF Secrets!SecretsStep, KeepsScreen
  <1> QED BY <1>3, <1>5, <1>6, <1>7, <1>8, <1>9 DEF SecretsInv

\* The dialog's creations go on as they were.
LEMMA SameDialog ==
  ASSUME NEW q, NEW r, OneCreation(q), r.post = q.post, r.inst = q.inst, r.shown \in {q.shown, Secrets!NoId}
  PROVE  OneCreation(r) /\ SameAnswers(r, q)
  BY DEF OneCreation, SameAnswers

LEMMA FetchReadKeeps ==
  ASSUME SecretsInv, NEW t \in Secrets!Tabs, Secrets!FetchRead(t)
  PROVE  SecretsInv' /\ Secrets!SecretsStep
  <1>0. PageShape(issueTab[t]) /\ OneCreation(issueTab[t]) /\ UpToDate(issueTab[t])
    BY DEF SecretsInv, ConsoleTabsInv
  <1>1. PICK r : r = [issueTab[t] EXCEPT !.fetch = [at |-> "read", data |-> Secrets!Listed], !.behind = FALSE]
    OBVIOUS
  <1>2. Secrets!Set(t, r) /\ UNCHANGED <<issuePlan, Secrets!Stored, Secrets!Known>> /\ issueTab[t].fetch.at = "asked"
    BY <1>1 DEF Secrets!FetchRead, Secrets!Stored, Secrets!Known
  <1>3. /\ r.fetch = [at |-> "read", data |-> Secrets!Listed] /\ r.behind = FALSE
        /\ r.here = issueTab[t].here /\ r.data = issueTab[t].data /\ r.stale = issueTab[t].stale /\ r.inst = issueTab[t].inst
        /\ r.open = issueTab[t].open /\ r.filled = issueTab[t].filled /\ r.shown = issueTab[t].shown /\ r.post = issueTab[t].post
        /\ r.del = issueTab[t].del /\ r.typed = issueTab[t].typed /\ r.save = issueTab[t].save /\ r.stirred = issueTab[t].stirred
    BY <1>0, <1>1 DEF PageShape
  <1>4. PageShape(r)
    BY <1>0, <1>1, <1>3 DEF PageShape
  <1>5. OneCreation(r) /\ SameAnswers(r, issueTab[t])
    BY <1>0, <1>3, SameDialog
  <1>6. UpToDate(r)
    BY <1>0, <1>2, <1>3 DEF UpToDate, Unanswered, PageShape
  <1>7. KeepsScreen(t, issueTab[t], r)
    BY <1>0, <1>2, <1>3 DEF KeepsScreen, UpToDate
  <1> QED BY <1>2, <1>3, <1>4, <1>5, <1>6, <1>7, QuietStep

LEMMA FetchArriveKeeps ==
  ASSUME SecretsInv, NEW t \in Secrets!Tabs, Secrets!FetchArrive(t)
  PROVE  SecretsInv' /\ Secrets!SecretsStep
  <1>0. PageShape(issueTab[t]) /\ OneCreation(issueTab[t]) /\ UpToDate(issueTab[t])
    BY DEF SecretsInv, ConsoleTabsInv
  <1>1. PICK r : r = [issueTab[t] EXCEPT !.fetch = Secrets!NoFetch, !.data = issueTab[t].fetch.data, !.stale = FALSE,
                              !.typed = (IF issueTab[t].fetch.data = issueTab[t].data THEN issueTab[t].typed ELSE 0)]
    OBVIOUS
  <1>2. Secrets!Set(t, r) /\ UNCHANGED <<issuePlan, Secrets!Stored, Secrets!Known>> /\ issueTab[t].fetch.at = "read"
    BY <1>1 DEF Secrets!FetchArrive, Secrets!Stored, Secrets!Known
  <1>3. /\ r.fetch = Secrets!NoFetch /\ r.data = issueTab[t].fetch.data /\ r.stale = FALSE
        /\ r.typed = (IF issueTab[t].fetch.data = issueTab[t].data THEN issueTab[t].typed ELSE 0)
        /\ r.here = issueTab[t].here /\ r.behind = issueTab[t].behind /\ r.inst = issueTab[t].inst /\ r.open = issueTab[t].open
        /\ r.filled = issueTab[t].filled /\ r.shown = issueTab[t].shown /\ r.post = issueTab[t].post /\ r.del = issueTab[t].del
        /\ r.save = issueTab[t].save /\ r.stirred = issueTab[t].stirred
    BY <1>0, <1>1 DEF PageShape
  <1>4. PageShape(r)
    BY <1>0, <1>1, <1>3 DEF PageShape
  <1>5. OneCreation(r) /\ SameAnswers(r, issueTab[t])
    BY <1>0, <1>3, SameDialog
  <1>6. UpToDate(r)
    BY <1>0, <1>2, <1>3 DEF UpToDate, Unanswered, PageShape, Secrets!NoFetch
  <1>7. KeepsScreen(t, issueTab[t], r)
    BY <1>0, <1>2, <1>3 DEF KeepsScreen, UpToDate, Secrets!NoFetch
  <1> QED BY <1>2, <1>3, <1>4, <1>5, <1>6, <1>7, QuietStep

LEMMA FetchFailsKeeps ==
  ASSUME SecretsInv, NEW t \in Secrets!Tabs, Secrets!FetchFails(t)
  PROVE  SecretsInv' /\ Secrets!SecretsStep
  <1>0. PageShape(issueTab[t]) /\ OneCreation(issueTab[t]) /\ UpToDate(issueTab[t])
    BY DEF SecretsInv, ConsoleTabsInv
  <1>1. PICK r : r = [issueTab[t] EXCEPT !.fetch = Secrets!NoFetch, !.behind = TRUE]
    OBVIOUS
  <1>2. Secrets!Set(t, r) /\ UNCHANGED <<issuePlan, Secrets!Stored, Secrets!Known>> /\ TRUE
    BY <1>1 DEF Secrets!FetchFails, Secrets!Stored, Secrets!Known
  <1>3. /\ r.fetch = Secrets!NoFetch /\ r.behind = TRUE
        /\ r.here = issueTab[t].here /\ r.data = issueTab[t].data /\ r.stale = issueTab[t].stale /\ r.inst = issueTab[t].inst
        /\ r.open = issueTab[t].open /\ r.filled = issueTab[t].filled /\ r.shown = issueTab[t].shown /\ r.post = issueTab[t].post
        /\ r.del = issueTab[t].del /\ r.typed = issueTab[t].typed /\ r.save = issueTab[t].save /\ r.stirred = issueTab[t].stirred
    BY <1>0, <1>1 DEF PageShape
  <1>4. PageShape(r)
    BY <1>0, <1>1, <1>3 DEF PageShape
  <1>5. OneCreation(r) /\ SameAnswers(r, issueTab[t])
    BY <1>0, <1>3, SameDialog
  <1>6. UpToDate(r)
    BY <1>0, <1>2, <1>3 DEF UpToDate, Unanswered, PageShape, Secrets!NoFetch
  <1>7. KeepsScreen(t, issueTab[t], r)
    BY <1>0, <1>2, <1>3 DEF KeepsScreen, UpToDate, Secrets!NoFetch
  <1> QED BY <1>2, <1>3, <1>4, <1>5, <1>6, <1>7, QuietStep

LEMMA OpenDialogKeeps ==
  ASSUME SecretsInv, NEW t \in Secrets!Tabs, Secrets!OpenDialog(t)
  PROVE  SecretsInv' /\ Secrets!SecretsStep
  <1>0. PageShape(issueTab[t]) /\ OneCreation(issueTab[t]) /\ UpToDate(issueTab[t])
    BY DEF SecretsInv, ConsoleTabsInv
  <1>1. PICK r : r = [issueTab[t] EXCEPT !.open = TRUE, !.inst = issueTab[t].inst + 1, !.filled = {}]
    OBVIOUS
  <1>2. Secrets!Set(t, r) /\ UNCHANGED <<issuePlan, Secrets!Stored, Secrets!Known>> /\ ~issueTab[t].open
    BY <1>1 DEF Secrets!OpenDialog, Secrets!Stored, Secrets!Known
  <1>3. /\ r.open = TRUE /\ r.inst = issueTab[t].inst + 1 /\ r.filled = {}
        /\ r.here = issueTab[t].here /\ r.data = issueTab[t].data /\ r.stale = issueTab[t].stale /\ r.fetch = issueTab[t].fetch
        /\ r.behind = issueTab[t].behind /\ r.shown = issueTab[t].shown /\ r.post = issueTab[t].post /\ r.del = issueTab[t].del
        /\ r.typed = issueTab[t].typed /\ r.save = issueTab[t].save /\ r.stirred = issueTab[t].stirred
    BY <1>0, <1>1 DEF PageShape
  <1>a. issueTab[t].inst \in Nat /\ r.inst \in Nat
    BY <1>0, <1>3 DEF PageShape
  <1>b. \A s \in Secrets!Slots : issueTab[t].post[s].at # "none" => issueTab[t].post[s].inst <= r.inst /\ issueTab[t].post[s].inst # r.inst
    <2>1. \A s \in Secrets!Slots : issueTab[t].post[s].inst \in Nat
      BY <1>0 DEF PageShape, PostShape
    <2>2. \A s \in Secrets!Slots : issueTab[t].post[s].at # "none" => issueTab[t].post[s].inst <= issueTab[t].inst
      BY <1>0 DEF OneCreation
    <2>3. r.inst = issueTab[t].inst + 1
      BY <1>3
    <2> QED BY <1>a, <2>1, <2>2, <2>3
  <1>4. PageShape(r)
    <2>1. r = [here |-> r.here, data |-> r.data, stale |-> r.stale, fetch |-> r.fetch, behind |-> r.behind, inst |-> r.inst,
          open |-> r.open, filled |-> r.filled, shown |-> r.shown, post |-> r.post, del |-> r.del,
          typed |-> r.typed, save |-> r.save, stirred |-> r.stirred]
      BY <1>0, <1>1 DEF PageShape
    <2> QED BY <1>0, <1>3, <1>a, <2>1 DEF PageShape
  <1>5. OneCreation(r) /\ SameAnswers(r, issueTab[t])
    BY <1>b, <1>3 DEF OneCreation, SameAnswers
  <1>6. UpToDate(r)
    BY <1>0, <1>2, <1>3 DEF UpToDate, Unanswered, PageShape
  <1>7. KeepsScreen(t, issueTab[t], r)
    BY <1>0, <1>2, <1>3 DEF KeepsScreen, UpToDate
  <1> QED BY <1>2, <1>3, <1>4, <1>5, <1>6, <1>7, QuietStep

LEMMA FillKeeps ==
  ASSUME SecretsInv, NEW t \in Secrets!Tabs, NEW field, Secrets!Fill(t, field)
  PROVE  SecretsInv' /\ Secrets!SecretsStep
  <1>0. PageShape(issueTab[t]) /\ OneCreation(issueTab[t]) /\ UpToDate(issueTab[t])
    BY DEF SecretsInv, ConsoleTabsInv
  <1>1. PICK r : r = [issueTab[t] EXCEPT !.filled = issueTab[t].filled \cup {field}]
    OBVIOUS
  <1>2. Secrets!Set(t, r) /\ UNCHANGED <<issuePlan, Secrets!Stored, Secrets!Known>> /\ TRUE
    BY <1>1 DEF Secrets!Fill, Secrets!Stored, Secrets!Known
  <1>3. /\ r.filled = issueTab[t].filled \cup {field}
        /\ r.here = issueTab[t].here /\ r.data = issueTab[t].data /\ r.stale = issueTab[t].stale /\ r.fetch = issueTab[t].fetch
        /\ r.behind = issueTab[t].behind /\ r.inst = issueTab[t].inst /\ r.open = issueTab[t].open /\ r.shown = issueTab[t].shown
        /\ r.post = issueTab[t].post /\ r.del = issueTab[t].del /\ r.typed = issueTab[t].typed /\ r.save = issueTab[t].save
        /\ r.stirred = issueTab[t].stirred
    BY <1>0, <1>1 DEF PageShape
  <1>4. PageShape(r)
    BY <1>0, <1>1, <1>3 DEF PageShape
  <1>5. OneCreation(r) /\ SameAnswers(r, issueTab[t])
    BY <1>0, <1>3, SameDialog
  <1>6. UpToDate(r)
    BY <1>0, <1>2, <1>3 DEF UpToDate, Unanswered, PageShape
  <1>7. KeepsScreen(t, issueTab[t], r)
    BY <1>0, <1>2, <1>3 DEF KeepsScreen, UpToDate
  <1> QED BY <1>2, <1>3, <1>4, <1>5, <1>6, <1>7, QuietStep

LEMMA CloseDialogKeeps ==
  ASSUME SecretsInv, NEW t \in Secrets!Tabs, Secrets!Close(t)
  PROVE  SecretsInv' /\ Secrets!SecretsStep
  <1>0. PageShape(issueTab[t]) /\ OneCreation(issueTab[t]) /\ UpToDate(issueTab[t])
    BY DEF SecretsInv, ConsoleTabsInv
  <1>1. PICK r : r = [issueTab[t] EXCEPT !.open = FALSE, !.shown = Secrets!NoId, !.filled = {}]
    OBVIOUS
  <1>2. Secrets!Set(t, r) /\ UNCHANGED <<issuePlan, Secrets!Stored, Secrets!Known>> /\ Secrets!Close(t)
    BY <1>1 DEF Secrets!Close, Secrets!Stored, Secrets!Known
  <1>3. /\ r.open = FALSE /\ r.shown = Secrets!NoId /\ r.filled = {}
        /\ r.here = issueTab[t].here /\ r.data = issueTab[t].data /\ r.stale = issueTab[t].stale /\ r.fetch = issueTab[t].fetch
        /\ r.behind = issueTab[t].behind /\ r.inst = issueTab[t].inst /\ r.post = issueTab[t].post /\ r.del = issueTab[t].del
        /\ r.typed = issueTab[t].typed /\ r.save = issueTab[t].save /\ r.stirred = issueTab[t].stirred
    BY <1>0, <1>1 DEF PageShape
  <1>4. PageShape(r)
    BY <1>0, <1>1, <1>3 DEF PageShape
  <1>5. OneCreation(r) /\ SameAnswers(r, issueTab[t])
    BY <1>0, <1>3, SameDialog
  <1>6. UpToDate(r)
    BY <1>0, <1>2, <1>3 DEF UpToDate, Unanswered, PageShape
  <1>7. KeepsScreen(t, issueTab[t], r)
    BY <1>0, <1>2, <1>3 DEF KeepsScreen, UpToDate
  <1> QED BY <1>2, <1>3, <1>4, <1>5, <1>6, <1>7, QuietStep

LEMMA AskRemoveKeeps ==
  ASSUME SecretsInv, NEW t \in Secrets!Tabs, NEW id \in Secrets!Ids, Secrets!AskRemove(t, id)
  PROVE  SecretsInv' /\ Secrets!SecretsStep
  <1>0. PageShape(issueTab[t]) /\ OneCreation(issueTab[t]) /\ UpToDate(issueTab[t])
    BY DEF SecretsInv, ConsoleTabsInv
  <1>1. PICK r : r = [issueTab[t] EXCEPT !.del = [at |-> "sent", id |-> id]]
    OBVIOUS
  <1>2. Secrets!Set(t, r) /\ UNCHANGED <<issuePlan, Secrets!Stored, Secrets!Known>> /\ issueTab[t].del.at = "none"
    BY <1>1 DEF Secrets!AskRemove, Secrets!Stored, Secrets!Known
  <1>3. /\ r.del = [at |-> "sent", id |-> id]
        /\ r.here = issueTab[t].here /\ r.data = issueTab[t].data /\ r.stale = issueTab[t].stale /\ r.fetch = issueTab[t].fetch
        /\ r.behind = issueTab[t].behind /\ r.inst = issueTab[t].inst /\ r.open = issueTab[t].open /\ r.filled = issueTab[t].filled
        /\ r.shown = issueTab[t].shown /\ r.post = issueTab[t].post /\ r.typed = issueTab[t].typed /\ r.save = issueTab[t].save
        /\ r.stirred = issueTab[t].stirred
    BY <1>0, <1>1 DEF PageShape
  <1>4. PageShape(r)
    BY <1>0, <1>1, <1>3 DEF PageShape
  <1>5. OneCreation(r) /\ SameAnswers(r, issueTab[t])
    BY <1>0, <1>3, SameDialog
  <1>6. UpToDate(r)
    BY <1>0, <1>2, <1>3 DEF UpToDate, Unanswered, PageShape
  <1>7. KeepsScreen(t, issueTab[t], r)
    BY <1>0, <1>2, <1>3 DEF KeepsScreen, UpToDate
  <1> QED BY <1>2, <1>3, <1>4, <1>5, <1>6, <1>7, QuietStep

LEMMA SaveKeeps ==
  ASSUME SecretsInv, NEW t \in Secrets!Tabs, Secrets!Save(t)
  PROVE  SecretsInv' /\ Secrets!SecretsStep
  <1>0. PageShape(issueTab[t]) /\ OneCreation(issueTab[t]) /\ UpToDate(issueTab[t])
    BY DEF SecretsInv, ConsoleTabsInv
  <1>1. PICK r : r = [issueTab[t] EXCEPT !.save = [at |-> "sent", val |-> IF issueTab[t].typed = 0 THEN issueTab[t].data.settings.val ELSE issueTab[t].typed]]
    OBVIOUS
  <1>2. Secrets!Set(t, r) /\ UNCHANGED <<issuePlan, Secrets!Stored, Secrets!Known>> /\ issueTab[t].save.at = "none"
    BY <1>1 DEF Secrets!Save, Secrets!Stored, Secrets!Known
  <1>3. /\ r.save = [at |-> "sent", val |-> IF issueTab[t].typed = 0 THEN issueTab[t].data.settings.val ELSE issueTab[t].typed]
        /\ r.here = issueTab[t].here /\ r.data = issueTab[t].data /\ r.stale = issueTab[t].stale /\ r.fetch = issueTab[t].fetch
        /\ r.behind = issueTab[t].behind /\ r.inst = issueTab[t].inst /\ r.open = issueTab[t].open /\ r.filled = issueTab[t].filled
        /\ r.shown = issueTab[t].shown /\ r.post = issueTab[t].post /\ r.del = issueTab[t].del /\ r.typed = issueTab[t].typed
        /\ r.stirred = issueTab[t].stirred
    BY <1>0, <1>1 DEF PageShape
  <1>4. PageShape(r)
    BY <1>0, <1>1, <1>3 DEF PageShape
  <1>5. OneCreation(r) /\ SameAnswers(r, issueTab[t])
    BY <1>0, <1>3, SameDialog
  <1>6. UpToDate(r)
    BY <1>0, <1>2, <1>3 DEF UpToDate, Unanswered, PageShape
  <1>7. KeepsScreen(t, issueTab[t], r)
    BY <1>0, <1>2, <1>3 DEF KeepsScreen, UpToDate
  <1> QED BY <1>2, <1>3, <1>4, <1>5, <1>6, <1>7, QuietStep

LEMMA TypeSettingsKeeps ==
  ASSUME SecretsInv, NEW t \in Secrets!Tabs, Secrets!Type(t)
  PROVE  SecretsInv' /\ Secrets!SecretsStep
  <1>0. PageShape(issueTab[t]) /\ OneCreation(issueTab[t]) /\ UpToDate(issueTab[t])
    BY DEF SecretsInv, ConsoleTabsInv
  <1>1. PICK r : r = [issueTab[t] EXCEPT !.typed = issueUsed.edits + 1,
                              !.stirred = ((issueTab[t].stirred /\ issueTab[t].typed # 0) \/ issueTab[t].fetch.at # "none" \/ issueTab[t].data # Secrets!Listed)]
    OBVIOUS
  <1>2. Secrets!Set(t, r) /\ UNCHANGED <<issuePlan, Secrets!Stored, Secrets!Known>> /\ Secrets!Type(t)
    BY <1>1 DEF Secrets!Type, Secrets!Stored, Secrets!Known
  <1>3. /\ r.typed = issueUsed.edits + 1
        /\ r.stirred = ((issueTab[t].stirred /\ issueTab[t].typed # 0) \/ issueTab[t].fetch.at # "none" \/ issueTab[t].data # Secrets!Listed)
        /\ r.here = issueTab[t].here /\ r.data = issueTab[t].data /\ r.stale = issueTab[t].stale /\ r.fetch = issueTab[t].fetch
        /\ r.behind = issueTab[t].behind /\ r.inst = issueTab[t].inst /\ r.open = issueTab[t].open /\ r.filled = issueTab[t].filled
        /\ r.shown = issueTab[t].shown /\ r.post = issueTab[t].post /\ r.del = issueTab[t].del /\ r.save = issueTab[t].save
    BY <1>0, <1>1 DEF PageShape
  <1>4. PageShape(r)
    BY <1>0, <1>1, <1>3 DEF PageShape
  <1>5. OneCreation(r) /\ SameAnswers(r, issueTab[t])
    BY <1>0, <1>3, SameDialog
  <1>6. UpToDate(r)
    BY <1>0, <1>2, <1>3 DEF UpToDate, Unanswered, PageShape
  <1>7. KeepsScreen(t, issueTab[t], r)
    BY <1>0, <1>2, <1>3 DEF KeepsScreen, UpToDate
  <1> QED BY <1>2, <1>3, <1>4, <1>5, <1>6, <1>7, QuietStep

LEMMA LoseRemoveKeeps ==
  ASSUME SecretsInv, NEW t \in Secrets!Tabs, Secrets!LoseRemove(t)
  PROVE  SecretsInv' /\ Secrets!SecretsStep
  <1>0. PageShape(issueTab[t]) /\ OneCreation(issueTab[t]) /\ UpToDate(issueTab[t])
    BY DEF SecretsInv, ConsoleTabsInv
  <1>1. PICK r : r = [issueTab[t] EXCEPT !.del = Secrets!NoDel, !.behind = (issueTab[t].behind \/ issueTab[t].del.at = "ok")]
    OBVIOUS
  <1>2. Secrets!Set(t, r) /\ UNCHANGED <<issuePlan, Secrets!Stored, Secrets!Known>> /\ TRUE
    BY <1>1 DEF Secrets!LoseRemove, Secrets!Stored, Secrets!Known
  <1>3. /\ r.del = Secrets!NoDel /\ r.behind = (issueTab[t].behind \/ issueTab[t].del.at = "ok")
        /\ r.here = issueTab[t].here /\ r.data = issueTab[t].data /\ r.stale = issueTab[t].stale /\ r.fetch = issueTab[t].fetch
        /\ r.inst = issueTab[t].inst /\ r.open = issueTab[t].open /\ r.filled = issueTab[t].filled /\ r.shown = issueTab[t].shown
        /\ r.post = issueTab[t].post /\ r.typed = issueTab[t].typed /\ r.save = issueTab[t].save /\ r.stirred = issueTab[t].stirred
    BY <1>0, <1>1 DEF PageShape
  <1>4. PageShape(r)
    BY <1>0, <1>1, <1>3 DEF PageShape
  <1>5. OneCreation(r) /\ SameAnswers(r, issueTab[t])
    BY <1>0, <1>3, SameDialog
  <1>6. UpToDate(r)
    BY <1>0, <1>2, <1>3 DEF UpToDate, Unanswered, PageShape, Secrets!NoDel
  <1>7. KeepsScreen(t, issueTab[t], r)
    BY <1>0, <1>2, <1>3 DEF KeepsScreen, UpToDate, Secrets!NoDel
  <1> QED BY <1>2, <1>3, <1>4, <1>5, <1>6, <1>7, QuietStep

LEMMA LoseSaveKeeps ==
  ASSUME SecretsInv, NEW t \in Secrets!Tabs, Secrets!LoseSave(t)
  PROVE  SecretsInv' /\ Secrets!SecretsStep
  <1>0. PageShape(issueTab[t]) /\ OneCreation(issueTab[t]) /\ UpToDate(issueTab[t])
    BY DEF SecretsInv, ConsoleTabsInv
  <1>1. PICK r : r = [issueTab[t] EXCEPT !.save = Secrets!NoSave, !.behind = (issueTab[t].behind \/ issueTab[t].save.at = "ok")]
    OBVIOUS
  <1>2. Secrets!Set(t, r) /\ UNCHANGED <<issuePlan, Secrets!Stored, Secrets!Known>> /\ TRUE
    BY <1>1 DEF Secrets!LoseSave, Secrets!Stored, Secrets!Known
  <1>3. /\ r.save = Secrets!NoSave /\ r.behind = (issueTab[t].behind \/ issueTab[t].save.at = "ok")
        /\ r.here = issueTab[t].here /\ r.data = issueTab[t].data /\ r.stale = issueTab[t].stale /\ r.fetch = issueTab[t].fetch
        /\ r.inst = issueTab[t].inst /\ r.open = issueTab[t].open /\ r.filled = issueTab[t].filled /\ r.shown = issueTab[t].shown
        /\ r.post = issueTab[t].post /\ r.del = issueTab[t].del /\ r.typed = issueTab[t].typed /\ r.stirred = issueTab[t].stirred
    BY <1>0, <1>1 DEF PageShape
  <1>4. PageShape(r)
    BY <1>0, <1>1, <1>3 DEF PageShape
  <1>5. OneCreation(r) /\ SameAnswers(r, issueTab[t])
    BY <1>0, <1>3, SameDialog
  <1>6. UpToDate(r)
    BY <1>0, <1>2, <1>3 DEF UpToDate, Unanswered, PageShape, Secrets!NoSave
  <1>7. KeepsScreen(t, issueTab[t], r)
    BY <1>0, <1>2, <1>3 DEF KeepsScreen, UpToDate, Secrets!NoSave
  <1> QED BY <1>2, <1>3, <1>4, <1>5, <1>6, <1>7, QuietStep

LEMMA LeaveKeeps ==
  ASSUME SecretsInv, NEW t \in Secrets!Tabs, Secrets!Leave(t)
  PROVE  SecretsInv' /\ Secrets!SecretsStep
  <1>0. PageShape(issueTab[t]) /\ OneCreation(issueTab[t]) /\ UpToDate(issueTab[t])
    BY DEF SecretsInv, ConsoleTabsInv
  <1>1. PICK r : r = [issueTab[t] EXCEPT !.here = FALSE, !.open = FALSE, !.shown = Secrets!NoId, !.filled = {}, !.typed = 0, !.inst = issueTab[t].inst + 1]
    OBVIOUS
  <1>2. Secrets!Set(t, r) /\ UNCHANGED <<issuePlan, Secrets!Stored, Secrets!Known>> /\ Secrets!Leave(t)
    BY <1>1 DEF Secrets!Leave, Secrets!Stored, Secrets!Known
  <1>3. /\ r.here = FALSE /\ r.open = FALSE /\ r.shown = Secrets!NoId /\ r.filled = {} /\ r.typed = 0 /\ r.inst = issueTab[t].inst + 1
        /\ r.data = issueTab[t].data /\ r.stale = issueTab[t].stale /\ r.fetch = issueTab[t].fetch /\ r.behind = issueTab[t].behind
        /\ r.post = issueTab[t].post /\ r.del = issueTab[t].del /\ r.save = issueTab[t].save /\ r.stirred = issueTab[t].stirred
    BY <1>0, <1>1 DEF PageShape
  <1>a. issueTab[t].inst \in Nat /\ r.inst \in Nat
    BY <1>0, <1>3 DEF PageShape
  <1>b. \A s \in Secrets!Slots : issueTab[t].post[s].at # "none" => issueTab[t].post[s].inst <= r.inst /\ issueTab[t].post[s].inst # r.inst
    <2>1. \A s \in Secrets!Slots : issueTab[t].post[s].inst \in Nat
      BY <1>0 DEF PageShape, PostShape
    <2>2. \A s \in Secrets!Slots : issueTab[t].post[s].at # "none" => issueTab[t].post[s].inst <= issueTab[t].inst
      BY <1>0 DEF OneCreation
    <2>3. r.inst = issueTab[t].inst + 1
      BY <1>3
    <2> QED BY <1>a, <2>1, <2>2, <2>3
  <1>4. PageShape(r)
    <2>1. r = [here |-> r.here, data |-> r.data, stale |-> r.stale, fetch |-> r.fetch, behind |-> r.behind, inst |-> r.inst,
          open |-> r.open, filled |-> r.filled, shown |-> r.shown, post |-> r.post, del |-> r.del,
          typed |-> r.typed, save |-> r.save, stirred |-> r.stirred]
      BY <1>0, <1>1 DEF PageShape
    <2> QED BY <1>0, <1>3, <1>a, <2>1 DEF PageShape
  <1>5. OneCreation(r) /\ SameAnswers(r, issueTab[t])
    BY <1>b, <1>3 DEF OneCreation, SameAnswers
  <1>6. UpToDate(r)
    BY <1>0, <1>2, <1>3 DEF UpToDate, Unanswered, PageShape
  <1>7. KeepsScreen(t, issueTab[t], r)
    BY <1>0, <1>2, <1>3 DEF KeepsScreen, UpToDate
  <1> QED BY <1>2, <1>3, <1>4, <1>5, <1>6, <1>7, QuietStep

\* After a write is answered: the list is asked for again, marked, or its first fetch joined.
LEMMA Invalidated ==
  ASSUME NEW q, PageShape(q), q.here => ~q.stale, q.fetch.at \in {"none", "asked", "read"},
         q.typed # 0 /\ ~q.stirred => q.data = Secrets!Listed /\ (q.fetch.at = "read" => q.fetch.data = Secrets!Listed),
         NEW r, r = Secrets!Invalidate(q)
  PROVE  /\ PageShape(r) /\ UpToDate(r)
         /\ r.post = q.post /\ r.inst = q.inst /\ r.shown = q.shown /\ r.open = q.open /\ r.typed = q.typed
         /\ r.here = q.here /\ r.stirred = q.stirred
  <1>1. CASE q.here /\ (q.data # Secrets!Unread \/ q.fetch.at = "none")
    <2>1. r = [q EXCEPT !.fetch = Secrets!Asked]
      BY <1>1 DEF Secrets!Invalidate
    <2>2. /\ r.fetch.at = "asked" /\ r.stale = q.stale /\ r.behind = q.behind /\ r.data = q.data
          /\ r.post = q.post /\ r.inst = q.inst /\ r.shown = q.shown /\ r.open = q.open /\ r.typed = q.typed
          /\ r.here = q.here /\ r.stirred = q.stirred
      BY <2>1 DEF PageShape, Secrets!Asked
    <2>3. PageShape(r)
      BY <2>1, <2>2 DEF PageShape
    <2> QED BY <1>1, <2>2, <2>3 DEF UpToDate
  <1>2. CASE ~(q.here /\ (q.data # Secrets!Unread \/ q.fetch.at = "none"))
    <2>1. r = [q EXCEPT !.stale = ~q.here, !.behind = (q.behind \/ q.fetch.at = "read")]
      BY <1>2 DEF Secrets!Invalidate
    <2>2. /\ r.fetch = q.fetch /\ r.stale = ~q.here /\ r.behind = (q.behind \/ q.fetch.at = "read") /\ r.data = q.data
          /\ r.post = q.post /\ r.inst = q.inst /\ r.shown = q.shown /\ r.open = q.open /\ r.typed = q.typed
          /\ r.here = q.here /\ r.stirred = q.stirred
      BY <2>1 DEF PageShape
    <2>3. PageShape(r)
      BY <2>1, <2>2 DEF PageShape
    <2> QED BY <1>2, <2>2, <2>3 DEF UpToDate
  <1> QED BY <1>1, <1>2

LEMMA AnswerSaveKeeps ==
  ASSUME SecretsInv, NEW t \in Secrets!Tabs, Secrets!AnswerSave(t)
  PROVE  SecretsInv' /\ Secrets!SecretsStep
  <1>0. PageShape(issueTab[t]) /\ OneCreation(issueTab[t]) /\ UpToDate(issueTab[t])
    BY DEF SecretsInv, ConsoleTabsInv
  <1>1. PICK q : q = [issueTab[t] EXCEPT !.save = Secrets!NoSave]
    OBVIOUS
  <1>2. PageShape(q)
    BY <1>0, <1>1 DEF PageShape
  <1>3. /\ q.here = issueTab[t].here /\ q.stale = issueTab[t].stale /\ q.fetch = issueTab[t].fetch /\ q.typed = issueTab[t].typed
        /\ q.stirred = issueTab[t].stirred /\ q.data = issueTab[t].data /\ q.post = issueTab[t].post /\ q.inst = issueTab[t].inst
        /\ q.shown = issueTab[t].shown /\ q.open = issueTab[t].open /\ q.behind = issueTab[t].behind
    BY <1>0, <1>1 DEF PageShape
  <1>4. PICK r : r = Secrets!Invalidate(q)
    OBVIOUS
  <1>5. Secrets!Set(t, r) /\ UNCHANGED <<issuePlan, Secrets!Stored, Secrets!Known>>
    BY <1>1, <1>4 DEF Secrets!AnswerSave, Secrets!Stored, Secrets!Known
  <1>6. /\ PageShape(r) /\ UpToDate(r)
        /\ r.post = q.post /\ r.inst = q.inst /\ r.shown = q.shown /\ r.open = q.open /\ r.typed = q.typed
        /\ r.here = q.here /\ r.stirred = q.stirred
    BY <1>0, <1>2, <1>3, <1>4, Invalidated DEF UpToDate
  <1>7. OneCreation(r) /\ SameAnswers(r, issueTab[t])
    BY <1>0, <1>3, <1>6, SameDialog
  <1>8. KeepsScreen(t, issueTab[t], r)
    BY <1>3, <1>6 DEF KeepsScreen
  <1> QED BY <1>3, <1>5, <1>6, <1>7, <1>8, QuietStep

LEMMA AnswerRemoveKeeps ==
  ASSUME SecretsInv, NEW t \in Secrets!Tabs, Secrets!AnswerRemove(t)
  PROVE  SecretsInv' /\ Secrets!SecretsStep
  <1>0. PageShape(issueTab[t]) /\ OneCreation(issueTab[t]) /\ UpToDate(issueTab[t])
    BY DEF SecretsInv, ConsoleTabsInv
  <1>1. PICK q : q = [issueTab[t] EXCEPT !.del = Secrets!NoDel]
    OBVIOUS
  <1>2. PageShape(q)
    BY <1>0, <1>1 DEF PageShape
  <1>3. /\ q.here = issueTab[t].here /\ q.stale = issueTab[t].stale /\ q.fetch = issueTab[t].fetch /\ q.typed = issueTab[t].typed
        /\ q.stirred = issueTab[t].stirred /\ q.data = issueTab[t].data /\ q.post = issueTab[t].post /\ q.inst = issueTab[t].inst
        /\ q.shown = issueTab[t].shown /\ q.open = issueTab[t].open /\ q.behind = issueTab[t].behind
    BY <1>0, <1>1 DEF PageShape
  <1>4. PICK r : r = IF issueTab[t].del.at = "ok" THEN Secrets!Invalidate(q) ELSE q
    OBVIOUS
  <1>5. Secrets!Set(t, r) /\ UNCHANGED <<issuePlan, Secrets!Stored, Secrets!Known>>
    BY <1>1, <1>4 DEF Secrets!AnswerRemove, Secrets!Stored, Secrets!Known
  <1>6. /\ PageShape(r) /\ UpToDate(r)
        /\ r.post = q.post /\ r.inst = q.inst /\ r.shown = q.shown /\ r.open = q.open /\ r.typed = q.typed
        /\ r.here = q.here /\ r.stirred = q.stirred
    <2>1. CASE issueTab[t].del.at = "ok"
      BY <1>0, <1>2, <1>3, <1>4, <2>1, Invalidated DEF UpToDate
    <2>2. CASE issueTab[t].del.at # "ok"
      <3>1. q.save = issueTab[t].save /\ q.del.at # "ok"
        BY <1>0, <1>1 DEF PageShape, Secrets!NoDel
      <3>2. r = q
        BY <1>4, <2>2
      <3>3. UpToDate(q)
        BY <1>0, <1>3, <2>2, <3>1 DEF UpToDate, Unanswered
      <3> QED BY <1>2, <3>2, <3>3
    <2> QED BY <2>1, <2>2
  <1>7. OneCreation(r) /\ SameAnswers(r, issueTab[t])
    BY <1>0, <1>3, <1>6, SameDialog
  <1>8. KeepsScreen(t, issueTab[t], r)
    BY <1>3, <1>6 DEF KeepsScreen
  <1> QED BY <1>3, <1>5, <1>6, <1>7, <1>8, QuietStep

LEMMA ReturnKeeps ==
  ASSUME SecretsInv, NEW t \in Secrets!Tabs, Secrets!Return(t)
  PROVE  SecretsInv' /\ Secrets!SecretsStep
  <1>0. PageShape(issueTab[t]) /\ OneCreation(issueTab[t]) /\ UpToDate(issueTab[t])
    BY DEF SecretsInv, ConsoleTabsInv
  <1>1. PICK q : q = [issueTab[t] EXCEPT !.here = TRUE, !.stale = FALSE]
    OBVIOUS
  <1>2. PICK r : /\ Secrets!Set(t, r) /\ UNCHANGED <<issuePlan, Secrets!Stored, Secrets!Known>>
                 /\ \/ r = IF q.fetch.at = "none" THEN [q EXCEPT !.fetch = Secrets!Asked] ELSE q
                    \/ ~issueTab[t].stale /\ r = q
    BY <1>1 DEF Secrets!Return, Secrets!Stored, Secrets!Known
  <1>3. /\ PageShape(q) /\ q.here = TRUE /\ q.stale = FALSE /\ q.fetch = issueTab[t].fetch /\ q.typed = issueTab[t].typed
        /\ q.stirred = issueTab[t].stirred /\ q.data = issueTab[t].data /\ q.post = issueTab[t].post /\ q.inst = issueTab[t].inst
        /\ q.shown = issueTab[t].shown /\ q.open = issueTab[t].open /\ q.behind = issueTab[t].behind /\ q.del = issueTab[t].del /\ q.save = issueTab[t].save
    BY <1>0, <1>1 DEF PageShape
  <1>4. PICK f : (f = q.fetch \/ (q.fetch.at = "none" /\ f = Secrets!Asked)) /\ (f.at = "none" => ~issueTab[t].stale) /\ r = [q EXCEPT !.fetch = f]
    <2>1. q = [q EXCEPT !.fetch = q.fetch]
      BY <1>3 DEF PageShape
    <2>2. Secrets!Asked.at # "none"
      BY DEF Secrets!Asked
    <2>3. CASE r = q /\ (q.fetch.at = "none" => ~issueTab[t].stale)
      BY <2>1, <2>3
    <2>4. CASE r = [q EXCEPT !.fetch = Secrets!Asked] /\ q.fetch.at = "none"
      BY <2>2, <2>4
    <2> QED BY <1>2, <2>3, <2>4
  <1>5. /\ PageShape(r) /\ r.here = TRUE /\ r.stale = FALSE /\ r.fetch = f /\ r.typed = issueTab[t].typed
        /\ r.stirred = issueTab[t].stirred /\ r.data = issueTab[t].data /\ r.post = issueTab[t].post /\ r.inst = issueTab[t].inst
        /\ r.shown = issueTab[t].shown /\ r.open = issueTab[t].open /\ r.behind = issueTab[t].behind /\ r.del = issueTab[t].del
        /\ r.save = issueTab[t].save
    BY <1>3, <1>4 DEF PageShape
  <1>6. OneCreation(r) /\ SameAnswers(r, issueTab[t])
    BY <1>0, <1>5, SameDialog
  <1>7. UpToDate(r)
    BY <1>0, <1>3, <1>4, <1>5 DEF UpToDate, Unanswered, Secrets!Asked
  <1>8. KeepsScreen(t, issueTab[t], r)
    BY <1>5 DEF KeepsScreen
  <1> QED BY <1>2, <1>5, <1>6, <1>7, <1>8, QuietStep

\* A slot of the tab is given another creation.
LEMMA PostSet ==
  ASSUME NEW t, PageShape(issueTab[t]), NEW s \in Secrets!Slots, NEW p, PostShape(p), NEW r, r = Secrets!SetPost(t, s, p)
  PROVE  /\ PageShape(r) /\ r.post[s] = p /\ \A z \in Secrets!Slots : z # s => r.post[z] = issueTab[t].post[z]
         /\ r.here = issueTab[t].here /\ r.stale = issueTab[t].stale /\ r.fetch = issueTab[t].fetch /\ r.typed = issueTab[t].typed
         /\ r.stirred = issueTab[t].stirred /\ r.data = issueTab[t].data /\ r.inst = issueTab[t].inst /\ r.shown = issueTab[t].shown
         /\ r.open = issueTab[t].open /\ r.behind = issueTab[t].behind /\ r.del = issueTab[t].del /\ r.save = issueTab[t].save
  <1>1. PICK c : c = [issueTab[t].post EXCEPT ![s] = p]
    OBVIOUS
  <1>2. c = [z \in Secrets!Slots |-> c[z]] /\ c[s] = p /\ \A z \in Secrets!Slots : z # s => c[z] = issueTab[t].post[z]
    BY <1>1 DEF PageShape
  <1>3. r = [issueTab[t] EXCEPT !.post = c]
    BY <1>1 DEF Secrets!SetPost
  <1>4. /\ r.post = c
        /\ r.here = issueTab[t].here /\ r.stale = issueTab[t].stale /\ r.fetch = issueTab[t].fetch /\ r.typed = issueTab[t].typed
        /\ r.stirred = issueTab[t].stirred /\ r.data = issueTab[t].data /\ r.inst = issueTab[t].inst /\ r.shown = issueTab[t].shown
        /\ r.open = issueTab[t].open /\ r.behind = issueTab[t].behind /\ r.del = issueTab[t].del /\ r.save = issueTab[t].save
    BY <1>3 DEF PageShape
  <1>5. \A z \in Secrets!Slots : PostShape(c[z])
    BY <1>2 DEF PageShape
  <1>6. PageShape(r)
    BY <1>2, <1>3, <1>4, <1>5 DEF PageShape
  <1> QED BY <1>2, <1>4, <1>6

LEMMA SubmitDialogKeeps ==
  ASSUME SecretsInv, NEW t \in Secrets!Tabs, Secrets!Submit(t)
  PROVE  SecretsInv' /\ Secrets!SecretsStep
  <1>0. PageShape(issueTab[t]) /\ OneCreation(issueTab[t]) /\ UpToDate(issueTab[t])
    BY DEF SecretsInv, ConsoleTabsInv
  <1>1. PICK s \in Secrets!Slots : /\ issueTab[t].post[s].at = "none"
                                   /\ Secrets!Set(t, Secrets!SetPost(t, s, [at |-> "sent", id |-> Secrets!NoId, inst |-> issueTab[t].inst]))
    BY DEF Secrets!Submit
  <1>2. PICK p : p = [at |-> "sent", id |-> Secrets!NoId, inst |-> issueTab[t].inst]
    OBVIOUS
  <1>3. PICK r : r = Secrets!SetPost(t, s, p)
    OBVIOUS
  <1>4. Secrets!Set(t, r) /\ UNCHANGED <<issuePlan, Secrets!Stored, Secrets!Known>> /\ issueTab[t].shown = Secrets!NoId /\ ~Secrets!Pending(t)
    BY <1>1, <1>2, <1>3 DEF Secrets!Submit, Secrets!Stored, Secrets!Known
  <1>5. PostShape(p) /\ p.at = "sent" /\ p.inst = issueTab[t].inst
    BY <1>0, <1>2 DEF PostShape, PageShape
  <1>6. /\ PageShape(r) /\ r.post[s] = p /\ \A z \in Secrets!Slots : z # s => r.post[z] = issueTab[t].post[z]
        /\ r.here = issueTab[t].here /\ r.stale = issueTab[t].stale /\ r.fetch = issueTab[t].fetch /\ r.typed = issueTab[t].typed
        /\ r.stirred = issueTab[t].stirred /\ r.data = issueTab[t].data /\ r.inst = issueTab[t].inst /\ r.shown = issueTab[t].shown
        /\ r.open = issueTab[t].open /\ r.behind = issueTab[t].behind /\ r.del = issueTab[t].del /\ r.save = issueTab[t].save
    BY <1>0, <1>3, <1>5, PostSet
  <1>7. SameAnswers(r, issueTab[t])
    BY <1>1, <1>5, <1>6 DEF SameAnswers
  <1>8. OneCreation(r)
    <2>1. \A z \in Secrets!Slots : issueTab[t].post[z].at # "none" => issueTab[t].post[z].inst # issueTab[t].inst
      BY <1>4 DEF Secrets!Pending
    <2>2. issueTab[t].inst <= issueTab[t].inst
      BY <1>0 DEF PageShape
    <2> QED BY <1>0, <1>4, <1>5, <1>6, <2>1, <2>2 DEF OneCreation
  <1>9. UpToDate(r)
    BY <1>0, <1>6, <1>7 DEF UpToDate, Unanswered, SameAnswers
  <1>10. KeepsScreen(t, issueTab[t], r)
    BY <1>6 DEF KeepsScreen
  <1> QED BY <1>4, <1>6, <1>7, <1>8, <1>9, <1>10, QuietStep

\* A slot is emptied.
LEMMA Emptied ==
  ASSUME NEW t, PageShape(issueTab[t]), OneCreation(issueTab[t]), NEW s \in Secrets!Slots, NEW r, r = Secrets!SetPost(t, s, Secrets!NoPost)
  PROVE  OneCreation(r) /\ Secrets!NoPost.at = "none" /\ PostShape(Secrets!NoPost) /\ r.post[s] = Secrets!NoPost
  <1>1. PostShape(Secrets!NoPost) /\ Secrets!NoPost.at = "none"
    BY DEF PostShape, Secrets!NoPost
  <1>2. /\ r.post[s] = Secrets!NoPost /\ \A z \in Secrets!Slots : z # s => r.post[z] = issueTab[t].post[z]
        /\ r.inst = issueTab[t].inst /\ r.shown = issueTab[t].shown
    BY <1>1, PostSet
  <1> QED BY <1>1, <1>2 DEF OneCreation

LEMMA RefuseKeeps ==
  ASSUME SecretsInv, NEW t \in Secrets!Tabs, NEW s \in Secrets!Slots, Secrets!Refuse(t, s)
  PROVE  SecretsInv' /\ Secrets!SecretsStep
  <1>0. PageShape(issueTab[t]) /\ OneCreation(issueTab[t]) /\ UpToDate(issueTab[t])
    BY DEF SecretsInv, ConsoleTabsInv
  <1>1. PICK r : r = Secrets!SetPost(t, s, Secrets!NoPost)
    OBVIOUS
  <1>2. Secrets!Set(t, r) /\ UNCHANGED <<issuePlan, Secrets!Stored, Secrets!Known>> /\ issueTab[t].post[s].at = "sent"
    BY <1>1 DEF Secrets!Refuse, Secrets!Stored, Secrets!Known
  <1>3. OneCreation(r) /\ Secrets!NoPost.at = "none" /\ PostShape(Secrets!NoPost) /\ r.post[s] = Secrets!NoPost
    BY <1>0, <1>1, Emptied
  <1>4. /\ PageShape(r) /\ \A z \in Secrets!Slots : z # s => r.post[z] = issueTab[t].post[z]
        /\ r.here = issueTab[t].here /\ r.stale = issueTab[t].stale /\ r.fetch = issueTab[t].fetch /\ r.typed = issueTab[t].typed
        /\ r.stirred = issueTab[t].stirred /\ r.data = issueTab[t].data /\ r.inst = issueTab[t].inst /\ r.shown = issueTab[t].shown
        /\ r.open = issueTab[t].open /\ r.behind = issueTab[t].behind /\ r.del = issueTab[t].del /\ r.save = issueTab[t].save
    BY <1>0, <1>1, <1>3, PostSet
  <1>5. SameAnswers(r, issueTab[t])
    BY <1>2, <1>3, <1>4 DEF SameAnswers
  <1>6. UpToDate(r)
    BY <1>0, <1>4, <1>5 DEF UpToDate, Unanswered, SameAnswers
  <1>7. KeepsScreen(t, issueTab[t], r)
    BY <1>4 DEF KeepsScreen
  <1> QED BY <1>2, <1>3, <1>4, <1>5, <1>6, <1>7, QuietStep

\* An answer arrives, on the screen of whoever asked or nowhere, or is lost.
LEMMA HeardStep ==
  ASSUME SecretsInv, NEW t \in Secrets!Tabs, NEW s \in Secrets!Slots, NEW r, NEW id, issueTab[t].post[s].at = "done", id = issueTab[t].post[s].id,
         Secrets!Set(t, r), UNCHANGED <<issuePlan, Secrets!Stored>>, PageShape(r), OneCreation(r), UpToDate(r),
         r.post[s].at = "none", \A z \in Secrets!Slots : z # s => r.post[z] = issueTab[t].post[z],
         \/ onScreen' = onScreen \cup {id} /\ blind' = blind /\ r.shown = id
         \/ blind' = blind \cup {id} /\ onScreen' = onScreen /\ r.shown = issueTab[t].shown,
         KeepsScreen(t, issueTab[t], r)
  PROVE  SecretsInv' /\ Secrets!SecretsStep
  <1>0. issuePlan' = issuePlan /\ secretRow' = secretRow /\ settings' = settings
    BY DEF Secrets!Stored
  <1>1. Secrets!Tabs' = Secrets!Tabs /\ Secrets!Listed' = Secrets!Listed /\ Secrets!Page' = Secrets!Page
    BY <1>0 DEF Secrets!Tabs, Secrets!Listed, Secrets!Page
  <1>2. issueTab' = [z \in Secrets!Tabs |-> issueTab'[z]] /\ issueTab'[t] = r /\ \A z \in Secrets!Tabs : z # t => issueTab'[z] = issueTab[z]
    BY DEF Secrets!Set, SecretsInv, ConsoleTabsInv
  <1>3. ConsoleTabsInv'
    <2>1. ASSUME NEW z \in Secrets!Tabs PROVE PageShape(issueTab'[z]) /\ OneCreation(issueTab'[z]) /\ UpToDate(issueTab'[z])
      <3>1. PageShape(issueTab[z]) /\ OneCreation(issueTab[z]) /\ UpToDate(issueTab[z])
        BY DEF SecretsInv, ConsoleTabsInv
      <3> QED BY <1>2, <3>1
    <2>2. \A z \in Secrets!Tabs : UpToDate(issueTab[z])'
      BY <1>1, <2>1 DEF UpToDate, Unanswered
    <2>3. \A z \in Secrets!Tabs : PageShape(issueTab[z])' /\ OneCreation(issueTab[z])'
      BY <2>1 DEF PageShape, OneCreation
    <2> QED BY <1>1, <1>2, <2>2, <2>3 DEF ConsoleTabsInv
  <1>4. id \in Secrets!Ids \ (onScreen \cup blind) /\ secretRow[id] # "free"
    BY DEF SecretsInv, AnswersInv
  <1>5. \A z \in Secrets!Tabs : \A y \in Secrets!Slots : issueTab'[z].post[y].at = "done" =>
          ~(z = t /\ y = s) /\ issueTab'[z].post[y] = issueTab[z].post[y] /\ issueTab[z].post[y].id # id
    <2>1. \A z \in Secrets!Tabs : \A y \in Secrets!Slots : issueTab'[z].post[y].at = "done" => ~(z = t /\ y = s) /\ issueTab'[z].post[y] = issueTab[z].post[y]
      BY <1>2
    <2> QED BY <2>1 DEF SecretsInv, AnswersInv
  <1>6. AnswersInv'
    <2>1. onScreen' \cup blind' = onScreen \cup blind \cup {id}
      OBVIOUS
    <2>2. \A z \in Secrets!Tabs : \A y \in Secrets!Slots : issueTab'[z].post[y].at = "done" =>
            issueTab'[z].post[y].id \in Secrets!Ids \ (onScreen' \cup blind') /\ secretRow'[issueTab'[z].post[y].id] # "free"
      BY <1>0, <1>5, <2>1 DEF SecretsInv, AnswersInv
    <2>3. \A x, z \in Secrets!Tabs : \A y, w \in Secrets!Slots :
            issueTab'[x].post[y].at = "done" /\ issueTab'[z].post[w].at = "done" /\ issueTab'[x].post[y].id = issueTab'[z].post[w].id => x = z /\ y = w
      <3>1. \A x, z \in Secrets!Tabs : \A y, w \in Secrets!Slots :
              issueTab[x].post[y].at = "done" /\ issueTab[z].post[w].at = "done" /\ issueTab[x].post[y].id = issueTab[z].post[w].id => x = z /\ y = w
        BY DEF SecretsInv, AnswersInv
      <3>2. ASSUME NEW x \in Secrets!Tabs, NEW z \in Secrets!Tabs, NEW y \in Secrets!Slots, NEW w \in Secrets!Slots,
                   issueTab'[x].post[y].at = "done", issueTab'[z].post[w].at = "done", issueTab'[x].post[y].id = issueTab'[z].post[w].id
            PROVE  x = z /\ y = w
        <4>1. issueTab'[x].post[y] = issueTab[x].post[y] /\ issueTab'[z].post[w] = issueTab[z].post[w]
          BY <1>5, <3>2
        <4> QED BY <3>1, <3>2, <4>1
      <3> QED BY <3>2
    <2> QED BY <1>1, <2>2, <2>3 DEF AnswersInv
  <1>7. ScreensInv'
    <2>1. \A z \in Secrets!Tabs : issueTab[z].shown # Secrets!NoId => issueTab[z].shown \in onScreen
      BY DEF SecretsInv, ScreensInv
    <2>2. \A x, z \in Secrets!Tabs : x # z => issueTab[x].shown = Secrets!NoId \/ issueTab[x].shown # issueTab[z].shown
      BY DEF SecretsInv, ScreensInv
    <2>3. CASE onScreen' = onScreen \cup {id} /\ r.shown = id
      <3>1. \A z \in Secrets!Tabs : issueTab'[z].shown # Secrets!NoId => issueTab'[z].shown \in onScreen'
        BY <1>2, <2>1, <2>3
      <3>2. \A x, z \in Secrets!Tabs : x # z => issueTab'[x].shown = Secrets!NoId \/ issueTab'[x].shown # issueTab'[z].shown
        <4>1. id # Secrets!NoId
          BY <1>4 DEF Secrets!Ids, Secrets!NoId
        <4> QED BY <1>2, <1>4, <2>1, <2>2, <2>3, <4>1
      <3> QED BY <1>1, <3>1, <3>2 DEF ScreensInv
    <2>4. CASE onScreen' = onScreen /\ r.shown = issueTab[t].shown
      BY <1>1, <1>2, <2>1, <2>2, <2>4 DEF ScreensInv
    <2> QED BY <2>3, <2>4
  <1>8. IssuedInv'
    BY <1>0, <1>1, <1>4 DEF IssuedInv, SecretsInv
  <1>9. InForceInv'
    <2>1. \A i \in Secrets!Ids : secretRow[i] = "live" =>
            i \in onScreen' \cup blind' \/ \E z \in Secrets!Tabs : \E y \in Secrets!Slots : issueTab'[z].post[y].at = "done" /\ issueTab'[z].post[y].id = i
      <3> SUFFICES ASSUME NEW i \in Secrets!Ids, secretRow[i] = "live", i \notin onScreen' \cup blind'
                   PROVE  \E z \in Secrets!Tabs : \E y \in Secrets!Slots : issueTab'[z].post[y].at = "done" /\ issueTab'[z].post[y].id = i
        OBVIOUS
      <3>1. i \notin onScreen \cup blind /\ i # id
        OBVIOUS
      <3>2. PICK z \in Secrets!Tabs, y \in Secrets!Slots : issueTab[z].post[y].at = "done" /\ issueTab[z].post[y].id = i
        BY <3>1 DEF SecretsInv, InForceInv
      <3>3. issueTab'[z].post[y] = issueTab[z].post[y]
        BY <1>2, <3>1, <3>2
      <3> QED BY <3>2, <3>3
    <2> QED BY <1>0, <1>1, <2>1 DEF InForceInv
  <1>10. Secrets!SecretsStep
    BY <1>0, <1>2 DEF Secrets!SecretsStep, KeepsScreen
  <1> QED BY <1>3, <1>6, <1>7, <1>8, <1>9, <1>10 DEF SecretsInv

LEMMA AnswerToDialogKeeps ==
  ASSUME SecretsInv, NEW t \in Secrets!Tabs, NEW s \in Secrets!Slots, Secrets!Answer(t, s)
  PROVE  SecretsInv' /\ Secrets!SecretsStep
  <1>0. PageShape(issueTab[t]) /\ OneCreation(issueTab[t]) /\ UpToDate(issueTab[t])
    BY DEF SecretsInv, ConsoleTabsInv
  <1>1. PICK q : q = Secrets!SetPost(t, s, Secrets!NoPost)
    OBVIOUS
  <1>2. PICK id : id = issueTab[t].post[s].id
    OBVIOUS
  <1>3. PICK p : p = Secrets!Invalidate(q)
    OBVIOUS
  <1>4. /\ UNCHANGED <<issuePlan, Secrets!Stored>> /\ issueTab[t].post[s].at = "done"
        /\ \/ Secrets!Mounted(t, s) /\ Secrets!Set(t, [p EXCEPT !.shown = id]) /\ onScreen' = onScreen \cup {id} /\ blind' = blind
           \/ Secrets!Set(t, p) /\ blind' = blind \cup {id} /\ onScreen' = onScreen
    BY <1>1, <1>2, <1>3 DEF Secrets!Answer, Secrets!Stored
  <1>5. OneCreation(q) /\ Secrets!NoPost.at = "none" /\ PostShape(Secrets!NoPost) /\ q.post[s] = Secrets!NoPost
    BY <1>0, <1>1, Emptied
  <1>6. /\ PageShape(q) /\ \A z \in Secrets!Slots : z # s => q.post[z] = issueTab[t].post[z]
        /\ q.here = issueTab[t].here /\ q.stale = issueTab[t].stale /\ q.fetch = issueTab[t].fetch /\ q.typed = issueTab[t].typed
        /\ q.stirred = issueTab[t].stirred /\ q.data = issueTab[t].data /\ q.inst = issueTab[t].inst /\ q.shown = issueTab[t].shown
        /\ q.open = issueTab[t].open
    BY <1>0, <1>1, <1>5, PostSet
  <1>7. /\ PageShape(p) /\ UpToDate(p)
        /\ p.post = q.post /\ p.inst = q.inst /\ p.shown = q.shown /\ p.open = q.open /\ p.typed = q.typed
        /\ p.here = q.here /\ p.stirred = q.stirred
    BY <1>0, <1>3, <1>6, Invalidated DEF UpToDate
  <1>8. OneCreation(p)
    BY <1>5, <1>7 DEF OneCreation
  <1>9. CASE Secrets!Set(t, p) /\ blind' = blind \cup {id} /\ onScreen' = onScreen
    <2>1. KeepsScreen(t, issueTab[t], p)
      BY <1>6, <1>7 DEF KeepsScreen
    <2> QED BY <1>2, <1>4, <1>5, <1>6, <1>7, <1>8, <1>9, <2>1, HeardStep
  <1>10. CASE Secrets!Mounted(t, s) /\ Secrets!Set(t, [p EXCEPT !.shown = id]) /\ onScreen' = onScreen \cup {id} /\ blind' = blind
    <2>1. PICK r : r = [p EXCEPT !.shown = id]
      OBVIOUS
    <2>2. /\ r.shown = id /\ r.post = p.post /\ r.inst = p.inst /\ r.open = p.open /\ r.typed = p.typed /\ r.here = p.here
          /\ r.stirred = p.stirred /\ r.stale = p.stale /\ r.fetch = p.fetch /\ r.data = p.data /\ r.behind = p.behind
          /\ r.del = p.del /\ r.save = p.save
      BY <1>7, <2>1 DEF PageShape
    <2>3. PageShape(r)
      BY <1>7, <2>1, <2>2 DEF PageShape
    <2>4. issueTab[t].shown = Secrets!NoId /\ \A z \in Secrets!Slots : z # s => ~(issueTab[t].post[z].at # "none" /\ issueTab[t].post[z].inst = issueTab[t].inst)
      <3>1. issueTab[t].post[s].inst = issueTab[t].inst /\ issueTab[t].post[s].at # "none"
        BY <1>4, <1>10 DEF Secrets!Mounted
      <3> QED BY <1>0, <3>1 DEF OneCreation
    <2>5. OneCreation(r)
      BY <1>5, <1>6, <1>7, <1>8, <2>2, <2>4 DEF OneCreation
    <2>6. UpToDate(r)
      BY <1>7, <2>2 DEF UpToDate, Unanswered
    <2>7. KeepsScreen(t, issueTab[t], r)
      BY <1>6, <1>7, <2>2, <2>4 DEF KeepsScreen
    <2>8. Secrets!Set(t, r) /\ r.post[s].at = "none" /\ \A z \in Secrets!Slots : z # s => r.post[z] = issueTab[t].post[z]
      BY <1>5, <1>6, <1>7, <1>10, <2>1, <2>2
    <2> QED BY <1>2, <1>4, <1>10, <2>2, <2>3, <2>5, <2>6, <2>7, <2>8, HeardStep
  <1> QED BY <1>4, <1>9, <1>10

LEMMA LoseKeeps ==
  ASSUME SecretsInv, NEW t \in Secrets!Tabs, NEW s \in Secrets!Slots, Secrets!Lose(t, s)
  PROVE  SecretsInv' /\ Secrets!SecretsStep
  <1>0. PageShape(issueTab[t]) /\ OneCreation(issueTab[t]) /\ UpToDate(issueTab[t])
    BY DEF SecretsInv, ConsoleTabsInv
  <1>1. PICK q : q = Secrets!SetPost(t, s, Secrets!NoPost)
    OBVIOUS
  <1>2. PICK done : done = (issueTab[t].post[s].at = "done")
    OBVIOUS
  <1>3. PICK r : r = [q EXCEPT !.behind = q.behind \/ done]
    OBVIOUS
  <1>4. /\ UNCHANGED <<issuePlan, Secrets!Stored>> /\ issueTab[t].post[s].at \in {"sent", "done"} /\ Secrets!Set(t, r) /\ onScreen' = onScreen
        /\ blind' = IF done THEN blind \cup {issueTab[t].post[s].id} ELSE blind
    BY <1>1, <1>2, <1>3 DEF Secrets!Lose, Secrets!Stored
  <1>5. OneCreation(q) /\ Secrets!NoPost.at = "none" /\ PostShape(Secrets!NoPost) /\ q.post[s] = Secrets!NoPost
    BY <1>0, <1>1, Emptied
  <1>6. /\ PageShape(q) /\ \A z \in Secrets!Slots : z # s => q.post[z] = issueTab[t].post[z]
        /\ q.here = issueTab[t].here /\ q.stale = issueTab[t].stale /\ q.fetch = issueTab[t].fetch /\ q.typed = issueTab[t].typed
        /\ q.stirred = issueTab[t].stirred /\ q.data = issueTab[t].data /\ q.inst = issueTab[t].inst /\ q.shown = issueTab[t].shown
        /\ q.open = issueTab[t].open /\ q.behind = issueTab[t].behind /\ q.del = issueTab[t].del /\ q.save = issueTab[t].save
    BY <1>0, <1>1, <1>5, PostSet
  <1>7. /\ r.behind = (q.behind \/ done)
        /\ r.here = q.here /\ r.stale = q.stale /\ r.fetch = q.fetch /\ r.typed = q.typed /\ r.post = q.post
        /\ r.stirred = q.stirred /\ r.data = q.data /\ r.inst = q.inst /\ r.shown = q.shown
        /\ r.open = q.open /\ r.del = q.del /\ r.save = q.save
    BY <1>3, <1>6 DEF PageShape
  <1>8. PageShape(r)
    BY <1>2, <1>3, <1>6, <1>7 DEF PageShape
  <1>9. OneCreation(r)
    BY <1>5, <1>7 DEF OneCreation
  <1>10. UpToDate(r)
    <2>1. CASE done
      BY <1>0, <1>6, <1>7, <2>1 DEF UpToDate
    <2>2. CASE ~done
      <3>1. ~Unanswered(r) => ~Unanswered(issueTab[t])
        BY <1>2, <1>6, <1>7, <2>2 DEF Unanswered
      <3> QED BY <1>0, <1>6, <1>7, <2>2, <3>1 DEF UpToDate
    <2> QED BY <2>1, <2>2
  <1>11. KeepsScreen(t, issueTab[t], r)
    BY <1>6, <1>7 DEF KeepsScreen
  <1>12. CASE done
    <2>1. PICK id : id = issueTab[t].post[s].id
      OBVIOUS
    <2>2. issueTab[t].post[s].at = "done" /\ blind' = blind \cup {id} /\ r.shown = issueTab[t].shown
      BY <1>2, <1>4, <1>6, <1>7, <1>12, <2>1
    <2>3. r.post[s].at = "none" /\ \A z \in Secrets!Slots : z # s => r.post[z] = issueTab[t].post[z]
      BY <1>5, <1>6, <1>7
    <2> QED BY <1>4, <1>8, <1>9, <1>10, <1>11, <2>1, <2>2, <2>3, HeardStep
  <1>13. CASE ~done
    <2>1. SameAnswers(r, issueTab[t])
      BY <1>2, <1>5, <1>6, <1>7, <1>13 DEF SameAnswers
    <2>2. UNCHANGED <<issuePlan, Secrets!Stored, Secrets!Known>>
      BY <1>4, <1>13 DEF Secrets!Known
    <2> QED BY <1>4, <1>6, <1>7, <1>8, <1>9, <1>10, <1>11, <2>1, <2>2, QuietStep
  <1> QED BY <1>12, <1>13

\* The tables have changed under the tab, which is behind or about to be told.
Overtaken(r) ==
  (r.behind \/ Unanswered(r)) /\ r.stirred /\ (r.here => ~r.stale) /\ r.fetch.at \in {"none", "asked", "read"}

LEMMA LeftBehind ==
  ASSUME NEW q, PageShape(q), OneCreation(q), UpToDate(q), NEW r, r = [q EXCEPT !.behind = TRUE, !.stirred = TRUE]
  PROVE  /\ PageShape(r) /\ OneCreation(r) /\ Overtaken(r)
         /\ r.post = q.post /\ r.shown = q.shown /\ r.typed = q.typed
  <1>1. /\ r.behind = TRUE /\ r.stirred = TRUE
        /\ r.here = q.here /\ r.stale = q.stale /\ r.fetch = q.fetch /\ r.typed = q.typed /\ r.post = q.post
        /\ r.data = q.data /\ r.inst = q.inst /\ r.shown = q.shown /\ r.open = q.open
    BY DEF PageShape
  <1>2. PageShape(r)
    BY <1>1 DEF PageShape
  <1>3. OneCreation(r)
    BY <1>1 DEF OneCreation
  <1>4. Overtaken(r)
    BY <1>1 DEF UpToDate, Overtaken
  <1> QED BY <1>1, <1>2, <1>3, <1>4

\* A step that changes the tables and overtakes every tab.
LEMMA TablesStep ==
  ASSUME SecretsInv, issuePlan' = issuePlan, issueTab' = [z \in Secrets!Tabs |-> issueTab'[z]],
         \A z \in Secrets!Tabs : PageShape(issueTab'[z]) /\ OneCreation(issueTab'[z]) /\ Overtaken(issueTab'[z]),
         \A z \in Secrets!Tabs : issueTab'[z].shown = issueTab[z].shown /\ issueTab'[z].typed = issueTab[z].typed,
         onScreen' = onScreen, secretRow' \in [Secrets!Ids -> {"free", "live", "ended", "used"}],
         \A i \in Secrets!Ids : secretRow[i] # "free" => secretRow'[i] # "free",
         \A i \in Secrets!Ids : secretRow[i] \in {"ended", "used"} => secretRow'[i] = secretRow[i]
  PROVE  Secrets!Tabs' = Secrets!Tabs /\ Secrets!Page' = Secrets!Page /\ ConsoleTabsInv' /\ ScreensInv' /\ Secrets!SecretsStep
  <1>1. Secrets!Tabs' = Secrets!Tabs /\ Secrets!Page' = Secrets!Page
    BY DEF Secrets!Tabs, Secrets!Page
  <1>2. ConsoleTabsInv'
    <2>1. \A z \in Secrets!Tabs : UpToDate(issueTab[z])'
      BY DEF UpToDate, Overtaken, Unanswered
    <2>2. \A z \in Secrets!Tabs : PageShape(issueTab[z])' /\ OneCreation(issueTab[z])'
      BY DEF PageShape, OneCreation
    <2> QED BY <1>1, <2>1, <2>2 DEF ConsoleTabsInv
  <1>3. ScreensInv'
    BY <1>1 DEF SecretsInv, ScreensInv
  <1>4. Secrets!SecretsStep
    BY DEF Secrets!SecretsStep
  <1> QED BY <1>1, <1>2, <1>3, <1>4

\* A write of tab t.
LEMMA WroteTabs ==
  ASSUME SecretsInv, NEW t \in Secrets!Tabs, NEW r, PageShape(r), OneCreation(r), Unanswered(r), r.here => ~r.stale,
         r.fetch.at \in {"none", "asked", "read"}, r.shown = issueTab[t].shown, r.typed = issueTab[t].typed, Secrets!Wrote(t, r)
  PROVE  /\ issueTab' = [z \in Secrets!Tabs |-> issueTab'[z]]
         /\ \A z \in Secrets!Tabs : PageShape(issueTab'[z]) /\ OneCreation(issueTab'[z]) /\ Overtaken(issueTab'[z])
         /\ \A z \in Secrets!Tabs : issueTab'[z].shown = issueTab[z].shown /\ issueTab'[z].typed = issueTab[z].typed
         /\ issueTab'[t].post = r.post /\ \A z \in Secrets!Tabs : z # t => issueTab'[z].post = issueTab[z].post
  <1>1. issueTab' = [z \in Secrets!Tabs |-> issueTab'[z]]
    BY DEF Secrets!Wrote
  <1>2. PICK q : q = [r EXCEPT !.stirred = TRUE]
    OBVIOUS
  <1>3. /\ q.behind = r.behind /\ q.stirred = TRUE
        /\ q.here = r.here /\ q.stale = r.stale /\ q.fetch = r.fetch /\ q.typed = r.typed /\ q.post = r.post
        /\ q.data = r.data /\ q.inst = r.inst /\ q.shown = r.shown /\ q.open = r.open /\ q.del = r.del /\ q.save = r.save
    BY <1>2 DEF PageShape
  <1>4. PageShape(q) /\ OneCreation(q) /\ Overtaken(q)
    <2>1. PageShape(q)
      BY <1>2, <1>3 DEF PageShape
    <2>2. OneCreation(q)
      BY <1>3 DEF OneCreation
    <2>3. Overtaken(q)
      BY <1>3 DEF Overtaken, Unanswered
    <2> QED BY <2>1, <2>2, <2>3
  <1>5. issueTab'[t] = q
    BY <1>2 DEF Secrets!Wrote
  <1>6. ASSUME NEW z \in Secrets!Tabs, z # t
        PROVE  /\ PageShape(issueTab'[z]) /\ OneCreation(issueTab'[z]) /\ Overtaken(issueTab'[z])
               /\ issueTab'[z].shown = issueTab[z].shown /\ issueTab'[z].typed = issueTab[z].typed /\ issueTab'[z].post = issueTab[z].post
    <2>1. PICK p : p = [issueTab[z] EXCEPT !.behind = TRUE, !.stirred = TRUE]
      OBVIOUS
    <2>2. issueTab'[z] = p
      BY <1>6, <2>1 DEF Secrets!Wrote
    <2>3. PageShape(issueTab[z]) /\ OneCreation(issueTab[z]) /\ UpToDate(issueTab[z])
      BY DEF SecretsInv, ConsoleTabsInv
    <2>4. /\ PageShape(p) /\ OneCreation(p) /\ Overtaken(p)
          /\ p.post = issueTab[z].post /\ p.shown = issueTab[z].shown /\ p.typed = issueTab[z].typed
      BY <2>1, <2>3, LeftBehind
    <2> QED BY <2>2, <2>4
  <1>7. \A z \in Secrets!Tabs : PageShape(issueTab'[z]) /\ OneCreation(issueTab'[z]) /\ Overtaken(issueTab'[z])
    BY <1>4, <1>5, <1>6
  <1>8. \A z \in Secrets!Tabs : issueTab'[z].shown = issueTab[z].shown /\ issueTab'[z].typed = issueTab[z].typed
    BY <1>3, <1>5, <1>6
  <1>9. issueTab'[t].post = r.post /\ \A z \in Secrets!Tabs : z # t => issueTab'[z].post = issueTab[z].post
    BY <1>3, <1>5, <1>6
  <1> QED BY <1>1, <1>7, <1>8, <1>9

\* The answers under way are the same, no secret is made, none comes into force.
LEMMA NoneIssued ==
  ASSUME SecretsInv, Secrets!Tabs' = Secrets!Tabs, Secrets!Page' = Secrets!Page, onScreen' = onScreen, blind' = blind,
         secretRow' \in [Secrets!Ids -> {"free", "live", "ended", "used"}],
         \A i \in Secrets!Ids : secretRow[i] # "free" => secretRow'[i] # "free",
         \A i \in Secrets!Ids : secretRow'[i] = "live" => secretRow[i] = "live",
         \A z \in Secrets!Tabs : issueTab'[z].post = issueTab[z].post
  PROVE  AnswersInv' /\ IssuedInv' /\ InForceInv'
  <1>1. AnswersInv'
    BY DEF SecretsInv, AnswersInv
  <1>2. IssuedInv'
    BY DEF SecretsInv, IssuedInv
  <1>3. InForceInv'
    BY DEF SecretsInv, InForceInv
  <1> QED BY <1>1, <1>2, <1>3

LEMMA UpdateConfigKeeps ==
  ASSUME SecretsInv, NEW t \in Secrets!Tabs, Secrets!UpdateConfig(t)
  PROVE  SecretsInv' /\ Secrets!SecretsStep
  <1>0. PageShape(issueTab[t]) /\ OneCreation(issueTab[t]) /\ UpToDate(issueTab[t])
    BY DEF SecretsInv, ConsoleTabsInv
  <1>1. PICK r : r = [issueTab[t] EXCEPT !.save = [at |-> "ok", val |-> issueTab[t].save.val]]
    OBVIOUS
  <1>2. Secrets!Wrote(t, r) /\ issuePlan' = issuePlan /\ secretRow' = secretRow /\ onScreen' = onScreen /\ blind' = blind
    BY <1>1 DEF Secrets!UpdateConfig, Secrets!Known
  <1>3. /\ r.save.at = "ok" /\ r.here = issueTab[t].here /\ r.stale = issueTab[t].stale /\ r.fetch = issueTab[t].fetch
        /\ r.typed = issueTab[t].typed /\ r.post = issueTab[t].post /\ r.inst = issueTab[t].inst /\ r.shown = issueTab[t].shown
    BY <1>0, <1>1 DEF PageShape
  <1>4. PageShape(r)
    BY <1>0, <1>1, <1>3 DEF PageShape
  <1>5. OneCreation(r)
    BY <1>0, <1>3 DEF OneCreation
  <1>6. Unanswered(r) /\ (r.here => ~r.stale) /\ r.fetch.at \in {"none", "asked", "read"}
    BY <1>0, <1>3 DEF Unanswered, UpToDate
  <1>7. /\ issueTab' = [z \in Secrets!Tabs |-> issueTab'[z]]
        /\ \A z \in Secrets!Tabs : PageShape(issueTab'[z]) /\ OneCreation(issueTab'[z]) /\ Overtaken(issueTab'[z])
        /\ \A z \in Secrets!Tabs : issueTab'[z].shown = issueTab[z].shown /\ issueTab'[z].typed = issueTab[z].typed
        /\ issueTab'[t].post = r.post /\ \A z \in Secrets!Tabs : z # t => issueTab'[z].post = issueTab[z].post
    BY <1>2, <1>3, <1>4, <1>5, <1>6, WroteTabs
  <1>8. secretRow' \in [Secrets!Ids -> {"free", "live", "ended", "used"}] /\ \A z \in Secrets!Tabs : issueTab'[z].post = issueTab[z].post
    BY <1>2, <1>3, <1>7 DEF SecretsInv, IssuedInv
  <1>9. Secrets!Tabs' = Secrets!Tabs /\ Secrets!Page' = Secrets!Page /\ ConsoleTabsInv' /\ ScreensInv' /\ Secrets!SecretsStep
    BY <1>2, <1>7, <1>8, TablesStep
  <1>10. AnswersInv' /\ IssuedInv' /\ InForceInv'
    BY <1>2, <1>8, <1>9, NoneIssued
  <1> QED BY <1>9, <1>10 DEF SecretsInv

LEMMA UseKeeps ==
  ASSUME SecretsInv, NEW id \in Secrets!Ids, Secrets!Use(id)
  PROVE  SecretsInv' /\ Secrets!SecretsStep
  <1>1. /\ issuePlan' = issuePlan /\ onScreen' = onScreen /\ blind' = blind /\ secretRow[id] = "live"
        /\ secretRow' = IF issuePlan.kind = "invite" THEN [secretRow EXCEPT ![id] = "used"] ELSE secretRow
        /\ issueTab' = [z \in Secrets!Tabs |-> [issueTab[z] EXCEPT !.behind = TRUE, !.stirred = TRUE]]
    BY DEF Secrets!Use, Secrets!Known
  <1>2. /\ secretRow' \in [Secrets!Ids -> {"free", "live", "ended", "used"}]
        /\ \A i \in Secrets!Ids : secretRow'[i] = secretRow[i] \/ (secretRow[i] = "live" /\ secretRow'[i] = "used")
    BY <1>1 DEF SecretsInv, IssuedInv
  <1>3. ASSUME NEW z \in Secrets!Tabs
        PROVE  /\ PageShape(issueTab'[z]) /\ OneCreation(issueTab'[z]) /\ Overtaken(issueTab'[z])
               /\ issueTab'[z].shown = issueTab[z].shown /\ issueTab'[z].typed = issueTab[z].typed /\ issueTab'[z].post = issueTab[z].post
    <2>1. PICK p : p = [issueTab[z] EXCEPT !.behind = TRUE, !.stirred = TRUE]
      OBVIOUS
    <2>2. issueTab'[z] = p
      BY <1>1, <2>1
    <2>3. PageShape(issueTab[z]) /\ OneCreation(issueTab[z]) /\ UpToDate(issueTab[z])
      BY DEF SecretsInv, ConsoleTabsInv
    <2>4. /\ PageShape(p) /\ OneCreation(p) /\ Overtaken(p)
          /\ p.post = issueTab[z].post /\ p.shown = issueTab[z].shown /\ p.typed = issueTab[z].typed
      BY <2>1, <2>3, LeftBehind
    <2> QED BY <2>2, <2>4
  <1>4. issueTab' = [z \in Secrets!Tabs |-> issueTab'[z]]
    BY <1>1
  <1>5. Secrets!Tabs' = Secrets!Tabs /\ Secrets!Page' = Secrets!Page /\ ConsoleTabsInv' /\ ScreensInv' /\ Secrets!SecretsStep
    BY <1>1, <1>2, <1>3, <1>4, TablesStep
  <1>6. AnswersInv' /\ IssuedInv' /\ InForceInv'
    BY <1>1, <1>2, <1>3, <1>5, NoneIssued
  <1> QED BY <1>5, <1>6 DEF SecretsInv

\* The tab's removal has an answer.
LEMMA Removed ==
  ASSUME NEW q, PageShape(q), OneCreation(q), NEW d, NEW r, r = [q EXCEPT !.del = d]
  PROVE  /\ PageShape(r) /\ OneCreation(r) /\ r.del = d
         /\ r.here = q.here /\ r.data = q.data /\ r.stale = q.stale /\ r.fetch = q.fetch /\ r.behind = q.behind
         /\ r.inst = q.inst /\ r.open = q.open /\ r.shown = q.shown /\ r.post = q.post /\ r.typed = q.typed
         /\ r.save = q.save /\ r.stirred = q.stirred
  <1>1. /\ r.del = d
        /\ r.here = q.here /\ r.data = q.data /\ r.stale = q.stale /\ r.fetch = q.fetch /\ r.behind = q.behind
        /\ r.inst = q.inst /\ r.open = q.open /\ r.shown = q.shown /\ r.post = q.post /\ r.typed = q.typed
        /\ r.save = q.save /\ r.stirred = q.stirred
    BY DEF PageShape
  <1>2. PageShape(r)
    BY <1>1 DEF PageShape
  <1>3. OneCreation(r)
    BY <1>1 DEF OneCreation
  <1> QED BY <1>1, <1>2, <1>3

LEMMA RemoveKeeps ==
  ASSUME SecretsInv, NEW t \in Secrets!Tabs, Secrets!Remove(t)
  PROVE  SecretsInv' /\ Secrets!SecretsStep
  <1>0. PageShape(issueTab[t]) /\ OneCreation(issueTab[t]) /\ UpToDate(issueTab[t])
    BY DEF SecretsInv, ConsoleTabsInv
  <1>1. PICK gone : gone = Secrets!Ended(issueTab[t].del.id)
    OBVIOUS
  <1>2. gone \subseteq {i \in Secrets!Ids : secretRow[i] = "live"}
    BY <1>1 DEF Secrets!Ended
  <1>3. CASE gone = {} /\ ~Secrets!Page.single
    <2>1. PICK d : d = [at |-> "refused", id |-> issueTab[t].del.id]
      OBVIOUS
    <2>2. PICK r : r = [issueTab[t] EXCEPT !.del = d]
      OBVIOUS
    <2>3. Secrets!Set(t, r) /\ UNCHANGED <<issuePlan, Secrets!Stored, Secrets!Known>> /\ issueTab[t].del.at = "sent"
      BY <1>1, <1>3, <2>1, <2>2 DEF Secrets!Remove, Secrets!Stored, Secrets!Known
    <2>4. /\ PageShape(r) /\ OneCreation(r) /\ r.del = d
          /\ r.here = issueTab[t].here /\ r.data = issueTab[t].data /\ r.stale = issueTab[t].stale /\ r.fetch = issueTab[t].fetch
          /\ r.behind = issueTab[t].behind
          /\ r.inst = issueTab[t].inst /\ r.open = issueTab[t].open /\ r.shown = issueTab[t].shown /\ r.post = issueTab[t].post
          /\ r.typed = issueTab[t].typed
          /\ r.save = issueTab[t].save /\ r.stirred = issueTab[t].stirred
      BY <1>0, <2>2, Removed
    <2>5. d.at = "refused"
      BY <2>1
    <2>6. UpToDate(r)
      BY <1>0, <2>3, <2>4, <2>5 DEF UpToDate, Unanswered
    <2>7. SameAnswers(r, issueTab[t]) /\ KeepsScreen(t, issueTab[t], r)
      BY <2>4 DEF SameAnswers, KeepsScreen
    <2> QED BY <2>3, <2>4, <2>6, <2>7, QuietStep
  <1>4. CASE ~(gone = {} /\ ~Secrets!Page.single)
    <2>1. PICK d : d = [at |-> "ok", id |-> issueTab[t].del.id]
      OBVIOUS
    <2>2. PICK r : r = [issueTab[t] EXCEPT !.del = d]
      OBVIOUS
    <2>3. /\ Secrets!Wrote(t, r) /\ issuePlan' = issuePlan /\ onScreen' = onScreen /\ blind' = blind
          /\ secretRow' = [i \in Secrets!Ids |-> IF i \in gone THEN "ended" ELSE secretRow[i]]
      BY <1>1, <1>4, <2>1, <2>2 DEF Secrets!Remove, Secrets!Known
    <2>4. /\ PageShape(r) /\ OneCreation(r) /\ r.del = d
          /\ r.here = issueTab[t].here /\ r.stale = issueTab[t].stale /\ r.fetch = issueTab[t].fetch /\ r.shown = issueTab[t].shown
          /\ r.post = issueTab[t].post /\ r.typed = issueTab[t].typed
      BY <1>0, <2>2, Removed
    <2>5. d.at = "ok"
      BY <2>1
    <2>6. Unanswered(r) /\ (r.here => ~r.stale) /\ r.fetch.at \in {"none", "asked", "read"}
      BY <1>0, <2>4, <2>5 DEF Unanswered, UpToDate
    <2>7. /\ issueTab' = [z \in Secrets!Tabs |-> issueTab'[z]]
          /\ \A z \in Secrets!Tabs : PageShape(issueTab'[z]) /\ OneCreation(issueTab'[z]) /\ Overtaken(issueTab'[z])
          /\ \A z \in Secrets!Tabs : issueTab'[z].shown = issueTab[z].shown /\ issueTab'[z].typed = issueTab[z].typed
          /\ issueTab'[t].post = r.post /\ \A z \in Secrets!Tabs : z # t => issueTab'[z].post = issueTab[z].post
      BY <2>3, <2>4, <2>6, WroteTabs
    <2>8. /\ secretRow' \in [Secrets!Ids -> {"free", "live", "ended", "used"}]
          /\ \A i \in Secrets!Ids : secretRow'[i] = secretRow[i] \/ (secretRow[i] = "live" /\ secretRow'[i] = "ended")
      BY <1>2, <2>3 DEF SecretsInv, IssuedInv
    <2>9. \A z \in Secrets!Tabs : issueTab'[z].post = issueTab[z].post
      BY <2>4, <2>7
    <2>10. Secrets!Tabs' = Secrets!Tabs /\ Secrets!Page' = Secrets!Page /\ ConsoleTabsInv' /\ ScreensInv' /\ Secrets!SecretsStep
      BY <2>3, <2>7, <2>8, TablesStep
    <2>11. AnswersInv' /\ IssuedInv' /\ InForceInv'
      BY <2>3, <2>8, <2>9, <2>10, NoneIssued
    <2> QED BY <2>10, <2>11 DEF SecretsInv
  <1> QED BY <1>3, <1>4

LEMMA CreateKeeps ==
  ASSUME SecretsInv, NEW t \in Secrets!Tabs, NEW s \in Secrets!Slots, Secrets!Create(t, s)
  PROVE  SecretsInv' /\ Secrets!SecretsStep
  <1>0. PageShape(issueTab[t]) /\ OneCreation(issueTab[t]) /\ UpToDate(issueTab[t])
    BY DEF SecretsInv, ConsoleTabsInv
  <1>1. PICK id \in Secrets!Ids : /\ secretRow[id] = "free" /\ secretRow' = Secrets!Issued(id)
                                  /\ Secrets!Wrote(t, Secrets!SetPost(t, s, [at |-> "done", id |-> id, inst |-> issueTab[t].post[s].inst]))
    BY DEF Secrets!Create
  <1>2. PICK p : p = [at |-> "done", id |-> id, inst |-> issueTab[t].post[s].inst]
    OBVIOUS
  <1>3. PICK r : r = Secrets!SetPost(t, s, p)
    OBVIOUS
  <1>4. Secrets!Wrote(t, r) /\ issuePlan' = issuePlan /\ onScreen' = onScreen /\ blind' = blind /\ issueTab[t].post[s].at = "sent"
    BY <1>1, <1>2, <1>3 DEF Secrets!Create, Secrets!Known
  <1>5. PostShape(p) /\ p.at = "done" /\ p.id = id /\ p.inst = issueTab[t].post[s].inst
    BY <1>0, <1>2 DEF PostShape, PageShape
  <1>6. /\ PageShape(r) /\ r.post[s] = p /\ \A z \in Secrets!Slots : z # s => r.post[z] = issueTab[t].post[z]
        /\ r.here = issueTab[t].here /\ r.stale = issueTab[t].stale /\ r.fetch = issueTab[t].fetch /\ r.typed = issueTab[t].typed
        /\ r.inst = issueTab[t].inst /\ r.shown = issueTab[t].shown
    BY <1>0, <1>3, <1>5, PostSet
  <1>7. OneCreation(r)
    <2>1. \A z \in Secrets!Slots : r.post[z].at # "none" => issueTab[t].post[z].at # "none" /\ r.post[z].inst = issueTab[t].post[z].inst
      BY <1>4, <1>5, <1>6
    <2> QED BY <1>0, <1>6, <2>1 DEF OneCreation
  <1>8. Unanswered(r) /\ (r.here => ~r.stale) /\ r.fetch.at \in {"none", "asked", "read"}
    BY <1>0, <1>5, <1>6 DEF Unanswered, UpToDate
  <1>9. /\ issueTab' = [z \in Secrets!Tabs |-> issueTab'[z]]
        /\ \A z \in Secrets!Tabs : PageShape(issueTab'[z]) /\ OneCreation(issueTab'[z]) /\ Overtaken(issueTab'[z])
        /\ \A z \in Secrets!Tabs : issueTab'[z].shown = issueTab[z].shown /\ issueTab'[z].typed = issueTab[z].typed
        /\ issueTab'[t].post = r.post /\ \A z \in Secrets!Tabs : z # t => issueTab'[z].post = issueTab[z].post
    BY <1>4, <1>6, <1>7, <1>8, WroteTabs
  <1>10. /\ secretRow' \in [Secrets!Ids -> {"free", "live", "ended", "used"}] /\ secretRow'[id] = "live"
         /\ \A i \in Secrets!Ids : i # id => secretRow'[i] = secretRow[i] \/ (secretRow[i] = "live" /\ secretRow'[i] = "ended")
         /\ Secrets!Page.single => \A i \in Secrets!Ids : secretRow'[i] = "live" => i = id
    BY <1>1 DEF SecretsInv, IssuedInv, Secrets!Issued
  <1>11. Secrets!Tabs' = Secrets!Tabs /\ Secrets!Page' = Secrets!Page /\ ConsoleTabsInv' /\ ScreensInv' /\ Secrets!SecretsStep
    <2>1. \A i \in Secrets!Ids : secretRow[i] # "free" => secretRow'[i] # "free"
      BY <1>1, <1>10
    <2>2. \A i \in Secrets!Ids : secretRow[i] \in {"ended", "used"} => secretRow'[i] = secretRow[i]
      BY <1>1, <1>10
    <2> QED BY <1>4, <1>9, <1>10, <2>1, <2>2, TablesStep
  <1>12. \A z \in Secrets!Tabs : \A y \in Secrets!Slots :
           \/ z = t /\ y = s /\ issueTab'[z].post[y] = p
           \/ ~(z = t /\ y = s) /\ issueTab'[z].post[y] = issueTab[z].post[y]
    BY <1>6, <1>9
  <1>13. AnswersInv'
    <2>1. id \notin onScreen \cup blind /\ \A z \in Secrets!Tabs : \A y \in Secrets!Slots : issueTab[z].post[y].at = "done" => issueTab[z].post[y].id # id
      BY <1>1 DEF SecretsInv, IssuedInv, AnswersInv
    <2>2. \A z \in Secrets!Tabs : \A y \in Secrets!Slots : issueTab'[z].post[y].at = "done" =>
            issueTab'[z].post[y].id \in Secrets!Ids \ (onScreen \cup blind) /\ secretRow'[issueTab'[z].post[y].id] # "free"
      BY <1>5, <1>10, <1>12, <2>1 DEF SecretsInv, AnswersInv
    <2>3. \A x, z \in Secrets!Tabs : \A y, w \in Secrets!Slots :
            issueTab'[x].post[y].at = "done" /\ issueTab'[z].post[w].at = "done" /\ issueTab'[x].post[y].id = issueTab'[z].post[w].id => x = z /\ y = w
      <3>1. \A x, z \in Secrets!Tabs : \A y, w \in Secrets!Slots :
              issueTab[x].post[y].at = "done" /\ issueTab[z].post[w].at = "done" /\ issueTab[x].post[y].id = issueTab[z].post[w].id => x = z /\ y = w
        BY DEF SecretsInv, AnswersInv
      <3>2. ASSUME NEW x \in Secrets!Tabs, NEW z \in Secrets!Tabs, NEW y \in Secrets!Slots, NEW w \in Secrets!Slots,
                   issueTab'[x].post[y].at = "done", issueTab'[z].post[w].at = "done", issueTab'[x].post[y].id = issueTab'[z].post[w].id
            PROVE  x = z /\ y = w
        <4>1. CASE x = t /\ y = s
          <5>1. issueTab'[x].post[y] = p
            BY <1>12, <4>1
          <5>2. ASSUME ~(z = t /\ w = s) PROVE FALSE
            <6>1. issueTab'[z].post[w] = issueTab[z].post[w]
              BY <1>12, <5>2
            <6> QED BY <1>5, <2>1, <3>2, <5>1, <6>1
          <5> QED BY <4>1, <5>2
        <4>2. CASE ~(x = t /\ y = s)
          <5>1. issueTab'[x].post[y] = issueTab[x].post[y]
            BY <1>12, <4>2
          <5>2. ASSUME z = t /\ w = s PROVE FALSE
            <6>1. issueTab'[z].post[w] = p
              BY <1>12, <5>2
            <6> QED BY <1>5, <2>1, <3>2, <5>1, <6>1
          <5>3. issueTab'[z].post[w] = issueTab[z].post[w]
            BY <1>12, <5>2
          <5> QED BY <3>1, <3>2, <5>1, <5>3
        <4> QED BY <4>1, <4>2
      <3> QED BY <3>2
    <2> QED BY <1>4, <1>11, <2>2, <2>3 DEF AnswersInv
  <1>14. IssuedInv'
    <2>1. \A i \in onScreen \cup blind : secretRow[i] # "free" /\ i \in Secrets!Ids
      BY DEF SecretsInv, IssuedInv
    <2>2. \A i \in onScreen \cup blind : secretRow'[i] # "free"
      BY <1>10, <2>1
    <2>3. Secrets!Page.single => \A i, j \in Secrets!Ids : secretRow'[i] = "live" /\ secretRow'[j] = "live" => i = j
      BY <1>10
    <2> QED BY <1>4, <1>10, <1>11, <2>2, <2>3 DEF SecretsInv, IssuedInv
  <1>15. InForceInv'
    <2>1. ASSUME NEW i \in Secrets!Ids, secretRow'[i] = "live", i \notin onScreen \cup blind
          PROVE  \E z \in Secrets!Tabs : \E y \in Secrets!Slots : issueTab'[z].post[y].at = "done" /\ issueTab'[z].post[y].id = i
      <3>1. CASE i = id
        BY <1>5, <1>12, <3>1
      <3>2. CASE i # id
        <4>1. secretRow[i] = "live"
          BY <1>10, <2>1, <3>2
        <4>2. PICK z \in Secrets!Tabs, y \in Secrets!Slots : issueTab[z].post[y].at = "done" /\ issueTab[z].post[y].id = i
          BY <2>1, <4>1 DEF SecretsInv, InForceInv
        <4>3. issueTab'[z].post[y] = issueTab[z].post[y]
          BY <1>4, <1>12, <4>2
        <4> QED BY <4>2, <4>3
      <3> QED BY <3>1, <3>2
    <2> QED BY <1>4, <1>11, <2>1 DEF InForceInv
  <1> QED BY <1>11, <1>13, <1>14, <1>15 DEF SecretsInv
-----------------------------------------------------------------------------
LEMMA SecretsNext ==
  ASSUME SecretsInv, Secrets!Next
  PROVE  SecretsInv' /\ Secrets!SecretsStep
  <1>1. CASE \E id \in Secrets!Ids : Secrets!Use(id)
    BY <1>1, UseKeeps
  <1>2. ASSUME NEW t \in Secrets!Tabs,
               \/ Secrets!FetchRead(t) \/ Secrets!FetchArrive(t) \/ Secrets!FetchFails(t) \/ Secrets!OpenDialog(t) \/ Secrets!Submit(t) \/ Secrets!Close(t)
               \/ \E field \in {"name", "url", "events", "email"} : Secrets!Fill(t, field)
        PROVE  SecretsInv' /\ Secrets!SecretsStep
    BY <1>2, FetchReadKeeps, FetchArriveKeeps, FetchFailsKeeps, OpenDialogKeeps, SubmitDialogKeeps, CloseDialogKeeps, FillKeeps
  <1>3. ASSUME NEW t \in Secrets!Tabs, NEW s \in Secrets!Slots, Secrets!Create(t, s) \/ Secrets!Refuse(t, s) \/ Secrets!Answer(t, s) \/ Secrets!Lose(t, s)
        PROVE  SecretsInv' /\ Secrets!SecretsStep
    BY <1>3, CreateKeeps, RefuseKeeps, AnswerToDialogKeeps, LoseKeeps
  <1>4. ASSUME NEW t \in Secrets!Tabs, (\E id \in Secrets!Ids : Secrets!AskRemove(t, id)) \/ Secrets!Remove(t) \/ Secrets!AnswerRemove(t) \/ Secrets!LoseRemove(t)
        PROVE  SecretsInv' /\ Secrets!SecretsStep
    BY <1>4, AskRemoveKeeps, RemoveKeeps, AnswerRemoveKeeps, LoseRemoveKeeps
  <1>5. ASSUME NEW t \in Secrets!Tabs,
               \/ Secrets!Type(t) \/ Secrets!Save(t) \/ Secrets!UpdateConfig(t) \/ Secrets!AnswerSave(t) \/ Secrets!LoseSave(t) \/ Secrets!Leave(t) \/ Secrets!Return(t)
        PROVE  SecretsInv' /\ Secrets!SecretsStep
    BY <1>5, TypeSettingsKeeps, SaveKeeps, UpdateConfigKeeps, AnswerSaveKeeps, LoseSaveKeeps, LeaveKeeps, ReturnKeeps
  <1> QED BY <1>1, <1>2, <1>3, <1>4, <1>5 DEF Secrets!Next

LEMMA SecretsRest ==
  ASSUME SecretsInv, UNCHANGED Secrets!vars
  PROVE  SecretsInv'
  <1>1. /\ issuePlan' = issuePlan /\ secretRow' = secretRow /\ settings' = settings /\ issueTab' = issueTab /\ onScreen' = onScreen /\ blind' = blind
        /\ Secrets!Tabs' = Secrets!Tabs /\ Secrets!Listed' = Secrets!Listed /\ Secrets!Page' = Secrets!Page
    BY DEF Secrets!vars, Secrets!Tabs, Secrets!Listed, Secrets!Page
  <1>2. ConsoleTabsInv'
    BY <1>1 DEF SecretsInv, ConsoleTabsInv, PageShape, OneCreation, UpToDate, Unanswered
  <1> QED BY <1>1, <1>2 DEF SecretsInv, AnswersInv, ScreensInv, IssuedInv, InForceInv

LEMMA SecretsSafe ==
  ASSUME SecretsInv
  PROVE  Secrets!SecretsSound
  <1>1. \A t \in Secrets!Tabs : Secrets!Calm(t) /\ ~issueTab[t].behind => issueTab[t].data = Secrets!Listed
    <2> SUFFICES ASSUME NEW t \in Secrets!Tabs, Secrets!Calm(t), ~issueTab[t].behind PROVE issueTab[t].data = Secrets!Listed
      OBVIOUS
    <2>1. /\ issueTab[t].here /\ issueTab[t].fetch.at = "none" /\ issueTab[t].del.at = "none" /\ issueTab[t].save.at = "none"
          /\ \A s \in Secrets!Slots : issueTab[t].post[s].at = "none"
      BY DEF Secrets!Calm
    <2>2. UpToDate(issueTab[t])
      BY DEF SecretsInv, ConsoleTabsInv
    <2> QED BY <2>1, <2>2 DEF UpToDate, Unanswered
  <1>2. Secrets!Page.single => Cardinality({i \in Secrets!Ids : secretRow[i] = "live"}) <= 1
    <2> SUFFICES ASSUME Secrets!Page.single PROVE Cardinality({i \in Secrets!Ids : secretRow[i] = "live"}) <= 1
      OBVIOUS
    <2>1. PICK L : L = {i \in Secrets!Ids : secretRow[i] = "live"}
      OBVIOUS
    <2>2. CASE L = {}
      BY <2>1, <2>2, FS_EmptySet
    <2>3. CASE L # {}
      <3>1. PICK i \in L : TRUE
        BY <2>3
      <3>2. L = {i}
        BY <2>1, <3>1 DEF SecretsInv, IssuedInv
      <3>3. Cardinality(L) = 1
        BY <3>2, FS_Singleton
      <3> QED BY <2>1, <3>3
    <2> QED BY <2>2, <2>3
  <1>3. \A i \in Secrets!Ids : secretRow[i] = "live" =>
          i \in onScreen \cup blind \/ \E t \in Secrets!Tabs, s \in Secrets!Slots : issueTab[t].post[s].at = "done" /\ issueTab[t].post[s].id = i
    BY DEF SecretsInv, InForceInv
  <1>4. onScreen \cap blind = {}
    BY DEF SecretsInv, IssuedInv
  <1>5. \A t, z \in Secrets!Tabs : t # z => issueTab[t].shown = Secrets!NoId \/ issueTab[t].shown # issueTab[z].shown
    BY DEF SecretsInv, ScreensInv
  <1> QED BY <1>1, <1>2, <1>3, <1>4, <1>5 DEF Secrets!SecretsSound, Secrets!Cardinality, Cardinality

\* The pages that show a secret once, for any number of administrators, secrets, plans and lost
\* answers: a secret in force was on a screen or is on its way to one, unless its dialog or page was
\* left or its answer lost; a screen shows one secret, and one SCIM token is in force; a calm list
\* shows the rows unless somebody else wrote since, a call failed, or a write joined an earlier read.
THEOREM SecretsAreSound == Secrets!Spec => []Secrets!SecretsSound
  <1>1. Secrets!Init => SecretsInv
    BY SecretsStart
  <1>2. SecretsInv /\ [Secrets!Next]_(Secrets!vars) => SecretsInv'
    BY SecretsNext, SecretsRest
  <1>3. SecretsInv => Secrets!SecretsSound
    BY SecretsSafe
  <1> QED BY <1>1, <1>2, <1>3, PTL DEF Secrets!Spec

\* No step brings a secret back that was revoked, replaced or accepted, takes one from the screen but
\* by its closing, or drops settings typed over a configuration that has not changed.
THEOREM SecretsMoveSafely == Secrets!Spec => [][Secrets!SecretsStep]_(Secrets!vars)
  <1>1. Secrets!Init => SecretsInv
    BY SecretsStart
  <1>2. SecretsInv /\ [Secrets!Next]_(Secrets!vars) => SecretsInv'
    BY SecretsNext, SecretsRest
  <1>3. SecretsInv /\ [Secrets!Next]_(Secrets!vars) => [Secrets!SecretsStep]_(Secrets!vars)
    BY SecretsNext
  <1> QED BY <1>1, <1>2, <1>3, PTL DEF Secrets!Spec
================================================================================
