---------------------------- MODULE DkimKeysProofs ----------------------------
(***************************************************************************)
(* Theorems about DkimKeys, for any keys, console requests and faults.     *)
(***************************************************************************)
EXTENDS DkimKeys, FiniteSetTheorems, TLAPS

\* The keys that have a row.
Made == {k \in Keys : status[k] # "none"}

\* A request in flight is a record of these fields.
Shape(r) ==
  r = [op |-> r.op, at |-> r.at, key |-> r.key, seen |-> r.seen, retiring |-> r.retiring,
       todo |-> r.todo, got |-> r.got, alone |-> r.alone]
Table == req = [h \in Handlers |-> req[h]] /\ \A h \in Handlers : Shape(req[h])

\* Requests work with keys that have a row; the worker's INSERT alone may meet none.
Keyed == {"file", "unlink", "update", "publish", "lock"} \cup InTx
RowsOf(r, rows) ==
  /\ r.seen \cup r.todo \cup r.got \subseteq rows
  /\ r.at \in Keyed => r.key \in rows
  /\ r.at = "insert" => r.key \in Keys

RowsInv ==
  /\ status \in [Keys -> {"none", "pending", "published", "active", "retired"}]
  /\ txt \in [Keys -> {"none", "published", "resolves"}]
  /\ files \cup map \cup ripe \subseteq Made
  /\ \A h \in Handlers : RowsOf(req[h], Made)

\* Rows have one holder, and the index one transaction that is about to commit.
LocksInv ==
  /\ \A h \in Handlers : req[h].retiring # {} => req[h].at \in {"set", "commit"}
  /\ \A g, h \in Handlers : g # h => Holds(g) \cap Holds(h) = {}
  /\ \A g, h \in Handlers : req[g].at = "commit" /\ req[h].at = "commit" => g = h
  /\ \A h \in Handlers : req[h].at = "commit" => IndexAdmits(h)

SoleActive == \A j, k \in Active : j = k

\* The worker activates what it has seen resolve.
Promoting == {"lock"} \cup InTx
Verified ==
  /\ \A k \in rotated : k \in Keys /\ txt[k] = "resolves"
  /\ req[Worker].at \in Promoting => txt[req[Worker].key] = "resolves"

\* Whoever changed the table still owes the rebuild of the map, or the last one that read the table
\* alone read what it holds now.
Owing == {"sync", "syncWrite", "file", "unlink", "mapRead"}
MapDue ==
  (\A h \in Handlers : req[h].at \notin Owing) =>
    /\ \A h \in Handlers : req[h].at = "mapWrite" /\ req[h].alone => req[h].got = Active
    /\ (\A h \in Handlers : req[h].at # "mapWrite") => unsettled \/ map = Active

\* An active key has its file, or a retirement took it, or a sync will write it.
FileDue(k) ==
  \/ k \in files \cup crossed
  \/ \E h \in Handlers : req[h].at = "sync" \/ (req[h].at = "syncWrite" /\ k \in req[h].todo)
FilesDue == \A k \in Active : FileDue(k)

\* The inductive invariant.
KeysInv == Table /\ RowsInv /\ LocksInv /\ SoleActive /\ Verified /\ MapDue /\ FilesDue

--------------------------------------------------------------------------------
\* How a step changes the requests in flight: all but one stay, and that one goes on from where it
\* was or starts afresh.
Others(h) == Table' /\ \A g \in Handlers : g # h => req'[g] = req[g]
Kept(h) ==
  /\ req'[h].op = req[h].op /\ req'[h].key = req[h].key /\ req'[h].seen = req[h].seen
  /\ req'[h].retiring = req[h].retiring /\ req'[h].todo = req[h].todo /\ req'[h].got = req[h].got
  /\ req'[h].alone = req[h].alone

LEMMA Moves ==
  ASSUME Table, NEW h \in Handlers, NEW r, Shape(r), req' = [req EXCEPT ![h] = r]
  PROVE  Others(h) /\ req'[h] = r
  BY DEF Table, Others

LEMMA Goes ==
  ASSUME Table, NEW h \in Handlers, NEW s, Goto(h, s)
  PROVE  Others(h) /\ Kept(h) /\ req'[h].at = s
  <1>1. PICK r : r = [req[h] EXCEPT !.at = s]
    OBVIOUS
  <1>2. req' = [req EXCEPT ![h] = r]
    BY <1>1 DEF Goto, Table
  <1>3. /\ Shape(r) /\ r.at = s /\ r.op = req[h].op /\ r.key = req[h].key /\ r.seen = req[h].seen
        /\ r.retiring = req[h].retiring /\ r.todo = req[h].todo /\ r.got = req[h].got
        /\ r.alone = req[h].alone
    BY <1>1 DEF Table, Shape
  <1> QED BY <1>2, <1>3, Moves DEF Kept

\* A record that holds no row.
Bare(r) == Shape(r) /\ r.todo = {} /\ r.got = {} /\ r.retiring = {}

LEMMA FreshIdle == Bare(Idle) /\ Idle.seen = {} /\ Idle.at = "idle"
  BY DEF Bare, Shape, Idle

LEMMA FreshRow ==
  ASSUME NEW rows
  PROVE  Bare(NextRow(rows)) /\ NextRow(rows).at \in {"idle", "next"} /\ NextRow(rows).seen = rows
  <1>1. CASE rows = {}
    BY <1>1, FreshIdle DEF NextRow
  <1>2. CASE rows # {}
    <2>1. PICK r : r = [Idle EXCEPT !.op = "promote", !.at = "next", !.seen = rows]
      OBVIOUS
    <2>2. Bare(r) /\ r.seen = rows /\ r.at = "next"
      BY <2>1, FreshIdle DEF Bare, Shape
    <2> QED BY <1>2, <2>1, <2>2 DEF NextRow
  <1> QED BY <1>1, <1>2

--------------------------------------------------------------------------------
\* What a step of h may do to each part of the invariant.

LEMMA RowsFrame ==
  ASSUME RowsInv, NEW h \in Handlers, Others(h), RowsOf(req'[h], Made'), Made \subseteq Made',
         status' \in [Keys -> {"none", "pending", "published", "active", "retired"}],
         txt' \in [Keys -> {"none", "published", "resolves"}],
         files' \cup map' \cup ripe' \subseteq Made'
  PROVE  RowsInv'
  <1>1. \A g \in Handlers : RowsOf(req'[g], Made')
    BY DEF RowsInv, Others, RowsOf
  <1> QED BY <1>1 DEF RowsInv

\* It may take rows nobody holds, and commits when the index has no other writer.
LocksSafe(h) ==
  /\ req'[h].retiring # {} => req'[h].at \in {"set", "commit"}
  /\ \A k \in Holds(h)' : k \in Holds(h) \/ Free(h, k)
  /\ req'[h].at = "commit" =>
       /\ IndexAdmits(h)'
       /\ req[h].at = "commit" \/ \A g \in Handlers \ {h} : req[g].at # "commit"
  /\ Active' \subseteq Active \/ req[h].at = "commit"

LEMMA LocksFrame ==
  ASSUME LocksInv, NEW h \in Handlers, Others(h), LocksSafe(h)
  PROVE  LocksInv'
  <1>1. \A g \in Handlers : req'[g].retiring # {} => req'[g].at \in {"set", "commit"}
    BY DEF LocksInv, LocksSafe, Others
  <1>2. \A g \in Handlers : g # h => Holds(g)' = Holds(g)
    BY DEF Others, Holds
  <1>3. \A f, g \in Handlers : f # g => Holds(f)' \cap Holds(g)' = {}
    BY <1>2 DEF LocksInv, LocksSafe, Free
  <1>4. \A f, g \in Handlers : req'[f].at = "commit" /\ req'[g].at = "commit" => f = g
    BY DEF LocksInv, LocksSafe, Others
  <1>5. \A g \in Handlers : req'[g].at = "commit" => IndexAdmits(g)'
    BY DEF LocksInv, LocksSafe, Others, IndexAdmits
  <1> QED BY <1>1, <1>3, <1>4, <1>5 DEF LocksInv

\* Records that resolve stay, and the worker goes for keys whose record does.
VerifiedSafe(h) ==
  /\ \A k \in Keys : txt[k] = "resolves" => txt'[k] = "resolves"
  /\ \A k \in rotated' : k \in rotated \/ (k \in Keys /\ txt'[k] = "resolves")
  /\ h = Worker /\ req'[h].at \in Promoting => txt'[req'[h].key] = "resolves"

LEMMA VerifiedFrame ==
  ASSUME RowsInv, Verified, NEW h \in Handlers, Others(h), VerifiedSafe(h)
  PROVE  Verified'
  <1>1. \A k \in rotated' : k \in Keys /\ txt'[k] = "resolves"
    BY DEF Verified, VerifiedSafe
  <1>2. ASSUME req'[Worker].at \in Promoting PROVE txt'[req'[Worker].key] = "resolves"
    <2>1. CASE h = Worker
      BY <1>2, <2>1 DEF VerifiedSafe
    <2>2. CASE h # Worker
      <3>1. req'[Worker] = req[Worker] /\ Worker \in Handlers
        BY <2>2 DEF Others, Handlers
      <3>2. req[Worker].key \in Keys
        BY <1>2, <3>1 DEF RowsInv, RowsOf, Keyed, Promoting, Made
      <3> QED BY <1>2, <3>1, <3>2 DEF Verified, VerifiedSafe
    <2> QED BY <2>1, <2>2
  <1> QED BY <1>1, <1>2 DEF Verified

\* It comes to owe a rebuild of the map, or has nothing to do with it.
MapSafe(h) ==
  \/ req'[h].at \in Owing
  \/ /\ req[h].at \notin Owing /\ req[h].at # "mapWrite" /\ req'[h].at # "mapWrite"
     /\ Active' = Active /\ map' = map /\ unsettled' = unsettled

LEMMA MapFrame ==
  ASSUME MapDue, NEW h \in Handlers, Others(h), MapSafe(h)
  PROVE  MapDue'
  <1>1. CASE req'[h].at \in Owing
    BY <1>1 DEF MapDue
  <1>2. CASE req'[h].at \notin Owing
    <2>1. /\ req[h].at \notin Owing /\ req[h].at # "mapWrite" /\ req'[h].at # "mapWrite"
          /\ Active' = Active /\ map' = map /\ unsettled' = unsettled
      BY <1>2 DEF MapSafe
    <2>2. \A g \in Handlers : (req'[g].at \in Owing <=> req[g].at \in Owing)
                           /\ (req'[g].at = "mapWrite" <=> req[g].at = "mapWrite")
      BY <1>2, <2>1 DEF Others
    <2>3. \A g \in Handlers : req'[g].at = "mapWrite" => req'[g] = req[g]
      BY <2>1 DEF Others
    <2> QED BY <2>1, <2>2, <2>3 DEF MapDue
  <1> QED BY <1>1, <1>2

\* It is about to sync, or activates nothing and leaves the files and the syncs alone.
FilesSafe(h) ==
  \/ req'[h].at = "sync"
  \/ /\ req[h].at \notin {"sync", "syncWrite"}
     /\ Active' \subseteq Active
     /\ files \cup crossed \subseteq files' \cup crossed'

LEMMA FilesFrame ==
  ASSUME FilesDue, NEW h \in Handlers, Others(h), FilesSafe(h)
  PROVE  FilesDue'
  <1>1. CASE req'[h].at = "sync"
    BY <1>1 DEF FilesDue, FileDue
  <1>2. CASE req'[h].at # "sync"
    BY <1>2 DEF FilesDue, FileDue, FilesSafe, Others
  <1> QED BY <1>1, <1>2

\* A step that changes nothing but the request of h.
Inside == UNCHANGED <<status, ripe, txt, files, map, crossed, unsettled, rotated>>

LEMMA Internal ==
  ASSUME KeysInv, NEW h \in Handlers, Others(h), Inside, RowsOf(req'[h], Made), LocksSafe(h),
         h = Worker /\ req'[h].at \in Promoting => txt[req'[h].key] = "resolves",
         req'[h].at \in Owing \/ (req[h].at \notin Owing /\ req[h].at # "mapWrite" /\ req'[h].at # "mapWrite"),
         req'[h].at = "sync" \/ req[h].at \notin {"sync", "syncWrite"}
  PROVE  KeysInv'
  <1> USE DEF Inside
  <1>1. Made' = Made /\ Active' = Active
    BY DEF Made, Active
  <1>2. RowsInv'
    BY <1>1, RowsFrame DEF KeysInv, RowsInv
  <1>3. LocksInv' /\ SoleActive'
    BY <1>1, LocksFrame DEF KeysInv, SoleActive
  <1>4. Verified'
    BY VerifiedFrame DEF KeysInv, VerifiedSafe
  <1>5. MapDue' /\ FilesDue'
    BY <1>1, MapFrame, FilesFrame DEF KeysInv, MapSafe, FilesSafe
  <1> QED BY <1>2, <1>3, <1>4, <1>5 DEF KeysInv, Others

LEMMA HoldsNothing ==
  ASSUME NEW h \in Handlers, req'[h].retiring = {}, req'[h].at \notin InTx,
         Active' \subseteq Active \/ req[h].at = "commit"
  PROVE  LocksSafe(h)
  BY DEF LocksSafe, Holds, InTx

\* A request that starts over, in a step of its own.
LEMMA Renewed ==
  ASSUME KeysInv, NEW h \in Handlers, NEW r, req' = [req EXCEPT ![h] = r], Bare(r), Inside,
         RowsOf(r, Made), r.at \notin InTx \cup {"mapWrite"},
         h = Worker /\ r.at = "lock" => txt[r.key] = "resolves",
         r.at \in Owing \/ (req[h].at \notin Owing /\ req[h].at # "mapWrite"),
         r.at = "sync" \/ req[h].at \notin {"sync", "syncWrite"}
  PROVE  KeysInv'
  <1>1. Others(h) /\ req'[h] = r
    BY Moves DEF KeysInv, Bare
  <1>2. LocksSafe(h)
    BY <1>1, HoldsNothing DEF Bare, Inside, Active
  <1> QED BY <1>1, <1>2, Internal DEF Promoting

LEMMA CrashKeeps ==
  ASSUME KeysInv, NEW h \in Handlers, Crash(h)
  PROVE  KeysInv'
  <1>1. PICK r : r = [Idle EXCEPT !.op = "startup", !.at = "sync"]
    OBVIOUS
  <1>2. Bare(r) /\ r.seen = {} /\ r.at = "sync"
    BY <1>1, FreshIdle DEF Bare, Shape
  <1>3. req' = [req EXCEPT ![h] = r] /\ Inside
    BY <1>1 DEF Crash, Inside, table, disk
  <1>4. RowsOf(r, Made)
    BY <1>2 DEF RowsOf, Bare, Keyed, InTx
  <1> QED BY <1>2, <1>3, <1>4, Renewed DEF InTx, Owing

\* Activate and Retire name a key that has a row.
LEMMA AskingKeeps ==
  ASSUME HandlersAssumption, KeysInv, NEW h \in Consoles, Activate(h) \/ Retire(h)
  PROVE  KeysInv'
  <1>1. PICK k \in Made, o \in {"activate", "retire"}, s \in {"lock", "update"} :
          Request(h, [Idle EXCEPT !.op = o, !.at = s, !.key = k])
    <2>1. CASE Activate(h)
      BY <2>1 DEF Activate, Made
    <2>2. CASE Retire(h)
      BY <2>2 DEF Retire, Made
    <2> QED BY <2>1, <2>2
  <1>2. PICK r : r = [Idle EXCEPT !.op = o, !.at = s, !.key = k]
    OBVIOUS
  <1>3. Bare(r) /\ r.seen = {} /\ r.at = s /\ r.key = k
    BY <1>2, FreshIdle DEF Bare, Shape
  <1>4. req' = [req EXCEPT ![h] = r] /\ req[h].at = "idle" /\ Inside /\ h \in Handlers /\ h # Worker
    BY <1>1, <1>2, FreshIdle DEF Request, Activate, Retire, Inside, table, disk, Handlers, HandlersAssumption
  <1>5. RowsOf(r, Made)
    BY <1>3 DEF RowsOf, Bare, Keyed
  <1> QED BY <1>3, <1>4, <1>5, Renewed DEF InTx, Owing

\* The statements of the transaction before its COMMIT.
LEMMA TxKeeps ==
  ASSUME KeysInv, NEW h \in Handlers, TxLock(h) \/ TxScan(h) \/ TxDemote(h) \/ TxSet(h)
  PROVE  KeysInv'
  <1> USE DEF KeysInv
  <1>0. Inside /\ RowsOf(req[h], Made) /\ (req[h].retiring # {} => req[h].at \in {"set", "commit"})
        /\ Active' = Active /\ (h = Worker /\ req[h].at \in Promoting => txt[req[h].key] = "resolves")
    BY DEF TxLock, TxScan, TxDemote, TxSet, Inside, table, disk, RowsInv, LocksInv, Active, Verified
  <1>1. CASE TxLock(h)
    <2>1. Others(h) /\ Kept(h) /\ req'[h].at = "scan" /\ req[h].at = "lock" /\ Free(h, req[h].key)
      BY <1>1, Goes DEF TxLock
    <2>2. RowsOf(req'[h], Made)
      BY <1>0, <2>1 DEF RowsOf, Kept, Keyed, InTx
    <2>3. LocksSafe(h)
      BY <1>0, <2>1 DEF LocksSafe, Kept, Holds
    <2> QED BY <1>0, <2>1, <2>2, <2>3, Internal DEF Promoting, Kept, Owing
  <1>2. CASE TxScan(h)
    <2>1. PICK r : r = [req[h] EXCEPT !.at = "demote", !.todo = Active \ {req[h].key}]
      OBVIOUS
    <2>2. req' = [req EXCEPT ![h] = r] /\ req[h].at = "scan"
      BY <1>2, <2>1 DEF TxScan, Table
    <2>3. /\ Shape(r) /\ r.at = "demote" /\ r.todo = Active \ {req[h].key} /\ r.key = req[h].key
          /\ r.seen = req[h].seen /\ r.got = req[h].got /\ r.retiring = req[h].retiring
      <3>1. Shape(req[h])
        BY DEF Table
      <3> QED BY <2>1, <3>1 DEF Shape
    <2>4. Others(h) /\ req'[h] = r
      BY <2>2, <2>3, Moves
    <2>5. RowsOf(r, Made)
      BY <1>0, <2>2, <2>3 DEF RowsOf, Keyed, InTx, Active, Made
    <2>6. LocksSafe(h)
      BY <1>0, <2>2, <2>3, <2>4 DEF LocksSafe, Holds, InTx
    <2> QED BY <1>0, <2>2, <2>3, <2>4, <2>5, <2>6, Internal DEF Promoting, InTx, Owing
  <1>3. CASE TxDemote(h)
    <2>1. PICK r : r = [req[h] EXCEPT !.at = "set", !.todo = {}, !.retiring = req[h].todo \cap Active]
      OBVIOUS
    <2>2. req' = [req EXCEPT ![h] = r] /\ req[h].at = "demote" /\ \A k \in req[h].todo : Free(h, k)
      BY <1>3, <2>1 DEF TxDemote, Table
    <2>3. /\ Shape(r) /\ r.at = "set" /\ r.todo = {} /\ r.key = req[h].key /\ r.seen = req[h].seen
          /\ r.got = req[h].got /\ r.retiring = req[h].todo \cap Active
      <3>1. Shape(req[h])
        BY DEF Table
      <3> QED BY <2>1, <3>1 DEF Shape
    <2>4. Others(h) /\ req'[h] = r
      BY <2>2, <2>3, Moves
    <2>5. RowsOf(r, Made)
      BY <1>0, <2>2, <2>3 DEF RowsOf, Keyed, InTx
    <2>6. LocksSafe(h)
      BY <1>0, <2>2, <2>3, <2>4 DEF LocksSafe, Holds, InTx
    <2> QED BY <1>0, <2>2, <2>3, <2>4, <2>5, <2>6, Internal DEF Promoting, InTx, Owing
  <1>4. CASE TxSet(h) /\ IndexAdmits(h)
    <2>1. /\ Others(h) /\ Kept(h) /\ req'[h].at = "commit" /\ req[h].at = "set"
          /\ \A g \in Handlers \ {h} : req[g].at # "commit"
      BY <1>4, Goes DEF TxSet
    <2>2. RowsOf(req'[h], Made)
      BY <1>0, <2>1 DEF RowsOf, Kept, Keyed, InTx
    <2>3. LocksSafe(h)
      BY <1>0, <1>4, <2>1 DEF LocksSafe, Kept, Holds, InTx, IndexAdmits
    <2> QED BY <1>0, <2>1, <2>2, <2>3, Internal DEF Promoting, InTx, Kept, Owing
  <1>5. CASE TxSet(h) /\ ~IndexAdmits(h)
    <2>1. PICK r : r = NextRow(req[h].seen)
      OBVIOUS
    <2>2. req' = [req EXCEPT ![h] = r] /\ req[h].at = "set"
      BY <1>5, <2>1 DEF TxSet
    <2>3. Bare(r) /\ r.at \in {"idle", "next"} /\ r.seen = req[h].seen
      BY <2>1, FreshRow
    <2>4. RowsOf(r, Made)
      BY <1>0, <2>3 DEF RowsOf, Bare, Keyed, InTx
    <2> QED BY <1>0, <2>2, <2>3, <2>4, Renewed DEF InTx, Owing
  <1> QED BY <1>1, <1>2, <1>3, <1>4, <1>5

\* The worker gives up on its new key and turns to the promotion.
LEMMA PromoteBegins ==
  ASSUME KeysInv, Worker \in Handlers, Inside, req' = [req EXCEPT ![Worker] = ToPromote],
         req[Worker].at \in {"insert", "publish"}
  PROVE  KeysInv'
  <1>1. PICK r : r = [Idle EXCEPT !.op = "promote", !.at = "select"]
    OBVIOUS
  <1>2. Bare(r) /\ r.seen = {} /\ r.at = "select"
    BY <1>1, FreshIdle DEF Bare, Shape
  <1>3. RowsOf(r, Made)
    BY <1>2 DEF RowsOf, Bare, Keyed, InTx
  <1>4. req' = [req EXCEPT ![Worker] = r]
    BY <1>1 DEF ToPromote
  <1> QED BY <1>2, <1>3, <1>4, Renewed DEF InTx, Owing

\* The worker's phases, up to the transaction.
LEMMA TickKeeps ==
  ASSUME KeysInv, StartSelect \/ PromoteSelect \/ PromoteNext \/ PromoteDeferred \/ StartPublishFails
  PROVE  KeysInv'
  <1> USE DEF KeysInv
  <1>0. Worker \in Handlers /\ Inside /\ RowsOf(req[Worker], Made)
        /\ (req[Worker].retiring # {} => req[Worker].at \in {"set", "commit"})
    BY DEF Handlers, StartSelect, PromoteSelect, PromoteNext, PromoteDeferred, StartPublishFails, Inside,
           table, disk, RowsInv, LocksInv
  <1>r. ASSUME NEW rows, rows \subseteq Made, req' = [req EXCEPT ![Worker] = NextRow(rows)],
               req[Worker].at \in {"idle", "select", "next"}
        PROVE  KeysInv'
    <2>1. PICK r : r = NextRow(rows)
      OBVIOUS
    <2>2. Bare(r) /\ r.at \in {"idle", "next"} /\ r.seen = rows
      BY <2>1, FreshRow
    <2>3. RowsOf(r, Made)
      BY <1>r, <2>2 DEF RowsOf, Bare, Keyed, InTx
    <2>4. req' = [req EXCEPT ![Worker] = r]
      BY <1>r, <2>1
    <2> QED BY <1>0, <1>r, <2>2, <2>3, <2>4, Renewed DEF InTx, Owing
  <1>1. CASE StartSelect
    <2>1. PICK k \in Keys : req' = [req EXCEPT ![Worker] = [Idle EXCEPT !.op = "start", !.at = "insert", !.key = k]]
      BY <1>1 DEF StartSelect
    <2>2. PICK r : r = [Idle EXCEPT !.op = "start", !.at = "insert", !.key = k]
      OBVIOUS
    <2>3. Bare(r) /\ r.seen = {} /\ r.at = "insert" /\ r.key = k
      BY <2>2, FreshIdle DEF Bare, Shape
    <2>4. RowsOf(r, Made)
      BY <2>3 DEF RowsOf, Bare, Keyed, InTx
    <2>5. req' = [req EXCEPT ![Worker] = r] /\ req[Worker].at = "idle"
      BY <1>1, <2>1, <2>2, FreshIdle DEF StartSelect
    <2> QED BY <1>0, <2>3, <2>4, <2>5, Renewed DEF InTx, Owing
  <1>2. CASE PromoteSelect
    <2>1. {k \in ripe : status[k] = "published"} \subseteq Made
      BY DEF RowsInv
    <2>2. req[Worker].at \in {"idle", "select", "next"}
      BY <1>2, FreshIdle DEF PromoteSelect, At
    <2> QED BY <1>2, <1>r, <2>1, <2>2 DEF PromoteSelect
  <1>3. CASE PromoteNext
    <2>1. PICK k \in req[Worker].seen :
            req' = [req EXCEPT ![Worker] = IF txt[k] # "resolves" THEN NextRow(req[Worker].seen \ {k})
                                           ELSE [req[Worker] EXCEPT !.at = "lock", !.key = k,
                                                                    !.seen = req[Worker].seen \ {k}]]
      BY <1>3 DEF PromoteNext
    <2>2. req[Worker].at = "next" /\ k \in Made /\ req[Worker].seen \subseteq Made
      BY <1>0, <1>3 DEF PromoteNext, At, RowsOf
    <2>3. CASE txt[k] # "resolves"
      <3>1. req' = [req EXCEPT ![Worker] = NextRow(req[Worker].seen \ {k})]
        BY <2>1, <2>3
      <3> QED BY <1>r, <2>2, <3>1
    <2>4. CASE txt[k] = "resolves"
      <3>1. PICK r : r = [req[Worker] EXCEPT !.at = "lock", !.key = k, !.seen = req[Worker].seen \ {k}]
        OBVIOUS
      <3>2. Shape(req[Worker])
        BY <1>0 DEF Table
      <3>3. /\ Shape(r) /\ r.at = "lock" /\ r.key = k /\ r.seen = req[Worker].seen \ {k}
            /\ r.todo = req[Worker].todo /\ r.got = req[Worker].got /\ r.retiring = req[Worker].retiring
        BY <3>1, <3>2 DEF Shape
      <3>4. req' = [req EXCEPT ![Worker] = r]
        BY <2>1, <2>4, <3>1
      <3>5. Others(Worker) /\ req'[Worker] = r
        BY <1>0, <3>3, <3>4, Moves
      <3>6. RowsOf(r, Made)
        BY <1>0, <2>2, <3>3 DEF RowsOf, Keyed
      <3>7. LocksSafe(Worker)
        BY <1>0, <2>2, <3>3, <3>5, HoldsNothing DEF InTx, Inside, Active
      <3> QED BY <1>0, <2>2, <2>4, <3>3, <3>5, <3>6, <3>7, Internal DEF Owing
    <2> QED BY <2>3, <2>4
  <1>4. CASE PromoteDeferred
    <2>1. PICK k \in req[Worker].seen : req' = [req EXCEPT ![Worker] = NextRow(req[Worker].seen \ {k})]
      BY <1>4 DEF PromoteDeferred
    <2>2. req[Worker].at = "next" /\ req[Worker].seen \ {k} \subseteq Made
      BY <1>0, <1>4 DEF PromoteDeferred, At, RowsOf
    <2> QED BY <1>r, <2>1, <2>2
  <1>5. CASE StartPublishFails
    <2>1. req' = [req EXCEPT ![Worker] = ToPromote] /\ req[Worker].at = "publish"
      BY <1>5 DEF StartPublishFails, At
    <2> QED BY <1>0, <2>1, PromoteBegins
  <1> QED BY <1>1, <1>2, <1>3, <1>4, <1>5

--------------------------------------------------------------------------------
\* Steps on the files: the table stays.
LEMMA DiskFrame ==
  ASSUME KeysInv, NEW h \in Handlers, Others(h), UNCHANGED <<status, ripe, txt, rotated>>,
         req'[h].retiring = {}, req'[h].at \notin Promoting, RowsOf(req'[h], Made),
         files' \cup map' \subseteq Made
  PROVE  /\ RowsInv' /\ LocksInv' /\ SoleActive' /\ Verified' /\ Table'
         /\ Active' = Active /\ Made' = Made
  <1>1. Made' = Made /\ Active' = Active
    BY DEF Made, Active
  <1>2. RowsInv'
    BY <1>1, RowsFrame DEF KeysInv, RowsInv
  <1>3. LocksSafe(h)
    BY <1>1, HoldsNothing DEF Promoting
  <1>4. LocksInv' /\ SoleActive'
    BY <1>1, <1>3, LocksFrame DEF KeysInv, SoleActive
  <1>5. Verified'
    BY VerifiedFrame DEF KeysInv, VerifiedSafe
  <1> QED BY <1>1, <1>2, <1>4, <1>5 DEF Others

LEMMA SyncSelectKeeps ==
  ASSUME KeysInv, NEW h \in Handlers, SyncSelect(h)
  PROVE  KeysInv'
  <1> DEFINE rows == {k \in Keys : status[k] \in {"pending", "published", "active"}}
  <1>1. PICK r : r = [req[h] EXCEPT !.at = "syncWrite", !.todo = rows]
    OBVIOUS
  <1>2. Table /\ Shape(req[h]) /\ RowsOf(req[h], Made) /\ (req[h].retiring # {} => req[h].at \in {"set", "commit"})
    BY DEF KeysInv, Table, RowsInv, LocksInv
  <1>3. req' = [req EXCEPT ![h] = r] /\ req[h].at = "sync" /\ UNCHANGED <<table, txt, disk>>
    BY <1>1, <1>2 DEF SyncSelect, Table
  <1>4. rows \subseteq Made /\ Active \subseteq rows
    BY DEF Made, Active
  <1> HIDE DEF rows
  <1>5. /\ Shape(r) /\ r.at = "syncWrite" /\ r.todo = rows /\ r.key = req[h].key
        /\ r.seen = req[h].seen /\ r.got = req[h].got /\ r.retiring = req[h].retiring
    BY <1>1, <1>2 DEF Shape
  <1>6. Others(h) /\ req'[h] = r
    BY <1>2, <1>3, <1>5, Moves
  <1>7. RowsOf(r, Made)
    BY <1>2, <1>4, <1>5 DEF RowsOf, Keyed, InTx
  <1>8. /\ RowsInv' /\ LocksInv' /\ SoleActive' /\ Verified' /\ Table' /\ Active' = Active
    <2>1. UNCHANGED <<status, ripe, txt, rotated>> /\ files' \cup map' \subseteq Made
      BY <1>3 DEF table, disk, KeysInv, RowsInv
    <2>2. r.retiring = {} /\ r.at \notin Promoting
      BY <1>2, <1>3, <1>5 DEF Promoting, InTx
    <2> QED BY <1>6, <1>7, <2>1, <2>2, DiskFrame
  <1>9. MapDue'
    BY <1>5, <1>6, MapFrame DEF KeysInv, MapSafe, Owing
  <1>10. FilesDue'
    BY <1>4, <1>5, <1>6, <1>8 DEF FilesDue, FileDue
  <1> QED BY <1>8, <1>9, <1>10 DEF KeysInv

LEMMA SyncWriteKeeps ==
  ASSUME KeysInv, NEW h \in Handlers, SyncWrite(h)
  PROVE  KeysInv'
  <1>1. Table /\ Shape(req[h]) /\ RowsOf(req[h], Made) /\ (req[h].retiring # {} => req[h].at \in {"set", "commit"})
        /\ files \cup map \subseteq Made
    BY DEF KeysInv, Table, RowsInv, LocksInv
  <1>2. req[h].at = "syncWrite" /\ UNCHANGED <<status, ripe, txt, rotated, map>>
    BY DEF SyncWrite, table
  <1>3. CASE req[h].todo = {}
    <2>1. Goto(h, "mapRead") /\ UNCHANGED <<files, crossed>>
      BY <1>3 DEF SyncWrite
    <2>2. Others(h) /\ Kept(h) /\ req'[h].at = "mapRead"
      BY <1>1, <2>1, Goes
    <2>3. RowsOf(req'[h], Made) /\ req'[h].retiring = {} /\ req'[h].at \notin Promoting
      BY <1>1, <1>2, <2>2 DEF RowsOf, Kept, Keyed, InTx, Promoting
    <2>4. RowsInv' /\ LocksInv' /\ SoleActive' /\ Verified' /\ Table' /\ Active' = Active
      BY <1>1, <1>2, <2>1, <2>2, <2>3, DiskFrame
    <2>5. MapDue'
      BY <2>2, MapFrame DEF KeysInv, MapSafe, Owing
    <2>6. FilesDue'
      BY <1>2, <1>3, <2>1, <2>2, <2>4 DEF FilesDue, FileDue, Others, KeysInv
    <2> QED BY <2>4, <2>5, <2>6 DEF KeysInv
  <1>4. CASE req[h].todo # {}
    <2>1. PICK k \in req[h].todo : /\ files' = files \cup {k} /\ crossed' = crossed \ {k}
                                   /\ req' = [req EXCEPT ![h].todo = @ \ {k}]
      BY <1>4 DEF SyncWrite
    <2>2. PICK r : r = [req[h] EXCEPT !.todo = req[h].todo \ {k}]
      OBVIOUS
    <2>3. req' = [req EXCEPT ![h] = r]
      BY <1>1, <2>1, <2>2 DEF Table
    <2>4. /\ Shape(r) /\ r.at = req[h].at /\ r.todo = req[h].todo \ {k} /\ r.key = req[h].key
          /\ r.seen = req[h].seen /\ r.got = req[h].got /\ r.retiring = req[h].retiring
      BY <1>1, <2>2 DEF Shape
    <2>5. Others(h) /\ req'[h] = r
      BY <1>1, <2>3, <2>4, Moves
    <2>6. RowsOf(r, Made) /\ k \in Made
      BY <1>1, <1>2, <2>1, <2>4 DEF RowsOf
    <2>7. r.retiring = {} /\ r.at \notin Promoting
      BY <1>1, <1>2, <2>4 DEF Promoting, InTx
    <2>8. RowsInv' /\ LocksInv' /\ SoleActive' /\ Verified' /\ Table' /\ Active' = Active
      BY <1>1, <1>2, <2>1, <2>5, <2>6, <2>7, DiskFrame
    <2>9. MapDue'
      BY <1>2, <2>4, <2>5, MapFrame DEF KeysInv, MapSafe, Owing
    <2>10. FilesDue'
      BY <1>2, <2>1, <2>4, <2>5, <2>8 DEF FilesDue, FileDue, Others, KeysInv
    <2> QED BY <2>8, <2>9, <2>10 DEF KeysInv
  <1> QED BY <1>3, <1>4

\* WriteKeyFile and Unlink: a file comes, or goes and is recorded unless the key is retired.
LEMMA KeyFileKeeps ==
  ASSUME KeysInv, NEW h \in Handlers, WriteKeyFile(h) \/ Unlink(h)
  PROVE  KeysInv'
  <1>1. Table /\ RowsOf(req[h], Made) /\ (req[h].retiring # {} => req[h].at \in {"set", "commit"})
        /\ files \cup map \subseteq Made
    BY DEF KeysInv, Table, RowsInv, LocksInv
  <1>2. /\ req[h].at \in {"file", "unlink"} /\ UNCHANGED <<status, ripe, txt, rotated, map, unsettled>>
        /\ Goto(h, "mapRead")
    BY DEF WriteKeyFile, Unlink, table, At
  <1>3. Others(h) /\ Kept(h) /\ req'[h].at = "mapRead"
    BY <1>1, <1>2, Goes
  <1>4. RowsOf(req'[h], Made) /\ req'[h].retiring = {} /\ req'[h].at \notin Promoting /\ req[h].key \in Made
    BY <1>1, <1>2, <1>3 DEF RowsOf, Kept, Keyed, InTx, Promoting
  <1>5. files' \subseteq files \cup {req[h].key}
    BY DEF WriteKeyFile, Unlink
  <1>6. RowsInv' /\ LocksInv' /\ SoleActive' /\ Verified' /\ Table' /\ Active' = Active
    BY <1>1, <1>2, <1>3, <1>4, <1>5, DiskFrame
  <1>7. MapDue'
    BY <1>3, MapFrame DEF KeysInv, MapSafe, Owing
  <1>8. \A k \in Active : k \in files \cup crossed => k \in files' \cup crossed'
    BY DEF WriteKeyFile, Unlink, Active
  <1>9. FilesDue'
    BY <1>2, <1>3, <1>6, <1>8 DEF FilesDue, FileDue, Others, KeysInv
  <1> QED BY <1>6, <1>7, <1>9 DEF KeysInv

\* h goes on with r, and the rebuilds it meets are no longer alone.
LEMMA Meets ==
  ASSUME Table, NEW h \in Handlers, NEW r, Shape(r), Meeting(h, r)
  PROVE  /\ Table' /\ req'[h] = r
         /\ \A g \in Handlers : g # h =>
              /\ req'[g].at = req[g].at /\ req'[g].key = req[g].key /\ req'[g].seen = req[g].seen /\ req'[g].got = req[g].got
              /\ req'[g].retiring = req[g].retiring /\ req'[g].todo = req[g].todo
              /\ req[g].at = "mapWrite" => ~req'[g].alone
  <1>1. req' = [g \in Handlers |-> IF g = h THEN r ELSE [req[g] EXCEPT !.alone = req[g].alone /\ req[g].at # "mapWrite"]]
    BY DEF Meeting
  <1>2. req'[h] = r /\ req' = [g \in Handlers |-> req'[g]]
    BY <1>1
  <1>3. ASSUME NEW g \in Handlers, g # h
        PROVE  /\ Shape(req'[g])
               /\ req'[g].at = req[g].at /\ req'[g].key = req[g].key /\ req'[g].seen = req[g].seen /\ req'[g].got = req[g].got
               /\ req'[g].retiring = req[g].retiring /\ req'[g].todo = req[g].todo
               /\ req[g].at = "mapWrite" => ~req'[g].alone
    <2>1. PICK b : b = (req[g].alone /\ req[g].at # "mapWrite")
      OBVIOUS
    <2>2. req'[g] = [req[g] EXCEPT !.alone = b] /\ (req[g].at = "mapWrite" => ~b)
      BY <1>1, <1>3, <2>1
    <2>3. Shape(req[g])
      BY DEF Table
    <2> QED BY <2>2, <2>3 DEF Shape
  <1>4. \A g \in Handlers : Shape(req'[g])
    BY <1>2, <1>3
  <1> QED BY <1>2, <1>3, <1>4 DEF Table

\* rebuildSelectorMap reads: the rebuilds it meets, and it itself then, are no longer alone.
LEMMA MapReadKeeps ==
  ASSUME KeysInv, NEW h \in Handlers, MapRead(h)
  PROVE  KeysInv'
  <1>0. PICK b : b = \A g \in Handlers \ {h} : req[g].at # "mapWrite"
    OBVIOUS
  <1>1. PICK r : r = [req[h] EXCEPT !.at = "mapWrite", !.got = Active, !.alone = b]
    OBVIOUS
  <1>a. Meeting(h, r) /\ req[h].at = "mapRead" /\ UNCHANGED <<table, txt, disk>>
    BY <1>0, <1>1 DEF MapRead
  <1>b. /\ Shape(r) /\ r.key = req[h].key /\ r.seen = req[h].seen /\ r.retiring = req[h].retiring
        /\ r.todo = req[h].todo /\ r.at = "mapWrite" /\ r.got = Active
    <2>1. Shape(req[h])
      BY DEF KeysInv, Table
    <2> QED BY <1>1, <2>1 DEF Shape
  <1>t. Table' /\ req'[h] = r
    BY <1>a, <1>b, Meets DEF KeysInv
  <1>2. ASSUME NEW g \in Handlers
        PROVE  /\ req'[g].key = req[g].key /\ req'[g].seen = req[g].seen
               /\ req'[g].retiring = req[g].retiring /\ req'[g].todo = req[g].todo
               /\ g # h => /\ req'[g].at = req[g].at /\ req'[g].got = req[g].got
                           /\ req[g].at = "mapWrite" => ~req'[g].alone
               /\ g = h => req'[g].at = "mapWrite" /\ req'[g].got = Active
    <2>1. CASE g = h
      BY <1>b, <1>t, <2>1
    <2>2. CASE g # h
      BY <1>a, <1>b, <2>2, Meets DEF KeysInv
    <2> QED BY <2>1, <2>2
  <1>3. Made' = Made /\ Active' = Active /\ UNCHANGED <<status, txt, files, map, ripe, crossed, rotated, unsettled>>
    BY <1>a DEF Made, Active, table, disk
  <1>4. RowsInv'
    <2>1. ASSUME NEW g \in Handlers PROVE RowsOf(req'[g], Made)
      <3>1. RowsOf(req[g], Made) /\ Active \subseteq Made
        BY DEF KeysInv, RowsInv, Active, Made
      <3> QED BY <1>a, <1>2, <3>1 DEF RowsOf, Keyed, InTx
    <2> QED BY <1>3, <2>1 DEF KeysInv, RowsInv
  <1>5. LocksInv'
    <2>1. \A g \in Handlers : Holds(g)' = Holds(g)
      BY <1>a, <1>2 DEF Holds, InTx
    <2>2. \A g \in Handlers : req'[g].at = "commit" => req[g].at = "commit" /\ (IndexAdmits(g) => IndexAdmits(g)')
      BY <1>2, <1>3 DEF IndexAdmits
    <2>3. \A g \in Handlers : req'[g].retiring # {} => req'[g].at \in {"set", "commit"}
      BY <1>a, <1>2 DEF KeysInv, LocksInv
    <2> QED BY <2>1, <2>2, <2>3 DEF KeysInv, LocksInv
  <1>6. SoleActive'
    BY <1>3 DEF KeysInv, SoleActive
  <1>7. Verified'
    <2>1. Worker \in Handlers
      BY DEF Handlers
    <2> QED BY <1>a, <1>2, <1>3, <2>1 DEF KeysInv, Verified, Promoting, InTx
  <1>8. MapDue'
    BY <1>2, <1>3 DEF MapDue
  <1>9. FilesDue'
    BY <1>a, <1>2, <1>3 DEF KeysInv, FilesDue, FileDue
  <1> QED BY <1>t, <1>4, <1>5, <1>6, <1>7, <1>8, <1>9 DEF KeysInv

\* ... and writes: what it read alone is what the table holds, unless someone still owes a rebuild.
LEMMA MapWriteKeeps ==
  ASSUME KeysInv, NEW h \in Handlers, MapWrite(h)
  PROVE  KeysInv'
  <1>1. PICK r : r = IF req[h].op = "start" THEN ToPromote ELSE NextRow(req[h].seen)
    OBVIOUS
  <1>2. /\ req' = [req EXCEPT ![h] = r] /\ req[h].at = "mapWrite" /\ map' = req[h].got
        /\ unsettled' = ~req[h].alone /\ UNCHANGED <<status, ripe, txt, rotated, files, crossed>>
    BY <1>1 DEF MapWrite, table
  <1>3. Bare(r) /\ r.at \in {"idle", "next", "select"} /\ r.seen \subseteq req[h].seen
    <2>1. PICK p : p = [Idle EXCEPT !.op = "promote", !.at = "select"]
      OBVIOUS
    <2>2. Bare(p) /\ p.seen = {} /\ p.at = "select"
      BY <2>1, FreshIdle DEF Bare, Shape
    <2>3. ToPromote = p
      BY <2>1 DEF ToPromote
    <2> QED BY <1>1, <2>2, <2>3, FreshRow
  <1>4. Others(h) /\ req'[h] = r
    BY <1>2, <1>3, Moves DEF KeysInv, Bare
  <1>5. RowsOf(req[h], Made) /\ files \subseteq Made
    BY DEF KeysInv, RowsInv
  <1>6. RowsOf(r, Made) /\ r.retiring = {} /\ r.at \notin Promoting /\ req[h].got \subseteq Made
    BY <1>3, <1>5 DEF RowsOf, Bare, Keyed, InTx, Promoting
  <1>7. RowsInv' /\ LocksInv' /\ SoleActive' /\ Verified' /\ Table' /\ Active' = Active
    BY <1>2, <1>4, <1>5, <1>6, DiskFrame
  <1>8. FilesDue'
    BY <1>2, <1>4, <1>7, FilesFrame DEF KeysInv, FilesSafe
  <1>9. ASSUME \A g \in Handlers : req'[g].at \notin Owing
        PROVE  /\ \A g \in Handlers : req'[g].at = "mapWrite" /\ req'[g].alone => req'[g].got = Active'
               /\ unsettled' \/ map' = Active'
    <2>1. \A g \in Handlers : req[g].at \notin Owing
      BY <1>2, <1>4, <1>9 DEF Others, Owing
    <2>2. \A g \in Handlers : req[g].at = "mapWrite" /\ req[g].alone => req[g].got = Active
      BY <2>1 DEF KeysInv, MapDue
    <2>3. \A g \in Handlers : req'[g].at = "mapWrite" => req'[g] = req[g]
      BY <1>3, <1>4 DEF Others
    <2> QED BY <1>2, <1>7, <2>2, <2>3
  <1> QED BY <1>7, <1>8, <1>9 DEF KeysInv, MapDue

\* A sync skips a key: it is recorded unless its file is there.
LEMMA SyncSkipsKeeps ==
  ASSUME KeysInv, NEW h \in Handlers, SyncSkips(h)
  PROVE  KeysInv'
  <1>1. Table /\ Shape(req[h]) /\ RowsOf(req[h], Made) /\ (req[h].retiring # {} => req[h].at \in {"set", "commit"})
        /\ files \cup map \subseteq Made
    BY DEF KeysInv, Table, RowsInv, LocksInv
  <1>2. req[h].at = "syncWrite" /\ UNCHANGED <<status, ripe, txt, rotated, map, files>>
    BY DEF SyncSkips, table
  <1>3. PICK k \in req[h].todo : crossed' = crossed \cup ({k} \ files) /\ req' = [req EXCEPT ![h].todo = @ \ {k}]
    BY DEF SyncSkips
  <1>4. PICK r : r = [req[h] EXCEPT !.todo = req[h].todo \ {k}]
    OBVIOUS
  <1>5. req' = [req EXCEPT ![h] = r]
    BY <1>1, <1>3, <1>4 DEF Table
  <1>6. /\ Shape(r) /\ r.at = req[h].at /\ r.todo = req[h].todo \ {k} /\ r.key = req[h].key
        /\ r.seen = req[h].seen /\ r.got = req[h].got /\ r.retiring = req[h].retiring
    BY <1>1, <1>4 DEF Shape
  <1>7. Others(h) /\ req'[h] = r
    BY <1>1, <1>5, <1>6, Moves
  <1>8. RowsOf(r, Made) /\ r.retiring = {} /\ r.at \notin Promoting
    BY <1>1, <1>2, <1>6 DEF RowsOf, Promoting, InTx
  <1>9. RowsInv' /\ LocksInv' /\ SoleActive' /\ Verified' /\ Table' /\ Active' = Active
    BY <1>1, <1>2, <1>7, <1>8, DiskFrame
  <1>10. MapDue'
    BY <1>2, <1>6, <1>7, MapFrame DEF KeysInv, MapSafe, Owing
  <1>11. FilesDue'
    BY <1>2, <1>3, <1>6, <1>7, <1>9 DEF FilesDue, FileDue, Others, KeysInv
  <1> QED BY <1>9, <1>10, <1>11 DEF KeysInv

LEMMA UnlinkFailsKeeps ==
  ASSUME KeysInv, NEW h \in Handlers, UnlinkFails(h)
  PROVE  KeysInv'
  <1>1. Table /\ RowsOf(req[h], Made) /\ (req[h].retiring # {} => req[h].at \in {"set", "commit"})
    BY DEF KeysInv, RowsInv, LocksInv
  <1>2. Inside /\ req[h].at = "unlink" /\ Goto(h, "mapRead")
    BY DEF UnlinkFails, At, Inside, table, disk
  <1>3. Others(h) /\ Kept(h) /\ req'[h].at = "mapRead"
    BY <1>1, <1>2, Goes
  <1>4. RowsOf(req'[h], Made) /\ req'[h].retiring = {} /\ req'[h].at \notin Promoting
    BY <1>1, <1>2, <1>3 DEF RowsOf, Kept, Keyed, InTx, Promoting
  <1>5. LocksSafe(h)
    BY <1>2, <1>3, <1>4, HoldsNothing DEF Inside, Active, Promoting
  <1> QED BY <1>2, <1>3, <1>4, <1>5, Internal DEF Owing

\* A rebuild or a sync fails: the map counts as unsettled, the rebuilds it met as overlapped, and the
\* files a sync owed as missing.
LEMMA DiskFailsKeeps ==
  ASSUME KeysInv, NEW h \in Handlers, DiskFails(h)
  PROVE  KeysInv'
  <1>0. PICK r : r = IF req[h].op = "start" THEN ToPromote ELSE Idle
    OBVIOUS
  <1>1. /\ Meeting(h, r) /\ req[h].at \in {"sync", "file", "mapRead", "mapWrite"} /\ unsettled' = TRUE
        /\ map' \subseteq map /\ UNCHANGED <<status, ripe, txt, rotated, files>>
        /\ crossed' = IF req[h].at = "sync" THEN crossed \cup (Active \ files) ELSE crossed
    BY <1>0 DEF DiskFails, table
  <1>2. Bare(r) /\ r.at \in {"idle", "select"} /\ r.seen = {}
    <2>1. PICK p : p = [Idle EXCEPT !.op = "promote", !.at = "select"]
      OBVIOUS
    <2>2. Bare(p) /\ p.seen = {} /\ p.at = "select"
      BY <2>1, FreshIdle DEF Bare, Shape
    <2>3. ToPromote = p
      BY <2>1 DEF ToPromote
    <2> QED BY <1>0, <2>2, <2>3, FreshIdle
  <1>3. Table' /\ req'[h] = r
    BY <1>1, <1>2, Meets DEF KeysInv, Bare
  <1>4. \A g \in Handlers : g # h =>
              /\ req'[g].at = req[g].at /\ req'[g].key = req[g].key /\ req'[g].seen = req[g].seen /\ req'[g].got = req[g].got
              /\ req'[g].retiring = req[g].retiring /\ req'[g].todo = req[g].todo
              /\ req[g].at = "mapWrite" => ~req'[g].alone
    BY <1>1, <1>2, Meets DEF KeysInv, Bare
  <1>5. Made' = Made /\ Active' = Active
    BY <1>1 DEF Made, Active
  <1>6. RowsInv'
    <2>1. ASSUME NEW g \in Handlers PROVE RowsOf(req'[g], Made)
      <3>1. CASE g = h
        BY <1>2, <1>3, <3>1 DEF RowsOf, Bare, Keyed, InTx
      <3>2. CASE g # h
        BY <1>4, <3>2 DEF KeysInv, RowsInv, RowsOf
      <3> QED BY <3>1, <3>2
    <2> QED BY <1>1, <1>5, <2>1 DEF KeysInv, RowsInv
  <1>7. LocksInv'
    <2>1. \A g \in Handlers : Holds(g)' = Holds(g)
      BY <1>1, <1>2, <1>3, <1>4 DEF Holds, InTx
    <2>2. \A g \in Handlers : req'[g].at = "commit" => req[g].at = "commit" /\ (IndexAdmits(g) => IndexAdmits(g)')
      BY <1>2, <1>3, <1>4, <1>5 DEF IndexAdmits
    <2>3. \A g \in Handlers : req'[g].retiring # {} => req'[g].at \in {"set", "commit"}
      BY <1>2, <1>3, <1>4 DEF KeysInv, LocksInv, Bare
    <2> QED BY <2>1, <2>2, <2>3 DEF KeysInv, LocksInv
  <1>8. SoleActive'
    BY <1>5 DEF KeysInv, SoleActive
  <1>9. Verified'
    <2>1. Worker \in Handlers
      BY DEF Handlers
    <2> QED BY <1>1, <1>2, <1>3, <1>4, <2>1 DEF KeysInv, Verified, Promoting, InTx
  <1>10. MapDue'
    BY <1>1, <1>2, <1>3, <1>4 DEF MapDue
  <1>11. FilesDue'
    <2>1. ASSUME NEW k \in Active PROVE FileDue(k)'
      <3>1. FileDue(k)
        BY DEF KeysInv, FilesDue
      <3>2. CASE req[h].at = "sync"
        BY <1>1, <3>2 DEF FileDue
      <3>3. CASE req[h].at # "sync"
        BY <1>1, <1>4, <3>1, <3>3 DEF FileDue
      <3> QED BY <3>2, <3>3
    <2> QED BY <1>5, <2>1 DEF FilesDue
  <1> QED BY <1>3, <1>6, <1>7, <1>8, <1>9, <1>10, <1>11 DEF KeysInv

--------------------------------------------------------------------------------
\* Steps on the table.
LEMMA RetireUpdateKeeps ==
  ASSUME KeysInv, NEW h \in Handlers, RetireUpdate(h)
  PROVE  KeysInv'
  <1>1. Table /\ RowsInv /\ RowsOf(req[h], Made) /\ (req[h].retiring # {} => req[h].at \in {"set", "commit"})
    BY DEF KeysInv, RowsInv, LocksInv
  <1>2. /\ req[h].at = "update" /\ Goto(h, "unlink") /\ UNCHANGED <<ripe, rotated, txt, disk>>
        /\ status' = [status EXCEPT ![req[h].key] = "retired"]
    BY DEF RetireUpdate, At
  <1>3. Others(h) /\ Kept(h) /\ req'[h].at = "unlink" /\ req[h].key \in Made
    BY <1>1, <1>2, Goes DEF RowsOf, Keyed
  <1>4. /\ Made' = Made /\ Active' \subseteq Active
        /\ status' \in [Keys -> {"none", "pending", "published", "active", "retired"}]
    BY <1>1, <1>2, <1>3 DEF Made, Active, RowsInv
  <1>5. RowsOf(req'[h], Made)
    BY <1>1, <1>2, <1>3 DEF RowsOf, Kept, Keyed, InTx
  <1>6. RowsInv'
    BY <1>1, <1>2, <1>3, <1>4, <1>5, RowsFrame DEF RowsInv, disk
  <1>7. LocksInv' /\ SoleActive'
    <2>1. LocksSafe(h)
      BY <1>1, <1>2, <1>3, <1>4, HoldsNothing DEF Kept, InTx
    <2> QED BY <1>3, <1>4, <2>1, LocksFrame DEF KeysInv, SoleActive
  <1>8. Verified'
    BY <1>2, <1>3, VerifiedFrame DEF KeysInv, VerifiedSafe, Promoting, InTx
  <1>9. MapDue' /\ FilesDue'
    BY <1>2, <1>3, <1>4, MapFrame, FilesFrame DEF KeysInv, MapSafe, FilesSafe, Owing, disk
  <1> QED BY <1>3, <1>6, <1>7, <1>8, <1>9 DEF KeysInv, Others

\* The COMMIT leaves the transaction's key as the only active one: the index admitted it, and no
\* other transaction got past the index since.
LEMMA CommitKeeps ==
  ASSUME KeysInv, NEW h \in Handlers, TxCommit(h)
  PROVE  KeysInv'
  <1>1. Table /\ Shape(req[h]) /\ RowsInv /\ RowsOf(req[h], Made)
    BY DEF KeysInv, RowsInv, Table
  <1>2. PICK r : r = [req[h] EXCEPT !.at = "sync", !.retiring = {}]
    OBVIOUS
  <1>3. /\ req' = [req EXCEPT ![h] = r] /\ req[h].at = "commit" /\ UNCHANGED <<ripe, txt, disk>>
        /\ status' = [k \in Keys |-> IF k = req[h].key THEN "active"
                                     ELSE IF k \in req[h].retiring THEN "retired" ELSE status[k]]
        /\ rotated' = IF h = Worker THEN rotated \cup {req[h].key} ELSE rotated \ {req[h].key}
    BY <1>1, <1>2 DEF TxCommit, Table
  <1>4. /\ Shape(r) /\ r.at = "sync" /\ r.retiring = {} /\ r.key = req[h].key
        /\ r.seen = req[h].seen /\ r.got = req[h].got /\ r.todo = req[h].todo
    BY <1>1, <1>2 DEF Shape
  <1>5. Others(h) /\ req'[h] = r
    BY <1>1, <1>3, <1>4, Moves
  <1>6. req[h].key \in Made /\ IndexAdmits(h)
    BY <1>1, <1>3 DEF RowsOf, Keyed, InTx, KeysInv, LocksInv
  <1>7. /\ Made \subseteq Made' /\ Active' = {req[h].key}
        /\ status' \in [Keys -> {"none", "pending", "published", "active", "retired"}]
    BY <1>1, <1>3, <1>6 DEF Made, Active, RowsInv, IndexAdmits
  <1>8. RowsOf(r, Made')
    BY <1>1, <1>4, <1>7 DEF RowsOf, Keyed, InTx
  <1>9. RowsInv'
    BY <1>1, <1>3, <1>5, <1>7, <1>8, RowsFrame DEF RowsInv, disk
  <1>10. LocksInv' /\ SoleActive'
    <2>1. LocksSafe(h)
      BY <1>3, <1>4, <1>5, HoldsNothing DEF InTx
    <2> QED BY <1>5, <1>7, <2>1, LocksFrame DEF KeysInv, SoleActive
  <1>11. Verified'
    <2>1. h = Worker => txt[req[h].key] = "resolves"
      BY <1>3 DEF KeysInv, Verified, Promoting, InTx
    <2>2. VerifiedSafe(h)
      BY <1>3, <1>4, <1>5, <1>6, <2>1 DEF VerifiedSafe, Promoting, InTx, Made
    <2> QED BY <1>5, <2>2, VerifiedFrame DEF KeysInv
  <1>12. MapDue' /\ FilesDue'
    BY <1>4, <1>5, MapFrame, FilesFrame DEF KeysInv, MapSafe, FilesSafe, Owing
  <1> QED BY <1>5, <1>9, <1>10, <1>11, <1>12 DEF KeysInv, Others

\* A new row, which is not active.
LEMMA InsertFrame ==
  ASSUME KeysInv, NEW k \in Keys, status[k] = "none", NEW s \in {"pending", "published"},
         status' = [status EXCEPT ![k] = s]
  PROVE  /\ status' \in [Keys -> {"none", "pending", "published", "active", "retired"}]
         /\ Made' = Made \cup {k} /\ Active' = Active
  BY DEF KeysInv, RowsInv, Made, Active

LEMMA GenerateKeeps ==
  ASSUME HandlersAssumption, KeysInv, NEW h \in Consoles, Generate(h)
  PROVE  KeysInv'
  <1>1. PICK k \in Keys : /\ status[k] = "none" /\ status' = [status EXCEPT ![k] = "pending"]
                          /\ Request(h, [Idle EXCEPT !.op = "generate", !.at = "file", !.key = k])
    BY DEF Generate
  <1>2. PICK r : r = [Idle EXCEPT !.op = "generate", !.at = "file", !.key = k]
    OBVIOUS
  <1>3. Bare(r) /\ r.seen = {} /\ r.at = "file" /\ r.key = k
    BY <1>2, FreshIdle DEF Bare, Shape
  <1>4. /\ req' = [req EXCEPT ![h] = r] /\ req[h].at = "idle" /\ h \in Handlers /\ h # Worker
        /\ UNCHANGED <<ripe, txt, rotated, disk>>
    BY <1>1, <1>2, FreshIdle DEF Request, Generate, Handlers, HandlersAssumption
  <1>5. Others(h) /\ req'[h] = r
    BY <1>3, <1>4, Moves DEF KeysInv, Bare
  <1>6. /\ status' \in [Keys -> {"none", "pending", "published", "active", "retired"}]
        /\ Made' = Made \cup {k} /\ Active' = Active
    BY <1>1, InsertFrame
  <1>7. RowsOf(r, Made')
    BY <1>3, <1>6 DEF RowsOf, Bare, Keyed, InTx
  <1>8. RowsInv'
    BY <1>4, <1>5, <1>6, <1>7, RowsFrame DEF KeysInv, RowsInv, disk
  <1>9. LocksInv' /\ SoleActive'
    <2>1. LocksSafe(h)
      BY <1>3, <1>4, <1>5, <1>6, HoldsNothing DEF Bare, InTx
    <2> QED BY <1>4, <1>5, <1>6, <2>1, LocksFrame DEF KeysInv, SoleActive
  <1>10. Verified'
    BY <1>4, <1>5, VerifiedFrame DEF KeysInv, VerifiedSafe
  <1>11. MapDue' /\ FilesDue'
    BY <1>3, <1>4, <1>5, <1>6, MapFrame, FilesFrame DEF KeysInv, MapSafe, FilesSafe, Owing, disk
  <1> QED BY <1>5, <1>8, <1>9, <1>10, <1>11 DEF KeysInv, Others

LEMMA StartInsertKeeps ==
  ASSUME KeysInv, StartInsert
  PROVE  KeysInv'
  <1>1. /\ Worker \in Handlers /\ req[Worker].at = "insert" /\ UNCHANGED <<ripe, txt, rotated, disk>>
        /\ Table /\ RowsOf(req[Worker], Made)
        /\ (req[Worker].retiring # {} => req[Worker].at \in {"set", "commit"})
    BY DEF StartInsert, At, Handlers, KeysInv, RowsInv, LocksInv
  <1>2. CASE status[req[Worker].key] # "none"
    BY <1>1, <1>2, PromoteBegins DEF StartInsert, Inside, disk
  <1>3. CASE status[req[Worker].key] = "none"
    <2>1. PICK k \in Keys : k = req[Worker].key
      BY <1>1 DEF RowsOf
    <2>2. status' = [status EXCEPT ![k] = "published"] /\ Goto(Worker, "publish")
      BY <1>3, <2>1 DEF StartInsert
    <2>3. Others(Worker) /\ Kept(Worker) /\ req'[Worker].at = "publish"
      BY <1>1, <2>2, Goes
    <2>4. /\ status' \in [Keys -> {"none", "pending", "published", "active", "retired"}]
          /\ Made' = Made \cup {k} /\ Active' = Active
      BY <1>3, <2>1, <2>2, InsertFrame
    <2>5. RowsOf(req'[Worker], Made')
      BY <1>1, <2>1, <2>3, <2>4 DEF RowsOf, Kept, Keyed, InTx
    <2>6. RowsInv'
      BY <1>1, <2>3, <2>4, <2>5, RowsFrame DEF KeysInv, RowsInv, disk
    <2>7. LocksInv' /\ SoleActive'
      <3>1. LocksSafe(Worker)
        BY <1>1, <2>3, <2>4, HoldsNothing DEF Kept, InTx
      <3> QED BY <1>1, <2>3, <2>4, <3>1, LocksFrame DEF KeysInv, SoleActive
    <2>8. Verified'
      BY <1>1, <2>3, VerifiedFrame DEF KeysInv, VerifiedSafe, Promoting, InTx
    <2>9. MapDue' /\ FilesDue'
      BY <1>1, <2>3, <2>4, MapFrame, FilesFrame DEF KeysInv, MapSafe, FilesSafe, Owing, disk
    <2> QED BY <2>3, <2>6, <2>7, <2>8, <2>9 DEF KeysInv, Others
  <1> QED BY <1>2, <1>3

--------------------------------------------------------------------------------
\* Records appear and propagate; they do not go away.
LEMMA StartPublishKeeps ==
  ASSUME KeysInv, StartPublish
  PROVE  KeysInv'
  <1>1. /\ Worker \in Handlers /\ req[Worker].at = "publish" /\ UNCHANGED <<table, disk>>
        /\ Goto(Worker, "file") /\ Table /\ RowsInv /\ RowsOf(req[Worker], Made)
        /\ (req[Worker].retiring # {} => req[Worker].at \in {"set", "commit"})
    BY DEF StartPublish, At, Handlers, KeysInv, RowsInv, LocksInv
  <1>2. Others(Worker) /\ Kept(Worker) /\ req'[Worker].at = "file"
    BY <1>1, Goes
  <1>3. Made' = Made /\ Active' = Active
    BY <1>1 DEF Made, Active, table
  <1>4. PICK k : k = req[Worker].key
    OBVIOUS
  <1>5. txt' = [txt EXCEPT ![k] = IF txt[k] = "none" THEN "published" ELSE txt[k]]
    BY <1>4 DEF StartPublish
  <1>6. /\ txt' \in [Keys -> {"none", "published", "resolves"}]
        /\ \A j \in Keys : txt[j] = "resolves" => txt'[j] = "resolves"
    BY <1>1, <1>5 DEF RowsInv
  <1>7. RowsOf(req'[Worker], Made')
    BY <1>1, <1>2, <1>3 DEF RowsOf, Kept, Keyed, InTx
  <1>8. RowsInv'
    BY <1>1, <1>2, <1>3, <1>6, <1>7, RowsFrame DEF RowsInv, disk, table
  <1>9. LocksInv' /\ SoleActive'
    <2>1. LocksSafe(Worker)
      BY <1>1, <1>2, <1>3, HoldsNothing DEF Kept, InTx
    <2> QED BY <1>1, <1>2, <1>3, <2>1, LocksFrame DEF KeysInv, SoleActive
  <1>10. Verified'
    BY <1>1, <1>2, <1>6, VerifiedFrame DEF KeysInv, VerifiedSafe, Promoting, InTx, table
  <1>11. MapDue' /\ FilesDue'
    BY <1>1, <1>2, <1>3, MapFrame, FilesFrame DEF KeysInv, MapSafe, FilesSafe, Owing, disk
  <1> QED BY <1>2, <1>8, <1>9, <1>10, <1>11 DEF KeysInv, Others

LEMMA WorldFrame ==
  ASSUME KeysInv, UNCHANGED <<status, req, files, map, crossed, unsettled, rotated>>,
         ripe' \subseteq Made, txt' \in [Keys -> {"none", "published", "resolves"}],
         \A k \in Keys : txt[k] = "resolves" => txt'[k] = "resolves"
  PROVE  KeysInv'
  <1>1. Made' = Made /\ Active' = Active
    BY DEF Made, Active
  <1>2. RowsInv' /\ Table'
    BY <1>1 DEF KeysInv, RowsInv, Table
  <1>3. LocksInv' /\ SoleActive'
    <2>1. \A h \in Handlers : Holds(h)' = Holds(h) /\ IndexAdmits(h)' = IndexAdmits(h)
      BY <1>1 DEF Holds, IndexAdmits
    <2> QED BY <1>1, <2>1 DEF KeysInv, LocksInv, SoleActive
  <1>4. Verified'
    <2>1. req[Worker].at \in Promoting => req[Worker].key \in Keys
      BY DEF KeysInv, RowsInv, RowsOf, Keyed, Promoting, Made, Handlers
    <2> QED BY <2>1 DEF KeysInv, Verified
  <1>5. MapDue' /\ FilesDue'
    BY <1>1 DEF KeysInv, MapDue, FilesDue, FileDue
  <1> QED BY <1>2, <1>3, <1>4, <1>5 DEF KeysInv

LEMMA WorldKeeps ==
  ASSUME KeysInv, SyncToProvider \/ (\E k \in Keys : Ripens(k) \/ Propagates(k)) \/ UNCHANGED vars
  PROVE  KeysInv'
  <1>0. RowsInv
    BY DEF KeysInv
  <1>1. CASE SyncToProvider
    <2>1. /\ txt' \in [Keys -> {"none", "published", "resolves"}] /\ ripe' \subseteq Made
          /\ \A k \in Keys : txt[k] = "resolves" => txt'[k] = "resolves"
      BY <1>0, <1>1 DEF SyncToProvider, RowsInv, table
    <2> QED BY <1>1, <2>1, WorldFrame DEF SyncToProvider, table, disk
  <1>2. ASSUME NEW k \in Keys, Ripens(k) PROVE KeysInv'
    <2>1. ripe' \subseteq Made
      BY <1>0, <1>2 DEF Ripens, RowsInv, Made
    <2> QED BY <1>0, <1>2, <2>1, WorldFrame DEF Ripens, disk, RowsInv
  <1>3. ASSUME NEW k \in Keys, Propagates(k) PROVE KeysInv'
    <2>1. /\ txt' \in [Keys -> {"none", "published", "resolves"}] /\ ripe' \subseteq Made
          /\ \A j \in Keys : txt[j] = "resolves" => txt'[j] = "resolves"
      BY <1>0, <1>3 DEF Propagates, RowsInv, table
    <2> QED BY <1>3, <2>1, WorldFrame DEF Propagates, table, disk
  <1>4. CASE UNCHANGED vars
    BY <1>0, <1>4, WorldFrame DEF vars, RowsInv
  <1> QED BY <1>1, <1>2, <1>3, <1>4

--------------------------------------------------------------------------------
LEMMA KeysInit ==
  ASSUME HandlersAssumption, Init
  PROVE  KeysInv
  <1>1. PICK K \in {{}, {First}} : /\ status = [k \in Keys |-> IF k \in K THEN "active" ELSE "none"]
                                   /\ txt = [k \in Keys |-> IF k \in K THEN "resolves" ELSE "none"]
                                   /\ files = K /\ map = K
    BY DEF Init
  <1>2. \A h \in Handlers : req[h] = Idle
    BY DEF Init
  <1>3. req = [h \in Handlers |-> Idle] /\ ripe = {} /\ rotated = {} /\ Worker \in Handlers
    BY DEF Init, Handlers
  <1>4. Active = K /\ Made = K /\ K \subseteq Keys
    BY <1>1 DEF Active, Made, HandlersAssumption
  <1>5. Table
    BY <1>2, <1>3, FreshIdle DEF Table, Bare
  <1>6. RowsInv
    <2>1. \A h \in Handlers : RowsOf(req[h], Made)
      BY <1>2, FreshIdle DEF RowsOf, Bare, Keyed, InTx
    <2> QED BY <1>1, <1>3, <1>4, <2>1 DEF RowsInv
  <1>7. LocksInv
    BY <1>2, FreshIdle DEF LocksInv, Holds, Bare, InTx
  <1>8. SoleActive
    BY <1>1, <1>4 DEF SoleActive
  <1>9. Verified
    BY <1>2, <1>3, FreshIdle DEF Verified, Promoting, InTx
  <1>10. MapDue
    BY <1>1, <1>2, <1>4, FreshIdle DEF MapDue
  <1>11. FilesDue
    BY <1>1, <1>4 DEF FilesDue, FileDue
  <1> QED BY <1>5, <1>6, <1>7, <1>8, <1>9, <1>10, <1>11 DEF KeysInv

LEMMA KeysStep ==
  ASSUME HandlersAssumption, KeysInv, [Next]_vars
  PROVE  KeysInv'
  <1>1. ASSUME NEW h \in Handlers, Step(h) PROVE KeysInv'
    BY <1>1, SyncSelectKeeps, SyncWriteKeeps, KeyFileKeeps, MapReadKeeps, MapWriteKeeps, RetireUpdateKeeps,
       TxKeeps, CommitKeeps DEF Step
  <1>2. CASE Tick
    BY <1>2, TickKeeps, StartInsertKeeps, StartPublishKeeps DEF Tick
  <1> QED BY <1>1, <1>2, CrashKeeps, SyncSkipsKeeps, UnlinkFailsKeeps, DiskFailsKeeps, GenerateKeeps, AskingKeeps, TickKeeps, WorldKeeps DEF Next

\* What the runs check follows.
LEMMA KeysSafe ==
  ASSUME KeysInv
  PROVE  TypeOK /\ OneActive /\ DiskFollowsTable /\ RotationIsVerified
  <1>1. TypeOK
    BY DEF KeysInv, RowsInv, LocksInv, TypeOK, Made
  <1>2. OneActive
    <2>1. CASE Active = {}
      BY <2>1, FS_EmptySet DEF OneActive
    <2>2. CASE Active # {}
      <3>1. PICK k : Active = {k}
        BY <2>2 DEF KeysInv, SoleActive
      <3> QED BY <3>1, FS_Singleton DEF OneActive
    <2> QED BY <2>1, <2>2
  <1>3. ASSUME Quiet, ~unsettled PROVE map = Active /\ map \ crossed \subseteq files
    <2>1. \A h \in Handlers : req[h].at \notin Owing /\ req[h].at # "mapWrite"
      BY <1>3 DEF Quiet, Owing
    <2>2. map = Active
      BY <1>3, <2>1 DEF KeysInv, MapDue
    <2>3. \A k \in Active : k \in files \cup crossed
      BY <2>1 DEF KeysInv, FilesDue, FileDue, Owing
    <2> QED BY <2>2, <2>3
  <1>4. RotationIsVerified
    BY DEF KeysInv, Verified, RotationIsVerified
  <1> QED BY <1>1, <1>2, <1>3, <1>4 DEF DiskFollowsTable, MapIsCurrent, MapHasFiles

\* An active key goes only when a COMMIT puts another in its place or a console request retires it.
LEMMA ActiveKept ==
  ASSUME HandlersAssumption, KeysInv, [Next]_vars
  PROVE  KeepsAnActive
  <1>0. SUFFICES ASSUME Active # {}, ~outage' PROVE Active' # {}
    BY DEF KeepsAnActive
  <1>1. ASSUME status' = status PROVE Active' # {}
    BY <1>0, <1>1 DEF Active
  <1>2. ASSUME NEW h \in Handlers, RetireUpdate(h) PROVE Active' # {}
    <2>1. status[req[h].key] # "active" /\ status' = [status EXCEPT ![req[h].key] = "retired"]
      BY <1>0, <1>2 DEF RetireUpdate
    <2> QED BY <1>0, <2>1 DEF Active, KeysInv, RowsInv
  <1>3. ASSUME NEW h \in Handlers, TxCommit(h) PROVE Active' # {}
    <2>1. req[h].key \in Keys
      BY <1>3 DEF TxCommit, KeysInv, RowsInv, RowsOf, Keyed, InTx, Made
    <2> QED BY <1>3, <2>1 DEF TxCommit, Active
  <1>4. ASSUME NEW k \in Keys, NEW s \in {"pending", "published"}, status[k] = "none",
               status' = [status EXCEPT ![k] = s]
        PROVE  Active' # {}
    BY <1>0, <1>4, InsertFrame
  <1>5. ASSUME NEW h \in Handlers, Step(h), ~RetireUpdate(h), ~TxCommit(h) PROVE status' = status
    BY <1>5 DEF Step, SyncSelect, SyncWrite, WriteKeyFile, MapRead, MapWrite, Unlink, TxLock, TxScan, TxDemote,
                TxSet, table
  <1>6. ASSUME NEW h \in Consoles, Generate(h) PROVE Active' # {}
    BY <1>4, <1>6 DEF Generate
  <1>7. CASE StartInsert
    <2>1. req[Worker].key \in Keys
      BY <1>7 DEF StartInsert, At, KeysInv, RowsInv, RowsOf, Handlers
    <2> QED BY <1>1, <1>4, <1>7, <2>1 DEF StartInsert
  <1>8. ASSUME \/ \E h \in Handlers : Crash(h) \/ SyncSkips(h) \/ UnlinkFails(h) \/ DiskFails(h) \/ Activate(h) \/ Retire(h)
               \/ \E k \in Keys : Ripens(k) \/ Propagates(k)
               \/ SyncToProvider \/ StartSelect \/ StartPublish \/ PromoteSelect \/ PromoteNext
               \/ StartPublishFails \/ PromoteDeferred \/ UNCHANGED vars
        PROVE  status' = status
    BY <1>8 DEF Crash, SyncSkips, UnlinkFails, DiskFails, Activate, Retire, Ripens, Propagates, SyncToProvider, StartSelect, StartPublish,
                PromoteSelect, PromoteNext, StartPublishFails, PromoteDeferred, vars, table
  <1> QED BY <1>1, <1>2, <1>3, <1>5, <1>6, <1>7, <1>8 DEF Next, Tick, Handlers

\* dkim.service.ts, for any number of keys, console requests and faults: rows have one holder, never
\* two keys are active, what the worker rotated to resolves, and once all is quiet the mail server's
\* files follow the table, unless the last rebuild of the map overlapped another or failed, or a key's
\* file was skipped or unlinked late.
THEOREM KeysStaySafe ==
  ASSUME HandlersAssumption
  PROVE  Spec => [](TypeOK /\ OneActive /\ DiskFollowsTable /\ RotationIsVerified)
  <1> DEFINE Safe == TypeOK /\ OneActive /\ DiskFollowsTable /\ RotationIsVerified
  <1>1. Init => KeysInv
    BY KeysInit
  <1>2. KeysInv /\ [Next]_vars => KeysInv'
    BY KeysStep
  <1>3. KeysInv => Safe
    BY KeysSafe
  <1> QED BY <1>1, <1>2, <1>3, PTL DEF Spec

\* activate, promoteReadyRotations and retire: no step leaves a domain that has an active key without
\* one, unless it is an administrator who retires that key.
THEOREM SigningGoesOn ==
  ASSUME HandlersAssumption
  PROVE  Spec => [][KeepsAnActive]_vars
  <1>1. Init => KeysInv
    BY KeysInit
  <1>2. KeysInv /\ [Next]_vars => KeysInv'
    BY KeysStep
  <1>3. KeysInv /\ [Next]_vars => [KeepsAnActive]_vars
    BY ActiveKept
  <1> QED BY <1>1, <1>2, <1>3, PTL DEF Spec
================================================================================
