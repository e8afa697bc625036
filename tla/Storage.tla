------------------------------ MODULE Storage ------------------------------
(***************************************************************************)
(* Object storage (packages/storage) and what the API serves from it: the  *)
(* filesystem adapter's staged write, the migration of a store to another  *)
(* backend while the system keeps running, byte-range downloads            *)
(* (attachments.controller.ts) and thumbnails (thumbnail.service.ts).      *)
(*                                                                         *)
(* An adapter is "posix" (LocalAdapter) or one of the object stores, whose *)
(* PUT is atomic.  An object is [ver, size]; a file being written has size *)
(* 0.  The filesystem adapter stages a write in a temporary file next to   *)
(* the object, which a listing of the store also finds.                    *)
(***************************************************************************)
EXTENDS Integers, FiniteSets, FiniteSetsExt

CONSTANTS Keys,
          Tmp,          \* the name of the temporary file
          Absent,       \* no object
          Contents,     \* objects: [ver, size]
          MaxWrites,    \* bound: writes and deletes of the running system
          MaxFaults,    \* bound: failed copies, crashes, failed thumbnails
          MaxByte,      \* bound: offsets in a range header and sizes
          Tasks         \* the scenarios explored

\* Assumed of the constants, by the module that gives them values.
NamesAssumption == Tmp \notin Keys /\ MaxByte \in Nat

VARIABLES task,         \* "migrate", "serve" or "thumbnail"
          kinds,        \* [from, to]: the adapters
          verify,       \* the --verify flag
          src, tgt,     \* the stores: name -> object
          write,        \* the running system's write: [pc, key, obj]
          mig,          \* the migration
          served,       \* the last download
          thumb,        \* an attachment's preview: [pc, state, row, obj]
          writes, faults, quiet

vars == <<task, kinds, verify, src, tgt, write, mig, served, thumb, writes, faults, quiet>>

Names == Keys \cup {Tmp}
NoWrite == [pc |-> "idle", key |-> Tmp, obj |-> Absent]
NoMig == [pc |-> "off", todo |-> {}, key |-> Tmp, size |-> 0, failed |-> 0]
NoServe == [size |-> 0, start |-> -1, end |-> -1, ok |-> FALSE, from |-> 0, to |-> 0]

-----------------------------------------------------------------------------
(* createStorageAdapter: which adapter a STORAGE_KIND gets, or "refused".   *)

Posix == {"local", "nfs", "smb", "cephfs", "zfs"}
Adapter(kind, bucket, endpoint, azure) ==
  IF kind \in Posix THEN "posix"
  ELSE IF kind = "azure" THEN IF azure /\ bucket THEN "azure" ELSE "refused"
  ELSE IF ~bucket \/ (kind = "ceph" /\ ~endpoint) THEN "refused"
  ELSE IF kind = "gcs" THEN "gcs" ELSE "s3"

Adapters == {Adapter(k, TRUE, e, TRUE) : k \in {"local", "ceph", "s3", "gcs", "azure"}, e \in BOOLEAN} \ {"refused"}

Init == /\ task \in Tasks
        /\ kinds \in [from : Adapters, to : Adapters]
        /\ task = "migrate" => kinds.from \in {"posix", "s3"} /\ kinds.to = "s3"
        /\ task = "thumbnail" => kinds.from = "s3" /\ kinds.to = "s3"
        /\ task = "serve" => kinds.to = "s3"
        /\ verify \in BOOLEAN /\ (verify => task = "migrate")
        /\ src \in [Names -> {Absent} \cup Contents] /\ src[Tmp] = Absent
        /\ task # "migrate" => \A k \in Keys : src[k] = Absent
        /\ tgt = [n \in Names |-> Absent]
        /\ write = NoWrite /\ mig = NoMig /\ served = NoServe
        /\ thumb = [pc |-> "idle", state |-> "none", row |-> FALSE, obj |-> FALSE]
        /\ writes = 0 /\ faults = 0 /\ quiet = TRUE

-----------------------------------------------------------------------------
(* Writes of the running system.                                            *)

Changes == /\ task = "migrate" /\ writes < MaxWrites
           /\ writes' = writes + 1
           /\ quiet' = FALSE

\* Faulty variant: the object is written where it stands
StageInPlace(k, c) == [src EXCEPT ![k] = [c EXCEPT !.size = 0]]

\* The temporary file of putObject, in the directory of the object.
Stage(k, c) == [src EXCEPT ![Tmp] = [c EXCEPT !.size = 0]]

\* LocalAdapter.putObject up to the rename; an object store's PUT is one step.
PutObject(k, c) == /\ write.pc = "idle" /\ Changes
                   /\ IF kinds.from = "posix"
                      THEN src' = Stage(k, c) /\ write' = [pc |-> "staged", key |-> k, obj |-> c]
                      ELSE src' = [src EXCEPT ![k] = c] /\ UNCHANGED write
                   /\ UNCHANGED <<task, kinds, verify, tgt, mig, served, thumb, faults>>

Rename == /\ write.pc = "staged"
          /\ src' = [src EXCEPT ![write.key] = write.obj, ![Tmp] = Absent]
          /\ write' = NoWrite
          /\ quiet' = FALSE
          /\ UNCHANGED <<task, kinds, verify, tgt, mig, served, thumb, writes, faults>>

\* The stream fails and the temporary file is removed, or the process dies.
PutFails == /\ write.pc = "staged" /\ faults < MaxFaults
            /\ faults' = faults + 1
            /\ src' \in {[src EXCEPT ![Tmp] = Absent], src}
            /\ write' = NoWrite
            /\ quiet' = FALSE
            /\ UNCHANGED <<task, kinds, verify, tgt, mig, served, thumb, writes>>

DeleteObject(k) == /\ src[k] # Absent /\ Changes
                   /\ src' = [src EXCEPT ![k] = Absent]
                   /\ UNCHANGED <<task, kinds, verify, tgt, write, mig, served, thumb, faults>>

-----------------------------------------------------------------------------
(* migrateStorage.                                                          *)

Sized(o) == IF o = Absent THEN 0 ELSE o.size

\* listPrefix: the names the source has now.
Migrate == /\ task = "migrate" /\ mig.pc = "off"
           /\ mig' = [NoMig EXCEPT !.pc = "list", !.todo = {n \in Names : src[n] # Absent}]
           /\ quiet' = (write.pc = "idle")
           /\ UNCHANGED <<task, kinds, verify, src, tgt, write, served, thumb, writes, faults>>

\* The next entry.  The filesystem walk stats each file when it comes to it, and
\* one that has gone ends the run with an error.
Entry(n) == /\ mig.pc = "list" /\ n \in mig.todo
            /\ mig' = IF src[n] = Absent /\ kinds.from = "posix" THEN [NoMig EXCEPT !.pc = "aborted"]
                      ELSE [mig EXCEPT !.pc = "entry", !.todo = @ \ {n}, !.key = n, !.size = Sized(src[n])]
            /\ UNCHANGED <<task, kinds, verify, src, tgt, write, served, thumb, writes, faults, quiet>>

\* targetHasSameSize
SameSize(n, size) == tgt[n] # Absent /\ tgt[n].size = size

Failed == [mig EXCEPT !.pc = "list", !.failed = @ + 1]

\* Skipped, copied, or failed: the source has gone, or --verify finds another
\* size at the target, where the object stays.
CopyOne == /\ mig.pc = "entry"
           /\ IF SameSize(mig.key, mig.size) THEN mig' = [mig EXCEPT !.pc = "list"] /\ UNCHANGED tgt
              ELSE IF src[mig.key] = Absent THEN mig' = Failed /\ UNCHANGED tgt
              ELSE /\ tgt' = [tgt EXCEPT ![mig.key] = src[mig.key]]
                   /\ mig' = IF verify /\ src[mig.key].size # mig.size THEN Failed ELSE [mig EXCEPT !.pc = "list"]
           /\ UNCHANGED <<task, kinds, verify, src, write, served, thumb, writes, faults, quiet>>

\* A copy fails, or the whole run is interrupted.
CopyFails == /\ mig.pc = "entry" /\ faults < MaxFaults
             /\ faults' = faults + 1
             /\ mig' \in {Failed, NoMig}
             /\ UNCHANGED <<task, kinds, verify, src, tgt, write, served, thumb, writes, quiet>>

\* The summary, and, after it or after an error, a run again.
Summary == /\ mig.pc = "list" /\ mig.todo = {}
           /\ mig' = [mig EXCEPT !.pc = "done"]
           /\ UNCHANGED <<task, kinds, verify, src, tgt, write, served, thumb, writes, faults, quiet>>

Again == /\ mig.pc \in {"done", "aborted"}
         /\ mig' = NoMig
         /\ UNCHANGED <<task, kinds, verify, src, tgt, write, served, thumb, writes, faults, quiet>>

-----------------------------------------------------------------------------
(* Downloads.  A missing offset of the header is -1.                        *)

\* parseRange: <<from, to>>, or <<1, 0>> when it cannot be satisfied.
ParseRange(start, end, size) ==
  LET from == IF start # -1 THEN start ELSE Max({0, size - end})
      to == IF start = -1 \/ end = -1 THEN size - 1 ELSE Min({end, size - 1})
  IN IF (start = -1 /\ end \in {-1, 0}) \/ from > to \/ from >= size THEN <<1, 0>> ELSE <<from, to>>

\* getStream: the first and the last byte each adapter reads.  Azure is given
\* an offset and a count.
Read(kind, from, to) == IF kind = "azure" THEN <<from, from + (to - from + 1) - 1>> ELSE <<from, to>>

Download(start, end, size) ==
  /\ task = "serve" /\ served = NoServe
  /\ LET r == ParseRange(start, end, size) IN
     served' = [size |-> size, start |-> start, end |-> end, ok |-> r[1] <= r[2],
                from |-> Read(kinds.from, r[1], r[2])[1], to |-> Read(kinds.from, r[1], r[2])[2]]
  /\ UNCHANGED <<task, kinds, verify, src, tgt, write, mig, thumb, writes, faults, quiet>>

-----------------------------------------------------------------------------
(* Thumbnails: generate, step by step; several runs may follow one another. *)

ThumbStep(from, to) == /\ task = "thumbnail" /\ thumb.pc = from
                       /\ thumb' = [to EXCEPT !.pc = to.pc]
                       /\ UNCHANGED <<task, kinds, verify, src, tgt, write, mig, served, writes, faults, quiet>>

Pending == ThumbStep("idle", [thumb EXCEPT !.pc = "make", !.state = "pending"])
PutThumb == ThumbStep("make", [thumb EXCEPT !.pc = "row", !.obj = TRUE])
RowThumb == ThumbStep("row", [thumb EXCEPT !.pc = "ready", !.row = TRUE])
ReadyThumb == ThumbStep("ready", [thumb EXCEPT !.pc = "idle", !.state = "ready"])

\* Reading, decoding, storing or recording fails; or the process dies and the
\* state stays pending.
ThumbFails == /\ task = "thumbnail" /\ thumb.pc # "idle" /\ faults < MaxFaults
              /\ faults' = faults + 1
              /\ \E s \in {"failed", thumb.state} : thumb' = [thumb EXCEPT !.pc = "idle", !.state = s]
              /\ UNCHANGED <<task, kinds, verify, src, tgt, write, mig, served, writes, quiet>>

-----------------------------------------------------------------------------
Offsets == -1..MaxByte

Next == \/ \E k \in Keys : DeleteObject(k) \/ \E c \in Contents : PutObject(k, c)
        \/ Rename \/ PutFails
        \/ Migrate \/ (\E n \in Names : Entry(n)) \/ CopyOne \/ CopyFails \/ Summary \/ Again
        \/ \E start \in Offsets, end \in Offsets, size \in 0..MaxByte : Download(start, end, size)
        \/ Pending \/ PutThumb \/ RowThumb \/ ReadyThumb \/ ThumbFails

Spec == Init /\ [][Next]_vars

-----------------------------------------------------------------------------
(* Properties.                                                              *)

\* What a range header asks of an object, byte by byte.
Asked(start, end, size) ==
  {b \in 0..(size - 1) : IF start = -1 THEN end # -1 /\ b >= size - end
                         ELSE b >= start /\ (end = -1 \/ b <= end)}

(* No name a client asks for ever holds half an object: not while a write  *)
(* is staged, not after it failed or the process died, and not at the      *)
(* target of a migration (putObject stages and renames).  A download gets  *)
(* exactly the bytes its range header asks for, from every adapter, and 416*)
(* exactly when there are none (parseRange).  A preview marked ready has   *)
(* its row and its image.                                                  *)
StorageSound ==
  /\ \A k \in Keys : src[k] \in {Absent} \cup Contents /\ tgt[k] \in {Absent} \cup Contents
  /\ served # NoServe =>
       (IF served.ok THEN served.from..served.to ELSE {}) = Asked(served.start, served.end, served.size)
  /\ thumb.state = "ready" => thumb.row /\ thumb.obj

(* "once the summary reports no failures, the operator flips STORAGE_KIND  *)
(* to the target and the keys are already present": a run during which the *)
(* source did not change and that reports no failure leaves every object of*)
(* the source at the target, with its size, however many earlier runs were *)
(* interrupted and whatever they left there (migrateStorage).              *)
MigrationComplete ==
  mig.pc = "done" /\ mig.failed = 0 /\ quiet =>
    \A n \in Names : src[n] # Absent => tgt[n] # Absent /\ tgt[n].size = src[n].size
=============================================================================
