--------------------------- MODULE RequestsProofs ---------------------------
(***************************************************************************)
(* Theorems about three kinds of request, for any instance: the uploads of *)
(* attachments, for any uploads, chunks, retries and handlers; the logins  *)
(* and settings of accounts, for any users, passkeys and keys; and SCIM    *)
(* provisioning, for any users, groups, role maps and handlers.  The three *)
(* share no variable; each is an instance here, under its own names.       *)
(***************************************************************************)
EXTENDS Integers, Sequences, FiniteSets, FiniteSetTheorems, TLAPS

CONSTANTS Handlers

\* AttachmentUploads.
CONSTANTS Uploads, File, Size, UPLOAD_MAX_RETRIES, MaxLost, MaxFaults, NoUpload
VARIABLES upload, offset, staged, stored, attachment, client, handler, lost, faults
Upload == INSTANCE AttachmentUploads

\* Accounts.
CONSTANTS Users, Passkeys, Keys, Scenarios, MaxRequests, MaxCounter, NoUser
VARIABLES status, mbox, totp, owners, passkey, device, challenge, provider, flow, ident, key, sess, sealed,
          ops, req, requests, ids, confirmed, minted, raced
Account == INSTANCE Accounts

\* ScimProvisioning.
CONSTANTS Groups, Names, Ops, GroupRoles, DefaultRole, Deactivate, MaxProvisions, NoName
VARIABLES present, active, userStatus, role, name, members, groupRoleMap, call, gone, unsettled, orphaned, served
Scim == INSTANCE ScimProvisioning WITH status <- userStatus, req <- call, lost <- orphaned, MaxRequests <- MaxProvisions

--------------------------------------------------------------------------------
(* Uploads of attachments. *)

Pieces(u) == {File[u]} \X Nat
AllPieces == {File[u] : u \in Uploads} \X Nat
Bodies == Seq(AllPieces)
AppendSteps == {"chunk", "read", "put", "update"}
BodySteps == {"dedup", "reuse", "reuse2", "promote", "remove", "insert", "drop", "attached"}
FinaliseSteps == {"finalise", "hash"} \cup BodySteps
Steps == {"free", "appended", "refused"} \cup AppendSteps \cup FinaliseSteps
LoopSteps == {"new", "send", "finalise", "resync"} \cup Upload!Ended

LoopRec == [at : LoopSteps \cup Handlers, offset : Nat, start : Nat,
            tries : 0 .. UPLOAD_MAX_RETRIES - 1, got : Bodies]
HandlerRec == [at : Steps, u : Uploads \cup {NoUpload}, offset : Nat,
               chunk : AllPieces \cup {<<>>}, body : Bodies]

\* Types of the tables, of the browser's loops and of the handlers.
TableTypes ==
  /\ upload \in [Uploads -> {"absent", "open", "deleted"}]
  /\ offset \in [Uploads -> Nat]
  /\ staged \in [Uploads -> Bodies]
  /\ lost \in Nat /\ faults \in Nat
LoopTypes == client \in [Uploads -> LoopRec]
HandlerTypes == handler \in [Handlers -> HandlerRec]
UploadTypes == TableTypes /\ LoopTypes /\ HandlerTypes

\* A handler at work serves an upload, with pieces of that upload's file only.
OwnHandler(h) ==
  handler[h].at # "free" =>
    /\ handler[h].u \in Uploads
    /\ handler[h].body \in Seq(Pieces(handler[h].u))
    /\ handler[h].at \in AppendSteps => handler[h].chunk \in Pieces(handler[h].u)

\* So is what it staged.
OwnPieces ==
  /\ \A u \in Uploads : staged[u] \in Seq(Pieces(u))
  /\ \A h \in Handlers : OwnHandler(h)

\* The browser's offset is where its slice starts, and the server is there or further; a
\* loop that sends chunks, or waits for one, has chunks left.
InStep ==
  \A u \in Uploads :
    /\ client[u].offset = client[u].start /\ client[u].start <= offset[u]
    /\ client[u].at \in {"new", "send", "resync"} => client[u].start < Size
    /\ client[u].at = "finalise" => client[u].start >= Size

\* The browser waits for a handler that serves it.
Served ==
  \A u \in Uploads, h \in Handlers : client[u].at = h =>
    /\ handler[h].u = u
    /\ handler[h].at \in AppendSteps => handler[h].offset = client[u].start /\ client[u].start < Size
    /\ handler[h].at = "appended" =>
         handler[h].offset > client[u].start /\ client[u].start < Size /\ handler[h].offset <= offset[u]
    /\ handler[h].at \in FinaliseSteps => client[u].start >= Size

\* Handlers that may still advance the offset of u.
Pending(u) == {h \in Handlers : handler[h].u = u /\ handler[h].at \in AppendSteps}

\* The chunk requests the browser can have made: UPLOAD_MAX_RETRIES for each slice
\* it is past, and one more than its failures for the slice it is at.
Sent(u) ==
  IF client[u].start >= Size THEN Size * UPLOAD_MAX_RETRIES
  ELSE client[u].start * UPLOAD_MAX_RETRIES + client[u].tries
       + IF client[u].at \in {"new", "send", "resync"} THEN 0 ELSE 1

\* Every request advances the offset once at most.
OffsetWithinSent == \A u \in Uploads : offset[u] + Cardinality(Pending(u)) <= Sent(u)

\* What a handler of finaliseUpload knows of its body, step by step.
Recorded(h) ==
  /\ handler[h].at \in BodySteps => handler[h].body # <<>>
  /\ handler[h].at \in {"remove", "insert"} => handler[h].body \in stored
  /\ handler[h].at \in {"reuse", "reuse2", "drop", "attached"} => handler[h].body \in attachment
BodyRecorded == \A h \in Handlers : Recorded(h)

Prefix(u, n) == [i \in 1 .. n |-> Upload!Chunk(u, i)]

\* Where an undisturbed upload is: its one handler is the one the browser waits for,
\* and the staged object is the file up to the slice that is sent.
Faithful(u) ==
  LET c == client[u] IN
  /\ \A h \in Handlers : handler[h].u = u => c.at = h
  /\ c.start <= Size
  /\ c.at # "new" /\ c.start < Size => upload[u] = "open"
  /\ c.at \in {"new", "send", "resync", "finalise"} => offset[u] = c.start /\ staged[u] = Prefix(u, c.start)
  /\ \A h \in Handlers : c.at = h =>
       /\ handler[h].at \in {"chunk", "read", "put"} =>
            /\ offset[u] = c.start /\ staged[u] = Prefix(u, c.start)
            /\ handler[h].chunk = Upload!Chunk(u, c.start + 1)
       /\ handler[h].at = "put" => handler[h].body = Prefix(u, c.start)
       /\ handler[h].at = "update" => offset[u] = c.start /\ staged[u] = Prefix(u, c.start + 1)
       /\ handler[h].at = "appended" =>
            /\ handler[h].offset = c.start + 1 /\ offset[u] = c.start + 1
            /\ staged[u] = Prefix(u, c.start + 1)
       /\ handler[h].at = "refused" /\ c.start < Size => offset[u] = c.start /\ staged[u] = Prefix(u, c.start)
       /\ handler[h].at \in {"finalise", "hash"} => staged[u] = Prefix(u, Size)
       /\ handler[h].at \in BodySteps => handler[h].body = Prefix(u, Size)
  /\ c.at = "done" => c.got = Prefix(u, Size)

UndisturbedIsFaithful == Upload!Undisturbed => \A u \in Uploads : Faithful(u)

\* The inductive invariant.
UploadsInv ==
  /\ UploadTypes /\ OwnPieces /\ InStep /\ Served /\ OffsetWithinSent
  /\ BodyRecorded /\ Upload!StoreIsConsistent /\ UndisturbedIsFaithful

\* The empty object is a body of anyone's.
LEMMA EmptyBody == <<>> \in Bodies /\ \A u \in Uploads : <<>> \in Seq(Pieces(u))
  BY DEF Bodies

LEMMA PiecesAreAll == \A u \in Uploads : Pieces(u) \subseteq AllPieces /\ Seq(Pieces(u)) \subseteq Bodies
  BY DEF Pieces, AllPieces, Bodies

LEMMA LoopNames ==
  /\ "new" \in LoopSteps /\ "send" \in LoopSteps /\ "finalise" \in LoopSteps /\ "resync" \in LoopSteps
  /\ "done" \in LoopSteps /\ "error" \in LoopSteps
  BY DEF LoopSteps, Upload!Ended

LEMMA StepNames ==
  /\ "free" \in Steps /\ "appended" \in Steps /\ "refused" \in Steps /\ "chunk" \in Steps
  /\ "read" \in Steps /\ "put" \in Steps /\ "update" \in Steps /\ "finalise" \in Steps
  /\ "hash" \in Steps /\ "dedup" \in Steps /\ "reuse" \in Steps /\ "reuse2" \in Steps
  /\ "promote" \in Steps /\ "remove" \in Steps /\ "insert" \in Steps /\ "drop" \in Steps
  /\ "attached" \in Steps
  BY DEF Steps, AppendSteps, FinaliseSteps, BodySteps

\* A handler that goes on, and one whose record is replaced, has the type of a handler.
LEMMA GotoTypes ==
  ASSUME HandlerTypes, NEW h \in Handlers, NEW s \in Steps, Upload!Goto(h, s)
  PROVE  HandlerTypes'
  BY DEF HandlerTypes, HandlerRec, Upload!Goto

LEMMA ReplaceTypes ==
  ASSUME HandlerTypes, NEW h \in Handlers, NEW r \in HandlerRec, handler' = [handler EXCEPT ![h] = r]
  PROVE  HandlerTypes'
  BY DEF HandlerTypes

LEMMA FreeType == Upload!Free \in HandlerRec
  BY EmptyBody, StepNames DEF Upload!Free, HandlerRec

\* What a handler at work does to the handlers: it alone goes on, for the same upload,
\* within appendChunk or within finaliseUpload, and may advance the offset at the end
\* of the first.
Work(h) ==
  \/ Upload!ChunkSelect(h) \/ Upload!ChunkRead(h) \/ Upload!ChunkReadFails(h) \/ Upload!ChunkPut(h) \/ Upload!ChunkUpdate(h)
  \/ Upload!FinaliseSelect(h) \/ Upload!FinaliseHash(h) \/ Upload!FinaliseDedup(h) \/ Upload!Reuse(h) \/ Upload!Attach(h) \/ Upload!Crash(h)

Appends(h) ==
  /\ handler[h].at = "update" /\ handler'[h].at = "appended" /\ upload[handler[h].u] = "open"
  /\ offset' = [offset EXCEPT ![handler[h].u] = @ + 1]
  /\ handler'[h].offset = offset[handler[h].u] + 1

GoesOn(h) ==
  /\ \/ handler[h].at \in AppendSteps /\ handler'[h].at \in AppendSteps \cup {"refused"}
     \/ handler[h].at \in FinaliseSteps /\ handler'[h].at \in FinaliseSteps \cup {"refused"}
  /\ offset' = offset /\ handler'[h].offset = handler[h].offset

\* The handlers' records keep their type.
LEMMA WorkTypes ==
  ASSUME UploadTypes, OwnPieces, NEW h \in Handlers, Work(h)
  PROVE  HandlerTypes'
  <1> USE DEF UploadTypes
  <1>1. ASSUME Upload!ChunkRead(h) PROVE HandlerTypes'
    <2>1. handler[h].at = "read" /\ handler[h].u \in Uploads /\ handler[h] \in HandlerRec
      BY <1>1 DEF Upload!ChunkRead, OwnPieces, OwnHandler, HandlerTypes
    <2>2. staged[handler[h].u] \in Bodies
      BY <2>1 DEF TableTypes
    <2>3. [handler[h] EXCEPT !.at = "put", !.body = staged[handler[h].u]] \in HandlerRec
      BY <2>1, <2>2, StepNames DEF HandlerRec
    <2>4. handler' = [handler EXCEPT ![h] = [handler[h] EXCEPT !.at = "put", !.body = staged[handler[h].u]]]
      BY <1>1 DEF Upload!ChunkRead, Upload!Up, HandlerTypes
    <2> QED BY <2>3, <2>4, ReplaceTypes
  <1>2. ASSUME Upload!ChunkUpdate(h) PROVE HandlerTypes'
    <2>1. handler[h].at = "update" /\ handler[h].u \in Uploads /\ handler[h] \in HandlerRec
      BY <1>2 DEF Upload!ChunkUpdate, OwnPieces, OwnHandler, HandlerTypes
    <2>2. offset[handler[h].u] + 1 \in Nat
      BY <2>1 DEF TableTypes
    <2>3. [handler[h] EXCEPT !.at = "appended", !.offset = offset[handler[h].u] + 1] \in HandlerRec
      BY <2>1, <2>2, StepNames DEF HandlerRec
    <2>4. \/ Upload!Goto(h, "refused")
          \/ handler' = [handler EXCEPT ![h] = [handler[h] EXCEPT !.at = "appended", !.offset = offset[handler[h].u] + 1]]
      BY <1>2 DEF Upload!ChunkUpdate, Upload!Up, HandlerTypes
    <2> QED BY <2>3, <2>4, ReplaceTypes, GotoTypes, StepNames
  <1>3. ASSUME Upload!FinaliseHash(h) PROVE HandlerTypes'
    <2>1. handler[h].at = "hash" /\ handler[h].u \in Uploads /\ handler[h] \in HandlerRec
      BY <1>3 DEF Upload!FinaliseHash, OwnPieces, OwnHandler, HandlerTypes
    <2>2. staged[handler[h].u] \in Bodies
      BY <2>1 DEF TableTypes
    <2>3. [handler[h] EXCEPT !.at = "dedup", !.body = staged[handler[h].u]] \in HandlerRec
      BY <2>1, <2>2, StepNames DEF HandlerRec
    <2>4. \/ Upload!Goto(h, "refused")
          \/ handler' = [handler EXCEPT ![h] = [handler[h] EXCEPT !.at = "dedup", !.body = staged[handler[h].u]]]
      BY <1>3 DEF Upload!FinaliseHash, Upload!Up, HandlerTypes
    <2> QED BY <2>3, <2>4, ReplaceTypes, GotoTypes, StepNames
  <1>4. ASSUME Upload!ChunkSelect(h) \/ Upload!ChunkReadFails(h) \/ Upload!ChunkPut(h) \/ Upload!FinaliseSelect(h) \/ Upload!FinaliseDedup(h) \/ Upload!Crash(h)
        PROVE  HandlerTypes'
    BY <1>4, GotoTypes, StepNames
       DEF Upload!ChunkSelect, Upload!ChunkReadFails, Upload!ChunkPut, Upload!FinaliseSelect, Upload!FinaliseDedup, Upload!Crash
  <1>5. ASSUME Upload!Reuse(h) \/ Upload!Attach(h) PROVE HandlerTypes'
    BY <1>5, GotoTypes, StepNames DEF Upload!Reuse, Upload!Attach, Upload!Promote, Upload!Insert, Upload!DropRow, Upload!DropStaged
  <1> QED BY <1>1, <1>2, <1>3, <1>4, <1>5 DEF Work

LEMMA WorkShape ==
  ASSUME UploadTypes, OwnPieces, NEW h \in Handlers, Work(h)
  PROVE  /\ client' = client /\ handler[h].at # "free" /\ handler[h].u \in Uploads
         /\ \A k \in Handlers \ {h} : handler'[k] = handler[k]
         /\ handler'[h].u = handler[h].u /\ handler'[h].chunk = handler[h].chunk
         /\ Appends(h) \/ GoesOn(h)
  <1> USE DEF UploadTypes, HandlerTypes, HandlerRec, Upload!rows, Upload!objects, Upload!Up, Upload!Goto, Appends, GoesOn,
              AppendSteps, FinaliseSteps, BodySteps
  <1>0. handler[h].at # "free" => handler[h].u \in Uploads
    BY DEF OwnPieces, OwnHandler
  <1>1. CASE Upload!ChunkSelect(h)
    BY <1>0, <1>1 DEF Upload!ChunkSelect
  <1>2. CASE Upload!ChunkRead(h)
    BY <1>0, <1>2 DEF Upload!ChunkRead
  <1>3. CASE Upload!ChunkReadFails(h)
    BY <1>0, <1>3 DEF Upload!ChunkReadFails
  <1>4. CASE Upload!ChunkPut(h)
    BY <1>0, <1>4 DEF Upload!ChunkPut
  <1>5. CASE Upload!ChunkUpdate(h)
    BY <1>0, <1>5 DEF Upload!ChunkUpdate
  <1>6. CASE Upload!FinaliseSelect(h)
    BY <1>0, <1>6 DEF Upload!FinaliseSelect
  <1>7. CASE Upload!FinaliseHash(h)
    BY <1>0, <1>7 DEF Upload!FinaliseHash
  <1>8. CASE Upload!FinaliseDedup(h)
    BY <1>0, <1>8 DEF Upload!FinaliseDedup
  <1>9. CASE Upload!Reuse(h)
    BY <1>0, <1>9 DEF Upload!Reuse, Upload!DropRow, Upload!DropStaged
  <1>10. CASE Upload!Attach(h)
    BY <1>0, <1>10 DEF Upload!Attach, Upload!Promote, Upload!Insert, Upload!DropRow, Upload!DropStaged
  <1>11. CASE Upload!Crash(h)
    BY <1>0, <1>11 DEF Upload!Crash, Steps
  <1> QED BY <1>1, <1>2, <1>3, <1>4, <1>5, <1>6, <1>7, <1>8, <1>9, <1>10, <1>11 DEF Work

LEMMA ReplaceLoop ==
  ASSUME LoopTypes, NEW u \in Uploads, NEW c \in LoopRec, Upload!Client(u, c)
  PROVE  LoopTypes'
  BY DEF LoopTypes, Upload!Client

\* Where the loop goes has the type of a loop.
LEMMA LoopGoes ==
  ASSUME Upload!SizeAssumption, UploadTypes, NEW u \in Uploads
  PROVE  /\ \A o \in Nat : Upload!Advance(u, o) \in LoopRec
         /\ Upload!AfterFailure(u) \in LoopRec
         /\ \A h \in Handlers \cup LoopSteps : [client[u] EXCEPT !.at = h] \in LoopRec
  <1>0. client[u] \in LoopRec
    BY DEF UploadTypes, LoopTypes
  <1>1. \A o \in Nat : Upload!Advance(u, o) \in LoopRec
    <2>1. 0 \in 0 .. UPLOAD_MAX_RETRIES - 1
      BY DEF Upload!SizeAssumption
    <2>2. \A o \in Nat, a \in LoopSteps :
            [client[u] EXCEPT !.at = a, !.offset = o, !.start = o, !.tries = 0] \in LoopRec
      BY <1>0, <2>1 DEF LoopRec
    <2> QED BY <2>2, LoopNames DEF Upload!Advance
  <1>2. Upload!AfterFailure(u) \in LoopRec
    <2>1. CASE client[u].start >= Size \/ client[u].tries + 1 >= UPLOAD_MAX_RETRIES
      BY <1>0, <2>1, LoopNames DEF Upload!AfterFailure, LoopRec, Upload!SizeAssumption
    <2>2. CASE ~(client[u].start >= Size \/ client[u].tries + 1 >= UPLOAD_MAX_RETRIES)
      <3>1. client[u].tries + 1 \in 0 .. UPLOAD_MAX_RETRIES - 1
        BY <1>0, <2>2 DEF LoopRec, Upload!SizeAssumption
      <3>2. [client[u] EXCEPT !.at = "resync", !.tries = client[u].tries + 1] \in LoopRec
        BY <1>0, <3>1, LoopNames DEF LoopRec
      <3> QED BY <2>2, <3>2 DEF Upload!AfterFailure
    <2> QED BY <2>1, <2>2
  <1>3. \A h \in Handlers \cup LoopSteps : [client[u] EXCEPT !.at = h] \in LoopRec
    BY <1>0 DEF LoopRec
  <1> QED BY <1>1, <1>2, <1>3

\* The handler whose answer the browser takes is the one it waits for.
Answers(u, h) ==
  /\ client[u].at = h
  /\ \/ handler[h].at = "appended" /\ Upload!Client(u, Upload!Advance(u, handler[h].offset))
     \/ handler[h].at = "attached" /\ Upload!Client(u, [client[u] EXCEPT !.at = "done", !.got = handler[h].body])
     \/ handler[h].at = "refused" /\ Upload!Client(u, Upload!AfterFailure(u))
  /\ handler' = [handler EXCEPT ![h] = Upload!Free]
  /\ UNCHANGED <<Upload!rows, Upload!objects, lost, faults>>

LEMMA LoopTypesStep ==
  ASSUME Upload!SizeAssumption, UploadTypes, Upload!Next
  PROVE  LoopTypes'
  <1> USE DEF UploadTypes
  <1>1. ASSUME NEW u \in Uploads, Upload!CreateUpload(u) \/ Upload!SendChunk(u) \/ Upload!SendFinalise(u) \/ Upload!ResyncFails(u) PROVE LoopTypes'
    BY <1>1, LoopGoes, LoopNames, ReplaceLoop DEF Upload!CreateUpload, Upload!SendChunk, Upload!SendFinalise, Upload!ResyncFails
  <1>2. ASSUME NEW u \in Uploads, NEW h \in Handlers, Answers(u, h) PROVE LoopTypes'
    <2>1. handler[h].offset \in Nat /\ handler[h].body \in Bodies
      BY DEF HandlerTypes, HandlerRec
    <2>2. [client[u] EXCEPT !.at = "done", !.got = handler[h].body] \in LoopRec
      BY <2>1, LoopNames DEF LoopTypes, LoopRec
    <2> QED BY <1>2, <2>1, <2>2, LoopGoes, ReplaceLoop DEF Answers
  <1>3. ASSUME NEW u \in Uploads, Upload!LoseConnection(u) PROVE LoopTypes'
    BY <1>3, LoopGoes, ReplaceLoop DEF Upload!LoseConnection
  <1>4. ASSUME NEW u \in Uploads, Upload!Resync(u) PROVE LoopTypes'
    <2>1. offset[u] \in Nat
      BY DEF TableTypes
    <2>2. [client[u] EXCEPT !.at = "send", !.offset = offset[u]] \in LoopRec
      BY <2>1, LoopNames DEF LoopTypes, LoopRec
    <2> QED BY <1>4, <2>1, <2>2, LoopGoes, LoopNames, ReplaceLoop DEF Upload!Resync
  <1>5. ASSUME NEW h \in Handlers, Work(h) \/ Upload!Discard(h) PROVE LoopTypes'
    BY <1>5 DEF LoopTypes, Work, Upload!Discard, Upload!ChunkSelect, Upload!ChunkRead, Upload!ChunkReadFails, Upload!ChunkPut, Upload!ChunkUpdate,
       Upload!FinaliseSelect, Upload!FinaliseHash, Upload!FinaliseDedup, Upload!Reuse, Upload!Attach, Upload!Promote, Upload!Insert, Upload!DropRow, Upload!DropStaged, Upload!Crash
  <1> QED BY <1>1, <1>2, <1>3, <1>4, <1>5 DEF Upload!Next, Work, Upload!Answer, Answers

LEMMA HandlerTypesStep ==
  ASSUME UploadTypes, OwnPieces, Upload!Next
  PROVE  HandlerTypes'
  <1> USE DEF UploadTypes
  <1>1. ASSUME NEW u \in Uploads, Upload!CreateUpload(u) \/ Upload!LoseConnection(u) \/ Upload!Resync(u) \/ Upload!ResyncFails(u) PROVE HandlerTypes'
    BY <1>1 DEF Upload!CreateUpload, Upload!LoseConnection, Upload!Resync, Upload!ResyncFails, HandlerTypes
  <1>2. ASSUME NEW u \in Uploads, Upload!SendChunk(u) PROVE HandlerTypes'
    <2>1. client[u].offset \in Nat /\ client[u].start + 1 \in Nat
      BY DEF LoopTypes, LoopRec
    <2>2. Upload!Chunk(u, client[u].start + 1) \in AllPieces
      BY <2>1 DEF Upload!Chunk, AllPieces
    <2>3. [at |-> "chunk", u |-> u, offset |-> client[u].offset,
           chunk |-> Upload!Chunk(u, client[u].start + 1), body |-> <<>>] \in HandlerRec
      BY <2>1, <2>2, EmptyBody, StepNames DEF HandlerRec
    <2> QED BY <1>2, <2>3, ReplaceTypes DEF Upload!SendChunk
  <1>3. ASSUME NEW u \in Uploads, Upload!SendFinalise(u) PROVE HandlerTypes'
    BY <1>3, EmptyBody, StepNames, ReplaceTypes DEF Upload!SendFinalise, Upload!Free, HandlerRec
  <1>4. ASSUME NEW u \in Uploads, Upload!Answer(u) PROVE HandlerTypes'
    BY <1>4, FreeType, ReplaceTypes DEF Upload!Answer
  <1>5. ASSUME NEW h \in Handlers, Upload!Discard(h) PROVE HandlerTypes'
    BY <1>5, FreeType, ReplaceTypes DEF Upload!Discard
  <1>6. ASSUME NEW h \in Handlers, Work(h) PROVE HandlerTypes'
    BY <1>6, WorkTypes
  <1> QED BY <1>1, <1>2, <1>3, <1>4, <1>5, <1>6 DEF Upload!Next, Work

\* A handler at work leaves the tables well typed and stages pieces of its own upload only.
LEMMA WorkStages ==
  ASSUME UploadTypes, OwnPieces, NEW h \in Handlers, Work(h)
  PROVE  /\ \/ staged' = staged
            \/ staged' = [staged EXCEPT ![handler[h].u] = <<>>]
            \/ /\ handler[h].at = "put" /\ handler'[h].at = "update"
               /\ staged' = [staged EXCEPT ![handler[h].u] = Append(handler[h].body, handler[h].chunk)]
         /\ handler'[h].body \in {handler[h].body, staged[handler[h].u]}
         /\ upload' \in {upload, [upload EXCEPT ![handler[h].u] = "deleted"]}
         /\ lost' = lost /\ faults' \in {faults, faults + 1}
  <1> USE DEF UploadTypes, HandlerTypes, HandlerRec, Upload!rows, Upload!objects, Upload!Up, Upload!Goto
  <1>1. CASE Upload!ChunkSelect(h) \/ Upload!ChunkRead(h) \/ Upload!ChunkReadFails(h) \/ Upload!ChunkPut(h)
    BY <1>1 DEF Upload!ChunkSelect, Upload!ChunkRead, Upload!ChunkReadFails, Upload!ChunkPut
  <1>2. CASE Upload!ChunkUpdate(h) \/ Upload!FinaliseSelect(h) \/ Upload!FinaliseHash(h) \/ Upload!FinaliseDedup(h)
    BY <1>2 DEF Upload!ChunkUpdate, Upload!FinaliseSelect, Upload!FinaliseHash, Upload!FinaliseDedup
  <1>3. CASE Upload!Reuse(h) \/ Upload!Crash(h)
    BY <1>3 DEF Upload!Reuse, Upload!DropRow, Upload!DropStaged, Upload!Crash
  <1>4. CASE Upload!Attach(h)
    BY <1>4 DEF Upload!Attach, Upload!Promote, Upload!Insert, Upload!DropRow, Upload!DropStaged
  <1> QED BY <1>1, <1>2, <1>3, <1>4 DEF Work

\* The browser and a dropped answer leave the objects alone; createUpload opens the row.
LEMMA BrowserLeaves ==
  ASSUME UploadTypes,
         \/ \E u \in Uploads : \/ Upload!CreateUpload(u) \/ Upload!SendChunk(u) \/ Upload!SendFinalise(u) \/ Upload!Answer(u)
                               \/ Upload!LoseConnection(u) \/ Upload!Resync(u) \/ Upload!ResyncFails(u)
         \/ \E h \in Handlers : Upload!Discard(h)
  PROVE  /\ staged' = staged /\ stored' = stored /\ attachment' = attachment /\ offset' = offset
         /\ lost' \in {lost, lost + 1} /\ faults' = faults
         /\ upload' = upload \/ \E u \in Uploads : Upload!CreateUpload(u) /\ upload' = [upload EXCEPT ![u] = "open"]
  BY DEF Upload!CreateUpload, Upload!SendChunk, Upload!SendFinalise, Upload!Answer, Upload!LoseConnection, Upload!Resync, Upload!ResyncFails, Upload!Discard, Upload!rows, Upload!objects

LEMMA TableTypesStep ==
  ASSUME UploadTypes, OwnPieces, Upload!Next
  PROVE  TableTypes'
  <1>1. ASSUME NEW h \in Handlers, Work(h) PROVE TableTypes'
    <2>1. /\ handler[h].u \in Uploads /\ handler[h].at # "free"
          /\ offset' = offset \/ offset' = [offset EXCEPT ![handler[h].u] = @ + 1]
      BY <1>1, WorkShape DEF Appends, GoesOn
    <2>2. handler[h].at = "put" => Append(handler[h].body, handler[h].chunk) \in Bodies
      <3>1. "put" \in AppendSteps
        BY DEF AppendSteps
      <3>2. ASSUME handler[h].at = "put"
            PROVE  /\ handler[h].body \in Seq(Pieces(handler[h].u))
                   /\ handler[h].chunk \in Pieces(handler[h].u)
        BY <2>1, <3>1, <3>2 DEF OwnPieces, OwnHandler
      <3>3. ASSUME handler[h].at = "put"
            PROVE  Append(handler[h].body, handler[h].chunk) \in Seq(Pieces(handler[h].u))
        BY <3>2, <3>3
      <3> QED BY <2>1, <3>3, PiecesAreAll
    <2>3. /\ upload' \in [Uploads -> {"absent", "open", "deleted"}]
          /\ lost' \in Nat /\ faults' \in Nat
      BY <1>1, <2>1, WorkStages DEF UploadTypes, TableTypes
    <2>4. offset' \in [Uploads -> Nat]
      BY <2>1 DEF UploadTypes, TableTypes
    <2>5. staged' \in [Uploads -> Bodies]
      <3>1. \/ staged' = staged
            \/ staged' = [staged EXCEPT ![handler[h].u] = <<>>]
            \/ /\ handler[h].at = "put"
               /\ staged' = [staged EXCEPT ![handler[h].u] = Append(handler[h].body, handler[h].chunk)]
        BY <1>1, WorkStages
      <3> QED BY <2>1, <2>2, <3>1, EmptyBody DEF UploadTypes, TableTypes
    <2> QED BY <2>3, <2>4, <2>5 DEF TableTypes
  <1>2. CASE \/ \E u \in Uploads : \/ Upload!CreateUpload(u) \/ Upload!SendChunk(u) \/ Upload!SendFinalise(u) \/ Upload!Answer(u)
                                   \/ Upload!LoseConnection(u) \/ Upload!Resync(u) \/ Upload!ResyncFails(u)
             \/ \E h \in Handlers : Upload!Discard(h)
    BY <1>2, BrowserLeaves DEF UploadTypes, TableTypes
  <1> QED BY <1>1, <1>2 DEF Upload!Next, Work

\* Pieces stay with the upload of their file.
LEMMA OwnPiecesStep ==
  ASSUME UploadTypes, OwnPieces, Upload!Next
  PROVE  OwnPieces'
  <1>1. ASSUME NEW h \in Handlers, Work(h) PROVE OwnPieces'
    <2> DEFINE u == handler[h].u
    <2>1. /\ u \in Uploads /\ handler[h].at # "free" /\ handler'[h].u = u
          /\ handler'[h].chunk = handler[h].chunk
          /\ \A k \in Handlers \ {h} : handler'[k] = handler[k]
          /\ handler'[h].at \in AppendSteps => handler[h].at \in AppendSteps
      BY <1>1, WorkShape DEF Appends, GoesOn, AppendSteps, FinaliseSteps, BodySteps
    <2>2. handler[h].body \in Seq(Pieces(u)) /\ staged[u] \in Seq(Pieces(u))
      BY <2>1 DEF OwnPieces, OwnHandler
    <2>3. handler[h].at \in AppendSteps => handler[h].chunk \in Pieces(u)
      BY <2>1 DEF OwnPieces, OwnHandler
    <2>4. handler'[h].body \in Seq(Pieces(u))
      BY <1>1, <2>2, WorkStages
    <2>5. handler[h].at = "put" => Append(handler[h].body, handler[h].chunk) \in Seq(Pieces(u))
      BY <2>2, <2>3 DEF AppendSteps
    <2>6. \A v \in Uploads : staged'[v] \in Seq(Pieces(v))
      <3>1. \/ staged' = staged
            \/ staged' = [staged EXCEPT ![u] = <<>>]
            \/ /\ handler[h].at = "put"
               /\ staged' = [staged EXCEPT ![u] = Append(handler[h].body, handler[h].chunk)]
        BY <1>1, WorkStages
      <3>2. staged \in [Uploads -> Bodies] /\ \A v \in Uploads : staged[v] \in Seq(Pieces(v))
        BY DEF OwnPieces, UploadTypes, TableTypes
      <3> HIDE DEF u
      <3> QED BY <2>1, <2>5, <3>1, <3>2, EmptyBody
    <2>7. \A k \in Handlers : OwnHandler(k)'
      BY <2>1, <2>3, <2>4 DEF OwnPieces, OwnHandler, Pieces
    <2> QED BY <2>6, <2>7 DEF OwnPieces, Pieces
  <1>2. ASSUME NEW u \in Uploads, Upload!SendChunk(u) PROVE OwnPieces'
    <2>1. PICK h \in Handlers : handler' = [handler EXCEPT ![h] =
            [at |-> "chunk", u |-> u, offset |-> client[u].offset,
             chunk |-> Upload!Chunk(u, client[u].start + 1), body |-> <<>>]]
      BY <1>2 DEF Upload!SendChunk
    <2>2. Upload!Chunk(u, client[u].start + 1) \in Pieces(u)
      BY DEF Upload!Chunk, Pieces, UploadTypes, LoopTypes, LoopRec
    <2>3. \A k \in Handlers : OwnHandler(k)'
      BY <2>1, <2>2, EmptyBody DEF OwnPieces, OwnHandler, UploadTypes, HandlerTypes, Pieces
    <2> QED BY <1>2, <2>3, BrowserLeaves DEF OwnPieces, Pieces
  <1>3. ASSUME NEW u \in Uploads, Upload!SendFinalise(u) PROVE OwnPieces'
    <2>1. PICK h \in Handlers : handler' = [handler EXCEPT ![h] = [Upload!Free EXCEPT !.at = "finalise", !.u = u]]
      BY <1>3 DEF Upload!SendFinalise
    <2>3. \A k \in Handlers : OwnHandler(k)'
      BY <2>1, EmptyBody DEF OwnPieces, OwnHandler, UploadTypes, HandlerTypes, Pieces, AppendSteps, Upload!Free
    <2> QED BY <1>3, <2>3, BrowserLeaves DEF OwnPieces, Pieces
  <1>4. ASSUME NEW h \in Handlers, handler' = [handler EXCEPT ![h] = Upload!Free], staged' = staged PROVE OwnPieces'
    BY <1>4 DEF OwnPieces, OwnHandler, Upload!Free, UploadTypes, HandlerTypes, Pieces
  <1>5. ASSUME handler' = handler, staged' = staged PROVE OwnPieces'
    BY <1>5 DEF OwnPieces, OwnHandler, Pieces
  <1> QED
    BY <1>1, <1>2, <1>3, <1>4, <1>5
       DEF Upload!Next, Work, Upload!CreateUpload, Upload!Answer, Upload!LoseConnection, Upload!Resync, Upload!ResyncFails, Upload!Discard, Upload!rows, Upload!objects

\* No handler has the name of a step of the loop.
LEMMA WaitsOrNot ==
  ASSUME Upload!HandlersAssumption, NEW a \in LoopSteps
  PROVE  a \notin Handlers
  BY DEF Upload!HandlersAssumption, LoopSteps, Upload!Ended

\* The loop after a failure, and after an answer.
LEMMA FailureGoes ==
  ASSUME Upload!SizeAssumption, UploadTypes, NEW u \in Uploads
  PROVE  LET c == Upload!AfterFailure(u) IN
         /\ c.at \in {"error", "resync"} /\ c.offset = client[u].offset /\ c.start = client[u].start
         /\ c.got = client[u].got
         /\ c.at = "resync" => c.start < Size /\ c.tries = client[u].tries + 1
         /\ c.at = "error" => c.tries = client[u].tries
  BY DEF Upload!AfterFailure, Upload!SizeAssumption, UploadTypes, LoopTypes, LoopRec

LEMMA AdvanceGoes ==
  ASSUME Upload!SizeAssumption, UploadTypes, NEW u \in Uploads, NEW o \in Nat
  PROVE  LET c == Upload!Advance(u, o) IN
         /\ c.at = (IF o < Size THEN "send" ELSE "finalise")
         /\ c.offset = o /\ c.start = o /\ c.tries = 0 /\ c.got = client[u].got
  BY DEF Upload!Advance, UploadTypes, LoopTypes, LoopRec

\* The browser and the server stay in step.
LEMMA InStepStep ==
  ASSUME Upload!SizeAssumption, Upload!HandlersAssumption, UploadTypes, OwnPieces, InStep, Served, Upload!Next
  PROVE  InStep'
  <1> USE DEF UploadTypes, LoopTypes, LoopRec, TableTypes, InStep, Upload!SizeAssumption
  <1>1. ASSUME NEW u \in Uploads, Upload!CreateUpload(u) PROVE InStep'
    BY <1>1 DEF Upload!CreateUpload, Upload!Client
  <1>2. ASSUME NEW u \in Uploads, NEW h \in Handlers, Upload!Client(u, [client[u] EXCEPT !.at = h]), offset' = offset PROVE InStep'
    <2>1. h \notin {"new", "send", "resync", "finalise"}
      BY WaitsOrNot, LoopNames
    <2> QED BY <1>2, <2>1 DEF Upload!Client
  <1>3. ASSUME NEW u \in Uploads, Upload!Client(u, Upload!AfterFailure(u)), offset' = offset PROVE InStep'
    BY <1>3, FailureGoes DEF Upload!Client
  <1>4. ASSUME NEW u \in Uploads, NEW o \in Nat, o <= offset[u], Upload!Client(u, Upload!Advance(u, o)), offset' = offset PROVE InStep'
    BY <1>4, AdvanceGoes DEF Upload!Client
  <1>5. ASSUME NEW u \in Uploads, NEW h \in Handlers, Answers(u, h) PROVE InStep'
    <2>1. CASE handler[h].at = "appended"
      <3>1. handler[h].offset \in Nat /\ handler[h].offset <= offset[u]
        BY <1>5, <2>1 DEF Answers, Served, HandlerTypes, HandlerRec
      <3> QED BY <1>4, <1>5, <2>1, <3>1 DEF Answers, Upload!rows
    <2>2. CASE handler[h].at = "attached"
      <3>1. Upload!Client(u, [client[u] EXCEPT !.at = "done", !.got = handler[h].body]) /\ offset' = offset
        BY <1>5, <2>2 DEF Answers, Upload!rows
      <3> QED BY <3>1 DEF Upload!Client
    <2>3. CASE handler[h].at = "refused"
      BY <1>3, <1>5, <2>3 DEF Answers, Upload!rows
    <2> QED BY <1>5, <2>1, <2>2, <2>3 DEF Answers
  <1>6. ASSUME NEW u \in Uploads, Upload!Resync(u) PROVE InStep'
    <2>1. client[u].at = "resync" /\ offset' = offset /\ client[u].start < Size
      BY <1>6 DEF Upload!Resync, Upload!rows
    <2>2. \/ Upload!Client(u, Upload!Advance(u, offset[u]))
          \/ /\ offset[u] < client[u].start + 1
             /\ Upload!Client(u, [client[u] EXCEPT !.at = "send", !.offset = offset[u]])
          \/ Upload!Client(u, [client[u] EXCEPT !.at = "send"])
      BY <1>6 DEF Upload!Resync
    <2>3. CASE Upload!Client(u, Upload!Advance(u, offset[u]))
      BY <1>4, <2>1, <2>3
    <2>4. CASE offset[u] < client[u].start + 1 /\ Upload!Client(u, [client[u] EXCEPT !.at = "send", !.offset = offset[u]])
      BY <2>1, <2>4 DEF Upload!Client
    <2>5. CASE Upload!Client(u, [client[u] EXCEPT !.at = "send"])
      BY <2>1, <2>5 DEF Upload!Client
    <2> QED BY <2>2, <2>3, <2>4, <2>5
  <1>7. ASSUME NEW u \in Uploads, Upload!ResyncFails(u) PROVE InStep'
    BY <1>7 DEF Upload!ResyncFails, Upload!Client, Upload!rows
  <1>8. ASSUME NEW h \in Handlers, Work(h) PROVE InStep'
    <2>1. client' = client /\ handler[h].u \in Uploads
          /\ (offset' = offset \/ offset' = [offset EXCEPT ![handler[h].u] = @ + 1])
      BY <1>8, WorkShape DEF Appends, GoesOn
    <2> QED BY <2>1
  <1>9. ASSUME NEW h \in Handlers, Upload!Discard(h) PROVE InStep'
    BY <1>9 DEF Upload!Discard, Upload!rows
  <1>10. ASSUME NEW u \in Uploads, Upload!SendChunk(u) \/ Upload!SendFinalise(u) PROVE InStep'
    BY <1>2, <1>10 DEF Upload!SendChunk, Upload!SendFinalise, Upload!rows
  <1>11. ASSUME NEW u \in Uploads, Upload!LoseConnection(u) PROVE InStep'
    BY <1>3, <1>11 DEF Upload!LoseConnection, Upload!rows
  <1> QED BY <1>1, <1>5, <1>6, <1>7, <1>8, <1>9, <1>10, <1>11 DEF Upload!Next, Work, Upload!Answer, Answers

\* The browser's requests and its handlers stay paired.
LEMMA ServedStep ==
  ASSUME Upload!SizeAssumption, Upload!HandlersAssumption, UploadTypes, OwnPieces, InStep, Served, Upload!Next
  PROVE  Served'
  <1> USE DEF UploadTypes, LoopTypes, LoopRec, TableTypes, HandlerTypes, Served
  \* The handlers stand still, and the browser does not wait for one that is new to it.
  <1>1. ASSUME NEW u \in Uploads, NEW c, c.at \in LoopSteps, Upload!Client(u, c), offset' = offset,
               \/ handler' = handler
               \/ \E h \in Handlers : client[u].at = h /\ handler' = [handler EXCEPT ![h] = Upload!Free]
        PROVE  Served'
    <2>1. c.at \notin Handlers
      BY <1>1, WaitsOrNot
    <2>2. \A v \in Uploads, k \in Handlers : client'[v].at = k => v # u /\ client'[v] = client[v]
      BY <1>1, <2>1 DEF Upload!Client
    <2>3. \A v \in Uploads, k \in Handlers : client'[v].at = k => handler'[k] = handler[k]
      BY <1>1, <2>2
    <2> QED BY <1>1, <2>2, <2>3
  \* A request is given to a handler that was free, which nobody waited for.
  <1>2. ASSUME NEW u \in Uploads, NEW h \in Handlers, NEW r, handler[h] = Upload!Free, offset' = offset,
               handler' = [handler EXCEPT ![h] = r], Upload!Client(u, [client[u] EXCEPT !.at = h]),
               r.u = u, \/ r.at \in AppendSteps /\ r.offset = client[u].start /\ client[u].start < Size
                        \/ r.at \in FinaliseSteps /\ client[u].start >= Size
        PROVE  Served'
    <2>1. \A v \in Uploads : client[v].at # h
      <3>1. handler[h].u = NoUpload
        BY <1>2 DEF Upload!Free
      <3> QED BY <3>1 DEF Upload!HandlersAssumption
    <2>2. client'[u].at = h /\ client'[u].start = client[u].start /\ handler'[h] = r
      BY <1>2 DEF Upload!Client
    <2>3. \A v \in Uploads \ {u} : client'[v] = client[v]
      BY <1>2 DEF Upload!Client
    <2>4. \A k \in Handlers \ {h} : handler'[k] = handler[k]
      BY <1>2
    <2>5. r.at # "appended" /\ (r.at \in AppendSteps => r.at \notin FinaliseSteps)
      BY <1>2 DEF AppendSteps, FinaliseSteps, BodySteps
    <2>6. client[u].start \in Nat /\ Size \in Nat
      BY DEF Upload!SizeAssumption
    <2>7. \A v \in Uploads, k \in Handlers : client'[v].at = k => (v = u /\ k = h) \/ (v # u /\ k # h)
      BY <2>1, <2>2, <2>3
    <2> QED BY <1>2, <2>2, <2>3, <2>4, <2>5, <2>6, <2>7
  <1>3. ASSUME NEW u \in Uploads, Upload!CreateUpload(u) \/ Upload!ResyncFails(u) \/ Upload!LoseConnection(u) PROVE Served'
    <2>1. \A a \in LoopSteps : [client[u] EXCEPT !.at = a].at = a
      OBVIOUS
    <2>2. Upload!AfterFailure(u).at \in LoopSteps
      BY FailureGoes, LoopNames
    <2> QED BY <1>1, <1>3, <2>1, <2>2, LoopNames DEF Upload!CreateUpload, Upload!ResyncFails, Upload!LoseConnection, Upload!rows
  <1>4. ASSUME NEW u \in Uploads, Upload!Resync(u) PROVE Served'
    <2>1. offset[u] \in Nat /\ offset' = offset /\ handler' = handler
      BY <1>4 DEF Upload!Resync, Upload!rows
    <2>2. Upload!Advance(u, offset[u]).at \in LoopSteps
      BY <2>1, AdvanceGoes, LoopNames, SMTT(40)
    <2>3. [client[u] EXCEPT !.at = "send"].at \in LoopSteps /\ [client[u] EXCEPT !.at = "send", !.offset = offset[u]].at \in LoopSteps
      BY LoopNames
    <2> QED BY <1>1, <1>4, <2>1, <2>2, <2>3, ZenonT(60) DEF Upload!Resync
  <1>5. ASSUME NEW u \in Uploads, NEW h \in Handlers, Answers(u, h) PROVE Served'
    <2>1. handler[h].offset \in Nat /\ offset' = offset /\ handler' = [handler EXCEPT ![h] = Upload!Free] /\ client[u].at = h
      BY <1>5 DEF Answers, Upload!rows, HandlerRec
    <2>2. Upload!AfterFailure(u).at \in LoopSteps
      BY FailureGoes, LoopNames
    <2>5. Upload!Advance(u, handler[h].offset).at \in LoopSteps
      <3>1. \A o \in Nat : Upload!Advance(u, o).at \in LoopSteps
        BY AdvanceGoes, LoopNames
      <3> QED BY <2>1, <3>1
    <2>3. [client[u] EXCEPT !.at = "done", !.got = handler[h].body].at \in LoopSteps
      BY LoopNames
    <2>4. PICK c : c.at \in LoopSteps /\ Upload!Client(u, c)
      BY <1>5, <2>2, <2>3, <2>5 DEF Answers
    <2> QED BY <1>1, <2>1, <2>4
  <1>6. ASSUME NEW u \in Uploads, Upload!SendChunk(u) PROVE Served'
    <2>1. "chunk" \in AppendSteps /\ client[u].offset = client[u].start /\ client[u].start < Size
      BY <1>6 DEF Upload!SendChunk, AppendSteps, InStep
    <2> DEFINE r == [at |-> "chunk", u |-> u, offset |-> client[u].offset,
                     chunk |-> Upload!Chunk(u, client[u].start + 1), body |-> <<>>]
    <2>2. PICK h \in Handlers : /\ handler[h] = Upload!Free /\ offset' = offset
                                /\ handler' = [handler EXCEPT ![h] = r]
                                /\ Upload!Client(u, [client[u] EXCEPT !.at = h])
      BY <1>6 DEF Upload!SendChunk, Upload!rows
    <2>3. r.u = u /\ r.at \in AppendSteps /\ r.offset = client[u].start
      BY <2>1
    <2> HIDE DEF r
    <2> QED BY <1>2, <2>1, <2>2, <2>3
  <1>7. ASSUME NEW u \in Uploads, Upload!SendFinalise(u) PROVE Served'
    <2>1. "finalise" \in FinaliseSteps /\ client[u].start >= Size
      BY <1>7 DEF Upload!SendFinalise, FinaliseSteps, InStep
    <2> DEFINE r == [Upload!Free EXCEPT !.at = "finalise", !.u = u]
    <2>2. PICK h \in Handlers : /\ handler[h] = Upload!Free /\ offset' = offset
                                /\ handler' = [handler EXCEPT ![h] = r]
                                /\ Upload!Client(u, [client[u] EXCEPT !.at = h])
      BY <1>7 DEF Upload!SendFinalise, Upload!rows
    <2>3. r.u = u /\ r.at \in FinaliseSteps
      BY <2>1 DEF Upload!Free
    <2> HIDE DEF r
    <2> QED BY <1>2, <2>1, <2>2, <2>3
  <1>8. ASSUME NEW h \in Handlers, Upload!Discard(h) PROVE Served'
    BY <1>8 DEF Upload!Discard, Upload!rows
  <1>9. ASSUME NEW h \in Handlers, Work(h) PROVE Served'
    <2>1. /\ client' = client /\ \A k \in Handlers \ {h} : handler'[k] = handler[k]
          /\ handler'[h].u = handler[h].u /\ handler[h].u \in Uploads
      BY <1>9, WorkShape
    <2>2. \A v \in Uploads : offset[v] \in Nat /\ offset'[v] \in Nat /\ offset[v] <= offset'[v]
      BY <1>9, <2>1, WorkShape DEF Appends, GoesOn
    <2>3. CASE Appends(h)
      <3>1. "update" \in AppendSteps /\ handler'[h].at \notin AppendSteps \cup FinaliseSteps
        BY <2>3 DEF Appends, AppendSteps, FinaliseSteps, BodySteps
      <3>2. \A v \in Uploads : client[v].at = h => handler[h].u = v /\ client[v].start < Size /\ client[v].start <= offset[v]
        BY <2>3, <3>1 DEF Appends, InStep
      <3> SUFFICES ASSUME NEW v \in Uploads, NEW k \in Handlers, client[v].at = k
                   PROVE  /\ handler'[k].u = v
                          /\ handler'[k].at \in AppendSteps =>
                               handler'[k].offset = client[v].start /\ client[v].start < Size
                          /\ handler'[k].at = "appended" =>
                               /\ handler'[k].offset > client[v].start /\ client[v].start < Size
                               /\ handler'[k].offset <= offset'[v]
                          /\ handler'[k].at \in FinaliseSteps => client[v].start >= Size
        BY <2>1
      <3>3. CASE k = h
        <4>1. handler'[h].offset = offset[v] + 1 /\ offset'[v] = offset[v] + 1
          BY <2>3, <3>2, <3>3 DEF Appends
        <4> QED BY <2>1, <2>2, <3>1, <3>2, <3>3, <4>1
      <3>4. CASE k # h
        <4>1. handler'[k] = handler[k] /\ handler[k].offset \in Nat
          BY <2>1, <3>4 DEF HandlerRec
        <4> QED BY <2>2, <4>1
      <3> QED BY <3>3, <3>4
    <2>4. CASE GoesOn(h)
      <3>1. handler'[h].at # "appended" /\ handler'[h].offset = handler[h].offset
        BY <2>4 DEF GoesOn, AppendSteps, FinaliseSteps, BodySteps
      <3>2. /\ handler'[h].at \in AppendSteps => handler[h].at \in AppendSteps
            /\ handler'[h].at \in FinaliseSteps => handler[h].at \in FinaliseSteps
        BY <2>4 DEF GoesOn, AppendSteps, FinaliseSteps, BodySteps
      <3>3. offset' = offset
        BY <2>4 DEF GoesOn
      <3> QED BY <2>1, <3>1, <3>2, <3>3
    <2> QED BY <1>9, <2>3, <2>4, WorkShape
  <1> QED BY <1>3, <1>4, <1>5, <1>6, <1>7, <1>8, <1>9 DEF Upload!Next, Work, Upload!Answer, Answers

-----------------------------------------------------------------------------
(* Every chunk request advances the offset once at most.                   *)

LEMMA PendingFinite ==
  ASSUME Upload!HandlersAssumption, NEW u \in Uploads
  PROVE  IsFiniteSet(Pending(u)) /\ Cardinality(Pending(u)) \in Nat
  BY FS_Subset, FS_CardinalityType DEF Pending, Upload!HandlersAssumption, Upload!IsFiniteSet, IsFiniteSet

\* A slice further on is UPLOAD_MAX_RETRIES requests further on.
LEMMA SlicesFurther ==
  ASSUME NEW a \in Nat, NEW b \in Nat, NEW r \in Nat, a < b
  PROVE  a * r + r <= b * r
  <1>1. PICK d \in Nat : b = a + 1 + d
    BY b - a - 1 \in Nat /\ b = a + 1 + (b - a - 1)
  <1>2. b * r = a * r + r + d * r
    BY <1>1
  <1>3. d * r \in Nat /\ a * r \in Nat /\ b * r \in Nat
    OBVIOUS
  <1> QED BY <1>2, <1>3

LEMMA SentBound ==
  ASSUME Upload!SizeAssumption, UploadTypes, NEW u \in Uploads
  PROVE  Sent(u) \in Nat /\ Sent(u) <= Size * UPLOAD_MAX_RETRIES
  <1> DEFINE R == UPLOAD_MAX_RETRIES
             k == client[u].start
             t == client[u].tries
  <1>1. k \in Nat /\ t \in Nat /\ t + 1 <= R /\ R \in Nat /\ Size \in Nat
    BY DEF UploadTypes, LoopTypes, LoopRec, Upload!SizeAssumption
  <1>2. k * R \in Nat /\ Size * R \in Nat
    BY <1>1
  <1>3. k < Size => k * R + R <= Size * R
    BY <1>1, SlicesFurther
  <1> QED BY <1>1, <1>2, <1>3 DEF Sent

\* The loop's states in which the current slice has no request under way or behind it
\* but the failed ones.
Unsent == {"new", "send", "resync"}

\* Moving on never takes back a request.
LEMMA SentGrows ==
  ASSUME Upload!SizeAssumption, UploadTypes, LoopTypes', NEW u \in Uploads, NEW c, Upload!Client(u, c),
         \/ c.start = client[u].start /\ c.tries = client[u].tries /\ (c.at \in Unsent => client[u].at \in Unsent)
         \/ c.start = client[u].start /\ c.tries = client[u].tries + 1
         \/ c.start > client[u].start
  PROVE  \A v \in Uploads : Sent(v) <= Sent(v)'
  <1> SUFFICES ASSUME NEW v \in Uploads PROVE Sent(v) <= Sent(v)'
    OBVIOUS
  <1> DEFINE R == UPLOAD_MAX_RETRIES
             k == client[u].start
             t == client[u].tries
             l == client'[u].start
             s == client'[u].tries
  <1>1. CASE v # u
    <2>1. client'[v] = client[v]
      BY <1>1 DEF Upload!Client, UploadTypes, LoopTypes
    <2>2. Sent(v)' = Sent(v)
      BY <2>1 DEF Sent
    <2> QED BY <2>2, SentBound
  <1>2. CASE v = u
    <2>1. client'[u] = c
      BY DEF Upload!Client, UploadTypes, LoopTypes
    <2>2. /\ k \in Nat /\ t \in Nat /\ t + 1 <= R /\ R \in Nat /\ Size \in Nat
          /\ l \in Nat /\ s \in Nat /\ s + 1 <= R
      BY DEF UploadTypes, LoopTypes, LoopRec, Upload!SizeAssumption
    <2>3. k * R \in Nat /\ l * R \in Nat /\ Size * R \in Nat
      BY <2>2
    <2>4. k < Size => k * R + R <= Size * R
      BY <2>2, SlicesFurther
    <2>5. k < l => k * R + R <= l * R
      BY <2>2, SlicesFurther
    <2>6. CASE l = k /\ s = t /\ (c.at \in Unsent => client[u].at \in Unsent)
      BY <1>2, <2>1, <2>2, <2>3, <2>4, <2>6 DEF Sent, Unsent
    <2>7. CASE l = k /\ s = t + 1
      BY <1>2, <2>1, <2>2, <2>3, <2>4, <2>7 DEF Sent
    <2>8. CASE l > k
      BY <1>2, <2>1, <2>2, <2>3, <2>4, <2>5, <2>8 DEF Sent
    <2> QED BY <2>1, <2>6, <2>7, <2>8
  <1> QED BY <1>1, <1>2

\* A step that adds no pending handler and advances no offset.
LEMMA NoMorePending ==
  ASSUME Upload!SizeAssumption, Upload!HandlersAssumption, UploadTypes, LoopTypes', OffsetWithinSent,
         \A v \in Uploads : Pending(v)' \subseteq Pending(v), offset' = offset,
         \A v \in Uploads : Sent(v) <= Sent(v)'
  PROVE  OffsetWithinSent'
  <1> SUFFICES ASSUME NEW v \in Uploads PROVE offset'[v] + Cardinality(Pending(v)') <= Sent(v)'
    BY DEF OffsetWithinSent
  <1>1. Cardinality(Pending(v)') <= Cardinality(Pending(v)) /\ Cardinality(Pending(v)') \in Nat
    BY PendingFinite, FS_Subset, FS_CardinalityType
  <1>2. Cardinality(Pending(v)) \in Nat /\ offset[v] \in Nat /\ Sent(v) \in Nat
    BY PendingFinite, SentBound DEF UploadTypes, TableTypes
  <1>3. Sent(v)' \in Nat
    <2>1. client'[v] \in LoopRec
      BY DEF LoopTypes
    <2>2. client'[v].start * UPLOAD_MAX_RETRIES \in Nat /\ Size * UPLOAD_MAX_RETRIES \in Nat /\ client'[v].tries \in Nat
      BY <2>1 DEF LoopRec, Upload!SizeAssumption
    <2> QED BY <2>2 DEF Sent
  <1>4. offset[v] + Cardinality(Pending(v)) <= Sent(v) /\ Sent(v) <= Sent(v)'
    BY DEF OffsetWithinSent
  <1> QED BY <1>1, <1>2, <1>3, <1>4

\* A handler whose record becomes one that is not in appendChunk is not pending.
LEMMA NotPending ==
  ASSUME HandlerTypes, NEW h \in Handlers, NEW r, r.at \notin AppendSteps, handler' = [handler EXCEPT ![h] = r]
  PROVE  \A v \in Uploads : Pending(v)' \subseteq Pending(v)
  BY DEF HandlerTypes, Pending

LEMMA OffsetStep ==
  ASSUME Upload!SizeAssumption, Upload!HandlersAssumption, UploadTypes, OwnPieces, InStep, Served, OffsetWithinSent,
         LoopTypes', Upload!Next
  PROVE  OffsetWithinSent'
  <1>0. ASSUME handler' = handler PROVE \A v \in Uploads : Pending(v)' \subseteq Pending(v)
    BY <1>0 DEF Pending
  <1>1. ASSUME NEW u \in Uploads, Upload!CreateUpload(u) \/ Upload!ResyncFails(u) PROVE OffsetWithinSent'
    <2>1. PICK c : /\ Upload!Client(u, c) /\ c.start = client[u].start /\ c.tries = client[u].tries
                   /\ client[u].at \in Unsent /\ handler' = handler /\ offset' = offset
      BY <1>1 DEF Upload!CreateUpload, Upload!ResyncFails, Upload!rows, Unsent, UploadTypes, LoopTypes, LoopRec
    <2> QED BY <1>0, <2>1, SentGrows, NoMorePending
  <1>2. ASSUME NEW u \in Uploads, Upload!Client(u, Upload!AfterFailure(u)), client[u].at \in Handlers
        PROVE  \A v \in Uploads : Sent(v) <= Sent(v)'
    <2>1. LET c == Upload!AfterFailure(u) IN
            \/ c.start = client[u].start /\ c.tries = client[u].tries /\ c.at \notin Unsent
            \/ c.start = client[u].start /\ c.tries = client[u].tries + 1
      BY FailureGoes DEF Unsent
    <2> QED BY <1>2, <2>1, SentGrows
  <1>3. ASSUME NEW u \in Uploads, Upload!LoseConnection(u) PROVE OffsetWithinSent'
    BY <1>0, <1>2, <1>3, NoMorePending DEF Upload!LoseConnection, Upload!rows
  <1>4. ASSUME NEW u \in Uploads, Upload!Resync(u) PROVE OffsetWithinSent'
    <2>1. offset[u] \in Nat /\ client[u].start \in Nat /\ handler' = handler /\ offset' = offset /\ client[u].at \in Unsent
      BY <1>4 DEF Upload!Resync, Upload!rows, UploadTypes, TableTypes, LoopTypes, LoopRec, Unsent
    <2>2. Upload!Advance(u, offset[u]).start = offset[u]
      BY <2>1, AdvanceGoes
    <2>3. PICK c : /\ Upload!Client(u, c)
                   /\ \/ c.start = client[u].start /\ c.tries = client[u].tries
                      \/ c.start > client[u].start
      <3>1. CASE upload[u] = "open" /\ offset[u] >= client[u].start + 1
        BY <1>4, <2>1, <2>2, <3>1 DEF Upload!Resync
      <3>2. CASE upload[u] = "open" /\ ~(offset[u] >= client[u].start + 1)
        <4>1. Upload!Client(u, [client[u] EXCEPT !.at = "send", !.offset = offset[u]])
          BY <1>4, <3>2 DEF Upload!Resync
        <4>2. LET c == [client[u] EXCEPT !.at = "send", !.offset = offset[u]] IN
                c.start = client[u].start /\ c.tries = client[u].tries
          BY DEF UploadTypes, LoopTypes, LoopRec
        <4> QED BY <4>1, <4>2
      <3>3. CASE upload[u] # "open"
        BY <1>4, <3>3 DEF Upload!Resync, UploadTypes, LoopTypes, LoopRec
      <3> QED BY <3>1, <3>2, <3>3
    <2>4. \A v \in Uploads : Sent(v) <= Sent(v)'
      BY <2>1, <2>3, SentGrows
    <2> QED BY <1>0, <2>1, <2>4, NoMorePending
  <1>5. ASSUME NEW u \in Uploads, NEW h \in Handlers, Answers(u, h) PROVE OffsetWithinSent'
    <2>1. \A v \in Uploads : Pending(v)' \subseteq Pending(v)
      <3>1. Upload!Free.at \notin AppendSteps
        BY DEF Upload!Free, AppendSteps
      <3> QED BY <1>5, <3>1, NotPending DEF Answers, UploadTypes
    <2>2. \A v \in Uploads : Sent(v) <= Sent(v)'
      <3>1. CASE handler[h].at = "appended"
        <4>1. handler[h].offset \in Nat /\ handler[h].offset > client[u].start
          BY <1>5, <3>1 DEF Answers, Served, UploadTypes, HandlerTypes, HandlerRec
        <4>2. \A o \in Nat : Upload!Advance(u, o).start = o
          BY AdvanceGoes
        <4>3. Upload!Client(u, Upload!Advance(u, handler[h].offset)) /\ Upload!Advance(u, handler[h].offset).start > client[u].start
          BY <1>5, <3>1, <4>1, <4>2 DEF Answers
        <4> QED BY <4>3, SentGrows
      <3>2. CASE handler[h].at = "attached"
        <4>1. PICK c : Upload!Client(u, c) /\ c.start = client[u].start /\ c.tries = client[u].tries /\ c.at = "done"
          <5>1. Upload!Client(u, [client[u] EXCEPT !.at = "done", !.got = handler[h].body])
            BY <1>5, <3>2 DEF Answers
          <5>2. LET c == [client[u] EXCEPT !.at = "done", !.got = handler[h].body] IN
                  c.start = client[u].start /\ c.tries = client[u].tries /\ c.at = "done"
            BY DEF UploadTypes, LoopTypes, LoopRec
          <5> QED BY <5>1, <5>2
        <4>2. "done" \notin Unsent
          BY DEF Unsent
        <4> QED BY <4>1, <4>2, SentGrows
      <3>3. CASE handler[h].at = "refused"
        BY <1>2, <1>5, <3>3 DEF Answers
      <3> QED BY <1>5, <3>1, <3>2, <3>3 DEF Answers
    <2> QED BY <1>5, <2>1, <2>2, NoMorePending DEF Answers, Upload!rows
  <1>6. ASSUME NEW h \in Handlers, Upload!Discard(h) PROVE OffsetWithinSent'
    <2>1. \A v \in Uploads : Pending(v)' \subseteq Pending(v)
      <3>1. Upload!Free.at \notin AppendSteps
        BY DEF Upload!Free, AppendSteps
      <3> QED BY <1>6, <3>1, NotPending DEF Upload!Discard, UploadTypes
    <2>2. \A v \in Uploads : Sent(v) <= Sent(v)'
      <3>1. client' = client
        BY <1>6 DEF Upload!Discard
      <3>2. \A v \in Uploads : Sent(v)' = Sent(v)
        BY <3>1 DEF Sent
      <3> QED BY <3>2, SentBound
    <2> QED BY <1>6, <2>1, <2>2, NoMorePending DEF Upload!Discard, Upload!rows
  <1>7. ASSUME NEW u \in Uploads, Upload!SendFinalise(u) PROVE OffsetWithinSent'
    <2>1. PICK h \in Handlers : /\ handler' = [handler EXCEPT ![h] = [Upload!Free EXCEPT !.at = "finalise", !.u = u]]
                                /\ Upload!Client(u, [client[u] EXCEPT !.at = h])
      BY <1>7 DEF Upload!SendFinalise
    <2>2. [Upload!Free EXCEPT !.at = "finalise", !.u = u].at \notin AppendSteps
      BY DEF Upload!Free, AppendSteps
    <2>3. \A v \in Uploads : Pending(v)' \subseteq Pending(v)
      BY <2>1, <2>2, NotPending DEF UploadTypes
    <2>4. h \notin Unsent
      BY WaitsOrNot, LoopNames DEF Unsent
    <2>5. \A v \in Uploads : Sent(v) <= Sent(v)'
      BY <2>1, <2>4, SentGrows DEF UploadTypes, LoopTypes, LoopRec
    <2> QED BY <1>7, <2>3, <2>5, NoMorePending DEF Upload!SendFinalise, Upload!rows
  <1>8. ASSUME NEW u \in Uploads, Upload!SendChunk(u) PROVE OffsetWithinSent'
    <2> DEFINE r == [at |-> "chunk", u |-> u, offset |-> client[u].offset,
                     chunk |-> Upload!Chunk(u, client[u].start + 1), body |-> <<>>]
    <2>1. PICK h \in Handlers : /\ handler[h] = Upload!Free /\ offset' = offset
                                /\ handler' = [handler EXCEPT ![h] = r]
                                /\ Upload!Client(u, [client[u] EXCEPT !.at = h])
      BY <1>8 DEF Upload!SendChunk, Upload!rows
    <2>2. r.at \in AppendSteps /\ r.u = u /\ Upload!Free.at \notin AppendSteps
      BY DEF AppendSteps, Upload!Free
    <2> HIDE DEF r
    <2>3. h \notin {"new", "send", "resync"}
      BY WaitsOrNot, LoopNames
    <2>4. Pending(u)' = Pending(u) \cup {h} /\ h \notin Pending(u)
      BY <2>1, <2>2 DEF Pending, UploadTypes, HandlerTypes
    <2>5. Cardinality(Pending(u)') = Cardinality(Pending(u)) + 1
      BY <2>4, PendingFinite, FS_AddElement
    <2>6. \A v \in Uploads \ {u} : Pending(v)' = Pending(v)
      BY <2>1, <2>2 DEF Pending, UploadTypes, HandlerTypes
    <2>7. \A v \in Uploads \ {u} : Sent(v)' = Sent(v)
      BY <2>1 DEF Sent, Upload!Client, UploadTypes, LoopTypes
    <2>8. Sent(u)' = Sent(u) + 1
      <3>1. client[u].at = "send" /\ client[u].start < Size
        BY <1>8 DEF Upload!SendChunk, InStep
      <3>2. client'[u].at = h /\ client'[u].start = client[u].start /\ client'[u].tries = client[u].tries
        BY <2>1 DEF Upload!Client, UploadTypes, LoopTypes, LoopRec
      <3>3. client[u].start * UPLOAD_MAX_RETRIES \in Nat /\ client[u].tries \in Nat /\ client[u].start \in Nat /\ Size \in Nat
        BY DEF UploadTypes, LoopTypes, LoopRec, Upload!SizeAssumption
      <3> QED BY <2>3, <3>1, <3>2, <3>3 DEF Sent
    <2>9. \A v \in Uploads : /\ offset[v] \in Nat /\ Cardinality(Pending(v)) \in Nat /\ Sent(v) \in Nat
                             /\ offset[v] + Cardinality(Pending(v)) <= Sent(v)
      BY PendingFinite, SentBound DEF UploadTypes, TableTypes, OffsetWithinSent
    <2>10. \A v \in Uploads : offset'[v] + Cardinality(Pending(v)') <= Sent(v)'
      BY <2>1, <2>5, <2>6, <2>7, <2>8, <2>9
    <2> QED BY <2>10 DEF OffsetWithinSent
  <1>9. ASSUME NEW h \in Handlers, Work(h) PROVE OffsetWithinSent'
    <2>1. /\ client' = client /\ \A k \in Handlers \ {h} : handler'[k] = handler[k]
          /\ handler'[h].u = handler[h].u /\ handler[h].u \in Uploads
      BY <1>9, WorkShape
    <2>2. \A v \in Uploads : Sent(v)' = Sent(v)
      BY <2>1 DEF Sent
    <2>3. CASE GoesOn(h)
      <3>1. handler'[h].at \in AppendSteps => handler[h].at \in AppendSteps
        BY <2>3 DEF GoesOn, AppendSteps, FinaliseSteps, BodySteps
      <3>2. \A v \in Uploads : Pending(v)' \subseteq Pending(v)
        BY <2>1, <3>1 DEF Pending
      <3>3. offset' = offset
        BY <2>3 DEF GoesOn
      <3>4. \A v \in Uploads : Sent(v) <= Sent(v)'
        BY <2>2, SentBound
      <3> QED BY <3>2, <3>3, <3>4, NoMorePending
    <2>4. CASE Appends(h)
      <3>0. PICK u \in Uploads : u = handler[h].u
        BY <2>1
      <3>1. handler[h].at \in AppendSteps /\ handler'[h].at \notin AppendSteps
        BY <2>4 DEF Appends, AppendSteps
      <3>2. Pending(u)' = Pending(u) \ {h} /\ h \in Pending(u)
        BY <2>1, <3>0, <3>1 DEF Pending
      <3>3. Cardinality(Pending(u)') = Cardinality(Pending(u)) - 1
        BY <2>1, <3>2, PendingFinite, FS_RemoveElement
      <3>4. \A v \in Uploads \ {u} : Pending(v)' = Pending(v)
        BY <2>1, <3>0 DEF Pending
      <3>5. offset' = [offset EXCEPT ![u] = @ + 1]
        BY <2>4, <3>0 DEF Appends
      <3>6. \A v \in Uploads : /\ offset[v] \in Nat /\ Cardinality(Pending(v)) \in Nat /\ Sent(v) \in Nat
                               /\ offset[v] + Cardinality(Pending(v)) <= Sent(v)
        BY PendingFinite, SentBound DEF UploadTypes, TableTypes, OffsetWithinSent
      <3>7. \A v \in Uploads : offset'[v] = IF v = u THEN offset[v] + 1 ELSE offset[v]
        BY <3>5 DEF UploadTypes, TableTypes
      <3>8. \A v \in Uploads : offset'[v] + Cardinality(Pending(v)') <= Sent(v)'
        BY <2>2, <3>3, <3>4, <3>6, <3>7
      <3> QED BY <3>8 DEF OffsetWithinSent
    <2> QED BY <1>9, <2>3, <2>4, WorkShape
  <1> QED BY <1>1, <1>3, <1>4, <1>5, <1>6, <1>7, <1>8, <1>9 DEF Upload!Next, Work, Upload!Answer, Answers

-----------------------------------------------------------------------------
(* The tables and the object store.                                        *)

\* A handler at work only adds objects and rows, each row after its object, and drops
\* an upload only when its attachment is recorded.
LEMMA WorkRecords ==
  ASSUME UploadTypes, OwnPieces, BodyRecorded, Upload!RowHasObject, NEW h \in Handlers, Work(h)
  PROVE  /\ stored \subseteq stored' /\ attachment \subseteq attachment' /\ attachment' \subseteq stored'
         /\ Recorded(h)'
         /\ \/ upload' = upload
            \/ /\ upload' = [upload EXCEPT ![handler[h].u] = "deleted"]
               /\ handler[h].at \in {"reuse", "drop"}
  <1> USE DEF UploadTypes, HandlerTypes, HandlerRec, Upload!rows, Upload!objects, Upload!Up, Upload!Goto, Recorded, Upload!RowHasObject
  <1>0. Recorded(h)
    BY DEF BodyRecorded
  <1>1. CASE Upload!ChunkSelect(h) \/ Upload!ChunkRead(h) \/ Upload!ChunkReadFails(h) \/ Upload!ChunkPut(h)
    BY <1>1 DEF Upload!ChunkSelect, Upload!ChunkRead, Upload!ChunkReadFails, Upload!ChunkPut, BodySteps
  <1>2. CASE Upload!ChunkUpdate(h) \/ Upload!FinaliseSelect(h) \/ Upload!Crash(h)
    BY <1>2 DEF Upload!ChunkUpdate, Upload!FinaliseSelect, Upload!Crash, BodySteps
  <1>3. CASE Upload!FinaliseHash(h)
    BY <1>3 DEF Upload!FinaliseHash, BodySteps
  <1>4. CASE Upload!FinaliseDedup(h)
    BY <1>0, <1>4 DEF Upload!FinaliseDedup, BodySteps
  <1>5. CASE Upload!Reuse(h)
    BY <1>0, <1>5 DEF Upload!Reuse, Upload!DropRow, Upload!DropStaged, BodySteps
  <1>6. CASE Upload!Promote(h)
    BY <1>0, <1>6 DEF Upload!Promote, BodySteps
  <1>7. CASE Upload!Insert(h)
    BY <1>0, <1>7 DEF Upload!Insert, BodySteps
  <1>8. CASE Upload!DropStaged(h, "remove", "insert") \/ Upload!DropRow(h, "drop", "attached")
    BY <1>0, <1>8 DEF Upload!DropStaged, Upload!DropRow, BodySteps
  <1> QED BY <1>1, <1>2, <1>3, <1>4, <1>5, <1>6, <1>7, <1>8 DEF Work, Upload!Attach

\* A body of pieces of u's file names that file.
LEMMA BodyNamesFile ==
  ASSUME NEW u \in Uploads, NEW b \in Seq(Pieces(u)), b # <<>>
  PROVE  \E i \in DOMAIN b : b[i][1] = File[u]
  <1>1. 1 \in DOMAIN b /\ b[1] \in Pieces(u)
    OBVIOUS
  <1>2. b[1][1] = File[u]
    BY <1>1 DEF Pieces
  <1> QED BY <1>1, <1>2

LEMMA BodyRecordedStep ==
  ASSUME UploadTypes, OwnPieces, BodyRecorded, Upload!RowHasObject, Upload!Next
  PROVE  BodyRecorded'
  <1>1. ASSUME NEW h \in Handlers, Work(h) PROVE BodyRecorded'
    <2>1. stored \subseteq stored' /\ attachment \subseteq attachment' /\ Recorded(h)'
      BY <1>1, WorkRecords
    <2>2. \A k \in Handlers \ {h} : handler'[k] = handler[k]
      BY <1>1, WorkShape
    <2> QED BY <2>1, <2>2 DEF BodyRecorded, Recorded
  <1>2. ASSUME NEW h \in Handlers, NEW r, handler' = [handler EXCEPT ![h] = r], r.at \in {"free", "chunk", "finalise"},
               stored' = stored, attachment' = attachment
        PROVE  BodyRecorded'
    BY <1>2 DEF BodyRecorded, Recorded, BodySteps, UploadTypes, HandlerTypes
  <1>3. ASSUME handler' = handler, stored' = stored, attachment' = attachment PROVE BodyRecorded'
    BY <1>3 DEF BodyRecorded, Recorded
  <1>4. ASSUME NEW u \in Uploads, Upload!SendChunk(u) PROVE BodyRecorded'
    <2> DEFINE r == [at |-> "chunk", u |-> u, offset |-> client[u].offset,
                     chunk |-> Upload!Chunk(u, client[u].start + 1), body |-> <<>>]
    <2>1. r.at = "chunk" /\ \E h \in Handlers : handler' = [handler EXCEPT ![h] = r]
      BY <1>4 DEF Upload!SendChunk
    <2> HIDE DEF r
    <2> QED BY <1>2, <1>4, <2>1 DEF Upload!SendChunk, Upload!rows, Upload!objects
  <1>5. ASSUME NEW u \in Uploads, Upload!SendFinalise(u) PROVE BodyRecorded'
    <2> DEFINE r == [Upload!Free EXCEPT !.at = "finalise", !.u = u]
    <2>1. r.at = "finalise" /\ \E h \in Handlers : handler' = [handler EXCEPT ![h] = r]
      BY <1>5 DEF Upload!SendFinalise, Upload!Free
    <2> HIDE DEF r
    <2> QED BY <1>2, <1>5, <2>1 DEF Upload!SendFinalise, Upload!rows, Upload!objects
  <1>6. ASSUME NEW u \in Uploads, Upload!Answer(u) PROVE BodyRecorded'
    BY <1>2, <1>6 DEF Upload!Answer, Upload!rows, Upload!objects, Upload!Free
  <1>7. ASSUME NEW h \in Handlers, Upload!Discard(h) PROVE BodyRecorded'
    BY <1>2, <1>7 DEF Upload!Discard, Upload!rows, Upload!objects, Upload!Free
  <1> QED
    BY <1>1, <1>3, <1>4, <1>5, <1>6, <1>7
       DEF Upload!Next, Work, Upload!CreateUpload, Upload!LoseConnection, Upload!Resync, Upload!ResyncFails, Upload!rows, Upload!objects

LEMMA StoreStep ==
  ASSUME Upload!HandlersAssumption, Upload!SizeAssumption, UploadTypes, OwnPieces, BodyRecorded, Upload!StoreIsConsistent, Upload!Next
  PROVE  Upload!StoreIsConsistent'
  <1> USE DEF Upload!StoreIsConsistent
  <1>1. ASSUME NEW h \in Handlers, Work(h) PROVE Upload!StoreIsConsistent'
    <2>1. attachment \subseteq attachment' /\ attachment' \subseteq stored'
      BY <1>1, WorkRecords
    <2>2. client' = client /\ handler[h].u \in Uploads /\ handler[h].at # "free"
      BY <1>1, WorkShape
    <2>3. Upload!AttachedIsRecorded'
      BY <2>1, <2>2 DEF Upload!AttachedIsRecorded
    <2>4. Upload!DroppedMeansAttached'
      <3>1. CASE upload' = upload
        BY <2>1, <3>1 DEF Upload!DroppedMeansAttached
      <3>2. CASE upload' = [upload EXCEPT ![handler[h].u] = "deleted"] /\ handler[h].at \in {"reuse", "drop"}
        <4>1. handler[h].body \in attachment /\ handler[h].body # <<>>
          BY <3>2 DEF BodyRecorded, Recorded, BodySteps
        <4>2. handler[h].body \in Seq(Pieces(handler[h].u))
          BY <2>2 DEF OwnPieces, OwnHandler
        <4>3. \E i \in DOMAIN handler[h].body : handler[h].body[i][1] = File[handler[h].u]
          BY <2>2, <4>1, <4>2, BodyNamesFile
        <4>4. \A u \in Uploads : upload'[u] = "deleted" => u = handler[h].u \/ upload[u] = "deleted"
          BY <3>2 DEF UploadTypes, TableTypes
        <4>5. handler[h].body \in attachment'
          BY <2>1, <4>1
        <4> QED BY <2>1, <4>3, <4>4, <4>5 DEF Upload!DroppedMeansAttached
      <3> QED BY <1>1, <3>1, <3>2, WorkRecords
    <2> QED BY <2>1, <2>3, <2>4 DEF Upload!RowHasObject
  <1>2. CASE \/ \E u \in Uploads : \/ Upload!CreateUpload(u) \/ Upload!SendChunk(u) \/ Upload!SendFinalise(u) \/ Upload!Answer(u)
                                   \/ Upload!LoseConnection(u) \/ Upload!Resync(u) \/ Upload!ResyncFails(u)
             \/ \E h \in Handlers : Upload!Discard(h)
    <2>1. stored' = stored /\ attachment' = attachment
          /\ (upload' = upload \/ \E u \in Uploads : upload' = [upload EXCEPT ![u] = "open"])
      BY <1>2, BrowserLeaves
    <2>2. \A u \in Uploads : upload'[u] = "deleted" => upload[u] = "deleted"
      BY <2>1 DEF UploadTypes, TableTypes
    <2>3. Upload!AttachedIsRecorded'
      <3>1. ASSUME NEW u \in Uploads, NEW c, Upload!Client(u, c), c.at = "done" => c.got \in attachment
            PROVE  Upload!AttachedIsRecorded'
        BY <2>1, <3>1 DEF Upload!AttachedIsRecorded, Upload!Client, UploadTypes, LoopTypes
      <3>2. ASSUME NEW u \in Uploads, Upload!CreateUpload(u) \/ Upload!SendChunk(u) \/ Upload!SendFinalise(u) \/ Upload!ResyncFails(u) PROVE Upload!AttachedIsRecorded'
        <4>1. PICK a \in Handlers \cup {"send"} : Upload!Client(u, [client[u] EXCEPT !.at = a])
          BY <3>2 DEF Upload!CreateUpload, Upload!SendChunk, Upload!SendFinalise, Upload!ResyncFails
        <4>2. a # "done"
          BY <4>1, WaitsOrNot, LoopNames
        <4> QED BY <3>1, <4>1, <4>2 DEF UploadTypes, LoopTypes, LoopRec
      <3>3. ASSUME NEW u \in Uploads, Upload!Client(u, Upload!AfterFailure(u)) PROVE Upload!AttachedIsRecorded'
        BY <3>1, <3>3, FailureGoes
      <3>4. ASSUME NEW u \in Uploads, NEW o \in Nat, Upload!Client(u, Upload!Advance(u, o)) PROVE Upload!AttachedIsRecorded'
        BY <3>1, <3>4, AdvanceGoes
      <3>5. ASSUME NEW u \in Uploads, NEW h \in Handlers, Answers(u, h) PROVE Upload!AttachedIsRecorded'
        <4>1. handler[h].offset \in Nat
          BY DEF UploadTypes, HandlerTypes, HandlerRec
        <4>2. CASE handler[h].at = "attached"
          <5>1. handler[h].body \in attachment
            BY <4>2 DEF BodyRecorded, Recorded
          <5>2. Upload!Client(u, [client[u] EXCEPT !.at = "done", !.got = handler[h].body])
            BY <3>5, <4>2 DEF Answers
          <5>3. [client[u] EXCEPT !.at = "done", !.got = handler[h].body].got = handler[h].body
            BY DEF UploadTypes, LoopTypes, LoopRec
          <5> QED BY <3>1, <5>1, <5>2, <5>3
        <4> QED BY <3>3, <3>4, <3>5, <4>1, <4>2 DEF Answers
      <3>6. ASSUME NEW u \in Uploads, Upload!Resync(u) PROVE Upload!AttachedIsRecorded'
        <4>1. offset[u] \in Nat
          BY DEF UploadTypes, TableTypes
        <4>2. [client[u] EXCEPT !.at = "send"].at # "done" /\ [client[u] EXCEPT !.at = "send", !.offset = offset[u]].at # "done"
          BY DEF UploadTypes, LoopTypes, LoopRec
        <4> QED BY <3>1, <3>4, <3>6, <4>1, <4>2 DEF Upload!Resync
      <3>7. ASSUME client' = client PROVE Upload!AttachedIsRecorded'
        BY <2>1, <3>7 DEF Upload!AttachedIsRecorded
      <3> QED BY <1>2, <3>2, <3>3, <3>5, <3>6, <3>7 DEF Upload!LoseConnection, Upload!Discard, Upload!Answer, Answers
    <2> QED BY <2>1, <2>2, <2>3 DEF Upload!RowHasObject, Upload!DroppedMeansAttached
  <1> QED BY <1>1, <1>2 DEF Upload!Next, Work

-----------------------------------------------------------------------------
(* While connections hold and nothing fails.                               *)

LEMMA PrefixGrows ==
  ASSUME NEW u \in Uploads, NEW n \in Nat
  PROVE  /\ Prefix(u, n) \in Seq(Pieces(u))
         /\ Append(Prefix(u, n), Upload!Chunk(u, n + 1)) = Prefix(u, n + 1)
  <1>1. \A i \in Nat : Upload!Chunk(u, i) \in Pieces(u)
    BY DEF Upload!Chunk, Pieces
  <1>2. /\ Prefix(u, n) \in Seq(Pieces(u)) /\ Len(Prefix(u, n)) = n
        /\ \A i \in 1 .. n : Prefix(u, n)[i] = Upload!Chunk(u, i)
    BY <1>1 DEF Prefix
  <1> DEFINE a == Append(Prefix(u, n), Upload!Chunk(u, n + 1))
  <1>3. a \in Seq(Pieces(u)) /\ Len(a) = n + 1
    BY <1>1, <1>2
  <1>4. \A i \in 1 .. n + 1 : a[i] = Upload!Chunk(u, i)
    BY <1>2
  <1>5. a = [i \in 1 .. n + 1 |-> a[i]]
    BY <1>3
  <1>6. a = Prefix(u, n + 1)
    BY <1>4, <1>5 DEF Prefix
  <1> QED BY <1>2, <1>6

LEMMA EmptyPrefix == \A u \in Uploads : Prefix(u, 0) = <<>>
  BY DEF Prefix

\* An upload that a step does not touch stays as it is.
LEMMA FaithfulFrame ==
  ASSUME UploadTypes, NEW v \in Uploads, Faithful(v), client'[v] = client[v], offset'[v] = offset[v], staged'[v] = staged[v],
         upload'[v] = upload[v],
         \A k \in Handlers : handler'[k].u = v \/ client[v].at = k => handler'[k] = handler[k]
  PROVE  Faithful(v)'
  <1>1. \A k \in Handlers : handler'[k].u = v => client'[v].at = k
    BY DEF Faithful
  <1>2. \A k \in Handlers : client'[v].at = k => client[v].at = k /\ handler'[k] = handler[k]
    OBVIOUS
  <1> QED BY <1>1, <1>2 DEF Faithful, Prefix, Upload!Chunk

LEMMA FaithfulWork ==
  ASSUME Upload!SizeAssumption, Upload!HandlersAssumption, UploadTypes, OwnPieces, InStep, Served, NEW h \in Handlers, Work(h),
         NEW u \in Uploads, u = handler[h].u, Faithful(u), faults' = faults
  PROVE  Faithful(u)'
  <1>1. /\ client' = client /\ \A k \in Handlers \ {h} : handler'[k] = handler[k]
        /\ handler'[h].u = u /\ handler'[h].chunk = handler[h].chunk
    BY WorkShape
  <1>2. client[u].at = h /\ client[u].start \in Nat /\ client[u].start <= Size
    BY DEF Faithful, UploadTypes, LoopTypes, LoopRec
  <1>3. h \notin LoopSteps
    BY WaitsOrNot
  <1>4. /\ \A k \in Handlers : handler'[k].u = u => client'[u].at = k
        /\ client'[u].at \notin {"new", "send", "resync", "finalise", "done"}
        /\ \A k \in Handlers : client'[u].at = k => k = h
    BY <1>1, <1>2, <1>3, LoopNames DEF Faithful
  <1>5. faults \in Nat /\ faults + 1 # faults
    BY DEF UploadTypes, TableTypes
  <1> DEFINE n == client[u].start
             FaithfulHere ==
               /\ handler[h].at \in {"chunk", "read", "put"} =>
                    /\ offset[u] = n /\ staged[u] = Prefix(u, n)
                    /\ handler[h].chunk = Upload!Chunk(u, n + 1)
               /\ handler[h].at = "put" => handler[h].body = Prefix(u, n)
               /\ handler[h].at = "update" => offset[u] = n /\ staged[u] = Prefix(u, n + 1)
               /\ handler[h].at = "appended" =>
                    /\ handler[h].offset = n + 1 /\ offset[u] = n + 1
                    /\ staged[u] = Prefix(u, n + 1)
               /\ handler[h].at = "refused" /\ n < Size => offset[u] = n /\ staged[u] = Prefix(u, n)
               /\ handler[h].at \in {"finalise", "hash"} => staged[u] = Prefix(u, Size)
               /\ handler[h].at \in BodySteps => handler[h].body = Prefix(u, Size)
               /\ n < Size => upload[u] = "open"
  <1>6. FaithfulHere
    BY <1>2, <1>3, LoopNames DEF Faithful
  <1>7. FaithfulHere' => Faithful(u)'
    BY <1>1, <1>2, <1>4 DEF Faithful
  <1>8. handler[h].at \in FinaliseSteps => ~(n < Size)
    BY <1>2 DEF Served, Upload!SizeAssumption
  <1>9. handler[h].at \in AppendSteps => n < Size
    BY <1>2 DEF Served
  <1> SUFFICES FaithfulHere'
    BY <1>7
  <1> USE DEF UploadTypes, TableTypes, HandlerTypes, HandlerRec, Upload!rows, Upload!objects, Upload!Up, Upload!Goto
  <1>10. n' = n /\ client'[u] = client[u]
    BY <1>1
  <1>11. CASE Upload!ChunkSelect(h)
    BY <1>6, <1>9, <1>10, <1>11 DEF Upload!ChunkSelect, BodySteps, Prefix, Upload!Chunk
  <1>12. CASE Upload!ChunkRead(h)
    BY <1>6, <1>10, <1>12 DEF Upload!ChunkRead, BodySteps, Prefix, Upload!Chunk
  <1>13. CASE Upload!ChunkPut(h)
    BY <1>2, <1>6, <1>10, <1>13, PrefixGrows, ZenonT(60) DEF Upload!ChunkPut, BodySteps
  <1>14. CASE Upload!ChunkUpdate(h)
    BY <1>6, <1>9, <1>10, <1>14 DEF Upload!ChunkUpdate, BodySteps, AppendSteps
  <1>15. CASE Upload!FinaliseSelect(h)
    BY <1>6, <1>8, <1>10, <1>15 DEF Upload!FinaliseSelect, BodySteps, FinaliseSteps
  <1>16. CASE Upload!FinaliseHash(h)
    BY <1>6, <1>8, <1>10, <1>16 DEF Upload!FinaliseHash, BodySteps, FinaliseSteps
  <1>17. CASE Upload!FinaliseDedup(h)
    BY <1>6, <1>8, <1>10, <1>17 DEF Upload!FinaliseDedup, BodySteps, FinaliseSteps
  <1>18. CASE Upload!Reuse(h)
    BY <1>6, <1>8, <1>10, <1>18 DEF Upload!Reuse, Upload!DropRow, Upload!DropStaged, BodySteps, FinaliseSteps
  <1>19. CASE Upload!Promote(h) \/ Upload!Insert(h)
    BY <1>6, <1>8, <1>10, <1>19 DEF Upload!Promote, Upload!Insert, BodySteps, FinaliseSteps
  <1>20. CASE Upload!DropStaged(h, "remove", "insert") \/ Upload!DropRow(h, "drop", "attached")
    BY <1>6, <1>8, <1>10, <1>20 DEF Upload!DropRow, Upload!DropStaged, BodySteps, FinaliseSteps
  <1> QED
    BY <1>5, <1>11, <1>12, <1>13, <1>14, <1>15, <1>16, <1>17, <1>18, <1>19, <1>20
       DEF Work, Upload!Attach, Upload!ChunkReadFails, Upload!Crash

\* An upload whose loop waits for no handler, after a step.
LEMMA FaithfulIdle ==
  ASSUME Upload!HandlersAssumption, NEW v \in Uploads, NEW c, client'[v] = c, c.at \in LoopSteps,
         \A k \in Handlers : handler'[k].u # v,
         c.start <= Size, c.at # "new" /\ c.start < Size => upload'[v] = "open",
         c.at \in {"new", "send", "resync", "finalise"} => offset'[v] = c.start /\ staged'[v] = Prefix(v, c.start),
         c.at = "done" => c.got = Prefix(v, Size)
  PROVE  Faithful(v)'
  <1>1. \A k \in Handlers : client'[v].at # k
    BY WaitsOrNot
  <1>2. \A n : Prefix(v, n)' = Prefix(v, n)
    BY DEF Prefix, Upload!Chunk
  <1> QED BY <1>1, <1>2 DEF Faithful

LEMMA FaithfulStep ==
  ASSUME Upload!SizeAssumption, Upload!HandlersAssumption, UploadTypes, OwnPieces, InStep, Served, UndisturbedIsFaithful, Upload!Next
  PROVE  UndisturbedIsFaithful'
  <1> SUFFICES ASSUME Upload!Undisturbed', NEW v \in Uploads PROVE Faithful(v)'
    BY DEF UndisturbedIsFaithful
  <1>1. lost \in Nat /\ faults \in Nat /\ lost' \in {lost, lost + 1} /\ faults' \in {faults, faults + 1}
    BY WorkStages, BrowserLeaves DEF Upload!Next, Work, UploadTypes, TableTypes
  <1>2. lost = 0 /\ faults = 0 /\ lost' = lost /\ faults' = faults
    BY <1>1 DEF Upload!Undisturbed
  <1>3. \A u \in Uploads : Faithful(u)
    BY <1>2 DEF Upload!Undisturbed, UndisturbedIsFaithful
  <1>4. \A u \in Uploads : client[u] \in LoopRec /\ client[u].start \in Nat /\ offset[u] \in Nat /\ Size \in Nat
    BY DEF UploadTypes, LoopTypes, LoopRec, TableTypes, Upload!SizeAssumption
  \* The loop of another upload, and a handler that serves another one.
  <1>5. ASSUME NEW u \in Uploads, u # v, NEW c, Upload!Client(u, c) \/ client' = client, offset' = offset, staged' = staged,
               upload' = upload \/ upload' = [upload EXCEPT ![u] = "open"],
               \A k \in Handlers : handler'[k].u = v \/ client[v].at = k => handler'[k] = handler[k]
        PROVE  Faithful(v)'
    <2>1. client'[v] = client[v] /\ upload'[v] = upload[v]
      BY <1>5 DEF Upload!Client, UploadTypes, LoopTypes, TableTypes
    <2> QED BY <1>3, <1>5, <2>1, FaithfulFrame
  <1>6. \A u \in Uploads : client[u].at \in LoopSteps => \A k \in Handlers : handler[k].u # u
    BY <1>3, WaitsOrNot DEF Faithful
  <1>7. ASSUME NEW h \in Handlers, Work(h) PROVE Faithful(v)'
    <2>1. PICK u \in Uploads : u = handler[h].u
      BY <1>7, WorkShape
    <2>2. CASE u = v
      BY <1>2, <1>3, <1>7, <2>1, <2>2, FaithfulWork
    <2>3. CASE u # v
      <3>1. /\ client' = client /\ handler'[h].u = u /\ \A k \in Handlers \ {h} : handler'[k] = handler[k]
            /\ offset' = offset \/ offset' = [offset EXCEPT ![u] = @ + 1]
        BY <1>7, <2>1, WorkShape DEF Appends, GoesOn
      <3>2. \A k \in Handlers : handler'[k].u = v \/ client[v].at = k => handler'[k] = handler[k]
        BY <2>1, <2>3, <3>1 DEF Served
      <3>3. /\ \/ staged' = staged \/ staged' = [staged EXCEPT ![u] = <<>>]
               \/ staged' = [staged EXCEPT ![u] = Append(handler[h].body, handler[h].chunk)]
            /\ upload' \in {upload, [upload EXCEPT ![u] = "deleted"]}
        BY <1>7, <2>1, WorkStages
      <3>4. offset'[v] = offset[v] /\ staged'[v] = staged[v] /\ upload'[v] = upload[v]
        BY <2>3, <3>1, <3>3 DEF UploadTypes, TableTypes
      <3> QED BY <1>3, <3>1, <3>2, <3>4, FaithfulFrame
    <2> QED BY <2>2, <2>3
  <1>8. ASSUME NEW u \in Uploads, Upload!CreateUpload(u) PROVE Faithful(v)'
    <2> DEFINE c == [client[u] EXCEPT !.at = "send"]
    <2>1. /\ client[u].at = "new" /\ Upload!Client(u, c) /\ handler' = handler /\ offset' = offset /\ staged' = staged
          /\ upload' = [upload EXCEPT ![u] = "open"]
      BY <1>8 DEF Upload!CreateUpload, Upload!objects
    <2>2. c.at = "send" /\ c.start = client[u].start
      BY <1>4 DEF LoopRec
    <2>3. client[u].start <= Size /\ offset[u] = client[u].start /\ staged[u] = Prefix(u, client[u].start)
      BY <1>3, <2>1 DEF Faithful
    <2>4. client'[u] = c /\ upload'[u] = "open"
      BY <2>1 DEF Upload!Client, UploadTypes, LoopTypes, TableTypes
    <2>5. \A k \in Handlers : handler'[k].u # u
      BY <1>6, <2>1, LoopNames
    <2> HIDE DEF c
    <2> QED BY <1>5, <2>1, <2>2, <2>3, <2>4, <2>5, FaithfulIdle, LoopNames
  <1>9. ASSUME NEW u \in Uploads, Upload!Resync(u) PROVE Faithful(v)'
    <2>1. /\ client[u].at = "resync" /\ handler' = handler /\ offset' = offset /\ staged' = staged /\ upload' = upload
          /\ \E c : Upload!Client(u, c)
      BY <1>9 DEF Upload!Resync, Upload!rows, Upload!objects
    <2>2. client[u].start < Size /\ upload[u] = "open" /\ offset[u] = client[u].start /\ staged[u] = Prefix(u, client[u].start)
      BY <1>3, <2>1 DEF Faithful, InStep
    <2> DEFINE c == [client[u] EXCEPT !.at = "send", !.offset = offset[u]]
    <2>3. Upload!Client(u, c)
      BY <1>4, <1>9, <2>2 DEF Upload!Resync
    <2>4. c.at = "send" /\ c.start = client[u].start
      BY <1>4 DEF LoopRec
    <2>5. client'[u] = c
      BY <2>3 DEF Upload!Client, UploadTypes, LoopTypes
    <2>6. \A k \in Handlers : handler'[k].u # u
      BY <1>6, <2>1, LoopNames
    <2>7. c.start <= Size
      BY <1>4, <2>2, <2>4
    <2> HIDE DEF c
    <2> QED BY <1>5, <2>1, <2>2, <2>3, <2>4, <2>5, <2>6, <2>7, FaithfulIdle, LoopNames
  \* A request goes to a handler that was free.
  <1> DEFINE Asks(u, h, r) ==
               /\ client[u].at \in {"send", "finalise"} /\ handler[h] = Upload!Free /\ r.u = u
               /\ handler' = [handler EXCEPT ![h] = r] /\ Upload!Client(u, [client[u] EXCEPT !.at = h])
               /\ offset' = offset /\ staged' = staged /\ upload' = upload
               /\ \/ r.at = "chunk" /\ r.chunk = Upload!Chunk(u, client[u].start + 1)
                  \/ r.at = "finalise" /\ client[u].start >= Size
  <1>10. ASSUME NEW u \in Uploads, NEW h \in Handlers, NEW r, Asks(u, h, r) PROVE Faithful(v)'
    <2>1. handler[h].u = NoUpload /\ NoUpload \notin Uploads
      BY <1>10 DEF Upload!Free, Upload!HandlersAssumption
    <2>2. handler'[h] = r /\ \A k \in Handlers \ {h} : handler'[k] = handler[k]
      BY <1>10 DEF UploadTypes, HandlerTypes
    <2>3. CASE u # v
      <3>1. \A k \in Handlers : handler'[k].u = v \/ client[v].at = k => handler'[k] = handler[k]
        BY <1>10, <2>1, <2>2, <2>3 DEF Served
      <3> QED BY <1>5, <1>10, <2>3, <3>1
    <2>4. CASE u = v
      <3>1. \A k \in Handlers : handler[k].u # v
        BY <1>6, <1>10, <2>4, LoopNames
      <3>2. client'[v].at = h /\ client'[v].start = client[v].start /\ client'[v].at \notin LoopSteps
        BY <1>4, <1>10, <2>4, WaitsOrNot DEF Upload!Client, UploadTypes, LoopTypes, LoopRec
      <3>3. /\ client[v].start <= Size /\ offset'[v] = client[v].start /\ staged'[v] = Prefix(v, client[v].start)
            /\ client[v].start < Size => upload'[v] = "open"
        BY <1>3, <1>10, <2>4 DEF Faithful
      <3>4. \A k \in Handlers : handler'[k].u = v \/ client'[v].at = k => k = h
        BY <2>2, <3>1, <3>2
      <3>5. \/ r.at = "chunk" /\ r.chunk = Upload!Chunk(v, client[v].start + 1)
            \/ r.at = "finalise" /\ client[v].start = Size
        BY <1>4, <1>10, <2>4, <3>3
      <3>6. \A n : Prefix(v, n)' = Prefix(v, n) /\ Upload!Chunk(v, n)' = Upload!Chunk(v, n)
        BY DEF Prefix, Upload!Chunk
      <3>7. client'[v].at \notin {"new", "send", "resync", "finalise", "done"}
        BY <3>2, LoopNames
      <3>8. r.at \notin BodySteps
        BY <3>5 DEF BodySteps
      <3> QED BY <2>2, <3>2, <3>3, <3>4, <3>5, <3>6, <3>7, <3>8 DEF Faithful
    <2> QED BY <2>3, <2>4
  <1>11. ASSUME NEW u \in Uploads, Upload!SendChunk(u) PROVE Faithful(v)'
    <2> DEFINE r == [at |-> "chunk", u |-> u, offset |-> client[u].offset,
                     chunk |-> Upload!Chunk(u, client[u].start + 1), body |-> <<>>]
    <2>1. PICK h \in Handlers : /\ handler[h] = Upload!Free /\ handler' = [handler EXCEPT ![h] = r]
                                /\ Upload!Client(u, [client[u] EXCEPT !.at = h])
      BY <1>11 DEF Upload!SendChunk
    <2>2. r.u = u /\ r.at = "chunk" /\ r.chunk = Upload!Chunk(u, client[u].start + 1)
      OBVIOUS
    <2>3. client[u].at = "send" /\ offset' = offset /\ staged' = staged /\ upload' = upload
      BY <1>11 DEF Upload!SendChunk, Upload!rows, Upload!objects
    <2>4. client[u].at \in {"send", "finalise"}
      BY <2>3
    <2> HIDE DEF r
    <2>5. Asks(u, h, r)
      BY <2>1, <2>2, <2>3, <2>4
    <2> HIDE DEF Asks
    <2> QED BY <1>10, <2>5
  <1>12. ASSUME NEW u \in Uploads, Upload!SendFinalise(u) PROVE Faithful(v)'
    <2> DEFINE r == [Upload!Free EXCEPT !.at = "finalise", !.u = u]
    <2>1. PICK h \in Handlers : /\ handler[h] = Upload!Free /\ handler' = [handler EXCEPT ![h] = r]
                                /\ Upload!Client(u, [client[u] EXCEPT !.at = h])
      BY <1>12 DEF Upload!SendFinalise
    <2>2. r.u = u /\ r.at = "finalise"
      BY DEF Upload!Free
    <2>3. /\ client[u].at = "finalise" /\ offset' = offset /\ staged' = staged /\ upload' = upload
          /\ client[u].start >= Size
      BY <1>12 DEF Upload!SendFinalise, Upload!rows, Upload!objects, InStep
    <2>4. client[u].at \in {"send", "finalise"}
      BY <2>3
    <2> HIDE DEF r
    <2>5. Asks(u, h, r)
      BY <2>1, <2>2, <2>3, <2>4
    <2> HIDE DEF Asks
    <2> QED BY <1>10, <2>5
  <1>13. ASSUME NEW u \in Uploads, NEW h \in Handlers, Answers(u, h) PROVE Faithful(v)'
    <2>1. /\ client[u].at = h /\ handler' = [handler EXCEPT ![h] = Upload!Free] /\ offset' = offset
          /\ staged' = staged /\ upload' = upload /\ handler[h].offset \in Nat
      BY <1>13 DEF Answers, Upload!rows, Upload!objects, UploadTypes, HandlerTypes, HandlerRec
    <2>2. handler'[h].u = NoUpload /\ NoUpload \notin Uploads /\ \A k \in Handlers \ {h} : handler'[k] = handler[k]
      BY <2>1 DEF Upload!Free, Upload!HandlersAssumption, UploadTypes, HandlerTypes
    <2>3. handler[h].u = u
      BY <2>1 DEF Served
    <2>4. CASE u # v
      <3>1. \A k \in Handlers : handler'[k].u = v \/ client[v].at = k => handler'[k] = handler[k]
        BY <2>2, <2>3, <2>4 DEF Served
      <3>2. \E c : Upload!Client(u, c)
        BY <1>13 DEF Answers
      <3> QED BY <1>5, <2>1, <2>4, <3>1, <3>2
    <2>5. CASE u = v
      <3>1. \A k \in Handlers : handler'[k].u # v
        BY <1>3, <2>1, <2>2, <2>5 DEF Faithful
      <3>2. /\ client[v].start <= Size /\ (client[v].start < Size => upload'[v] = "open")
            /\ handler[h].at = "appended" =>
                 /\ handler[h].offset = client[v].start + 1 /\ offset'[v] = client[v].start + 1
                 /\ staged'[v] = Prefix(v, client[v].start + 1)
            /\ handler[h].at = "refused" /\ client[v].start < Size =>
                 offset'[v] = client[v].start /\ staged'[v] = Prefix(v, client[v].start)
            /\ handler[h].at = "attached" => handler[h].body = Prefix(v, Size)
        BY <1>3, <2>1, <2>5, WaitsOrNot, LoopNames DEF Faithful, BodySteps
      <3>3. CASE handler[h].at = "appended"
        <4> DEFINE c == Upload!Advance(v, handler[h].offset)
        <4>1. Upload!Client(v, c)
          BY <1>13, <2>5, <3>3 DEF Answers
        <4>2. /\ c.at = (IF handler[h].offset < Size THEN "send" ELSE "finalise")
              /\ c.start = handler[h].offset
          BY <2>1, AdvanceGoes
        <4>3. client'[v] = c
          BY <4>1 DEF Upload!Client, UploadTypes, LoopTypes
        <4>4. client[v].start < Size
          BY <2>1, <2>5, <3>3 DEF Served
        <4> HIDE DEF c
        <4>5. /\ c.at \in {"send", "finalise"} /\ c.start <= Size /\ upload'[v] = "open"
              /\ offset'[v] = c.start /\ staged'[v] = Prefix(v, c.start)
          BY <1>4, <3>2, <3>3, <4>2, <4>4
        <4> QED BY <3>1, <4>3, <4>5, FaithfulIdle, LoopNames
      <3>4. CASE handler[h].at = "attached"
        <4> DEFINE c == [client[v] EXCEPT !.at = "done", !.got = handler[h].body]
        <4>1. Upload!Client(v, c)
          BY <1>13, <2>5, <3>4 DEF Answers
        <4>2. c.at = "done" /\ c.start = client[v].start /\ c.got = handler[h].body
          BY <1>4 DEF LoopRec
        <4>3. client'[v] = c
          BY <4>1 DEF Upload!Client, UploadTypes, LoopTypes
        <4> HIDE DEF c
        <4> QED BY <3>1, <3>2, <3>4, <4>2, <4>3, FaithfulIdle, LoopNames
      <3>5. CASE handler[h].at = "refused"
        <4> DEFINE c == Upload!AfterFailure(v)
        <4>1. Upload!Client(v, c)
          BY <1>13, <2>5, <3>5 DEF Answers
        <4>2. c.at \in {"error", "resync"} /\ c.start = client[v].start /\ (c.at = "resync" => c.start < Size)
          BY FailureGoes
        <4>3. client'[v] = c
          BY <4>1 DEF Upload!Client, UploadTypes, LoopTypes
        <4> HIDE DEF c
        <4> QED BY <3>1, <3>2, <3>5, <4>2, <4>3, FaithfulIdle, LoopNames
      <3> QED BY <1>13, <3>3, <3>4, <3>5 DEF Answers
    <2> QED BY <2>4, <2>5
  <1>14. ASSUME NEW h \in Handlers, Upload!Discard(h) PROVE FALSE
    <2>1. handler[h].at # "free" /\ \A u \in Uploads : client[u].at # h
      BY <1>14 DEF Upload!Discard
    <2>2. handler[h].u \in Uploads
      BY <2>1 DEF OwnPieces, OwnHandler
    <2> QED BY <1>3, <2>1, <2>2 DEF Faithful
  <1>15. ASSUME NEW u \in Uploads, Upload!LoseConnection(u) \/ Upload!ResyncFails(u) PROVE FALSE
    BY <1>1, <1>2, <1>15 DEF Upload!LoseConnection, Upload!ResyncFails
  <1> QED
    BY <1>7, <1>8, <1>9, <1>11, <1>12, <1>13, <1>14, <1>15 DEF Upload!Next, Work, Upload!Answer, Answers

-----------------------------------------------------------------------------
(* The invariant.                                                          *)

\* It holds before the first request.
LEMMA UploadsInit ==
  ASSUME Upload!SizeAssumption, Upload!HandlersAssumption, Upload!Init
  PROVE  UploadsInv
  <1> USE DEF Upload!Init
  <1>1. LoopTypes
    <2>1. 0 \in 0 .. UPLOAD_MAX_RETRIES - 1
      BY DEF Upload!SizeAssumption
    <2>2. Upload!Waiting \in LoopRec
      BY <2>1, EmptyBody, LoopNames DEF Upload!Waiting, LoopRec
    <2> QED BY <2>2 DEF LoopTypes
  <1>2. TableTypes /\ HandlerTypes
    BY EmptyBody, FreeType DEF TableTypes, HandlerTypes
  <1>3. OwnPieces
    BY EmptyBody DEF OwnPieces, OwnHandler, Upload!Free
  <1>4. \A u \in Uploads : client[u] = Upload!Waiting /\ client[u].at \notin Handlers
    <2>1. Upload!Waiting.at \in LoopSteps
      BY LoopNames DEF Upload!Waiting
    <2> QED BY <2>1, WaitsOrNot
  <1>5. InStep /\ Served
    BY <1>4 DEF InStep, Served, Upload!Waiting, Upload!SizeAssumption
  <1>6. OffsetWithinSent
    <2> SUFFICES ASSUME NEW u \in Uploads PROVE offset[u] + Cardinality(Pending(u)) <= Sent(u)
      BY DEF OffsetWithinSent
    <2>1. Pending(u) = {}
      BY DEF Pending, AppendSteps, Upload!Free
    <2>2. Cardinality(Pending(u)) = 0
      BY <2>1, FS_EmptySet
    <2>3. Sent(u) \in Nat /\ offset[u] = 0
      BY <1>1, <1>2, SentBound DEF UploadTypes
    <2> QED BY <2>2, <2>3
  <1>7. BodyRecorded
    BY DEF BodyRecorded, Recorded, BodySteps, Upload!Free
  <1>8. Upload!StoreIsConsistent
    BY <1>4 DEF Upload!StoreIsConsistent, Upload!RowHasObject, Upload!DroppedMeansAttached, Upload!AttachedIsRecorded, Upload!Waiting
  <1>9. UndisturbedIsFaithful
    <2> SUFFICES ASSUME NEW u \in Uploads PROVE Faithful(u)
      BY DEF UndisturbedIsFaithful
    <2>1. \A h \in Handlers : handler[h].u # u
      BY DEF Upload!Free, Upload!HandlersAssumption
    <2>2. client[u].at = "new" /\ client[u].start = 0 /\ client[u].at \notin Handlers
      BY <1>4 DEF Upload!Waiting
    <2>3. offset[u] = 0 /\ staged[u] = Prefix(u, 0)
      BY EmptyPrefix
    <2> QED BY <2>1, <2>2, <2>3 DEF Faithful, Upload!SizeAssumption
  <1> QED BY <1>1, <1>2, <1>3, <1>5, <1>6, <1>7, <1>8, <1>9 DEF UploadsInv, UploadTypes

\* Every step keeps it.
LEMMA UploadsStep ==
  ASSUME Upload!SizeAssumption, Upload!HandlersAssumption, UploadsInv, [Upload!Next]_(Upload!vars)
  PROVE  UploadsInv'
  <1>1. CASE Upload!Next
    <2> USE <1>1 DEF UploadsInv
    <2>1. UploadTypes'
      BY LoopTypesStep, HandlerTypesStep, TableTypesStep DEF UploadTypes
    <2>2. OwnPieces' /\ InStep' /\ Served'
      BY OwnPiecesStep, InStepStep, ServedStep
    <2>3. OffsetWithinSent'
      BY <2>1, OffsetStep DEF UploadTypes
    <2>4. BodyRecorded' /\ Upload!StoreIsConsistent'
      BY BodyRecordedStep, StoreStep DEF Upload!StoreIsConsistent
    <2>5. UndisturbedIsFaithful'
      BY FaithfulStep
    <2> QED BY <2>1, <2>2, <2>3, <2>4, <2>5
  <1>2. CASE UNCHANGED Upload!vars
    <2>1. UploadTypes' /\ OwnPieces' /\ InStep' /\ Served'
      BY <1>2 DEF Upload!vars, UploadsInv, UploadTypes, TableTypes, LoopTypes, HandlerTypes, OwnPieces, OwnHandler,
                  Pieces, InStep, Served
    <2>2. OffsetWithinSent'
      BY <1>2 DEF Upload!vars, UploadsInv, OffsetWithinSent, Pending, Sent
    <2>3. BodyRecorded' /\ Upload!StoreIsConsistent'
      BY <1>2 DEF Upload!vars, UploadsInv, BodyRecorded, Recorded, Upload!StoreIsConsistent, Upload!RowHasObject,
                  Upload!DroppedMeansAttached, Upload!AttachedIsRecorded
    <2>4. UndisturbedIsFaithful'
      <3>1. \A v \in Uploads : Faithful(v) => Faithful(v)'
        BY <1>2, FaithfulFrame DEF Upload!vars, UploadsInv
      <3> QED BY <1>2, <3>1 DEF Upload!vars, UploadsInv, UndisturbedIsFaithful, Upload!Undisturbed
    <2> QED BY <2>1, <2>2, <2>3, <2>4 DEF UploadsInv
  <1> QED BY <1>1, <1>2

\* It implies what the run checks.
LEMMA UploadsInvSound ==
  ASSUME Upload!SizeAssumption, Upload!HandlersAssumption, UploadsInv
  PROVE  Upload!TypeOK /\ Upload!StoreIsConsistent /\ Upload!DoneIsFaithful
  <1> USE DEF UploadsInv
  <1>1. \A u \in Uploads : offset[u] \in 0 .. Size * UPLOAD_MAX_RETRIES
    <2> TAKE u \in Uploads
    <2>1. offset[u] + Cardinality(Pending(u)) <= Sent(u) /\ Sent(u) <= Size * UPLOAD_MAX_RETRIES
      BY SentBound DEF OffsetWithinSent
    <2>2. offset[u] \in Nat /\ Cardinality(Pending(u)) \in Nat /\ Sent(u) \in Nat /\ Size * UPLOAD_MAX_RETRIES \in Nat
      BY SentBound, PendingFinite DEF UploadTypes, TableTypes, Upload!SizeAssumption
    <2> QED BY <2>1, <2>2
  <1>2. Upload!TypeOK
    BY <1>1 DEF Upload!TypeOK, UploadTypes, TableTypes, LoopTypes, LoopRec, LoopSteps, HandlerTypes, HandlerRec, Served
  <1>3. \A u \in Uploads : Prefix(u, Size) = Upload!Body(u)
    BY DEF Prefix, Upload!Body
  <1>4. Upload!DoneIsFaithful
    BY <1>3 DEF Upload!DoneIsFaithful, UndisturbedIsFaithful, Faithful
  <1> QED BY <1>2, <1>4

\* appendChunk, finaliseUpload and startUpload together: types, and a bound on offset_bytes
\* that holds however many connections are lost: no file is advanced further than the
\* requests UPLOAD_MAX_RETRIES allows.
THEOREM UploadsTyped ==
  ASSUME Upload!SizeAssumption, Upload!HandlersAssumption
  PROVE  Upload!Spec => []Upload!TypeOK
  BY UploadsInit, UploadsStep, UploadsInvSound, PTL DEF Upload!Spec

\* The uploads and attachments tables and the object store agree, whatever fails and wherever:
\* an attachment row has its object, a dropped upload row its attachment, and what the browser
\* was answered is recorded.
THEOREM StoreStaysConsistent ==
  ASSUME Upload!SizeAssumption, Upload!HandlersAssumption
  PROVE  Upload!Spec => []Upload!StoreIsConsistent
  BY UploadsInit, UploadsStep, UploadsInvSound, PTL DEF Upload!Spec

\* While no connection is lost and nothing fails, the attachment is the browser's file.
THEOREM UploadsFaithful ==
  ASSUME Upload!SizeAssumption, Upload!HandlersAssumption
  PROVE  Upload!Spec => []Upload!DoneIsFaithful
  BY UploadsInit, UploadsStep, UploadsInvSound, PTL DEF Upload!Spec

--------------------------------------------------------------------------------
(* Accounts, second factors, passkeys and single sign-on. *)

\* A request in flight is a record of these fields.
Shape(r) ==
  r = [op |-> r.op, at |-> r.at, u |-> r.u, was |-> r.was, seen |-> r.seen, ok |-> r.ok,
       code |-> r.code, n |-> r.n, row |-> r.row, ticket |-> r.ticket, box |-> r.box, p |-> r.p,
       subject |-> r.subject]
Table == req = [h \in Handlers |-> req[h]] /\ \A h \in Handlers : Shape(req[h])

Exists(u) == u \in Users /\ status[u] # "none"

\* What a request knows of the account it works on.
Known(r) ==
  /\ r.at \in {"insert", "verify", "mailbox", "shadow", "provision"} => r.u \in Users
  /\ r.at \in {"session", "store", "counter", "factor"} => Exists(r.u)
  /\ r.at \in {"verify", "provision"} => r.was = "none" \/ Exists(r.u)
  /\ r.at = "link" => r.u \in Users \cup {NoUser}
  /\ r.at \in {"link", "provision"} => r.subject \in Users
  /\ r.at \in {"credential", "counter"} => r.p \in Passkeys /\ r.n \in Nat
  /\ r.at = "credential" /\ r.op = "register" => Exists(r.u)
  /\ r.at = "counter" => r.row \in Nat /\ r.row <= ids
  /\ r.at \in {"insert", "credential", "counter", "exchange", "link", "provision"} => r.op # "login"
  /\ r.at = "shadow" => r.box

\* A row that names an account names one that exists.
AccountTypes ==
  /\ status \in [Users -> {"none", "active", "suspended"}]
  /\ totp \in [Users -> [on : BOOLEAN, secret : Nat]]
  /\ ids \in Nat
PasskeyRows ==
  /\ passkey = [p \in Passkeys |-> passkey[p]] /\ device \in [Passkeys -> Nat]
  /\ \A p \in Passkeys :
       /\ passkey[p] = [user |-> passkey[p].user, counter |-> passkey[p].counter, id |-> passkey[p].id]
       /\ passkey[p].counter \in Nat /\ passkey[p].id \in Nat /\ passkey[p].id <= ids
       /\ passkey[p] # Account!NoKey => Exists(passkey[p].user)
IdentRows ==
  /\ ident \in [Users -> Users \cup {NoUser}]
  /\ \A u \in Users : ident[u] # NoUser => Exists(ident[u]) /\ provider # "none"
SessionRows == \A s \in sess : Exists(s.user)
Requests == \A h \in Handlers : Known(req[h])
RowsInv == AccountTypes /\ PasskeyRows /\ IdentRows /\ SessionRows /\ Requests

\* The first owner is made by the one request that holds the lock.
FounderInv ==
  /\ owners \in {0, 1}
  /\ owners = 1 => \E u \in Users : Exists(u)
  /\ \A h \in Handlers : req[h].at = "insert" => owners = 0
  /\ \A g, h \in Handlers : req[g].at = "insert" /\ req[h].at = "insert" => g = h

\* A code was checked against what a request enables, and what a login was asked for.
FactorInv ==
  /\ \A u \in Users : totp[u].on => <<u, totp[u].secret>> \in confirmed \/ <<"totp", u>> \in raced
  /\ \A h \in Handlers :
       /\ req[h].at = "factor" /\ req[h].op = "verify2fa" => <<req[h].u, req[h].seen.secret>> \in confirmed
       /\ req[h].at = "session" /\ req[h].op = "login" /\ ~req[h].box /\ req[h].seen.on =>
            Account!CodeAccepted(req[h].code, req[h].seen.secret)

\* A challenge or a login flow is in one place: waiting, with one request, or spent on one session.
Waiting == {c.id : c \in challenge} \cup flow
Number(t) == t \in Nat /\ t <= ids
Untied(r) == r.box \/ r.at \in {"verify", "mailbox"}
TicketInv ==
  /\ ids \in Nat
  /\ \A t \in Waiting : Number(t) /\ t # 0
  /\ \A c \in challenge : c.id \notin flow
  /\ \A c, d \in challenge : c.id = d.id => c = d
  /\ \A h \in Handlers :
       /\ Number(req[h].ticket) /\ req[h].ticket \notin Waiting
       /\ Untied(req[h]) => req[h].ticket = 0
       /\ \A g \in Handlers : g # h /\ req[h].ticket # 0 => req[g].ticket # req[h].ticket
  /\ \A m \in minted :
       /\ Number(m[2]) /\ m[2] \notin Waiting
       /\ m[2] # 0 => \A h \in Handlers : req[h].ticket # m[2]
  /\ \A a, b \in minted : a[2] # 0 /\ a[2] = b[2] => a = b

\* A sealed password has its session, or a request about to purge it, or its session ended without a purge.
SealedInv ==
  \A id \in sealed :
    \/ Account!Live(id)
    \/ \E h \in Handlers : req[h].at = "purge" /\ req[h].n = id
    \/ <<"sealed", id>> \in raced

\* Two logins between the load and the update of one passkey overlap; without an overlap the row
\* that was loaded, while it is there, holds a smaller counter than the one to be written.
LoadedInv ==
  \A h \in Handlers : req[h].at = "counter" =>
    /\ passkey[req[h].p] # Account!NoKey /\ passkey[req[h].p].id = req[h].row =>
         passkey[req[h].p].counter < req[h].n \/ <<"counter", req[h].p>> \in raced
    /\ \A g \in Handlers : g # h /\ req[g].at = "counter" /\ req[g].p = req[h].p =>
         <<"counter", req[h].p>> \in raced

\* The inductive invariant.
AccountsInv == Table /\ RowsInv /\ FounderInv /\ FactorInv /\ TicketInv /\ SealedInv /\ LoadedInv

--------------------------------------------------------------------------------
\* How a step changes the requests in flight: one goes on as r, the others stay.
LEMMA IdleFields ==
  /\ Shape(Account!Idle) /\ Account!Idle.op = "idle" /\ Account!Idle.at = "idle" /\ Account!Idle.ticket = 0 /\ Account!Idle.box = FALSE
  /\ Account!Idle.n = 0 /\ Account!Idle.row = 0
  BY DEF Account!Idle, Shape

LEMMA Moves ==
  ASSUME Table, NEW h \in Handlers, NEW r, Shape(r), Account!Goto(h, r)
  PROVE  Table' /\ req'[h] = r /\ \A g \in Handlers : g # h => req'[g] = req[g]
  BY DEF Table, Account!Goto

\* Accounts are never deleted here, and numbers only grow.
Grows ==
  /\ status' \in [Users -> {"none", "active", "suspended"}]
  /\ \A u \in Users : status[u] # "none" => status'[u] # "none"
  /\ ids' \in Nat /\ ids <= ids'

LEMMA StillKnown ==
  ASSUME Grows, ids \in Nat, NEW r, Known(r)
  PROVE  Known(r)'
  BY DEF Grows, Known, Exists

LEMMA RequestsFrame ==
  ASSUME Table, Requests, Grows, ids \in Nat, NEW h \in Handlers, NEW r, Shape(r), Account!Goto(h, r), Known(r)'
  PROVE  Table' /\ Requests'
  <1>1. Table' /\ req'[h] = r /\ \A g \in Handlers : g # h => req'[g] = req[g]
    BY Moves
  <1>2. ASSUME NEW g \in Handlers PROVE Known(req[g])'
    <2>1. CASE g = h
      BY <1>1, <2>1 DEF Known, Exists
    <2>2. CASE g # h
      <3>1. req'[g] = req[g] /\ Known(req[g])
        BY <1>1, <2>2 DEF Requests
      <3> QED BY <3>1 DEF Known, Exists, Grows
    <2> QED BY <2>1, <2>2
  <1> QED BY <1>1, <1>2 DEF Requests

LEMMA TablesFrame ==
  ASSUME RowsInv, Grows, UNCHANGED <<totp, passkey, device, ident, provider, sess>>
  PROVE  AccountTypes' /\ PasskeyRows' /\ IdentRows' /\ SessionRows'
  <1> USE DEF RowsInv, Grows
  <1>0. ids \in Nat
    BY DEF AccountTypes
  <1>1. AccountTypes'
    BY DEF AccountTypes
  <1>2. PasskeyRows'
    BY <1>0 DEF PasskeyRows, Exists
  <1>3. IdentRows' /\ SessionRows'
    BY DEF IdentRows, SessionRows, Exists
  <1> QED BY <1>1, <1>2, <1>3

LEMMA FounderFrame ==
  ASSUME FounderInv, Table, Grows, owners' = owners,
         NEW h \in Handlers, NEW r, Shape(r), Account!Goto(h, r), r.at # "insert"
  PROVE  FounderInv'
  <1>1. req'[h] = r /\ \A g \in Handlers : g # h => req'[g] = req[g]
    BY Moves
  <1> QED BY <1>1 DEF FounderInv, Grows, Exists

\* What FactorInv says of one request.
Checked(r) ==
  /\ r.at = "factor" /\ r.op = "verify2fa" => <<r.u, r.seen.secret>> \in confirmed
  /\ r.at = "session" /\ r.op = "login" /\ ~r.box /\ r.seen.on => Account!CodeAccepted(r.code, r.seen.secret)

LEMMA FactorFrame ==
  ASSUME FactorInv, Table, totp' = totp, confirmed \subseteq confirmed', raced \subseteq raced',
         NEW h \in Handlers, NEW r, Shape(r), Account!Goto(h, r), Checked(r)'
  PROVE  FactorInv'
  <1>1. req'[h] = r /\ \A g \in Handlers : g # h => req'[g] = req[g]
    BY Moves
  <1>2. \A u \in Users : totp'[u].on => <<u, totp'[u].secret>> \in confirmed' \/ <<"totp", u>> \in raced'
    BY DEF FactorInv
  <1>3. ASSUME NEW g \in Handlers PROVE Checked(req[g])'
    <2>1. CASE g = h
      BY <1>1, <2>1 DEF Checked, Account!CodeAccepted
    <2>2. CASE g # h
      BY <1>1, <2>2 DEF FactorInv, Checked, Account!CodeAccepted
    <2> QED BY <2>1, <2>2
  <1> QED BY <1>2, <1>3 DEF FactorInv, Checked, Account!CodeAccepted

LEMMA TicketFrame ==
  ASSUME TicketInv, Table, challenge' \subseteq challenge, flow' \subseteq flow, minted' = minted,
         ids' \in Nat, ids <= ids',
         NEW h \in Handlers, NEW r, Shape(r), Account!Goto(h, r),
         r.ticket \in {0, req[h].ticket}, Untied(r) => r.ticket = 0
  PROVE  TicketInv'
  <1>1. req'[h] = r /\ \A g \in Handlers : g # h => req'[g] = req[g]
    BY Moves
  <1>2. Waiting' \subseteq Waiting
    BY DEF Waiting
  <1>3. \A g \in Handlers : req'[g].ticket \in {0, req[g].ticket} /\ (Untied(req[g])' => req'[g].ticket = 0)
    BY <1>1 DEF TicketInv, Untied
  <1>4. \A t : Number(t) => Number(t)'
    BY DEF Number, TicketInv
  <1>5. Number(0) /\ 0 \notin Waiting
    BY DEF Number, TicketInv
  <1> QED BY <1>2, <1>3, <1>4, <1>5 DEF TicketInv

LEMMA SealedFrame ==
  ASSUME SealedInv, Table, sealed' \subseteq sealed, sess \subseteq sess', raced \subseteq raced',
         NEW h \in Handlers, NEW r, Shape(r), Account!Goto(h, r), req[h].at # "purge"
  PROVE  SealedInv'
  <1>1. req'[h] = r /\ \A g \in Handlers : g # h => req'[g] = req[g]
    BY Moves
  <1> QED BY <1>1 DEF SealedInv, Account!Live

LEMMA LoadedFrame ==
  ASSUME LoadedInv, Table, passkey' = passkey,
         \A p : <<"counter", p>> \in raced => <<"counter", p>> \in raced',
         NEW h \in Handlers, NEW r, Shape(r), Account!Goto(h, r), r.at # "counter"
  PROVE  LoadedInv'
  <1>1. req'[h] = r /\ \A g \in Handlers : g # h => req'[g] = req[g]
    BY Moves
  <1> QED BY <1>1 DEF LoadedInv

--------------------------------------------------------------------------------
\* Steps that only move a request on.
Quiet == UNCHANGED <<Account!accounts, Account!passkeys, Account!sso, key, Account!sessions, ops, ids, raced>>

LEMMA QuietGrows ==
  ASSUME RowsInv, Quiet
  PROVE  Grows /\ ids \in Nat
  BY DEF RowsInv, AccountTypes, Quiet, Account!accounts, Grows

LEMMA Internal ==
  ASSUME AccountsInv, Quiet, confirmed \subseteq confirmed', NEW h \in Handlers, NEW r, Shape(r), Account!Goto(h, r),
         Known(r)', Checked(r)', r.at \notin {"insert", "counter"}, req[h].at # "purge",
         r.ticket \in {0, req[h].ticket}, Untied(r) => r.ticket = 0
  PROVE  AccountsInv'
  <1>0. Table /\ RowsInv /\ FounderInv /\ FactorInv /\ TicketInv /\ SealedInv /\ LoadedInv
    BY DEF AccountsInv
  <1>g. Grows /\ ids \in Nat
    BY <1>0, QuietGrows
  <1>1. UNCHANGED <<status, mbox, totp, owners, passkey, device, challenge, provider, flow, ident, sess, sealed,
                    minted, ids, raced>>
    BY DEF Quiet, Account!accounts, Account!passkeys, Account!sso, Account!sessions
  <1>2. Table' /\ Requests'
    BY <1>0, <1>g, RequestsFrame DEF RowsInv
  <1>3. RowsInv'
    BY <1>0, <1>g, <1>1, <1>2, TablesFrame DEF RowsInv
  <1>4. FounderInv'
    BY <1>0, <1>g, <1>1, FounderFrame
  <1>5. FactorInv'
    BY <1>0, <1>1, FactorFrame
  <1>6. TicketInv'
    BY <1>0, <1>1, <1>g, TicketFrame
  <1>7. SealedInv' /\ LoadedInv'
    BY <1>0, <1>1, SealedFrame, LoadedFrame
  <1> QED BY <1>2, <1>3, <1>4, <1>5, <1>6, <1>7 DEF AccountsInv

LEMMA Opens ==
  ASSUME AccountsInv, NEW h \in Handlers
  PROVE  /\ Shape(req[h]) /\ Known(req[h]) /\ Checked(req[h])
         /\ Untied(req[h]) => req[h].ticket = 0
         /\ req[h] = Account!Idle => req[h].at = "idle"
  BY IdleFields DEF AccountsInv, Table, RowsInv, Requests, FactorInv, Checked, TicketInv

\* A handler that ends knows nothing.
LEMMA IdleKnown == Known(Account!Idle) /\ Known(Account!Idle)' /\ Checked(Account!Idle) /\ Checked(Account!Idle)'
  BY IdleFields DEF Known, Checked

LEMMA FinishKeeps ==
  ASSUME AccountsInv, Quiet, confirmed' = confirmed, NEW h \in Handlers, Account!Finish(h), req[h].at # "purge"
  PROVE  AccountsInv'
  <1>1. Account!Goto(h, Account!Idle)
    BY DEF Account!Finish
  <1> QED BY <1>1, Internal, IdleFields, IdleKnown

\* A request that reads and goes on as r.
LEMMA ReadKeeps ==
  ASSUME AccountsInv, Quiet, confirmed' = confirmed, NEW h \in Handlers, NEW r, Shape(r), Account!Goto(h, r),
         Known(r), Checked(r), r.at \notin {"insert", "counter"}, req[h].at # "purge",
         r.ticket \in {0, req[h].ticket}, Untied(r) => r.ticket = 0
  PROVE  AccountsInv'
  <1>1. Known(r)'
    BY StillKnown, QuietGrows DEF AccountsInv
  <1>2. Checked(r)'
    BY DEF Checked
  <1> QED BY <1>1, <1>2, Internal

--------------------------------------------------------------------------------
\* Login.
LEMMA LoginKeeps ==
  ASSUME AccountsInv, NEW h \in Handlers, Account!LoginRead(h) \/ Account!LoginVerify(h) \/ Account!MailboxLogin(h)
  PROVE  AccountsInv'
  <1>0. Quiet /\ confirmed' = confirmed
    BY DEF Account!LoginRead, Account!LoginVerify, Account!MailboxLogin, Quiet, Account!hist
  <1>t. status \in [Users -> {"none", "active", "suspended"}]
    BY DEF AccountsInv, RowsInv, AccountTypes
  <1>1. CASE Account!LoginRead(h)
    <2>1. PICK u \in Users, ok \in BOOLEAN : \E code \in {0, totp[u].secret} :
            Account!Goto(h, [Account!Idle EXCEPT !.op = "login", !.at = "verify", !.u = u, !.ok = ok, !.code = code,
                                 !.was = status[u], !.seen = totp[u]])
      BY <1>1 DEF Account!LoginRead
    <2>2. PICK code : Account!Goto(h, [Account!Idle EXCEPT !.op = "login", !.at = "verify", !.u = u, !.ok = ok, !.code = code,
                                 !.was = status[u], !.seen = totp[u]])
      BY <2>1
    <2>3. PICK r : r = [Account!Idle EXCEPT !.op = "login", !.at = "verify", !.u = u, !.ok = ok, !.code = code,
                                 !.was = status[u], !.seen = totp[u]]
      OBVIOUS
    <2>4. Shape(r) /\ r.at = "verify" /\ r.u = u /\ r.was = status[u] /\ r.ticket = 0 /\ ~r.box
      BY <2>3, IdleFields DEF Shape
    <2>5. Known(r) /\ Checked(r)
      BY <2>4 DEF Known, Checked, Exists
    <2>6. req[h].at # "purge"
      BY <1>1, IdleFields DEF Account!LoginRead, Account!Start
    <2> QED BY <1>0, <2>2, <2>3, <2>4, <2>5, <2>6, ReadKeeps
  <1>2. CASE Account!LoginVerify(h)
    <2> DEFINE q == req[h]
    <2>1. q.at = "verify" /\ Shape(q) /\ Known(q) /\ q.ticket = 0
      BY <1>2, Opens DEF Account!LoginVerify, Account!Continue, Untied
    <2>2. \/ Account!Goto(h, [q EXCEPT !.at = "mailbox"])
          \/ q.was = "active" /\ (q.seen.on => Account!CodeAccepted(q.code, q.seen.secret)) /\ Account!Goto(h, [q EXCEPT !.at = "session"])
          \/ Account!Finish(h)
      BY <1>2 DEF Account!LoginVerify
    <2>3. CASE Account!Finish(h)
      BY <1>0, <2>1, <2>3, FinishKeeps
    <2>4. CASE Account!Goto(h, [q EXCEPT !.at = "mailbox"])
      <3>1. PICK r : r = [q EXCEPT !.at = "mailbox"]
        OBVIOUS
      <3>2. Shape(r) /\ r.at = "mailbox" /\ r.u = q.u /\ r.ticket = q.ticket /\ r.box = q.box
        BY <2>1, <3>1 DEF Shape
      <3>3. Known(r) /\ Checked(r)
        BY <2>1, <3>2 DEF Known, Checked
      <3> QED BY <1>0, <2>1, <2>4, <3>1, <3>2, <3>3, ReadKeeps
    <2>5. CASE q.was = "active" /\ (q.seen.on => Account!CodeAccepted(q.code, q.seen.secret)) /\ Account!Goto(h, [q EXCEPT !.at = "session"])
      <3>1. PICK r : r = [q EXCEPT !.at = "session"]
        OBVIOUS
      <3>2. /\ Shape(r) /\ r.at = "session" /\ r.u = q.u /\ r.ticket = q.ticket /\ r.box = q.box
            /\ r.seen = q.seen /\ r.code = q.code
        BY <2>1, <3>1 DEF Shape
      <3>3. Known(r) /\ Checked(r)
        BY <2>1, <2>5, <3>2 DEF Known, Checked, Exists
      <3> QED BY <1>0, <2>1, <2>5, <3>1, <3>2, <3>3, ReadKeeps
    <2> QED BY <2>2, <2>3, <2>4, <2>5
  <1>3. CASE Account!MailboxLogin(h)
    <2> DEFINE q == req[h]
    <2>1. q.at = "mailbox" /\ Shape(q) /\ Known(q) /\ q.ticket = 0
      BY <1>3, Opens DEF Account!MailboxLogin, Account!Continue, Untied
    <2>2. CASE Account!Finish(h)
      BY <1>0, <2>1, <2>2, FinishKeeps
    <2>3. CASE Account!Goto(h, [q EXCEPT !.at = "shadow", !.box = TRUE])
      <3>1. PICK r : r = [q EXCEPT !.at = "shadow", !.box = TRUE]
        OBVIOUS
      <3>2. Shape(r) /\ r.at = "shadow" /\ r.box /\ r.u = q.u /\ r.ticket = q.ticket
        BY <2>1, <3>1 DEF Shape
      <3>3. Known(r) /\ Checked(r)
        BY <2>1, <3>2 DEF Known, Checked
      <3> QED BY <1>0, <2>1, <2>3, <3>1, <3>2, <3>3, ReadKeeps
    <2> QED BY <1>3, <2>2, <2>3 DEF Account!MailboxLogin
  <1> QED BY <1>1, <1>2, <1>3

--------------------------------------------------------------------------------
\* Steps that change rows: the groups of the invariant that they leave alone follow from frames.
Parts == Table /\ RowsInv /\ FounderInv /\ FactorInv /\ TicketInv /\ SealedInv /\ LoadedInv

LEMMA BootstrapKeeps ==
  ASSUME AccountsInv, NEW h \in Handlers, Account!BootstrapCount(h) \/ Account!BootstrapInsert(h)
  PROVE  AccountsInv'
  <1>0. Parts /\ ids \in Nat /\ status \in [Users -> {"none", "active", "suspended"}]
    BY DEF AccountsInv, Parts, RowsInv, AccountTypes
  <1> USE <1>0 DEF Parts
  <1>1. CASE Account!BootstrapCount(h)
    <2>1. PICK u \in Users : Account!Goto(h, [Account!Idle EXCEPT !.op = "bootstrap", !.at = "insert", !.u = u])
      BY <1>1 DEF Account!BootstrapCount
    <2>2. PICK r : r = [Account!Idle EXCEPT !.op = "bootstrap", !.at = "insert", !.u = u]
      OBVIOUS
    <2>3. Shape(r) /\ r.at = "insert" /\ r.op = "bootstrap" /\ r.u = u /\ r.ticket = 0 /\ Account!Goto(h, r)
      BY <2>1, <2>2, IdleFields DEF Shape
    <2>4. Quiet /\ confirmed' = confirmed
      BY <1>1 DEF Account!BootstrapCount, Quiet, Account!hist
    <2>5. UNCHANGED <<status, totp, owners, passkey, device, challenge, provider, flow, ident, sess, sealed,
                      minted, ids, raced, confirmed>>
      BY <2>4 DEF Quiet, Account!accounts, Account!passkeys, Account!sso, Account!sessions
    <2>6. Grows
      BY <2>4, QuietGrows
    <2>7. Known(r)' /\ Checked(r)'
      BY <2>3, <2>5 DEF Known, Checked
    <2>8. Table' /\ RowsInv'
      BY <2>3, <2>5, <2>6, <2>7, RequestsFrame, TablesFrame DEF RowsInv
    <2>9. FounderInv'
      <3>1. req'[h] = r /\ \A g \in Handlers : g # h => req'[g] = req[g]
        BY <2>3, Moves
      <3>2. owners = 0 /\ \A g \in Handlers : req[g].at # "insert"
        BY <1>1 DEF Account!BootstrapCount, Account!BootstrapLocked, FounderInv, Exists
      <3> QED BY <2>3, <2>5, <3>1, <3>2 DEF FounderInv
    <2>10. FactorInv' /\ TicketInv' /\ LoadedInv'
      BY <2>3, <2>5, <2>6, <2>7, FactorFrame, TicketFrame, LoadedFrame DEF Grows
    <2>11. SealedInv'
      <3>1. req[h].at # "purge"
        BY <1>1, IdleFields DEF Account!BootstrapCount, Account!Start
      <3> QED BY <2>3, <2>5, <3>1, SealedFrame
    <2> QED BY <2>8, <2>9, <2>10, <2>11 DEF AccountsInv
  <1>2. CASE Account!BootstrapInsert(h)
    <2> DEFINE q == req[h]
    <2>0. q.at = "insert" /\ Shape(q) /\ Known(q) /\ Checked(q) /\ (Untied(q) => q.ticket = 0)
      BY <1>2, Opens DEF Account!BootstrapInsert, Account!Continue
    <2>1. UNCHANGED <<totp, passkey, device, challenge, provider, flow, ident, sess, sealed, minted, ids,
                      raced, confirmed>>
      BY <1>2 DEF Account!BootstrapInsert, Account!passkeys, Account!sso, Account!sessions, Account!hist
    <2>2. CASE status[q.u] = "none"
      <3>1. status' = [status EXCEPT ![q.u] = "active"] /\ owners' = owners + 1 /\ Account!Goto(h, [q EXCEPT !.at = "session"])
        BY <1>2, <2>2 DEF Account!BootstrapInsert
      <3>2. PICK r : r = [q EXCEPT !.at = "session"]
        OBVIOUS
      <3>3. /\ Shape(r) /\ r.at = "session" /\ r.u = q.u /\ r.ticket = q.ticket /\ r.box = q.box /\ r.op = q.op
            /\ r.seen = q.seen /\ r.code = q.code /\ Account!Goto(h, r)
        BY <2>0, <3>1, <3>2 DEF Shape
      <3>4. Grows /\ q.u \in Users
        BY <2>0, <2>1, <3>1 DEF Grows, Known
      <3>5. Known(r)'
        BY <3>1, <3>3, <3>4 DEF Known, Exists
      <3>6. Table' /\ RowsInv'
        BY <2>1, <3>3, <3>4, <3>5, RequestsFrame, TablesFrame DEF RowsInv
      <3>7. FounderInv'
        <4>1. req'[h] = r /\ \A g \in Handlers : g # h => req'[g] = req[g]
          BY <3>3, Moves
        <4>2. owners = 0 /\ \A g \in Handlers : g # h => req[g].at # "insert"
          BY <2>0 DEF FounderInv
        <4> QED BY <3>1, <3>3, <3>4, <4>1, <4>2 DEF FounderInv, Exists
      <3>8. q.op # "login"
        BY <2>0 DEF Known
      <3>9. FactorInv' /\ TicketInv' /\ LoadedInv' /\ SealedInv'
        <4>1. Checked(r)'
          BY <3>3, <3>8 DEF Checked
        <4>2. FactorInv' /\ LoadedInv'
          BY <2>1, <3>3, <4>1, FactorFrame, LoadedFrame
        <4>3. TicketInv'
          BY <2>0, <2>1, <3>3, TicketFrame DEF Untied
        <4>4. SealedInv'
          BY <2>0, <2>1, <3>3, SealedFrame
        <4> QED BY <4>2, <4>3, <4>4
      <3> QED BY <3>6, <3>7, <3>9 DEF AccountsInv
    <2>3. CASE status[q.u] # "none"
      <3>1. Account!Finish(h) /\ UNCHANGED <<status, owners>>
        BY <1>2, <2>3 DEF Account!BootstrapInsert
      <3>2. Quiet
        BY <1>2, <3>1 DEF Account!BootstrapInsert, Quiet, Account!accounts, Account!hist
      <3> QED BY <2>0, <2>1, <3>1, <3>2, FinishKeeps
    <2> QED BY <2>2, <2>3
  <1> QED BY <1>1, <1>2

LEMMA ShadowKeeps ==
  ASSUME AccountsInv, NEW h \in Handlers, Account!ShadowUser(h)
  PROVE  AccountsInv'
  <1> DEFINE q == req[h]
  <1>0. Parts /\ ids \in Nat /\ status \in [Users -> {"none", "active", "suspended"}]
    BY DEF AccountsInv, Parts, RowsInv, AccountTypes
  <1> USE <1>0 DEF Parts
  <1>1. q.at = "shadow" /\ Shape(q) /\ Known(q) /\ (Untied(q) => q.ticket = 0)
    BY Opens DEF Account!ShadowUser, Account!Continue
  <1>2. UNCHANGED <<totp, owners, passkey, device, challenge, provider, flow, ident, sess, sealed, minted, ids,
                    raced, confirmed>>
    BY DEF Account!ShadowUser, Account!passkeys, Account!sso, Account!sessions, Account!hist
  <1>3. PICK r : r = [q EXCEPT !.at = "session"]
    OBVIOUS
  <1>4. Shape(r) /\ r.at = "session" /\ r.u = q.u /\ r.ticket = q.ticket /\ r.box /\ Account!Goto(h, r)
    BY <1>1, <1>3 DEF Shape, Account!ShadowUser, Known
  <1>5. Grows /\ Known(r)'
    BY <1>1, <1>2, <1>4 DEF Grows, Known, Exists, Account!ShadowUser
  <1>6. Checked(r)' /\ q.ticket = 0
    BY <1>1, <1>4 DEF Checked, Untied, Known
  <1>7. Table' /\ RowsInv'
    BY <1>2, <1>4, <1>5, RequestsFrame, TablesFrame DEF RowsInv
  <1>8. FounderInv' /\ FactorInv' /\ LoadedInv'
    BY <1>2, <1>4, <1>5, <1>6, FounderFrame, FactorFrame, LoadedFrame
  <1>9. TicketInv' /\ SealedInv'
    BY <1>1, <1>2, <1>4, <1>6, TicketFrame, SealedFrame
  <1> QED BY <1>7, <1>8, <1>9 DEF AccountsInv

\* A session: the ticket that opened it is spent.
LEMMA CreateSessionKeeps ==
  ASSUME AccountsInv, NEW h \in Handlers, Account!CreateSession(h)
  PROVE  AccountsInv'
  <1> DEFINE q == req[h]
  <1>0. Parts /\ ids \in Nat /\ status \in [Users -> {"none", "active", "suspended"}]
    BY DEF AccountsInv, Parts, RowsInv, AccountTypes
  <1> USE <1>0 DEF Parts
  <1>1. q.at = "session" /\ Shape(q) /\ Known(q) /\ (Untied(q) => q.ticket = 0)
    BY Opens DEF Account!CreateSession, Account!Continue
  <1>2. UNCHANGED <<status, totp, owners, passkey, device, challenge, provider, flow, ident, sealed, confirmed>>
    BY DEF Account!CreateSession, Account!accounts, Account!passkeys, Account!sso
  <1>3. PICK i : i = ids + 1
    OBVIOUS
  <1>4. /\ ids' = i /\ sess' = sess \cup {[id |-> i, user |-> q.u, box |-> q.box]} /\ minted' = minted \cup {<<i, q.ticket>>}
        /\ raced \subseteq raced'
    BY <1>3 DEF Account!CreateSession, Account!Fresh, Account!Stale
  <1>5. PICK r : Account!Goto(h, r) /\ r = IF q.box THEN [q EXCEPT !.at = "store", !.n = i] ELSE Account!Idle
    BY <1>3, <1>4 DEF Account!CreateSession, Account!Finish
  <1>6. Shape(r) /\ r.ticket = 0 /\ ((r.at = "store" /\ r.u = q.u) \/ r.at = "idle")
    BY <1>1, <1>5, IdleFields DEF Shape, Untied
  <1>7. Grows /\ Known(r)' /\ Checked(r)'
    BY <1>1, <1>2, <1>3, <1>4, <1>6 DEF Grows, Known, Exists, Checked
  <1>8. Table' /\ Requests'
    BY <1>5, <1>6, <1>7, RequestsFrame DEF RowsInv
  <1>9. AccountTypes' /\ PasskeyRows' /\ IdentRows' /\ SessionRows'
    <2>1. AccountTypes' /\ IdentRows'
      BY <1>2, <1>3, <1>4 DEF RowsInv, AccountTypes, IdentRows, Exists
    <2>2. PasskeyRows'
      BY <1>2, <1>3, <1>4 DEF RowsInv, PasskeyRows, Exists
    <2>3. SessionRows'
      BY <1>1, <1>2, <1>4 DEF RowsInv, SessionRows, Exists, Known
    <2> QED BY <2>1, <2>2, <2>3
  <1>10. FounderInv' /\ FactorInv' /\ LoadedInv'
    BY <1>2, <1>4, <1>5, <1>6, <1>7, FounderFrame, FactorFrame, LoadedFrame
  <1>11. SealedInv'
    BY <1>1, <1>2, <1>4, <1>5, <1>6, SealedFrame
  <1>12. TicketInv'
    <2>1. req'[h] = r /\ \A g \in Handlers : g # h => req'[g] = req[g]
      BY <1>5, <1>6, Moves
    <2>2. Waiting' = Waiting
      BY <1>2 DEF Waiting
    <2>3. \A t : Number(t) => Number(t)'
      BY <1>3, <1>4 DEF Number
    <2>4. Number(0)' /\ 0 \notin Waiting
      BY <1>3, <1>4 DEF Number, TicketInv
    <2>5. \A g \in Handlers : req'[g].ticket \in {0, req[g].ticket} /\ (Untied(req[g])' => req'[g].ticket = 0)
      BY <1>6, <2>1 DEF TicketInv, Untied
    <2>6. ASSUME NEW m \in minted'
          PROVE  /\ Number(m[2])' /\ m[2] \notin Waiting'
                 /\ m[2] # 0 => \A g \in Handlers : req'[g].ticket # m[2]
      <3>1. CASE m \in minted
        BY <2>2, <2>3, <2>5, <3>1 DEF TicketInv
      <3>2. CASE m = <<i, q.ticket>>
        <4>1. m[2] = q.ticket
          BY <3>2
        <4> QED BY <1>6, <2>1, <2>2, <2>3, <4>1 DEF TicketInv
      <3> QED BY <1>4, <3>1, <3>2
    <2>7. ASSUME NEW a \in minted', NEW b \in minted', a[2] # 0, a[2] = b[2]
          PROVE  a = b
      <3>1. <<i, q.ticket>>[2] = q.ticket
        OBVIOUS
      <3>2. \A m \in minted : m[2] # 0 => m[2] # q.ticket
        BY DEF TicketInv
      <3> QED BY <1>4, <2>7, <3>1, <3>2 DEF TicketInv
    <2>8. ids' \in Nat
      BY <1>3, <1>4
    <2> QED BY <1>2, <2>2, <2>3, <2>4, <2>5, <2>6, <2>7, <2>8 DEF TicketInv
  <1> QED BY <1>8, <1>9, <1>10, <1>11, <1>12 DEF AccountsInv, RowsInv

\* Ending sessions, and the passwords kept for them.
LEMMA SessionFrame ==
  ASSUME AccountsInv, NEW h \in Handlers, NEW r, Shape(r), Account!Goto(h, r), Known(r), Checked(r),
         r.at \notin {"insert", "counter"}, r.ticket = 0, sess' \subseteq sess, raced \subseteq raced',
         UNCHANGED <<status, totp, owners, Account!passkeys, Account!sso, minted, ids, confirmed>>, SealedInv'
  PROVE  AccountsInv'
  <1>0. Parts /\ ids \in Nat /\ status \in [Users -> {"none", "active", "suspended"}]
    BY DEF AccountsInv, Parts, RowsInv, AccountTypes
  <1> USE <1>0 DEF Parts
  <1>1. UNCHANGED <<status, totp, owners, passkey, device, challenge, provider, flow, ident, minted, ids, confirmed>>
    BY DEF Account!passkeys, Account!sso
  <1>2. Grows
    BY <1>1 DEF Grows
  <1>3. Known(r)' /\ Checked(r)'
    BY <1>1, <1>2, StillKnown DEF Checked
  <1>4. Table' /\ Requests'
    BY <1>2, <1>3, RequestsFrame DEF RowsInv
  <1>5. AccountTypes' /\ PasskeyRows' /\ IdentRows' /\ SessionRows'
    <2>1. AccountTypes' /\ IdentRows' /\ SessionRows'
      BY <1>1 DEF RowsInv, AccountTypes, IdentRows, SessionRows, Exists
    <2>2. PasskeyRows'
      BY <1>1 DEF RowsInv, PasskeyRows, Exists
    <2> QED BY <2>1, <2>2
  <1>6. FounderInv' /\ FactorInv' /\ LoadedInv'
    BY <1>1, <1>2, <1>3, FounderFrame, FactorFrame, LoadedFrame
  <1>7. TicketInv'
    BY <1>1, TicketFrame
  <1> QED BY <1>4, <1>5, <1>6, <1>7 DEF AccountsInv, RowsInv

\* A step of a request that leaves it idle.
LEMMA StaysIdle ==
  ASSUME AccountsInv, NEW h \in Handlers, req[h] = Account!Idle, req' = req
  PROVE  Account!Goto(h, Account!Idle) /\ req[h].at = "idle"
  BY IdleFields DEF AccountsInv, Table, Account!Goto

LEMMA SessionKeeps ==
  ASSUME AccountsInv, NEW h \in Handlers, \/ Account!StoreCredentials(h) \/ Account!DeleteSession(h) \/ Account!PurgeSession(h)
                                     \/ Account!PurgeFails(h) \/ Account!RemoveBox(h) \/ Account!SessionRefused(h)
  PROVE  AccountsInv'
  <1>0. Parts
    BY DEF AccountsInv, Parts
  <1> USE <1>0 DEF Parts
  <1>1. CASE Account!StoreCredentials(h)
    <2>1. Account!Goto(h, Account!Idle) /\ req[h].at = "store" /\ raced \subseteq raced' /\ sess' = sess
      BY <1>1 DEF Account!StoreCredentials, Account!Finish, Account!Continue, Account!Stale
    <2>2. \A g \in Handlers : g # h => req'[g] = req[g]
      BY <2>1, Moves, IdleFields
    <2>3. Account!Live(req[h].n) \/ <<"sealed", req[h].n>> \in raced'
      BY <1>1 DEF Account!StoreCredentials, Account!Stale
    <2>5. SealedInv'
      <3> SUFFICES ASSUME NEW id \in sealed'
                   PROVE  \/ Account!Live(id)'
                          \/ \E g \in Handlers : req'[g].at = "purge" /\ req'[g].n = id
                          \/ <<"sealed", id>> \in raced'
        BY DEF SealedInv
      <3>1. CASE id = req[h].n
        BY <2>1, <2>3, <3>1 DEF Account!Live
      <3>2. CASE id \in sealed
        BY <2>1, <2>2, <3>2 DEF SealedInv, Account!Live
      <3> QED BY <1>1, <3>1, <3>2 DEF Account!StoreCredentials
    <2>6. UNCHANGED <<status, totp, owners, Account!passkeys, Account!sso, minted, ids, confirmed>>
      BY <1>1 DEF Account!StoreCredentials, Account!accounts
    <2> QED BY <2>1, <2>5, <2>6, SessionFrame, IdleFields, IdleKnown
  <1>2. CASE Account!DeleteSession(h)
    <2>1. PICK t \in sess : /\ sess' = sess \ {t}
                            /\ Account!Goto(h, [Account!Idle EXCEPT !.op = "logout", !.at = "purge", !.n = t.id, !.u = t.user])
      BY <1>2 DEF Account!DeleteSession
    <2>2. PICK r : r = [Account!Idle EXCEPT !.op = "logout", !.at = "purge", !.n = t.id, !.u = t.user]
      OBVIOUS
    <2>3. Shape(r) /\ r.at = "purge" /\ r.n = t.id /\ r.ticket = 0 /\ Account!Goto(h, r)
      BY <2>1, <2>2, IdleFields DEF Shape
    <2>4. Known(r) /\ Checked(r)
      BY <2>3 DEF Known, Checked
    <2>5. req'[h] = r /\ \A g \in Handlers : g # h => req'[g] = req[g]
      BY <2>3, Moves
    <2>6. UNCHANGED <<status, totp, owners, Account!passkeys, Account!sso, sealed, minted, ids, confirmed, raced>>
      BY <1>2 DEF Account!DeleteSession, Account!hist, Account!accounts
    <2>7. req[h].at # "purge"
      BY <1>2, IdleFields DEF Account!DeleteSession, Account!Start
    <2>8. SealedInv'
      BY <2>1, <2>3, <2>5, <2>6, <2>7 DEF SealedInv, Account!Live
    <2> QED BY <2>1, <2>3, <2>4, <2>6, <2>8, SessionFrame
  <1>3. CASE Account!PurgeSession(h)
    <2>1. Account!Goto(h, Account!Idle) /\ sealed' = sealed \ {req[h].n}
      BY <1>3 DEF Account!PurgeSession, Account!Finish
    <2>2. UNCHANGED <<status, totp, owners, Account!passkeys, Account!sso, sess, minted, ids, confirmed, raced>>
      BY <1>3 DEF Account!PurgeSession, Account!hist, Account!accounts
    <2>3. \A g \in Handlers : g # h => req'[g] = req[g]
      BY <2>1, Moves, IdleFields
    <2>4. SealedInv'
      BY <2>1, <2>2, <2>3 DEF SealedInv, Account!Live
    <2> QED BY <2>1, <2>2, <2>4, SessionFrame, IdleFields, IdleKnown
  <1>4. CASE Account!PurgeFails(h)
    <2>1. /\ Account!Goto(h, Account!Idle) /\ req[h].at = "purge" /\ raced \subseteq raced'
          /\ <<"sealed", req[h].n>> \in raced'
      BY <1>4 DEF Account!PurgeFails, Account!Finish, Account!Continue, Account!Stale
    <2>2. UNCHANGED <<status, totp, owners, Account!passkeys, Account!sso, sess, sealed, minted, ids, confirmed>>
      BY <1>4 DEF Account!PurgeFails, Account!accounts, Account!sessions
    <2>3. \A g \in Handlers : g # h => req'[g] = req[g]
      BY <2>1, Moves, IdleFields
    <2>4. SealedInv'
      BY <2>1, <2>2, <2>3 DEF SealedInv, Account!Live
    <2> QED BY <2>1, <2>2, <2>4, SessionFrame, IdleFields, IdleKnown
  <1>5. CASE Account!RemoveBox(h)
    <2>1. PICK bound : /\ bound \subseteq sess /\ sess' = sess \ bound
                       /\ raced' = raced \cup {<<"sealed", s.id>> : s \in bound}
      BY <1>5 DEF Account!RemoveBox
    <2>2. UNCHANGED <<status, totp, owners, Account!passkeys, Account!sso, sealed, minted, req, ids, confirmed>>
      BY <1>5 DEF Account!RemoveBox
    <2>3. Account!Goto(h, Account!Idle)
      BY <1>5, <2>2, StaysIdle DEF Account!RemoveBox, Account!Start
    <2>4. SealedInv'
      BY <2>1, <2>2 DEF SealedInv, Account!Live
    <2> QED BY <2>1, <2>2, <2>3, <2>4, SessionFrame, IdleFields, IdleKnown
  <1>6. CASE Account!SessionRefused(h)
    BY <1>6, FinishKeeps DEF Account!SessionRefused, Quiet, Account!hist, Account!Continue
  <1> QED BY <1>1, <1>2, <1>3, <1>4, <1>5, <1>6

--------------------------------------------------------------------------------
\* Second factors.
LEMMA TwoFaReadKeeps ==
  ASSUME AccountsInv, NEW h \in Handlers, Account!TwoFaRead(h)
  PROVE  AccountsInv'
  <1>1. PICK op \in {"setup", "verify2fa", "disable2fa"} :
          /\ Account!Start(h, op)
          /\ \E s \in Account!Principals :
               /\ confirmed' = IF op = "verify2fa" THEN confirmed \cup {<<s.user, totp[s.user].secret>>} ELSE confirmed
               /\ Account!Goto(h, [Account!Idle EXCEPT !.op = op, !.at = "factor", !.u = s.user, !.seen = totp[s.user]])
          /\ UNCHANGED <<Account!accounts, Account!passkeys, Account!sso, key, Account!sessions, ops, ids, raced>>
    BY DEF Account!TwoFaRead
  <1>2. PICK s \in Account!Principals :
          /\ confirmed' = IF op = "verify2fa" THEN confirmed \cup {<<s.user, totp[s.user].secret>>} ELSE confirmed
          /\ Account!Goto(h, [Account!Idle EXCEPT !.op = op, !.at = "factor", !.u = s.user, !.seen = totp[s.user]])
    BY <1>1
  <1>3. PICK r : r = [Account!Idle EXCEPT !.op = op, !.at = "factor", !.u = s.user, !.seen = totp[s.user]]
    OBVIOUS
  <1>4. /\ Shape(r) /\ r.at = "factor" /\ r.op = op /\ r.u = s.user /\ r.seen = totp[s.user]
        /\ r.ticket = 0 /\ r.box = FALSE /\ Account!Goto(h, r)
    BY <1>2, <1>3, IdleFields DEF Shape
  <1>5. Quiet /\ confirmed \subseteq confirmed' /\ req[h].at = "idle"
    BY <1>1, <1>2, IdleFields DEF Quiet, Account!Start
  <1>6. Exists(s.user)
    BY DEF Account!Principals, AccountsInv, RowsInv, SessionRows
  <1>7. Known(r)'
    BY <1>4, <1>5, <1>6, StillKnown, QuietGrows DEF AccountsInv, Known
  <1>8. Checked(r)'
    BY <1>2, <1>4 DEF Checked
  <1> QED BY <1>4, <1>5, <1>7, <1>8, Internal DEF Untied

LEMMA FactorKeeps ==
  ASSUME AccountsInv, NEW h \in Handlers, Account!SetupTwoFa(h) \/ Account!EnableTwoFa(h) \/ Account!DisableTwoFa(h)
  PROVE  AccountsInv'
  <1> DEFINE u == req[h].u
  <1>0. Parts /\ ids \in Nat /\ status \in [Users -> {"none", "active", "suspended"}]
    BY DEF AccountsInv, Parts, RowsInv, AccountTypes
  <1> USE <1>0 DEF Parts
  <1>t. totp \in [Users -> [on : BOOLEAN, secret : Nat]] /\ u \in Users
    BY Opens DEF Account!SetupTwoFa, Account!EnableTwoFa, Account!DisableTwoFa, Account!Continue, Known, Exists, RowsInv, AccountTypes
  <1>1. UNCHANGED <<status, owners, passkey, device, challenge, provider, flow, ident, sess, sealed, minted, confirmed>>
    BY DEF Account!SetupTwoFa, Account!EnableTwoFa, Account!DisableTwoFa, Account!passkeys, Account!sso, Account!sessions
  <1>2. Account!Goto(h, Account!Idle) /\ req[h].at = "factor"
    BY DEF Account!SetupTwoFa, Account!EnableTwoFa, Account!DisableTwoFa, Account!Finish, Account!Continue
  <1>3. ids' \in Nat /\ ids <= ids'
    BY DEF Account!SetupTwoFa, Account!EnableTwoFa, Account!DisableTwoFa, Account!Fresh
  <1>4. Grows
    BY <1>1, <1>3 DEF Grows
  <1>m. \A tag, x : tag # "totp" /\ <<tag, x>> \in raced => <<tag, x>> \in raced'
    BY DEF Account!SetupTwoFa, Account!EnableTwoFa, Account!DisableTwoFa, Account!Stale
  <1>5. Table' /\ Requests' /\ FounderInv' /\ LoadedInv'
    <2>1. Table' /\ Requests' /\ FounderInv'
      BY <1>1, <1>2, <1>4, IdleFields, IdleKnown, RequestsFrame, FounderFrame DEF RowsInv
    <2>2. LoadedInv'
      BY <1>1, <1>2, <1>m, IdleFields, LoadedFrame
    <2> QED BY <2>1, <2>2
  <1>6. TicketInv'
    BY <1>1, <1>2, <1>3, IdleFields, TicketFrame
  <1>7. SealedInv'
    <2>1. \A id : <<"sealed", id>> \in raced => <<"sealed", id>> \in raced'
      BY <1>m
    <2>2. \A g \in Handlers : g # h => req'[g] = req[g]
      BY <1>2, Moves, IdleFields
    <2> QED BY <1>1, <1>2, <2>1, <2>2 DEF SealedInv, Account!Live
  <1>8. /\ totp' \in [Users -> [on : BOOLEAN, secret : Nat]]
        /\ \A v \in Users : totp'[v].on => <<v, totp'[v].secret>> \in confirmed \/ <<"totp", v>> \in raced'
    <2>f. \A v \in Users : totp[v].on => <<v, totp[v].secret>> \in confirmed \/ <<"totp", v>> \in raced
      BY DEF FactorInv
    <2>1. CASE Account!SetupTwoFa(h)
      <3>1. PICK i \in Nat : i = ids'
        BY <1>3
      <3>2. totp' = [totp EXCEPT ![u].secret = i]
        BY <2>1, <3>1 DEF Account!SetupTwoFa
      <3>3. raced \subseteq raced' /\ (totp[u].on => <<"totp", u>> \in raced')
        BY <2>1 DEF Account!SetupTwoFa, Account!Stale
      <3>4. totp' \in [Users -> [on : BOOLEAN, secret : Nat]]
        BY <1>t, <3>2
      <3>5. \A v \in Users : totp'[v].on = totp[v].on /\ (v # u => totp'[v] = totp[v])
        BY <1>t, <3>2
      <3> QED BY <2>f, <3>3, <3>4, <3>5
    <2>2. CASE Account!EnableTwoFa(h)
      <3>1. totp' = [totp EXCEPT ![u].on = TRUE]
        BY <2>2 DEF Account!EnableTwoFa
      <3>2. raced \subseteq raced' /\ (totp[u].secret # req[h].seen.secret => <<"totp", u>> \in raced')
        BY <2>2 DEF Account!EnableTwoFa, Account!Stale
      <3>3. <<u, req[h].seen.secret>> \in confirmed
        BY <2>2 DEF Account!EnableTwoFa, Account!Continue, FactorInv
      <3>4. totp' \in [Users -> [on : BOOLEAN, secret : Nat]]
        BY <1>t, <3>1
      <3>5. \A v \in Users : totp'[v].secret = totp[v].secret /\ (v # u => totp'[v] = totp[v])
        BY <1>t, <3>1
      <3> QED BY <2>f, <3>2, <3>3, <3>4, <3>5
    <2>3. CASE Account!DisableTwoFa(h)
      <3>1. totp' = [totp EXCEPT ![u] = [on |-> FALSE, secret |-> 0]] /\ raced' = raced \ {<<"totp", u>>}
        BY <2>3 DEF Account!DisableTwoFa, Account!Off
      <3> QED BY <1>t, <2>f, <3>1
    <2> QED BY <2>1, <2>2, <2>3
  <1>9. FactorInv'
    <2>1. req'[h] = Account!Idle /\ \A g \in Handlers : g # h => req'[g] = req[g]
      BY <1>2, Moves, IdleFields
    <2>2. ASSUME NEW g \in Handlers PROVE Checked(req[g])'
      <3>1. CASE g = h
        BY <2>1, <3>1, IdleFields DEF Checked
      <3>2. CASE g # h
        BY <1>1, <2>1, <3>2 DEF FactorInv, Checked, Account!CodeAccepted
      <3> QED BY <3>1, <3>2
    <2> QED BY <1>1, <1>8, <2>2 DEF FactorInv, Checked
  <1>10. AccountTypes' /\ PasskeyRows' /\ IdentRows' /\ SessionRows'
    <2>1. AccountTypes' /\ IdentRows' /\ SessionRows'
      BY <1>1, <1>3, <1>8 DEF RowsInv, AccountTypes, IdentRows, SessionRows, Exists
    <2>2. PasskeyRows'
      BY <1>1, <1>3 DEF RowsInv, PasskeyRows, Exists
    <2> QED BY <2>1, <2>2
  <1> QED BY <1>5, <1>6, <1>7, <1>9, <1>10 DEF AccountsInv, RowsInv

--------------------------------------------------------------------------------
\* Steps that change passkeys, challenges, flows, links or keys.
LEMMA RowFrame ==
  ASSUME AccountsInv, Grows, NEW h \in Handlers, NEW r, Shape(r), Account!Goto(h, r), Known(r)', Checked(r)',
         r.at # "insert", req[h].at # "purge", raced \subseteq raced',
         UNCHANGED <<totp, owners, sess, sealed, confirmed>>, PasskeyRows', IdentRows', TicketInv', LoadedInv'
  PROVE  AccountsInv'
  <1>0. Parts /\ ids \in Nat
    BY DEF AccountsInv, Parts, RowsInv, AccountTypes
  <1> USE <1>0 DEF Parts
  <1>1. Table' /\ Requests'
    BY RequestsFrame DEF RowsInv
  <1>2. AccountTypes' /\ SessionRows'
    BY DEF RowsInv, AccountTypes, SessionRows, Exists, Grows
  <1>3. FounderInv' /\ FactorInv' /\ SealedInv'
    BY FounderFrame, FactorFrame, SealedFrame
  <1> QED BY <1>1, <1>2, <1>3 DEF AccountsInv, RowsInv

\* A challenge or a flow is stored under a new number.
LEMMA NewTicket ==
  ASSUME TicketInv, req' = req, minted' = minted, ids' = ids + 1,
         \/ flow' = flow /\ \E c : c.id = ids' /\ challenge' = challenge \cup {c}
         \/ challenge' = challenge /\ flow' = flow \cup {ids'}
  PROVE  TicketInv'
  <1>0. ids \in Nat /\ ids' \in Nat /\ ids' # 0
    BY DEF TicketInv
  <1>1. Waiting' = Waiting \cup {ids'}
    BY DEF Waiting
  <1>2. \A t : Number(t) => Number(t)' /\ t # ids'
    BY <1>0 DEF Number
  <1>3. ids' \in Nat /\ ids' <= ids'
    BY <1>0
  <1>4. (\A c \in challenge' : c.id \notin flow') /\ (\A c, d \in challenge' : c.id = d.id => c = d)
    <2>1. \A c \in challenge : c.id # ids'
      BY <1>2 DEF TicketInv, Waiting
    <2>2. ids' \notin flow
      BY <1>2 DEF TicketInv, Waiting
    <2> QED BY <2>1, <2>2 DEF TicketInv
  <1>5. \A t \in Waiting' : Number(t)' /\ t # 0
    <2>1. ASSUME NEW t \in Waiting' PROVE Number(t)' /\ t # 0
      <3>1. CASE t = ids'
        BY <1>0, <1>3, <3>1 DEF Number
      <3>2. CASE t \in Waiting
        BY <1>2, <3>2 DEF TicketInv
      <3> QED BY <1>1, <3>1, <3>2
    <2> QED BY <2>1
  <1>6. \A h \in Handlers : Number(req[h].ticket)' /\ req[h].ticket \notin Waiting'
    BY <1>1, <1>2 DEF TicketInv
  <1>7. \A m \in minted : Number(m[2])' /\ m[2] \notin Waiting'
    BY <1>1, <1>2 DEF TicketInv
  <1>8. \A h \in Handlers :
          /\ Untied(req[h]) => req[h].ticket = 0
          /\ \A g \in Handlers : g # h /\ req[h].ticket # 0 => req[g].ticket # req[h].ticket
    BY DEF TicketInv
  <1>9. /\ \A m \in minted : m[2] # 0 => \A h \in Handlers : req[h].ticket # m[2]
        /\ \A a, b \in minted : a[2] # 0 /\ a[2] = b[2] => a = b
    BY DEF TicketInv
  <1> QED BY <1>0, <1>4, <1>5, <1>6, <1>7, <1>8, <1>9 DEF TicketInv, Untied

\* A request that takes a ticket from among those waiting.
LEMMA TakesTicket ==
  ASSUME TicketInv, Table, minted' = minted, ids' = ids, challenge' \subseteq challenge, flow' \subseteq flow,
         NEW h \in Handlers, NEW r, Shape(r), Account!Goto(h, r), r.ticket \in Waiting, r.ticket \notin Waiting', ~Untied(r)
  PROVE  TicketInv'
  <1>1. req'[h] = r /\ \A g \in Handlers : g # h => req'[g] = req[g]
    BY Moves
  <1>2. Waiting' \subseteq Waiting
    BY DEF Waiting
  <1>3. \A t : Number(t) => Number(t)'
    BY DEF Number, TicketInv
  <1>4. ASSUME NEW g \in Handlers
        PROVE  /\ Number(req[g].ticket)' /\ req'[g].ticket \notin Waiting'
               /\ Untied(req[g])' => req'[g].ticket = 0
    <2>1. CASE g = h
      BY <1>1, <1>3, <2>1 DEF TicketInv, Untied
    <2>2. CASE g # h
      BY <1>1, <1>2, <1>3, <2>2 DEF TicketInv, Untied
    <2> QED BY <2>1, <2>2
  <1>5. \A g, k \in Handlers : g # k /\ req'[k].ticket # 0 => req'[g].ticket # req'[k].ticket
    BY <1>1 DEF TicketInv
  <1>6. \A m \in minted : m[2] # 0 => \A g \in Handlers : req'[g].ticket # m[2]
    BY <1>1 DEF TicketInv
  <1>7. \A m \in minted : Number(m[2])' /\ m[2] \notin Waiting'
    BY <1>2, <1>3 DEF TicketInv
  <1>8. (\A t \in Waiting' : Number(t)' /\ t # 0) /\ ids' \in Nat
    BY <1>2, <1>3 DEF TicketInv
  <1>9. (\A c \in challenge' : c.id \notin flow') /\ (\A c, d \in challenge' : c.id = d.id => c = d)
    BY DEF TicketInv
  <1>10. \A a, b \in minted : a[2] # 0 /\ a[2] = b[2] => a = b
    BY DEF TicketInv
  <1> QED BY <1>4, <1>5, <1>6, <1>7, <1>8, <1>9, <1>10 DEF TicketInv

LEMMA ChallengeKeeps ==
  ASSUME AccountsInv, NEW h \in Handlers, Account!RegisterOptions(h) \/ Account!AuthOptions(h)
  PROVE  AccountsInv'
  <1>0. Parts /\ ids \in Nat /\ status \in [Users -> {"none", "active", "suspended"}]
    BY DEF AccountsInv, Parts, RowsInv, AccountTypes
  <1> USE <1>0 DEF Parts
  <1>1. req[h] = Account!Idle /\ \E kind, u : Account!StoreChallenge(kind, u)
    BY DEF Account!RegisterOptions, Account!AuthOptions, Account!Start
  <1>2. PICK kind, u : Account!StoreChallenge(kind, u)
    BY <1>1
  <1>3. UNCHANGED <<status, totp, owners, passkey, device, provider, flow, ident, sess, sealed, minted, req, confirmed, raced>>
    BY <1>2 DEF Account!StoreChallenge, Account!accounts, Account!sso, Account!sessions, Account!hist
  <1>4. ids' = ids + 1 /\ challenge' = challenge \cup {[id |-> ids', kind |-> kind, user |-> u]}
    BY <1>2 DEF Account!StoreChallenge, Account!Fresh
  <1>5. Grows
    BY <1>3, <1>4 DEF Grows
  <1>6. PasskeyRows' /\ IdentRows'
    BY <1>3, <1>5, TablesFrame
  <1>7. TicketInv'
    <2>1. PICK c : c = [id |-> ids', kind |-> kind, user |-> u]
      OBVIOUS
    <2>2. c.id = ids' /\ challenge' = challenge \cup {c}
      BY <1>4, <2>1
    <2> QED BY <1>3, <1>4, <2>2, NewTicket
  <1>8. Account!Goto(h, Account!Idle) /\ req[h].at = "idle"
    BY <1>1, <1>3, StaysIdle
  <1>9. LoadedInv'
    BY <1>3 DEF LoadedInv
  <1> QED BY <1>3, <1>5, <1>6, <1>7, <1>8, <1>9, IdleFields, IdleKnown, RowFrame

LEMMA RegisterKeeps ==
  ASSUME AccountsInv, NEW h \in Handlers, Account!RegisterVerify(h) \/ Account!RegisterInsert(h) \/ Account!RemovePasskey(h)
  PROVE  AccountsInv'
  <1>0. Parts /\ ids \in Nat /\ status \in [Users -> {"none", "active", "suspended"}]
    BY DEF AccountsInv, Parts, RowsInv, AccountTypes
  <1> USE <1>0 DEF Parts
  <1>1. CASE Account!RegisterVerify(h)
    <2>1. PICK s \in Account!Principals, p \in Passkeys, answered \in BOOLEAN, c \in challenge :
            /\ challenge' = challenge \ {c}
            /\ Account!Goto(h, IF answered THEN [Account!Idle EXCEPT !.op = "register", !.at = "credential", !.u = s.user, !.p = p]
                                   ELSE Account!Idle)
      BY <1>1 DEF Account!RegisterVerify
    <2>2. PICK r : r = IF answered THEN [Account!Idle EXCEPT !.op = "register", !.at = "credential", !.u = s.user, !.p = p]
                                   ELSE Account!Idle
      OBVIOUS
    <2>3. /\ Shape(r) /\ Account!Goto(h, r) /\ r.ticket = 0 /\ r.n = 0
          /\ (r.at = "credential" /\ r.op = "register" /\ r.u = s.user /\ r.p = p) \/ r = Account!Idle
      BY <2>1, <2>2, IdleFields DEF Shape
    <2>4. UNCHANGED <<status, totp, owners, passkey, device, provider, flow, ident, sess, sealed, minted, ids, confirmed, raced>>
      BY <1>1 DEF Account!RegisterVerify, Account!accounts, Account!sso, Account!sessions, Account!hist
    <2>5. Grows
      BY <2>4 DEF Grows
    <2>6. Exists(s.user)
      BY DEF Account!Principals, RowsInv, SessionRows
    <2>7. Known(r)' /\ Checked(r)'
      <3>1. CASE r = Account!Idle
        BY <3>1, IdleKnown
      <3>2. CASE r.at = "credential" /\ r.op = "register" /\ r.u = s.user /\ r.p = p
        BY <2>3, <2>4, <2>6, <3>2 DEF Known, Checked, Exists
      <3> QED BY <2>3, <3>1, <3>2
    <2>8. PasskeyRows' /\ IdentRows'
      BY <2>4, <2>5, TablesFrame
    <2>9. r.at \notin {"insert", "counter"} /\ req[h].at = "idle"
      BY <1>1, <2>3, IdleFields DEF Account!RegisterVerify, Account!Start
    <2>10. TicketInv' /\ LoadedInv'
      BY <2>1, <2>3, <2>4, <2>5, <2>9, TicketFrame, LoadedFrame DEF Grows
    <2> QED BY <2>3, <2>4, <2>5, <2>7, <2>8, <2>9, <2>10, RowFrame
  <1>2. CASE Account!RegisterInsert(h)
    <2> DEFINE p == req[h].p
    <2>1. req[h].at = "credential" /\ Known(req[h]) /\ req[h].op = "register" /\ Account!Goto(h, Account!Idle)
      BY <1>2, Opens DEF Account!RegisterInsert, Account!Continue, Account!Finish
    <2>2. UNCHANGED <<status, totp, owners, device, challenge, provider, flow, ident, sess, sealed, minted, confirmed, raced>>
      BY <1>2 DEF Account!RegisterInsert, Account!accounts, Account!sso, Account!sessions, Account!hist
    <2>3. PICK i : i = ids + 1 /\ ids' = i /\ i \in Nat
      BY <1>2 DEF Account!RegisterInsert, Account!Fresh
    <2>4. Grows
      BY <2>2, <2>3 DEF Grows
    <2>5. p \in Passkeys /\ Exists(req[h].u)
      BY <2>1 DEF Known
    <2>6. PICK row : row = [user |-> req[h].u, counter |-> device[p], id |-> i]
      OBVIOUS
    <2>7. passkey' = passkey \/ passkey' = [passkey EXCEPT ![p] = row]
      BY <1>2, <2>3, <2>6 DEF Account!RegisterInsert
    <2>8. /\ row = [user |-> row.user, counter |-> row.counter, id |-> row.id]
          /\ row.counter \in Nat /\ row.id = i /\ row.user = req[h].u
      BY <2>5, <2>6 DEF RowsInv, PasskeyRows
    <2>9. PasskeyRows' /\ IdentRows'
      <3>1. IdentRows'
        BY <2>2 DEF RowsInv, IdentRows, Exists
      <3>2. passkey' = [x \in Passkeys |-> passkey'[x]] /\ device' \in [Passkeys -> Nat]
        BY <2>2, <2>7 DEF RowsInv, PasskeyRows
      <3>3. ASSUME NEW x \in Passkeys
            PROVE  /\ passkey'[x] = [user |-> passkey'[x].user, counter |-> passkey'[x].counter, id |-> passkey'[x].id]
                   /\ passkey'[x].counter \in Nat /\ passkey'[x].id \in Nat /\ passkey'[x].id <= ids'
                   /\ passkey'[x] # Account!NoKey => Exists(passkey[x].user)'
        <4>1. CASE passkey'[x] = passkey[x]
          BY <2>2, <2>3, <4>1 DEF RowsInv, PasskeyRows, Exists
        <4>2. CASE passkey'[x] = row
          BY <2>2, <2>3, <2>5, <2>8, <4>2 DEF Exists
        <4>3. passkey'[x] = passkey[x] \/ passkey'[x] = row
          BY <2>7 DEF RowsInv, PasskeyRows
        <4> QED BY <4>1, <4>2, <4>3
      <3> QED BY <3>1, <3>2, <3>3 DEF PasskeyRows
    <2>10. LoadedInv'
      <3>1. req'[h] = Account!Idle /\ \A g \in Handlers : g # h => req'[g] = req[g]
        BY <2>1, Moves, IdleFields
      <3>2. ASSUME NEW g \in Handlers, req[g].at = "counter", passkey'[req[g].p] # Account!NoKey,
                   passkey'[req[g].p].id = req[g].row
            PROVE  passkey'[req[g].p] = passkey[req[g].p]
        <4>1. req[g].p \in Passkeys /\ req[g].row \in Nat /\ req[g].row <= ids
          BY <3>2, Opens DEF Known
        <4> QED BY <2>3, <2>7, <2>8, <3>2, <4>1 DEF RowsInv, PasskeyRows
      <3> QED BY <2>2, <3>1, <3>2, IdleFields DEF LoadedInv
    <2>11. TicketInv'
      BY <2>1, <2>2, <2>3, <2>4, IdleFields, TicketFrame DEF Grows
    <2> QED BY <2>1, <2>2, <2>4, <2>9, <2>10, <2>11, IdleFields, IdleKnown, RowFrame
  <1>3. CASE Account!RemovePasskey(h)
    <2>1. req[h] = Account!Idle
      BY <1>3 DEF Account!RemovePasskey, Account!Start
    <2>2. UNCHANGED <<status, totp, owners, device, challenge, provider, flow, ident, sess, sealed, minted, req, ids, confirmed, raced>>
      BY <1>3 DEF Account!RemovePasskey, Account!accounts, Account!sso, Account!sessions, Account!hist
    <2>3. PICK p \in Passkeys : passkey' = [passkey EXCEPT ![p] = Account!NoKey]
      BY <1>3 DEF Account!RemovePasskey
    <2>4. /\ Account!NoKey = [user |-> Account!NoKey.user, counter |-> Account!NoKey.counter, id |-> Account!NoKey.id]
          /\ Account!NoKey.counter = 0 /\ Account!NoKey.id = 0
      BY DEF Account!NoKey
    <2>5. \A x \in Passkeys : passkey'[x] = passkey[x] \/ passkey'[x] = Account!NoKey
      BY <2>3 DEF RowsInv, PasskeyRows
    <2>6. PasskeyRows'
      <3>1. passkey' = [x \in Passkeys |-> passkey'[x]]
        BY <2>3 DEF RowsInv, PasskeyRows
      <3> QED BY <2>2, <2>4, <2>5, <3>1 DEF RowsInv, PasskeyRows, Exists
    <2>7. IdentRows'
      BY <2>2 DEF RowsInv, IdentRows, Exists
    <2>8. LoadedInv'
      <3>1. \A g \in Handlers : req[g].at = "counter" => req[g].p \in Passkeys
        BY Opens DEF Known
      <3> QED BY <2>2, <2>5, <3>1 DEF LoadedInv
    <2>9. Grows /\ Account!Goto(h, Account!Idle) /\ req[h].at = "idle"
      BY <2>1, <2>2, StaysIdle DEF Grows
    <2>10. TicketInv'
      BY <2>2, <2>9, IdleFields, TicketFrame DEF Grows
    <2> QED BY <2>2, <2>6, <2>7, <2>8, <2>9, <2>10, IdleFields, IdleKnown, RowFrame
  <1> QED BY <1>1, <1>2, <1>3

LEMMA PasskeyLoginKeeps ==
  ASSUME AccountsInv, NEW h \in Handlers, Account!AuthConsume(h) \/ Account!AuthLoad(h) \/ Account!AuthCounter(h)
  PROVE  AccountsInv'
  <1>0. Parts /\ ids \in Nat /\ status \in [Users -> {"none", "active", "suspended"}]
    BY DEF AccountsInv, Parts, RowsInv, AccountTypes
  <1> USE <1>0 DEF Parts
  <1>1. CASE Account!AuthConsume(h)
    <2>1. PICK c \in challenge, p \in Passkeys :
            /\ challenge' = challenge \ {c} /\ device' = [device EXCEPT ![p] = @ + 1]
            /\ Account!Goto(h, [Account!Idle EXCEPT !.op = "passkeyLogin", !.at = "credential", !.u = c.user, !.p = p,
                                    !.n = device[p] + 1, !.ticket = c.id])
      BY <1>1 DEF Account!AuthConsume, Account!Consumed
    <2>2. PICK r : r = [Account!Idle EXCEPT !.op = "passkeyLogin", !.at = "credential", !.u = c.user, !.p = p,
                                    !.n = device[p] + 1, !.ticket = c.id]
      OBVIOUS
    <2>3. /\ Shape(r) /\ Account!Goto(h, r) /\ r.at = "credential" /\ r.op = "passkeyLogin" /\ r.p = p
          /\ r.n = device[p] + 1 /\ r.ticket = c.id /\ r.box = FALSE
      BY <2>1, <2>2, IdleFields DEF Shape
    <2>4. UNCHANGED <<status, totp, owners, passkey, provider, flow, ident, sess, sealed, minted, ids, confirmed, raced>>
      BY <1>1 DEF Account!AuthConsume, Account!accounts, Account!sso, Account!sessions, Account!hist
    <2>5. Grows
      BY <2>4 DEF Grows
    <2>6. device' \in [Passkeys -> Nat] /\ device[p] + 1 \in Nat
      BY <2>1 DEF RowsInv, PasskeyRows
    <2>7. PasskeyRows' /\ IdentRows'
      BY <2>4, <2>6 DEF RowsInv, PasskeyRows, IdentRows, Exists
    <2>8. Known(r)' /\ Checked(r)'
      BY <2>3, <2>6 DEF Known, Checked
    <2>9. TicketInv'
      <3>1. c.id \in Waiting /\ c.id \notin Waiting' /\ ~Untied(r)
        BY <2>1, <2>3, <2>4 DEF Waiting, TicketInv, Untied
      <3> QED BY <2>1, <2>3, <2>4, <3>1, TakesTicket
    <2>10. LoadedInv' /\ req[h].at = "idle"
      BY <1>1, <2>3, <2>4, LoadedFrame, IdleFields DEF Account!AuthConsume, Account!Start
    <2> QED BY <2>3, <2>4, <2>5, <2>7, <2>8, <2>9, <2>10, RowFrame
  <1>2. CASE Account!AuthLoad(h)
    <2> DEFINE q == req[h]
    <2> DEFINE c == passkey[q.p]
    <2>1. /\ q.at = "credential" /\ q.op = "passkeyLogin" /\ confirmed' = confirmed /\ raced \subseteq raced'
          /\ (\E g \in Handlers : req[g].at = "counter" /\ req[g].p = q.p) => <<"counter", q.p>> \in raced'
          /\ UNCHANGED <<Account!accounts, Account!passkeys, Account!sso, key, Account!sessions, ops, ids>>
      BY <1>2 DEF Account!AuthLoad, Account!Stale, Account!Continue
    <2>2. Shape(q) /\ Known(q) /\ (Untied(q) => q.ticket = 0)
      BY Opens
    <2>u. UNCHANGED <<status, totp, owners, passkey, device, challenge, provider, flow, ident, sess, sealed,
                      minted, ids>>
      BY <2>1 DEF Account!accounts, Account!passkeys, Account!sso, Account!sessions
    <2>g. Grows
      BY <2>u DEF Grows
    <2>p. PasskeyRows' /\ IdentRows'
      BY <2>u, <2>g, TablesFrame
    <2>3. CASE Account!Finish(h)
      <3>1. Account!Goto(h, Account!Idle)
        BY <2>3 DEF Account!Finish
      <3>2. TicketInv' /\ LoadedInv'
        BY <2>1, <2>u, <3>1, IdleFields, TicketFrame, LoadedFrame
      <3> QED BY <2>1, <2>u, <2>g, <2>p, <3>1, <3>2, IdleFields, IdleKnown, RowFrame
    <2>4. CASE /\ c # Account!NoKey /\ q.n > c.counter
               /\ Account!Goto(h, [q EXCEPT !.at = "counter", !.u = c.user, !.row = c.id])
      <3>1. PICK r : r = [q EXCEPT !.at = "counter", !.u = c.user, !.row = c.id]
        OBVIOUS
      <3>2. /\ Shape(r) /\ Account!Goto(h, r) /\ r.at = "counter" /\ r.u = c.user /\ r.row = c.id /\ r.ticket = q.ticket
            /\ r.op = q.op /\ r.p = q.p /\ r.n = q.n /\ r.box = q.box
        BY <2>2, <2>4, <3>1 DEF Shape
      <3>5. q.p \in Passkeys /\ q.n \in Nat /\ Exists(c.user) /\ c.id \in Nat /\ c.id <= ids
        BY <2>1, <2>2, <2>4 DEF Known, RowsInv, PasskeyRows
      <3>6. Known(r)' /\ Checked(r)'
        BY <2>1, <2>u, <3>2, <3>5 DEF Known, Checked, Exists
      <3>8. TicketInv'
        BY <2>2, <2>u, <3>2, TicketFrame DEF Untied
      <3>9. LoadedInv'
        <4>1. req'[h] = r /\ \A g \in Handlers : g # h => req'[g] = req[g]
          BY <3>2, Moves
        <4>2. c.counter < q.n
          BY <2>4, <3>5 DEF RowsInv, PasskeyRows
        <4>3. ASSUME NEW g \in Handlers, req'[g].at = "counter"
              PROVE  /\ passkey'[req'[g].p] # Account!NoKey /\ passkey'[req'[g].p].id = req'[g].row =>
                          passkey'[req'[g].p].counter < req'[g].n \/ <<"counter", req'[g].p>> \in raced'
                     /\ \A k \in Handlers : k # g /\ req'[k].at = "counter" /\ req'[k].p = req'[g].p =>
                          <<"counter", req'[g].p>> \in raced'
          <5>1. CASE g = h
            BY <2>1, <2>u, <3>2, <4>1, <4>2, <5>1
          <5>2. CASE g # h
            BY <2>1, <2>u, <3>2, <4>1, <4>3, <5>2 DEF LoadedInv
          <5> QED BY <5>1, <5>2
        <4> QED BY <4>3 DEF LoadedInv
      <3> QED BY <2>1, <2>u, <2>g, <2>p, <3>2, <3>6, <3>8, <3>9, RowFrame
    <2> QED BY <1>2, <2>3, <2>4 DEF Account!AuthLoad, Account!CounterAccepted
  <1>3. CASE Account!AuthCounter(h)
    <2> DEFINE q == req[h]
    <2>1. q.at = "counter" /\ Shape(q) /\ Known(q) /\ (Untied(q) => q.ticket = 0)
      BY <1>3, Opens DEF Account!AuthCounter, Account!Continue
    <2>2. UNCHANGED <<status, totp, owners, device, challenge, provider, flow, ident, sess, sealed, minted, ids, confirmed, raced>>
      BY <1>3 DEF Account!AuthCounter, Account!accounts, Account!sso, Account!sessions, Account!hist
    <2>3. \A x \in Passkeys : x # q.p => passkey'[x] = passkey[x]
      BY <1>3 DEF Account!AuthCounter, RowsInv, PasskeyRows
    <2>4. PICK r : r = [q EXCEPT !.at = "session"]
      OBVIOUS
    <2>5. /\ Shape(r) /\ Account!Goto(h, r) /\ r.at = "session" /\ r.u = q.u /\ r.ticket = q.ticket /\ r.box = q.box /\ r.op = q.op
      BY <1>3, <2>1, <2>4 DEF Shape, Account!AuthCounter
    <2>6. Grows
      BY <2>2 DEF Grows
    <2>7. Known(r)' /\ Checked(r)' /\ q.p \in Passkeys /\ q.n \in Nat
      BY <2>1, <2>2, <2>5 DEF Known, Checked, Exists
    <2>8. /\ passkey' = [x \in Passkeys |-> passkey'[x]]
          /\ \A x \in Passkeys : /\ passkey[x] = Account!NoKey => passkey'[x] = Account!NoKey
                                 /\ passkey'[x].user = passkey[x].user /\ passkey'[x].id = passkey[x].id
                                 /\ passkey'[x] = [user |-> passkey'[x].user, counter |-> passkey'[x].counter,
                                                   id |-> passkey'[x].id]
                                 /\ passkey'[x].counter \in Nat
      <3>1. CASE passkey' = passkey
        BY <3>1 DEF RowsInv, PasskeyRows
      <3>2. CASE passkey[q.p] # Account!NoKey /\ passkey' = [passkey EXCEPT ![q.p].counter = q.n]
        <4>1. PICK row : row = [passkey[q.p] EXCEPT !.counter = q.n]
          OBVIOUS
        <4>2. /\ row = [user |-> row.user, counter |-> row.counter, id |-> row.id] /\ row.counter = q.n
              /\ row.user = passkey[q.p].user /\ row.id = passkey[q.p].id
          BY <2>7, <4>1 DEF RowsInv, PasskeyRows
        <4>3. passkey' = [passkey EXCEPT ![q.p] = row]
          BY <3>2, <4>1
        <4> QED BY <2>7, <3>2, <4>2, <4>3 DEF RowsInv, PasskeyRows
      <3> QED BY <1>3, <3>1, <3>2 DEF Account!AuthCounter
    <2>9. PasskeyRows' /\ IdentRows'
      <3>1. IdentRows'
        BY <2>2 DEF RowsInv, IdentRows, Exists
      <3>2. PasskeyRows'
        BY <2>2, <2>8 DEF RowsInv, PasskeyRows, Exists
      <3> QED BY <3>1, <3>2
    <2>10. TicketInv'
      BY <2>1, <2>2, <2>5, <2>6, TicketFrame DEF Untied, Grows
    <2>11. LoadedInv'
      <3>1. req'[h] = r /\ \A g \in Handlers : g # h => req'[g] = req[g]
        BY <2>5, Moves
      <3>2. \A g \in Handlers : req[g].at = "counter" => req[g].p \in Passkeys
        BY Opens DEF Known
      <3>3. ASSUME NEW g \in Handlers, g # h, req[g].at = "counter"
            PROVE  passkey'[req[g].p] = passkey[req[g].p] \/ <<"counter", req[g].p>> \in raced
        BY <2>1, <2>3, <3>2, <3>3 DEF LoadedInv
      <3> QED BY <2>2, <2>5, <3>1, <3>3 DEF LoadedInv
    <2> QED BY <2>1, <2>2, <2>5, <2>6, <2>7, <2>9, <2>10, <2>11, RowFrame
  <1> QED BY <1>1, <1>2, <1>3

--------------------------------------------------------------------------------
\* Single sign-on.
LEMMA FlowKeeps ==
  ASSUME AccountsInv, NEW h \in Handlers, Account!BeginLogin(h) \/ Account!ConsumeFlow(h) \/ Account!CompleteSaml(h)
  PROVE  AccountsInv'
  <1>0. Parts /\ ids \in Nat /\ status \in [Users -> {"none", "active", "suspended"}]
    BY DEF AccountsInv, Parts, RowsInv, AccountTypes
  <1> USE <1>0 DEF Parts
  <1>1. /\ UNCHANGED <<status, totp, owners, passkey, device, challenge, provider, ident, sess, sealed, minted, confirmed, raced>>
        /\ ids' \in {ids, ids + 1} /\ req[h].at = "idle" /\ req[h] = Account!Idle
    BY IdleFields DEF Account!BeginLogin, Account!ConsumeFlow, Account!CompleteSaml, Account!accounts, Account!passkeys, Account!sessions, Account!hist, Account!Fresh, Account!Start
  <1>2. Grows
    BY <1>1 DEF Grows
  <1>3. PasskeyRows' /\ IdentRows'
    BY <1>1, <1>2, TablesFrame
  <1>4. CASE Account!BeginLogin(h)
    <2>1. req' = req /\ ids' = ids + 1 /\ flow' = flow \cup {ids'}
      BY <1>4 DEF Account!BeginLogin, Account!Fresh
    <2>2. TicketInv'
      BY <1>1, <2>1, NewTicket
    <2>3. Account!Goto(h, Account!Idle)
      BY <1>1, <2>1, StaysIdle
    <2>4. LoadedInv'
      BY <1>1, <2>3, IdleFields, LoadedFrame
    <2> QED BY <1>1, <1>2, <1>3, <2>2, <2>3, <2>4, IdleFields, IdleKnown, RowFrame
  <1>5. CASE Account!ConsumeFlow(h)
    <2>1. PICK f \in flow : flow' = flow \ {f} /\ Account!Goto(h, [Account!Idle EXCEPT !.op = "oidc", !.at = "exchange", !.ticket = f])
      BY <1>5 DEF Account!ConsumeFlow, Account!Consumed
    <2>2. PICK r : r = [Account!Idle EXCEPT !.op = "oidc", !.at = "exchange", !.ticket = f]
      OBVIOUS
    <2>3. Shape(r) /\ Account!Goto(h, r) /\ r.at = "exchange" /\ r.op = "oidc" /\ r.ticket = f /\ r.box = FALSE
      BY <2>1, <2>2, IdleFields DEF Shape
    <2>4. Known(r)' /\ Checked(r)' /\ ~Untied(r)
      BY <2>3 DEF Known, Checked, Untied
    <2>5. f \in Waiting /\ f \notin Waiting' /\ ids' = ids
      <3>1. \A c \in challenge : c.id # f
        BY DEF TicketInv
      <3>2. ids' = ids
        BY <1>5 DEF Account!ConsumeFlow
      <3> QED BY <1>1, <2>1, <3>1, <3>2 DEF Waiting
    <2>6. TicketInv' /\ LoadedInv'
      BY <1>1, <2>1, <2>3, <2>4, <2>5, TakesTicket, LoadedFrame
    <2> QED BY <1>1, <1>2, <1>3, <2>3, <2>4, <2>6, RowFrame
  <1>6. CASE Account!CompleteSaml(h)
    <2>1. PICK v \in Users, e \in Users \cup {NoUser} :
            Account!Goto(h, [Account!Idle EXCEPT !.op = "saml", !.at = "link", !.subject = v, !.u = e])
      BY <1>6 DEF Account!CompleteSaml
    <2>2. PICK r : r = [Account!Idle EXCEPT !.op = "saml", !.at = "link", !.subject = v, !.u = e]
      OBVIOUS
    <2>3. Shape(r) /\ Account!Goto(h, r) /\ r.at = "link" /\ r.op = "saml" /\ r.subject = v /\ r.u = e /\ r.ticket = 0
      BY <2>1, <2>2, IdleFields DEF Shape
    <2>4. Known(r)' /\ Checked(r)' /\ flow' \subseteq flow
      BY <1>6, <2>3 DEF Known, Checked, Account!CompleteSaml
    <2>5. TicketInv' /\ LoadedInv'
      BY <1>1, <1>2, <2>3, <2>4, TicketFrame, LoadedFrame DEF Grows
    <2> QED BY <1>1, <1>2, <1>3, <2>3, <2>4, <2>5, RowFrame
  <1> QED BY <1>4, <1>5, <1>6

LEMMA LinkKeeps ==
  ASSUME AccountsInv, NEW h \in Handlers, Account!ExchangeCode(h) \/ Account!Link(h)
  PROVE  AccountsInv'
  <1> DEFINE q == req[h]
  <1>0. Quiet /\ confirmed' = confirmed
    BY DEF Account!ExchangeCode, Account!Link, Quiet, Account!hist
  <1>1. Shape(q) /\ Known(q) /\ (Untied(q) => q.ticket = 0) /\ q.at \in {"exchange", "link"}
    BY Opens DEF Account!ExchangeCode, Account!Link, Account!Continue
  <1>2. q.op # "login"
    BY <1>1 DEF Known
  <1>3. CASE Account!Finish(h)
    BY <1>0, <1>1, <1>3, FinishKeeps
  <1>4. CASE \E v \in Users, e \in Users \cup {NoUser} : Account!Goto(h, [q EXCEPT !.at = "link", !.subject = v, !.u = e])
    <2>1. PICK v \in Users, e \in Users \cup {NoUser} : Account!Goto(h, [q EXCEPT !.at = "link", !.subject = v, !.u = e])
      BY <1>4
    <2>2. PICK r : r = [q EXCEPT !.at = "link", !.subject = v, !.u = e]
      OBVIOUS
    <2>3. /\ Shape(r) /\ Account!Goto(h, r) /\ r.at = "link" /\ r.op = q.op /\ r.subject = v /\ r.u = e
          /\ r.ticket = q.ticket /\ r.box = q.box
      BY <1>1, <2>1, <2>2 DEF Shape
    <2>4. Known(r) /\ Checked(r) /\ (Untied(r) => r.ticket = 0)
      BY <1>1, <1>2, <2>3 DEF Known, Checked, Untied
    <2> QED BY <1>0, <1>1, <2>3, <2>4, ReadKeeps
  <1>5. CASE \E to \in Users : Exists(to) /\ Account!Goto(h, [q EXCEPT !.at = "session", !.u = to])
    <2>1. PICK to \in Users : Exists(to) /\ Account!Goto(h, [q EXCEPT !.at = "session", !.u = to])
      BY <1>5
    <2>2. PICK r : r = [q EXCEPT !.at = "session", !.u = to]
      OBVIOUS
    <2>3. Shape(r) /\ Account!Goto(h, r) /\ r.at = "session" /\ r.op = q.op /\ r.u = to /\ r.ticket = q.ticket /\ r.box = q.box
      BY <1>1, <2>1, <2>2 DEF Shape
    <2>4. Known(r) /\ Checked(r) /\ (Untied(r) => r.ticket = 0)
      BY <1>1, <1>2, <2>1, <2>3 DEF Known, Checked, Untied
    <2> QED BY <1>0, <1>1, <2>3, <2>4, ReadKeeps
  <1>6. CASE q.at = "link" /\ q.u \in Users /\ Account!Goto(h, [q EXCEPT !.at = "provision", !.was = status[q.u]])
    <2>1. PICK r : r = [q EXCEPT !.at = "provision", !.was = status[q.u]]
      OBVIOUS
    <2>2. /\ Shape(r) /\ Account!Goto(h, r) /\ r.at = "provision" /\ r.op = q.op /\ r.u = q.u /\ r.was = status[q.u]
          /\ r.subject = q.subject /\ r.ticket = q.ticket /\ r.box = q.box
      BY <1>1, <1>6, <2>1 DEF Shape
    <2>3. Known(r) /\ Checked(r) /\ (Untied(r) => r.ticket = 0)
      BY <1>1, <1>2, <1>6, <2>2 DEF Known, Checked, Untied, Exists
    <2> QED BY <1>0, <1>1, <2>2, <2>3, ReadKeeps
  <1>7. CASE Account!ExchangeCode(h)
    BY <1>3, <1>4, <1>7 DEF Account!ExchangeCode
  <1>8. CASE Account!Link(h)
    <2>1. q.at = "link" /\ q.subject \in Users /\ q.u \in Users \cup {NoUser}
      BY <1>1, <1>8 DEF Account!Link, Account!Continue, Known
    <2>2. ident[q.subject] \in Users \cup {NoUser}
      BY <2>1 DEF AccountsInv, RowsInv, IdentRows
    <2>3. \/ /\ ident[q.subject] # NoUser /\ status[ident[q.subject]] = "active"
             /\ Account!Goto(h, [q EXCEPT !.at = "session", !.u = ident[q.subject]])
          \/ q.u # NoUser /\ Account!Goto(h, [q EXCEPT !.at = "provision", !.was = status[q.u]])
          \/ Account!Finish(h)
      BY <1>8 DEF Account!Link
    <2> QED BY <1>3, <1>5, <1>6, <2>1, <2>2, <2>3 DEF Exists
  <1> QED BY <1>7, <1>8

\* The account and its link are made together.
LEMMA ProvisionKeeps ==
  ASSUME AccountsInv, NEW h \in Handlers, Account!Provision(h)
  PROVE  AccountsInv'
  <1> DEFINE q == req[h]
  <1>0. Parts /\ ids \in Nat /\ status \in [Users -> {"none", "active", "suspended"}]
    BY DEF AccountsInv, Parts, RowsInv, AccountTypes
  <1> USE <1>0 DEF Parts
  <1>1. Shape(q) /\ Known(q) /\ (Untied(q) => q.ticket = 0) /\ q.at = "provision"
    BY Opens DEF Account!Provision, Account!Continue
  <1>2. UNCHANGED <<totp, owners, passkey, device, challenge, provider, flow, sess, sealed, minted, ids, confirmed, raced>>
    BY DEF Account!Provision, Account!passkeys, Account!sessions, Account!hist
  <1>3. CASE Account!Finish(h) /\ UNCHANGED <<status, ident>>
    <2>1. Quiet
      BY <1>3 DEF Account!Provision, Quiet, Account!accounts, Account!sso, Account!hist
    <2> QED BY <1>1, <1>2, <1>3, <2>1, FinishKeeps
  <1>4. CASE /\ provider # "none" /\ status' = [status EXCEPT ![q.u] = IF q.was = "none" THEN "active" ELSE @]
             /\ ident' = [ident EXCEPT ![q.subject] = q.u] /\ Account!Goto(h, [q EXCEPT !.at = "session"])
    <2>1. PICK r : r = [q EXCEPT !.at = "session"]
      OBVIOUS
    <2>2. Shape(r) /\ Account!Goto(h, r) /\ r.at = "session" /\ r.op = q.op /\ r.u = q.u /\ r.ticket = q.ticket /\ r.box = q.box
      BY <1>1, <1>4, <2>1 DEF Shape
    <2>3. q.u \in Users /\ q.subject \in Users /\ q.op # "login" /\ (q.was = "none" \/ status[q.u] # "none")
      BY <1>1 DEF Known, Exists
    <2>4. Grows /\ status'[q.u] # "none"
      BY <1>2, <1>4, <2>3 DEF Grows
    <2>5. Known(r)' /\ Checked(r)'
      BY <2>2, <2>3, <2>4 DEF Known, Checked, Exists
    <2>6. PasskeyRows'
      BY <1>2, <2>4 DEF RowsInv, PasskeyRows, Exists, Grows
    <2>7. IdentRows'
      <3>1. ident' \in [Users -> Users \cup {NoUser}]
        BY <1>4, <2>3 DEF RowsInv, IdentRows
      <3>2. \A u \in Users : ident'[u] = ident[u] \/ ident'[u] = q.u
        BY <1>4 DEF RowsInv, IdentRows
      <3> QED BY <1>2, <1>4, <2>3, <2>4, <3>1, <3>2 DEF RowsInv, IdentRows, Exists, Grows
    <2>8. TicketInv' /\ LoadedInv'
      BY <1>1, <1>2, <2>2, TicketFrame, LoadedFrame DEF Untied
    <2> QED BY <1>1, <1>2, <2>2, <2>4, <2>5, <2>6, <2>7, <2>8, RowFrame
  <1> QED BY <1>3, <1>4 DEF Account!Provision

LEMMA AdminKeeps ==
  ASSUME AccountsInv, NEW h \in Handlers, Account!ProviderChange(h) \/ Account!KeyChange(h)
  PROVE  AccountsInv'
  <1>0. Parts /\ ids \in Nat /\ status \in [Users -> {"none", "active", "suspended"}]
    BY DEF AccountsInv, Parts, RowsInv, AccountTypes
  <1> USE <1>0 DEF Parts
  <1>1. UNCHANGED <<status, totp, owners, passkey, device, challenge, sess, sealed, minted, req, ids, confirmed, raced>>
    BY DEF Account!ProviderChange, Account!KeyChange, Account!accounts, Account!passkeys, Account!sessions, Account!hist
  <1>2. req[h] = Account!Idle
    BY DEF Account!ProviderChange, Account!KeyChange, Account!Start
  <1>3. Account!Goto(h, Account!Idle) /\ req[h].at = "idle" /\ Grows
    BY <1>1, <1>2, StaysIdle DEF Grows
  <1>4. \/ provider' # "none" /\ ident' = ident /\ flow' = flow
        \/ flow' = {} /\ ident' = [u \in Users |-> NoUser]
        \/ UNCHANGED <<provider, ident, flow>>
    BY DEF Account!ProviderChange, Account!KeyChange, Account!sso
  <1>5. PasskeyRows'
    BY <1>1 DEF RowsInv, PasskeyRows, Exists
  <1>6. IdentRows'
    BY <1>1, <1>4 DEF RowsInv, IdentRows, Exists
  <1>7. flow' \subseteq flow
    BY <1>4
  <1>8. TicketInv' /\ LoadedInv'
    BY <1>1, <1>3, <1>7, IdleFields, TicketFrame, LoadedFrame
  <1> QED BY <1>1, <1>3, <1>5, <1>6, <1>8, IdleFields, IdleKnown, RowFrame

\* What happens without a request: statuses change, and challenges, flows and keys expire.
LEMMA WorldKeeps ==
  ASSUME AccountsInv,
         \/ \E u \in Users : Account!SetStatus(u)
         \/ \E c \in challenge : Account!ExpireChallenge(c)
         \/ \E f \in flow : Account!ExpireFlow(f)
         \/ \E k \in Keys : Account!ExpireKey(k)
         \/ UNCHANGED Account!vars
  PROVE  AccountsInv'
  <1>0. Parts /\ ids \in Nat /\ status \in [Users -> {"none", "active", "suspended"}]
    BY DEF AccountsInv, Parts, RowsInv, AccountTypes
  <1> USE <1>0 DEF Parts
  <1>1. UNCHANGED <<totp, owners, passkey, device, provider, ident, sess, sealed, minted, req, ids, confirmed, raced>>
    BY DEF Account!SetStatus, Account!ExpireChallenge, Account!ExpireFlow, Account!ExpireKey, Account!vars, Account!accounts, Account!passkeys, Account!sso, Account!sessions, Account!hist
  <1>2. challenge' \subseteq challenge /\ flow' \subseteq flow
    BY DEF Account!SetStatus, Account!ExpireChallenge, Account!ExpireFlow, Account!ExpireKey, Account!vars, Account!accounts, Account!passkeys, Account!sso
  <1>3. Grows
    <2>1. \/ \E u \in Users : status[u] # "none" /\ \E s \in {"active", "suspended"} : status' = [status EXCEPT ![u] = s]
          \/ status' = status
      BY DEF Account!SetStatus, Account!ExpireChallenge, Account!ExpireFlow, Account!ExpireKey, Account!vars, Account!accounts
    <2> QED BY <1>1, <2>1 DEF Grows
  <1>4. AccountTypes' /\ PasskeyRows' /\ IdentRows' /\ SessionRows'
    BY <1>1, <1>3, TablesFrame
  <1>5. Table' /\ Requests'
    <2>1. \A h \in Handlers : Known(req[h])'
      BY <1>1, <1>3 DEF RowsInv, Requests, Known, Exists, Grows
    <2> QED BY <1>1, <2>1 DEF Table, Requests, Shape
  <1>6. FounderInv' /\ FactorInv' /\ SealedInv' /\ LoadedInv'
    BY <1>1, <1>3 DEF FounderInv, FactorInv, Account!CodeAccepted, SealedInv, Account!Live, LoadedInv, Exists, Grows
  <1>7. TicketInv'
    <2>1. Waiting' \subseteq Waiting
      BY <1>2 DEF Waiting
    <2> QED BY <1>1, <1>2, <2>1 DEF TicketInv, Number, Untied
  <1> QED BY <1>4, <1>5, <1>6, <1>7 DEF AccountsInv, RowsInv

--------------------------------------------------------------------------------
LEMMA AccountsInit ==
  ASSUME Account!UsersAssumption, Account!Init
  PROVE  AccountsInv
  <1>1. req = [h \in Handlers |-> Account!Idle] /\ \A h \in Handlers : req[h] = Account!Idle
    BY DEF Account!Init
  <1>2. status \in [Users -> {"none", "active", "suspended"}]
    BY DEF Account!Init
  <1>3. AccountTypes /\ IdentRows
    BY <1>2 DEF Account!Init, AccountTypes, IdentRows, Account!Off
  <1>4. SessionRows
    BY DEF Account!Init, SessionRows, Exists
  <1>5. PasskeyRows
    <2>1. \A p \in Passkeys : passkey[p] = Account!NoKey \/ \E u \in Users : status[u] = "active" /\ passkey[p] = [user |-> u, counter |-> 0, id |-> 0]
      BY DEF Account!Init
    <2>2. Account!NoKey = [user |-> NoUser, counter |-> 0, id |-> 0]
      BY DEF Account!NoKey
    <2>3. ASSUME NEW p \in Passkeys
          PROVE  /\ passkey[p] = [user |-> passkey[p].user, counter |-> passkey[p].counter, id |-> passkey[p].id]
                 /\ passkey[p].counter = 0 /\ passkey[p].id = 0
                 /\ passkey[p] # Account!NoKey => Exists(passkey[p].user)
      <3>1. PICK u : passkey[p] = [user |-> u, counter |-> 0, id |-> 0] /\ (passkey[p] # Account!NoKey => Exists(u))
        BY <2>1, <2>2 DEF Exists
      <3> QED BY <3>1
    <2>4. passkey = [p \in Passkeys |-> passkey[p]] /\ device \in [Passkeys -> Nat] /\ ids = 0
      BY DEF Account!Init
    <2> QED BY <2>3, <2>4 DEF PasskeyRows
  <1>6. Table /\ Requests
    BY <1>1, IdleFields, IdleKnown DEF Table, Requests
  <1>7. FounderInv /\ SealedInv /\ LoadedInv
    BY <1>1, IdleFields DEF Account!Init, FounderInv, SealedInv, LoadedInv
  <1>8. FactorInv
    BY <1>1, IdleFields DEF Account!Init, FactorInv, Account!Off
  <1>9. TicketInv
    BY <1>1, IdleFields DEF Account!Init, TicketInv, Waiting, Number
  <1> QED BY <1>3, <1>4, <1>5, <1>6, <1>7, <1>8, <1>9 DEF AccountsInv, RowsInv

LEMMA AccountsNext ==
  ASSUME AccountsInv, [Account!Next]_(Account!vars)
  PROVE  AccountsInv'
  <1>1. ASSUME NEW h \in Handlers, Account!Step(h) PROVE AccountsInv'
    BY <1>1, LoginKeeps, BootstrapKeeps, ShadowKeeps, CreateSessionKeeps, SessionKeeps, TwoFaReadKeeps, FactorKeeps,
       ChallengeKeeps, RegisterKeeps, PasskeyLoginKeeps, FlowKeeps, LinkKeeps, ProvisionKeeps, AdminKeeps DEF Account!Step
  <1> QED BY <1>1, WorldKeeps DEF Account!Next

LEMMA AccountsSafe ==
  ASSUME AccountsInv
  PROVE  Account!AccountsSound
  <1>1. Account!TypeOK
    BY DEF AccountsInv, RowsInv, AccountTypes, SessionRows, IdentRows, Exists, Account!TypeOK
  <1>2. owners <= 1
    BY DEF AccountsInv, FounderInv
  <1> QED BY <1>1, <1>2 DEF AccountsInv, FactorInv, TicketInv, SealedInv, Account!AccountsSound

\* Which steps end a request that was about to open a session.
LEMMA Ends ==
  ASSUME AccountsInv, [Account!Next]_(Account!vars), NEW h \in Handlers, req[h].at = "session", req'[h].at = "idle"
  PROVE  Account!CreateSession(h) \/ Account!SessionRefused(h)
  <1>1. ASSUME NEW g \in Handlers, Account!Step(g), g # h PROVE FALSE
    <2>1. \E r : req' = [req EXCEPT ![g] = r] \/ req' = req
      BY <1>1 DEF Account!Step, Account!BootstrapCount, Account!BootstrapInsert, Account!LoginRead, Account!LoginVerify, Account!MailboxLogin, Account!ShadowUser, Account!CreateSession,
         Account!StoreCredentials, Account!DeleteSession, Account!PurgeSession, Account!PurgeFails, Account!RemoveBox, Account!SessionRefused, Account!TwoFaRead, Account!SetupTwoFa, Account!EnableTwoFa, Account!DisableTwoFa, Account!RegisterOptions,
         Account!AuthOptions, Account!StoreChallenge, Account!RegisterVerify, Account!RegisterInsert, Account!RemovePasskey, Account!AuthConsume, Account!AuthLoad, Account!AuthCounter,
         Account!BeginLogin, Account!ConsumeFlow, Account!ExchangeCode, Account!CompleteSaml, Account!Link, Account!Provision, Account!ProviderChange, Account!KeyChange, Account!Goto, Account!Finish
    <2> QED BY <1>1, <2>1 DEF AccountsInv, Table
  <1>2. ASSUME Account!Step(h) PROVE Account!CreateSession(h) \/ Account!SessionRefused(h)
    BY <1>2, IdleFields DEF Account!Step, Account!BootstrapCount, Account!BootstrapInsert, Account!LoginRead, Account!LoginVerify, Account!MailboxLogin, Account!ShadowUser,
       Account!StoreCredentials, Account!DeleteSession, Account!PurgeSession, Account!PurgeFails, Account!RemoveBox, Account!TwoFaRead, Account!SetupTwoFa, Account!EnableTwoFa, Account!DisableTwoFa, Account!RegisterOptions,
       Account!AuthOptions, Account!RegisterVerify, Account!RegisterInsert, Account!RemovePasskey, Account!AuthConsume, Account!AuthLoad, Account!AuthCounter,
       Account!BeginLogin, Account!ConsumeFlow, Account!ExchangeCode, Account!CompleteSaml, Account!Link, Account!Provision, Account!ProviderChange, Account!KeyChange, Account!Start, Account!Continue
  <1>3. ASSUME req' = req PROVE FALSE
    BY <1>3
  <1> QED BY <1>1, <1>2, <1>3 DEF Account!Next, Account!SetStatus, Account!ExpireChallenge, Account!ExpireFlow, Account!ExpireKey, Account!vars

LEMMA LinksStay ==
  ASSUME AccountsInv, [Account!Next]_(Account!vars), provider' # "none", NEW u \in Users, ident[u] # NoUser
  PROVE  ident'[u] = ident[u]
  <1>1. ASSUME NEW h \in Handlers, Account!Provision(h) PROVE ident'[u] = ident[u]
    BY <1>1 DEF Account!Provision, Account!LinkFree, AccountsInv, RowsInv, IdentRows
  <1>2. CASE ident' = ident
    BY <1>2
  <1>3. ASSUME NEW h \in Handlers, Account!Step(h), ~Account!Provision(h) PROVE ident' = ident
    BY <1>3 DEF Account!Step, Account!BootstrapCount, Account!BootstrapInsert, Account!LoginRead, Account!LoginVerify, Account!MailboxLogin, Account!ShadowUser, Account!CreateSession,
       Account!StoreCredentials, Account!DeleteSession, Account!PurgeSession, Account!PurgeFails, Account!RemoveBox, Account!SessionRefused, Account!TwoFaRead, Account!SetupTwoFa, Account!EnableTwoFa, Account!DisableTwoFa, Account!RegisterOptions,
       Account!AuthOptions, Account!StoreChallenge, Account!RegisterVerify, Account!RegisterInsert, Account!RemovePasskey, Account!AuthConsume, Account!AuthLoad, Account!AuthCounter,
       Account!BeginLogin, Account!ConsumeFlow, Account!ExchangeCode, Account!CompleteSaml, Account!Link, Account!ProviderChange, Account!KeyChange, Account!sso
  <1> QED BY <1>1, <1>2, <1>3 DEF Account!Next, Account!SetStatus, Account!ExpireChallenge, Account!ExpireFlow, Account!ExpireKey, Account!vars, Account!sso

LEMMA CountersGrow ==
  ASSUME Account!UsersAssumption, AccountsInv, [Account!Next]_(Account!vars), NEW p \in Passkeys, passkey'[p].id = passkey[p].id, passkey'[p] # Account!NoKey
  PROVE  passkey'[p].counter >= passkey[p].counter \/ <<"counter", p>> \in raced
  <1>0. passkey = [x \in Passkeys |-> passkey[x]] /\ passkey[p].counter \in Nat
    BY DEF AccountsInv, RowsInv, PasskeyRows
  <1>1. CASE passkey'[p] = passkey[p]
    BY <1>0, <1>1
  <1>2. ASSUME NEW h \in Handlers, Account!RegisterInsert(h) PROVE passkey'[p] = passkey[p]
    <2>1. PICK i : i = ids + 1 /\ i # passkey[p].id
      BY DEF AccountsInv, RowsInv, AccountTypes, PasskeyRows
    <2>2. PICK row : row = [user |-> req[h].u, counter |-> device[req[h].p], id |-> i]
      OBVIOUS
    <2>3. row.id = i /\ (passkey' = passkey \/ passkey' = [passkey EXCEPT ![req[h].p] = row])
      BY <1>2, <2>1, <2>2 DEF Account!RegisterInsert, Account!Fresh
    <2> QED BY <1>0, <2>1, <2>3
  <1>3. ASSUME NEW h \in Handlers, Account!RemovePasskey(h) PROVE passkey'[p] = passkey[p]
    <2>1. PICK x \in Passkeys : passkey' = [passkey EXCEPT ![x] = Account!NoKey]
      BY <1>3 DEF Account!RemovePasskey
    <2> QED BY <1>0, <2>1
  <1>4. ASSUME NEW h \in Handlers, Account!AuthCounter(h)
        PROVE  passkey'[p].counter >= passkey[p].counter \/ <<"counter", p>> \in raced
    <2> DEFINE q == req[h]
    <2>1. q.at = "counter" /\ q.n \in Nat /\ q.p \in Passkeys
      BY <1>4, Opens DEF Account!AuthCounter, Account!Continue, Known
    <2>2. CASE passkey[q.p] # Account!NoKey /\ passkey[q.p].id = q.row /\ q.p = p
      <3>1. passkey' = [passkey EXCEPT ![p].counter = q.n]
        BY <1>4, <2>2 DEF Account!AuthCounter
      <3>2. passkey[p].counter < q.n \/ <<"counter", p>> \in raced
        BY <2>1, <2>2 DEF AccountsInv, LoadedInv
      <3>3. passkey'[p] = [passkey[p] EXCEPT !.counter = q.n]
        BY <1>0, <3>1
      <3>4. passkey'[p].counter = q.n
        BY <3>3 DEF AccountsInv, RowsInv, PasskeyRows
      <3> QED BY <1>0, <2>1, <3>2, <3>4
    <2>3. CASE ~(passkey[q.p] # Account!NoKey /\ passkey[q.p].id = q.row /\ q.p = p)
      BY <1>0, <1>1, <1>4, <2>3 DEF Account!AuthCounter
    <2> QED BY <2>2, <2>3
  <1>5. ASSUME NEW h \in Handlers, Account!Step(h), ~Account!RegisterInsert(h), ~Account!RemovePasskey(h), ~Account!AuthCounter(h) PROVE passkey' = passkey
    BY <1>5 DEF Account!Step, Account!BootstrapCount, Account!BootstrapInsert, Account!LoginRead, Account!LoginVerify, Account!MailboxLogin, Account!ShadowUser, Account!CreateSession,
       Account!StoreCredentials, Account!DeleteSession, Account!PurgeSession, Account!PurgeFails, Account!RemoveBox, Account!SessionRefused, Account!TwoFaRead, Account!SetupTwoFa, Account!EnableTwoFa, Account!DisableTwoFa, Account!RegisterOptions,
       Account!AuthOptions, Account!StoreChallenge, Account!RegisterVerify, Account!AuthConsume, Account!AuthLoad,
       Account!BeginLogin, Account!ConsumeFlow, Account!ExchangeCode, Account!CompleteSaml, Account!Link, Account!Provision, Account!ProviderChange, Account!KeyChange, Account!passkeys
  <1> QED BY <1>1, <1>2, <1>3, <1>4, <1>5 DEF Account!Next, Account!SetStatus, Account!ExpireChallenge, Account!ExpireFlow, Account!ExpireKey, Account!vars, Account!passkeys

\* The row a login read still decides, or the change is recorded.
LEMMA FactorAsked ==
  ASSUME AccountsInv, [Account!Next]_(Account!vars), NEW h \in Handlers, req[h].at = "session", req[h].op = "login", ~req[h].box,
         req'[h] = Account!Idle, totp[req[h].u].on
  PROVE  Account!CodeAccepted(req[h].code, totp[req[h].u].secret) \/ <<"login", req[h].u>> \in raced'
  <1>1. Account!CreateSession(h)
    BY Ends, IdleFields DEF Account!SessionRefused
  <1>2. totp[req[h].u] # req[h].seen => <<"login", req[h].u>> \in raced'
    BY <1>1 DEF Account!CreateSession, Account!Stale
  <1>3. req[h].seen.on => Account!CodeAccepted(req[h].code, req[h].seen.secret)
    BY DEF AccountsInv, FactorInv
  <1> QED BY <1>2, <1>3

LEMMA AccountsMove ==
  ASSUME Account!UsersAssumption, AccountsInv, [Account!Next]_(Account!vars)
  PROVE  Account!AccountStep
  BY LinksStay, CountersGrow, FactorAsked DEF Account!AccountStep

\* One first owner, confirmed second factors, single-use challenges and flows, and no password kept without its
\* session, whatever the requests, and wherever they are cut by another's write; unless the session ended without
\* a purge (its mailbox removed, the purge failed, the password stored after it).
THEOREM AccountsAreSound == ASSUME Account!UsersAssumption PROVE Account!Spec => []Account!AccountsSound
  <1>1. Account!Init => AccountsInv
    BY AccountsInit
  <1>2. AccountsInv /\ [Account!Next]_(Account!vars) => AccountsInv'
    BY AccountsNext
  <1>3. AccountsInv => Account!AccountsSound
    BY AccountsSafe
  <1> QED BY <1>1, <1>2, <1>3, PTL DEF Account!Spec

\* Links stay, counters go back only if two logins with the passkey overlapped, and the second factor is asked
\* for unless a read went stale.
THEOREM AccountsMoveSafely == ASSUME Account!UsersAssumption PROVE Account!Spec => [][Account!AccountStep]_(Account!vars)
  <1>1. Account!Init => AccountsInv
    BY AccountsInit
  <1>2. AccountsInv /\ [Account!Next]_(Account!vars) => AccountsInv'
    BY AccountsNext
  <1>3. AccountsInv /\ [Account!Next]_(Account!vars) => [Account!AccountStep]_(Account!vars)
    BY AccountsMove
  <1> QED BY <1>1, <1>2, <1>3, PTL DEF Account!Spec

--------------------------------------------------------------------------------
(* SCIM provisioning. *)

ScimAssumed == Scim!RoleAssumption /\ Scim!NamesAssumption /\ Scim!HandlersAssumption

\* The rows and the requests in flight.
ScimPairs == Groups \X Users
ScimRoles == Scim!OrgRole \cup {Scim!NoRole}
ScimPlaces == {"idle", "user", "write", "read", "upsert"}
ScimReqs ==
  [op : {"idle"} \cup Scim!UserOps \cup Scim!GroupOps, at : ScimPlaces, row : BOOLEAN, alone : BOOLEAN,
   user : SUBSET Users, group : SUBSET Groups, sids : SUBSET Users, active : BOOLEAN, name : Names \cup {NoName},
   map : [Names -> ScimRoles], adds : SUBSET ScimPairs, dels : SUBSET ScimPairs, touched : SUBSET Users,
   next : SUBSET Users, nextRole : ScimRoles, roles : UNION {[D -> Scim!OrgRole] : D \in SUBSET Users}]

\* What a request has, by where it is.
ScimPlaced(q) ==
  /\ q \in ScimReqs
  /\ q.at = "idle" => q = Scim!Idle
  /\ q.at = "user" <=> q.op \in Scim!UserOps
  /\ q.at \in {"write"} \cup Scim!Writing => q.op \in Scim!GroupOps
  /\ q.at \notin Scim!Writing => q.adds = {} /\ q.dels = {} /\ q.touched = {} /\ DOMAIN q.roles = {}
  /\ q.at # "upsert" => q.next = {}
  /\ q.at = "upsert" => q.nextRole \in Scim!OrgRole /\ \E s \in q.touched \ DOMAIN q.roles : q.next = {s}
  /\ DOMAIN q.roles \subseteq q.touched
  /\ (q.at \in Scim!Writing /\ q.op # "remove") \/ q.op = "makeGroup" => q.row
  /\ q.op \in {"makeGroup", "rename"} => q.name \in Names
  /\ q.at \in {"write"} \cup Scim!Writing => q.user = {} /\ \E g \in Groups : q.group = {g}

ScimTables ==
  /\ present \subseteq Users /\ gone \subseteq Users /\ unsettled \subseteq Users /\ orphaned \subseteq Users
  /\ active \in [Users -> BOOLEAN]
  /\ userStatus \in [Users -> {"none", "active", "suspended"}]
  /\ role \in [Users -> ScimRoles]
  /\ name \in [Groups -> Names \cup {NoName}]
  /\ groupRoleMap \in GroupRoles
  /\ call \in [Handlers -> ScimReqs]
  /\ \A h \in Handlers : ScimPlaced(call[h])

Exist == members \subseteq {g \in Groups : name[g] # NoName} \X present

\* A request that has its row: the user, or the group, is there; nobody else makes the same group.
RowsThere ==
  \A h \in Handlers :
    /\ call[h].at = "user" /\ call[h].op # "create" /\ call[h].row => call[h].user \subseteq present
    /\ call[h].at \in {"write"} \cup Scim!Writing /\ call[h].op # "makeGroup" /\ call[h].row => \A g \in call[h].group : name[g] # NoName
    /\ call[h].op = "makeGroup" =>
         /\ \A g \in call[h].group : name[g] = NoName
         /\ \A k \in Handlers \ {h} : call[k].op = "makeGroup" => call[h].group \cap call[k].group = {}

\* Two transactions that have written: each knows that it is not alone, they wrote different
\* memberships, and neither deletes the other's group.
Apart ==
  \A h \in Handlers : \A k \in Handlers \ {h} :
    call[h].at \in Scim!Writing /\ call[k].at \in Scim!Writing =>
      /\ ~call[h].alone
      /\ Scim!Rows(h) \cap Scim!Rows(k) = {}
      /\ call[h].row /\ call[k].row /\ call[h].group \cap call[k].group # {} => call[h].op # "deleteGroup"

\* What a transaction wrote: memberships of users that are there and that it will recompute;
\* whose role a commit might change is touched, or unsettled by a request that overlapped.
Wrote(h) ==
  /\ \A m \in call[h].adds : m[1] \in call[h].group /\ m[2] \in call[h].touched /\ m[2] \in present
  /\ call[h].adds # {} => call[h].op \in {"makeGroup", "add", "replace"}
  /\ \A m \in call[h].dels \cap members : m[2] \in call[h].touched
  /\ call[h].op = "deleteGroup" => \A m \in members : m[1] \in call[h].group => m \in call[h].dels
  /\ call[h].op = "rename" => \A m \in members : m[1] \in call[h].group => m[2] \in call[h].touched \cup unsettled
WroteInv == \A h \in Handlers : call[h].at \in Scim!Writing => Wrote(h)

\* The roles a transaction computed alone are those of the groups it sees.
Computed(h, s, r) == Scim!NamesOf(h, s) # {} => r = Scim!ResolveRole(Scim!NamesOf(h, s), call[h].map, DefaultRole)
RolesInv ==
  \A h \in Handlers : call[h].at \in Scim!Writing /\ call[h].alone =>
    /\ \A s \in DOMAIN call[h].roles : Computed(h, s, call[h].roles[s])
    /\ \A s \in call[h].next : Computed(h, s, call[h].nextRole)

AccountInv == Scim!InactiveIsSuspended /\ Scim!DeletedStaysSuspended /\ gone \cap present = {}

ScimInv == ScimTables /\ Exist /\ RowsThere /\ Apart /\ WroteInv /\ RolesInv /\ AccountInv /\ Scim!RoleFollowsGroups

-----------------------------------------------------------------------------
LEMMA IdlePlaced ==
  ASSUME ScimAssumed
  PROVE  ScimPlaced(Scim!Idle) /\ Scim!Idle.op = "idle" /\ Scim!Idle.at = "idle" /\ Scim!Idle.adds = {} /\ Scim!Idle.dels = {}
         /\ Scim!Idle.touched = {} /\ Scim!Idle.next = {} /\ DOMAIN Scim!Idle.roles = {} /\ Scim!Idle.group = {} /\ Scim!Idle.row /\ Scim!Idle.user = {}
  <1>1. [n \in Names |-> Scim!NoRole] \in [Names -> ScimRoles]
    BY DEF ScimRoles
  <1>2. [s \in {} |-> Scim!NoRole] \in UNION {[D -> Scim!OrgRole] : D \in SUBSET Users}
    <2>1. [s \in {} |-> Scim!NoRole] \in [{} -> Scim!OrgRole] /\ {} \in SUBSET Users
      OBVIOUS
    <2> QED BY <2>1
  <1>3. Scim!Idle \in ScimReqs
    BY <1>1, <1>2 DEF Scim!Idle, ScimReqs, ScimPlaces, ScimRoles
  <1>4. Scim!Idle.op = "idle" /\ Scim!Idle.at = "idle" /\ Scim!Idle.adds = {} /\ Scim!Idle.dels = {} /\ Scim!Idle.group = {} /\ Scim!Idle.row
        /\ Scim!Idle.touched = {} /\ Scim!Idle.next = {} /\ DOMAIN Scim!Idle.roles = {} /\ Scim!Idle.user = {}
    BY DEF Scim!Idle
  <1> QED BY <1>3, <1>4 DEF ScimPlaced, Scim!UserOps, Scim!GroupOps, Scim!Writing

LEMMA ResolvedRole ==
  ASSUME ScimAssumed, NEW G, NEW m
  PROVE  Scim!ResolveRole(G, m, DefaultRole) \in Scim!OrgRole
  <1> DEFINE mapped == {m[g] : g \in G} \cap Scim!OrgRole
  <1>1. CASE mapped = {}
    BY <1>1 DEF Scim!ResolveRole, ScimAssumed, Scim!RoleAssumption
  <1>2. CASE mapped # {}
    <2>1. \A r \in mapped : r \in {"owner", "admin", "member", "viewer"}
      BY DEF Scim!OrgRole
    <2>2. \E r \in mapped : \A s \in mapped : Scim!ROLE_RANK[r] >= Scim!ROLE_RANK[s]
      <3> HIDE DEF mapped
      <3>1. CASE "owner" \in mapped
        BY <2>1, <3>1 DEF Scim!ROLE_RANK
      <3>2. CASE "owner" \notin mapped /\ "admin" \in mapped
        BY <2>1, <3>2 DEF Scim!ROLE_RANK
      <3>3. CASE "owner" \notin mapped /\ "admin" \notin mapped /\ "member" \in mapped
        BY <2>1, <3>3 DEF Scim!ROLE_RANK
      <3>4. CASE "owner" \notin mapped /\ "admin" \notin mapped /\ "member" \notin mapped
        BY <1>2, <2>1, <3>4 DEF Scim!ROLE_RANK
      <3> QED BY <3>1, <3>2, <3>3, <3>4
    <2>3. Scim!ResolveRole(G, m, DefaultRole) = CHOOSE r \in mapped : \A s \in mapped : Scim!ROLE_RANK[r] >= Scim!ROLE_RANK[s]
      BY <1>2 DEF Scim!ResolveRole
    <2>4. (CHOOSE r \in mapped : \A s \in mapped : Scim!ROLE_RANK[r] >= Scim!ROLE_RANK[s]) \in mapped
      <3> HIDE DEF mapped
      <3> QED BY <2>2
    <2> QED BY <2>3, <2>4
  <1> QED BY <1>1, <1>2

LEMMA ScimStart ==
  ASSUME ScimAssumed, Scim!Init
  PROVE  ScimInv
  <1>1. \A h \in Handlers : call[h] = Scim!Idle
    BY DEF Scim!Init
  <1>2. ScimTables
    <2>1. active \in [Users -> BOOLEAN] /\ present \subseteq Users /\ gone \subseteq Users /\ unsettled \subseteq Users /\ orphaned \subseteq Users
      BY DEF Scim!Init
    <2>2. role \in [Users -> ScimRoles]
      BY DEF Scim!Init, ScimRoles, ScimAssumed, Scim!RoleAssumption
    <2>3. name \in [Groups -> Names \cup {NoName}] /\ groupRoleMap \in GroupRoles /\ userStatus \in [Users -> {"none", "active", "suspended"}]
      BY DEF Scim!Init
    <2>4. call \in [Handlers -> ScimReqs] /\ \A h \in Handlers : ScimPlaced(call[h])
      BY <1>1, IdlePlaced DEF Scim!Init, ScimPlaced
    <2> QED BY <2>1, <2>2, <2>3, <2>4 DEF ScimTables
  <1>3. Exist
    BY DEF Scim!Init, Exist
  <1>4. RowsThere /\ Apart /\ WroteInv /\ RolesInv
    BY <1>1, IdlePlaced DEF RowsThere, Apart, WroteInv, RolesInv, Scim!Writing
  <1>5. AccountInv
    BY DEF Scim!Init, AccountInv, Scim!InactiveIsSuspended, Scim!DeletedStaysSuspended
  <1>6. Scim!RoleFollowsGroups
    BY DEF Scim!Init, Scim!RoleFollowsGroups, Scim!GroupNames
  <1> QED BY <1>2, <1>3, <1>4, <1>5, <1>6 DEF ScimInv

-----------------------------------------------------------------------------
(* Steps of one request that write no committed row.                       *)

LEMMA SeenSame ==
  ASSUME NEW h \in Handlers, NEW s, name' = name, members' = members, present' = present,
         call'[h].group = call[h].group, call'[h].op = call[h].op, call'[h].name = call[h].name,
         call'[h].adds = call[h].adds, call'[h].dels = call[h].dels
  PROVE  Scim!NamesOf(h, s)' = Scim!NamesOf(h, s)
  BY DEF Scim!NamesOf, Scim!NameSeen

\* The transaction of q is that of p: it recomputes, or has recomputed, one more role.
SameTx(q, p) ==
  /\ p.at \in Scim!Writing
  /\ q.op = p.op /\ q.row = p.row /\ q.alone = p.alone /\ q.group = p.group /\ q.name = p.name /\ q.map = p.map
  /\ q.adds = p.adds /\ q.dels = p.dels /\ q.touched = p.touched

\* The request q of h, which is h's next record, finds its rows.
FindsRows(q, h) ==
  /\ q.at = "user" /\ q.op # "create" /\ q.row => q.user \subseteq present
  /\ q.at = "write" /\ q.op # "makeGroup" /\ q.row => \A g \in q.group : name[g] # NoName
  /\ q.at = "write" /\ q.op = "makeGroup" =>
       /\ \A g \in q.group : name[g] = NoName
       /\ \A k \in Handlers \ {h} : call[k].op = "makeGroup" => q.group \cap call[k].group = {}

LEMMA CalmStep ==
  ASSUME ScimInv, NEW h \in Handlers, NEW q, ScimPlaced(q), call' = [call EXCEPT ![h] = q],
         UNCHANGED <<Scim!users, role, Scim!groups, groupRoleMap, unsettled>>,
         q.at \in Scim!Writing => SameTx(q, call[h]),
         FindsRows(q, h),
         q.at \in Scim!Writing /\ q.alone => /\ \A s \in DOMAIN q.roles : Computed(h, s, q.roles[s])
                                             /\ \A s \in q.next : Computed(h, s, q.nextRole)
  PROVE  ScimInv'
  <1>0. /\ call'[h] = q /\ \A k \in Handlers \ {h} : call'[k] = call[k]
        /\ present' = present /\ active' = active /\ userStatus' = userStatus /\ gone' = gone /\ orphaned' = orphaned
        /\ name' = name /\ members' = members /\ role' = role /\ groupRoleMap' = groupRoleMap /\ unsettled' = unsettled
    BY DEF ScimInv, ScimTables, Scim!users, Scim!groups
  <1>1. ScimTables'
    <2>1. call' \in [Handlers -> ScimReqs] /\ \A k \in Handlers : ScimPlaced(call'[k])
      BY <1>0 DEF ScimInv, ScimTables, ScimPlaced
    <2> QED BY <1>0, <2>1 DEF ScimInv, ScimTables, ScimPlaced, Scim!Idle
  <1>2. Exist'
    BY <1>0 DEF ScimInv, Exist
  <1>3. RowsThere'
    <2>1. ASSUME NEW k \in Handlers, call'[k].at = "user", call'[k].op # "create", call'[k].row PROVE call'[k].user \subseteq present
      BY <1>0, <2>1 DEF ScimInv, RowsThere, FindsRows
    <2>2. ASSUME NEW k \in Handlers, call'[k].at \in {"write"} \cup Scim!Writing, call'[k].op # "makeGroup", call'[k].row
          PROVE  \A g \in call'[k].group : name[g] # NoName
      <3>1. CASE k # h
        BY <1>0, <2>2, <3>1 DEF ScimInv, RowsThere
      <3>2. CASE k = h /\ q.at = "write"
        BY <1>0, <2>2, <3>2 DEF FindsRows
      <3>3. CASE k = h /\ q.at \in Scim!Writing
        BY <1>0, <2>2, <3>3 DEF ScimInv, RowsThere, SameTx
      <3> QED BY <1>0, <2>2, <3>1, <3>2, <3>3
    <2>3. q.op = "makeGroup" => q.at \in {"write"} \cup Scim!Writing
      BY DEF ScimPlaced, ScimReqs, ScimPlaces, Scim!UserOps, Scim!Writing, Scim!Idle
    <2>4. q.op = "makeGroup" => /\ \A g \in q.group : name[g] = NoName
                                /\ \A k \in Handlers \ {h} : call[k].op = "makeGroup" => q.group \cap call[k].group = {}
      <3>1. CASE q.at = "write"
        BY <3>1 DEF FindsRows
      <3>2. CASE q.at \in Scim!Writing
        BY <3>2 DEF SameTx, ScimInv, RowsThere
      <3> QED BY <2>3, <3>1, <3>2
    <2>5. ASSUME NEW k \in Handlers, call'[k].op = "makeGroup"
          PROVE  /\ \A g \in call'[k].group : name[g] = NoName
                 /\ \A j \in Handlers \ {k} : call'[j].op = "makeGroup" => call'[k].group \cap call'[j].group = {}
      <3>1. CASE k = h
        BY <1>0, <2>4, <2>5, <3>1
      <3>2. CASE k # h
        <4>1. \A j \in Handlers \ {k, h} : call'[j].op = "makeGroup" => call'[k].group \cap call'[j].group = {}
          BY <1>0, <2>5, <3>2 DEF ScimInv, RowsThere
        <4>2. call'[h].op = "makeGroup" => call'[k].group \cap call'[h].group = {}
          BY <1>0, <2>4, <2>5, <3>2
        <4>3. \A g \in call'[k].group : name[g] = NoName
          BY <1>0, <2>5, <3>2 DEF ScimInv, RowsThere
        <4> QED BY <4>1, <4>2, <4>3
      <3> QED BY <3>1, <3>2
    <2> QED BY <1>0, <2>1, <2>2, <2>5 DEF RowsThere, Scim!Writing
  <1>4. Apart'
    <2> SUFFICES ASSUME NEW j \in Handlers, NEW k \in Handlers \ {j}, call'[j].at \in Scim!Writing, call'[k].at \in Scim!Writing
                 PROVE  /\ ~call'[j].alone
                        /\ Scim!Rows(j)' \cap Scim!Rows(k)' = {}
                        /\ call'[j].row /\ call'[k].row /\ call'[j].group \cap call'[k].group # {} => call'[j].op # "deleteGroup"
      BY DEF Apart, Scim!Writing
    <2>1. \A i \in {j, k} : /\ call[i].at \in Scim!Writing /\ call'[i].alone = call[i].alone /\ Scim!Rows(i)' = Scim!Rows(i) /\ call'[i].row = call[i].row
                            /\ call'[i].group = call[i].group /\ call'[i].op = call[i].op
      BY <1>0 DEF SameTx, Scim!Rows
    <2> QED BY <2>1 DEF ScimInv, Apart
  <1>5. WroteInv'
    <2> SUFFICES ASSUME NEW k \in Handlers, call'[k].at \in Scim!Writing PROVE Wrote(k)'
      BY DEF WroteInv, Scim!Writing
    <2>1. call[k].at \in Scim!Writing /\ call'[k].op = call[k].op /\ call'[k].group = call[k].group /\ call'[k].adds = call[k].adds
          /\ call'[k].dels = call[k].dels /\ call'[k].touched = call[k].touched
      BY <1>0 DEF SameTx
    <2>2. Wrote(k)
      BY <2>1 DEF ScimInv, WroteInv
    <2> QED BY <1>0, <2>1, <2>2 DEF Wrote
  <1>6. RolesInv'
    <2> SUFFICES ASSUME NEW k \in Handlers, call'[k].at \in Scim!Writing, call'[k].alone
                 PROVE  /\ \A s \in DOMAIN call'[k].roles : Computed(k, s, call[k].roles[s])'
                        /\ \A s \in call'[k].next : Computed(k, s, call[k].nextRole)'
      BY DEF RolesInv, Scim!Writing
    <2>1. call[k].at \in Scim!Writing /\ call'[k].op = call[k].op /\ call'[k].group = call[k].group /\ call'[k].adds = call[k].adds
          /\ call'[k].dels = call[k].dels /\ call'[k].name = call[k].name /\ call'[k].map = call[k].map /\ call'[k].alone = call[k].alone
      BY <1>0 DEF SameTx
    <2>2. \A s : Scim!NamesOf(k, s)' = Scim!NamesOf(k, s)
      BY <1>0, <2>1, SeenSame
    <2>3. /\ \A s \in DOMAIN call'[k].roles : Computed(k, s, call'[k].roles[s])
          /\ \A s \in call'[k].next : Computed(k, s, call'[k].nextRole)
      <3>1. CASE k = h
        BY <1>0, <3>1
      <3>2. CASE k # h
        BY <1>0, <2>1, <3>2 DEF ScimInv, RolesInv
      <3> QED BY <3>1, <3>2
    <2> QED BY <2>1, <2>2, <2>3 DEF Computed
  <1>7. AccountInv'
    BY <1>0 DEF ScimInv, AccountInv, Scim!InactiveIsSuspended, Scim!DeletedStaysSuspended
  <1>8. Scim!RoleFollowsGroups'
    <2>1. \A s : Scim!GroupNames(s)' = Scim!GroupNames(s)
      BY <1>0 DEF Scim!GroupNames
    <2> QED BY <1>0, <2>1 DEF ScimInv, Scim!RoleFollowsGroups
  <1> QED BY <1>1, <1>2, <1>3, <1>4, <1>5, <1>6, <1>7, <1>8 DEF ScimInv

LEMMA Ended ==
  ASSUME ScimAssumed, ScimInv, NEW h \in Handlers, Scim!Finish(h), UNCHANGED <<Scim!users, role, Scim!groups, groupRoleMap, unsettled>>
  PROVE  ScimInv'
  <1>1. ScimPlaced(Scim!Idle) /\ Scim!Idle.at = "idle"
    BY IdlePlaced
  <1>2. FindsRows(Scim!Idle, h) /\ Scim!Idle.at \notin Scim!Writing
    BY <1>1 DEF FindsRows, Scim!Writing
  <1>3. call' = [call EXCEPT ![h] = Scim!Idle]
    BY DEF Scim!Finish
  <1> QED BY <1>1, <1>2, <1>3, CalmStep

LEMMA UserLoads ==
  ASSUME ScimAssumed, ScimInv, NEW h \in Handlers, Scim!UserLoad(h)
  PROVE  ScimInv'
  <1>1. PICK s \in Users, op \in Scim!UserOps \cap Ops, a \in BOOLEAN, sets \in BOOLEAN :
          /\ op = "create" <=> s \notin present
          /\ call' = [call EXCEPT ![h] = [Scim!Idle EXCEPT !.op = op, !.at = "user", !.user = {s},
                       !.active = IF op = "patch" /\ ~sets THEN active[s] ELSE a]]
    BY DEF Scim!UserLoad
  <1>2. PICK b : b = IF op = "patch" /\ ~sets THEN active[s] ELSE a
    OBVIOUS
  <1>3. b \in BOOLEAN
    BY <1>2 DEF ScimInv, ScimTables
  <1>4. PICK q : q = [Scim!Idle EXCEPT !.op = op, !.at = "user", !.user = {s}, !.active = b]
    OBVIOUS
  <1>5. Scim!Idle \in ScimReqs /\ ScimPlaced(Scim!Idle) /\ Scim!Idle.adds = {} /\ Scim!Idle.dels = {} /\ Scim!Idle.touched = {} /\ Scim!Idle.next = {}
        /\ DOMAIN Scim!Idle.roles = {} /\ Scim!Idle.group = {} /\ Scim!Idle.row
    BY IdlePlaced DEF ScimPlaced
  <1>6. q \in ScimReqs /\ q.op = op /\ q.at = "user" /\ q.user = {s} /\ q.adds = {} /\ q.dels = {} /\ q.touched = {} /\ q.next = {}
        /\ DOMAIN q.roles = {} /\ q.group = {} /\ q.row
    BY <1>3, <1>4, <1>5 DEF ScimReqs, ScimPlaces, Scim!UserOps
  <1>7. ScimPlaced(q)
    BY <1>6 DEF ScimPlaced, Scim!UserOps, Scim!Writing
  <1>8. FindsRows(q, h)
    BY <1>1, <1>6 DEF FindsRows
  <1>9. call' = [call EXCEPT ![h] = q] /\ q.at \notin Scim!Writing
    BY <1>1, <1>2, <1>4, <1>6 DEF Scim!Writing
  <1> QED BY <1>7, <1>8, <1>9, CalmStep DEF Scim!UserLoad

LEMMA GroupLoads ==
  ASSUME ScimAssumed, ScimInv, NEW h \in Handlers, Scim!GroupLoad(h)
  PROVE  ScimInv'
  <1>1. PICK g \in Groups, op \in Scim!GroupOps \cap Ops, sids \in SUBSET Users, n \in Names :
          /\ op = "makeGroup" <=> name[g] = NoName
          /\ op = "makeGroup" => \A k \in Handlers : ~(call[k].op = "makeGroup" /\ g \in call[k].group)
          /\ op = "makeGroup" => \A f \in Groups : name[f] # n
          /\ op \in {"rename", "deleteGroup"} => sids = {}
          /\ op \notin {"makeGroup", "rename"} => n = CHOOSE m \in Names : TRUE
          /\ call' = [call EXCEPT ![h] = [Scim!Idle EXCEPT !.op = op, !.at = "write", !.group = {g},
                       !.sids = sids, !.name = n, !.map = groupRoleMap]]
    BY DEF Scim!GroupLoad
  <1>2. groupRoleMap \in [Names -> ScimRoles]
    BY DEF ScimInv, ScimTables, ScimAssumed, Scim!RoleAssumption, ScimRoles
  <1>4. PICK q : q = [Scim!Idle EXCEPT !.op = op, !.at = "write", !.group = {g}, !.sids = sids, !.name = n, !.map = groupRoleMap]
    OBVIOUS
  <1>5. Scim!Idle \in ScimReqs /\ Scim!Idle.adds = {} /\ Scim!Idle.dels = {} /\ Scim!Idle.touched = {} /\ Scim!Idle.next = {}
        /\ DOMAIN Scim!Idle.roles = {} /\ Scim!Idle.row /\ Scim!Idle.user = {}
    BY IdlePlaced DEF ScimPlaced
  <1>6. q \in ScimReqs /\ q.op = op /\ q.at = "write" /\ q.group = {g} /\ q.adds = {} /\ q.dels = {} /\ q.touched = {} /\ q.next = {}
        /\ DOMAIN q.roles = {} /\ q.row /\ q.user = {} /\ q.name = n
    BY <1>2, <1>4, <1>5 DEF ScimReqs, ScimPlaces, Scim!GroupOps
  <1>7. ScimPlaced(q)
    BY <1>6 DEF ScimPlaced, Scim!UserOps, Scim!GroupOps, Scim!Writing
  <1>8. FindsRows(q, h)
    BY <1>1, <1>6 DEF FindsRows
  <1>9. call' = [call EXCEPT ![h] = q] /\ q.at \notin Scim!Writing
    BY <1>1, <1>4, <1>6 DEF Scim!Writing
  <1> QED BY <1>7, <1>8, <1>9, CalmStep DEF Scim!GroupLoad

LEMMA RecomputeReads ==
  ASSUME ScimAssumed, ScimInv, NEW h \in Handlers, Scim!RecomputeRead(h)
  PROVE  ScimInv'
  <1>1. PICK s \in call[h].touched \ DOMAIN call[h].roles :
          call' = [call EXCEPT ![h] = [call[h] EXCEPT !.at = "upsert", !.next = {s},
                    !.nextRole = Scim!ResolveRole(Scim!NamesOf(h, s), call[h].map, DefaultRole)]]
    BY DEF Scim!RecomputeRead
  <1>2. PICK r : r = Scim!ResolveRole(Scim!NamesOf(h, s), call[h].map, DefaultRole)
    OBVIOUS
  <1>3. r \in Scim!OrgRole
    BY <1>2, ResolvedRole
  <1>4. PICK q : q = [call[h] EXCEPT !.at = "upsert", !.next = {s}, !.nextRole = r]
    OBVIOUS
  <1>5. call[h] \in ScimReqs /\ ScimPlaced(call[h]) /\ call[h].at = "read" /\ s \in Users
    BY <1>1 DEF ScimInv, ScimTables, ScimReqs, Scim!RecomputeRead
  <1>6. q \in ScimReqs /\ q.at = "upsert" /\ q.next = {s} /\ q.nextRole = r /\ q.roles = call[h].roles
        /\ q.op = call[h].op /\ q.user = call[h].user /\ q.row = call[h].row /\ q.alone = call[h].alone /\ q.group = call[h].group
        /\ q.name = call[h].name /\ q.map = call[h].map /\ q.adds = call[h].adds /\ q.dels = call[h].dels /\ q.touched = call[h].touched
    BY <1>3, <1>4, <1>5 DEF ScimReqs, ScimPlaces, ScimRoles
  <1>7. ScimPlaced(q)
    BY <1>1, <1>3, <1>5, <1>6 DEF ScimPlaced, Scim!UserOps, Scim!GroupOps, Scim!Writing
  <1>8. FindsRows(q, h) /\ SameTx(q, call[h])
    BY <1>5, <1>6 DEF FindsRows, SameTx, Scim!Writing
  <1>9. q.alone => /\ \A t \in DOMAIN q.roles : Computed(h, t, q.roles[t])
                   /\ \A t \in q.next : Computed(h, t, q.nextRole)
    <2>1. Computed(h, s, r)
      BY <1>2 DEF Computed
    <2>2. call[h].alone => \A t \in DOMAIN call[h].roles : Computed(h, t, call[h].roles[t])
      BY <1>5 DEF ScimInv, RolesInv, Scim!Writing
    <2> QED BY <1>6, <2>1, <2>2
  <1>10. call' = [call EXCEPT ![h] = q]
    BY <1>1, <1>2, <1>4
  <1> QED BY <1>7, <1>8, <1>9, <1>10, CalmStep DEF Scim!RecomputeRead

LEMMA RecomputeUpserts ==
  ASSUME ScimAssumed, ScimInv, NEW h \in Handlers, Scim!RecomputeUpsert(h)
  PROVE  ScimInv'
  <1>1. PICK s \in call[h].next :
          call' = [call EXCEPT ![h] = [call[h] EXCEPT !.at = "read", !.next = {},
                    !.roles = [t \in DOMAIN call[h].roles \cup {s} |-> IF t = s THEN call[h].nextRole ELSE call[h].roles[t]]]]
    BY DEF Scim!RecomputeUpsert
  <1>2. PICK f : f = [t \in DOMAIN call[h].roles \cup {s} |-> IF t = s THEN call[h].nextRole ELSE call[h].roles[t]]
    OBVIOUS
  <1>3. call[h] \in ScimReqs /\ ScimPlaced(call[h]) /\ call[h].at = "upsert"
    BY DEF ScimInv, ScimTables, Scim!RecomputeUpsert
  <1>4. s \in call[h].touched /\ call[h].nextRole \in Scim!OrgRole /\ s \in Users
    BY <1>1, <1>3 DEF ScimPlaced, ScimReqs
  <1>5. f \in UNION {[D -> Scim!OrgRole] : D \in SUBSET Users} /\ DOMAIN f = DOMAIN call[h].roles \cup {s}
    <2>1. PICK D \in SUBSET Users : call[h].roles \in [D -> Scim!OrgRole]
      BY <1>3 DEF ScimReqs
    <2>2. f \in [D \cup {s} -> Scim!OrgRole] /\ D \cup {s} \in SUBSET Users
      BY <1>2, <1>4, <2>1
    <2> QED BY <1>2, <2>2
  <1>6. PICK q : q = [call[h] EXCEPT !.at = "read", !.next = {}, !.roles = f]
    OBVIOUS
  <1>7. q \in ScimReqs /\ q.at = "read" /\ q.next = {} /\ q.roles = f
        /\ q.op = call[h].op /\ q.user = call[h].user /\ q.row = call[h].row /\ q.alone = call[h].alone /\ q.group = call[h].group
        /\ q.name = call[h].name /\ q.map = call[h].map /\ q.adds = call[h].adds /\ q.dels = call[h].dels /\ q.touched = call[h].touched
    BY <1>3, <1>5, <1>6 DEF ScimReqs, ScimPlaces
  <1>8. ScimPlaced(q)
    BY <1>3, <1>4, <1>5, <1>7 DEF ScimPlaced, Scim!UserOps, Scim!GroupOps, Scim!Writing
  <1>9. FindsRows(q, h) /\ SameTx(q, call[h])
    BY <1>3, <1>7 DEF FindsRows, SameTx, Scim!Writing
  <1>10. q.alone => /\ \A t \in DOMAIN q.roles : Computed(h, t, q.roles[t])
                    /\ \A t \in q.next : Computed(h, t, q.nextRole)
    <2>1. call[h].alone => Computed(h, s, call[h].nextRole) /\ \A t \in DOMAIN call[h].roles : Computed(h, t, call[h].roles[t])
      BY <1>1, <1>3 DEF ScimInv, RolesInv, Scim!Writing
    <2>2. f[s] = call[h].nextRole /\ \A t \in DOMAIN call[h].roles : t # s => f[t] = call[h].roles[t]
      BY <1>2
    <2> QED BY <1>5, <1>7, <2>1, <2>2
  <1>11. call' = [call EXCEPT ![h] = q]
    BY <1>1, <1>2, <1>6
  <1> QED BY <1>8, <1>9, <1>10, <1>11, CalmStep DEF Scim!RecomputeUpsert

LEMMA ConfigUpdates ==
  ASSUME ScimAssumed, ScimInv, Scim!UpdateConfig
  PROVE  ScimInv'
  <1>0. /\ call' = call /\ present' = present /\ active' = active /\ userStatus' = userStatus /\ gone' = gone /\ orphaned' = orphaned
        /\ name' = name /\ members' = members /\ role' = role /\ groupRoleMap' \in GroupRoles /\ unsettled' = Users
    BY DEF Scim!UpdateConfig, Scim!users, Scim!groups
  <1>1. ScimTables'
    BY <1>0 DEF ScimInv, ScimTables, ScimPlaced, Scim!Idle
  <1>2. Exist' /\ RowsThere' /\ AccountInv'
    BY <1>0 DEF ScimInv, Exist, RowsThere, AccountInv, Scim!InactiveIsSuspended, Scim!DeletedStaysSuspended, Scim!Writing
  <1>3. Apart'
    BY <1>0 DEF ScimInv, Apart, Scim!Rows, Scim!Writing
  <1>4. WroteInv'
    BY <1>0 DEF ScimInv, WroteInv, Wrote, ScimTables, Scim!Writing
  <1>5. RolesInv'
    <2>1. \A k \in Handlers : \A s : Scim!NamesOf(k, s)' = Scim!NamesOf(k, s)
      BY <1>0, SeenSame
    <2> QED BY <1>0, <2>1 DEF ScimInv, RolesInv, Computed, Scim!Writing
  <1>6. Scim!RoleFollowsGroups'
    BY <1>0 DEF Scim!RoleFollowsGroups, ScimInv, ScimTables
  <1> QED BY <1>1, <1>2, <1>3, <1>4, <1>5, <1>6 DEF ScimInv

-----------------------------------------------------------------------------
(* The writes of a group transaction.                                      *)

LEMMA GroupWrites ==
  ASSUME ScimAssumed, ScimInv, NEW h \in Handlers, Scim!GroupWrite(h)
  PROVE  ScimInv'
  <1>0. /\ present' = present /\ active' = active /\ userStatus' = userStatus /\ gone' = gone /\ orphaned' = orphaned
        /\ name' = name /\ members' = members /\ role' = role /\ groupRoleMap' = groupRoleMap /\ unsettled' = unsettled
        /\ call[h].at = "write" /\ ~Scim!Blocked(h)
        /\ UNCHANGED <<Scim!users, role, Scim!groups, groupRoleMap, unsettled>>
    BY DEF Scim!GroupWrite, Scim!users, Scim!groups
  <1>a. PICK g \in call[h].group :
          LET fail == \/ call[h].op \notin {"makeGroup", "remove"} /\ ~call[h].row
                      \/ call[h].op \in {"makeGroup", "rename"} /\ \E f \in Groups \ {g} : name[f] = call[h].name
          IN  IF fail THEN Scim!Finish(h)
              ELSE call' = [k \in Handlers |->
                     IF k # h THEN [call[k] EXCEPT !.alone = @ /\ call[k].at \notin Scim!Writing]
                     ELSE [call[h] EXCEPT !.at = "read", !.adds = Scim!Adds(h, g), !.dels = Scim!Dels(h, g),
                             !.touched = Scim!Touched(h, g), !.alone = \A j \in Handlers : call[j].at \notin Scim!Writing]]
    BY DEF Scim!GroupWrite
  <1>b. CASE Scim!Finish(h)
    BY <1>0, <1>b, Ended
  <1>c. CASE /\ call[h].op \in {"makeGroup", "remove"} \/ call[h].row
             /\ call' = [k \in Handlers |->
                  IF k # h THEN [call[k] EXCEPT !.alone = @ /\ call[k].at \notin Scim!Writing]
                  ELSE [call[h] EXCEPT !.at = "read", !.adds = Scim!Adds(h, g), !.dels = Scim!Dels(h, g),
                          !.touched = Scim!Touched(h, g), !.alone = \A j \in Handlers : call[j].at \notin Scim!Writing]]
    <2>1. /\ call[h] \in ScimReqs /\ ScimPlaced(call[h]) /\ call[h].group = {g} /\ g \in Groups
          /\ call[h].op \in Scim!GroupOps /\ (call[h].op # "remove" => call[h].row)
          /\ call[h].roles \in UNION {[D -> Scim!OrgRole] : D \in SUBSET Users} /\ DOMAIN call[h].roles = {} /\ call[h].next = {}
      <3>1. call[h] \in ScimReqs /\ ScimPlaced(call[h])
        BY DEF ScimInv, ScimTables
      <3>2. call[h].group = {g} /\ g \in Groups /\ call[h].op \in Scim!GroupOps /\ DOMAIN call[h].roles = {} /\ call[h].next = {}
            /\ (call[h].op = "makeGroup" => call[h].row)
        BY <1>0, <3>1 DEF ScimPlaced, Scim!Writing
      <3>3. call[h].roles \in UNION {[D -> Scim!OrgRole] : D \in SUBSET Users}
        BY <3>1 DEF ScimReqs
      <3> QED BY <1>c, <3>1, <3>2, <3>3
    <2>2. /\ Scim!Adds(h, g) \subseteq {g} \X (call[h].sids \cap present)
          /\ Scim!Adds(h, g) # {} => call[h].op \in {"makeGroup", "add", "replace"}
      BY DEF Scim!Adds
    <2>3. /\ \A m \in Scim!Dels(h, g) : m \in ScimPairs /\ m[1] = g
          /\ \A m \in Scim!Dels(h, g) \cap members : m[2] \in Scim!Touched(h, g)
          /\ call[h].op = "deleteGroup" => Scim!Of(g) \subseteq Scim!Dels(h, g)
          /\ ~call[h].row => Scim!Dels(h, g) = {}
      <3>1. Scim!Of(g) \subseteq ScimPairs /\ (\A m \in Scim!Of(g) : m[1] = g /\ m[2] \in present) /\ members \subseteq ScimPairs
            /\ \A m \in members : m[2] \in present
        BY DEF Scim!Of, ScimInv, Exist, ScimTables, ScimPairs
      <3>2. CASE ~call[h].row
        <4>1. Scim!Dels(h, g) = {}
          BY <3>2 DEF Scim!Dels
        <4> QED BY <2>1, <3>2, <4>1
      <3>3. CASE call[h].row /\ call[h].op = "remove"
        <4>1. Scim!Dels(h, g) = {g} \X call[h].sids /\ Scim!Touched(h, g) = call[h].sids \cap present
          BY <3>3 DEF Scim!Dels, Scim!Touched
        <4> QED BY <2>1, <3>1, <3>3, <4>1 DEF ScimPairs, ScimReqs
      <3>4. CASE call[h].row /\ call[h].op \in {"replace", "deleteGroup"}
        <4>1. Scim!Dels(h, g) \subseteq Scim!Of(g) /\ (call[h].op = "deleteGroup" => Scim!Dels(h, g) = Scim!Of(g))
          BY <3>4 DEF Scim!Dels
        <4>2. Scim!UsersOf(Scim!Of(g)) \subseteq Scim!Touched(h, g)
          BY <3>4 DEF Scim!Touched, Scim!UsersOf
        <4>3. \A m \in Scim!Of(g) : m[2] \in Scim!UsersOf(Scim!Of(g))
          BY DEF Scim!UsersOf
        <4> QED BY <3>1, <3>4, <4>1, <4>2, <4>3
      <3>5. CASE call[h].row /\ call[h].op \notin {"remove", "replace", "deleteGroup"}
        <4>1. Scim!Dels(h, g) = {}
          BY <3>5 DEF Scim!Dels
        <4> QED BY <3>5, <4>1
      <3> QED BY <3>2, <3>3, <3>4, <3>5
    <2>4. /\ Scim!Touched(h, g) \subseteq Users
          /\ \A m \in Scim!Adds(h, g) : m[2] \in Scim!Touched(h, g)
          /\ call[h].op = "rename" => \A m \in members : m[1] = g => m[2] \in Scim!Touched(h, g)
      <3>1. CASE call[h].op \in {"replace", "rename", "deleteGroup"}
        <4>1. Scim!Touched(h, g) = Scim!UsersOf(Scim!Of(g) \cup Scim!Adds(h, g))
          BY <3>1 DEF Scim!Touched
        <4>2. \A m \in Scim!Of(g) \cup Scim!Adds(h, g) : m[2] \in Users
          BY <2>2 DEF Scim!Of, ScimInv, Exist, ScimTables
        <4> QED BY <4>1, <4>2 DEF Scim!UsersOf, Scim!Of
      <3>2. CASE call[h].op \notin {"replace", "rename", "deleteGroup"}
        <4>1. Scim!Touched(h, g) = call[h].sids \cap present
          BY <3>2 DEF Scim!Touched
        <4> QED BY <2>2, <3>2, <4>1 DEF ScimInv, ScimTables
      <3> QED BY <3>1, <3>2
    <2>5. PICK b : b = (\A j \in Handlers : call[j].at \notin Scim!Writing)
      OBVIOUS
    <2>6. PICK q : q = [call[h] EXCEPT !.at = "read", !.adds = Scim!Adds(h, g), !.dels = Scim!Dels(h, g), !.touched = Scim!Touched(h, g), !.alone = b]
      OBVIOUS
    <2>7. /\ q \in ScimReqs /\ q.at = "read" /\ q.adds = Scim!Adds(h, g) /\ q.dels = Scim!Dels(h, g) /\ q.touched = Scim!Touched(h, g)
          /\ q.op = call[h].op /\ q.user = call[h].user /\ q.name = call[h].name /\ q.row = call[h].row /\ q.group = {g} /\ q.alone = b /\ q.roles = call[h].roles /\ q.next = {}
      <3>1. Scim!Adds(h, g) \in SUBSET ScimPairs /\ Scim!Dels(h, g) \in SUBSET ScimPairs /\ Scim!Touched(h, g) \in SUBSET Users /\ b \in BOOLEAN
        BY <2>1, <2>2, <2>3, <2>4, <2>5 DEF ScimInv, ScimTables, ScimPairs
      <3> QED BY <2>1, <2>6, <3>1 DEF ScimReqs, ScimPlaces
    <2>8. call'[h] = q
      BY <1>c, <2>5, <2>6
    <2>9. \A k \in Handlers \ {h} :
            /\ call'[k] \in ScimReqs /\ ScimPlaced(call'[k])
            /\ call'[k].op = call[k].op /\ call'[k].at = call[k].at /\ call'[k].row = call[k].row /\ call'[k].user = call[k].user
            /\ call'[k].group = call[k].group /\ call'[k].adds = call[k].adds /\ call'[k].dels = call[k].dels
            /\ call'[k].touched = call[k].touched
            /\ call'[k].at \in Scim!Writing => ~call'[k].alone
      <3> SUFFICES ASSUME NEW k \in Handlers \ {h}
                   PROVE  /\ call'[k] \in ScimReqs /\ ScimPlaced(call'[k])
                          /\ call'[k].op = call[k].op /\ call'[k].at = call[k].at /\ call'[k].row = call[k].row /\ call'[k].user = call[k].user
                          /\ call'[k].group = call[k].group /\ call'[k].adds = call[k].adds /\ call'[k].dels = call[k].dels
                          /\ call'[k].touched = call[k].touched
                          /\ call'[k].at \in Scim!Writing => ~call'[k].alone
        OBVIOUS
      <3>1. PICK c : c = (call[k].alone /\ call[k].at \notin Scim!Writing)
        OBVIOUS
      <3>2. c \in BOOLEAN /\ (call[k].at \in Scim!Writing => ~c) /\ (call[k].at \notin Scim!Writing => c = call[k].alone)
            /\ call[k] \in ScimReqs /\ ScimPlaced(call[k])
        BY <3>1 DEF ScimInv, ScimTables, ScimReqs
      <3>3. PICK p : p = [call[k] EXCEPT !.alone = c]
        OBVIOUS
      <3>4. call'[k] = p
        BY <1>c, <3>1, <3>3
      <3>5. /\ p \in ScimReqs /\ p.op = call[k].op /\ p.at = call[k].at /\ p.row = call[k].row /\ p.user = call[k].user
            /\ p.group = call[k].group /\ p.adds = call[k].adds /\ p.dels = call[k].dels /\ p.touched = call[k].touched
            /\ p.next = call[k].next /\ p.name = call[k].name /\ p.nextRole = call[k].nextRole /\ p.roles = call[k].roles /\ p.alone = c
        BY <3>2, <3>3 DEF ScimReqs
      <3>6. call[k].at = "idle" => p = call[k]
        BY <3>2, <3>3 DEF ScimReqs, Scim!Writing
      <3>7. ScimPlaced(p)
        BY <3>2, <3>5, <3>6 DEF ScimPlaced
      <3> QED BY <3>2, <3>4, <3>5, <3>7
    <2>10. ASSUME NEW k \in Handlers \ {h}, call[k].at \in Scim!Writing
           PROVE  /\ (Scim!Adds(h, g) \cup Scim!Dels(h, g)) \cap Scim!Rows(k) = {}
                  /\ call[h].row /\ call[k].row /\ g \in call[k].group => "deleteGroup" \notin {call[h].op, call[k].op}
      <3>1. call[h].row => ~Scim!Conflict(h, k)
        BY <1>0, <2>10 DEF Scim!Blocked, Scim!Awaits
      <3>2. CASE call[h].row
        BY <2>1, <3>1, <3>2 DEF Scim!Conflict
      <3>3. CASE ~call[h].row
        <4>1. Scim!Adds(h, g) = {} /\ Scim!Dels(h, g) = {}
          BY <2>1, <2>3, <3>3 DEF Scim!Adds
        <4> QED BY <3>3, <4>1
      <3> QED BY <3>2, <3>3
    <2>11. ScimTables'
      <3>1. ScimPlaced(q)
        BY <1>0, <2>1, <2>7 DEF ScimPlaced, Scim!UserOps, Scim!GroupOps, Scim!Writing
      <3>2. call' \in [Handlers -> ScimReqs] /\ \A k \in Handlers : ScimPlaced(call'[k])
        BY <1>c, <2>7, <2>8, <2>9, <3>1
      <3> QED BY <1>0, <3>2 DEF ScimInv, ScimTables, ScimPlaced, Scim!Idle
    <2>12. RowsThere'
      <3>1. \A k \in Handlers : /\ call'[k].op = call[k].op /\ call'[k].row = call[k].row /\ call'[k].group = call[k].group
                                /\ (call'[k].at = "user" => call[k].at = "user" /\ call'[k].user = call[k].user)
                                /\ (call'[k].at \in {"write"} \cup Scim!Writing => call[k].at \in {"write"} \cup Scim!Writing)
        BY <1>0, <2>1, <2>7, <2>8, <2>9 DEF Scim!Writing
      <3>2. RowsThere
        BY DEF ScimInv
      <3> QED BY <1>0, <3>1, <3>2 DEF RowsThere, Scim!Writing
    <2>13. Apart'
      <3>1. ASSUME NEW k \in Handlers \ {h}, call'[k].at \in Scim!Writing
            PROVE  /\ ~call'[h].alone /\ ~call'[k].alone
                   /\ Scim!Rows(h)' \cap Scim!Rows(k)' = {}
                   /\ call'[h].row /\ call'[k].row /\ call'[h].group \cap call'[k].group # {} => call'[h].op # "deleteGroup" /\ call'[k].op # "deleteGroup"
        <4>1. call[k].at \in Scim!Writing /\ Scim!Rows(k)' = Scim!Rows(k)
          BY <2>9, <3>1 DEF Scim!Rows
        <4>2. ~b
          BY <2>5, <4>1
        <4>3. Scim!Rows(h)' = Scim!Adds(h, g) \cup Scim!Dels(h, g)
          BY <2>7, <2>8 DEF Scim!Rows
        <4> QED BY <2>7, <2>8, <2>9, <2>10, <3>1, <4>1, <4>2, <4>3
      <3>2. ASSUME NEW j \in Handlers \ {h}, NEW k \in Handlers \ {h, j}, call'[j].at \in Scim!Writing, call'[k].at \in Scim!Writing
            PROVE  /\ ~call'[j].alone
                   /\ Scim!Rows(j)' \cap Scim!Rows(k)' = {}
                   /\ call'[j].row /\ call'[k].row /\ call'[j].group \cap call'[k].group # {} => call'[j].op # "deleteGroup"
        <4>1. call[j].at \in Scim!Writing /\ call[k].at \in Scim!Writing /\ Scim!Rows(j)' = Scim!Rows(j) /\ Scim!Rows(k)' = Scim!Rows(k)
          BY <2>9, <3>2 DEF Scim!Rows
        <4> QED BY <2>9, <3>2, <4>1 DEF ScimInv, Apart
      <3> QED BY <3>1, <3>2 DEF Apart, Scim!Writing
    <2>14. WroteInv'
      <3>1. Wrote(h)'
        BY <1>0, <2>2, <2>3, <2>4, <2>7, <2>8 DEF Wrote, Scim!Of
      <3>2. ASSUME NEW k \in Handlers \ {h}, call'[k].at \in Scim!Writing PROVE Wrote(k)'
        <4>1. Wrote(k)
          BY <2>9, <3>2 DEF ScimInv, WroteInv
        <4> QED BY <1>0, <2>9, <4>1 DEF Wrote
      <3> QED BY <3>1, <3>2 DEF WroteInv, Scim!Writing
    <2>15. RolesInv'
      <3>1. DOMAIN call'[h].roles = {} /\ call'[h].next = {}
        BY <2>1, <2>7, <2>8
      <3> QED BY <2>9, <3>1 DEF RolesInv, Scim!Writing
    <2>16. Exist' /\ AccountInv'
      BY <1>0 DEF ScimInv, Exist, AccountInv, Scim!InactiveIsSuspended, Scim!DeletedStaysSuspended
    <2>17. Scim!RoleFollowsGroups'
      <3>1. \A s : Scim!GroupNames(s)' = Scim!GroupNames(s)
        BY <1>0 DEF Scim!GroupNames
      <3> QED BY <1>0, <3>1 DEF ScimInv, Scim!RoleFollowsGroups
    <2> QED BY <2>11, <2>12, <2>13, <2>14, <2>15, <2>16, <2>17 DEF ScimInv
  <1> QED BY <1>a, <1>b, <1>c

-----------------------------------------------------------------------------
(* The transactions of users.                                              *)

\* A request ends after it wrote a user's row or account; nobody was deleted.
LEMMA UserEnds ==
  ASSUME ScimAssumed, ScimInv, NEW h \in Handlers, Scim!Finish(h), UNCHANGED <<name, members, groupRoleMap, unsettled>>,
         present \subseteq present', present' \subseteq Users, active' \in [Users -> BOOLEAN],
         userStatus' \in [Users -> {"none", "active", "suspended"}], role' \in [Users -> ScimRoles],
         \A t \in present : role'[t] = role[t], gone' \subseteq Users, orphaned' \subseteq Users, AccountInv'
  PROVE  ScimInv'
  <1>0. /\ call'[h] = Scim!Idle /\ \A k \in Handlers \ {h} : call'[k] = call[k]
        /\ name' = name /\ members' = members /\ groupRoleMap' = groupRoleMap /\ unsettled' = unsettled
    BY DEF ScimInv, ScimTables, Scim!Finish
  <1>a. ScimPlaced(Scim!Idle) /\ Scim!Idle.op = "idle" /\ Scim!Idle.at = "idle"
    BY IdlePlaced
  <1>1. ScimTables'
    <2>1. call' \in [Handlers -> ScimReqs] /\ \A k \in Handlers : ScimPlaced(call'[k])
      BY <1>0, <1>a DEF ScimInv, ScimTables, ScimPlaced, Scim!Finish
    <2> QED BY <1>0, <2>1 DEF ScimInv, ScimTables, ScimPlaced, Scim!Idle
  <1>2. Exist'
    BY <1>0 DEF ScimInv, Exist
  <1>3. RowsThere'
    BY <1>0, <1>a DEF ScimInv, RowsThere, Scim!Writing
  <1>4. Apart'
    <2>1. \A k \in Handlers \ {h} : Scim!Rows(k)' = Scim!Rows(k)
      BY <1>0 DEF Scim!Rows
    <2> QED BY <1>0, <1>a, <2>1 DEF ScimInv, Apart, Scim!Writing
  <1>5. WroteInv'
    BY <1>0, <1>a DEF ScimInv, WroteInv, Wrote, Scim!Writing
  <1>6. RolesInv'
    <2> SUFFICES ASSUME NEW k \in Handlers, call'[k].at \in Scim!Writing, call'[k].alone
                 PROVE  /\ \A s \in DOMAIN call'[k].roles : Computed(k, s, call[k].roles[s])'
                        /\ \A s \in call'[k].next : Computed(k, s, call[k].nextRole)'
      BY DEF RolesInv, Scim!Writing
    <2>1. k # h /\ call'[k] = call[k]
      BY <1>0, <1>a DEF Scim!Writing
    <2>2. \A f, s : <<f, s>> \in (members \cup call[k].adds) \ call[k].dels => s \in present
      BY <2>1 DEF ScimInv, Exist, WroteInv, Wrote
    <2>3. \A s : Scim!NamesOf(k, s)' = Scim!NamesOf(k, s)
      <3> SUFFICES ASSUME NEW s PROVE Scim!NamesOf(k, s)' = Scim!NamesOf(k, s)
        OBVIOUS
      <3>1. \A f \in Groups : (s \in present' /\ <<f, s>> \in (members \cup call[k].adds) \ call[k].dels)
                              <=> (s \in present /\ <<f, s>> \in (members \cup call[k].adds) \ call[k].dels)
        BY <2>2
      <3>2. {f \in Groups : s \in present' /\ <<f, s>> \in (members \cup call[k].adds) \ call[k].dels}
            = {f \in Groups : s \in present /\ <<f, s>> \in (members \cup call[k].adds) \ call[k].dels}
        BY <3>1
      <3>3. \A g : Scim!NameSeen(k, g)' = Scim!NameSeen(k, g)
        BY <1>0, <2>1 DEF Scim!NameSeen
      <3>4. Scim!NamesOf(k, s)' = {Scim!NameSeen(k, g)' : g \in {f \in Groups : s \in present' /\ <<f, s>> \in (members \cup call[k].adds) \ call[k].dels}}
        BY <1>0, <2>1 DEF Scim!NamesOf
      <3> QED BY <3>2, <3>3, <3>4, ZenonT(60) DEF Scim!NamesOf
    <2>4. /\ \A s \in DOMAIN call[k].roles : Computed(k, s, call[k].roles[s])
          /\ \A s \in call[k].next : Computed(k, s, call[k].nextRole)
      BY <2>1 DEF ScimInv, RolesInv
    <2> QED BY <2>1, <2>3, <2>4 DEF Computed
  <1>7. Scim!RoleFollowsGroups'
    <2>1. \A s : Scim!GroupNames(s)' = Scim!GroupNames(s)
      BY <1>0 DEF Scim!GroupNames
    <2>2. \A s : s \notin present => Scim!GroupNames(s) = {}
      BY DEF Scim!GroupNames, ScimInv, Exist
    <2> QED BY <1>0, <2>1, <2>2 DEF ScimInv, Scim!RoleFollowsGroups
  <1> QED BY <1>1, <1>2, <1>3, <1>4, <1>5, <1>6, <1>7 DEF ScimInv

LEMMA UserCreated ==
  ASSUME ScimAssumed, ScimInv, NEW h \in Handlers, NEW s \in Users, Scim!CreateUser(h, s), UNCHANGED <<name, groupRoleMap, unsettled>>
  PROVE  ScimInv'
  <1>0. call[h].active \in BOOLEAN
    BY DEF ScimInv, ScimTables, ScimReqs
  <1>1. present' = present \cup {s} /\ s \notin present /\ gone' = gone \ {s} /\ orphaned' \subseteq orphaned
        /\ orphaned \ {s} \subseteq orphaned' /\ (call[h].active \/ s \notin orphaned')
    BY DEF Scim!CreateUser
  <1>2. active' \in [Users -> BOOLEAN] /\ active'[s] = call[h].active /\ \A t \in Users \ {s} : active'[t] = active[t]
    BY <1>0 DEF Scim!CreateUser, ScimInv, ScimTables
  <1>3. userStatus' \in [Users -> {"none", "active", "suspended"}] /\ \A t \in Users \ {s} : userStatus'[t] = userStatus[t]
    BY DEF Scim!CreateUser, ScimInv, ScimTables
  <1>4. ~call[h].active => userStatus'[s] = "suspended"
    BY DEF Scim!CreateUser, ScimInv, ScimTables
  <1>5. role' \in [Users -> ScimRoles] /\ \A t \in Users \ {s} : role'[t] = role[t]
    BY DEF Scim!CreateUser, ScimInv, ScimTables, ScimRoles, ScimAssumed, Scim!RoleAssumption
  <1>6. AccountInv'
    <2>1. Scim!InactiveIsSuspended'
      BY <1>0, <1>1, <1>2, <1>3, <1>4 DEF Scim!InactiveIsSuspended, ScimInv, AccountInv, ScimTables
    <2>2. Scim!DeletedStaysSuspended'
      BY <1>1, <1>3 DEF Scim!DeletedStaysSuspended, ScimInv, AccountInv, ScimTables
    <2>3. gone' \cap present' = {}
      BY <1>1 DEF ScimInv, AccountInv
    <2> QED BY <2>1, <2>2, <2>3 DEF AccountInv
  <1>7. Scim!Finish(h) /\ UNCHANGED members
    BY DEF Scim!CreateUser
  <1> QED BY <1>1, <1>2, <1>3, <1>5, <1>6, <1>7, UserEnds DEF ScimInv, ScimTables

LEMMA UserPatched ==
  ASSUME ScimAssumed, ScimInv, NEW h \in Handlers, NEW s \in Users, s \in call[h].user, call[h].at = "user",
         Scim!PatchUser(h, s), UNCHANGED <<name, groupRoleMap, unsettled>>
  PROVE  ScimInv'
  <1>0. call[h].active \in BOOLEAN /\ call[h].row \in BOOLEAN
    BY DEF ScimInv, ScimTables, ScimReqs
  <1>1. present' = present /\ role' = role /\ gone' = gone /\ members' = members /\ Scim!Finish(h) /\ call[h].op = "patch"
    BY DEF Scim!PatchUser
  <1>2. userStatus' \in [Users -> {"none", "active", "suspended"}] /\ (\A t \in Users \ {s} : userStatus'[t] = userStatus[t])
        /\ (~call[h].active => userStatus'[s] = "suspended")
    BY <1>0 DEF Scim!PatchUser, ScimInv, ScimTables
  <1>3. CASE call[h].row
    <2>1. active' \in [Users -> BOOLEAN] /\ active'[s] = call[h].active /\ (\A t \in Users \ {s} : active'[t] = active[t])
          /\ orphaned' = orphaned \ {s}
      BY <1>0, <1>3 DEF Scim!PatchUser, ScimInv, ScimTables
    <2>2. s \in present
      BY <1>1, <1>3 DEF ScimInv, RowsThere
    <2>3. AccountInv'
      <3>1. Scim!InactiveIsSuspended'
        BY <1>0, <1>1, <1>2, <2>1 DEF Scim!InactiveIsSuspended, ScimInv, AccountInv, ScimTables
      <3>2. Scim!DeletedStaysSuspended'
        BY <1>1, <1>2, <2>1, <2>2 DEF Scim!DeletedStaysSuspended, ScimInv, AccountInv, ScimTables
      <3> QED BY <1>1, <3>1, <3>2 DEF AccountInv, ScimInv
    <2> QED BY <1>1, <1>2, <2>1, <2>3, UserEnds DEF ScimInv, ScimTables
  <1>4. CASE ~call[h].row
    <2>1. active' = active /\ orphaned' = orphaned \cup {s}
      BY <1>0, <1>4 DEF Scim!PatchUser
    <2>2. AccountInv'
      BY <1>1, <1>2, <2>1 DEF Scim!InactiveIsSuspended, Scim!DeletedStaysSuspended, ScimInv, AccountInv, ScimTables
    <2> QED BY <1>1, <1>2, <2>1, <2>2, UserEnds DEF ScimInv, ScimTables
  <1> QED BY <1>0, <1>3, <1>4

-----------------------------------------------------------------------------
(* Deletions: requests that hold the id of a deleted row lose it.          *)

\* What a deletion of users S and groups G leaves of the other requests.
Orphans(h, S, G) ==
  \A k \in Handlers \ {h} :
    /\ call'[k].op = call[k].op /\ call'[k].at = call[k].at /\ call'[k].user = call[k].user /\ call'[k].group = call[k].group
    /\ call'[k].row => call[k].row
    /\ call[k].at \in Scim!Writing => call'[k] = call[k]
    /\ call'[k].row /\ call'[k].at \in {"user", "write"} /\ call'[k].op # "create" =>
         call'[k].user \cap S = {} /\ (call'[k].group \cap G = {} \/ call'[k].op = "makeGroup")

LEMMA Deleted ==
  ASSUME ScimAssumed, ScimTables, NEW h \in Handlers, NEW S \in SUBSET Users, NEW G \in SUBSET Groups, Scim!FinishDeleting(h, S, G)
  PROVE  /\ call' \in [Handlers -> ScimReqs] /\ \A k \in Handlers : ScimPlaced(call'[k])
         /\ call'[h] = Scim!Idle
         /\ Orphans(h, S, G)
  <1>1. ScimPlaced(Scim!Idle) /\ Scim!Idle \in ScimReqs
    BY IdlePlaced DEF ScimPlaced
  <1>2. ASSUME NEW k \in Handlers \ {h}
        PROVE  /\ ScimPlaced(call'[k])
               /\ call'[k].op = call[k].op /\ call'[k].at = call[k].at /\ call'[k].user = call[k].user /\ call'[k].group = call[k].group
               /\ call'[k].row => call[k].row
               /\ call[k].at \in Scim!Writing => call'[k] = call[k]
               /\ call'[k].row /\ call'[k].at \in {"user", "write"} /\ call'[k].op # "create" =>
                    call'[k].user \cap S = {} /\ (call'[k].group \cap G = {} \/ call'[k].op = "makeGroup")
    <2>0. ScimPlaced(call[k]) /\ call[k] \in ScimReqs
      BY DEF ScimTables
    <2>1. CASE call[k].at \notin {"user", "write"} \/ call[k].op = "create"
      <3>1. call'[k] = call[k]
        BY <2>1 DEF Scim!FinishDeleting
      <3> QED BY <2>0, <2>1, <3>1
    <2>2. CASE call[k].at \in {"user", "write"} /\ call[k].op # "create"
      <3>1. PICK c : c = (call[k].row /\ call[k].user \cap S = {} /\ (call[k].group \cap G = {} \/ call[k].op = "makeGroup"))
        OBVIOUS
      <3>2. PICK p : p = [call[k] EXCEPT !.row = c, !.sids = call[k].sids \ S]
        OBVIOUS
      <3>3. call'[k] = p
        BY <2>2, <3>1, <3>2 DEF Scim!FinishDeleting
      <3>4. c \in BOOLEAN /\ call[k].sids \ S \in SUBSET Users
        BY <2>0, <3>1 DEF ScimReqs
      <3>5. /\ p \in ScimReqs /\ p.op = call[k].op /\ p.at = call[k].at /\ p.user = call[k].user /\ p.group = call[k].group
            /\ p.adds = call[k].adds /\ p.dels = call[k].dels /\ p.touched = call[k].touched /\ p.roles = call[k].roles
            /\ p.next = call[k].next /\ p.name = call[k].name /\ p.nextRole = call[k].nextRole /\ p.row = c
        BY <2>0, <3>2, <3>4 DEF ScimReqs
      <3>6. call[k].op = "makeGroup" => c
        BY <2>0, <2>2, <3>1 DEF ScimPlaced, Scim!UserOps
      <3>7. ScimPlaced(p)
        BY <2>0, <2>2, <3>5, <3>6 DEF ScimPlaced, Scim!Writing
      <3>8. call[k].at \notin Scim!Writing
        BY <2>2 DEF Scim!Writing
      <3> QED BY <2>2, <3>1, <3>3, <3>4, <3>5, <3>7, <3>8
    <2> QED BY <2>1, <2>2
  <1>3. call'[h] = Scim!Idle
    BY DEF Scim!FinishDeleting
  <1>4. \A k \in Handlers : ScimPlaced(call'[k])
    BY <1>1, <1>2, <1>3
  <1>5. call' \in [Handlers -> ScimReqs]
    <2>1. \A k \in Handlers : call'[k] \in ScimReqs
      BY <1>4 DEF ScimPlaced
    <2>2. call' = [k \in Handlers |-> call'[k]]
      BY DEF Scim!FinishDeleting
    <2> QED BY <2>1, <2>2
  <1>6. Orphans(h, S, G)
    BY <1>2 DEF Orphans
  <1> QED BY <1>3, <1>4, <1>5, <1>6

LEMMA UserDeleted ==
  ASSUME ScimAssumed, ScimInv, NEW h \in Handlers, NEW s \in Users, s \in call[h].user, call[h].at = "user", ~Scim!Blocked(h),
         Scim!DeleteUser(h, s), UNCHANGED <<name, groupRoleMap, unsettled>>
  PROVE  ScimInv'
  <1>0. call[h].row \in BOOLEAN /\ Deactivate \in BOOLEAN /\ active' = active /\ role' = role /\ call[h].op = "delete"
    BY DEF ScimInv, ScimTables, ScimReqs, Scim!DeleteUser, ScimAssumed, Scim!RoleAssumption
  <1>1. userStatus' \in [Users -> {"none", "active", "suspended"}] /\ (\A t \in Users \ {s} : userStatus'[t] = userStatus[t])
        /\ (Deactivate => userStatus'[s] = "suspended") /\ (~Deactivate => userStatus' = userStatus)
    BY <1>0 DEF Scim!DeleteUser, ScimInv, ScimTables
  <1>2. CASE ~call[h].row
    <2>1. Scim!Finish(h) /\ present' = present /\ members' = members /\ gone' = gone /\ orphaned' = orphaned
      BY <1>0, <1>2 DEF Scim!DeleteUser
    <2>2. AccountInv'
      <3>1. Scim!InactiveIsSuspended'
        BY <1>0, <1>1, <2>1 DEF Scim!InactiveIsSuspended, ScimInv, AccountInv, ScimTables
      <3>2. Scim!DeletedStaysSuspended'
        BY <1>0, <1>1, <2>1 DEF Scim!DeletedStaysSuspended, ScimInv, AccountInv, ScimTables
      <3> QED BY <2>1, <3>1, <3>2 DEF AccountInv, ScimInv
    <2> QED BY <1>0, <1>1, <2>1, <2>2, UserEnds DEF ScimInv, ScimTables
  <1>3. CASE call[h].row
    <2>1. /\ present' = present \ {s} /\ members' = {m \in members : m[2] # s} /\ gone' = gone \cup {s} /\ orphaned' = orphaned \ {s}
          /\ Scim!FinishDeleting(h, {s}, {}) /\ name' = name /\ groupRoleMap' = groupRoleMap /\ unsettled' = unsettled
      BY <1>0, <1>3 DEF Scim!DeleteUser
    <2>2. ScimTables
      BY DEF ScimInv
    <2>a. /\ call' \in [Handlers -> ScimReqs] /\ \A k \in Handlers : ScimPlaced(call'[k])
          /\ call'[h] = Scim!Idle /\ Scim!Idle.at = "idle" /\ Scim!Idle.op = "idle"
      <3>1. Scim!Idle.at = "idle" /\ Scim!Idle.op = "idle"
        BY IdlePlaced
      <3>2. {s} \in SUBSET Users /\ {} \in SUBSET Groups
        OBVIOUS
      <3>3. call' \in [Handlers -> ScimReqs]
        BY <2>1, <2>2, <3>2, Deleted
      <3>4. \A k \in Handlers : ScimPlaced(call'[k])
        BY <2>1, <2>2, <3>2, Deleted
      <3>5. call'[h] = Scim!Idle
        BY <2>1, <2>2, <3>2, Deleted
      <3> QED BY <3>1, <3>3, <3>4, <3>5
    <2>b. \A k \in Handlers \ {h} :
              /\ call'[k].op = call[k].op /\ call'[k].at = call[k].at /\ call'[k].user = call[k].user /\ call'[k].group = call[k].group
              /\ call'[k].row => call[k].row
              /\ call[k].at \in Scim!Writing => call'[k] = call[k]
              /\ call'[k].row /\ call'[k].at \in {"user", "write"} /\ call'[k].op # "create" => call'[k].user \cap {s} = {}
      <3>1. {s} \in SUBSET Users /\ {} \in SUBSET Groups
        BY <2>2
      <3>2. Orphans(h, {s}, {})
        BY <2>1, <2>2, <3>1, Deleted
      <3> QED BY <3>2 DEF Orphans
    <2>c. \A k \in Handlers \ {h} : call[k].at \in Scim!Writing => \A m \in Scim!Rows(k) : m[2] # s
      BY <1>0, <1>3 DEF Scim!Blocked, Scim!Awaits
    <2>3. ScimTables'
      BY <1>0, <1>1, <2>1, <2>2, <2>a DEF ScimTables, ScimPlaced, Scim!Idle
    <2>4. Exist'
      BY <2>1 DEF ScimInv, Exist
    <2>5. RowsThere'
      <3>1. ASSUME NEW k \in Handlers \ {h}, call'[k].at = "user", call'[k].op # "create", call'[k].row PROVE call'[k].user \subseteq present'
        <4>1. call[k].user \subseteq present
          BY <2>b, <3>1 DEF ScimInv, RowsThere
        <4> QED BY <2>1, <2>b, <3>1, <4>1
      <3>2. ASSUME NEW k \in Handlers \ {h}, call'[k].at \in {"write"} \cup Scim!Writing, call'[k].op # "makeGroup", call'[k].row
            PROVE  \A g \in call'[k].group : name[g] # NoName
        BY <2>b, <3>2 DEF ScimInv, RowsThere
      <3>3. ASSUME NEW k \in Handlers \ {h}, call'[k].op = "makeGroup"
            PROVE  /\ \A g \in call'[k].group : name[g] = NoName
                   /\ \A j \in Handlers \ {k} : call'[j].op = "makeGroup" => call'[k].group \cap call'[j].group = {}
        <4>1. \A j \in Handlers \ {k} : call'[j].op = "makeGroup" => j # h
          BY <2>a
        <4> QED BY <2>b, <3>3, <4>1 DEF ScimInv, RowsThere
      <3> QED BY <2>1, <2>a, <3>1, <3>2, <3>3 DEF RowsThere, Scim!Writing
    <2>6. \A k \in Handlers : call'[k].at \in Scim!Writing => k # h /\ call[k].at \in Scim!Writing /\ call'[k] = call[k]
      BY <2>a, <2>b DEF Scim!Writing
    <2>7. Apart'
      <3>1. \A k \in Handlers : call'[k].at \in Scim!Writing => Scim!Rows(k)' = Scim!Rows(k)
        BY <2>6 DEF Scim!Rows
      <3> SUFFICES ASSUME NEW j \in Handlers, NEW k \in Handlers \ {j}, call'[j].at \in Scim!Writing, call'[k].at \in Scim!Writing
                   PROVE  /\ ~call'[j].alone
                          /\ Scim!Rows(j)' \cap Scim!Rows(k)' = {}
                          /\ call'[j].row /\ call'[k].row /\ call'[j].group \cap call'[k].group # {} => call'[j].op # "deleteGroup"
        BY DEF Apart, Scim!Writing
      <3> QED BY <2>6, <3>1 DEF ScimInv, Apart
    <2>8. WroteInv'
      <3> SUFFICES ASSUME NEW k \in Handlers, call'[k].at \in Scim!Writing PROVE Wrote(k)'
        BY DEF WroteInv, Scim!Writing
      <3>1. Wrote(k) /\ call'[k] = call[k] /\ \A m \in call[k].adds : m[2] # s
        BY <2>6, <2>c DEF ScimInv, WroteInv, Scim!Rows
      <3> QED BY <2>1, <3>1 DEF Wrote
    <2>9. RolesInv'
      <3> SUFFICES ASSUME NEW k \in Handlers, call'[k].at \in Scim!Writing, call'[k].alone
                   PROVE  /\ \A t \in DOMAIN call'[k].roles : Computed(k, t, call[k].roles[t])'
                          /\ \A t \in call'[k].next : Computed(k, t, call[k].nextRole)'
        BY DEF RolesInv, Scim!Writing
      <3>1. call'[k] = call[k] /\ call[k].at \in Scim!Writing
        BY <2>6
      <3>2. \A t : t # s => Scim!NamesOf(k, t)' = Scim!NamesOf(k, t)
        <4> SUFFICES ASSUME NEW t, t # s PROVE Scim!NamesOf(k, t)' = Scim!NamesOf(k, t)
          OBVIOUS
        <4>1. \A f \in Groups : (t \in present' /\ <<f, t>> \in (members' \cup call[k].adds) \ call[k].dels)
                                <=> (t \in present /\ <<f, t>> \in (members \cup call[k].adds) \ call[k].dels)
          BY <2>1
        <4>2. {f \in Groups : t \in present' /\ <<f, t>> \in (members' \cup call[k].adds) \ call[k].dels}
              = {f \in Groups : t \in present /\ <<f, t>> \in (members \cup call[k].adds) \ call[k].dels}
          BY <4>1
        <4>3. \A g : Scim!NameSeen(k, g)' = Scim!NameSeen(k, g)
          BY <2>1, <3>1 DEF Scim!NameSeen
        <4>4. Scim!NamesOf(k, t)' = {Scim!NameSeen(k, g)' : g \in {f \in Groups : t \in present' /\ <<f, t>> \in (members' \cup call[k].adds) \ call[k].dels}}
          BY <3>1 DEF Scim!NamesOf
        <4> QED BY <4>2, <4>3, <4>4 DEF Scim!NamesOf
      <3>3. Scim!NamesOf(k, s)' = {}
        BY <2>1 DEF Scim!NamesOf
      <3>4. /\ \A t \in DOMAIN call[k].roles : Computed(k, t, call[k].roles[t])
            /\ \A t \in call[k].next : Computed(k, t, call[k].nextRole)
        BY <3>1 DEF ScimInv, RolesInv
      <3> QED BY <3>1, <3>2, <3>3, <3>4 DEF Computed
    <2>10. AccountInv'
      <3>1. Scim!InactiveIsSuspended'
        BY <1>0, <1>1, <2>1 DEF Scim!InactiveIsSuspended, ScimInv, AccountInv, ScimTables
      <3>2. Scim!DeletedStaysSuspended'
        BY <1>0, <1>1, <2>1 DEF Scim!DeletedStaysSuspended, ScimInv, AccountInv, ScimTables
      <3>3. gone' \cap present' = {}
        BY <2>1 DEF ScimInv, AccountInv
      <3> QED BY <3>1, <3>2, <3>3 DEF AccountInv
    <2>11. Scim!RoleFollowsGroups'
      <3>1. ASSUME NEW t, t # s PROVE Scim!GroupNames(t)' = Scim!GroupNames(t)
        <4>1. \A f \in Groups : <<f, t>> \in members' <=> <<f, t>> \in members
          BY <2>1, <3>1
        <4>2. {f \in Groups : <<f, t>> \in members'} = {f \in Groups : <<f, t>> \in members}
          BY <4>1
        <4>3. Scim!GroupNames(t)' = {name[g] : g \in {f \in Groups : <<f, t>> \in members'}}
          BY <2>1 DEF Scim!GroupNames
        <4> QED BY <4>2, <4>3 DEF Scim!GroupNames
      <3> QED BY <1>0, <2>1, <3>1 DEF ScimInv, Scim!RoleFollowsGroups
    <2> QED BY <2>3, <2>4, <2>5, <2>7, <2>8, <2>9, <2>10, <2>11 DEF ScimInv
  <1> QED BY <1>0, <1>2, <1>3

-----------------------------------------------------------------------------
(* The commit of a group transaction.                                      *)

LEMMA GroupCommits ==
  ASSUME ScimAssumed, ScimInv, NEW h \in Handlers, Scim!GroupCommit(h)
  PROVE  ScimInv'
  <1>0. /\ present' = present /\ active' = active /\ userStatus' = userStatus /\ gone' = gone /\ orphaned' = orphaned /\ groupRoleMap' = groupRoleMap
        /\ call[h].at = "read" /\ call[h].at \in Scim!Writing /\ call[h].touched = DOMAIN call[h].roles
        /\ members' = (members \cup call[h].adds) \ call[h].dels
        /\ unsettled' = IF call[h].alone /\ call[h].map = groupRoleMap THEN unsettled \ call[h].touched
                        ELSE unsettled \cup call[h].touched
    BY DEF Scim!GroupCommit, Scim!users, Scim!Writing
  <1>1. /\ ScimTables /\ call[h] \in ScimReqs /\ ScimPlaced(call[h]) /\ Wrote(h) /\ Exist /\ RowsThere
        /\ call[h].row \in BOOLEAN /\ call[h].alone \in BOOLEAN /\ call[h].touched \subseteq Users
    BY <1>0 DEF ScimInv, ScimTables, WroteInv, ScimReqs
  <1>2. /\ call[h].op # "remove" => call[h].row
        /\ call[h].op \in {"makeGroup", "rename"} => call[h].name \in Names /\ call[h].name # NoName
        /\ call[h].adds # {} => call[h].row
    BY <1>0, <1>1 DEF ScimPlaced, ScimAssumed, Scim!NamesAssumption, Wrote
  <1>3. \A g \in Groups : name'[g] = IF g \notin call[h].group \/ ~call[h].row THEN name[g]
                                     ELSE IF call[h].op = "deleteGroup" THEN NoName ELSE Scim!NameSeen(h, g)
    BY DEF Scim!GroupCommit
  <1>4. \A g \in Groups :
          /\ g \notin call[h].group \/ ~call[h].row \/ call[h].op \notin {"makeGroup", "rename", "deleteGroup"} => name'[g] = name[g]
          /\ name[g] # NoName /\ ~(g \in call[h].group /\ call[h].row /\ call[h].op = "deleteGroup") => name'[g] # NoName
          /\ g \in call[h].group /\ call[h].row /\ call[h].op \in {"makeGroup", "rename"} => name'[g] # NoName
          /\ call[h].op # "deleteGroup" => name'[g] = Scim!NameSeen(h, g)
    BY <1>2, <1>3 DEF Scim!NameSeen
  <1>5. PICK G \in SUBSET Groups : G = IF call[h].op = "deleteGroup" THEN call[h].group ELSE {}
    BY <1>1 DEF ScimReqs
  <1>6. Scim!FinishDeleting(h, {}, G)
    BY <1>5 DEF Scim!GroupCommit
  <1>7. /\ call' \in [Handlers -> ScimReqs]
        /\ \A k \in Handlers : ScimPlaced(call'[k])
        /\ call'[h] = Scim!Idle
    <2>1. {} \in SUBSET Users
      OBVIOUS
    <2>2. call' \in [Handlers -> ScimReqs]
      BY <1>1, <1>6, <2>1, Deleted
    <2>3. \A k \in Handlers : ScimPlaced(call'[k])
      BY <1>1, <1>6, <2>1, Deleted
    <2>4. call'[h] = Scim!Idle
      BY <1>1, <1>6, <2>1, Deleted
    <2> QED BY <2>2, <2>3, <2>4
  <1>8. \A k \in Handlers \ {h} :
          /\ call'[k].op = call[k].op /\ call'[k].at = call[k].at /\ call'[k].user = call[k].user /\ call'[k].group = call[k].group
          /\ call'[k].row => call[k].row
          /\ call[k].at \in Scim!Writing => call'[k] = call[k]
          /\ call'[k].row /\ call'[k].at \in {"user", "write"} /\ call'[k].op # "create" =>
               call'[k].group \cap G = {} \/ call'[k].op = "makeGroup"
    <2>1. {} \in SUBSET Users
      OBVIOUS
    <2>2. Orphans(h, {}, G)
      BY <1>1, <1>6, <2>1, Deleted
    <2> QED BY <2>2 DEF Orphans
  <1>9. Scim!Idle.at = "idle" /\ Scim!Idle.op = "idle"
    BY IdlePlaced
  <1>10. \A k \in Handlers : call'[k].at \in Scim!Writing => k # h /\ call[k].at \in Scim!Writing /\ call'[k] = call[k]
    BY <1>7, <1>8, <1>9 DEF Scim!Writing
  <1>11. \A k \in Handlers \ {h} : call[k].at \in Scim!Writing =>
           /\ ~call[h].alone /\ ~call[k].alone /\ Scim!Rows(h) \cap Scim!Rows(k) = {}
           /\ call[h].row /\ call[k].row /\ call[h].group \cap call[k].group # {} => call[h].op # "deleteGroup" /\ call[k].op # "deleteGroup"
    BY <1>0 DEF ScimInv, Apart
  <1>12. ScimTables'
    <2>1. role' \in [Users -> ScimRoles]
      <3>1. PICK D \in SUBSET Users : call[h].roles \in [D -> Scim!OrgRole]
        BY <1>1 DEF ScimReqs
      <3>2. role' = [s \in Users |-> IF s \in DOMAIN call[h].roles THEN call[h].roles[s] ELSE role[s]]
        BY DEF Scim!GroupCommit
      <3> QED BY <1>1, <3>1, <3>2 DEF ScimTables, ScimRoles
    <2>2. name' \in [Groups -> Names \cup {NoName}]
      <3>1. \A g \in Groups : Scim!NameSeen(h, g) \in Names \cup {NoName}
        BY <1>1 DEF Scim!NameSeen, ScimTables, ScimReqs
      <3>2. \A g \in Groups : name'[g] \in Names \cup {NoName}
        BY <1>1, <1>3, <3>1 DEF ScimTables
      <3>3. name' = [g \in Groups |-> name'[g]]
        BY DEF Scim!GroupCommit
      <3> QED BY <3>2, <3>3
    <2>3. unsettled' \subseteq Users
      BY <1>0, <1>1 DEF ScimTables
    <2> QED BY <1>0, <1>1, <1>7, <2>1, <2>2, <2>3 DEF ScimTables, ScimPlaced, Scim!Idle
  <1>13. Exist'
    <2> SUFFICES ASSUME NEW m \in members' PROVE m \in {g \in Groups : name'[g] # NoName} \X present
      BY <1>0 DEF Exist
    <2>1. m \in Groups \X Users /\ m[2] \in present /\ (m \in members => name[m[1]] # NoName)
      BY <1>0, <1>1 DEF Exist, Wrote, ScimReqs, ScimPairs, ScimTables
    <2>2. ~(m[1] \in call[h].group /\ call[h].op = "deleteGroup")
      BY <1>0, <1>1 DEF Wrote
    <2>3. name'[m[1]] # NoName
      <3>1. CASE m \in members
        BY <1>4, <2>1, <2>2, <3>1
      <3>2. CASE m \in call[h].adds
        <4>1. m[1] \in call[h].group /\ call[h].row /\ call[h].op \in {"makeGroup", "add", "replace"}
          BY <1>1, <1>2, <3>2 DEF Wrote
        <4>2. call[h].op # "makeGroup" => name[m[1]] # NoName
          BY <1>0, <1>1, <4>1 DEF RowsThere
        <4> QED BY <1>4, <2>1, <4>1, <4>2
      <3> QED BY <1>0, <3>1, <3>2
    <2> QED BY <2>1, <2>3
  <1>14. RowsThere'
    <2>1. ASSUME NEW k \in Handlers \ {h}, call'[k].at = "user", call'[k].op # "create", call'[k].row PROVE call'[k].user \subseteq present
      BY <1>1, <1>8, <2>1 DEF RowsThere
    <2>2. ASSUME NEW k \in Handlers \ {h}, call'[k].at \in {"write"} \cup Scim!Writing, call'[k].op # "makeGroup", call'[k].row,
                 NEW g \in call'[k].group
          PROVE  name'[g] # NoName
      <3>1. name[g] # NoName /\ g \in Groups
        BY <1>1, <1>7, <1>8, <2>2 DEF RowsThere, ScimReqs
      <3>2. ~(g \in call[h].group /\ call[h].row /\ call[h].op = "deleteGroup")
        <4>1. CASE call'[k].at = "write"
          <5>1. call'[k].op # "create"
            BY <1>7, <4>1 DEF ScimPlaced, Scim!GroupOps
          <5> QED BY <1>5, <1>8, <2>2, <4>1, <5>1
        <4>2. CASE call'[k].at \in Scim!Writing
          BY <1>8, <1>10, <1>11, <2>2, <4>2
        <4> QED BY <2>2, <4>1, <4>2
      <3> QED BY <1>4, <3>1, <3>2
    <2>3. ASSUME NEW k \in Handlers \ {h}, call'[k].op = "makeGroup"
          PROVE  /\ \A g \in call'[k].group : name'[g] = NoName
                 /\ \A j \in Handlers \ {k} : call'[j].op = "makeGroup" => call'[k].group \cap call'[j].group = {}
      <3>1. ASSUME NEW g \in call'[k].group PROVE name'[g] = NoName
        <4>1. name[g] = NoName /\ g \in Groups
          BY <1>1, <1>7, <1>8, <2>3, <3>1 DEF RowsThere, ScimReqs
        <4>2. g \notin call[h].group \/ ~call[h].row
          BY <1>0, <1>1, <1>8, <2>3, <3>1, <4>1 DEF RowsThere
        <4> QED BY <1>4, <4>1, <4>2
      <3>2. \A j \in Handlers \ {k} : call'[j].op = "makeGroup" => j # h
        BY <1>7, <1>9
      <3>3. \A j \in Handlers \ {k} : call'[j].op = "makeGroup" => call'[k].group \cap call'[j].group = {}
        BY <1>1, <1>8, <2>3, <3>2 DEF RowsThere
      <3> QED BY <3>1, <3>3
    <2> QED BY <1>0, <1>7, <1>9, <2>1, <2>2, <2>3 DEF RowsThere, Scim!Writing
  <1>15. Apart'
    <2>1. \A k \in Handlers : call'[k].at \in Scim!Writing => Scim!Rows(k)' = Scim!Rows(k)
      BY <1>10 DEF Scim!Rows
    <2> SUFFICES ASSUME NEW j \in Handlers, NEW k \in Handlers \ {j}, call'[j].at \in Scim!Writing, call'[k].at \in Scim!Writing
                 PROVE  /\ ~call'[j].alone
                        /\ Scim!Rows(j)' \cap Scim!Rows(k)' = {}
                        /\ call'[j].row /\ call'[k].row /\ call'[j].group \cap call'[k].group # {} => call'[j].op # "deleteGroup"
      BY DEF Apart, Scim!Writing
    <2> QED BY <1>10, <2>1 DEF ScimInv, Apart
  <1>16. WroteInv'
    <2> SUFFICES ASSUME NEW k \in Handlers, call'[k].at \in Scim!Writing PROVE Wrote(k)'
      BY DEF WroteInv, Scim!Writing
    <2>1. k # h /\ call[k].at \in Scim!Writing /\ call'[k] = call[k] /\ Wrote(k) /\ ~call[h].alone /\ Scim!Rows(h) \cap Scim!Rows(k) = {}
      BY <1>10, <1>11 DEF ScimInv, WroteInv
    <2>2. unsettled' = unsettled \cup call[h].touched
      BY <1>0, <2>1
    <2>3. \A m \in members' : m \in members \/ (m \in call[h].adds /\ m[1] \in call[h].group /\ m[2] \in call[h].touched /\ call[h].row)
      BY <1>0, <1>1, <1>2 DEF Wrote
    <2>4. \A m \in call[k].dels \cap members' : m \in members
      BY <2>1, <2>3 DEF Scim!Rows
    <2>5. call[k].op = "deleteGroup" => \A m \in members' : m[1] \in call[k].group => m \in call[k].dels
      <3>1. call[k].op = "deleteGroup" => call[k].row
        BY <1>1, <2>1 DEF ScimTables, ScimPlaced
      <3> QED BY <1>11, <2>1, <2>3, <3>1 DEF Wrote
    <2>6. call[k].op = "rename" => \A m \in members' : m[1] \in call[k].group => m[2] \in call[k].touched \cup unsettled'
      BY <2>1, <2>2, <2>3 DEF Wrote
    <2> QED BY <1>0, <2>1, <2>4, <2>5, <2>6 DEF Wrote
  <1>17. RolesInv'
    BY <1>10, <1>11 DEF RolesInv, Scim!Writing
  <1>18. AccountInv'
    BY <1>0 DEF ScimInv, AccountInv, Scim!InactiveIsSuspended, Scim!DeletedStaysSuspended
  <1>19. Scim!RoleFollowsGroups'
    <2> SUFFICES ASSUME NEW s \in present, s \notin unsettled', Scim!GroupNames(s)' # {}
                 PROVE  role'[s] = Scim!ResolveRole(Scim!GroupNames(s)', groupRoleMap, DefaultRole)
      BY <1>0 DEF Scim!RoleFollowsGroups
    <2>0. s \in Users /\ role'[s] = IF s \in call[h].touched THEN call[h].roles[s] ELSE role[s]
      BY <1>0, <1>1 DEF Scim!GroupCommit, ScimTables
    <2>1. CASE s \in call[h].touched
      <3>1. call[h].alone /\ call[h].map = groupRoleMap
        BY <1>0, <2>1
      <3>2. \A f \in Groups : <<f, s>> \in members' <=> (s \in present /\ <<f, s>> \in (members \cup call[h].adds) \ call[h].dels)
        BY <1>0
      <3>3. {f \in Groups : <<f, s>> \in members'} = {f \in Groups : s \in present /\ <<f, s>> \in (members \cup call[h].adds) \ call[h].dels}
        BY <3>2
      <3>4. \A f \in Groups : <<f, s>> \in members' => name'[f] = Scim!NameSeen(h, f)
        <4>1. \A f \in Groups : <<f, s>> \in members' => ~(f \in call[h].group /\ call[h].op = "deleteGroup")
          BY <1>0, <1>1 DEF Wrote
        <4>2. \A f \in Groups : f \notin call[h].group => name'[f] = Scim!NameSeen(h, f)
          BY <1>3 DEF Scim!NameSeen
        <4> QED BY <1>4, <4>1, <4>2
      <3>5. Scim!GroupNames(s)' = Scim!NamesOf(h, s)
        BY <3>3, <3>4 DEF Scim!GroupNames, Scim!NamesOf
      <3>6. Computed(h, s, call[h].roles[s])
        BY <1>0, <2>1, <3>1 DEF ScimInv, RolesInv
      <3> QED BY <2>0, <2>1, <3>1, <3>5, <3>6 DEF Computed
    <2>2. CASE s \notin call[h].touched
      <3>1. s \notin unsettled
        BY <1>0, <2>2
      <3>2. \A f \in Groups : <<f, s>> \in members' <=> <<f, s>> \in members
        <4>1. \A f : <<f, s>> \notin call[h].adds /\ ~(<<f, s>> \in call[h].dels /\ <<f, s>> \in members)
          BY <1>1, <2>2 DEF Wrote
        <4> QED BY <1>0, <4>1
      <3>3. {f \in Groups : <<f, s>> \in members'} = {f \in Groups : <<f, s>> \in members}
        BY <3>2
      <3>4. ASSUME NEW f \in Groups, <<f, s>> \in members PROVE name'[f] = name[f]
        <4>1. name[f] # NoName
          BY <1>1, <3>4 DEF Exist
        <4>2. f \in call[h].group => call[h].op \notin {"makeGroup", "rename", "deleteGroup"}
          <5>1. f \in call[h].group => call[h].op # "makeGroup"
            BY <1>1, <4>1 DEF RowsThere
          <5>2. f \in call[h].group => call[h].op # "rename"
            BY <1>1, <2>2, <3>1, <3>4 DEF Wrote
          <5>3. f \in call[h].group => call[h].op # "deleteGroup"
            BY <1>1, <2>2, <3>4 DEF Wrote
          <5> QED BY <5>1, <5>2, <5>3
        <4> QED BY <1>4, <4>2
      <3>5. Scim!GroupNames(s)' = Scim!GroupNames(s)
        BY <3>3, <3>4 DEF Scim!GroupNames
      <3> QED BY <2>0, <2>2, <3>1, <3>5 DEF ScimInv, Scim!RoleFollowsGroups
    <2> QED BY <2>1, <2>2
  <1> QED BY <1>12, <1>13, <1>14, <1>15, <1>16, <1>17, <1>18, <1>19 DEF ScimInv

-----------------------------------------------------------------------------
(* Nobody waits for ever.                                                  *)

LEMMA LeastOf ==
  ASSUME NEW U, U \subseteq Nat, U # {}
  PROVE  \E i \in U : \A j \in U : i <= j
  <1>1. PICK i \in U : \A j \in U : ~(<<j, i>> \in OpToRel(<, Nat))
    BY NatLessThanWellFounded, WFMin, Zenon
  <1>2. \A j \in U : ~(j < i)
    BY <1>1 DEF OpToRel
  <1> QED BY <1>2

\* With each of its requests M has whomever that one waits for.
ClosedSet(M) == M # {} /\ M \subseteq Handlers /\ \A j \in M : \A k \in Handlers : Scim!Awaits(j, k) => k \in M

\* Where each request of a set waits for another of it, some request waits for itself: one of a
\* smallest set closed under waiting.
LEMMA SomeCircle ==
  ASSUME Scim!HandlersAssumption, NEW W, ClosedSet(W), \A j \in W : \E k \in Handlers : Scim!Awaits(j, k)
  PROVE  \E j \in W : Scim!Circle(j)
  <1> DEFINE U == {Cardinality(M) : M \in {N \in SUBSET W : ClosedSet(N)}}
  <1>1. \A M \in SUBSET W : IsFiniteSet(M) /\ Cardinality(M) \in Nat
    <2>1. IsFiniteSet(W)
      BY FS_Subset DEF Scim!HandlersAssumption, ClosedSet, Scim!IsFiniteSet, IsFiniteSet
    <2> QED BY <2>1, FS_Subset, FS_CardinalityType
  <1>2. U \subseteq Nat /\ U # {}
    <2>1. W \in {N \in SUBSET W : ClosedSet(N)}
      OBVIOUS
    <2> QED BY <1>1, <2>1
  <1>3. PICK n \in U : \A j \in U : n <= j
    <2> HIDE DEF U
    <2> QED BY <1>2, LeastOf
  <1>4. PICK M \in SUBSET W : ClosedSet(M) /\ Cardinality(M) = n
    BY <1>3
  <1>5. PICK h \in M : TRUE
    BY <1>4 DEF ClosedSet
  <1>6. SUFFICES ASSUME NEW S \in SUBSET Handlers, \A j \in S \cup {h} : \A k \in Handlers : Scim!Awaits(j, k) => k \in S
                 PROVE  h \in S
    BY <1>4, <1>5 DEF Scim!Circle
  <1>7. ClosedSet(M \cap S)
    <2>1. PICK k \in Handlers : Scim!Awaits(h, k)
      BY <1>5
    <2>2. k \in M \cap S
      BY <1>4, <1>5, <1>6, <2>1 DEF ClosedSet
    <2>3. \A j \in M \cap S : \A i \in Handlers : Scim!Awaits(j, i) => i \in M \cap S
      BY <1>4, <1>6 DEF ClosedSet
    <2> QED BY <2>2, <2>3 DEF ClosedSet
  <1>8. n <= Cardinality(M \cap S)
    <2>1. M \cap S \in {N \in SUBSET W : ClosedSet(N)}
      BY <1>7
    <2>2. Cardinality(M \cap S) \in U
      BY <2>1
    <2> QED BY <1>3, <2>2
  <1>9. M \cap S = M
    <2>1. IsFiniteSet(M) /\ M \cap S \subseteq M /\ Cardinality(M) \in Nat /\ Cardinality(M \cap S) \in Nat
      BY <1>1
    <2>2. Cardinality(M \cap S) <= Cardinality(M) /\ (Cardinality(M) = Cardinality(M \cap S) => M = M \cap S)
      BY <2>1, FS_Subset
    <2>3. Cardinality(M) = Cardinality(M \cap S)
      BY <1>4, <1>8, <2>1, <2>2
    <2> QED BY <2>2, <2>3
  <1> QED BY <1>5, <1>9

LEMMA ScimProceeds ==
  ASSUME ScimAssumed, ScimInv
  PROVE  Scim!SomeoneProceeds
  <1> SUFFICES ASSUME NEW a \in Handlers, call[a] # Scim!Idle, \A h \in Handlers : call[h] # Scim!Idle => Scim!Blocked(h)
               PROVE  \E h \in Handlers : call[h] # Scim!Idle /\ call[h].at = "upsert" /\ Scim!Circle(h)
    BY DEF Scim!SomeoneProceeds
  <1> DEFINE W == {h \in Handlers : call[h].at \in Scim!Writing}
  <1>1. \A h, k \in Handlers : Scim!Awaits(h, k) => k \in W
    BY DEF Scim!Awaits
  <1>2. \A h \in W : call[h] # Scim!Idle /\ Scim!Blocked(h)
    BY IdlePlaced DEF Scim!Writing
  <1>3. \A h \in W : call[h].at = "upsert" /\ \E k \in Handlers : Scim!Awaits(h, k)
    BY <1>2 DEF Scim!Blocked, Scim!Awaits, Scim!Writing
  <1>4. W # {}
    BY <1>1 DEF Scim!Blocked
  <1>5. ClosedSet(W)
    BY <1>1, <1>4 DEF ClosedSet
  <1>6. \E h \in W : Scim!Circle(h)
    <2> HIDE DEF W
    <2> QED BY <1>3, <1>5, SomeCircle DEF ScimAssumed
  <1> QED BY <1>2, <1>3, <1>6

-----------------------------------------------------------------------------
LEMMA ScimStep ==
  ASSUME ScimAssumed, ScimInv, [Scim!Next]_(Scim!vars)
  PROVE  ScimInv'
  <1>1. CASE Scim!UpdateConfig
    BY <1>1, ConfigUpdates
  <1>2. ASSUME NEW h \in Handlers, Scim!UserCommit(h) PROVE ScimInv'
    <2>1. PICK s \in call[h].user : \/ Scim!CreateUser(h, s)
                                    \/ call[h].op = "create" /\ s \in present /\ Scim!Finish(h) /\ UNCHANGED <<Scim!users, role, members>>
                                    \/ Scim!PatchUser(h, s)
                                    \/ Scim!DeleteUser(h, s)
      BY <1>2 DEF Scim!UserCommit
    <2>2. call[h].at = "user" /\ ~Scim!Blocked(h) /\ UNCHANGED <<name, groupRoleMap, unsettled>> /\ s \in Users
      BY <1>2 DEF Scim!UserCommit, ScimInv, ScimTables, ScimReqs
    <2>3. CASE Scim!Finish(h) /\ UNCHANGED <<Scim!users, role, members>>
      BY <2>2, <2>3, Ended DEF Scim!groups
    <2> QED BY <2>1, <2>2, <2>3, UserCreated, UserPatched, UserDeleted
  <1>3. ASSUME NEW h \in Handlers, Scim!Deadlock(h) PROVE ScimInv'
    BY <1>3, Ended DEF Scim!Deadlock
  <1>4. ASSUME NEW h \in Handlers, Scim!UserLoad(h) \/ Scim!GroupLoad(h) \/ Scim!Proceed(h) PROVE ScimInv'
    BY <1>2, <1>3, <1>4, UserLoads, GroupLoads, GroupWrites, RecomputeReads, RecomputeUpserts, GroupCommits DEF Scim!Proceed
  <1>5. CASE UNCHANGED Scim!vars
    <2>1. \A k \in Handlers : Scim!Rows(k)' = Scim!Rows(k)
      BY <1>5 DEF Scim!vars, Scim!Rows
    <2>2. \A k \in Handlers : \A s : Scim!NamesOf(k, s)' = Scim!NamesOf(k, s)
      BY <1>5, SeenSame DEF Scim!vars
    <2>3. \A s : Scim!GroupNames(s)' = Scim!GroupNames(s)
      BY <1>5 DEF Scim!vars, Scim!GroupNames
    <2>4. ScimTables' /\ Exist' /\ RowsThere' /\ AccountInv'
      BY <1>5 DEF Scim!vars, ScimInv, ScimTables, ScimPlaced, Scim!Idle, Exist, RowsThere, AccountInv, Scim!InactiveIsSuspended, Scim!DeletedStaysSuspended, Scim!Writing
    <2>5. Apart'
      BY <1>5, <2>1 DEF Scim!vars, ScimInv, Apart, Scim!Writing
    <2>6. WroteInv'
      BY <1>5 DEF Scim!vars, ScimInv, WroteInv, Wrote, Scim!Writing
    <2>7. RolesInv'
      BY <1>5, <2>2 DEF Scim!vars, ScimInv, RolesInv, Computed, Scim!Writing
    <2>8. Scim!RoleFollowsGroups'
      BY <1>5, <2>3 DEF Scim!vars, ScimInv, Scim!RoleFollowsGroups
    <2> QED BY <2>4, <2>5, <2>6, <2>7, <2>8 DEF ScimInv
  <1> QED BY <1>1, <1>4, <1>5 DEF Scim!Next

LEMMA ScimSafe ==
  ASSUME ScimAssumed, ScimInv
  PROVE  Scim!TypeOK /\ Scim!DeprovisionedIsSuspended /\ Scim!RoleFollowsGroups /\ Scim!SomeoneProceeds
  <1>1. Scim!TypeOK
    BY DEF ScimInv, ScimTables, Exist, Scim!TypeOK, ScimRoles
  <1> QED BY <1>1, ScimProceeds DEF ScimInv, AccountInv, Scim!DeprovisionedIsSuspended

\* SCIM provisioning, for any users, groups, names, role maps and requests in flight: memberships join
\* rows that exist, whoever was deactivated or deleted is suspended unless a patch lost its row, a role
\* is what the user's groups resolve to once a request nobody overlapped has computed it, and requests
\* that all wait do so in a circle that PostgreSQL breaks.
THEOREM ProvisioningIsSound ==
  ASSUME ScimAssumed
  PROVE  Scim!Spec => [](Scim!TypeOK /\ Scim!DeprovisionedIsSuspended /\ Scim!RoleFollowsGroups /\ Scim!SomeoneProceeds)
  <1>1. Scim!Init => ScimInv
    BY ScimStart
  <1>2. ScimInv /\ [Scim!Next]_(Scim!vars) => ScimInv'
    BY ScimStep
  <1>3. ScimInv => Scim!TypeOK /\ Scim!DeprovisionedIsSuspended /\ Scim!RoleFollowsGroups /\ Scim!SomeoneProceeds
    BY ScimSafe
  <1> QED BY <1>1, <1>2, <1>3, PTL DEF Scim!Spec
================================================================================
