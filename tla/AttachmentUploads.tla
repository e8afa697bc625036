-------------------------- MODULE AttachmentUploads --------------------------
(***************************************************************************)
(* Resumable attachment uploads: the browser's upload loop (startUpload),  *)
(* the API's handlers appendChunk and finaliseUpload, the uploads and      *)
(* attachments tables and the object store behind them.                    *)
(*                                                                         *)
(* A file is a sequence of chunks of the same size, sizes and offsets      *)
(* count chunks.  Each await of a handler is a step; a handler whose       *)
(* client lost the connection runs on.  An object is named by its body,    *)
(* as attachments/<sha256> is.                                             *)
(***************************************************************************)
EXTENDS Naturals, Sequences, FiniteSets

CONSTANTS
  Uploads,      \* upload ids, one per run of the browser's loop
  File,         \* File[u]: the file that upload u sends
  Size,         \* chunks of a file
  Handlers,     \* request handlers the API can run at a time
  UPLOAD_MAX_RETRIES,
  MaxLost,      \* bound on connections lost by the browser
  MaxFaults,    \* bound on API crashes and failed storage reads
  NoUpload

\* Assumed of the constants, by the module that gives them values.
SizeAssumption == Size \in Nat \ {0} /\ UPLOAD_MAX_RETRIES \in Nat \ {0}
HandlersAssumption ==
  /\ IsFiniteSet(Handlers) /\ NoUpload \notin Uploads
  /\ Handlers \cap {"new", "send", "finalise", "resync", "done", "error"} = {}

Chunk(u, i) == <<File[u], i>>
Body(u) == [i \in 1 .. Size |-> Chunk(u, i)]

VARIABLES
  upload,      \* the uploads row: "absent", "open", "deleted"
  offset,      \* offset_bytes, and uploaded_bytes, which always equals it
  staged,      \* the object uploads/<id>; <<>> when there is none
  stored,      \* bodies present under attachments/<hash>
  attachment,  \* bodies with a row in attachments
  client,      \* the browser's loop for each upload
  handler,     \* the API's handlers
  lost, faults

vars == <<upload, offset, staged, stored, attachment, client, handler, lost, faults>>
rows == <<upload, offset, attachment>>
objects == <<staged, stored>>

\* A handler: which request it serves, for which upload, with which bytes in
\* memory, and where it is.
Free == [at |-> "free", u |-> NoUpload, offset |-> 0, chunk |-> <<>>, body |-> <<>>]
Waiting == [at |-> "new", offset |-> 0, start |-> 0, tries |-> 0, got |-> <<>>]

Init ==
  /\ upload = [u \in Uploads |-> "absent"]
  /\ offset = [u \in Uploads |-> 0]
  /\ staged = [u \in Uploads |-> <<>>]
  /\ stored = {}
  /\ attachment = {}
  /\ client = [u \in Uploads |-> Waiting]
  /\ handler = [h \in Handlers |-> Free]
  /\ lost = 0
  /\ faults = 0
-----------------------------------------------------------------------------
(* The browser.                                                            *)

Client(u, c) == client' = [client EXCEPT ![u] = c]

\* POST /uploads: createUpload inserts the row.
CreateUpload(u) ==
  /\ client[u].at = "new"
  /\ upload' = [upload EXCEPT ![u] = "open"]
  /\ Client(u, [client[u] EXCEPT !.at = "send"])
  /\ UNCHANGED <<offset, attachment, objects, handler, lost, faults>>

\* POST /chunks with the slice that begins at start, and the current offset.
SendChunk(u) ==
  /\ client[u].at = "send"
  /\ \E h \in Handlers :
       /\ handler[h] = Free
       /\ handler' = [handler EXCEPT ![h] =
            [at |-> "chunk", u |-> u, offset |-> client[u].offset,
             chunk |-> Chunk(u, client[u].start + 1), body |-> <<>>]]
       /\ Client(u, [client[u] EXCEPT !.at = h])
  /\ UNCHANGED <<rows, objects, lost, faults>>

SendFinalise(u) ==
  /\ client[u].at = "finalise"
  /\ \E h \in Handlers :
       /\ handler[h] = Free
       /\ handler' = [handler EXCEPT ![h] = [Free EXCEPT !.at = "finalise", !.u = u]]
       /\ Client(u, [client[u] EXCEPT !.at = h])
  /\ UNCHANGED <<rows, objects, lost, faults>>

\* Faulty variant: the local offset is not moved to the one the server returned.
AdvanceStuck(u, o) ==
  [client[u] EXCEPT !.at = IF o < Size THEN "send" ELSE "finalise", !.tries = 0]

\* Where the loop goes once the server's offset is o and the chunk is sent.
Advance(u, o) ==
  [client[u] EXCEPT !.at = IF o < Size THEN "send" ELSE "finalise",
                    !.offset = o, !.start = o, !.tries = 0]

\* Faulty variant: one attempt too many.
AfterFailureLate(u) ==
  IF client[u].start >= Size \/ client[u].tries + 1 > UPLOAD_MAX_RETRIES
    THEN [client[u] EXCEPT !.at = "error"]
    ELSE [client[u] EXCEPT !.at = "resync", !.tries = @ + 1]

\* A failed chunk request is retried after a resync; a failed finalise is not.
AfterFailure(u) ==
  IF client[u].start >= Size \/ client[u].tries + 1 >= UPLOAD_MAX_RETRIES
    THEN [client[u] EXCEPT !.at = "error"]
    ELSE [client[u] EXCEPT !.at = "resync", !.tries = @ + 1]

\* The answer of the handler arrives.
Answer(u) ==
  \E h \in Handlers :
    /\ client[u].at = h
    /\ \/ handler[h].at = "appended" /\ Client(u, Advance(u, handler[h].offset))
       \/ /\ handler[h].at = "attached"
          /\ Client(u, [client[u] EXCEPT !.at = "done", !.got = handler[h].body])
       \/ handler[h].at = "refused" /\ Client(u, AfterFailure(u))
    /\ handler' = [handler EXCEPT ![h] = Free]
    /\ UNCHANGED <<rows, objects, lost, faults>>

\* The connection drops while a handler works: the handler does not notice.
LoseConnection(u) ==
  \E h \in Handlers :
    /\ client[u].at = h
    /\ lost < MaxLost
    /\ lost' = lost + 1
    /\ Client(u, AfterFailure(u))
    /\ UNCHANGED <<rows, objects, handler, faults>>

\* GET /uploads/:id after the back-off: resync to the server's offset.
Resync(u) ==
  /\ client[u].at = "resync"
  /\ Client(u, IF upload[u] = "open"
                 THEN IF offset[u] >= client[u].start + 1
                        THEN Advance(u, offset[u])
                        ELSE [client[u] EXCEPT !.at = "send", !.offset = offset[u]]
                 ELSE [client[u] EXCEPT !.at = "send"])
  /\ UNCHANGED <<rows, objects, handler, lost, faults>>

\* The probe itself fails: the chunk is sent again at the offset known so far.
ResyncFails(u) ==
  /\ client[u].at = "resync"
  /\ lost < MaxLost
  /\ lost' = lost + 1
  /\ Client(u, [client[u] EXCEPT !.at = "send"])
  /\ UNCHANGED <<rows, objects, handler, faults>>

\* The answer of a handler nobody listens to is dropped.
Discard(h) ==
  /\ handler[h].at \in {"appended", "attached", "refused"}
  /\ \A u \in Uploads : client[u].at # h
  /\ handler' = [handler EXCEPT ![h] = Free]
  /\ UNCHANGED <<rows, objects, client, lost, faults>>
-----------------------------------------------------------------------------
(* appendChunk.                                                            *)

Goto(h, step) == handler' = [handler EXCEPT ![h].at = step]
Up(h) == handler[h].u

\* SELECT, then the offset and size checks.
ChunkSelect(h) ==
  /\ handler[h].at = "chunk"
  /\ Goto(h, IF /\ upload[Up(h)] = "open"
                /\ offset[Up(h)] = handler[h].offset
                /\ offset[Up(h)] + 1 <= Size
               THEN "read" ELSE "refused")
  /\ UNCHANGED <<rows, objects, client, lost, faults>>

\* storage.stream(...).catch(() => Buffer.alloc(0)).
ChunkRead(h) ==
  /\ handler[h].at = "read"
  /\ handler' = [handler EXCEPT ![h].at = "put", ![h].body = staged[Up(h)]]
  /\ UNCHANGED <<rows, objects, client, lost, faults>>

\* A failed read is taken for a missing object.
ChunkReadFails(h) ==
  /\ handler[h].at = "read"
  /\ faults < MaxFaults
  /\ faults' = faults + 1
  /\ Goto(h, "put")
  /\ UNCHANGED <<rows, objects, client, lost>>

\* storage.put of what was read plus the chunk.
ChunkPut(h) ==
  /\ handler[h].at = "put"
  /\ staged' = [staged EXCEPT ![Up(h)] = Append(handler[h].body, handler[h].chunk)]
  /\ Goto(h, "update")
  /\ UNCHANGED <<rows, stored, client, lost, faults>>

\* UPDATE offset_bytes = offset_bytes + n; no row is an error.
ChunkUpdate(h) ==
  /\ handler[h].at = "update"
  /\ IF upload[Up(h)] = "open"
       THEN /\ offset' = [offset EXCEPT ![Up(h)] = @ + 1]
            /\ handler' = [handler EXCEPT ![h].at = "appended", ![h].offset = offset[Up(h)] + 1]
       ELSE Goto(h, "refused") /\ UNCHANGED offset
  /\ UNCHANGED <<upload, attachment, objects, client, lost, faults>>
-----------------------------------------------------------------------------
(* finaliseUpload.                                                         *)

\* SELECT, then the completeness check.
FinaliseSelect(h) ==
  /\ handler[h].at = "finalise"
  /\ Goto(h, IF upload[Up(h)] = "open" /\ offset[Up(h)] = Size THEN "hash" ELSE "refused")
  /\ UNCHANGED <<rows, objects, client, lost, faults>>

\* Read and hash the staged body; a missing object throws.
FinaliseHash(h) ==
  /\ handler[h].at = "hash"
  /\ IF staged[Up(h)] = <<>>
       THEN Goto(h, "refused")
       ELSE handler' = [handler EXCEPT ![h].at = "dedup", ![h].body = staged[Up(h)]]
  /\ UNCHANGED <<rows, objects, client, lost, faults>>

\* SELECT ... WHERE content_hash: reuse the attachment, or promote the body.
FinaliseDedup(h) ==
  /\ handler[h].at = "dedup"
  /\ Goto(h, IF handler[h].body \in attachment THEN "reuse" ELSE "promote")
  /\ UNCHANGED <<rows, objects, client, lost, faults>>

\* DELETE FROM uploads, on either path.
DropRow(h, from, to) ==
  /\ handler[h].at = from
  /\ upload' = [upload EXCEPT ![Up(h)] = "deleted"]
  /\ Goto(h, to)
  /\ UNCHANGED <<offset, attachment, objects, client, lost, faults>>

\* storage.remove of the staged object, whose errors are ignored.
DropStaged(h, from, to) ==
  /\ handler[h].at = from
  /\ staged' = [staged EXCEPT ![Up(h)] = <<>>]
  /\ Goto(h, to)
  /\ UNCHANGED <<rows, stored, client, lost, faults>>

Reuse(h) == DropRow(h, "reuse", "reuse2") \/ DropStaged(h, "reuse2", "attached")

Promote(h) ==
  /\ handler[h].at = "promote"
  /\ stored' = stored \cup {handler[h].body}
  /\ Goto(h, "remove")
  /\ UNCHANGED <<rows, staged, client, lost, faults>>

\* INSERT INTO attachments: UNIQUE (org_id, content_hash) refuses a second row.
Insert(h) ==
  /\ handler[h].at = "insert"
  /\ IF handler[h].body \in attachment
       THEN Goto(h, "refused") /\ UNCHANGED attachment
       ELSE /\ attachment' = attachment \cup {handler[h].body}
            /\ Goto(h, "drop")
  /\ UNCHANGED <<upload, offset, objects, client, lost, faults>>

Attach(h) ==
  \/ Promote(h)
  \/ DropStaged(h, "remove", "insert")
  \/ Insert(h)
  \/ DropRow(h, "drop", "attached")

\* The API process dies under a handler, or the await it is at fails: the browser
\* sees a failed request.
Crash(h) ==
  /\ handler[h].at \notin {"free", "appended", "attached", "refused"}
  /\ faults < MaxFaults
  /\ faults' = faults + 1
  /\ Goto(h, "refused")
  /\ UNCHANGED <<rows, objects, client, lost>>
-----------------------------------------------------------------------------
Next ==
  \/ \E u \in Uploads :
       \/ CreateUpload(u) \/ SendChunk(u) \/ SendFinalise(u)
       \/ Answer(u) \/ LoseConnection(u) \/ Resync(u) \/ ResyncFails(u)
  \/ \E h \in Handlers :
       \/ ChunkSelect(h) \/ ChunkRead(h) \/ ChunkReadFails(h) \/ ChunkPut(h) \/ ChunkUpdate(h)
       \/ FinaliseSelect(h) \/ FinaliseHash(h) \/ FinaliseDedup(h) \/ Reuse(h) \/ Attach(h)
       \/ Crash(h) \/ Discard(h)

Spec == Init /\ [][Next]_vars

\* Every await of a handler returns and the browser's loop runs on.
BrowserGoesOn(u) == CreateUpload(u) \/ SendChunk(u) \/ SendFinalise(u) \/ Answer(u) \/ Resync(u)
HandlerGoesOn(h) ==
  \/ ChunkSelect(h) \/ ChunkRead(h) \/ ChunkPut(h) \/ ChunkUpdate(h)
  \/ FinaliseSelect(h) \/ FinaliseHash(h) \/ FinaliseDedup(h) \/ Reuse(h) \/ Attach(h) \/ Discard(h)

Fairness ==
  (\A u \in Uploads : WF_vars(BrowserGoesOn(u))) /\ (\A h \in Handlers : WF_vars(HandlerGoesOn(h)))

FairSpec == Spec /\ Fairness
-----------------------------------------------------------------------------
(* Properties.                                                             *)

Ended == {"done", "error"}
Quiet(u) == \A h \in Handlers : handler[h].u # u

\* Types; a chunk is sent UPLOAD_MAX_RETRIES times at most, which bounds the
\* offset, and the browser waits for a handler that serves it.
TypeOK ==
  /\ upload \in [Uploads -> {"absent", "open", "deleted"}]
  /\ \A u \in Uploads : offset[u] \in 0 .. Size * UPLOAD_MAX_RETRIES
  /\ \A u \in Uploads : client[u].tries \in 0 .. UPLOAD_MAX_RETRIES - 1
  /\ \A u \in Uploads : client[u].at \in {"new", "send", "finalise", "resync"} \cup Ended \cup Handlers
  /\ \A h \in Handlers : handler[h].u \in Uploads \cup {NoUpload}
  /\ \A u \in Uploads : client[u].at \in Handlers => handler[client[u].at].u = u

\* An attachment row always has its object: "an attachment row whose object never
\* lands, so every send fails" cannot come back.
RowHasObject == attachment \subseteq stored

\* An upload row is dropped only once the attachment made from it is recorded, so
\* a crash never loses a finished upload without a trace.
DroppedMeansAttached ==
  \A u \in Uploads :
    upload[u] = "deleted" => \E b \in attachment : \E i \in DOMAIN b : b[i][1] = File[u]

\* What finalise returns to the browser is a recorded attachment with a body.
AttachedIsRecorded ==
  \A u \in Uploads : client[u].at = "done" => client[u].got \in attachment

\* The tables and the object store agree, whatever crashes and wherever.
StoreIsConsistent == RowHasObject /\ DroppedMeansAttached /\ AttachedIsRecorded

Undisturbed == lost = 0 /\ faults = 0

\* While connections hold and nothing fails, the attachment is byte for byte the
\* browser's file.  One dropped connection is enough to lose this: the handler it
\* leaves behind and the retry both append and both advance the offset.
DoneIsFaithful ==
  Undisturbed => \A u \in Uploads : client[u].at = "done" => client[u].got = Body(u)

\* The browser's loop ends, with the attachment or with an error.
Begun(u) == client[u].at # "new"
LoopEnded(u) == client[u].at \in Ended

\* The upload probe "lets a client resync to the authoritative offset after a dropped
\* connection so it can resume": as long as only connections are lost, the attachment a resumed
\* upload ends with is byte for byte the browser's file.
ResumedIsFaithful ==
  faults = 0 => \A u \in Uploads : client[u].at = "done" => client[u].got = Body(u)
=============================================================================
