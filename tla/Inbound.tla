------------------------------ MODULE Inbound ------------------------------
(***************************************************************************)
(* What reaches the API about mail from outside it: the mail stack's log   *)
(* lines (src/apps/api/src/internal), from which "new mail" notifications  *)
(* and web pushes are made (src/apps/api/src/notifications), DMARC         *)
(* aggregate reports (src/apps/api/src/deliverability) and the MIME bodies *)
(* the reader opens (packages/mail-parser).                                *)
(*                                                                         *)
(* The log shipper (external) sends the lines in batches, keeps several    *)
(* under way and sends one again whose answer was lost.  A batch is        *)
(* recorded in one statement and answered; the notifications are made after*)
(* that, one delivery at a time, while other batches are handled, and a    *)
(* restart loses them.  A line is [msg, kind]: "from" names the sender,    *)
(* "sent" and "deferred" are delivery lines with a status and a DSN,       *)
(* "bare" one without.  `again' and `could' are history variables.         *)
(***************************************************************************)
EXTENDS Integers, Sequences, SequencesExt, FiniteSets, FiniteSetsExt

CONSTANTS Messages,     \* messages in the log; each has its own queue id
          From,         \* Messages -> sender or NoSender (the null sender)
          To,           \* Messages -> recipient
          Users,        \* the recipients that have signed in to webmail
          Endpoints,    \* browsers' push endpoints
          NoSender,
          Logs,         \* the logs explored: sequences of lines
          MaxBatch,     \* bound: lines of a batch
          MaxBreaks,    \* bound: answers lost, notifications failed, restarts
          Archives,     \* DMARC archives: sequences of rows [count, dkim, spf]
          Shapes,       \* MIME bodies: sequences of delimiters [b, close]
          MaxDepth, MaxParts

VARIABLES log,          \* lines the shipper has not sent yet
          batch,        \* batches under way: function of 1..n
          events,       \* mail_events: set of lines recorded
          notes,        \* notifications: set of [id, user, from, msg]
          subs,         \* web_push_subs: Endpoints -> user or NoSender
          pushed,       \* pushes: set of [note, endpoint]
          read,         \* ids of the notifications with a read_at
          report,       \* the DMARC report stored last
          mime,         \* the body opened last, and whether it was refused
          breaks, again, could

vars == <<log, batch, events, notes, subs, pushed, read, report, mime, breaks, again, could>>

NoReport == [rows |-> <<>>, pass |-> 0, fail |-> 0]

Init == /\ log \in Logs
        /\ batch = <<>>
        /\ events = {} /\ notes = {}
        /\ subs = [e \in Endpoints |-> NoSender]
        /\ pushed = {} /\ read = {}
        /\ report = NoReport
        /\ mime = [shape |-> <<>>, refused |-> FALSE]
        /\ breaks = 0 /\ again = {} /\ could = {}

-----------------------------------------------------------------------------
(* Log lines.                                                               *)

\* parsePostfix: a status counts only with a DSN.
Event(l) == IF l.kind \in {"sent", "deferred"} THEN "lmtp." \o l.kind ELSE "line"
FromAddr(l) == IF l.kind = "from" THEN From[l.msg] ELSE NoSender

\* The shipper sends the next lines, or a batch whose answer was lost.
Ship == /\ log # <<>> /\ Len(batch) < 3
        /\ \E n \in 1..Min({MaxBatch, Len(log)}) :
             /\ batch' = Append(batch, [lines |-> SubSeq(log, 1, n), pc |-> "sent", i |-> 1])
             /\ log' = SubSeq(log, n + 1, Len(log))
        /\ UNCHANGED <<events, notes, subs, pushed, read, report, mime, breaks, again, could>>

ShipAgain == /\ breaks < MaxBreaks
             /\ breaks' = breaks + 1
             /\ \E k \in DOMAIN batch :
                  /\ batch[k].pc # "sent"
                  /\ batch' = Append(batch, [lines |-> batch[k].lines, pc |-> "sent", i |-> 1])
                  /\ again' = again \cup {batch[k].lines[i].msg : i \in DOMAIN batch[k].lines}
             /\ UNCHANGED <<log, events, notes, subs, pushed, read, report, mime, could>>

\* ingest: one INSERT for the batch, then the answer.
Ingest(k) == /\ batch[k].pc = "sent"
             /\ events' = events \cup Range(batch[k].lines)
             /\ batch' = [batch EXCEPT ![k].pc = "notify"]
             /\ UNCHANGED <<log, notes, subs, pushed, read, report, mime, breaks, again, could>>

Deliveries(ls) == SelectSeq(ls, LAMBDA l : Event(l) = "lmtp.sent")

\* notifyDeliveries: the sender from this batch, or from the lines recorded.
Sender(k, m) ==
  LET here == {l \in Range(batch[k].lines) : l.msg = m /\ FromAddr(l) # NoSender}
      there == {l \in events : l.msg = m /\ FromAddr(l) # NoSender}
  IN IF here \cup there = {} THEN NoSender ELSE FromAddr(CHOOSE l \in here \cup there : TRUE)

\* Faulty variant: the try is around the loop, so one failure ends it
LoopEnds(k) == [batch[k] EXCEPT !.i = Len(Deliveries(batch[k].lines)) + 1]

\* The next delivery of the batch.
Onward(k) == [batch[k] EXCEPT !.i = @ + 1]

\* notifyInboundDelivery and publish: a row for a recipient that is a user, and
\* its pushes, which are not awaited.
Notify(k) ==
  LET due == Deliveries(batch[k].lines) IN
  /\ batch[k].pc = "notify" /\ batch[k].i <= Len(due)
  /\ LET m == due[batch[k].i].msg IN
     /\ IF To[m] \in Users
        THEN notes' = notes \cup {[id |-> Cardinality(notes) + 1, user |-> To[m], from |-> Sender(k, m), msg |-> m]}
        ELSE UNCHANGED notes
     /\ could' = could \cup {m}
  /\ batch' = [batch EXCEPT ![k] = [batch[k] EXCEPT !.i = @ + 1]]
  /\ UNCHANGED <<log, events, subs, pushed, read, report, mime, breaks, again>>

\* The query or the insert fails: that delivery has no notification.
NotifyFails(k) ==
  LET due == Deliveries(batch[k].lines) IN
  /\ batch[k].pc = "notify" /\ batch[k].i <= Len(due) /\ breaks < MaxBreaks
  /\ breaks' = breaks + 1
  /\ could' = could \cup {due[batch[k].i].msg}
  /\ batch' = [batch EXCEPT ![k] = Onward(k)]
  /\ UNCHANGED <<log, events, notes, subs, pushed, read, report, mime, again>>

\* A restart: what was not yet notified never is.
Restart == /\ breaks < MaxBreaks
           /\ \E k \in DOMAIN batch : batch[k].pc = "notify" /\ batch[k].i <= Len(Deliveries(batch[k].lines))
           /\ breaks' = breaks + 1
           /\ could' = could \cup UNION {{l.msg : l \in Range(batch[k].lines)} : k \in {j \in DOMAIN batch : batch[j].pc = "notify"}}
           /\ batch' = [k \in DOMAIN batch |-> IF batch[k].pc = "notify"
                                               THEN [batch[k] EXCEPT !.i = Len(Deliveries(batch[k].lines)) + 1] ELSE batch[k]]
           /\ UNCHANGED <<log, events, notes, subs, pushed, read, report, mime, again>>

-----------------------------------------------------------------------------
(* Pushes.                                                                  *)

\* pushToUser: every endpoint of the user.  One that answers 404 or 410 is
\* removed; any other failure is only logged.
Push == \E n \in notes, e \in Endpoints :
          /\ subs[e] = n.user /\ [note |-> n.id, endpoint |-> e] \notin pushed
          /\ pushed' = pushed \cup {[note |-> n.id, endpoint |-> e]}
          /\ subs' \in {subs, [subs EXCEPT ![e] = NoSender]}
          /\ UNCHANGED <<log, batch, events, notes, read, report, mime, breaks, again, could>>

\* subscribeWebPush: ON CONFLICT (endpoint) takes the new keys and keeps the
\* user the row was first made for.
SubscribeWebPush(u, e) == /\ subs' = [subs EXCEPT ![e] = IF @ = NoSender THEN u ELSE @]
                          /\ subs' # subs
                          /\ UNCHANGED <<log, batch, events, notes, pushed, read, report, mime, breaks, again, could>>

UnsubscribeWebPush(u, e) == /\ subs[e] = u
                            /\ subs' = [subs EXCEPT ![e] = NoSender]
                            /\ UNCHANGED <<log, batch, events, notes, pushed, read, report, mime, breaks, again, could>>

\* markRead of one's own unread notification, or of all of them.
MarkRead(u) == /\ \E ids \in {{n.id} : n \in notes} \cup {{n.id : n \in notes}} :
                    LET mine == {n.id : n \in {o \in notes : o.user = u /\ o.id \in ids}} \ read
                    IN mine # {} /\ read' = read \cup mine
               /\ UNCHANGED <<log, batch, events, notes, subs, pushed, report, mime, breaks, again, could>>

-----------------------------------------------------------------------------
(* DMARC reports.                                                           *)

\* Reports and bodies share no state with the log: they are explored with no
\* line under way.
Idle == log = <<>> /\ batch = <<>>

\* Math.max(0, Math.trunc(Number(row.count) || 0))
Count(r) == IF r.count < 0 THEN 0 ELSE r.count
Sum(rows) == FoldLeft(LAMBDA a, r : a + Count(r), 0, rows)

\* parseDmarcReport: a row passes when DKIM or SPF does.
Aligned(r) == r.dkim \/ r.spf

\* ingestArchive: the report and its rows, in one transaction.
IngestArchive == /\ report = NoReport /\ mime.shape = <<>> /\ Idle
                 /\ \E a \in Archives :
                      LET Add(acc, r) == [rows |-> Append(acc.rows, [r EXCEPT !.count = Count(r)]),
                                          pass |-> acc.pass + IF Aligned(r) THEN Count(r) ELSE 0,
                                          fail |-> acc.fail + IF Aligned(r) THEN 0 ELSE Count(r)]
                      IN report' = FoldLeft(Add, NoReport, a)
                 /\ UNCHANGED <<log, batch, events, notes, subs, pushed, read, mime, breaks, again, could>>

-----------------------------------------------------------------------------
(* MIME limits: a stack of the boundaries open, and the parts counted.      *)

LastAt(s, b) == LET at == {i \in DOMAIN s : s[i] = b} IN IF at = {} THEN 0 ELSE Max(at)

\* assertStructureWithinLimits, one delimiter line.
Delimiter(acc, d) ==
  IF d.close
  THEN [acc EXCEPT !.stack = IF LastAt(@, d.b) > 0 THEN SubSeq(@, 1, LastAt(@, d.b) - 1) ELSE @]
  ELSE LET stack == IF acc.stack # <<>> /\ Last(acc.stack) = d.b THEN acc.stack ELSE Append(acc.stack, d.b)
       IN [stack |-> stack, parts |-> acc.parts + 1,
           refused |-> acc.refused \/ Len(stack) > MaxDepth \/ acc.parts + 1 > MaxParts]

\* parseMime, parseMimeSafe: a body beyond the limits is answered with an error.
OpenMime == /\ mime.shape = <<>> /\ report = NoReport /\ Idle
            /\ \E s \in Shapes :
                 mime' = [shape |-> s,
                          refused |-> FoldLeft(Delimiter, [stack |-> <<>>, parts |-> 0, refused |-> FALSE], s).refused]
            /\ UNCHANGED <<log, batch, events, notes, subs, pushed, read, report, breaks, again, could>>

-----------------------------------------------------------------------------
Next == \/ Ship \/ ShipAgain
        \/ \E k \in DOMAIN batch : Ingest(k) \/ Notify(k) \/ NotifyFails(k)
        \/ \E u \in Users : MarkRead(u) \/ \E e \in Endpoints : SubscribeWebPush(u, e) \/ UnsubscribeWebPush(u, e)
        \/ Restart \/ Push \/ IngestArchive \/ OpenMime

Spec == Init /\ [][Next]_vars

-----------------------------------------------------------------------------
(* Properties.                                                              *)

Notes(m) == {n \in notes : n.msg = m}

(* A notification is made for a recorded LMTP delivery to a user, at most  *)
(* once unless the shipper repeated its lines, and names the message's own *)
(* sender or nobody; nobody only when the "from" line was not yet recorded *)
(* or the sender is the null one.  A notification that fails costs no      *)
(* other: when a batch is finished every delivery in it was tried          *)
(* ("best-effort; a failed notification must not fail ingest").            *)
DeliveriesNotified ==
  /\ \A n \in notes : /\ To[n.msg] = n.user
                      /\ [msg |-> n.msg, kind |-> "sent"] \in events
                      /\ n.from \in {From[n.msg], NoSender}
  /\ \A m \in Messages : m \notin again => Cardinality(Notes(m)) <= 1
  /\ \A k \in DOMAIN batch :
       batch[k].pc = "notify" =>
         \A i \in 1..(batch[k].i - 1) : i \in DOMAIN Deliveries(batch[k].lines) => Deliveries(batch[k].lines)[i].msg \in could
  /\ \A i \in read \cup {p.note : p \in pushed} : \E n \in notes : n.id = i

(* A sender that was known when the delivery was notified is in the        *)
(* notification: what a batch or an earlier one says of the sender is used.*)
SenderIsNamed ==
  \A n \in notes' \ notes :
    (\E k \in DOMAIN batch : \E l \in Range(batch[k].lines) :
       batch[k].i # batch'[k].i /\ l.msg = n.msg /\ l.kind = "from")
    \/ [msg |-> n.msg, kind |-> "from"] \in events
      => n.from = From[n.msg]

\* A body whose delimiters nest: none of a closed boundary, and only the
\* innermost open boundary is used or closed.
Opened(s, i) == {s[j].b : j \in {j \in 1..i : ~s[j].close}} \ {s[j].b : j \in {j \in 1..i : s[j].close}}
Since(s, i, b) == {s[j].b : j \in {j \in 1..i : \E k \in 1..j : s[k].b = b /\ \A n \in 1..(k - 1) : s[n].b # b}}
WellNested(s) ==
  \A i \in DOMAIN s :
    /\ \A j \in 1..(i - 1) : s[j].close => s[j].b # s[i].b
    /\ s[i].close => s[i].b \in Opened(s, i - 1)
    /\ s[i].b \in Opened(s, i - 1) => Since(s, i - 1, s[i].b) \cap Opened(s, i - 1) = {s[i].b}

(* The limits are those of the structure: a well-nested body is refused    *)
(* exactly when some part lies deeper than MAX_DEPTH boundaries or there   *)
(* are more than MAX_PARTS parts.  And a stored DMARC report's totals are  *)
(* the totals of its rows, passed and failed, with no row counted below    *)
(* zero or twice.                                                          *)
ParsersSound ==
  /\ WellNested(mime.shape) =>
       mime.refused = (\/ \E i \in DOMAIN mime.shape : Cardinality(Opened(mime.shape, i)) > MaxDepth
                       \/ Cardinality({i \in DOMAIN mime.shape : ~mime.shape[i].close}) > MaxParts)
  /\ report.pass = Sum(SelectSeq(report.rows, Aligned))
  /\ report.pass + report.fail = Sum(report.rows)
=============================================================================
