----------------------------- MODULE Groupware -----------------------------
(***************************************************************************)
(* A mailbox's calendar or address book (src/apps/api/src/calendar and     *)
(* src/apps/api/src/contacts).  The items live in a collection of the DAV  *)
(* server, which the mailbox's own calendar and contact clients also write.*)
(* A request of the API is a series of DAV calls: to find an item it lists *)
(* the collection and reads every resource, and only then writes or        *)
(* deletes, so anything may happen in between.                             *)
(*                                                                         *)
(* A resource is stored under an href.  The API stores item u under        *)
(* <u>.ics / <u>.vcf (by = "api"); another client chooses its own name     *)
(* (by = "client"), with another ending too (by = "bare"), and may store   *)
(* what is no item to the parsers: no UID, no start (item = FALSE).  Of an *)
(* item's text one free-text property is kept, as the characters of its    *)
(* property line; `extra' stands for everything else                       *)
(* another client may have put there (alarms, recurrence, a photo).        *)
(*                                                                         *)
(* The DAV server is external.  Creating a collection that exists is       *)
(* answered 405 or 409, as it likes (`plan.exists').  `wrote' and `calm' are    *)
(* history variables.                                                      *)
(***************************************************************************)
EXTENDS Naturals, Sequences, SequencesExt, FiniteSets

CONSTANTS Uids,         \* item ids
          Handlers,     \* concurrent API requests
          Fold,         \* longest line that is not folded (75 in the code)
          Plans         \* what is explored: [kind, exists, sample (a free text, as a
                        \* sequence of characters), calls, others, failures (bounds)]

VARIABLES plan,         \* the member of Plans: "calendar" or "contacts", the server's
                        \* answer to creating the collection again, the text requests
                        \* carry (or the empty one), and the bounds
          made,         \* whether the collection exists
          store,        \* href -> resource
          call,         \* Handlers -> the request's progress
          calls, others, failures, wrote, calm

vars == <<plan, made, store, call, calls, others, failures, wrote, calm>>

Hrefs == [by : {"api", "client", "bare"}, uid : Uids]
NoHref == [by |-> "none", uid |-> CHOOSE u \in Uids : TRUE]
NoCall == [pc |-> "idle", op |-> "list", uid |-> NoHref.uid, text |-> <<>>,
           left |-> {}, found |-> NoHref, shown |-> {}, whole |-> FALSE]

-----------------------------------------------------------------------------
(* Text: escaping, folding and the way back.                                *)

Replace(s, c, by) == FlattenSeq([i \in DOMAIN s |-> IF s[i] = c THEN by ELSE <<s[i]>>])

\* Faulty variant: the newlines are escaped before the backslashes
EscapeLate(s) == Replace(Replace(Replace(s, "lf", <<"bs", "n">>), "bs", <<"bs", "bs">>), ";", <<"bs", ";">>)

\* escapeText, escapeValue: backslashes first.  ";" stands for the comma too.
Escape(s) == Replace(Replace(Replace(s, "bs", <<"bs", "bs">>), "lf", <<"bs", "n">>), ";", <<"bs", ";">>)

\* unescapeText, unescapeValue: a last, lone backslash is kept.
Unescape(s) ==
  LET Read(acc, c) == IF acc.esc THEN [out |-> Append(acc.out, IF c = "n" THEN "lf" ELSE c), esc |-> FALSE]
                      ELSE IF c = "bs" THEN [acc EXCEPT !.esc = TRUE]
                      ELSE [acc EXCEPT !.out = Append(@, c)]
      end == FoldLeft(Read, [out |-> <<>>, esc |-> FALSE], s)
  IN IF end.esc THEN Append(end.out, "bs") ELSE end.out

\* foldLine: the first Fold characters, then lines of a space and Fold - 1.
FoldLine(l) ==
  FlattenSeq([i \in DOMAIN l |-> IF i > Fold /\ (i - Fold - 1) % (Fold - 1) = 0
                                 THEN <<"cr", "lf", " ", l[i]>> ELSE <<l[i]>>])

\* unfoldLines: every kind of line end is one; one before a space is none.
Unfold(s) ==
  LET n == FlattenSeq([i \in DOMAIN s |-> IF s[i] = "cr" THEN <<"lf">>
                                          ELSE IF s[i] = "lf" /\ i > 1 /\ s[IF i > 1 THEN i - 1 ELSE 1] = "cr" THEN <<>>
                                          ELSE <<s[i]>>])
      Soft(i) == /\ i \in DOMAIN n /\ i + 1 \in DOMAIN n
                 /\ n[i] = "lf" /\ n[i + 1] = " "
  IN FlattenSeq([i \in DOMAIN n |-> IF Soft(i) \/ Soft(i - 1) THEN <<>> ELSE <<n[i]>>])

\* serializeICal, serializeVCard: the property's line, "P" its name.
Serialize(text) == FoldLine(<<"P", ":">> \o Escape(text)) \o <<"cr", "lf">>

\* splitUnescaped, its first part: what stands before the first bare ";".
FirstPart(v) ==
  LET Escaped(i) == (CHOOSE n \in 0..(i - 1) : /\ \A k \in (i - n)..(i - 1) : v[k] = "bs"
                                               /\ n = i - 1 \/ v[IF n = i - 1 THEN 1 ELSE i - n - 1] # "bs") % 2 = 1
      bare == {i \in DOMAIN v : v[i] = ";" /\ ~Escaped(i)}
  IN IF bare = {} THEN v ELSE SubSeq(v, 1, (CHOOSE i \in bare : \A j \in bare : i <= j) - 1)

\* String.trim
Trim(t) == LET ink == {i \in DOMAIN t : t[i] \notin {" ", "lf", "cr"}}
           IN IF ink = {} THEN <<>>
              ELSE SubSeq(t, CHOOSE i \in ink : \A j \in ink : i <= j, CHOOSE i \in ink : \A j \in ink : i >= j)

\* parseVCard keeps the first part of ORG, trimmed; parseICal a SUMMARY as it is.
Value(v) == IF plan.kind = "contacts" THEN Trim(Unescape(FirstPart(v))) ELSE Unescape(v)

\* parseICal, parseVCard: the value of the last line that has the name.
Parse(body) ==
  LET s == Unfold(body)
      starts == {i \in DOMAIN s : /\ i = 1 \/ s[IF i = 1 THEN 1 ELSE i - 1] = "lf"
                                  /\ s[i] = "P" /\ i + 1 \in DOMAIN s /\ s[i + 1] = ":"}
      from == CHOOSE i \in starts : \A j \in starts : j <= i
      to == CHOOSE j \in from..Len(s) + 1 :
              /\ j = Len(s) + 1 \/ s[IF j > Len(s) THEN 1 ELSE j] = "lf"
              /\ \A k \in from..(j - 1) : s[k] # "lf"
  IN IF starts = {} THEN <<>> ELSE Value(SubSeq(s, from + 2, to - 1))

-----------------------------------------------------------------------------
Init == /\ plan \in Plans
        /\ made = FALSE
        /\ store = [h \in {} |-> NoCall]
        /\ call = [h \in Handlers |-> NoCall]
        /\ calls = 0 /\ others = 0 /\ failures = 0
        /\ wrote = [h \in {} |-> <<>>]
        /\ calm = TRUE

Stored == DOMAIN store
Used == {h.uid : h \in Stored} \cup {call[c].uid : c \in {d \in Handlers : call[d].pc # "idle"}}

\* The resources h maps to, with one more, or without one.
With(f, h, v) == [x \in DOMAIN f \cup {h} |-> IF x = h THEN v ELSE f[x]]
Without(f, h) == [x \in DOMAIN f \ {h} |-> f[x]]

Alone(c) == \A d \in Handlers \ {c} : call[d].pc = "idle"

\* The request, once resolveMailbox has found the address.
Begin(c, op) ==
  /\ call[c].pc = "idle" /\ calls < plan.calls
  /\ calls' = calls + 1
  /\ \E u \in Uids, text \in {<<>>, plan.sample} :
       /\ op = "create" => u \notin Used                        \* randomUUID
       /\ op # "update" /\ op # "create" => text = <<>>
       /\ call' = [call EXCEPT ![c] = [NoCall EXCEPT !.pc = IF op = "create" THEN "put" ELSE "mkcol",
                                                     !.op = op, !.uid = u, !.text = text]]
  /\ calm' = Alone(c)
  /\ UNCHANGED <<plan, made, store, others, failures, wrote>>

ListItems(c) == Begin(c, "list")
CreateItem(c) == Begin(c, "create")
UpdateItem(c) == Begin(c, "update")
RemoveItem(c) == Begin(c, "remove")

\* The statuses ensureCollection takes for success.
Accepted == IF plan.kind = "calendar" THEN {201, 405} ELSE {201, 405, 409}

EnsureCollection(c) ==
  /\ call[c].pc = "mkcol"
  /\ LET status == IF made THEN plan.exists ELSE 201
     IN call' = [call EXCEPT ![c] = IF status \in Accepted THEN [@ EXCEPT !.pc = "propfind"] ELSE NoCall]
  /\ made' = TRUE
  /\ UNCHANGED <<plan, store, calls, others, failures, wrote, calm>>

\* extractHrefs keeps the hrefs with the right ending.
Extracted(h) == h.by # "bare"

\* PROPFIND: the hrefs the collection holds now.
Propfind(c) == /\ call[c].pc = "propfind"
               /\ call' = [call EXCEPT ![c] = [@ EXCEPT !.pc = "get", !.left = {h \in Stored : Extracted(h)}, !.whole = TRUE]]
               /\ UNCHANGED <<plan, made, store, calls, others, failures, wrote, calm>>

\* findEvent, findCard: the first resource read that has the UID.
Find(c, h) == IF call[c].found = NoHref /\ h.uid = call[c].uid THEN h ELSE call[c].found

\* One GET: the resource, or 404 when it has gone since; one the parser makes nothing of is passed over.
Get(c) == /\ call[c].pc = "get"
          /\ \E h \in call[c].left :
               call' = [call EXCEPT ![c] =
                 IF h \in Stored /\ store[h].item
                 THEN [@ EXCEPT !.left = @ \ {h}, !.found = Find(c, h),
                                !.shown = @ \cup {[href |-> h, text |-> Parse(store[h].body)]}]
                 ELSE [@ EXCEPT !.left = @ \ {h}]]
          /\ UNCHANGED <<plan, made, store, calls, others, failures, wrote, calm>>

\* A GET that fails is logged, and the resource left out.
GetFails(c) == /\ call[c].pc = "get" /\ failures < plan.failures
               /\ failures' = failures + 1
               /\ \E h \in call[c].left : call' = [call EXCEPT ![c] = [@ EXCEPT !.left = @ \ {h}, !.whole = FALSE]]
               /\ UNCHANGED <<plan, made, store, calls, others, wrote, calm>>

\* All read: the list is the answer, the item not found a 404, found the write.
Listed(c) == /\ call[c].pc = "get" /\ call[c].left = {}
             /\ call' = [call EXCEPT ![c] =
                  IF call[c].op = "list" THEN [@ EXCEPT !.pc = "shown"]
                  ELSE IF call[c].found = NoHref THEN NoCall
                  ELSE [@ EXCEPT !.pc = IF call[c].op = "update" THEN "put" ELSE "delete"]]
             /\ UNCHANGED <<plan, made, store, calls, others, failures, wrote, calm>>

\* The list is answered; the request is over.
Answer(c) == /\ call[c].pc = "shown"
             /\ call' = [call EXCEPT ![c] = NoCall]
             /\ UNCHANGED <<plan, made, store, calls, others, failures, wrote, calm>>

Own(u) == [by |-> "api", uid |-> u]

\* putEvent, putCard: always under the item's own name, the whole resource.
\* The server refuses when there is no collection.
Put(c) == /\ call[c].pc = "put"
          /\ IF made
             THEN /\ store' = With(store, Own(call[c].uid), [body |-> Serialize(call[c].text), extra |-> FALSE, item |-> TRUE])
                  /\ wrote' = With(wrote, Own(call[c].uid), call[c].text)
             ELSE UNCHANGED <<store, wrote>>
          /\ call' = [call EXCEPT ![c] = NoCall]
          /\ UNCHANGED <<plan, made, calls, others, failures, calm>>

\* deleteEvent, deleteCard: the resource found; gone already is fine.
Delete(c) == /\ call[c].pc = "delete"
             /\ store' = Without(store, call[c].found)
             /\ wrote' = Without(wrote, call[c].found)
             /\ call' = [call EXCEPT ![c] = NoCall]
             /\ UNCHANGED <<plan, made, calls, others, failures, calm>>

-----------------------------------------------------------------------------
(* Another client of the same mailbox (external).                           *)

ClientSaves == /\ made /\ others < plan.others
               /\ others' = others + 1
               /\ \E h \in Hrefs, item \in BOOLEAN :
                    /\ h \in Stored \/ (h.by # "api" /\ h.uid \notin Used)
                    /\ store' = With(store, h, [body |-> Serialize(plan.sample), extra |-> TRUE, item |-> item])
                    /\ wrote' = Without(wrote, h)
               /\ calm' = FALSE
               /\ UNCHANGED <<plan, made, call, calls, failures>>

ClientDeletes == /\ others < plan.others
                 /\ others' = others + 1
                 /\ \E h \in Stored : store' = Without(store, h) /\ wrote' = Without(wrote, h)
                 /\ calm' = FALSE
                 /\ UNCHANGED <<plan, made, call, calls, failures>>

-----------------------------------------------------------------------------
Step(c) == \/ ListItems(c) \/ CreateItem(c) \/ UpdateItem(c) \/ RemoveItem(c)
           \/ EnsureCollection(c) \/ Propfind(c) \/ Get(c) \/ GetFails(c) \/ Listed(c) \/ Answer(c)
           \/ Put(c) \/ Delete(c)

Next == (\E c \in Handlers : Step(c)) \/ ClientSaves \/ ClientDeletes

Spec == Init /\ [][Next]_vars

-----------------------------------------------------------------------------
(* Properties.                                                              *)

Kept(t) == IF plan.kind = "contacts" THEN Trim(t) ELSE t

CarriageFree(t) == \A i \in DOMAIN t : t[i] # "cr"

(* The text a request wrote, escaped and folded into its line, is the text *)
(* the next reader of the item gets back (trimmed, where the parser trims),*)
(* for every text without a carriage return, backslashes, separators and   *)
(* line ends included (serializeICal, serializeVCard, their parsers); and a*)
(* listing during which nobody else wrote and no read failed shows exactly *)
(* the items of the collection whose href has the ending, each under it.   *)
GroupwareSound ==
  /\ DOMAIN store \subseteq Hrefs /\ DOMAIN wrote \subseteq Stored
  /\ \A h \in DOMAIN wrote : CarriageFree(wrote[h]) => Parse(store[h].body) = Kept(wrote[h])
  /\ \A c \in Handlers :
       call[c].pc = "shown" /\ call[c].whole /\ calm =>
         call[c].shown = {[href |-> h, text |-> Parse(store[h].body)] : h \in {g \in Stored : Extracted(g) /\ store[g].item}}

(* However requests and other clients interleave between the listing and   *)
(* the write, a request changes or deletes no resource of another item, and*)
(* never more than one resource.                                           *)
OnlyTheItem ==
  \A c \in Handlers : call'[c] # call[c] =>
    LET changed == {h \in Stored \cup DOMAIN store' :
                      (h \in Stored) # (h \in DOMAIN store') \/ (h \in Stored /\ store[h] # store'[h])}
    IN Cardinality(changed) <= 1 /\ \A h \in changed : h.uid = call[c].uid

(* findCard: "Locate a stored card by UID so update/delete operate on the  *)
(* exact href Radicale assigned (which may differ from our <uid>.vcf       *)
(* convention)": when an update that found the item writes it, the resource*)
(* it found is the one that gets the new content.                          *)
UpdateReachesFound ==
  [][\A c \in Handlers :
       call[c].pc = "put" /\ call[c].op = "update" /\ call'[c].pc = "idle" /\ call[c].found \in Stored
         => /\ call[c].found \in DOMAIN store'
            /\ store'[call[c].found].body = Serialize(call[c].text)]_vars
=============================================================================
