---------------------------- MODULE Connections ----------------------------
(***************************************************************************)
(* Identity providers (OIDC, SAML) and LDAP directories of an organisation *)
(* as its administrators edit them: the console's two pages, whose forms   *)
(* start with an empty secret and leave it out of an edit to keep the      *)
(* stored one, and the two services, which read the row, keep or replace   *)
(* the sealed secret, and write the whole row back.  Several               *)
(* administrators work at once.  What a sync does with a directory is in   *)
(* LdapSync, what a login does with a provider in Accounts.                *)
(***************************************************************************)
EXTENDS Integers, Sequences, FiniteSets

CONSTANTS MaxId,    \* connection ids are 1..MaxId, never used twice
          Plans,    \* scenarios: [kinds, tabs, seeds, opens, edits, dels, tests, losses]
          Letters,  \* what a DN is written with, besides the ones named below
          RoleMaps  \* group-to-role maps an administrator may type

VARIABLES plan,     \* the scenario of this behaviour
          rows,     \* sso_providers and ldap_directories
          last,     \* the secret last written on purpose, by id
          mixed,    \* ids whose secret an overlapping edit may have put back
          tab,      \* what each console tab holds
          secrets,  \* how many secrets were typed so far
          used      \* how much of the plan's budget is spent

vars == <<plan, rows, last, mixed, tab, secrets, used>>

Ids == 1..MaxId
NoId == 0
Null == 0           \* no secret; in a form, a blank field
Omitted == -1       \* the body leaves the secret out
Roles == {"owner", "admin", "member", "viewer"}
Chars == Letters \cup Roles \cup {"sp", "eq", "x"}

\* Assumed of the constants, by the module that gives them values.
RoleMapsAssumption == \A m \in RoleMaps : IsFiniteSet(DOMAIN m) /\ DOMAIN m \subseteq Seq(Chars) /\ m \in [DOMAIN m -> Roles]
KindsAssumption == \A p \in Plans : p.kinds \subseteq {"oidc", "saml", "ldap"}

(***************************************************************************)
(* The group-to-role map, a role by DN, is edited as text: a line          *)
(* "dn = role" per group, in the order the object happens to list them.  A *)
(* DN holds "=" itself.  Lines are sequences of characters: "sp" is the    *)
(* blank, "eq" the equals sign, and a role is one character.               *)
(***************************************************************************)
Strip(s) == LET solid == {i \in DOMAIN s : s[i] # "sp"} IN
            IF solid = {} THEN <<>>
            ELSE SubSeq(s, CHOOSE i \in solid : \A j \in solid : i <= j, CHOOSE i \in solid : \A j \in solid : j <= i)

LastEq(s) == LET at == {i \in DOMAIN s : s[i] = "eq"} IN IF at = {} THEN 0 ELSE CHOOSE i \in at : \A j \in at : j <= i

\* Object.entries lists every key.
Listing(D) == CHOOSE s \in [1..Cardinality(D) -> D] : \A d \in D : \E i \in 1..Cardinality(D) : s[i] = d

roleMapToText(map) == [i \in 1..Cardinality(DOMAIN map) |->
                         LET dn == Listing(DOMAIN map)[i] IN dn \o <<"sp", "eq", "sp", map[dn]>>]

DnOf(line) == Strip(SubSeq(line, 1, LastEq(line) - 1))
RoleOf(line) == Strip(SubSeq(line, LastEq(line) + 1, Len(line)))
IsEntry(line) == LastEq(line) > 0 /\ DnOf(line) # <<>> /\ \E r \in Roles : RoleOf(line) = <<r>>

\* A DN that is on several lines has the role of the last.
roleMapFromText(text) ==
    LET good == {i \in DOMAIN text : IsEntry(text[i])}
        at(dn) == CHOOSE i \in good : DnOf(text[i]) = dn /\ \A j \in good : DnOf(text[j]) = dn => j <= i
    IN [dn \in {DnOf(text[i]) : i \in good} |-> RoleOf(text[at(dn)])[1]]

(***************************************************************************)
(* The forms and the bodies they send.                                     *)
(***************************************************************************)
NewForm == [name |-> "", domain |-> "none", on |-> TRUE, secret |-> Null, text |-> <<>>]

defaults(row) == [name |-> row.name, domain |-> row.domain, on |-> row.on, secret |-> Null, text |-> roleMapToText(row.map)]

\* The edit form's secret is left out when blank; a new connection sends it.
buildBody(kind, f, editing) ==
    [kind |-> kind, name |-> f.name, domain |-> f.domain, on |-> f.on, map |-> roleMapFromText(f.text),
     secret |-> IF kind = "saml" \/ (f.secret = Null /\ editing) THEN Omitted ELSE f.secret]

\* react-hook-form's required fields.
Complete(kind, f, editing) == f.name # "" /\ (kind = "ldap" /\ ~editing => f.secret # Null)

FormEdits(kind, f) ==
    ({[f EXCEPT !.name = "b"]} \cup {[f EXCEPT !.secret = secrets + 1]}
     \cup (IF kind = "ldap" THEN {[f EXCEPT !.text = @ \o roleMapToText(m)] : m \in RoleMaps}
                                 \cup {[f EXCEPT !.text = Append(@, <<"x">>)]}
                            ELSE {[f EXCEPT !.on = ~@], [f EXCEPT !.domain = IF @ = "none" THEN "d" ELSE "none"]})) \ {f}

-----------------------------------------------------------------------------
NoMap == [d \in {} |-> "viewer"]
NoRow == [live |-> FALSE, born |-> FALSE, kind |-> "none", name |-> "", domain |-> "none", on |-> FALSE,
          secret |-> Null, map |-> NoMap, ver |-> 0]
Live == {i \in Ids : rows[i].live}
\* What an answer shows of a row: whether it has a secret, never which.
Masked == -2
toDirectory(row) == [row EXCEPT !.secret = IF @ = Null THEN Null ELSE Masked]
Shown(table) == [i \in Ids |-> toDirectory(table[i])]
splitRequest(body) == IF body.secret = Omitted THEN Null ELSE body.secret
Tabs == 1..plan.tabs
NoSave == [at |-> "none", id |-> NoId, body |-> buildBody("saml", NewForm, TRUE), kept |-> Null, met |-> FALSE, opened |-> "none"]
NoTest == [at |-> "none", id |-> NoId, ok |-> FALSE, ver |-> 0, secret |-> Null]
\* The directory's own password: secret 1, what the first row was given.
Truth == 1

Seed(kind) == [live |-> TRUE, born |-> TRUE, kind |-> kind, name |-> "a", domain |-> "none", on |-> TRUE,
               secret |-> IF kind = "saml" THEN Null ELSE Truth, map |-> NoMap, ver |-> 1]

Init ==
    /\ plan \in Plans
    /\ \E k \in plan.kinds : rows = [i \in Ids |-> IF i <= plan.seeds THEN Seed(k) ELSE NoRow]
    /\ last = [i \in Ids |-> rows[i].secret]
    /\ mixed = {}
    /\ tab = [t \in Tabs |-> [list |-> Shown(rows), due |-> FALSE, mode |-> "list", id |-> NoId, kind |-> "none", form |-> NewForm,
                              save |-> NoSave, del |-> NoId, test |-> NoTest]]
    /\ secrets = Truth
    /\ used = [opens |-> 0, edits |-> 0, dels |-> 0, tests |-> 0, losses |-> 0]

Spend(what) == used[what] < plan[what] /\ used' = [used EXCEPT ![what] = @ + 1]
Set(t, r) == tab' = [tab EXCEPT ![t] = r]
Stored == <<rows, last, mixed>>

(***************************************************************************)
(* The console page.                                                       *)
(***************************************************************************)
\* The list query runs again after a write of this tab.
Refetch(t) ==
    /\ tab[t].due
    /\ Set(t, [tab[t] EXCEPT !.due = FALSE, !.list = Shown(rows)])
    /\ UNCHANGED <<plan, Stored, secrets, used>>

Add(t, kind) ==
    /\ tab[t].mode = "list" /\ kind \in plan.kinds
    /\ Spend("opens")
    /\ Set(t, [tab[t] EXCEPT !.mode = "creating", !.id = NoId, !.kind = kind, !.form = NewForm])
    /\ UNCHANGED <<plan, Stored, secrets>>

Edit(t, id) ==
    /\ tab[t].mode = "list" /\ tab[t].list[id].live
    /\ Spend("opens")
    /\ Set(t, [tab[t] EXCEPT !.mode = "editing", !.id = id, !.kind = tab[t].list[id].kind, !.form = defaults(tab[t].list[id])])
    /\ UNCHANGED <<plan, Stored, secrets>>

Type(t) ==
    /\ tab[t].mode \in {"creating", "editing"}
    /\ Spend("edits")
    /\ \E f \in FormEdits(tab[t].kind, tab[t].form) :
          /\ Set(t, [tab[t] EXCEPT !.form = f])
          /\ secrets' = IF f.secret > secrets THEN f.secret ELSE secrets
    /\ UNCHANGED <<plan, Stored>>

Cancel(t) ==
    /\ tab[t].mode # "list"
    /\ Set(t, [tab[t] EXCEPT !.mode = "list", !.test = IF @.at = "shown" THEN NoTest ELSE @])
    /\ UNCHANGED <<plan, Stored, secrets, used>>

Submit(t) ==
    /\ tab[t].mode \in {"creating", "editing"} /\ tab[t].save.at = "none"
    /\ LET editing == tab[t].mode = "editing" IN
       /\ Complete(tab[t].kind, tab[t].form, editing)
       /\ Set(t, [tab[t] EXCEPT !.save = [NoSave EXCEPT !.at = "sent", !.id = tab[t].id, !.opened = tab[t].mode,
                                                     !.body = buildBody(tab[t].kind, tab[t].form, editing)]])
    /\ UNCHANGED <<plan, Stored, secrets, used>>

(***************************************************************************)
(* The services.                                                           *)
(***************************************************************************)
\* One enabled provider per e-mail domain, by a partial unique index.
DomainTaken(body, id) ==
    body.domain # "none" /\ body.on /\ \E i \in Live \ {id} : rows[i].domain = body.domain /\ rows[i].on

RowOf(body, secret, old) ==
    [live |-> TRUE, born |-> TRUE, kind |-> body.kind, name |-> body.name, domain |-> body.domain, on |-> body.on,
     secret |-> secret, map |-> body.map, ver |-> old.ver + 1]

create(t) ==
    /\ tab[t].save.at = "sent" /\ tab[t].save.id = NoId
    /\ LET body == tab[t].save.body
           free == {i \in Ids : ~rows[i].born}
           id == CHOOSE i \in free : \A j \in free : i <= j
           secret == splitRequest(body)
       IN IF DomainTaken(body, NoId)
          THEN Set(t, [tab[t] EXCEPT !.save.at = "refused"]) /\ UNCHANGED Stored
          ELSE /\ free # {}
               /\ rows' = [rows EXCEPT ![id] = RowOf(body, secret, NoRow)]
               /\ last' = [last EXCEPT ![id] = secret]
               /\ Set(t, [tab[t] EXCEPT !.save.at = "ok", !.save.id = id]) /\ UNCHANGED mixed
    /\ UNCHANGED <<plan, secrets, used>>

\* Faulty variant: a secret that was left out is cleared.
KeptNone(body, existing) == Null

\* What an update writes for a secret the body leaves out.
Kept(body, existing) == IF body.kind = "saml" THEN Null ELSE existing

\* update, first statement: loadOwned and the immutable kind.
updateRead(t) ==
    /\ tab[t].save.at = "sent" /\ tab[t].save.id # NoId
    /\ LET s == tab[t].save IN
       Set(t, [tab[t] EXCEPT !.save = IF ~rows[s.id].live \/ rows[s.id].kind # s.body.kind THEN [s EXCEPT !.at = "refused"]
                                      ELSE [s EXCEPT !.at = "read", !.kept = Kept(s.body, rows[s.id].secret)]])
    /\ UNCHANGED <<plan, Stored, secrets, used>>

\* update, second statement: the whole row, with the secret read before.
updateWrite(t) ==
    /\ tab[t].save.at = "read"
    /\ LET s == tab[t].save
           secret == IF s.body.secret = Omitted THEN s.kept ELSE s.body.secret
       IN IF ~rows[s.id].live \/ DomainTaken(s.body, s.id)
          THEN Set(t, [tab[t] EXCEPT !.save.at = "refused"]) /\ UNCHANGED Stored
          ELSE /\ rows' = [rows EXCEPT ![s.id] = RowOf(s.body, secret, rows[s.id])]
               /\ last' = IF s.body.secret = Omitted THEN last ELSE [last EXCEPT ![s.id] = secret]
               /\ mixed' = IF s.body.secret # Omitted THEN mixed \ {s.id} ELSE IF s.met THEN mixed \cup {s.id} ELSE mixed
               /\ tab' = [z \in Tabs |-> IF z = t THEN [tab[t] EXCEPT !.save.at = "ok"]
                                         ELSE IF tab[z].save.at = "read" /\ tab[z].save.id = s.id
                                              THEN [tab[z] EXCEPT !.save.met = TRUE] ELSE tab[z]]
    /\ UNCHANGED <<plan, secrets, used>>

\* onSuccess: refetch the list and close the modal of the save's own sort,
\* whichever connection it shows by then.
Answer(t) ==
    /\ tab[t].save.at \in {"ok", "refused"}
    /\ LET r == [tab[t] EXCEPT !.save = NoSave] IN
       Set(t, IF tab[t].save.at = "refused" THEN r
              ELSE [r EXCEPT !.due = TRUE, !.mode = IF @ = tab[t].save.opened THEN "list" ELSE @])
    /\ UNCHANGED <<plan, Stored, secrets, used>>

Lost(t) ==
    /\ tab[t].save.at \in {"sent", "ok"}
    /\ Spend("losses")
    /\ Set(t, [tab[t] EXCEPT !.save = NoSave])
    /\ UNCHANGED <<plan, Stored, secrets>>

\* A confirmed delete; its answer refetches the list (a 404 does not).
remove(t, id) ==
    /\ tab[t].mode = "list" /\ tab[t].list[id].live
    /\ Spend("dels")
    /\ rows' = [rows EXCEPT ![id] = [NoRow EXCEPT !.born = TRUE, !.ver = rows[id].ver]]
    /\ last' = [last EXCEPT ![id] = Null]
    /\ mixed' = mixed \ {id}
    /\ Set(t, [tab[t] EXCEPT !.due = @ \/ rows[id].live])
    /\ UNCHANGED <<plan, secrets>>

(***************************************************************************)
(* "Test connection" of a directory: read the row, bind, show the verdict. *)
(***************************************************************************)
Manage(t, id) ==
    /\ tab[t].mode = "list" /\ tab[t].list[id].live /\ tab[t].list[id].kind = "ldap"
    /\ Spend("tests")
    /\ Set(t, [tab[t] EXCEPT !.mode = "managing", !.id = id, !.test = [NoTest EXCEPT !.at = "sent", !.id = id]])
    /\ UNCHANGED <<plan, Stored, secrets>>

testConnection(t) ==
    /\ tab[t].test.at = "sent"
    /\ LET x == tab[t].test IN
       Set(t, [tab[t] EXCEPT !.test = IF rows[x.id].live THEN [x EXCEPT !.at = "read", !.secret = rows[x.id].secret, !.ver = rows[x.id].ver]
                                      ELSE NoTest])
    /\ UNCHANGED <<plan, Stored, secrets, used>>

\* The bind takes the right password; the connection, TLS and the searches may fail besides.
fetchDirectory(t) ==
    /\ tab[t].test.at = "read"
    /\ \E reached \in BOOLEAN : LET ok == reached /\ tab[t].test.secret = Truth IN
       Set(t, [tab[t] EXCEPT !.test = IF tab[t].mode = "managing" THEN [@ EXCEPT !.at = "shown", !.ok = ok] ELSE NoTest])
    /\ UNCHANGED <<plan, Stored, secrets, used>>

Next ==
    \E t \in Tabs :
       \/ Refetch(t) \/ Type(t) \/ Cancel(t) \/ Submit(t)
       \/ \E kind \in {"oidc", "saml", "ldap"} : Add(t, kind)
       \/ \E id \in Ids : Edit(t, id) \/ remove(t, id) \/ Manage(t, id)
       \/ create(t) \/ updateRead(t) \/ updateWrite(t) \/ Answer(t) \/ Lost(t)
       \/ testConnection(t) \/ fetchDirectory(t)

Spec == Init /\ [][Next]_vars

-----------------------------------------------------------------------------
(***************************************************************************)
(* What the connections keep, whoever edits what: the stored secret is the *)
(* last one an administrator typed, however many edits left the field      *)
(* blank since, unless a blank edit overlapped another edit of the row     *)
(* (both services read the secret in one statement and write it back in    *)
(* the next, ldap.service.ts:161-209); a login's e-mail domain leads to    *)
(* one enabled provider; every stored role map survives the trip through   *)
(* the form's text; a test shown as passed vouches for the secret stored   *)
(* now, unless the row was written since the test read it (one that failed *)
(* says nothing of the secret: the directory may be out of reach).         *)
(***************************************************************************)
ConnectionsSound ==
    /\ \A i \in Live \ mixed : rows[i].secret = last[i]
    /\ \A i, j \in Live : rows[i].on /\ rows[j].on /\ rows[i].domain = rows[j].domain /\ rows[i].domain # "none" => i = j
    /\ \A i \in Live : roleMapFromText(roleMapToText(rows[i].map)) = rows[i].map
    /\ \A t \in Tabs : LET x == tab[t].test IN
          x.at = "shown" /\ x.ok /\ rows[x.id].ver = x.ver /\ rows[x.id].live => rows[x.id].secret = Truth
=============================================================================
