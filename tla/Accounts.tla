------------------------------- MODULE Accounts -------------------------------
(***************************************************************************)
(* Accounts, sessions and second factors (AuthService, SessionGuard),      *)
(* passkeys, single sign-on (SsoService) and API keys (ApiKeysService).    *)
(*                                                                         *)
(* A handler is cut at its awaits: what a step read before one is in its   *)
(* record, and may be stale when the next step writes.  A user stands for  *)
(* an e-mail address, and for the subject an identity provider asserts     *)
(* with it; secrets, challenges, login flows and sessions are fresh        *)
(* numbers.  A request that is refused before it writes is left out.       *)
(***************************************************************************)
EXTENDS Naturals, FiniteSets

CONSTANTS
  Users, Passkeys, Keys, Handlers,
  Scenarios,    \* kinds of request that are made together
  MaxRequests,  \* bound on requests
  MaxCounter,   \* bound on an authenticator's signature counter
  NoUser

\* Assumed of the constants, by the module that gives them values.
UsersAssumption == NoUser \notin Users

VARIABLES
  status,     \* users.status, "none" without a row
  mbox,       \* mailboxes.status of the mailbox with this address
  totp,       \* totp_enabled and totp_secret (0 is NULL)
  owners,     \* first owners made by bootstrap
  passkey,    \* webauthn_credentials: the owner, the stored counter and the id of the row
  device,     \* the authenticator's own counter
  challenge,  \* webauthn_challenges
  provider,   \* the row of sso_providers
  flow,       \* sso_login_flows
  ident,      \* sso_identities: subject to account
  key,        \* api_keys
  sess,       \* rows of sessions; box: bound to the mailbox with the user's address
  sealed,     \* sessions with a mailbox password in the credential store, until its TTL
  ops, req, requests, ids,
  confirmed,  \* history: secrets a code was checked against
  minted,     \* history: sessions with the challenge or flow they came from
  raced       \* history: rows that changed between a step's read and its write, passkeys whose
              \* logins overlapped, sessions that ended without a purge

accounts == <<status, mbox, totp, owners>>
passkeys == <<passkey, device, challenge>>
sso == <<provider, flow, ident>>
sessions == <<sess, sealed, minted>>
hist == <<confirmed, raced>>
vars == <<accounts, passkeys, sso, key, sessions, ops, req, requests, ids, hist>>

NoKey == [user |-> NoUser, counter |-> 0, id |-> 0]
Off == [on |-> FALSE, secret |-> 0]
Idle == [op |-> "idle", at |-> "idle", u |-> NoUser, was |-> "none", seen |-> Off, ok |-> FALSE,
         code |-> 0, n |-> 0, row |-> 0, ticket |-> 0, box |-> FALSE, p |-> NoUser,
         subject |-> NoUser]

Init ==
  /\ ops \in Scenarios
  /\ status \in [Users -> IF "bootstrap" \in ops THEN {"none"} ELSE {"none", "active"}]
  /\ mbox \in [Users -> IF "mailboxLogin" \in ops THEN {"none", "active", "suspended"} ELSE {"none"}]
  /\ totp = [u \in Users |-> Off] /\ owners = 0
  /\ passkey \in [Passkeys -> {NoKey} \cup {[user |-> u, counter |-> 0, id |-> 0] :
                     u \in {v \in Users : status[v] = "active" /\ "challenge" \in ops}}]
  /\ device = [p \in Passkeys |-> 0] /\ challenge = {}
  /\ provider = "enabled" /\ flow = {} /\ ident = [u \in Users |-> NoUser]
  /\ key = [k \in Keys |-> "none"]
  /\ sess = IF ops \cap {"setup", "challenge"} = {} THEN {}
            ELSE {[id |-> 0, user |-> u, box |-> FALSE] : u \in {v \in Users : status[v] = "active"}}
  /\ sealed = {} /\ minted = {}
  /\ req = [h \in Handlers |-> Idle] /\ requests = 0 /\ ids = 0
  /\ confirmed = {} /\ raced = {}
-----------------------------------------------------------------------------
AuthOps == {"bootstrap", "login", "logout", "setup", "verify2fa", "disable2fa",
            "challenge", "register", "removePasskey", "passkeyLogin"}
SsoOps == {"ssoBegin", "oidc", "saml"}
AdminOps == {"provider", "removeBox"}
KeyOps == {"apikey"}

Start(h, op) ==
  /\ req[h] = Idle /\ op \in ops \cap (AuthOps \cup SsoOps \cup AdminOps \cup KeyOps)
  /\ requests < MaxRequests /\ requests' = requests + 1
Continue(h, at) == req[h].at = at /\ UNCHANGED requests
Goto(h, r) == req' = [req EXCEPT ![h] = r]
Finish(h) == Goto(h, Idle)
Fresh == ids' = ids + 1
Stale(cond, what) == raced' = IF cond THEN raced \cup {what} ELSE raced

\* resolveSession joins the session with an active user.
Resolved(s) == status[s.user] = "active"

\* SessionGuard: whichever of the request's cookies resolves.
Principals == {s \in sess : Resolved(s)}

\* A directory or SCIM suspends and restores the account; its sessions stay.
SetStatus(u) ==
  /\ \/ status[u] = "active" /\ requests < MaxRequests /\ status' = [status EXCEPT ![u] = "suspended"]
     \/ status[u] = "suspended" /\ status' = [status EXCEPT ![u] = "active"]
  /\ "login" \in ops
  /\ UNCHANGED <<mbox, totp, owners, passkeys, sso, key, sessions, ops, req, requests, ids, hist>>
-----------------------------------------------------------------------------
(* Bootstrap: the count and the inserts under a transaction's advisory     *)
(* lock.                                                                   *)

BootstrapLocked == \E g \in Handlers : req[g].at = "insert"

BootstrapCount(h) ==
  /\ Start(h, "bootstrap") /\ ~BootstrapLocked
  /\ \A u \in Users : status[u] = "none"
  /\ \E u \in Users : Goto(h, [Idle EXCEPT !.op = "bootstrap", !.at = "insert", !.u = u])
  /\ UNCHANGED <<accounts, passkeys, sso, key, sessions, ops, ids, hist>>

BootstrapInsert(h) ==
  /\ Continue(h, "insert")
  /\ IF status[req[h].u] = "none"
       THEN /\ status' = [status EXCEPT ![req[h].u] = "active"] /\ owners' = owners + 1
            /\ Goto(h, [req[h] EXCEPT !.at = "session"])
       ELSE Finish(h) /\ UNCHANGED <<status, owners>>
  /\ UNCHANGED <<mbox, totp, passkeys, sso, key, sessions, ops, ids, hist>>
-----------------------------------------------------------------------------
(* Login, with the password of the account or of the mailbox.              *)

\* SELECT the user, then argon2.
LoginRead(h) ==
  /\ Start(h, "login")
  /\ \E u \in Users, ok \in BOOLEAN :
       \E code \in {0, totp[u].secret} :
         Goto(h, [Idle EXCEPT !.op = "login", !.at = "verify", !.u = u, !.ok = ok, !.code = code,
                              !.was = status[u], !.seen = totp[u]])
  /\ UNCHANGED <<accounts, passkeys, sso, key, sessions, ops, ids, hist>>

\* verifySync; a secret of NULL makes it throw.
CodeAccepted(code, secret) == secret # 0 /\ code = secret

LoginVerify(h) ==
  LET q == req[h] IN
  /\ Continue(h, "verify")
  /\ CASE q.was = "none" \/ ~q.ok -> Goto(h, [q EXCEPT !.at = "mailbox"])
       [] q.was = "active" /\ q.ok /\ (q.seen.on => CodeAccepted(q.code, q.seen.secret))
            -> Goto(h, [q EXCEPT !.at = "session"])
       [] OTHER -> Finish(h)
  /\ UNCHANGED <<accounts, passkeys, sso, key, sessions, ops, ids, hist>>

\* mailboxLogin: the mailbox's own hash.
MailboxLogin(h) ==
  /\ Continue(h, "mailbox")
  /\ \/ mbox[req[h].u] = "active" /\ Goto(h, [req[h] EXCEPT !.at = "shadow", !.box = TRUE])
     \/ Finish(h)
  /\ UNCHANGED <<accounts, passkeys, sso, key, sessions, ops, ids, hist>>

\* INSERT INTO users ... ON CONFLICT (email) DO UPDATE SET updated_at.
ShadowUser(h) ==
  /\ Continue(h, "shadow")
  /\ status' = [status EXCEPT ![req[h].u] = IF @ = "none" THEN "active" ELSE @]
  /\ Goto(h, [req[h] EXCEPT !.at = "session"])
  /\ UNCHANGED <<mbox, totp, owners, passkeys, sso, key, sessions, ops, ids, hist>>

\* INSERT INTO sessions; mailbox_id refers to a mailbox that is there.
CreateSession(h) ==
  LET q == req[h] IN
  /\ Continue(h, "session") /\ Fresh
  /\ q.box => mbox[q.u] # "none"
  /\ sess' = sess \cup {[id |-> ids', user |-> q.u, box |-> q.box]}
  /\ minted' = minted \cup {<<ids', q.ticket>>}
  /\ IF q.box THEN Goto(h, [q EXCEPT !.at = "store", !.n = ids']) ELSE Finish(h)
  /\ Stale(q.op = "login" /\ ~q.box /\ totp[q.u] # q.seen, <<"login", q.u>>)
  /\ UNCHANGED <<accounts, passkeys, sso, key, sealed, ops, confirmed>>

SessionRefused(h) ==
  /\ Continue(h, "session") /\ req[h].box /\ mbox[req[h].u] = "none"
  /\ Finish(h)
  /\ UNCHANGED <<accounts, passkeys, sso, key, sessions, ops, ids, hist>>

Live(id) == \E s \in sess : s.id = id

\* credStore.store, for a session that may have been revoked since.
StoreCredentials(h) ==
  /\ Continue(h, "store")
  /\ sealed' = sealed \cup {req[h].n}
  /\ Stale(~Live(req[h].n), <<"sealed", req[h].n>>)
  /\ Finish(h)
  /\ UNCHANGED <<accounts, passkeys, sso, key, sess, minted, ops, ids, confirmed>>

\* logout and revokeSession: the row first ...
DeleteSession(h) ==
  /\ Start(h, "logout")
  /\ \E s \in Principals : \E t \in {x \in sess : x.user = s.user} :
       /\ sess' = sess \ {t}
       /\ Goto(h, [Idle EXCEPT !.op = "logout", !.at = "purge", !.n = t.id, !.u = t.user])
  /\ UNCHANGED <<accounts, passkeys, sso, key, sealed, minted, ops, ids, hist>>

\* ... then the credentials (and the IMAP session and the watcher, WebmailSession).
PurgeSession(h) ==
  /\ Continue(h, "purge")
  /\ sealed' = sealed \ {req[h].n}
  /\ Finish(h)
  /\ UNCHANGED <<accounts, passkeys, sso, key, sess, minted, ops, ids, hist>>

\* The store does not answer, or the process dies: the row is gone, and nobody purges again.
PurgeFails(h) ==
  /\ Continue(h, "purge")
  /\ Stale(TRUE, <<"sealed", req[h].n>>)
  /\ Finish(h)
  /\ UNCHANGED <<accounts, passkeys, sso, key, sessions, ops, ids, confirmed>>

\* MailboxesService.remove, or the end of its domain: the sessions bound to the mailbox go with
\* it, and what the credential store holds for them does not.
RemoveBox(h) ==
  /\ Start(h, "removeBox")
  /\ \E u \in {v \in Users : mbox[v] # "none"} :
       LET bound == {s \in sess : s.user = u /\ s.box} IN
       /\ mbox' = [mbox EXCEPT ![u] = "none"]
       /\ sess' = sess \ bound
       /\ raced' = raced \cup {<<"sealed", s.id>> : s \in bound}
  /\ UNCHANGED <<status, totp, owners, passkeys, sso, key, sealed, minted, ops, req, ids, confirmed>>
-----------------------------------------------------------------------------
(* Time-based codes.                                                       *)

\* The row, and for verifyTwoFa a code that is valid for the secret in it.
TwoFaRead(h) ==
  \E op \in {"setup", "verify2fa", "disable2fa"} :
    /\ Start(h, op)
    /\ \E s \in Principals :
         LET u == s.user IN
         /\ op = "setup" => ~totp[u].on
         /\ op = "verify2fa" => ~totp[u].on /\ totp[u].secret # 0
         /\ confirmed' = IF op = "verify2fa" THEN confirmed \cup {<<u, totp[u].secret>>} ELSE confirmed
         /\ Goto(h, [Idle EXCEPT !.op = op, !.at = "factor", !.u = u, !.seen = totp[u]])
    /\ UNCHANGED <<accounts, passkeys, sso, key, sessions, ops, ids, raced>>

\* setupTwoFa stores a new secret whatever is there now.
SetupTwoFa(h) ==
  LET u == req[h].u IN
  /\ Continue(h, "factor") /\ req[h].op = "setup" /\ Fresh
  /\ totp' = [totp EXCEPT ![u].secret = ids']
  /\ Stale(totp[u].on, <<"totp", u>>)
  /\ Finish(h)
  /\ UNCHANGED <<status, mbox, owners, passkeys, sso, key, sessions, ops, confirmed>>

\* verifyTwoFa enables the secret that is in the row now.
EnableTwoFa(h) ==
  LET u == req[h].u IN
  /\ Continue(h, "factor") /\ req[h].op = "verify2fa"
  /\ totp' = [totp EXCEPT ![u].on = TRUE]
  /\ Stale(totp[u].secret # req[h].seen.secret, <<"totp", u>>)
  /\ Finish(h)
  /\ UNCHANGED <<status, mbox, owners, passkeys, sso, key, sessions, ops, ids, confirmed>>

DisableTwoFa(h) ==
  LET u == req[h].u IN
  /\ Continue(h, "factor") /\ req[h].op = "disable2fa"
  /\ totp' = [totp EXCEPT ![u] = Off]
  /\ raced' = raced \ {<<"totp", u>>}
  /\ Finish(h)
  /\ UNCHANGED <<status, mbox, owners, passkeys, sso, key, sessions, ops, ids, confirmed>>
-----------------------------------------------------------------------------
(* Passkeys.                                                               *)

StoreChallenge(kind, u) ==
  /\ Fresh
  /\ challenge' = challenge \cup {[id |-> ids', kind |-> kind, user |-> u]}
  /\ UNCHANGED <<accounts, passkey, device, sso, key, sessions, ops, req, hist>>

RegisterOptions(h) == Start(h, "challenge") /\ \E s \in Principals : StoreChallenge("register", s.user)

\* For an active account with the address, or for any resident passkey.
AuthOptions(h) ==
  /\ Start(h, "challenge")
  /\ \E u \in {v \in Users : status[v] = "active"} \cup {NoUser} : StoreChallenge("auth", u)

ExpireChallenge(c) ==
  /\ challenge' = challenge \ {c}
  /\ UNCHANGED <<accounts, passkey, device, sso, key, sessions, ops, req, requests, ids, hist>>

\* DELETE the newest challenge of the user; the answer may be to an older one.
RegisterVerify(h) ==
  /\ Start(h, "register")
  /\ \E s \in Principals, p \in Passkeys, answered \in BOOLEAN :
       LET mine == {c \in challenge : c.kind = "register" /\ c.user = s.user} IN
       \E c \in mine :
         /\ \A d \in mine : d.id <= c.id
         /\ challenge' = challenge \ {c}
         /\ Goto(h, IF answered THEN [Idle EXCEPT !.op = "register", !.at = "credential", !.u = s.user, !.p = p]
                                ELSE Idle)
  /\ UNCHANGED <<accounts, passkey, device, sso, key, sessions, ops, ids, hist>>

\* INSERT; credential_id is unique.
RegisterInsert(h) ==
  LET p == req[h].p IN
  /\ Continue(h, "credential") /\ req[h].op = "register" /\ Fresh
  /\ passkey' = IF passkey[p] # NoKey THEN passkey
                ELSE [passkey EXCEPT ![p] = [user |-> req[h].u, counter |-> device[p], id |-> ids']]
  /\ Finish(h)
  /\ UNCHANGED <<accounts, device, challenge, sso, key, sessions, ops, hist>>

RemovePasskey(h) ==
  /\ Start(h, "removePasskey")
  /\ \E s \in Principals : \E p \in {x \in Passkeys : passkey[x].user = s.user} :
       passkey' = [passkey EXCEPT ![p] = NoKey]
  /\ UNCHANGED <<accounts, device, challenge, sso, key, sessions, ops, req, ids, hist>>

\* Faulty variant: the challenge is read and left.
ConsumedNot(c) == {}

Consumed(c) == {c}

\* passkeyAuthVerify: DELETE ... RETURNING, for an assertion of some authenticator.
AuthConsume(h) ==
  /\ Start(h, "passkeyLogin")
  /\ \E c \in {x \in challenge : x.kind = "auth"}, p \in {x \in Passkeys : device[x] < MaxCounter} :
       /\ challenge' = challenge \ Consumed(c)
       /\ device' = [device EXCEPT ![p] = @ + 1]
       /\ Goto(h, [Idle EXCEPT !.op = "passkeyLogin", !.at = "credential", !.u = c.user, !.p = p,
                               !.n = device[p] + 1, !.ticket = c.id])
  /\ UNCHANGED <<accounts, passkey, sso, key, sessions, ops, ids, hist>>

\* verifyAuthentication.
CounterAccepted(n, stored) == n > stored

\* The stored credential; another login with it may be between this read and its update.
AuthLoad(h) ==
  LET q == req[h]  c == passkey[q.p] IN
  /\ Continue(h, "credential") /\ q.op = "passkeyLogin"
  /\ Stale(\E g \in Handlers : req[g].at = "counter" /\ req[g].p = q.p, <<"counter", q.p>>)
  /\ IF /\ c # NoKey /\ CounterAccepted(q.n, c.counter)
        /\ q.u \in {NoUser, c.user}
        /\ q.u = NoUser => status[c.user] = "active"
       THEN Goto(h, [q EXCEPT !.at = "counter", !.u = c.user, !.row = c.id])
       ELSE Finish(h)
  /\ UNCHANGED <<accounts, passkeys, sso, key, sessions, ops, ids, confirmed>>

\* UPDATE ... WHERE id: the row that was loaded, if it is still there.
AuthCounter(h) ==
  LET q == req[h]  there == passkey[q.p] # NoKey /\ passkey[q.p].id = q.row IN
  /\ Continue(h, "counter")
  /\ passkey' = IF there THEN [passkey EXCEPT ![q.p].counter = q.n] ELSE passkey
  /\ Goto(h, [q EXCEPT !.at = "session"])
  /\ UNCHANGED <<accounts, device, challenge, sso, key, sessions, ops, ids, hist>>
-----------------------------------------------------------------------------
(* Single sign-on.                                                         *)

\* beginLogin: loadEnabled, then the flow with its state.
BeginLogin(h) ==
  /\ Start(h, "ssoBegin") /\ provider = "enabled" /\ Fresh
  /\ flow' = flow \cup {ids'}
  /\ UNCHANGED <<accounts, passkeys, provider, ident, key, sessions, ops, req, hist>>

ExpireFlow(f) ==
  /\ flow' = flow \ {f}
  /\ UNCHANGED <<accounts, passkeys, provider, ident, key, sessions, ops, req, requests, ids, hist>>

\* completeOidc: DELETE the flow by its state, whatever follows.
ConsumeFlow(h) ==
  /\ Start(h, "oidc")
  /\ \E f \in flow :
       /\ flow' = flow \ Consumed(f)
       /\ Goto(h, [Idle EXCEPT !.op = "oidc", !.at = "exchange", !.ticket = f])
  /\ UNCHANGED <<accounts, passkeys, provider, ident, key, sessions, ops, ids, hist>>

\* loadEnabled, the code exchange and the id_token.
ExchangeCode(h) ==
  /\ Continue(h, "exchange")
  /\ \/ /\ provider = "enabled"
        /\ \E v \in Users, e \in Users \cup {NoUser} :
             Goto(h, [req[h] EXCEPT !.at = "link", !.subject = v, !.u = e])
     \/ Finish(h)
  /\ UNCHANGED <<accounts, passkeys, sso, key, sessions, ops, ids, hist>>

\* completeSaml: the flow only says where to return to.
CompleteSaml(h) ==
  /\ Start(h, "saml") /\ provider = "enabled"
  /\ \E f \in SUBSET flow : Cardinality(f) <= 1 /\ flow' = flow \ f
  /\ \E v \in Users, e \in Users \cup {NoUser} :
       Goto(h, [Idle EXCEPT !.op = "saml", !.at = "link", !.subject = v, !.u = e])
  /\ UNCHANGED <<accounts, passkeys, provider, ident, key, sessions, ops, ids, hist>>

\* provisionAndSession, the reads of its transaction.
Link(h) ==
  LET q == req[h]  to == ident[q.subject] IN
  /\ Continue(h, "link")
  /\ \/ /\ to # NoUser /\ status[to] = "active"
        /\ Goto(h, [q EXCEPT !.at = "session", !.u = to])
     \/ /\ to = NoUser /\ q.u # NoUser /\ status[q.u] # "suspended"
        /\ Goto(h, [q EXCEPT !.at = "provision", !.was = status[q.u]])
     \/ /\ IF to # NoUser THEN status[to] # "active" ELSE q.u # NoUser => status[q.u] # "active"
        /\ Finish(h)
  /\ UNCHANGED <<accounts, passkeys, sso, key, sessions, ops, ids, hist>>

\* The primary key (provider_id, subject).
LinkFree(subject) == ident[subject] = NoUser

\* The inserts: an account, the membership, the link; one that fails fails all.
Provision(h) ==
  LET q == req[h] IN
  /\ Continue(h, "provision")
  /\ IF provider # "none" /\ LinkFree(q.subject) /\ (q.was = "none" => status[q.u] = "none")
       THEN /\ status' = [status EXCEPT ![q.u] = IF q.was = "none" THEN "active" ELSE @]
            /\ ident' = [ident EXCEPT ![q.subject] = q.u]
            /\ Goto(h, [q EXCEPT !.at = "session"])
       ELSE Finish(h) /\ UNCHANGED <<status, ident>>
  /\ UNCHANGED <<mbox, totp, owners, passkeys, provider, flow, key, sessions, ops, ids, hist>>

\* create, update and remove of the provider; remove cascades.
ProviderChange(h) ==
  /\ Start(h, "provider")
  /\ \/ provider # "none" /\ provider' \in {"enabled", "disabled"} /\ UNCHANGED <<flow, ident>>
     \/ provider # "none" /\ provider' = "none" /\ flow' = {} /\ ident' = [u \in Users |-> NoUser]
     \/ provider = "none" /\ provider' = "enabled" /\ UNCHANGED <<flow, ident>>
  /\ UNCHANGED <<accounts, passkeys, key, sessions, ops, req, ids, hist>>
-----------------------------------------------------------------------------
(* API keys: create, revoke (WHERE revoked_at IS NULL), and resolve, whose *)
(* request acts for the key it read.                                       *)

KeyChange(h) ==
  /\ Start(h, "apikey")
  /\ \E k \in Keys :
       \/ key[k] = "none" /\ key' = [key EXCEPT ![k] = "live"]
       \/ key[k] \in {"live", "expired"} /\ key' = [key EXCEPT ![k] = "revoked"]
  /\ UNCHANGED <<accounts, passkeys, sso, sessions, ops, req, ids, hist>>

ExpireKey(k) ==
  /\ key[k] = "live"
  /\ key' = [key EXCEPT ![k] = "expired"]
  /\ UNCHANGED <<accounts, passkeys, sso, sessions, ops, req, requests, ids, hist>>
-----------------------------------------------------------------------------
Step(h) ==
  \/ BootstrapCount(h) \/ BootstrapInsert(h)
  \/ LoginRead(h) \/ LoginVerify(h) \/ MailboxLogin(h) \/ ShadowUser(h)
  \/ CreateSession(h) \/ SessionRefused(h) \/ StoreCredentials(h)
  \/ DeleteSession(h) \/ PurgeSession(h) \/ PurgeFails(h) \/ RemoveBox(h)
  \/ TwoFaRead(h) \/ SetupTwoFa(h) \/ EnableTwoFa(h) \/ DisableTwoFa(h)
  \/ RegisterOptions(h) \/ AuthOptions(h) \/ RegisterVerify(h) \/ RegisterInsert(h) \/ RemovePasskey(h)
  \/ AuthConsume(h) \/ AuthLoad(h) \/ AuthCounter(h)
  \/ BeginLogin(h) \/ ConsumeFlow(h) \/ ExchangeCode(h) \/ CompleteSaml(h)
  \/ Link(h) \/ Provision(h) \/ ProviderChange(h) \/ KeyChange(h)

Next ==
  \/ \E h \in Handlers : Step(h)
  \/ \E u \in Users : SetStatus(u)
  \/ \E c \in challenge : ExpireChallenge(c)
  \/ \E f \in flow : ExpireFlow(f)
  \/ \E k \in Keys : ExpireKey(k)

Spec == Init /\ [][Next]_vars
-----------------------------------------------------------------------------
(* Properties.                                                             *)

TypeOK ==
  /\ status \in [Users -> {"none", "active", "suspended"}]
  /\ totp \in [Users -> [on : BOOLEAN, secret : Nat]]
  /\ \A s \in sess : status[s.user] # "none"
  /\ \A u \in Users : ident[u] # NoUser => status[ident[u]] # "none" /\ provider # "none"

\* Bootstrap makes one first owner ("can't race two callers into both becoming the
\* first owner"); an enabled second factor has a secret a code was checked against, unless
\* the row changed between a handler's read and its write; one challenge or login flow gives
\* one session; the password of a mailbox is kept only for a session that exists or is being
\* deleted, or whose end was followed by no purge: the mailbox took it along, the purge failed,
\* or the password was stored after it.
AccountsSound ==
  /\ TypeOK
  /\ owners <= 1
  /\ \A u \in Users : totp[u].on => <<u, totp[u].secret>> \in confirmed \/ <<"totp", u>> \in raced
  /\ \A a, b \in minted : a[2] # 0 /\ a[2] = b[2] => a = b
  /\ \A id \in sealed :
       \/ Live(id)
       \/ \E h \in Handlers : req[h].at = "purge" /\ req[h].n = id
       \/ <<"sealed", id>> \in raced

\* A subject stays linked to its account until the provider is removed; a passkey's
\* counter goes back only if two logins with it had overlapped; and a password alone never
\* opens a session of an account with a second factor, unless what the handler had read has
\* changed.
AccountStep ==
  /\ provider' # "none" => \A u \in Users : ident[u] # NoUser => ident'[u] = ident[u]
  /\ \A p \in Passkeys : passkey'[p].id = passkey[p].id /\ passkey'[p] # NoKey =>
       passkey'[p].counter >= passkey[p].counter \/ <<"counter", p>> \in raced
  /\ \A h \in Handlers : LET q == req[h] IN
       q.at = "session" /\ q.op = "login" /\ ~q.box /\ req'[h] = Idle /\ totp[q.u].on =>
         CodeAccepted(q.code, totp[q.u].secret) \/ <<"login", q.u>> \in raced'
===============================================================================
