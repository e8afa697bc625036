------------------------------- MODULE OidcKeys -------------------------------
(***************************************************************************)
(* The key an OIDC id_token is verified with (oidc.ts): resolveKey picks   *)
(* it from the provider's key set, which is cached until it expires, and   *)
(* may fetch the set again.  Keys are numbered as the provider makes them; *)
(* it signs with its newest and publishes its newest two.                  *)
(***************************************************************************)
EXTENDS Naturals, Sequences

CONSTANT MaxKeys

VARIABLES
  newest,   \* the provider's signing key
  cached,   \* the key set in jwksCache
  fresh,    \* its entry has not expired
  login     \* the id_token that is verified, and what came of it

vars == <<newest, cached, fresh, login>>

None == [kid |-> 0, at |-> "idle", key |-> 0]

Init == newest = 0 /\ cached = <<>> /\ fresh = FALSE /\ login = None

Published == SubSeq(<<newest, newest - 1>>, 1, IF newest < 2 THEN newest ELSE 2)

Rotate ==
  /\ newest < MaxKeys
  /\ newest' = newest + 1
  /\ UNCHANGED <<cached, fresh, login>>

ExpireCache ==
  /\ fresh' = FALSE
  /\ UNCHANGED <<newest, cached, login>>

\* exchangeCode returns a token signed now.
TokenIssued ==
  /\ login.at \in {"idle", "done"} /\ newest > 0
  /\ login' = [kid |-> newest, at |-> "load", key |-> 0]
  /\ UNCHANGED <<newest, cached, fresh>>

\* pick: the key with the token's kid, or the first one, or 0 of an empty set.
Pick(keys, kid) ==
  IF \E i \in DOMAIN keys : keys[i] = kid THEN kid ELSE IF keys = <<>> THEN 0 ELSE keys[1]

\* load(false), and load(true) when that gave no key.
ResolveKey ==
  LET loaded == IF fresh THEN cached ELSE Published
      keys == IF Pick(loaded, login.kid) = 0 THEN Published ELSE loaded IN
  /\ login.at = "load"
  /\ cached' = keys /\ fresh' = TRUE
  /\ login' = [login EXCEPT !.at = "verify", !.key = Pick(keys, login.kid)]
  /\ UNCHANGED newest

\* verifyIdToken: the signature, then the claims.
VerifyIdToken ==
  /\ login.at = "verify"
  /\ login' = [login EXCEPT !.at = "done"]
  /\ UNCHANGED <<newest, cached, fresh>>

Next == Rotate \/ ExpireCache \/ TokenIssued \/ ResolveKey \/ VerifyIdToken

Spec == Init /\ [][Next]_vars

\* "A rotated key may not be cached yet - refetch once before giving up"
\* (oidc.ts:158): a token of a key the provider publishes is verified with it.
RotatedKeyIsFetched ==
  login.at = "verify" /\ (\E i \in DOMAIN Published : Published[i] = login.kid) => login.key = login.kid
===============================================================================
