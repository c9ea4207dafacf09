-------------------------------- MODULE Auth --------------------------------
(***************************************************************************)
(* Auth.cpp: which lines a secrets file may have, and who may enter.       *)
(*                                                                         *)
(* A token rule is a record [name, secret, form, scopes, expires].  form   *)
(* says how the secret is written: "sha256", "plain", or "broken" for a    *)
(* hash without 64 digits.  Secrets are told apart by their hashes: SHA-256*)
(* is taken for injective and the comparison, of constant time, for =.     *)
(* expires is 0 for never, and negative where no number was written.       *)
(***************************************************************************)
EXTENDS Integers, Sequences, FiniteSetsExt

Rule(name, secret, form, scopes, expires) ==
    [name |-> name, secret |-> secret, form |-> form, scopes |-> scopes, expires |-> expires]

(* parseTokenRule, for a line of the secrets file: otherwise it throws.    *)
Readable(rule) ==
    /\ rule.form = "sha256" /\ rule.expires >= 0
    /\ rule.name # "" /\ rule.scopes # {}

(* loadSecretsFile throws at the first line that is not.                   *)
FileReadable(lines) == \A i \in DOMAIN lines : Readable(lines[i])

hasScope(rule, scope) == {"*", scope} \cap rule.scopes # {}
isExpired(rule, at) == rule.expires > 0 /\ at >= rule.expires

(* Mutant: an expired rule is passed over, and a later one may match. *)
MatchingUnexpired(q, tokens, at) ==
    {i \in DOMAIN tokens : tokens[i].secret = q.secret /\ ~isExpired(tokens[i], at)}

Matching(q, tokens, at) == {i \in DOMAIN tokens : tokens[i].secret = q.secret}

(* Auth::authorize for what a request presents, [header, secret, scope]:   *)
(* the first rule with the secret decides, the legacy token comes last.    *)
Authorize(q, tokens, legacy, at) ==
    LET matching == Matching(q, tokens, at)
        first    == tokens[Min(matching)]
    IN  IF q.header = "none" THEN "auth_missing"
        ELSE IF q.header # "bearer" THEN "auth_invalid"
        ELSE IF matching = {}
             THEN IF legacy = q.secret THEN "auth_allowed" ELSE "auth_invalid"
        ELSE IF isExpired(first, at) THEN "auth_expired"
        ELSE IF hasScope(first, q.scope) THEN "auth_allowed"
        ELSE "auth_scope_denied"
=============================================================================
