----------------------------- MODULE MCRealtime -----------------------------
(***************************************************************************)
(* Values of the constants of Realtime for model checking.                 *)
(***************************************************************************)
EXTENDS Realtime, TLC

CONSTANTS c1, c2, c3, i1, i2, t1, t2, pubA, pubB

Jwt(role, sub, publisher) ==
  [ascii |-> TRUE, wellFormed |-> TRUE, signed |-> TRUE,
   payload |-> [role |-> role, sub |-> sub, publisher_id |-> publisher]]

ServiceToken == Jwt("service_role", "ops", None)
TenantToken  == Jwt("authenticated", "user", pubA)
BadToken     == [ServiceToken EXCEPT !.signed = FALSE]
OddToken     == [ServiceToken EXCEPT !.ascii = FALSE]

OneToken    == {ServiceToken}
TenantOrBad == {TenantToken, BadToken}
AllTokens == {TenantToken, BadToken, OddToken, None}

Sub(table, event) == [table |-> table, event |-> event, schema |-> "public"]
Row(table, op, publisher) ==
  [table |-> table, schema |-> "public", op |-> op,
   record |-> [publisher_id |-> publisher]]

OneConfig   == {<<Sub("*", "*")>>}
PairConfig  == {<<Sub("*", "*"), Sub("packages", "INSERT")>>}
MixedConfig == {<<Sub("packages", "DELETE"), Sub("*", "*")>>}

OneEvent     == {Row("packages", "insert", pubA)}
TenantEvents == {Row("packages", "insert", pubA), Row("packages", "insert", pubB)}

Names == Permutations({i1, i2}) \cup Permutations({t1, t2})
=============================================================================
