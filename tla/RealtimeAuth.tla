---------------------------- MODULE RealtimeAuth ----------------------------
(***************************************************************************)
(* The pure decisions of the realtime routes: which claims a JWT stands    *)
(* for, whether a join is accepted, whether a subscription matches a       *)
(* changefeed event, and whether the row filter lets a row through.        *)
(* Translated from routes/realtime/auth.py, session.py and server.py.      *)
(***************************************************************************)
EXTENDS Sequences

CONSTANTS
  None,         (* Python's None: an absent claim, column or token          *)
  JwtSecretSet, (* LI_REALTIME_JWT_SECRET is set                            *)
  RequireAuth   (* LI_REALTIME_REQUIRE_AUTH is "1"                          *)

(***************************************************************************)
(* A token is None or a record [ascii, wellFormed, signed, payload], the   *)
(* payload a record [role, sub, publisher_id] of claims or None.           *)
(***************************************************************************)
NoPayload == [role |-> None, sub |-> None, publisher_id |-> None]

\* The bytes under the signature are encoded as ASCII outside of any try.
Unreadable(token) == JwtSecretSet /\ token # None /\ ~token.ascii

\* Three parts, base64, JSON object; with a secret also a matching signature.
_decode_jwt_payload(token) ==
  IF token.wellFormed /\ (JwtSecretSet => token.signed)
  THEN token.payload
  ELSE NoPayload

claims_from_access_token(token) ==
  IF token = None
  THEN [role |-> "anon", sub |-> None, publisher_id |-> None]
  ELSE LET payload == _decode_jwt_payload(token)
       IN  [payload EXCEPT !.role = IF @ = None THEN "authenticated" ELSE @]

\* The token of the phx_join payload wins over the apikey of the query.
_resolve_claims(access_token, query_claims) ==
  IF access_token # None
  THEN claims_from_access_token(access_token)
  ELSE query_claims

authorize_join(claims) ==
  RequireAuth => ~(claims.role = "anon" /\ claims.sub = None)

\* Mutant: claims without a publisher see every row, whatever their role.
rls_allows_row_open(claims, row) ==
  \/ claims.role = "service_role"
  \/ claims.publisher_id = None
  \/ row.publisher_id \in {None, claims.publisher_id}

rls_allows_row(claims, row) ==
  \/ claims.role = "service_role"
  \/ claims.publisher_id = None /\ claims.role = "anon"
  \/ /\ claims.publisher_id # None
     /\ row.publisher_id \in {None, claims.publisher_id}

-----------------------------------------------------------------------------
\* The three operations the changefeed names are renamed; any other operation
\* is upper-cased, which leaves it different from the three.
_wal_op_to_pg(op) ==
  CASE op = "insert" -> "INSERT"
    [] op = "update" -> "UPDATE"
    [] op = "delete" -> "DELETE"
    [] OTHER         -> "OTHER"

_matches(pattern, value) == pattern \in {"*", value}

event_matches(sub, event) ==
  /\ _matches(sub.schema, event.schema)
  /\ _matches(sub.table, event.table)
  /\ _matches(sub.event, _wal_op_to_pg(event.op))

\* One postgres_changes message goes out for each subscription of a session
\* that the event matches, if the row filter lets the row through.
Delivers(session, k, event) ==
  /\ event_matches(session.subs[k], event)
  /\ rls_allows_row(session.claims, event.record)
=============================================================================
