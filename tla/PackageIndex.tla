---------------------------- MODULE PackageIndex ----------------------------
(***************************************************************************)
(* The registry as openapi/registry-v1.yaml describes it to one client at  *)
(* a time: every request takes effect at one instant, and its outcome is   *)
(* the one the index then calls for.                                       *)
(***************************************************************************)
CONSTANTS Requests, Keys, Calls, Absent, DemoKey, DemoDigest

VARIABLES
  call,     \* request: what it asks for
  index,    \* what is published: Absent, or [digest, yanked]
  outcome   \* request: "none", or what it was decided to be

vars == <<call, index, outcome>>

Init ==
  /\ call \in [Requests -> Calls]
  /\ index = [k \in Keys |-> IF k = DemoKey THEN [digest |-> DemoDigest, yanked |-> FALSE]
                                            ELSE Absent]
  /\ outcome = [r \in Requests |-> "none"]

Decide(r, status, k, entry) ==
  /\ outcome[r] = "none"
  /\ outcome' = [outcome EXCEPT ![r] = status]
  /\ index' = [index EXCEPT ![k] = entry]
  /\ UNCHANGED call

Publish(r, k, digest) ==
  \/ /\ index[k] = Absent
     /\ Decide(r, "published", k, [digest |-> digest, yanked |-> FALSE])
  \/ /\ index[k] # Absent /\ index[k].digest = digest
     /\ Decide(r, "published", k, index[k])
  \/ /\ index[k] # Absent /\ index[k].digest # digest
     /\ Decide(r, "conflict", k, index[k])

Yank(r, k) ==
  \/ /\ index[k] = Absent
     /\ Decide(r, "not_found", k, Absent)
  \/ /\ index[k] # Absent /\ index[k].yanked
     /\ Decide(r, "conflict", k, index[k])
  \/ /\ index[k] # Absent /\ ~index[k].yanked
     /\ Decide(r, "yanked", k, [index[k] EXCEPT !.yanked = TRUE])

Get(r, k) ==
  Decide(r, IF index[k] = Absent THEN "not_found"
            ELSE IF index[k].yanked THEN "gone" ELSE "found", k, index[k])

\* A request without what the operation requires changes nothing.
Reject(r) == Decide(r, "rejected", call[r].key, index[call[r].key])

Handle(r) ==
  LET c == call[r] IN
  \/ ~c.valid /\ Reject(r)
  \/ c.valid /\ c.op = "publish" /\ Publish(r, c.key, c.digest)
  \/ c.valid /\ c.op = "yank" /\ Yank(r, c.key)
  \/ c.valid /\ c.op = "get" /\ Get(r, c.key)

Next == \E r \in Requests : Handle(r)

Spec == Init /\ [][Next]_vars
=============================================================================
