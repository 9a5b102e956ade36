----------------------------- MODULE MCRegistry -----------------------------
(* What clients ask the registry for in the runs. *)
EXTENDS RegistryEngine, TLC

CONSTANTS r1, r2, r3, k1, demo, d1, d2, seeded

Publish(k, d) == [op |-> "publish", key |-> k, digest |-> d, valid |-> TRUE]
Yank(k) == [op |-> "yank", key |-> k, digest |-> d1, valid |-> TRUE]
Get(k) == [op |-> "get", key |-> k, digest |-> d1, valid |-> TRUE]
NoToken(c) == [c EXCEPT !.valid = FALSE]

AnyCall ==
  {Publish(k1, d1), Publish(k1, d2), Yank(k1), Get(k1), Publish(demo, d2), Yank(demo),
   NoToken(Publish(k1, d2)), NoToken(Yank(demo))}
PublishCalls == {Publish(k1, d1), Publish(k1, d2)}

TwoKills == [l \in Loads |-> IF l = "serial" THEN 2 ELSE 0]
ListBeside == [l \in Loads |-> IF l = "spread" THEN 1 ELSE 0]
NoKill == [l \in Loads |-> 0]

EachMode == [l \in Loads |-> IF l = "serial" THEN {"mock", "missing", "stub", "ready"}
                             ELSE IF l = "spread" THEN {"stub"} ELSE {"mock"}]

Interchangeable == Permutations(Requests)
=============================================================================
