----------------------------- MODULE MCProjects -----------------------------
(* What clients ask Data Studio for in the runs. *)
EXTENDS Projects

CONSTANTS r1, r2, r3, r4

Create == [op |-> "create", id |-> r1]
Launch(p) == [op |-> "launch", id |-> p]
Get(p) == [op |-> "get", id |-> p]

AnyCall == {Create, Launch(r1), Get(r1), Launch(r2)}

OneKill == [l \in Loads |-> IF l = "any" THEN 1 ELSE 0]
=============================================================================
