---------------------------- MODULE MCProxyRelay ----------------------------
(* Values of the constants for the runs of the relay. *)
EXTENDS ProxyRelay

\* A short response and a longer one, different in the head and in the body.
TwoSizes == {[len |-> 1, cl |-> 1], [len |-> 2, cl |-> 2]}

\* Bodies of one byte, which no send cuts, behind two heads.
TwoHeads == {[len |-> 1, cl |-> 1], [len |-> 2, cl |-> 1]}
=============================================================================
