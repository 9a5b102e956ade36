----------------------------- MODULE EventFeed -----------------------------
(***************************************************************************)
(* What a listener of the changefeed may count on: of every source it is   *)
(* handed the events in the order they were written, each once, and none   *)
(* is left out.  Lines that are not events (log entries other than         *)
(* "event") may be passed over.  The sources are not ordered among each    *)
(* other.                                                                  *)
(***************************************************************************)
EXTENDS Naturals, Sequences

CONSTANTS Sources, Kinds

VARIABLES
  log,      \* what was written to each source, a sequence of kinds of lines
  handed    \* what the listener was handed, a sequence of [src, line]

Init ==
  /\ log = [s \in Sources |-> <<>>]
  /\ handed = <<>>

Write(s, kind) ==
  /\ log' = [log EXCEPT ![s] = Append(@, kind)]
  /\ UNCHANGED handed

HandedOf(s) == {handed[i].line : i \in {i \in DOMAIN handed : handed[i].src = s}}

\* Line k of source s is the next one to hand over.
NextOf(s, k) ==
  /\ k \in DOMAIN log[s]
  /\ \A n \in HandedOf(s) : n < k
  /\ \A n \in 1..(k - 1) : log[s][n] = "event" => n \in HandedOf(s)

Hand(s, k) ==
  /\ NextOf(s, k)
  /\ handed' = Append(handed, [src |-> s, line |-> k])
  /\ UNCHANGED log

Next ==
  \E s \in Sources :
    \/ \E kind \in Kinds : Write(s, kind)
    \/ \E k \in DOMAIN log[s] : Hand(s, k)

Spec == Init /\ [][Next]_<<log, handed>>
=============================================================================
