---------------------------- MODULE MCChangefeed ----------------------------
(***************************************************************************)
(* Worlds of Changefeed for model checking: the environment, and the lines *)
(* written to the native changefeed, the WAL file and the mock file.       *)
(***************************************************************************)
EXTENDS Changefeed

World(native, lib, late, kinds, lines, bad) ==
  [native |-> native, lib |-> lib, late |-> late, kinds |-> kinds, lines |-> lines, fails |-> bad]

Torn == {"event", "head", "tail"}

Calm == {World("1", "opens", FALSE, Torn \cup {"junk"}, <<1, 2, 1>>, 0)}

\* Every way to settle the mode, with threads and helpers that are late, reads
\* that fail and lines that kill a poller.
Rough ==
  {World("1", "opens", TRUE, {"event", "poison"}, <<2, 1, 0>>, 1),
   World("subprocess", "opens", TRUE, {"event", "poison"}, <<1, 1, 0>>, 1)}
  \cup {World(native, lib, FALSE, {"event"}, <<1, 1, 0>>, 1) :
          native \in {"0", "1", "subprocess"}, lib \in {"absent", "broken"}}

AllWorlds == Calm \cup Rough

FilesOnly == {World("0", "absent", FALSE, Torn, <<0, 3, 0>>, 0)}
=============================================================================
