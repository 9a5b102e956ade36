----------------------------- MODULE Changefeed -----------------------------
(***************************************************************************)
(* ChangefeedSource of routes/realtime/changefeed.py: poll threads that    *)
(* collect the new lines of three sources (the native lidb changefeed and  *)
(* two JSONL files other processes append to) and hand the events to the   *)
(* listener.  start_polling and stop_polling run in the main thread,       *)
(* push_mock in the thread of a test.  Threads interleave at every step.   *)
(***************************************************************************)
EXTENDS Naturals, Sequences, FiniteSets, LidbNative

CONSTANTS
  Worlds,       (* what a run of the program meets: records of              *)
                (*   native, lib   see LidbNative                           *)
                (*   late          a poll thread, or the helper process,    *)
                (*                 may take longer than it is waited for    *)
                (*   kinds         the kinds of lines that are written      *)
                (*   lines         bound: lines of each source              *)
                (*   fails         bound: reads that fail                   *)
  MaxLines,     (* bound: lines of any source                               *)
  MaxStarts     (* bound: poll threads started                              *)

(***************************************************************************)
(* "event": a line that parses; "junk": one the parser drops; "poison":    *)
(* one it raises on (a field int() refuses, bytes that are not UTF-8);     *)
(* "head", "tail": an event line its writer appends in two writes.         *)
(***************************************************************************)
AllKinds == {"event", "junk", "poison", "head", "tail"}

ASSUME ChangefeedAssumption ==
  /\ Worlds \subseteq [native : {"1", "0", "subprocess"}, lib : {"absent", "broken", "opens"},
                       late : BOOLEAN, kinds : SUBSET AllKinds, lines : [1..3 -> 0..MaxLines], fails : Nat]
  /\ MaxStarts \in Nat /\ MaxLines \in Nat

\* The order in which poll_once asks them.
Native == 1
Wal    == 2
Mock   == 3
Sources == {Native, Wal, Mock}
Pollers == 1..MaxStarts

VARIABLES
  world,
  log,      \* the lines of each source
  offset,   \* lines consumed: _offsets of the files, lidb's cursor
  open,     \* _native holds a handle
  stop,     \* _stop
  thread,   \* _thread: a poller, or 0 for None
  main,     \* "idle", "stopping" (in join)
  pc,       \* poller: "absent", "top", "native", "poll", "open", "read",
            \* "dispatch", "exited", "died"
  src,      \* the source a poller is at
  pos,      \* its position in the open file
  out,      \* what poll_once has collected, not dispatched: [src, line]
  fails,    \* reads that failed
  pushed,   \* line of the mock file push_mock has yet to dispatch, or 0
  direct,   \* lines the listener was called with by push_mock
  handed    \* events it was called with by a poller: [src, line]

srcVars == <<log, offset>>
mainVars == <<world, open, stop, thread, main>>
pollVars == <<pc, src, pos, out, fails>>
vars == <<srcVars, mainVars, pollVars, pushed, direct, handed>>

Mode == NativeMode(world)

Init ==
  /\ world \in Worlds
  /\ log = [s \in Sources |-> <<>>]
  /\ offset = [s \in Sources |-> 0]
  /\ open = (Mode = "ctypes")
  /\ stop = FALSE /\ thread = 0 /\ main = "idle"
  /\ pc = [q \in Pollers |-> "absent"]
  /\ src = [q \in Pollers |-> Native]
  /\ pos = [q \in Pollers |-> 0]
  /\ out = [q \in Pollers |-> {}]
  /\ fails = 0
  /\ pushed = 0 /\ direct = {}
  /\ handed = <<>>

Ended == {"absent", "exited", "died"}

-----------------------------------------------------------------------------
(* Writers.                                                                 *)

TornLast(s) == log[s] # <<>> /\ log[s][Len(log[s])] = "head"

\* A source has one writer at a time, and only the WAL file's tears a line.
Write(s, kind) ==
  /\ kind \in world.kinds
  /\ Len(log[s]) < world.lines[s]
  /\ kind = "head" => s = Wal
  /\ kind = "tail" <=> TornLast(s)
  /\ log' = [log EXCEPT ![s] = Append(@, kind)]
  /\ UNCHANGED <<offset, mainVars, pollVars, pushed, direct, handed>>

\* push_mock appends the line, then calls the listener itself.
push_mock ==
  /\ pushed = 0
  /\ Len(log[Mock]) < world.lines[Mock]
  /\ log' = [log EXCEPT ![Mock] = Append(@, "event")]
  /\ pushed' = Len(log[Mock]) + 1
  /\ UNCHANGED <<offset, mainVars, pollVars, direct, handed>>

PushDispatch ==
  /\ pushed # 0
  /\ direct' = direct \cup {pushed}
  /\ pushed' = 0
  /\ UNCHANGED <<srcVars, mainVars, pollVars, handed>>

-----------------------------------------------------------------------------
(* The main thread.                                                         *)

\* Mutant: it is not asked whether the thread is alive.
start_polling_anew ==
  /\ main = "idle"
  /\ \E q \in Pollers :
       /\ pc[q] = "absent"
       /\ \A r \in Pollers : r < q => pc[r] # "absent"
       /\ thread' = q
       /\ pc' = [pc EXCEPT ![q] = "top"]
  /\ UNCHANGED <<srcVars, world, open, stop, main, src, pos, out, fails, pushed, direct, handed>>

start_polling ==
  /\ main = "idle"
  /\ thread # 0 => pc[thread] \in Ended
  /\ \E q \in Pollers :
       /\ pc[q] = "absent"
       /\ \A r \in Pollers : r < q => pc[r] # "absent"
       /\ thread' = q
       /\ pc' = [pc EXCEPT ![q] = "top"]
  /\ UNCHANGED <<srcVars, world, open, stop, main, src, pos, out, fails, pushed, direct, handed>>

\* Mutant: the handle is closed before the thread has ended.
stop_polling_closes ==
  /\ main = "idle"
  /\ stop' = TRUE
  /\ open' = FALSE
  /\ main' = "stopping"
  /\ UNCHANGED <<srcVars, world, thread, pollVars, pushed, direct, handed>>

stop_polling ==
  /\ main = "idle"
  /\ stop' = TRUE
  /\ main' = "stopping"
  /\ UNCHANGED <<srcVars, world, open, thread, pollVars, pushed, direct, handed>>

\* Mutant: the thread is not joined.
JoinedAtOnce ==
  /\ main = "stopping"
  /\ thread' = 0
  /\ stop' = FALSE
  /\ open' = FALSE
  /\ main' = "idle"
  /\ UNCHANGED <<srcVars, world, pollVars, pushed, direct, handed>>

\* join(timeout=2.0) has returned, with the thread ended or not.
Joined ==
  /\ main = "stopping"
  /\ thread # 0 => pc[thread] \in Ended \/ world.late
  /\ thread' = 0
  /\ stop' = FALSE
  /\ open' = FALSE
  /\ main' = "idle"
  /\ UNCHANGED <<srcVars, world, pollVars, pushed, direct, handed>>

-----------------------------------------------------------------------------
(* A poll thread.                                                           *)

CheckStop(q) ==
  /\ pc[q] = "top"
  /\ pc' = [pc EXCEPT ![q] = IF stop THEN "exited" ELSE "native"]
  /\ UNCHANGED <<srcVars, mainVars, src, pos, out, fails, pushed, direct, handed>>

Goto(q, label, s) ==
  /\ pc' = [pc EXCEPT ![q] = label]
  /\ src' = [src EXCEPT ![q] = s]

\* Only in ctypes mode is there a handle, until stop_polling closes it.
Silent == Mode = "off" \/ (Mode = "ctypes" /\ ~open) \/ world.lib = "broken"

_poll_native(q) ==
  /\ pc[q] = "native"
  /\ IF Mode = "off" \/ (Mode = "ctypes" /\ ~open) THEN Goto(q, "open", Wal) ELSE Goto(q, "poll", Native)
  /\ UNCHANGED <<srcVars, mainVars, pos, out, fails, pushed, direct, handed>>

Pending == (offset[Native] + 1)..Len(log[Native])
Lines(ks) == {[src |-> Native, line |-> k] : k \in ks}

\* One call of lidb_changefeed_poll: the line after lidb's cursor.
poll_lines(q) ==
  /\ pc[q] = "poll" /\ Mode = "ctypes" /\ open
  /\ Pending # {}
  /\ offset' = [offset EXCEPT ![Native] = @ + 1]
  /\ out' = [out EXCEPT ![q] = @ \cup Lines({offset'[Native]})]
  /\ UNCHANGED <<log, mainVars, pc, src, pos, fails, pushed, direct, handed>>

\* What is no JSON object with a table is dropped.
parse_native_json_line(lines) == {e \in lines : log[Native][e.line] # "junk"}

\* The lines are parsed when the last has been polled.
Parse(q, lines) ==
  LET parsed == parse_native_json_line(lines) IN
  IF \E e \in parsed : log[Native][e.line] = "poison"
  THEN Goto(q, "died", Native) /\ out' = [out EXCEPT ![q] = lines]
  ELSE Goto(q, "open", Wal) /\ out' = [out EXCEPT ![q] = parsed]

\* There is no line left, the call fails, or the handle was closed under it:
\* then lidb answers something or takes the thread with it.
EndPoll(q) ==
  /\ pc[q] = "poll" /\ Mode = "ctypes"
  /\ \/ open /\ Pending = {} /\ Parse(q, out[q]) /\ UNCHANGED fails
     \/ open /\ fails < world.fails /\ fails' = fails + 1 /\ Parse(q, out[q])
     \/ ~open /\ Parse(q, out[q]) /\ UNCHANGED fails
     \/ ~open /\ Goto(q, "died", Native) /\ UNCHANGED <<out, fails>>
  /\ UNCHANGED <<srcVars, mainVars, pos, pushed, direct, handed>>

\* The helper process opens the library itself and prints every line.
Helped == IF world.lib = "opens" THEN Pending ELSE {}
Drained == [offset EXCEPT ![Native] = @ + Cardinality(Helped)]

\* The helper may fail (the lines it took are dropped), or exceed 5 s:
\* TimeoutExpired is not caught.
poll_lines_subprocess(q) ==
  /\ pc[q] = "poll" /\ Mode = "subprocess"
  /\ \/ /\ offset' = Drained
        /\ Parse(q, Lines(Helped))
        /\ UNCHANGED fails
     \/ /\ fails < world.fails /\ fails' = fails + 1
        /\ offset' \in {offset, Drained}
        /\ Goto(q, "open", Wal) /\ UNCHANGED out
     \/ /\ world.late
        /\ offset' \in {offset, Drained}
        /\ Goto(q, "died", Native) /\ UNCHANGED <<out, fails>>
  /\ UNCHANGED <<log, mainVars, pos, pushed, direct, handed>>

\* Mutants: the files are read in place of the native changefeed only; the file
\* is read from its start.
OpenFileAsFallback(q) ==
  /\ pc[q] = "open"
  /\ Goto(q, IF Mode = "off" THEN "read" ELSE "dispatch", src[q])
  /\ pos' = [pos EXCEPT ![q] = offset[src[q]]]
  /\ UNCHANGED <<srcVars, mainVars, out, fails, pushed, direct, handed>>

OpenFileAtStart(q) ==
  /\ pc[q] = "open"
  /\ Goto(q, "read", src[q])
  /\ pos' = [pos EXCEPT ![q] = 0]
  /\ UNCHANGED <<srcVars, mainVars, out, fails, pushed, direct, handed>>

\* The file is opened and the reader seeks to the remembered offset.
OpenFile(q) ==
  /\ pc[q] = "open"
  /\ Goto(q, "read", src[q])
  /\ pos' = [pos EXCEPT ![q] = offset[src[q]]]
  /\ UNCHANGED <<srcVars, mainVars, out, fails, pushed, direct, handed>>

\* A line written in two parts, both there.
Complete(s, k) == log[s][k] = "head" /\ k < Len(log[s])

\* One line: a head alone is read to the end of the file and dropped, and its
\* tail will be dropped as a line of its own.
ReadLine(q) ==
  LET s == src[q]
      k == pos[q] + 1
  IN  /\ pc[q] = "read"
      /\ pos[q] < Len(log[s])
      /\ IF log[s][k] = "poison"
         THEN Goto(q, "died", s) /\ UNCHANGED <<pos, out>>
         ELSE /\ pos' = [pos EXCEPT ![q] = IF Complete(s, k) THEN k + 1 ELSE k]
              /\ out' = [out EXCEPT ![q] =
                   IF log[s][k] = "event" \/ Complete(s, k)
                   THEN @ \cup {[src |-> s, line |-> k]} ELSE @]
              /\ UNCHANGED <<pc, src>>
      /\ UNCHANGED <<srcVars, mainVars, fails, pushed, direct, handed>>

\* Next in `for path in (self._wal_path, self._mock_path)`.
Leave(q) == IF src[q] = Wal THEN Goto(q, "open", Mock) ELSE Goto(q, "dispatch", Native)

\* Mutant: the offset is set behind the end of the file.
EndFilePast(q) ==
  /\ pc[q] = "read"
  /\ pos[q] = Len(log[src[q]])
  /\ offset' = [offset EXCEPT ![src[q]] = pos[q] + 1]
  /\ Leave(q)
  /\ UNCHANGED <<log, mainVars, pos, out, fails, pushed, direct, handed>>

EndFile(q) ==
  /\ pc[q] = "read"
  /\ pos[q] = Len(log[src[q]])
  /\ offset' = [offset EXCEPT ![src[q]] = pos[q]]
  /\ Leave(q)
  /\ UNCHANGED <<log, mainVars, pos, out, fails, pushed, direct, handed>>

\* Mutant: after an OSError the offset moves on, what was read is dropped.
ReadFailsAdvances(q) ==
  /\ pc[q] = "read"
  /\ fails < world.fails
  /\ fails' = fails + 1
  /\ offset' = [offset EXCEPT ![src[q]] = Len(log[src[q]])]
  /\ Leave(q)
  /\ UNCHANGED <<log, mainVars, pos, out, pushed, direct, handed>>

\* OSError: what was read is returned, the offset stays.
ReadFails(q) ==
  /\ pc[q] = "read"
  /\ fails < world.fails
  /\ fails' = fails + 1
  /\ Leave(q)
  /\ UNCHANGED <<srcVars, mainVars, pos, out, pushed, direct, handed>>

Before(e, f) == e.src < f.src \/ (e.src = f.src /\ e.line <= f.line)

\* Mutant: the events are dispatched in no order.
_dispatch_any(q) ==
  /\ pc[q] = "dispatch"
  /\ \E e \in out[q] :
       /\ out' = [out EXCEPT ![q] = @ \ {e}]
       /\ handed' = Append(handed, e)
  /\ UNCHANGED <<srcVars, mainVars, pc, src, pos, fails, pushed, direct>>

\* poll_once lists its events source by source, each in file order.  The listener
\* that the server registers hands them to its event loop and does not raise while
\* that loop runs; the exception of another listener would end the thread.
_dispatch(q) ==
  /\ pc[q] = "dispatch"
  /\ \E e \in out[q] :
       /\ \A f \in out[q] : Before(e, f)
       /\ out' = [out EXCEPT ![q] = @ \ {e}]
       /\ handed' = Append(handed, e)
  /\ UNCHANGED <<srcVars, mainVars, pc, src, pos, fails, pushed, direct>>

EndRound(q) ==
  /\ pc[q] = "dispatch"
  /\ out[q] = {}
  /\ Goto(q, "top", Native)
  /\ UNCHANGED <<srcVars, mainVars, pos, out, fails, pushed, direct, handed>>

_loop(q) ==
  \/ CheckStop(q)
  \/ _poll_native(q) \/ poll_lines(q) \/ EndPoll(q) \/ poll_lines_subprocess(q)
  \/ OpenFile(q)
  \/ ReadLine(q)
  \/ EndFile(q)
  \/ ReadFails(q)
  \/ _dispatch(q)
  \/ EndRound(q)

Next ==
  \/ \E s \in Sources, kind \in AllKinds : Write(s, kind)
  \/ push_mock \/ PushDispatch
  \/ start_polling \/ stop_polling \/ Joined
  \/ \E q \in Pollers : _loop(q)

Spec == Init /\ [][Next]_vars

\* The interpreter gives every thread its turn.
Fairness == \A q \in Pollers : WF_vars(_loop(q))

FairSpec == Spec /\ Fairness
-----------------------------------------------------------------------------
Labels == Ended \cup {"top", "native", "poll", "open", "read", "dispatch"}

TypeOK ==
  /\ world \in Worlds
  /\ log \in [Sources -> Seq(AllKinds)] /\ offset \in [Sources -> Nat]
  /\ \A s \in Sources : Len(log[s]) <= world.lines[s] /\ offset[s] \in 0..Len(log[s])
  /\ open \in BOOLEAN /\ stop \in BOOLEAN
  /\ thread \in Pollers \cup {0}
  /\ main \in {"idle", "stopping"}
  /\ pc \in [Pollers -> Labels]
  /\ src \in [Pollers -> Sources]
  /\ pos \in [Pollers -> Nat]
  /\ out \in [Pollers -> SUBSET [src : Sources, line : Nat]]
  /\ fails \in 0..world.fails
  /\ pushed \in 0..Len(log[Mock])
  /\ direct \subseteq 1..Len(log[Mock])
  /\ handed \in Seq([src : Sources, line : Nat])

Running == {q \in Pollers : pc[q] \notin Ended}

(***************************************************************************)
(* If no poll thread outlasts the join of stop_polling, at most one runs,  *)
(* and it is the one _thread names.                                        *)
(***************************************************************************)
OnePoller == ~world.late => Running \subseteq {thread}

(***************************************************************************)
(* The events of one source reach the listener in the order they were      *)
(* written and none twice, over any number of stops and starts, if no read *)
(* fails and no poll thread is late.                                       *)
(***************************************************************************)
InOrder ==
  ~world.late /\ world.fails = 0 =>
    \A i, j \in DOMAIN handed :
      i < j /\ handed[i].src = handed[j].src => handed[i].line < handed[j].line

Dead == \E q \in Pollers : pc[q] = "died"
Swallowed == Dead \/ (Mode = "subprocess" /\ fails > 0)

Handed(s, k) == \E i \in DOMAIN handed : handed[i] = [src |-> s, line |-> k]

(***************************************************************************)
(* An event line behind the offset has been handed over or is held by a    *)
(* poller that collected it (one that died keeps it for ever), whatever    *)
(* reads fail and however many pollers share _offsets.  Only native lines  *)
(* can go, since lidb's cursor passes them before they are parsed: with a  *)
(* poller that dies, or a helper process that fails.                       *)
(***************************************************************************)
NothingLost ==
  \A s \in Sources : \A k \in 1..offset[s] :
    log[s][k] = "event" =>
      \/ Handed(s, k)
      \/ \E q \in Pollers : [src |-> s, line |-> k] \in out[q]
      \/ s = Native /\ Swallowed

(***************************************************************************)
(* When stop_polling has returned, no poller calls the listener until the  *)
(* next start_polling, unless it outlasted the join.                       *)
(***************************************************************************)
QuietWhenStopped ==
  [][~world.late /\ thread = 0 /\ main = "idle" => UNCHANGED handed]_vars

(***************************************************************************)
(* No thread is inside lidb_changefeed_poll with a handle that was closed, *)
(* which C code need not survive, unless a thread outlasts the join.       *)
(***************************************************************************)
HandleOpen ==
  ~world.late /\ Mode = "ctypes" => \A q \in Pollers : pc[q] = "poll" => open

Written(s, k, kind) == k <= Len(log[s]) /\ log[s][k] = kind
Polled(s) == Running # {} /\ ~(s = Native /\ Silent)

(***************************************************************************)
(* Every event written to a source that is polled is handed over, unless   *)
(* polling ends or a poller dies: the events it held go with it, and a     *)
(* poller started afterwards finds the offset behind them.  What a helper  *)
(* process that failed had taken is gone too.                              *)
(***************************************************************************)
EventHanded ==
  \A s \in Sources : \A k \in 1..MaxLines :
    Written(s, k, "event") /\ Polled(s)
      ~> Handed(s, k) \/ ~Polled(s) \/ Dead \/ (s = Native /\ Swallowed)

(***************************************************************************)
(* The same of a line whose writer needed two writes for it: what          *)
(* docs/realtime.md:31 promises of every matching row.  A poll between the *)
(* two writes drops both parts.                                            *)
(***************************************************************************)
TornLineHanded ==
  \A k \in 1..MaxLines :
    Written(Wal, k, "head") /\ Complete(Wal, k) /\ Polled(Wal)
      ~> Handed(Wal, k) \/ ~Polled(Wal)

Benign ==
  ~world.late /\ world.fails = 0 /\ "poison" \notin world.kinds

\* The listener's view, in the worlds the refinement is about: see EventFeed.
Feed == INSTANCE EventFeed WITH
          Kinds  <- AllKinds,
          log    <- IF Benign THEN log ELSE [s \in Sources |-> <<>>],
          handed <- IF Benign THEN handed ELSE <<>>

(***************************************************************************)
(* Without faults and lines that kill a poller, the changefeed implements  *)
(* EventFeed: in order, once, without gaps, over stops and starts.         *)
(***************************************************************************)
ImplementsEventFeed == Feed!Spec
=============================================================================
