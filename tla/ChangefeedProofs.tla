-------------------------- MODULE ChangefeedProofs --------------------------
(***************************************************************************)
(* For any number of poll threads, starts and stops, and files of any      *)
(* length: what Changefeed promises its listener, and that without faults  *)
(* it implements EventFeed.                                                *)
(***************************************************************************)
EXTENDS Changefeed, FiniteSetTheorems, SequenceTheorems, TLAPS

\* A tail follows its head, and only the WAL file has them.
Parts ==
  \A s \in Sources : \A k \in 1..Len(log[s]) :
    log[s][k] = "head" => s = Wal /\ (k < Len(log[s]) => log[s][k + 1] = "tail")

\* A poller has collected nothing before it polls.
EmptyOf(q) ==
  \/ pc[q] \in {"absent", "top", "native", "exited"}
  \/ pc[q] = "poll" /\ Mode = "subprocess"
  => out[q] = {}

Empty == \A q \in Pollers : EmptyOf(q)

\* A poller reads a file from the offset on; what it holds while it polls is lidb's.
ReadingOf(q) ==
  /\ pc[q] \in {"open", "read"} => src[q] \in {Wal, Mock}
  /\ pc[q] = "poll" => src[q] = Native /\ Mode # "off" /\ \A e \in out[q] : e.src = Native
  /\ pc[q] = "read" => pos[q] <= Len(log[src[q]])

Reading == \A q \in Pollers : ReadingOf(q)

\* The line is no event, or has been handed over, or is held, or lidb's cursor has
\* passed it for nothing.
Safe(s, k) ==
  log[s][k] = "event" =>
    \/ Handed(s, k)
    \/ \E q \in Pollers : [src |-> s, line |-> k] \in out[q]
    \/ s = Native /\ Swallowed

\* What a poller has read of a file is as safe as what is behind the offset.
Collected ==
  /\ \A s \in Sources : \A k \in 1..offset[s] : Safe(s, k)
  /\ \A q \in Pollers : pc[q] = "read" => \A k \in 1..pos[q] : Safe(src[q], k)

Steady == ~world.late /\ world.fails = 0

\* A line is handed over once the offset is behind it.
Behind == \A i \in DOMAIN handed : handed[i].line <= offset[handed[i].src]

\* What a running poller holds is behind all that was handed over, and before the
\* offset, or before its place in the file it reads.
FreshOf(q) ==
  /\ pc[q] = "read" => offset[src[q]] <= pos[q]
  /\ \A e \in out[q] :
       /\ e.line > 0
       /\ \A i \in DOMAIN handed : handed[i].src = e.src => handed[i].line < e.line
       /\ \/ e.line <= offset[e.src]
          \/ pc[q] = "read" /\ e.src = src[q] /\ e.line <= pos[q]

Fresh == Steady => Behind /\ \A q \in Running : FreshOf(q)

\* No poller dies without a fault or a line that kills it.
NoDeath ==
  Benign => ~Dead /\ \A s \in Sources : \A k \in 1..Len(log[s]) : log[s][k] # "poison"

Inv ==
  /\ TypeOK /\ Parts /\ Empty /\ Reading /\ OnePoller /\ HandleOpen
  /\ Collected /\ Fresh /\ InOrder /\ NoDeath

-----------------------------------------------------------------------------
(* Types.                                                                   *)

\* A world is a record of the set that the constant is a part of.
LEMMA WorldType ==
  ASSUME world \in Worlds
  PROVE  /\ world.late \in BOOLEAN /\ world.fails \in Nat /\ world.kinds \subseteq AllKinds
         /\ \A s \in Sources : world.lines[s] \in Nat
         /\ Mode \in {"off", "subprocess", "ctypes"}
<1>1. world \in [native : {"1", "0", "subprocess"}, lib : {"absent", "broken", "opens"},
                 late : BOOLEAN, kinds : SUBSET AllKinds, lines : [1..3 -> 0..MaxLines],
                 fails : Nat]
  BY ChangefeedAssumption
<1>2. \A s \in Sources : world.lines[s] \in 0..MaxLines
  BY <1>1 DEF Sources, Native, Wal, Mock
<1>3. Mode \in {"off", "subprocess", "ctypes"} BY DEF Mode, NativeMode
<1> QED BY <1>1, <1>2, <1>3, ChangefeedAssumption

\* A line is appended to a source.
Grow(s, kind) ==
  /\ kind \in AllKinds /\ Len(log[s]) < world.lines[s]
  /\ kind = "head" => s = Wal
  /\ kind = "tail" <=> TornLast(s)
  /\ kind # "event" => kind \in world.kinds
  /\ log' = [log EXCEPT ![s] = Append(@, kind)]
  /\ UNCHANGED offset /\ UNCHANGED mainVars /\ UNCHANGED pollVars /\ UNCHANGED handed

\* Both writers grow a source.
LEMMA WritersGrow ==
  ASSUME TypeOK, Parts
  PROVE  /\ \A s \in Sources, kind \in AllKinds : Write(s, kind) => Grow(s, kind)
         /\ push_mock => Grow(Mock, "event")
<1>1. ASSUME NEW s \in Sources, NEW kind \in AllKinds, Write(s, kind) PROVE Grow(s, kind)
  BY <1>1 DEF Write, Grow
<1>2. ~TornLast(Mock)
  <2>1. log[Mock] \in Seq(AllKinds) BY DEF TypeOK, Sources
  <2>2. log[Mock] # <<>> => Len(log[Mock]) \in 1..Len(log[Mock])
    BY <2>1, EmptySeq, LenProperties
  <2> QED BY <2>2 DEF Parts, TornLast, Sources, Mock, Wal
<1>3. ASSUME push_mock PROVE Grow(Mock, "event")
  BY <1>2, <1>3 DEF push_mock, Grow, AllKinds
<1> QED BY <1>1, <1>3

\* What is in the sources after that.
LEMMA Grown ==
  ASSUME TypeOK, NEW s \in Sources, NEW kind, Grow(s, kind)
  PROVE  /\ log' \in [Sources -> Seq(AllKinds)]
         /\ \A t \in Sources : t # s => log'[t] = log[t]
         /\ Len(log[s]) \in Nat /\ Len(log'[s]) = Len(log[s]) + 1
         /\ log'[s][Len(log[s]) + 1] = kind
         /\ \A k \in 1..Len(log[s]) : log'[s][k] = log[s][k]
<1>1. log \in [Sources -> Seq(AllKinds)] /\ log[s] \in Seq(AllKinds) BY DEF TypeOK
<1>2. kind \in AllKinds /\ log' = [log EXCEPT ![s] = Append(log[s], kind)] BY DEF Grow
<1>3. Append(log[s], kind) \in Seq(AllKinds) BY <1>1, <1>2, AppendProperties
<1>4. /\ log'[s] = Append(log[s], kind)
      /\ \A t \in Sources : t # s => log'[t] = log[t]
  BY <1>1, <1>2
<1> QED BY <1>1, <1>2, <1>3, <1>4, AppendProperties, LenProperties

\* What a step of a poller leaves to the others.
LEMMA OthersKept ==
  ASSUME TypeOK, NEW q \in Pollers, _loop(q)
  PROVE  /\ \A r \in Pollers : r # q =>
              pc'[r] = pc[r] /\ src'[r] = src[r] /\ pos'[r] = pos[r] /\ out'[r] = out[r]
         /\ UNCHANGED log /\ UNCHANGED mainVars /\ UNCHANGED pushed /\ UNCHANGED direct
<1> USE DEF TypeOK, Goto, srcVars
<1>1. CASE CheckStop(q) \/ _poll_native(q) \/ OpenFile(q) \/ EndRound(q) \/ _dispatch(q)
  BY <1>1 DEF CheckStop, _poll_native, OpenFile, EndRound, _dispatch
<1>2. CASE poll_lines(q) \/ EndPoll(q)
  BY <1>2 DEF poll_lines, EndPoll, Parse
<1>3. CASE poll_lines_subprocess(q)
  BY <1>3 DEF poll_lines_subprocess, Parse
<1>4. CASE ReadLine(q) BY <1>4 DEF ReadLine
<1>5. CASE EndFile(q) \/ ReadFails(q) BY <1>5 DEF EndFile, ReadFails, Leave
<1> QED BY <1>1, <1>2, <1>3, <1>4, <1>5 DEF _loop

\* The part of TypeOK that a poller may touch.
LoopTyped ==
  /\ \A s \in Sources : offset[s] \in 0..Len(log[s])
  /\ offset \in [Sources -> Nat]
  /\ pc \in [Pollers -> Labels] /\ src \in [Pollers -> Sources] /\ pos \in [Pollers -> Nat]
  /\ out \in [Pollers -> SUBSET [src : Sources, line : Nat]]
  /\ fails \in 0..world.fails
  /\ handed \in Seq([src : Sources, line : Nat])

\* What lies between lidb's cursor and the end of its changefeed.
LEMMA HelpedTyped ==
  ASSUME TypeOK
  PROVE  /\ Drained \in [Sources -> Nat]
         /\ \A s \in Sources : s # Native => Drained[s] = offset[s]
         /\ \A k \in Helped : k \in Nat /\ offset[Native] < k /\ k <= Len(log[Native])
         /\ Helped = {} => Drained[Native] = offset[Native]
         /\ Helped # {} => /\ Drained[Native] = Len(log[Native])
                           /\ Helped = (offset[Native] + 1)..Len(log[Native])
         /\ offset[Native] <= Drained[Native] /\ Drained[Native] <= Len(log[Native])
<1>1. /\ Native \in Sources /\ log[Native] \in Seq(AllKinds) /\ offset \in [Sources -> Nat]
      /\ offset[Native] \in 0..Len(log[Native])
  BY DEF TypeOK, Sources
<1>2. Len(log[Native]) \in Nat /\ offset[Native] \in Nat BY <1>1, LenProperties
<1>3. CASE Helped = {}
  <2>1. Cardinality(Helped) = 0 BY <1>3, FS_EmptySet
  <2> QED BY <1>1, <1>2, <1>3, <2>1 DEF Drained
<1>4. CASE Helped # {}
  <2>1. Helped = (offset[Native] + 1)..Len(log[Native]) BY <1>4 DEF Helped, Pending
  <2>2. offset[Native] + 1 <= Len(log[Native]) BY <1>2, <1>4, <2>1
  <2>3. Cardinality(Helped) = Len(log[Native]) - (offset[Native] + 1) + 1
    BY <1>2, <2>1, <2>2, FS_Interval
  <2>4. offset[Native] + Cardinality(Helped) = Len(log[Native]) BY <1>2, <2>3
  <2>5. Drained = [offset EXCEPT ![Native] = Len(log[Native])] BY <2>4 DEF Drained
  <2> QED BY <1>1, <1>2, <1>4, <2>1, <2>5
<1> QED BY <1>3, <1>4

\* A file has as many lines as were written.
LEMMA LogType ==
  ASSUME TypeOK, NEW s \in Sources
  PROVE  log[s] \in Seq(AllKinds) /\ Len(log[s]) \in Nat
         /\ \A k \in 1..Len(log[s]) : log[s][k] \in AllKinds
BY LenProperties, ElementOfSeq DEF TypeOK

\* The line kills the poller.
Kills(q, s, k) ==
  log[s][k] = "poison" /\ Goto(q, "died", s) /\ UNCHANGED pos /\ UNCHANGED out

\* The poller goes on behind it, and then holds got.
Collects(q, s, k, n, got) ==
  /\ n = k \/ (n = k + 1 /\ Complete(s, k))
  /\ \/ got = out[q] /\ log[s][k] # "event" /\ ~Complete(s, k)
     \/ got = out[q] \cup {[src |-> s, line |-> k]}
  /\ pos' = [pos EXCEPT ![q] = n] /\ out' = [out EXCEPT ![q] = got]
  /\ UNCHANGED pc /\ UNCHANGED src

\* What becomes of a line that is read.
LEMMA ReadEffect ==
  ASSUME TypeOK, NEW q \in Pollers, ReadLine(q)
  PROVE  \E s \in Sources, k \in Nat :
           /\ s = src[q] /\ k = pos[q] + 1 /\ k \in 1..Len(log[s])
           /\ Kills(q, s, k) \/ \E n, got : Collects(q, s, k, n, got)
<1>1. PICK s \in Sources, k \in Nat : s = src[q] /\ k = pos[q] + 1 /\ k \in 1..Len(log[s])
  <2>1. src[q] \in Sources /\ pos[q] \in Nat BY DEF TypeOK
  <2>2. Len(log[src[q]]) \in Nat BY <2>1, LogType
  <2> QED BY <2>1, <2>2 DEF ReadLine
<1>2. CASE log[s][k] = "poison"
  <2>1. Kills(q, s, k) BY <1>1, <1>2 DEF ReadLine, Kills
  <2> QED BY <1>1, <2>1
<1>3. CASE log[s][k] # "poison"
  <2>1. PICK n, got : /\ n = IF Complete(s, k) THEN k + 1 ELSE k
                      /\ got = IF log[s][k] = "event" \/ Complete(s, k)
                               THEN out[q] \cup {[src |-> s, line |-> k]} ELSE out[q]
    OBVIOUS
  <2>2. /\ pos' = [pos EXCEPT ![q] = n] /\ out' = [out EXCEPT ![q] = got]
        /\ UNCHANGED pc /\ UNCHANGED src
    BY <1>1, <1>3, <2>1 DEF ReadLine
  <2>3. Collects(q, s, k, n, got) BY <2>1, <2>2 DEF Collects
  <2> QED BY <1>1, <2>3
<1> QED BY <1>2, <1>3

\* A poller keeps the types.
LEMMA LoopTypes ==
  ASSUME TypeOK, LoopTyped, Reading, NEW q \in Pollers, _loop(q)
  PROVE  LoopTyped'
<1>a. world' = world /\ log' = log BY OthersKept DEF mainVars
<1>b. \A s \in Sources : Len(log[s]) \in Nat BY LogType
<1>c. world.fails \in Nat BY WorldType DEF TypeOK
<1>d. Native \in Sources /\ Wal \in Sources /\ Mock \in Sources BY DEF Sources
<1> DEFINE kept == UNCHANGED offset /\ UNCHANGED fails /\ UNCHANGED handed
<1>e. ASSUME UNCHANGED pc, UNCHANGED src PROVE pc' \in [Pollers -> Labels] /\ src' \in [Pollers -> Sources]
  BY <1>e DEF LoopTyped
<1>f. ASSUME NEW label \in Labels, NEW s \in Sources, Goto(q, label, s)
      PROVE  pc' \in [Pollers -> Labels] /\ src' \in [Pollers -> Sources]
  BY <1>f DEF LoopTyped, Goto
<1>1. CASE CheckStop(q) \/ _poll_native(q) \/ EndRound(q)
  BY <1>1, <1>a, <1>d, <1>f
     DEF CheckStop, _poll_native, EndRound, LoopTyped, Labels, Ended, srcVars
<1>2. CASE OpenFile(q)
  <2>1. src[q] \in Sources /\ offset[src[q]] \in Nat BY DEF LoopTyped
  <2> QED BY <1>2, <1>a, <1>f, <2>1 DEF OpenFile, LoopTyped, Labels, srcVars
<1>3. CASE poll_lines(q)
  <2>1. offset[Native] \in Nat /\ offset[Native] + 1 <= Len(log[Native])
    BY <1>3, <1>b, <1>d DEF poll_lines, Pending, LoopTyped
  <2>2. offset' = [offset EXCEPT ![Native] = offset[Native] + 1] BY <1>3 DEF poll_lines
  <2>3. /\ offset' \in [Sources -> Nat]
        /\ \A s \in Sources : offset'[s] \in 0..Len(log[s])
        /\ offset'[Native] = offset[Native] + 1
    BY <2>1, <2>2, <1>b, <1>d DEF LoopTyped
  <2>4. out' = [out EXCEPT ![q] = out[q] \cup {[src |-> Native, line |-> offset'[Native]]}]
    BY <1>3 DEF poll_lines, Lines
  <2>5. out' \in [Pollers -> SUBSET [src : Sources, line : Nat]]
    BY <2>1, <2>3, <2>4, <1>d DEF LoopTyped
  <2>6. UNCHANGED pc /\ UNCHANGED src /\ UNCHANGED pos /\ UNCHANGED fails /\ UNCHANGED handed
    BY <1>3 DEF poll_lines
  <2> QED BY <1>a, <2>3, <2>5, <2>6 DEF LoopTyped
<1>g. ASSUME NEW lines \in SUBSET [src : Sources, line : Nat], Parse(q, lines)
      PROVE  /\ pc' \in [Pollers -> Labels] /\ src' \in [Pollers -> Sources]
             /\ out' \in [Pollers -> SUBSET [src : Sources, line : Nat]]
  <2>1. /\ Goto(q, "died", Native) \/ Goto(q, "open", Wal)
        /\ out' \in {[out EXCEPT ![q] = lines], [out EXCEPT ![q] = parse_native_json_line(lines)]}
    BY <1>g DEF Parse
  <2>2. parse_native_json_line(lines) \subseteq lines BY DEF parse_native_json_line
  <2> QED BY <1>d, <1>f, <2>1, <2>2 DEF LoopTyped, Labels, Ended
<1>4. CASE EndPoll(q)
  <2>1. UNCHANGED offset /\ UNCHANGED pos /\ UNCHANGED handed BY <1>4 DEF EndPoll, srcVars
  <2>2. fails' \in 0..world.fails BY <1>4, <1>c DEF EndPoll, LoopTyped
  <2>3. out[q] \in SUBSET [src : Sources, line : Nat] BY DEF LoopTyped
  <2>4. Parse(q, out[q]) \/ (Goto(q, "died", Native) /\ UNCHANGED out) BY <1>4 DEF EndPoll
  <2> QED BY <1>a, <1>d, <1>f, <1>g, <2>1, <2>2, <2>3, <2>4 DEF LoopTyped, Labels, Ended
<1>5. CASE poll_lines_subprocess(q)
  <2>1. UNCHANGED pos /\ UNCHANGED handed BY <1>5 DEF poll_lines_subprocess
  <2>2. offset' \in {offset, Drained} BY <1>5 DEF poll_lines_subprocess
  <2>3. /\ offset' \in [Sources -> Nat]
        /\ \A s \in Sources : offset'[s] \in 0..Len(log[s])
    <3>2. Drained \in [Sources -> Nat] /\ \A s \in Sources : s # Native => Drained[s] = offset[s]
      BY HelpedTyped
    <3>3. Drained[Native] <= Len(log[Native]) BY HelpedTyped
    <3>4. Drained[Native] \in 0..Len(log[Native]) BY <3>2, <3>3, <1>b, <1>d
    <3>5. \A s \in Sources : Drained[s] \in 0..Len(log[s]) BY <3>2, <3>4 DEF LoopTyped
    <3> QED BY <2>2, <3>2, <3>5 DEF LoopTyped
  <2>4. fails' \in 0..world.fails BY <1>5, <1>c DEF poll_lines_subprocess, LoopTyped
  <2>5. Lines(Helped) \in SUBSET [src : Sources, line : Nat]
    <3>1. \A k \in Helped : k \in Nat BY HelpedTyped
    <3> QED BY <3>1, <1>d DEF Lines
  <2>6. \/ Parse(q, Lines(Helped))
        \/ (Goto(q, "open", Wal) \/ Goto(q, "died", Native)) /\ UNCHANGED out
    BY <1>5 DEF poll_lines_subprocess
  <2> QED BY <1>a, <1>d, <1>f, <1>g, <2>1, <2>3, <2>4, <2>5, <2>6 DEF LoopTyped, Labels, Ended
<1>6. CASE ReadLine(q)
  <2>1. PICK s \in Sources, k \in Nat :
          Kills(q, s, k) \/ \E n, got : Collects(q, s, k, n, got)
    BY <1>6, ReadEffect
  <2>4. UNCHANGED offset /\ UNCHANGED fails /\ UNCHANGED handed BY <1>6 DEF ReadLine, srcVars
  <2>2. CASE Kills(q, s, k)
    <3>1. "died" \in Labels /\ Goto(q, "died", s) /\ UNCHANGED pos /\ UNCHANGED out
      BY <2>2 DEF Kills, Labels, Ended
    <3>2. pc' \in [Pollers -> Labels] /\ src' \in [Pollers -> Sources] BY <1>f, <3>1
    <3> QED BY <1>a, <2>4, <3>1, <3>2 DEF LoopTyped
  <2>3. CASE \E n, got : Collects(q, s, k, n, got)
    <3>1. PICK n, got : Collects(q, s, k, n, got) BY <2>3
    <3>2. n \in Nat BY <3>1 DEF Collects
    <3>3. got \in SUBSET [src : Sources, line : Nat] BY <3>1 DEF Collects, LoopTyped
    <3>4. /\ pos' = [pos EXCEPT ![q] = n] /\ out' = [out EXCEPT ![q] = got]
          /\ UNCHANGED pc /\ UNCHANGED src
      BY <3>1 DEF Collects
    <3>5. pos' \in [Pollers -> Nat] /\ out' \in [Pollers -> SUBSET [src : Sources, line : Nat]]
      BY <3>2, <3>3, <3>4 DEF LoopTyped
    <3> QED BY <1>a, <2>4, <3>4, <3>5 DEF LoopTyped
  <2> QED BY <2>1, <2>2, <2>3
<1>h. ASSUME Leave(q) PROVE pc' \in [Pollers -> Labels] /\ src' \in [Pollers -> Sources]
  BY <1>h, <1>d, <1>f DEF Leave, Labels
<1>7. CASE EndFile(q)
  <2>1. src[q] \in Sources /\ pos[q] \in 0..Len(log[src[q]])
    BY <1>7, <1>b DEF EndFile, LoopTyped
  <2>2. offset' = [offset EXCEPT ![src[q]] = pos[q]] BY <1>7 DEF EndFile
  <2>3. /\ offset' \in [Sources -> Nat]
        /\ \A s \in Sources : offset'[s] \in 0..Len(log[s])
    BY <1>b, <2>1, <2>2 DEF LoopTyped
  <2>4. UNCHANGED pos /\ UNCHANGED out /\ UNCHANGED fails /\ UNCHANGED handed /\ Leave(q)
    BY <1>7 DEF EndFile
  <2> QED BY <1>a, <1>h, <2>3, <2>4 DEF LoopTyped
<1>8. CASE ReadFails(q)
  <2>1. fails' \in 0..world.fails BY <1>8, <1>c DEF ReadFails, LoopTyped
  <2>2. UNCHANGED offset /\ UNCHANGED pos /\ UNCHANGED out /\ UNCHANGED handed /\ Leave(q)
    BY <1>8 DEF ReadFails, srcVars
  <2> QED BY <1>a, <1>h, <2>1, <2>2 DEF LoopTyped
<1>9. CASE _dispatch(q)
  <2>1. PICK e \in out[q] : out' = [out EXCEPT ![q] = @ \ {e}] /\ handed' = Append(handed, e)
    BY <1>9 DEF _dispatch
  <2>2. e \in [src : Sources, line : Nat] BY DEF LoopTyped
  <2>3. handed' \in Seq([src : Sources, line : Nat]) BY <2>1, <2>2, AppendProperties DEF LoopTyped
  <2>4. out' \in [Pollers -> SUBSET [src : Sources, line : Nat]] BY <2>1 DEF LoopTyped
  <2>5. UNCHANGED offset /\ UNCHANGED pc /\ UNCHANGED src /\ UNCHANGED pos /\ UNCHANGED fails
    BY <1>9 DEF _dispatch, srcVars
  <2> QED BY <1>a, <2>3, <2>4, <2>5 DEF LoopTyped
<1> QED BY <1>1, <1>2, <1>3, <1>4, <1>5, <1>6, <1>7, <1>8, <1>9 DEF _loop

\* Every variable keeps its type.
LEMMA TypeStep ==
  ASSUME TypeOK, Parts, Reading, [Next]_vars
  PROVE  TypeOK'
<1>a. TypeOK => LoopTyped BY DEF TypeOK, LoopTyped
<1>b. \A s \in Sources : Len(log[s]) \in Nat BY LogType
<1>c. Mock \in Sources BY DEF Sources
<1>1. ASSUME NEW s \in Sources, NEW kind \in AllKinds, Grow(s, kind),
             pushed' = pushed \/ (s = Mock /\ pushed' = Len(log[Mock]) + 1),
             UNCHANGED direct
      PROVE  TypeOK'
  <2>1. /\ world' = world /\ open' = open /\ stop' = stop /\ thread' = thread /\ main' = main
        /\ pc' = pc /\ src' = src /\ pos' = pos /\ out' = out /\ fails' = fails
        /\ handed' = handed /\ offset' = offset
    BY <1>1 DEF Grow, mainVars, pollVars
  <2>2. \A t \in Sources : Len(log'[t]) \in Nat /\ Len(log[t]) <= Len(log'[t])
    BY <1>1, <1>b, Grown
  <2>3. log' \in [Sources -> Seq(AllKinds)] BY <1>1, Grown
  <2>4. \A t \in Sources : Len(log'[t]) <= world.lines[t]
    <3>1. Len(log'[s]) <= world.lines[s]
      BY <1>1, <1>b, Grown, WorldType DEF Grow, TypeOK
    <3> QED BY <1>1, <3>1, Grown DEF TypeOK
  <2>5. \A t \in Sources : offset[t] \in 0..Len(log'[t]) BY <1>b, <2>2 DEF TypeOK
  <2>6. pushed' \in 0..Len(log'[Mock])
    <3>1. CASE pushed' = pushed
      <4>1. pushed \in 0..Len(log[Mock]) BY DEF TypeOK
      <4> QED BY <1>b, <1>c, <2>2, <3>1, <4>1
    <3>2. CASE s = Mock /\ pushed' = Len(log[Mock]) + 1
      <4>1. Len(log'[Mock]) = Len(log[Mock]) + 1 BY <1>1, <3>2, Grown
      <4> QED BY <1>b, <1>c, <3>2, <4>1
    <3> QED BY <1>1, <3>1, <3>2
  <2>7. direct' \subseteq 1..Len(log'[Mock]) BY <1>1, <1>b, <1>c, <2>2 DEF TypeOK
  <2> QED BY <2>1, <2>3, <2>4, <2>5, <2>6, <2>7 DEF TypeOK
<1>2. ASSUME NEW s \in Sources, NEW kind \in AllKinds, Write(s, kind) PROVE TypeOK'
  BY <1>1, <1>2, WritersGrow DEF Write
<1>3. CASE push_mock
  <2>1. "event" \in AllKinds BY DEF AllKinds
  <2> QED BY <1>1, <1>3, <1>c, <2>1, WritersGrow DEF push_mock
<1>4. CASE PushDispatch
  <2>1. pushed \in 1..Len(log[Mock]) BY <1>4, <1>b, <1>c DEF PushDispatch, TypeOK
  <2>2. direct' \subseteq 1..Len(log[Mock]) /\ pushed' \in 0..Len(log[Mock])
    BY <1>4, <1>b, <1>c, <2>1 DEF PushDispatch, TypeOK
  <2> QED BY <1>4, <2>2 DEF PushDispatch, TypeOK, srcVars, mainVars, pollVars
<1>5. CASE start_polling
  BY <1>5 DEF start_polling, TypeOK, srcVars, Mode, Labels, Ended
<1>6. CASE stop_polling \/ Joined
  BY <1>6 DEF stop_polling, Joined, TypeOK, srcVars, pollVars, Mode
<1>7. ASSUME NEW q \in Pollers, _loop(q) PROVE TypeOK'
  <2>1. /\ world' = world /\ open' = open /\ stop' = stop /\ thread' = thread /\ main' = main
        /\ log' = log /\ pushed' = pushed /\ direct' = direct
    BY <1>7, OthersKept DEF mainVars
  <2>2. LoopTyped' BY <1>7, <1>a, LoopTypes
  <2> QED BY <2>1, <2>2 DEF TypeOK, LoopTyped
<1>8. CASE UNCHANGED vars BY <1>8 DEF vars, srcVars, mainVars, pollVars, TypeOK
<1> QED BY <1>2, <1>3, <1>4, <1>5, <1>6, <1>7, <1>8 DEF Next

-----------------------------------------------------------------------------
(* Lines and pollers.                                                       *)

\* A tail follows its head.
LEMMA PartsStep ==
  ASSUME TypeOK, Parts, [Next]_vars
  PROVE  Parts'
<1>1. ASSUME NEW s \in Sources, NEW kind \in AllKinds, Grow(s, kind) PROVE Parts'
  <2> SUFFICES ASSUME NEW t \in Sources, NEW k \in 1..Len(log'[t]), log'[t][k] = "head"
               PROVE  t = Wal /\ (k < Len(log'[t]) => log'[t][k + 1] = "tail")
    BY DEF Parts
  <2>1. CASE t # s BY <1>1, <2>1, Grown DEF Parts
  <2>2. CASE t = s
    <3>1. /\ Len(log[s]) \in Nat /\ Len(log'[s]) = Len(log[s]) + 1
          /\ log'[s][Len(log[s]) + 1] = kind
          /\ \A n \in 1..Len(log[s]) : log'[s][n] = log[s][n]
      BY <1>1, Grown
    <3>2. CASE k = Len(log[s]) + 1 BY <1>1, <2>2, <3>1, <3>2 DEF Grow
    <3>3. CASE k < Len(log[s])
      <4>1. k \in 1..Len(log[s]) /\ k + 1 \in 1..Len(log[s]) BY <2>2, <3>1, <3>3
      <4> QED BY <2>2, <3>1, <3>3, <4>1 DEF Parts
    <3>4. CASE k = Len(log[s])
      <4>1. k \in 1..Len(log[s]) /\ log[s][k] = "head" BY <2>2, <3>1, <3>4
      <4>2. TornLast(s)
        <5>1. log[s] # <<>> BY <4>1, EmptySeq
        <5> QED BY <3>4, <4>1, <5>1 DEF TornLast
      <4>3. kind = "tail" BY <1>1, <4>2 DEF Grow
      <4> QED BY <2>2, <3>1, <3>4, <4>1, <4>3 DEF Parts
    <3> QED BY <2>2, <3>1, <3>2, <3>3, <3>4
  <2> QED BY <2>1, <2>2
<1>2. CASE UNCHANGED log BY <1>2 DEF Parts
<1>3. \/ UNCHANGED log
      \/ \E s \in Sources, kind \in AllKinds : Grow(s, kind)
  <2>1. Mock \in Sources /\ "event" \in AllKinds BY DEF Sources, AllKinds
  <2> QED BY <2>1, WritersGrow, OthersKept
      DEF Next, PushDispatch, start_polling, stop_polling, Joined, vars, srcVars
<1> QED BY <1>1, <1>2, <1>3

\* What a poller has collected before it polls, and where it reads.
LEMMA ReadingStep ==
  ASSUME TypeOK, Parts, Empty, Reading, [Next]_vars
  PROVE  Empty' /\ Reading'
<1>a. /\ pc \in [Pollers -> Labels] /\ src \in [Pollers -> Sources]
      /\ pos \in [Pollers -> Nat] /\ offset \in [Sources -> Nat]
      /\ out \in [Pollers -> SUBSET [src : Sources, line : Nat]]
  BY DEF TypeOK
<1>b. \A s \in Sources : Len(log[s]) \in Nat BY LogType
<1>c. Mock \in Sources /\ Wal \in Sources /\ Native \in Sources /\ Mode \in {"off", "subprocess", "ctypes"}
  BY WorldType DEF Sources, TypeOK
<1>1. ASSUME NEW s \in Sources, NEW kind \in AllKinds, Grow(s, kind) PROVE Empty' /\ Reading'
  <2>1. /\ world' = world /\ pc' = pc /\ src' = src /\ pos' = pos /\ out' = out
    BY <1>1 DEF Grow, mainVars, pollVars
  <2>2. \A t \in Sources : Len(log'[t]) \in Nat /\ Len(log[t]) <= Len(log'[t])
    BY <1>1, <1>b, Grown
  <2>3. Empty' BY <2>1 DEF Empty, EmptyOf, Mode
  <2>4. Mode' = Mode BY <2>1 DEF Mode
  <2>5. ASSUME NEW q \in Pollers PROVE ReadingOf(q)'
    <3>1. ReadingOf(q) /\ src[q] \in Sources /\ pos[q] \in Nat BY <1>a DEF Reading
    <3>2. pc[q] = "read" => pos[q] <= Len(log'[src[q]])
      BY <1>b, <2>2, <3>1 DEF ReadingOf
    <3> QED BY <2>1, <2>4, <3>1, <3>2 DEF ReadingOf
  <2>6. Reading' BY <2>5 DEF Reading
  <2> QED BY <2>3, <2>6
<1>2. ASSUME UNCHANGED world, UNCHANGED log, UNCHANGED pollVars PROVE Empty' /\ Reading'
  BY <1>2 DEF pollVars, Empty, Reading, EmptyOf, ReadingOf, Mode
<1>3. CASE start_polling
  BY <1>a, <1>3 DEF start_polling, Empty, Reading, EmptyOf, ReadingOf, srcVars, Mode
<1>4. ASSUME NEW q \in Pollers, _loop(q) PROVE Empty' /\ Reading'
  <2>1. /\ world' = world /\ log' = log
        /\ \A r \in Pollers \ {q} :
             pc'[r] = pc[r] /\ src'[r] = src[r] /\ pos'[r] = pos[r] /\ out'[r] = out[r]
    BY <1>4, OthersKept DEF mainVars
  <2>a. EmptyOf(q) /\ ReadingOf(q) BY DEF Empty, Reading
  <2>b. Mode' = Mode BY <2>1 DEF Mode
  <2> SUFFICES EmptyOf(q)' /\ ReadingOf(q)'
    <3>1. ASSUME NEW r \in Pollers, r # q PROVE EmptyOf(r)' = EmptyOf(r) /\ ReadingOf(r)' = ReadingOf(r)
      BY <2>1, <2>b, <3>1 DEF EmptyOf, ReadingOf
    <3> QED BY <3>1 DEF Empty, Reading
  <2> USE DEF EmptyOf, ReadingOf
  <2>2. ASSUME NEW label, NEW s, Goto(q, label, s) PROVE pc'[q] = label /\ src'[q] = s
    BY <1>a, <2>2 DEF Goto
  <2>3. CASE CheckStop(q)
    BY <1>a, <2>3, <2>a, <2>b DEF CheckStop
  <2>4. CASE _poll_native(q) BY <1>a, <1>c, <2>2, <2>4, <2>a, <2>b DEF _poll_native
  <2>5. CASE OpenFile(q)
    <3>1. pc'[q] = "read" /\ src'[q] = src[q] /\ pos'[q] = offset[src[q]] /\ src[q] \in {Wal, Mock}
      BY <1>a, <2>2, <2>5, <2>a DEF OpenFile
    <3>2. offset[src[q]] <= Len(log[src[q]]) BY <1>a, <1>b DEF TypeOK
    <3> QED BY <2>1, <3>1, <3>2
  <2>6. CASE poll_lines(q)
    <3>1. /\ pc' = pc /\ src' = src /\ pc[q] = "poll" /\ Mode = "ctypes"
          /\ out' = [out EXCEPT ![q] = out[q] \cup {[src |-> Native, line |-> offset'[Native]]}]
      BY <2>6 DEF poll_lines, Lines
    <3>2. out'[q] = out[q] \cup {[src |-> Native, line |-> offset'[Native]]} BY <1>a, <3>1
    <3>3. \A e \in out'[q] : e.src = Native BY <2>a, <3>1, <3>2
    <3> QED BY <2>a, <2>b, <3>1, <3>3
  <2>7. CASE EndPoll(q) \/ poll_lines_subprocess(q)
    <3>1. Goto(q, "died", Native) \/ Goto(q, "open", Wal)
      BY <2>7 DEF EndPoll, poll_lines_subprocess, Parse
    <3> QED BY <2>2, <3>1, <1>c
  <2>8. CASE ReadLine(q)
    <3>1. PICK s \in Sources, k \in Nat :
            /\ s = src[q] /\ k \in 1..Len(log[s])
            /\ Kills(q, s, k) \/ \E n, got : Collects(q, s, k, n, got)
      BY <2>8, ReadEffect
    <3>2. pc[q] = "read" BY <2>8 DEF ReadLine
    <3>3. CASE Kills(q, s, k) BY <2>2, <3>3 DEF Kills
    <3>4. CASE \E n, got : Collects(q, s, k, n, got)
      <4>1. PICK n, got : Collects(q, s, k, n, got) BY <3>4
      <4>2. n <= Len(log[s]) /\ n \in Nat BY <1>b, <3>1, <4>1 DEF Collects, Complete
      <4>3. pc'[q] = "read" /\ src'[q] = s /\ pos'[q] = n
        BY <1>a, <3>1, <3>2, <4>1 DEF Collects
      <4> QED BY <2>1, <2>a, <3>1, <3>2, <4>2, <4>3
    <3> QED BY <3>1, <3>3, <3>4
  <2>9. CASE EndFile(q) \/ ReadFails(q)
    <3>1. Goto(q, "open", Mock) \/ Goto(q, "dispatch", Native)
      BY <2>9 DEF EndFile, ReadFails, Leave
    <3> QED BY <2>2, <3>1, <1>c
  <2>10. CASE _dispatch(q)
    BY <1>a, <2>10, <2>a, <2>b DEF _dispatch
  <2>11. CASE EndRound(q) BY <1>a, <2>2, <2>11 DEF EndRound
  <2> QED
    BY <1>4, <2>3, <2>4, <2>5, <2>6, <2>7, <2>8, <2>9, <2>10, <2>11 DEF _loop
<1>5. \/ UNCHANGED world /\ UNCHANGED log /\ UNCHANGED pollVars
      \/ start_polling
      \/ \E q \in Pollers : _loop(q)
      \/ \E s \in Sources, kind \in AllKinds : Write(s, kind)
      \/ push_mock
  BY DEF Next, PushDispatch, stop_polling, Joined, vars, srcVars, mainVars
<1>6. "event" \in AllKinds BY DEF AllKinds
<1> QED BY <1>c, <1>1, <1>2, <1>3, <1>4, <1>5, <1>6, WritersGrow

\* At most one poller runs, and lidb's handle is open while one is in a call, if none
\* outlasts the join.
LEMMA OnePollerStep ==
  ASSUME TypeOK, OnePoller, HandleOpen, [Next]_vars
  PROVE  OnePoller' /\ HandleOpen'
<1>a. /\ pc \in [Pollers -> Labels] /\ src \in [Pollers -> Sources]
      /\ thread \in Pollers \cup {0} /\ 0 \notin Pollers
      /\ world.late \in BOOLEAN
  BY WorldType DEF TypeOK, Pollers
<1>1. ASSUME UNCHANGED world, UNCHANGED open, UNCHANGED thread, UNCHANGED pc
      PROVE  OnePoller' /\ HandleOpen'
  BY <1>1 DEF OnePoller, HandleOpen, Running, Mode
<1>2. CASE start_polling
  <2>1. /\ world' = world /\ open' = open
        /\ thread # 0 => pc[thread] \in Ended
    BY <1>2 DEF start_polling
  <2>2. PICK q \in Pollers : thread' = q /\ pc' = [pc EXCEPT ![q] = "top"]
    BY <1>2 DEF start_polling
  <2>3. ~world.late => Running' \subseteq {q}
    BY <1>a, <2>1, <2>2 DEF OnePoller, Running
  <2>4. HandleOpen' BY <1>a, <2>1, <2>2 DEF HandleOpen, Mode
  <2> QED BY <2>1, <2>2, <2>3, <2>4 DEF OnePoller
<1>3. CASE Joined
  <2>1. world' = world /\ pc' = pc BY <1>3 DEF Joined, pollVars
  <2>2. ~world.late => Running = {}
    BY <1>a, <1>3 DEF Joined, OnePoller, Running
  <2>3. OnePoller' BY <2>1, <2>2 DEF OnePoller, Running
  <2>4. ~world.late => \A q \in Pollers : pc[q] # "poll"
    BY <2>2 DEF Running, Ended
  <2> QED BY <2>1, <2>3, <2>4 DEF HandleOpen
<1>4. ASSUME NEW q \in Pollers, _loop(q) PROVE OnePoller' /\ HandleOpen'
  <2>1. /\ world' = world /\ open' = open /\ thread' = thread
        /\ \A r \in Pollers : r # q => pc'[r] = pc[r]
    BY <1>4, OthersKept DEF mainVars
  <2>2. pc[q] \notin Ended
    BY <1>4 DEF _loop, CheckStop, _poll_native, poll_lines, EndPoll, poll_lines_subprocess,
       OpenFile, ReadLine, EndFile, ReadFails, _dispatch, EndRound, Ended
  <2>3. OnePoller' BY <2>1, <2>2 DEF OnePoller, Running
  <2>4. pc'[q] = "poll" => pc[q] = "poll" \/ Mode # "ctypes" \/ open
    <3>1. ASSUME NEW label, NEW s, Goto(q, label, s) PROVE pc'[q] = label
      BY <1>a, <3>1 DEF Goto
    <3>2. CASE _poll_native(q) BY <3>1, <3>2 DEF _poll_native
    <3>3. CASE CheckStop(q) BY <1>a, <3>3 DEF CheckStop
    <3>4. CASE poll_lines(q) \/ EndPoll(q) \/ poll_lines_subprocess(q)
      BY <3>4 DEF poll_lines, EndPoll, poll_lines_subprocess
    <3>5. CASE OpenFile(q) \/ ReadLine(q) \/ EndRound(q) \/ _dispatch(q)
      BY <3>1, <3>5 DEF OpenFile, ReadLine, EndRound, _dispatch
    <3>6. CASE EndFile(q) \/ ReadFails(q) BY <3>1, <3>6 DEF EndFile, ReadFails, Leave
    <3> QED BY <1>4, <3>2, <3>3, <3>4, <3>5, <3>6 DEF _loop
  <2>5. HandleOpen' BY <2>1, <2>4 DEF HandleOpen, Mode
  <2> QED BY <2>3, <2>5
<1>5. \/ UNCHANGED world /\ UNCHANGED open /\ UNCHANGED thread /\ UNCHANGED pc
      \/ start_polling \/ Joined
      \/ \E q \in Pollers : _loop(q)
  BY DEF Next, Write, push_mock, PushDispatch, stop_polling, vars, mainVars, pollVars
<1> QED BY <1>1, <1>2, <1>3, <1>4, <1>5

-----------------------------------------------------------------------------
(* Nothing is lost.                                                         *)

\* A line stays safe while the listener's calls are kept and no poller lets go of it.
LEMMA SafeKept ==
  ASSUME NEW s, NEW k, Safe(s, k), log'[s][k] = log[s][k],
         Handed(s, k) => Handed(s, k)',
         Swallowed => Swallowed',
         \A q \in Pollers : [src |-> s, line |-> k] \in out[q] =>
           \/ [src |-> s, line |-> k] \in out'[q]
           \/ Handed(s, k)'
           \/ log[s][k] # "event"
           \/ s = Native /\ Swallowed'
  PROVE  Safe(s, k)'
BY DEF Safe

\* A line behind the offset, or read by a poller, stays safe or becomes so.
LEMMA CollectedStep ==
  ASSUME TypeOK, Parts, Empty, Reading, Collected, [Next]_vars
  PROVE  Collected'
<1>a. /\ pc \in [Pollers -> Labels] /\ src \in [Pollers -> Sources]
      /\ pos \in [Pollers -> Nat] /\ offset \in [Sources -> Nat]
      /\ out \in [Pollers -> SUBSET [src : Sources, line : Nat]]
      /\ handed \in Seq([src : Sources, line : Nat]) /\ fails \in Nat
  BY WorldType DEF TypeOK
<1>b. \A s \in Sources : Len(log[s]) \in Nat /\ offset[s] <= Len(log[s])
  BY LogType DEF TypeOK
<1>c. Mock \in Sources /\ Wal \in Sources /\ Native \in Sources BY DEF Sources
<1>1. ASSUME NEW s \in Sources, NEW kind \in AllKinds, Grow(s, kind) PROVE Collected'
  <2>1. /\ world' = world /\ pc' = pc /\ src' = src /\ pos' = pos /\ out' = out
        /\ handed' = handed /\ offset' = offset /\ fails' = fails
    BY <1>1 DEF Grow, mainVars, pollVars
  <2>2. \A t \in Sources : \A k \in 1..Len(log[t]) : log'[t][k] = log[t][k]
    BY <1>1, Grown
  <2>3. ASSUME NEW t \in Sources, NEW k \in 1..Len(log[t]), Safe(t, k) PROVE Safe(t, k)'
    <3>1. Handed(t, k)' = Handed(t, k) BY <2>1 DEF Handed
    <3>2. Swallowed' = Swallowed BY <2>1 DEF Swallowed, Dead, Mode
    <3> QED BY <2>1, <2>2, <2>3, <3>1, <3>2 DEF Safe
  <2>4. ASSUME NEW t \in Sources, NEW k \in 1..offset[t] PROVE Safe(t, k)'
    <3>1. k \in 1..Len(log[t]) BY <1>a, <1>b
    <3> QED BY <2>3, <3>1 DEF Collected
  <2>5. ASSUME NEW q \in Pollers, pc[q] = "read", NEW k \in 1..pos[q], NEW t \in Sources, t = src[q]
        PROVE  Safe(t, k)'
    <3>1. k \in 1..Len(log[t]) BY <1>a, <1>b, <2>5 DEF Reading, ReadingOf
    <3>2. Safe(t, k) BY <2>5 DEF Collected
    <3> QED BY <2>3, <3>1, <3>2
  <2> QED BY <1>a, <2>1, <2>4, <2>5 DEF Collected
<1>2. ASSUME UNCHANGED world, UNCHANGED log, UNCHANGED offset, UNCHANGED handed, UNCHANGED pollVars
      PROVE  Collected'
  BY <1>2 DEF pollVars, Collected, Safe, Handed, Swallowed, Dead, Mode
<1>3. CASE start_polling
  <2>1. /\ log' = log /\ offset' = offset /\ handed' = handed /\ out' = out /\ src' = src
        /\ pos' = pos /\ fails' = fails /\ world' = world
    BY <1>3 DEF start_polling, srcVars
  <2>2. PICK q \in Pollers : pc[q] = "absent" /\ pc' = [pc EXCEPT ![q] = "top"]
    BY <1>3 DEF start_polling
  <2>3. Swallowed => Swallowed' BY <1>a, <2>1, <2>2 DEF Swallowed, Dead, Mode
  <2>4. ASSUME NEW t \in Sources, NEW k, Safe(t, k) PROVE Safe(t, k)'
    BY <2>1, <2>3, <2>4 DEF Safe, Handed
  <2>5. \A r \in Pollers : pc'[r] = "read" => pc[r] = "read" BY <1>a, <2>2
  <2> QED BY <1>a, <2>1, <2>4, <2>5 DEF Collected
<1>4. ASSUME NEW q \in Pollers, _loop(q) PROVE Collected'
  <2>1. /\ world' = world /\ log' = log
        /\ \A r \in Pollers \ {q} :
             pc'[r] = pc[r] /\ src'[r] = src[r] /\ pos'[r] = pos[r] /\ out'[r] = out[r]
    BY <1>4, OthersKept DEF mainVars
  <2>a. EmptyOf(q) /\ ReadingOf(q) BY DEF Empty, Reading
  <2>b. ASSUME NEW label, NEW s, Goto(q, label, s)
        PROVE  pc'[q] = label /\ src'[q] = s
    BY <1>a, <2>b DEF Goto
  <2>c. pc[q] \notin Ended
    BY <1>4 DEF _loop, CheckStop, _poll_native, poll_lines, EndPoll, poll_lines_subprocess,
       OpenFile, ReadLine, EndFile, ReadFails, _dispatch, EndRound, Ended
  <2>d. fails <= fails'
    BY <1>4, <1>a DEF _loop, CheckStop, _poll_native, poll_lines, EndPoll, poll_lines_subprocess,
       OpenFile, ReadLine, EndFile, ReadFails, _dispatch, EndRound
  <2>e. Swallowed => Swallowed'
    <3>1. Dead => Dead' BY <2>1, <2>c DEF Dead, Ended
    <3>2. fails > 0 => fails' > 0
      <4>1. fails' \in Nat BY <1>4, TypeStep, WorldType DEF TypeOK, Next
      <4> QED BY <1>a, <2>d, <4>1
    <3> QED BY <2>1, <3>1, <3>2 DEF Swallowed, Mode
  \* It is enough that nothing is let go of, and that what is passed is safe.
  <2>f. ASSUME \A s \in Sources : \A k \in Nat : Handed(s, k) => Handed(s, k)',
               \A s \in Sources : \A k \in Nat : [src |-> s, line |-> k] \in out[q] =>
                 \/ [src |-> s, line |-> k] \in out'[q]
                 \/ Handed(s, k)'
                 \/ log[s][k] # "event"
                 \/ s = Native /\ Swallowed',
               \A s \in Sources : \A k \in 1..offset'[s] : k \in 1..offset[s] \/ Safe(s, k)' \/ Safe(s, k),
               \A s \in Sources : pc'[q] = "read" /\ s = src'[q] =>
                 \A k \in 1..pos'[q] : Safe(s, k) \/ Safe(s, k)'
        PROVE  Collected'
    <3>1. ASSUME NEW s \in Sources, NEW k \in Nat, Safe(s, k) PROVE Safe(s, k)'
      <4>1. \A r \in Pollers : [src |-> s, line |-> k] \in out[r] =>
              \/ [src |-> s, line |-> k] \in out'[r]
              \/ Handed(s, k)'
              \/ log[s][k] # "event"
              \/ s = Native /\ Swallowed'
        BY <2>1, <2>f
      <4> QED BY <2>1, <2>e, <2>f, <3>1, <4>1, SafeKept
    <3>2. ASSUME NEW s \in Sources, NEW k \in 1..offset'[s] PROVE Safe(s, k)'
      <4>1. k \in Nat OBVIOUS
      <4> QED BY <2>f, <3>1, <3>2, <4>1 DEF Collected
    <3>3. ASSUME NEW r \in Pollers, pc'[r] = "read", NEW s \in Sources, s = src'[r], NEW k \in 1..pos'[r]
          PROVE  Safe(s, k)'
      <4>1. k \in Nat OBVIOUS
      <4>2. CASE r # q
        <5>1. pc[r] = "read" /\ s = src[r] /\ k \in 1..pos[r] BY <2>1, <3>3, <4>2
        <5> QED BY <3>1, <4>1, <5>1 DEF Collected
      <4>3. CASE r = q BY <2>f, <3>1, <3>3, <4>1, <4>3
      <4> QED BY <4>2, <4>3
    <3>4. src' \in [Pollers -> Sources] BY <1>4, TypeStep DEF TypeOK, Next
    <3> QED BY <3>2, <3>3, <3>4 DEF Collected
  <2>g. ASSUME UNCHANGED handed
        PROVE  \A s \in Sources : \A k \in Nat : Handed(s, k) => Handed(s, k)'
    BY <2>g DEF Handed
  <2>3. CASE CheckStop(q) \/ _poll_native(q) \/ EndRound(q)
    <3>1. UNCHANGED handed /\ UNCHANGED out /\ UNCHANGED offset
      BY <2>3 DEF CheckStop, _poll_native, EndRound, srcVars
    <3>2. pc'[q] # "read"
      BY <1>a, <2>b, <2>3 DEF CheckStop, _poll_native, EndRound
    <3> QED BY <2>f, <2>g, <3>1, <3>2
  <2>4. CASE OpenFile(q)
    <3>1. UNCHANGED handed /\ UNCHANGED out /\ UNCHANGED offset BY <2>4 DEF OpenFile, srcVars
    <3>2. src'[q] = src[q] /\ pos'[q] = offset[src[q]] BY <1>a, <2>b, <2>4 DEF OpenFile
    <3>3. \A k \in 1..offset[src[q]] : Safe(src[q], k) BY <1>a DEF Collected
    <3> QED BY <2>f, <2>g, <3>1, <3>2, <3>3
  <2>5. CASE poll_lines(q)
    <3>1. /\ UNCHANGED handed /\ pc'[q] # "read" /\ offset[Native] \in Nat
          /\ offset' = [offset EXCEPT ![Native] = offset[Native] + 1]
          /\ out' = [out EXCEPT ![q] = out[q] \cup {[src |-> Native, line |-> offset'[Native]]}]
      BY <1>a, <1>c, <2>5 DEF poll_lines, Lines
    <3>2. offset'[Native] = offset[Native] + 1 /\ \A s \in Sources : s # Native => offset'[s] = offset[s]
      BY <1>a, <1>c, <3>1
    <3>3. out'[q] = out[q] \cup {[src |-> Native, line |-> offset[Native] + 1]}
      BY <1>a, <3>1, <3>2
    <3>4. \A k : k = offset[Native] + 1 => Safe(Native, k)' BY <3>3 DEF Safe
    <3>5. ASSUME NEW s \in Sources, NEW k \in 1..offset'[s] PROVE k \in 1..offset[s] \/ Safe(s, k)'
      <4>1. CASE s # Native BY <3>2, <4>1
      <4>2. CASE s = Native
        <5>0. offset'[s] = offset[Native] + 1 BY <3>2, <4>2
        <5>1. k \in 1..offset[Native] \/ k = offset[Native] + 1 BY <3>1, <5>0
        <5> QED BY <3>4, <4>2, <5>1
      <4> QED BY <4>1, <4>2
    <3> QED BY <2>f, <2>g, <3>1, <3>3, <3>5
  <2>6. CASE EndPoll(q)
    <3>1. UNCHANGED handed /\ UNCHANGED offset BY <2>6 DEF EndPoll, srcVars
    <3>2. pc'[q] # "read" BY <2>b, <2>6 DEF EndPoll, Parse
    <3>3. out'[q] = out[q] \/ out'[q] = parse_native_json_line(out[q])
      BY <1>a, <2>6 DEF EndPoll, Parse
    <3>4. \A s \in Sources : \A k \in Nat : [src |-> s, line |-> k] \in out[q] =>
            [src |-> s, line |-> k] \in out'[q] \/ log[s][k] # "event"
      <4>1. \A e \in out[q] : e.src = Native /\ (e \in out'[q] \/ log[Native][e.line] = "junk")
        BY <2>6, <2>a, <3>3 DEF EndPoll, ReadingOf, parse_native_json_line
      <4> QED BY <4>1
    <3> QED BY <2>f, <2>g, <3>1, <3>2, <3>4
  <2>7. CASE poll_lines_subprocess(q)
    <3>1. UNCHANGED handed /\ out[q] = {} BY <2>7, <2>a DEF poll_lines_subprocess, EmptyOf
    <3>2. pc'[q] # "read" BY <2>b, <2>7 DEF poll_lines_subprocess, Parse
    <3>3. offset' = offset \/ offset' = Drained BY <2>7 DEF poll_lines_subprocess
    <3>4. \A s \in Sources : s # Native => offset'[s] = offset[s]
      BY <3>3, HelpedTyped
    <3>5. ASSUME NEW k \in 1..offset'[Native] PROVE k \in 1..offset[Native] \/ k \in Helped
      <4>0. offset[Native] \in Nat BY <1>a, <1>c
      <4>1. CASE offset'[Native] = offset[Native] BY <4>1
      <4>2. CASE offset' = Drained /\ Helped # {}
        <5>1. offset'[Native] = Len(log[Native]) /\ Helped = (offset[Native] + 1)..Len(log[Native])
          BY <4>2, HelpedTyped
        <5>2. k \in 1..Len(log[Native]) /\ Len(log[Native]) \in Nat BY <1>b, <1>c, <5>1
        <5> QED BY <4>0, <5>1, <5>2
      <4>3. CASE offset' = Drained /\ Helped = {} BY <4>1, <4>3, HelpedTyped
      <4> QED BY <3>3, <4>1, <4>2, <4>3
    <3>6. ASSUME NEW k \in Helped PROVE Safe(Native, k)'
      <4>1. CASE Parse(q, Lines(Helped))
        <5>1. [src |-> Native, line |-> k] \in Lines(Helped) BY DEF Lines
        <5>2. out'[q] = Lines(Helped) \/ out'[q] = parse_native_json_line(Lines(Helped))
          BY <1>a, <4>1 DEF Parse
        <5>3. [src |-> Native, line |-> k] \in out'[q] \/ log[Native][k] = "junk"
          BY <5>1, <5>2 DEF parse_native_json_line
        <5> QED BY <2>1, <5>3 DEF Safe
      <4>2. CASE fails' = fails + 1
        <5>1. fails' > 0 BY <1>a, <4>2
        <5> QED BY <2>1, <2>7, <5>1 DEF poll_lines_subprocess, Safe, Swallowed, Mode
      <4>3. CASE Goto(q, "died", Native)
        <5>1. pc'[q] = "died" BY <2>b, <4>3
        <5> QED BY <5>1 DEF Safe, Swallowed, Dead
      <4> QED BY <2>7, <4>1, <4>2, <4>3 DEF poll_lines_subprocess
    <3>7. ASSUME NEW s \in Sources, NEW k \in 1..offset'[s] PROVE k \in 1..offset[s] \/ Safe(s, k)'
      <4>1. CASE s # Native BY <3>4, <4>1
      <4>2. CASE s = Native BY <3>5, <3>6, <4>2
      <4> QED BY <4>1, <4>2
    <3> QED BY <2>f, <2>g, <3>1, <3>2, <3>7
  <2>8. CASE ReadLine(q)
    <3>0. UNCHANGED handed /\ UNCHANGED offset /\ pc[q] = "read" BY <2>8 DEF ReadLine, srcVars
    <3>1. PICK s \in Sources, k \in Nat :
            /\ s = src[q] /\ k = pos[q] + 1 /\ k \in 1..Len(log[s])
            /\ Kills(q, s, k) \/ \E n, got : Collects(q, s, k, n, got)
      BY <2>8, ReadEffect
    <3>2. CASE Kills(q, s, k)
      <4>1. UNCHANGED out /\ pc'[q] # "read" BY <2>b, <3>2 DEF Kills
      <4> QED BY <2>f, <2>g, <3>0, <4>1
    <3>3. CASE \E n, got : Collects(q, s, k, n, got)
      <4>1. PICK n, got : Collects(q, s, k, n, got) BY <3>3
      <4>2. pos'[q] = n /\ out'[q] = got /\ src'[q] = s BY <1>a, <3>1, <4>1 DEF Collects
      <4>3. out[q] \subseteq out'[q] BY <4>1, <4>2 DEF Collects
      <4>4. Safe(s, k)' BY <2>1, <4>1, <4>2 DEF Collects, Safe
      <4>5. Complete(s, k) => Safe(s, k + 1)
        <5>1. Complete(s, k) => log[s][k + 1] = "tail" BY <3>1 DEF Complete, Parts
        <5> QED BY <5>1 DEF Safe
      <4>6. ASSUME NEW j \in 1..n PROVE Safe(s, j) \/ Safe(s, j)'
        <5>1. j \in 1..pos[q] \/ j = k \/ (j = k + 1 /\ Complete(s, k))
          <6>1. pos[q] \in Nat /\ n \in Nat BY <1>a, <4>1 DEF Collects
          <6> QED BY <3>1, <4>1, <6>1 DEF Collects
        <5> QED BY <3>0, <3>1, <4>4, <4>5, <5>1 DEF Collected
      <4> QED BY <2>f, <2>g, <3>0, <4>2, <4>3, <4>6
    <3> QED BY <3>1, <3>2, <3>3
  <2>9. CASE EndFile(q)
    <3>1. /\ UNCHANGED handed /\ UNCHANGED out /\ pc[q] = "read"
          /\ offset' = [offset EXCEPT ![src[q]] = pos[q]]
      BY <2>9 DEF EndFile
    <3>2. pc'[q] # "read" BY <2>b, <2>9 DEF EndFile, Leave
    <3>3. ASSUME NEW s \in Sources, NEW k \in 1..offset'[s] PROVE k \in 1..offset[s] \/ Safe(s, k)
      <4>1. CASE s = src[q]
        <5>1. k \in 1..pos[q] BY <1>a, <3>1, <4>1
        <5> QED BY <3>1, <4>1, <5>1 DEF Collected
      <4>2. CASE s # src[q] BY <1>a, <3>1, <4>2
      <4> QED BY <4>1, <4>2
    <3> QED BY <2>f, <2>g, <3>1, <3>2, <3>3
  <2>10. CASE ReadFails(q)
    <3>1. UNCHANGED handed /\ UNCHANGED out /\ UNCHANGED offset BY <2>10 DEF ReadFails, srcVars
    <3>2. pc'[q] # "read" BY <2>b, <2>10 DEF ReadFails, Leave
    <3> QED BY <2>f, <2>g, <3>1, <3>2
  <2>11. CASE _dispatch(q)
    <3>1. UNCHANGED offset /\ pc'[q] # "read" BY <1>a, <2>11 DEF _dispatch, srcVars
    <3>2. PICK e \in out[q] : out' = [out EXCEPT ![q] = out[q] \ {e}] /\ handed' = Append(handed, e)
      BY <2>11 DEF _dispatch
    <3>3. /\ DOMAIN handed = 1..Len(handed) /\ DOMAIN handed' = 1..(Len(handed) + 1) /\ Len(handed) \in Nat
          /\ \A i \in DOMAIN handed : handed'[i] = handed[i]
          /\ handed'[Len(handed) + 1] = e
      BY <1>a, <3>2, AppendProperties, LenProperties
    <3>4. DOMAIN handed \subseteq DOMAIN handed' /\ Len(handed) + 1 \in DOMAIN handed' BY <3>3
    <3>5. \A s \in Sources : \A k \in Nat : Handed(s, k) => Handed(s, k)'
      BY <3>3, <3>4 DEF Handed
    <3>6. \A s \in Sources : \A k \in Nat : e = [src |-> s, line |-> k] => Handed(s, k)'
      BY <3>3, <3>4 DEF Handed
    <3>7. out'[q] = out[q] \ {e} BY <1>a, <3>2
    <3> QED BY <2>f, <3>1, <3>5, <3>6, <3>7
  <2> QED BY <1>4, <2>3, <2>4, <2>5, <2>6, <2>7, <2>8, <2>9, <2>10, <2>11 DEF _loop
<1>5. \/ UNCHANGED world /\ UNCHANGED log /\ UNCHANGED offset /\ UNCHANGED handed /\ UNCHANGED pollVars
      \/ start_polling
      \/ \E q \in Pollers : _loop(q)
      \/ \E s \in Sources, kind \in AllKinds : Write(s, kind)
      \/ push_mock
  BY DEF Next, PushDispatch, stop_polling, Joined, vars, srcVars, mainVars
<1>6. "event" \in AllKinds BY DEF AllKinds
<1> QED BY <1>c, <1>1, <1>2, <1>3, <1>4, <1>5, <1>6, WritersGrow

-----------------------------------------------------------------------------
(* In order, and once.                                                      *)

\* A call of the listener adds one event to those before it.
LEMMA HandedGrows ==
  ASSUME TypeOK, NEW e \in [src : Sources, line : Nat], handed' = Append(handed, e)
  PROVE  /\ \A i \in DOMAIN handed : handed[i] \in [src : Sources, line : Nat]
         /\ Len(handed) \in Nat /\ DOMAIN handed = 1..Len(handed)
         /\ DOMAIN handed' = 1..(Len(handed) + 1)
         /\ \A i \in DOMAIN handed : handed'[i] = handed[i]
         /\ handed'[Len(handed) + 1] = e
<1>1. handed \in Seq([src : Sources, line : Nat]) BY DEF TypeOK
<1>2. \A i \in DOMAIN handed : handed[i] \in [src : Sources, line : Nat]
  BY <1>1, ElementOfSeq, LenProperties
<1> QED BY <1>1, <1>2, AppendProperties, LenProperties

\* A step of the only poller keeps it before what was handed over.
LEMMA FreshLoop ==
  ASSUME TypeOK, TypeOK', Empty, Reading, Steady, Behind, NEW q \in Pollers, FreshOf(q), _loop(q)
  PROVE  Behind' /\ (pc'[q] \notin Ended => FreshOf(q)')
<1>a. /\ pc \in [Pollers -> Labels] /\ src \in [Pollers -> Sources]
      /\ pos \in [Pollers -> Nat] /\ offset \in [Sources -> Nat]
      /\ out \in [Pollers -> SUBSET [src : Sources, line : Nat]]
  BY DEF TypeOK
<1>j. fails = 0 /\ ~world.late /\ world.fails = 0
  <2>1. fails \in 0..world.fails BY DEF TypeOK
  <2> QED BY <2>1 DEF Steady
<1>b. /\ src' \in [Pollers -> Sources] /\ pos' \in [Pollers -> Nat] /\ offset' \in [Sources -> Nat]
      /\ out' \in [Pollers -> SUBSET [src : Sources, line : Nat]]
  BY DEF TypeOK
<1>c. Mock \in Sources /\ Wal \in Sources /\ Native \in Sources BY DEF Sources
<1>d. \A i \in DOMAIN handed : handed[i].src \in Sources /\ handed[i].line \in Nat
  <2>1. handed \in Seq([src : Sources, line : Nat]) BY DEF TypeOK
  <2>2. \A i \in DOMAIN handed : handed[i] \in [src : Sources, line : Nat]
    BY <2>1, ElementOfSeq, LenProperties
  <2> QED BY <2>2
<1>e. EmptyOf(q) /\ ReadingOf(q) BY DEF Empty, Reading
<1>f. \A e \in out[q] : e.src \in Sources /\ e.line \in Nat BY <1>a
<1>g. ASSUME NEW label, NEW s, Goto(q, label, s) PROVE pc'[q] = label /\ src'[q] = s
  BY <1>a, <1>g DEF Goto
\* Nothing is handed over or collected, and the offset stays.
<1>h. ASSUME UNCHANGED offset, UNCHANGED handed, out'[q] \subseteq out[q], pc[q] # "read",
             pc'[q] = "read" => pos'[q] = offset[src'[q]]
      PROVE  Behind' /\ FreshOf(q)'
  BY <1>a, <1>b, <1>h DEF Behind, FreshOf
<1>1. CASE CheckStop(q) \/ _poll_native(q) \/ EndRound(q)
  <2>1. UNCHANGED handed /\ UNCHANGED out /\ UNCHANGED offset
    BY <1>1 DEF CheckStop, _poll_native, EndRound, srcVars
  <2>2. pc[q] # "read" /\ pc'[q] # "read"
    BY <1>a, <1>g, <1>1 DEF CheckStop, _poll_native, EndRound
  <2> QED BY <1>h, <2>1, <2>2
<1>2. CASE OpenFile(q)
  <2>1. UNCHANGED handed /\ UNCHANGED out /\ UNCHANGED offset /\ pc[q] # "read"
    BY <1>2 DEF OpenFile, srcVars
  <2>2. src'[q] = src[q] /\ pos'[q] = offset[src[q]] BY <1>a, <1>g, <1>2 DEF OpenFile
  <2> QED BY <1>h, <2>1, <2>2
<1>3. CASE poll_lines(q)
  <2>1. /\ UNCHANGED handed /\ pc[q] = "poll" /\ pc'[q] = "poll" /\ offset[Native] \in Nat
        /\ offset' = [offset EXCEPT ![Native] = offset[Native] + 1]
        /\ out' = [out EXCEPT ![q] = out[q] \cup {[src |-> Native, line |-> offset'[Native]]}]
    BY <1>a, <1>c, <1>3 DEF poll_lines, Lines
  <2>2. offset'[Native] = offset[Native] + 1 /\ \A s \in Sources : s # Native => offset'[s] = offset[s]
    BY <1>a, <1>c, <2>1
  <2>3. \A s \in Sources : offset[s] \in Nat /\ offset'[s] \in Nat /\ offset[s] <= offset'[s]
    BY <1>a, <1>b, <2>2
  <2>4. Behind' BY <1>d, <2>1, <2>3 DEF Behind
  <2>5. out'[q] = out[q] \cup {[src |-> Native, line |-> offset[Native] + 1]}
    BY <1>a, <2>1, <2>2
  <2>6. ASSUME NEW e \in out'[q]
        PROVE  /\ e.line > 0
               /\ \A i \in DOMAIN handed : handed[i].src = e.src => handed[i].line < e.line
               /\ e.line <= offset'[e.src]
    <3>1. CASE e \in out[q] BY <1>f, <2>1, <2>3, <3>1 DEF FreshOf
    <3>2. CASE e = [src |-> Native, line |-> offset[Native] + 1]
      BY <1>d, <2>1, <2>2, <3>2 DEF Behind
    <3> QED BY <2>5, <3>1, <3>2
  <2> QED BY <2>1, <2>4, <2>6 DEF FreshOf
<1>4. CASE EndPoll(q)
  <2>1. UNCHANGED offset /\ UNCHANGED handed /\ pc[q] # "read" BY <1>4 DEF EndPoll, srcVars
  <2>2. pc'[q] # "read" BY <1>g, <1>4 DEF EndPoll, Parse
  <2>3. out'[q] \subseteq out[q] BY <1>a, <1>4 DEF EndPoll, Parse, parse_native_json_line
  <2> QED BY <1>h, <2>1, <2>2, <2>3
<1>5. CASE poll_lines_subprocess(q)
  <2>1. UNCHANGED handed /\ out[q] = {} BY <1>5, <1>e DEF poll_lines_subprocess, EmptyOf
  <2>2. offset' = Drained /\ Parse(q, Lines(Helped))
    BY <1>j, <1>5 DEF poll_lines_subprocess
  <2>3. pc'[q] # "read" BY <1>g, <2>2 DEF Parse
  <2>4. \A s \in Sources : offset[s] \in Nat /\ offset'[s] \in Nat /\ offset[s] <= offset'[s]
    <3>1. \A s \in Sources : s # Native => offset'[s] = offset[s] BY <2>2, HelpedTyped
    <3>2. offset[Native] <= offset'[Native] BY <2>2, HelpedTyped
    <3> QED BY <1>a, <1>b, <3>1, <3>2
  <2>5. Behind' BY <1>d, <2>1, <2>4 DEF Behind
  <2>6. ASSUME NEW e \in out'[q]
        PROVE  /\ e.line > 0
               /\ \A i \in DOMAIN handed : handed[i].src = e.src => handed[i].line < e.line
               /\ e.line <= offset'[e.src]
    <3>1. e \in Lines(Helped) BY <1>a, <2>2 DEF Parse, parse_native_json_line
    <3>2. PICK k \in Helped : e = [src |-> Native, line |-> k] BY <3>1 DEF Lines
    <3>3. k \in Nat /\ offset[Native] < k /\ k <= Len(log[Native]) BY HelpedTyped
    <3>4. offset'[Native] = Len(log[Native]) BY <2>2, HelpedTyped
    <3> QED BY <1>c, <1>d, <2>4, <3>2, <3>3, <3>4 DEF Behind
  <2> QED BY <2>1, <2>3, <2>5, <2>6 DEF FreshOf
<1>6. CASE ReadLine(q)
  <2>1. PICK s \in Sources, k \in Nat :
          /\ s = src[q] /\ k = pos[q] + 1 /\ k \in 1..Len(log[s])
          /\ Kills(q, s, k) \/ \E n, got : Collects(q, s, k, n, got)
    BY <1>6, ReadEffect
  <2>2. UNCHANGED offset /\ UNCHANGED handed /\ pc[q] = "read" BY <1>6 DEF ReadLine, srcVars
  <2>3. Behind' BY <2>2 DEF Behind
  <2>4. CASE Kills(q, s, k) BY <1>g, <2>3, <2>4 DEF Kills, Ended
  <2>5. CASE \E n, got : Collects(q, s, k, n, got)
    <3>1. PICK n, got : Collects(q, s, k, n, got) BY <2>5
    <3>2. pos'[q] = n /\ out'[q] = got /\ src'[q] = s /\ pc'[q] = "read"
      BY <1>a, <2>1, <2>2, <3>1 DEF Collects
    <3>3. pos[q] \in Nat /\ n \in Nat /\ pos[q] < k /\ k <= n /\ offset[s] \in Nat /\ offset[s] <= pos[q]
      BY <1>a, <2>1, <2>2, <3>1 DEF Collects, FreshOf
    <3>4. ASSUME NEW e \in got
          PROVE  /\ e.line > 0
                 /\ \A i \in DOMAIN handed : handed[i].src = e.src => handed[i].line < e.line
                 /\ e.line <= offset[e.src] \/ (e.src = s /\ e.line <= n)
      <4>1. CASE e \in out[q] BY <1>f, <2>1, <2>2, <3>3, <4>1 DEF FreshOf
      <4>2. CASE e = [src |-> s, line |-> k]
        BY <1>d, <2>1, <3>3, <4>2 DEF Behind
      <4> QED BY <3>1, <4>1, <4>2 DEF Collects
    <3>5. FreshOf(q)' BY <2>2, <3>2, <3>3, <3>4 DEF FreshOf
    <3> QED BY <2>3, <3>5
  <2> QED BY <2>1, <2>4, <2>5
<1>7. CASE EndFile(q)
  <2>1. /\ UNCHANGED handed /\ UNCHANGED out /\ pc[q] = "read"
        /\ offset' = [offset EXCEPT ![src[q]] = pos[q]]
    BY <1>7 DEF EndFile
  <2>2. pc'[q] # "read" BY <1>g, <1>7 DEF EndFile, Leave
  <2>3. /\ src[q] \in Sources /\ offset'[src[q]] = pos[q]
        /\ \A s \in Sources : offset[s] \in Nat /\ offset'[s] \in Nat /\ offset[s] <= offset'[s]
    BY <1>a, <1>b, <2>1 DEF FreshOf
  <2>4. Behind' BY <1>d, <2>1, <2>3 DEF Behind
  <2>5. \A e \in out[q] : e.line <= offset'[e.src] BY <1>f, <2>3 DEF FreshOf
  <2> QED BY <2>1, <2>2, <2>4, <2>5 DEF FreshOf
<1>8. CASE ReadFails(q) BY <1>j, <1>8 DEF ReadFails
<1>9. CASE _dispatch(q)
  <2>1. UNCHANGED offset /\ pc[q] = "dispatch" /\ pc'[q] = "dispatch" BY <1>a, <1>9 DEF _dispatch, srcVars
  <2>2. PICK e \in out[q] :
          /\ \A f \in out[q] : Before(e, f)
          /\ out' = [out EXCEPT ![q] = out[q] \ {e}] /\ handed' = Append(handed, e)
    BY <1>9 DEF _dispatch
  <2>3. e \in [src : Sources, line : Nat] /\ e.line <= offset[e.src] BY <1>a, <2>1 DEF FreshOf
  <2>4. /\ DOMAIN handed = 1..Len(handed) /\ DOMAIN handed' = 1..(Len(handed) + 1) /\ Len(handed) \in Nat
        /\ \A i \in DOMAIN handed : handed'[i] = handed[i]
        /\ handed'[Len(handed) + 1] = e
    BY <2>2, <2>3, HandedGrows
  <2>5. \A i \in DOMAIN handed' : (i \in DOMAIN handed /\ handed'[i] = handed[i]) \/ handed'[i] = e
    BY <2>4
  <2>6. Behind' BY <2>1, <2>3, <2>5 DEF Behind
  <2>7. ASSUME NEW f \in out'[q]
        PROVE  /\ f.line > 0
               /\ \A i \in DOMAIN handed' : handed'[i].src = f.src => handed'[i].line < f.line
               /\ f.line <= offset[f.src]
    <3>1. f \in out[q] /\ f # e /\ Before(e, f) BY <1>a, <2>2
    <3>2. e.src = f.src => e.line < f.line
      <4>1. f \in [src : Sources, line : Nat] BY <1>a, <3>1
      <4>2. e.src = f.src => e.line # f.line
        <5>1. e = [src |-> e.src, line |-> e.line] /\ f = [src |-> f.src, line |-> f.line]
          BY <2>3, <4>1
        <5> QED BY <3>1, <5>1
      <4>3. e.src = f.src => e.line <= f.line
        <5>1. e.src \in Nat /\ f.src \in Nat BY <2>3, <4>1 DEF Sources, Native, Wal, Mock
        <5> QED BY <3>1, <5>1 DEF Before
      <4> QED BY <2>3, <4>1, <4>2, <4>3
    <3> QED BY <2>1, <2>5, <3>1, <3>2 DEF FreshOf
  <2> QED BY <2>1, <2>6, <2>7 DEF FreshOf
<1> QED BY <1>1, <1>2, <1>3, <1>4, <1>5, <1>6, <1>7, <1>8, <1>9 DEF _loop

\* The same of every poller: while none outlasts a join, only one runs.
LEMMA FreshStep ==
  ASSUME TypeOK, TypeOK', Empty, Reading, OnePoller, Fresh, [Next]_vars
  PROVE  Fresh'
<1>a. pc \in [Pollers -> Labels] BY DEF TypeOK
<1>w. world' = world
  BY OthersKept DEF Next, Write, push_mock, PushDispatch, start_polling, stop_polling, Joined,
     vars, mainVars
<1> SUFFICES ASSUME Steady PROVE Behind' /\ \A q \in Running' : FreshOf(q)'
  BY <1>w DEF Fresh, Steady
<1>b. Behind /\ \A q \in Running : FreshOf(q) BY DEF Fresh
<1>1. ASSUME UNCHANGED offset, UNCHANGED handed, UNCHANGED pollVars
      PROVE  Behind' /\ \A q \in Running' : FreshOf(q)'
  BY <1>b, <1>1 DEF pollVars, Behind, Running, FreshOf
<1>2. CASE start_polling
  <2>1. /\ UNCHANGED offset /\ UNCHANGED handed /\ UNCHANGED out /\ UNCHANGED src /\ UNCHANGED pos
    BY <1>2 DEF start_polling, srcVars
  <2>2. PICK p \in Pollers : pc[p] = "absent" /\ pc' = [pc EXCEPT ![p] = "top"]
    BY <1>2 DEF start_polling
  <2>3. out[p] = {} BY <2>2 DEF Empty, EmptyOf
  <2>4. Behind' BY <1>b, <2>1 DEF Behind
  <2>5. ASSUME NEW q \in Running' PROVE FreshOf(q)'
    <3>1. CASE q = p BY <1>a, <2>1, <2>2, <2>3, <3>1 DEF FreshOf
    <3>2. CASE q # p
      <4>1. q \in Running /\ pc'[q] = pc[q] BY <1>a, <2>2, <3>2 DEF Running
      <4> QED BY <1>b, <2>1, <4>1 DEF FreshOf
    <3> QED BY <3>1, <3>2
  <2> QED BY <2>4, <2>5
<1>3. ASSUME NEW q \in Pollers, _loop(q) PROVE Behind' /\ \A r \in Running' : FreshOf(r)'
  <2>1. pc[q] \notin Ended
    BY <1>3 DEF _loop, CheckStop, _poll_native, poll_lines, EndPoll, poll_lines_subprocess,
       OpenFile, ReadLine, EndFile, ReadFails, _dispatch, EndRound, Ended
  <2>2. Running \subseteq {q} BY <2>1 DEF OnePoller, Steady, Running
  <2>3. \A r \in Pollers : r # q => pc'[r] = pc[r] BY <1>3, OthersKept
  <2>4. Running' \subseteq {q} BY <2>2, <2>3 DEF Running
  <2>5. q \in Running BY <2>1 DEF Running
  <2>6. Behind' /\ (pc'[q] \notin Ended => FreshOf(q)') BY <1>3, <1>b, <2>5, FreshLoop
  <2>7. \A r \in Running' : r = q /\ pc'[q] \notin Ended BY <2>4 DEF Running
  <2> QED BY <2>6, <2>7
<1>4. \/ UNCHANGED offset /\ UNCHANGED handed /\ UNCHANGED pollVars
      \/ start_polling
      \/ \E q \in Pollers : _loop(q)
  BY DEF Next, Write, push_mock, PushDispatch, stop_polling, Joined, vars, srcVars
<1> QED BY <1>1, <1>2, <1>3, <1>4

\* Only a dispatch calls the listener.
LEMMA HandedBy ==
  ASSUME [Next]_vars
  PROVE  UNCHANGED handed \/ \E q \in Pollers : _dispatch(q)
BY DEF Next, Write, push_mock, PushDispatch, start_polling, stop_polling, Joined, _loop, CheckStop,
   _poll_native, poll_lines, EndPoll, poll_lines_subprocess, OpenFile, ReadLine, EndFile, ReadFails,
   EndRound, vars

\* What is handed over next comes after what was, of its source.
LEMMA InOrderStep ==
  ASSUME TypeOK, Fresh, InOrder, [Next]_vars
  PROVE  InOrder'
<1>w. world' = world
  BY OthersKept DEF Next, Write, push_mock, PushDispatch, start_polling, stop_polling, Joined,
     vars, mainVars
<1>1. CASE UNCHANGED handed BY <1>w, <1>1 DEF InOrder
<1>2. ASSUME NEW q \in Pollers, _dispatch(q), Steady
      PROVE  \A i, j \in DOMAIN handed' :
               i < j /\ handed'[i].src = handed'[j].src => handed'[i].line < handed'[j].line
  <2>1. pc[q] = "dispatch" BY <1>2 DEF _dispatch
  <2>2. PICK e \in out[q] : handed' = Append(handed, e) BY <1>2 DEF _dispatch
  <2>3. e \in [src : Sources, line : Nat] BY DEF TypeOK
  <2>4. /\ DOMAIN handed = 1..Len(handed) /\ DOMAIN handed' = 1..(Len(handed) + 1) /\ Len(handed) \in Nat
        /\ \A i \in DOMAIN handed : handed'[i] = handed[i]
        /\ handed'[Len(handed) + 1] = e
    BY <2>2, <2>3, HandedGrows
  <2>5. \A i \in DOMAIN handed : handed[i].src = e.src => handed[i].line < e.line
    BY <1>2, <2>1 DEF Fresh, FreshOf, Running, Ended
  <2>6. \A i, j \in DOMAIN handed :
          i < j /\ handed[i].src = handed[j].src => handed[i].line < handed[j].line
    BY <1>2 DEF InOrder, Steady
  <2> SUFFICES ASSUME NEW i \in DOMAIN handed', NEW j \in DOMAIN handed', i < j,
                      handed'[i].src = handed'[j].src
               PROVE  handed'[i].line < handed'[j].line
    OBVIOUS
  <2>7. i \in DOMAIN handed BY <2>4
  <2>8. CASE j \in DOMAIN handed BY <2>4, <2>6, <2>7, <2>8
  <2>9. CASE j = Len(handed) + 1 BY <2>4, <2>5, <2>7, <2>9
  <2> QED BY <2>4, <2>8, <2>9
<1> QED BY <1>w, <1>1, <1>2, HandedBy DEF InOrder, Steady

\* Without a fault and a line that kills it, a poller does not die.
LEMMA NoDeathStep ==
  ASSUME TypeOK, Parts, Reading, HandleOpen, OnePoller, Fresh, NoDeath, [Next]_vars
  PROVE  NoDeath'
<1>a. pc \in [Pollers -> Labels] /\ src \in [Pollers -> Sources] /\ world.fails \in Nat
      /\ fails \in 0..world.fails /\ out \in [Pollers -> SUBSET [src : Sources, line : Nat]]
  BY WorldType DEF TypeOK
<1>b. \A s \in Sources : Len(log[s]) \in Nat /\ offset[s] <= Len(log[s]) /\ offset[s] \in Nat
  BY LogType DEF TypeOK
<1>c. Mock \in Sources /\ Native \in Sources BY DEF Sources
<1>w. world' = world
  BY OthersKept DEF Next, Write, push_mock, PushDispatch, start_polling, stop_polling, Joined,
     vars, mainVars
<1> SUFFICES ASSUME Benign
             PROVE  ~Dead' /\ \A s \in Sources : \A k \in 1..Len(log'[s]) : log'[s][k] # "poison"
  BY <1>w DEF NoDeath, Benign
<1>d. ~Dead /\ \A s \in Sources : \A k \in 1..Len(log[s]) : log[s][k] # "poison" BY DEF NoDeath
<1>1. ASSUME NEW s \in Sources, NEW kind \in AllKinds, Grow(s, kind)
      PROVE  ~Dead' /\ \A t \in Sources : \A k \in 1..Len(log'[t]) : log'[t][k] # "poison"
  <2>1. ~Dead' BY <1>1, <1>d DEF Grow, Dead, pollVars
  <2>2. kind # "poison" BY <1>1 DEF Grow, Benign
  <2>3. ASSUME NEW t \in Sources, NEW k \in 1..Len(log'[t]) PROVE log'[t][k] # "poison"
    <3>1. CASE t # s BY <1>1, <1>d, <3>1, Grown
    <3>2. CASE t = s
      <4>1. k \in 1..Len(log[s]) \/ k = Len(log[s]) + 1 BY <1>1, <1>b, <3>2, Grown
      <4> QED BY <1>1, <1>d, <2>2, <3>2, <4>1, Grown
    <3> QED BY <3>1, <3>2
  <2> QED BY <2>1, <2>3
<1>2. ASSUME UNCHANGED log, UNCHANGED pc
      PROVE  ~Dead' /\ \A s \in Sources : \A k \in 1..Len(log'[s]) : log'[s][k] # "poison"
  BY <1>d, <1>2 DEF Dead
<1>3. CASE start_polling
  <2>1. ~Dead' BY <1>a, <1>d, <1>3 DEF start_polling, Dead
  <2> QED BY <1>d, <1>3, <2>1 DEF start_polling, srcVars
<1>4. ASSUME NEW q \in Pollers, _loop(q)
      PROVE  ~Dead' /\ \A s \in Sources : \A k \in 1..Len(log'[s]) : log'[s][k] # "poison"
  <2>1. log' = log /\ \A r \in Pollers : r # q => pc'[r] = pc[r] BY <1>4, OthersKept
  <2> SUFFICES pc'[q] # "died" BY <1>d, <2>1 DEF Dead
  <2>2. ASSUME NEW label, NEW s, Goto(q, label, s) PROVE pc'[q] = label
    BY <1>a, <2>2 DEF Goto
  <2>3. fails = 0 /\ world.fails = 0 /\ ~world.late BY <1>a DEF Benign
  <2>4. CASE CheckStop(q) \/ _poll_native(q) \/ OpenFile(q) \/ EndRound(q)
    BY <1>a, <2>2, <2>4 DEF CheckStop, _poll_native, OpenFile, EndRound
  <2>5. CASE poll_lines(q) \/ _dispatch(q)
    BY <1>a, <1>d, <2>5 DEF poll_lines, _dispatch
  <2>6. CASE EndFile(q) \/ ReadFails(q)
    BY <2>2, <2>6 DEF EndFile, ReadFails, Leave
  <2>7. ASSUME NEW lines, Parse(q, lines),
               \A e \in lines : e.line \in 1..Len(log[Native])
        PROVE  pc'[q] # "died"
    <3>1. \A e \in parse_native_json_line(lines) : log[Native][e.line] # "poison"
      BY <1>c, <1>d, <2>7 DEF parse_native_json_line
    <3> QED BY <2>2, <2>7, <3>1 DEF Parse
  <2>8. CASE EndPoll(q)
    <3>1. open BY <2>3, <2>8 DEF EndPoll, HandleOpen
    <3>2. Parse(q, out[q]) /\ pc[q] = "poll" BY <2>3, <2>8, <3>1 DEF EndPoll
    <3>3. FreshOf(q) /\ ReadingOf(q)
      BY <2>3, <3>2 DEF Fresh, Steady, Running, Ended, Reading
    <3>4. \A e \in out[q] : e.line \in Nat /\ e.line > 0 /\ e.line <= offset[Native]
      BY <1>a, <3>2, <3>3 DEF FreshOf, ReadingOf
    <3>5. \A e \in out[q] : e.line \in 1..Len(log[Native]) BY <1>b, <1>c, <3>4
    <3> QED BY <2>7, <3>2, <3>5
  <2>9. CASE poll_lines_subprocess(q)
    <3>1. Parse(q, Lines(Helped)) BY <2>3, <2>9 DEF poll_lines_subprocess
    <3>2. \A k \in Helped : k \in Nat /\ offset[Native] < k /\ k <= Len(log[Native]) BY HelpedTyped
    <3>3. \A k \in Helped : k \in 1..Len(log[Native]) BY <1>b, <1>c, <3>2
    <3>4. \A e \in Lines(Helped) : e.line \in 1..Len(log[Native]) BY <3>3 DEF Lines
    <3> QED BY <2>7, <3>1, <3>4
  <2>10. CASE ReadLine(q)
    <3>1. PICK s \in Sources, k \in Nat :
            /\ k \in 1..Len(log[s])
            /\ Kills(q, s, k) \/ \E n, got : Collects(q, s, k, n, got)
      BY <2>10, ReadEffect
    <3>2. ~Kills(q, s, k) BY <1>d, <3>1 DEF Kills
    <3>3. UNCHANGED pc BY <3>1, <3>2 DEF Collects
    <3> QED BY <1>d, <3>3 DEF Dead
  <2> QED BY <1>4, <2>4, <2>5, <2>6, <2>8, <2>9, <2>10 DEF _loop
<1>5. \/ UNCHANGED log /\ UNCHANGED pc
      \/ start_polling
      \/ \E q \in Pollers : _loop(q)
      \/ \E s \in Sources, kind \in AllKinds : Write(s, kind)
      \/ push_mock
  BY DEF Next, PushDispatch, stop_polling, Joined, vars, srcVars, pollVars
<1>6. "event" \in AllKinds BY DEF AllKinds
<1> QED BY <1>c, <1>1, <1>2, <1>3, <1>4, <1>5, <1>6, WritersGrow

-----------------------------------------------------------------------------
(* The theorems.                                                            *)

\* The invariant holds at first.
LEMMA InvInit == Init => Inv
<1> SUFFICES ASSUME Init PROVE Inv OBVIOUS
<1> USE DEF Init
<1>1. world.fails \in Nat /\ \A s \in Sources : world.lines[s] \in Nat /\ Len(log[s]) = 0
  BY WorldType DEF Sources
<1>2. TypeOK
  <2>1. log \in [Sources -> Seq(AllKinds)] /\ offset \in [Sources -> Nat] BY EmptySeq
  <2>2. \A s \in Sources : Len(log[s]) <= world.lines[s] /\ offset[s] \in 0..Len(log[s])
    BY <1>1
  <2>3. Len(log[Mock]) = 0 BY <1>1 DEF Sources
  <2>4. handed \in Seq([src : Sources, line : Nat]) BY EmptySeq
  <2>5. open \in BOOLEAN OBVIOUS
  <2>6. /\ pc \in [Pollers -> Labels] /\ src \in [Pollers -> Sources] /\ pos \in [Pollers -> Nat]
        /\ out \in [Pollers -> SUBSET [src : Sources, line : Nat]]
    BY DEF Labels, Ended, Sources
  <2>7. fails \in 0..world.fails /\ pushed \in 0..Len(log[Mock]) /\ direct \subseteq 1..Len(log[Mock])
    BY <1>1, <2>3
  <2> QED BY <2>1, <2>2, <2>4, <2>5, <2>6, <2>7 DEF TypeOK
<1>3. Parts /\ Empty /\ Reading BY <1>1 DEF Parts, Empty, EmptyOf, Reading, ReadingOf
<1>4. OnePoller /\ HandleOpen BY DEF OnePoller, Running, Ended, HandleOpen
<1>5. Collected BY DEF Collected
<1>6. DOMAIN handed = {} BY EmptySeq, LenProperties
<1>7. Running = {} BY DEF Running, Ended
<1>8. Fresh /\ InOrder BY <1>6, <1>7 DEF Fresh, Behind, InOrder
<1>9. NoDeath BY <1>1 DEF NoDeath, Dead
<1> QED BY <1>2, <1>3, <1>4, <1>5, <1>8, <1>9 DEF Inv

\* And is kept.
LEMMA InvStep == Inv /\ [Next]_vars => Inv'
<1> SUFFICES ASSUME Inv, [Next]_vars PROVE Inv' OBVIOUS
<1>1. TypeOK' BY TypeStep DEF Inv
<1>2. Parts' BY PartsStep DEF Inv
<1>3. Empty' /\ Reading' BY ReadingStep DEF Inv
<1>4. OnePoller' /\ HandleOpen' BY OnePollerStep DEF Inv
<1>5. Collected' BY CollectedStep DEF Inv
<1>6. Fresh' BY <1>1, FreshStep DEF Inv
<1>7. InOrder' BY InOrderStep DEF Inv
<1>8. NoDeath' BY NoDeathStep DEF Inv
<1> QED BY <1>1, <1>2, <1>3, <1>4, <1>5, <1>6, <1>7, <1>8 DEF Inv

\* The inductive invariant of the changefeed.
LEMMA InvAlways == Spec => []Inv
BY InvInit, InvStep, PTL DEF Spec

\* The variables keep their types; no offset passes the end of its source, no
\* source its bound.
THEOREM TypeCorrect == Spec => []TypeOK
<1>1. Inv => TypeOK BY DEF Inv
<1> QED BY <1>1, InvAlways, PTL

\* If no poll thread outlasts the join of stop_polling, start_polling never has two.
THEOREM OnePollerHolds == Spec => []OnePoller
<1>1. Inv => OnePoller BY DEF Inv
<1> QED BY <1>1, InvAlways, PTL

\* Nor is the handle closed under a thread that is in lidb_changefeed_poll.
THEOREM HandleOpenHolds == Spec => []HandleOpen
<1>1. Inv => HandleOpen BY DEF Inv
<1> QED BY <1>1, InvAlways, PTL

\* The listener gets the events of a source in the order they were written, none twice.
THEOREM InOrderHolds == Spec => []InOrder
<1>1. Inv => InOrder BY DEF Inv
<1> QED BY <1>1, InvAlways, PTL

\* An event that poll_once has passed is not lost, whatever reads fail and however
\* many pollers there are, but with a poller or a helper process that dies.
THEOREM NothingLostHolds == Spec => []NothingLost
<1>1. Inv => NothingLost
  BY DEF Inv, Collected, Safe, NothingLost
<1> QED BY <1>1, InvAlways, PTL

\* When stop_polling has returned the listener is not called.
THEOREM QuietWhenStoppedHolds == Spec => QuietWhenStopped
<1>1. ASSUME Inv, [Next]_vars, ~world.late, thread = 0 PROVE UNCHANGED handed
  <2>1. Running = {}
    <3>1. Running \subseteq {0} /\ Running \subseteq Pollers BY <1>1 DEF Inv, OnePoller, Running
    <3> QED BY <3>1 DEF Pollers
  <2>2. \A q \in Pollers : ~_dispatch(q) BY <2>1 DEF Running, Ended, _dispatch
  <2> QED BY <1>1, <2>2, HandedBy
<1>2. Inv /\ [Next]_vars => [~world.late /\ thread = 0 /\ main = "idle" => UNCHANGED handed]_vars
  BY <1>1
<1> QED BY <1>2, InvAlways, PTL DEF Spec, QuietWhenStopped

\* In a benign world an event is handed over when it is the next of its source.
LEMMA DispatchIsHand ==
  ASSUME Inv, Benign, NEW q \in Pollers, _dispatch(q)
  PROVE  \E s \in Sources : \E k \in DOMAIN log[s] :
           /\ \A i \in DOMAIN handed : handed[i].src = s => handed[i].line < k
           /\ \A n \in 1..(k - 1) : log[s][n] = "event" => Handed(s, n)
           /\ handed' = Append(handed, [src |-> s, line |-> k])
           /\ UNCHANGED log
<1>a. TypeOK /\ ~world.late /\ world.fails = 0 /\ pc[q] = "dispatch" /\ UNCHANGED log
  BY DEF Inv, Benign, _dispatch, srcVars
<1>1. PICK e \in out[q] : (\A f \in out[q] : Before(e, f)) /\ handed' = Append(handed, e)
  BY DEF _dispatch
<1>2. PICK s \in Sources, k \in Nat : e = [src |-> s, line |-> k]
  BY <1>a, <1>1 DEF TypeOK
<1>3. FreshOf(q) BY <1>a DEF Inv, Fresh, Steady, Running, Ended
<1>4. /\ k > 0 /\ k <= offset[s]
      /\ \A i \in DOMAIN handed : handed[i].src = s => handed[i].line < k
  BY <1>a, <1>1, <1>2, <1>3 DEF FreshOf
<1>5. offset[s] \in Nat /\ Len(log[s]) \in Nat /\ offset[s] <= Len(log[s])
  BY <1>a, LogType DEF TypeOK
<1>6. k \in DOMAIN log[s] BY <1>a, <1>4, <1>5, LogType, LenProperties
<1>7. ~Swallowed
  <2>1. fails \in 0..world.fails BY <1>a DEF TypeOK
  <2> QED BY <1>a, <2>1 DEF Inv, NoDeath, Swallowed
<1>8. ASSUME NEW n \in 1..(k - 1), log[s][n] = "event" PROVE Handed(s, n)
  <2>1. n \in 1..offset[s] /\ n \in Nat /\ n < k BY <1>4, <1>5
  <2>2. Safe(s, n) BY <2>1 DEF Inv, Collected
  <2>3. ASSUME NEW r \in Pollers, [src |-> s, line |-> n] \in out[r] PROVE FALSE
    <3>1. CASE r = q
      <4>1. Before(e, [src |-> s, line |-> n]) BY <1>1, <2>3, <3>1
      <4>2. s \in Nat BY DEF Sources, Native, Wal, Mock
      <4> QED BY <1>2, <2>1, <4>1, <4>2 DEF Before
    <3>2. CASE r # q
      <4>1. pc[r] \in Ended
        BY <1>a, <3>2 DEF Inv, OnePoller, Running, Ended
      <4>2. pc[r] # "died" BY DEF Inv, NoDeath, Dead
      <4>3. out[r] = {} BY <4>1, <4>2 DEF Inv, Empty, EmptyOf, Ended
      <4> QED BY <2>3, <4>3
    <3> QED BY <3>1, <3>2
  <2> QED BY <1>7, <1>8, <2>2, <2>3 DEF Safe
<1> QED BY <1>a, <1>1, <1>2, <1>4, <1>6, <1>8

\* Without faults and lines that kill a poller, every step of the threads is a step
\* of EventFeed or none.
THEOREM FeedImplemented == Spec => ImplementsEventFeed
<1> DEFINE flog == IF Benign THEN log ELSE [s \in Sources |-> <<>>]
           fhanded == IF Benign THEN handed ELSE <<>>
<1>1. Init => Feed!Init BY DEF Init, Feed!Init
<1>2. ASSUME Inv, [Next]_vars PROVE [Feed!Next]_<<flog, fhanded>>
  <2>w. Benign' = Benign
    <3>1. TypeOK BY <1>2 DEF Inv
    <3>2. world' = world
      BY <1>2, <3>1, OthersKept DEF Next, Write, push_mock, PushDispatch, start_polling, stop_polling,
         Joined, vars, mainVars
    <3> QED BY <3>2 DEF Benign
  <2>1. CASE ~Benign BY <2>w, <2>1
  <2>2. CASE Benign
    <3>0. flog = log /\ flog' = log' /\ fhanded = handed /\ fhanded' = handed' BY <2>w, <2>2
    <3>1. ASSUME NEW s \in Sources, NEW kind \in AllKinds, Grow(s, kind) PROVE Feed!Next
      <4>1. Feed!Write(s, kind) BY <2>2, <2>w, <3>1 DEF Grow, Feed!Write
      <4> QED BY <3>1, <4>1 DEF Feed!Next
    <3>2. ASSUME NEW q \in Pollers, _dispatch(q) PROVE Feed!Next
      <4>1. PICK s \in Sources : \E k \in DOMAIN log[s] :
              /\ \A i \in DOMAIN handed : handed[i].src = s => handed[i].line < k
              /\ \A n \in 1..(k - 1) : log[s][n] = "event" => Handed(s, n)
              /\ handed' = Append(handed, [src |-> s, line |-> k])
              /\ UNCHANGED log
        BY <1>2, <2>2, <3>2, DispatchIsHand
      <4>2. PICK k \in DOMAIN log[s] :
              /\ \A i \in DOMAIN handed : handed[i].src = s => handed[i].line < k
              /\ \A n \in 1..(k - 1) : log[s][n] = "event" => Handed(s, n)
              /\ handed' = Append(handed, [src |-> s, line |-> k])
              /\ UNCHANGED log
        BY <4>1
      <4>3. Feed!HandedOf(s) = {handed[i].line : i \in {i \in DOMAIN handed : handed[i].src = s}}
        BY <2>2 DEF Feed!HandedOf
      <4>4. \A n : Handed(s, n) => n \in Feed!HandedOf(s) BY <4>3 DEF Handed
      <4>5. Feed!NextOf(s, k) BY <2>2, <4>2, <4>3, <4>4 DEF Feed!NextOf
      <4>6. Feed!Hand(s, k) BY <2>2, <2>w, <4>2, <4>5 DEF Feed!Hand
      <4> QED BY <2>2, <4>6 DEF Feed!Next
    <3>3. CASE UNCHANGED log /\ UNCHANGED handed BY <3>0, <3>3
    <3>4. \/ UNCHANGED log /\ UNCHANGED handed
          \/ \E q \in Pollers : _dispatch(q)
          \/ \E s \in Sources, kind \in AllKinds : Grow(s, kind)
      <4>1. TypeOK /\ Parts /\ Mock \in Sources /\ "event" \in AllKinds
        BY <1>2 DEF Inv, Sources, AllKinds
      <4>2. \/ UNCHANGED log
            \/ \E s \in Sources, kind \in AllKinds : Grow(s, kind)
        BY <1>2, <4>1, WritersGrow, OthersKept
           DEF Next, PushDispatch, start_polling, stop_polling, Joined, vars, srcVars
      <4> QED BY <1>2, <4>2, HandedBy
    <3> QED BY <3>1, <3>2, <3>3, <3>4
  <2> QED BY <2>1, <2>2
<1> QED BY <1>1, <1>2, InvAlways, PTL DEF Spec, ImplementsEventFeed, Feed!Spec
=============================================================================
