-------------------------- MODULE SupervisorProofs --------------------------
(***************************************************************************)
(* For any number of commands, processes and deaths: as long as commands   *)
(* are given one at a time, every process of the stack is named by its pid *)
(* file and no role is played twice, but for the strays.                   *)
(***************************************************************************)
EXTENDS Supervisor, TLAPS

\* What a command has not reached yet, and who stays in the foreground.
Roled ==
  /\ \A c \in Commands : at[c] \in {"new", "check", "ensure", "find"} => role[c] = "sup"
  /\ \A c \in Commands : op[c] = "foreground" /\ at[c] \in {"launch", "write"} => role[c] = "sup"
  /\ \A c \in Commands : at[c] = "write" => held[c] \in Pids
  /\ \A p \in fore : proc[p] = "sup"

TypeInv == TypeOK /\ Roled

\* The processes of the stack that are to stay and have, or get, a pid file.
Standing == Live \ (dying \cup Strays)

\* One command runs.
Alone == \A c, d \in Busy : c = d

\* A process is named by its pid file, or is about to be.
Named ==
  \A p \in Standing :
    \/ pidfile[proc[p]] = p
    \/ \E c \in Commands : at[c] = "write" /\ held[c] = p /\ role[c] = proc[p]

\* lis-db.pid exists, or is about to, unless a trap has removed it.
HasFile == pidfile["sup"] # NoPid \/ trapped

Found ==
  /\ \A p \in Standing :
       HasFile \/ \E c \in Commands : at[c] = "write" /\ held[c] = p /\ role[c] = "sup"
  /\ \A c \in Commands : at[c] \in {"launch", "write"} /\ role[c] # "sup" => HasFile

\* A process whose pid is to be written, and the strays, whose pids are not.
Owned ==
  /\ \A r \in Roles : pidfile[r] # NoPid =>
       proc[pidfile[r]] \in {r, "ended"} /\ pidfile[r] \notin cutoff
  /\ \A p \in Strays : proc[p] # "unused"
  /\ \A c \in Commands : at[c] = "write" =>
       /\ proc[held[c]] \in {role[c], "ended"} /\ held[c] \notin Strays
       /\ \A r \in Roles : pidfile[r] # held[c]
       /\ op[c] # "foreground" => held[c] \notin fore
  /\ fore \cap cutoff = {}

\* No other process has the role of the one that is started.
Room(c) ==
  /\ at[c] = "ensure" /\ op[c] # "migrate" => \A p \in Standing : proc[p] # "sup"
  /\ at[c] = "launch" /\ role[c] = "sup" => \A p \in Standing : proc[p] # "sup"
  /\ at[c] = "write" => \A p \in Standing : proc[p] = role[c] => p = held[c]

\* A stop has ended the processes before the one it is at.
Stopped(c) ==
  /\ at[c] = "kill" => \A p \in Standing :
       /\ role[c] = "sup" /\ proc[p] = "sup" => p = held[c]
       /\ role[c] = "reg" => proc[p] # "sup"
       /\ role[c] = "rt" => proc[p] = "rt"
  /\ at[c] = "remove" => Standing = {}

\* Where what was killed has ended before a start, its role is free.
Ports ==
  scene = "settled" =>
    /\ \A c \in Commands : at[c] \in {"check", "ensure", "launch", "write"} => dying = {}
    /\ \A p, q \in Live \ Strays : proc[p] = proc[q] => p = q
    /\ robbed = {}

Orderly ==
  scene # "rough" =>
    /\ Alone /\ Named /\ Found /\ Owned /\ Ports
    /\ \A c \in Commands : Room(c) /\ Stopped(c)

-----------------------------------------------------------------------------
(* Types.                                                                   *)

\* The next process of a script.
LEMMA NextRoleType ==
  ASSUME TypeOK, NEW c \in Commands, NEW label \in Labels, NEW last \in Labels,
         NextRole(c, label, last)
  PROVE  /\ at' \in [Commands -> Labels] /\ role' \in [Commands -> Roles]
         /\ op' \in [Commands -> Ops \cup {"none"}]
         /\ \A d \in Commands : d # c => op'[d] = op[d]
         /\ op'[c] \in {op[c], "none"}
         /\ \A d \in Commands : d # c => at'[d] = at[d] /\ role'[d] = role[d]
         /\ role[c] = "rt" => at'[c] = last /\ role'[c] = "rt"
         /\ role[c] = "sup" => at'[c] = label /\ role'[c] = "reg"
         /\ role[c] = "reg" => at'[c] = label /\ role'[c] = "rt"
BY DEF TypeOK, NextRole, Goto, ToRole, After, Roles

\* A script that goes on or ends.
LEMMA GotoType ==
  ASSUME TypeOK, NEW c \in Commands, NEW label \in Labels, Goto(c, label)
  PROVE  /\ at' \in [Commands -> Labels] /\ op' \in [Commands -> Ops \cup {"none"}]
         /\ \A d \in Commands : d # c => at'[d] = at[d] /\ op'[d] = op[d]
         /\ at'[c] = label /\ op'[c] \in {op[c], "none"}
         /\ label \notin {"done", "dead"} => op'[c] = op[c]
BY DEF TypeOK, Goto

\* A process that ends.
LEMMA EndType ==
  ASSUME TypeInv, NEW p \in Pids, End(p)
  PROVE  /\ proc' \in [Pids -> Roles \cup {"unused", "ended"}]
         /\ \A q \in Pids : q # p => proc'[q] = proc[q]
         /\ Live' = Live \ {p}
         /\ fore' \subseteq Live' /\ dying' \subseteq Live' /\ bound' \subseteq Live'
         /\ fore' = fore \ {p} /\ dying' = dying \ {p}
         /\ \A q \in fore' : proc'[q] = "sup"
<1>1. proc' = [proc EXCEPT ![p] = "ended"] BY DEF End
<1>2. proc' \in [Pids -> Roles \cup {"unused", "ended"}] /\ \A q \in Pids : q # p => proc'[q] = proc[q]
  BY <1>1 DEF TypeInv, TypeOK
<1>3. Live' = Live \ {p} BY <1>1 DEF Live, TypeInv, TypeOK, Roles
<1>4. fore \subseteq Pids BY DEF TypeInv, TypeOK, Live
<1> QED BY <1>2, <1>3, <1>4 DEF End, TypeInv, TypeOK, Roled

\* A process that starts.
LEMMA StartType ==
  ASSUME TypeOK, NEW c \in Commands, NEW p \in Pids, Start(c, p)
  PROVE  /\ proc' \in [Pids -> Roles \cup {"unused", "ended"}]
         /\ held' \in [Commands -> Pids \cup {NoPid}] /\ held'[c] = p
         /\ \A d \in Commands : d # c => held'[d] = held[d]
         /\ \A q \in Pids : q # p => proc'[q] = proc[q]
         /\ proc'[p] = role[c] /\ p \notin Live /\ Live' = Live \cup {p}
BY DEF TypeOK, Start, Live, Roles

\* The variables of the processes stay as they are.
LEMMA SameProcesses ==
  ASSUME UNCHANGED processes
  PROVE  /\ proc' = proc /\ fore' = fore /\ dying' = dying /\ bound' = bound
         /\ Live' = Live
BY DEF processes, Live

\* A trap.
LEMMA TrapType ==
  ASSUME TypeOK, NEW p, Trap(p) \/ NoTrap
  PROVE  /\ pidfile' \in [Roles -> Pids \cup {NoPid}] /\ ready' \in BOOLEAN
         /\ trapped' \in BOOLEAN /\ robbed' \subseteq Pids
BY DEF TypeOK, Trap, NoTrap, Live

\* The types, with what a command has not reached yet.
LEMMA TypeStep ==
  ASSUME TypeInv, [Next]_vars
  PROVE  TypeInv'
<1> USE DEF TypeInv
<1>1. ASSUME NEW c \in Commands, Begin(c) PROVE TypeInv'
  <2>1. PICK o \in Ops : /\ op' = [op EXCEPT ![c] = o]
                         /\ at' = [at EXCEPT ![c] = IF o = "stop" THEN "find" ELSE IF o = "migrate" THEN "ensure" ELSE "check"]
    BY <1>1 DEF Begin
  <2>2. /\ UNCHANGED scene /\ UNCHANGED role /\ UNCHANGED held /\ UNCHANGED processes
        /\ UNCHANGED files /\ UNCHANGED deaths /\ UNCHANGED history /\ at[c] = "new"
    BY <1>1 DEF Begin
  <2>3. TypeOK' BY <2>1, <2>2 DEF TypeOK, processes, files, history, Live, Labels
  <2>4. Roled' BY <2>1, <2>2 DEF TypeOK, Roled, processes
  <2> QED BY <2>3, <2>4
<1>2. ASSUME NEW c \in Commands, Check(c) PROVE TypeInv'
  <2>0. /\ UNCHANGED scene /\ UNCHANGED role /\ UNCHANGED held /\ UNCHANGED processes
        /\ UNCHANGED files /\ UNCHANGED deaths /\ UNCHANGED history /\ at[c] = "check"
    BY <1>2 DEF Check
  <2>1. PICK label \in {"done", "ensure"} : Goto(c, label) BY <1>2 DEF Check
  <2>2. TypeOK' BY <2>0, <2>1, GotoType DEF TypeOK, processes, files, history, Live, Labels
  <2>3. Roled' BY <2>0, <2>1, GotoType DEF Roled, processes, Labels
  <2> QED BY <2>2, <2>3
<1>3. ASSUME NEW c \in Commands, lis_db_engine_ensure(c) PROVE TypeInv'
  <2>1. PICK ok \in BOOLEAN :
          /\ cmd_ensure(ok) /\ ready' = (ok \/ ready)
          /\ Goto(c, IF ok /\ op[c] # "migrate" THEN "launch" ELSE "done")
    BY <1>3 DEF lis_db_engine_ensure
  <2>2. /\ UNCHANGED scene /\ UNCHANGED role /\ UNCHANGED held /\ UNCHANGED processes
        /\ UNCHANGED pidfile /\ UNCHANGED deaths /\ UNCHANGED history /\ at[c] = "ensure"
    BY <1>3 DEF lis_db_engine_ensure
  <2>3. ready' \in BOOLEAN /\ catalog' \in BOOLEAN BY <2>1 DEF TypeOK, cmd_ensure
  <2>4. PICK label \in {"done", "launch"} : Goto(c, label) BY <2>1
  <2>5. TypeOK' BY <2>2, <2>3, <2>4, GotoType DEF TypeOK, processes, history, Live, Labels
  <2>6. Roled' BY <2>2, <2>4, GotoType DEF Roled, processes, Labels
  <2> QED BY <2>5, <2>6
<1>4. ASSUME NEW c \in Commands, Launch(c) PROVE TypeInv'
  <2>0. /\ UNCHANGED scene /\ UNCHANGED dying /\ UNCHANGED bound /\ UNCHANGED files
        /\ UNCHANGED deaths /\ UNCHANGED history /\ at[c] = "launch"
    BY <1>4 DEF Launch
  <2>1. CASE /\ role[c] # "sup" /\ NextRole(c, "launch", "done")
             /\ UNCHANGED held /\ UNCHANGED proc /\ UNCHANGED fore
    <3>1. TypeOK' BY <2>0, <2>1, NextRoleType DEF TypeOK, Labels, files, history, Live
    <3>2. op[c] # "foreground" BY <2>0, <2>1 DEF Roled
    <3>3. at'[c] \in {"launch", "done"} BY <2>1, NextRoleType DEF TypeOK, Labels, Roles
    <3>4. op'[c] # "foreground" BY <2>1, <3>2, NextRoleType DEF Labels
    <3>5. Roled' BY <2>0, <2>1, <3>3, <3>4, NextRoleType DEF Roled, Labels
    <3> QED BY <3>1, <3>5
  <2>2. ASSUME NEW p \in Pids, Start(c, p), Goto(c, "write"), UNCHANGED role,
               fore' = IF op[c] = "foreground" THEN fore \cup {p} ELSE fore
        PROVE  TypeInv'
    <3>1. fore' \subseteq Live' /\ dying' \subseteq Live' /\ bound' \subseteq Live'
      BY <2>0, <2>2, StartType DEF TypeOK
    <3>2. TypeOK' BY <2>0, <2>2, <3>1, StartType, GotoType DEF TypeOK, Labels, files, history
    <3>3. \A q \in fore' : proc'[q] = "sup"
      <4>1. op[c] = "foreground" => role[c] = "sup" BY <2>0 DEF Roled
      <4>2. fore \subseteq Pids /\ \A q \in fore : q # p
        BY <2>2, StartType DEF TypeOK, Live
      <4> QED BY <2>2, <4>1, <4>2, StartType DEF Roled
    <3>4. Roled' BY <2>0, <2>2, <3>3, StartType, GotoType DEF Roled, Labels
    <3> QED BY <3>2, <3>4
  <2> QED BY <1>4, <2>1, <2>2 DEF Launch
<1>5. ASSUME NEW c \in Commands, WritePid(c) PROVE TypeInv'
  <2>0. /\ UNCHANGED scene /\ UNCHANGED held /\ UNCHANGED processes /\ UNCHANGED ready
        /\ UNCHANGED catalog /\ UNCHANGED deaths /\ UNCHANGED cutoff /\ UNCHANGED robbed /\ at[c] = "write"
        /\ pidfile' = [pidfile EXCEPT ![role[c]] = held[c]]
        /\ trapped' = (trapped /\ role[c] # "sup")
    BY <1>5 DEF WritePid
  <2>1. pidfile' \in [Roles -> Pids \cup {NoPid}] BY <2>0 DEF TypeOK
  <2>a. trapped' \in BOOLEAN BY <2>0 DEF TypeOK
  <2>2. CASE op[c] = "foreground" /\ Goto(c, "done") /\ UNCHANGED role
    <3>1. TypeOK' BY <2>0, <2>1, <2>a, <2>2, GotoType DEF TypeOK, processes, Live, Labels
    <3>2. Roled' BY <2>0, <2>2, GotoType DEF Roled, processes, Labels
    <3> QED BY <3>1, <3>2
  <2>3. CASE op[c] # "foreground" /\ NextRole(c, "launch", "done")
    <3>1. TypeOK' BY <2>0, <2>1, <2>a, <2>3, NextRoleType DEF TypeOK, processes, Live, Labels
    <3>2. at'[c] \in {"launch", "done"} BY <2>3, NextRoleType DEF TypeOK, Labels, Roles
    <3>3. op'[c] # "foreground" BY <2>3, NextRoleType DEF Labels
    <3>4. Roled' BY <2>0, <2>3, <3>2, <3>3, NextRoleType DEF Roled, Labels, processes
    <3> QED BY <3>1, <3>4
  <2> QED BY <1>5, <2>2, <2>3 DEF WritePid
<1>6. ASSUME NEW c \in Commands, Find(c) PROVE TypeInv'
  <2>0. /\ UNCHANGED scene /\ UNCHANGED role /\ UNCHANGED processes
        /\ UNCHANGED files /\ UNCHANGED deaths /\ UNCHANGED history /\ at[c] = "find"
    BY <1>6 DEF Find
  <2>1. PICK label \in {"done", "kill"} : Goto(c, label) BY <1>6 DEF Find
  <2>2. /\ held' \in [Commands -> Pids \cup {NoPid}]
        /\ \A d \in Commands : d # c => held'[d] = held[d]
    BY <1>6 DEF Find, TypeOK, Roles
  <2>3. TypeOK' BY <2>0, <2>1, <2>2, GotoType DEF TypeOK, processes, files, history, Live, Labels
  <2>4. Roled' BY <2>0, <2>1, <2>2, GotoType DEF Roled, processes, Labels
  <2> QED BY <2>3, <2>4
<1>7. ASSUME NEW c \in Commands, Kill(c) PROVE TypeInv'
  <2>0. /\ UNCHANGED scene /\ UNCHANGED held /\ UNCHANGED proc /\ UNCHANGED fore
        /\ UNCHANGED bound /\ UNCHANGED files /\ UNCHANGED deaths /\ UNCHANGED history /\ at[c] = "kill"
        /\ NextRole(c, "kill", "remove") /\ dying' \subseteq Live
    BY <1>7 DEF Kill, TypeOK
  <2>1. TypeOK' BY <2>0, NextRoleType DEF TypeOK, files, history, Live, Labels
  <2>2. at'[c] \in {"kill", "remove"} BY <2>0, NextRoleType DEF TypeOK, Labels, Roles
  <2>3. Roled' BY <2>0, <2>2, NextRoleType DEF Roled, Labels
  <2> QED BY <2>1, <2>3
<1>8. ASSUME NEW c \in Commands, Remove(c) PROVE TypeInv'
  <2>0. /\ UNCHANGED scene /\ UNCHANGED role /\ UNCHANGED held /\ UNCHANGED processes
        /\ UNCHANGED catalog /\ UNCHANGED deaths /\ UNCHANGED cutoff /\ UNCHANGED robbed
        /\ Goto(c, "done") /\ trapped' = FALSE /\ ready' = FALSE
        /\ pidfile' = [r \in Roles |-> NoPid]
    BY <1>8 DEF Remove
  <2>1. TypeOK' BY <2>0, GotoType DEF TypeOK, processes, Live, Labels
  <2>2. Roled' BY <2>0, GotoType DEF Roled, processes, Labels
  <2> QED BY <2>1, <2>2
<1>9. ASSUME NEW p \in Pids, Bind(p) PROVE TypeInv'
  <2>0. /\ UNCHANGED scene /\ UNCHANGED command /\ UNCHANGED fore /\ UNCHANGED files
        /\ UNCHANGED deaths /\ UNCHANGED history /\ proc[p] \in {"reg", "rt"} /\ p \notin bound
    BY <1>9 DEF Bind
  <2>1. CASE proc' = [proc EXCEPT ![p] = "ended"] /\ dying' = dying \ {p} /\ UNCHANGED bound
    <3>1. p \notin fore BY <2>0 DEF Roled
    <3>2. proc' \in [Pids -> Roles \cup {"unused", "ended"}] /\ Live' = Live \ {p}
      BY <2>1 DEF TypeOK, Live, Roles
    <3>3. TypeOK' BY <2>0, <2>1, <3>1, <3>2 DEF TypeOK, command, files, history
    <3>4. \A q \in fore : proc'[q] = "sup"
      BY <2>1, <3>1 DEF TypeOK, Roled, Live
    <3> QED BY <2>0, <3>3, <3>4 DEF Roled, command
  <2>2. CASE bound' = bound \cup {p} /\ UNCHANGED proc /\ UNCHANGED dying
    <3>1. TypeOK' BY <2>0, <2>2 DEF TypeOK, command, files, history, Live, Roles
    <3> QED BY <2>0, <2>2, <3>1 DEF Roled, command
  <2> QED BY <1>9, <2>1, <2>2 DEF Bind
<1>10. ASSUME NEW p \in Pids, Terminate(p) PROVE TypeInv'
  <2>1. /\ End(p) /\ UNCHANGED scene /\ UNCHANGED command /\ UNCHANGED catalog /\ UNCHANGED deaths
        /\ UNCHANGED cutoff /\ (Trap(p) \/ NoTrap)
    BY <1>10 DEF Terminate
  <2>2. TypeOK' BY <2>1, EndType, TrapType DEF TypeOK, command
  <2> QED BY <2>1, <2>2, EndType DEF Roled, command
<1>11. ASSUME NEW p \in Pids, Interrupt(p) PROVE TypeInv'
  BY <1>11 DEF Interrupt, TypeOK, Roled, command, files, history, Live
<1>12. ASSUME NEW p \in Pids, Die(p) PROVE TypeInv'
  <2>1. End(p) /\ UNCHANGED scene /\ UNCHANGED command /\ UNCHANGED files /\ UNCHANGED history
        /\ deaths' \in 0..MaxDeaths
    BY <1>12, SupervisorAssumption DEF Die, TypeOK
  <2>2. TypeOK' BY <2>1, EndType DEF TypeOK, command, files, history
  <2> QED BY <2>1, <2>2, EndType DEF Roled, command
<1>13. ASSUME NEW c \in Commands, ScriptDies(c) PROVE TypeInv'
  <2>0. /\ UNCHANGED scene /\ UNCHANGED role /\ UNCHANGED held /\ UNCHANGED catalog
        /\ Goto(c, "dead") /\ deaths' \in 0..MaxDeaths
    BY <1>13, SupervisorAssumption DEF ScriptDies, TypeOK
  <2>1. CASE at[c] = "write" /\ End(held[c]) /\ (Trap(held[c]) \/ NoTrap) /\ UNCHANGED cutoff
    <3>1. held[c] \in Pids BY <2>1 DEF Roled
    <3>2. TypeOK' BY <2>0, <2>1, <3>1, EndType, TrapType, GotoType DEF TypeOK, Labels
    <3>3. \A q \in fore' : proc'[q] = "sup" BY <2>1, <3>1, EndType
    <3>4. Roled' BY <2>0, <3>3, GotoType DEF Roled, Labels
    <3> QED BY <3>2, <3>4
  <2>2. CASE /\ cutoff' = IF at[c] = "write" THEN cutoff \cup {held[c]} ELSE cutoff
             /\ UNCHANGED processes /\ NoTrap
    <3>1. cutoff' \subseteq Pids BY <2>2 DEF TypeOK, Roled
    <3>2. TypeOK' BY <2>0, <2>2, <3>1, SameProcesses, GotoType DEF TypeOK, NoTrap, Labels
    <3>3. Roled' BY <2>0, <2>2, SameProcesses, GotoType DEF Roled, Labels
    <3> QED BY <3>2, <3>3
  <2> QED BY <1>13, <2>1, <2>2 DEF ScriptDies
<1>14. CASE UNCHANGED vars
  BY <1>14 DEF vars, command, processes, files, history, TypeOK, Roled, Live
<1> QED BY <1>1, <1>2, <1>3, <1>4, <1>5, <1>6, <1>7, <1>8, <1>9, <1>10, <1>11, <1>12, <1>13, <1>14
        DEF Next, lis, Process

-----------------------------------------------------------------------------
(* Commands given one at a time.                                            *)

\* A command that acts is the only one that runs.
LEMMA OneActs ==
  ASSUME TypeInv, Alone, scene # "rough", NEW c \in Commands, Begin(c) \/ lis(c) \/ ScriptDies(c)
  PROVE  /\ \A d \in Commands : d # c =>
              /\ at[d] \in {"new", "done", "dead"}
              /\ at'[d] = at[d] /\ op'[d] = op[d]
         /\ UNCHANGED scene
         /\ Begin(c) => Busy = {}
<1> USE DEF TypeInv
<1>1. UNCHANGED scene
  BY DEF Begin, lis, Check, lis_db_engine_ensure, Launch, WritePid, Find, Kill, Remove, ScriptDies
<1>2. CASE Begin(c)
  <2>1. Busy = {} BY <1>2 DEF Begin
  <2>2. \A d \in Commands : d # c => at'[d] = at[d] /\ op'[d] = op[d]
    BY <1>2 DEF Begin, TypeOK
  <2> QED BY <1>1, <2>1, <2>2 DEF Busy
<1>3. CASE lis(c) \/ ScriptDies(c)
  <2>1. c \in Busy
    BY <1>3 DEF lis, Check, lis_db_engine_ensure, Launch, WritePid, Find, Kill, Remove, ScriptDies, Busy
  <2>2. \A d \in Commands : d # c => d \notin Busy BY <2>1 DEF Alone
  <2>3. \A d \in Commands : d # c => at'[d] = at[d] /\ op'[d] = op[d]
    BY <1>3 DEF lis, Check, lis_db_engine_ensure, Launch, WritePid, Find, Kill, Remove, ScriptDies,
       NextRole, Goto, TypeOK
  <2>4. ~Begin(c) BY <2>1 DEF Begin, Busy
  <2> QED BY <1>1, <2>2, <2>3, <2>4 DEF Busy
<1> QED BY <1>2, <1>3

\* With no pid about to be written, every process that is to stay is named and found.
LEMMA NamedNow ==
  ASSUME Named, Found, \A d \in Commands : at[d] # "write"
  PROVE  \A p \in Standing : pidfile[proc[p]] = p /\ HasFile
BY DEF Named, Found

\* What is to be shown of a step of a command.
LEMMA ByCommand ==
  ASSUME TypeInv, TypeInv', scene # "rough", Orderly, NEW c \in Commands,
         Begin(c) \/ lis(c) \/ ScriptDies(c),
         Named', Found', Owned', Ports', Room(c)', Stopped(c)'
  PROVE  Orderly'
<1>a. Alone BY DEF Orderly
<1>1. \A d \in Commands : d # c => at'[d] \in {"new", "done", "dead"}
  BY <1>a, OneActs
<1>2. \A d \in Commands : d # c => (Room(d) /\ Stopped(d))'
  BY <1>1 DEF Room, Stopped
<1>3. Alone'
  <2>1. Busy' \subseteq {c} BY <1>1 DEF Busy
  <2> QED BY <2>1 DEF Alone
<1> QED BY <1>2, <1>3 DEF Orderly

\* A step that starts nothing and writes nothing.
LEMMA Quiet ==
  ASSUME TypeInv, Orderly, scene # "rough", NEW c \in Commands, at[c] # "write",
         \A d \in Commands : d # c => at[d] \in {"new", "done", "dead"} /\ at'[d] = at[d],
         proc' = proc, fore' = fore, Standing' \subseteq Standing,
         pidfile' = pidfile, UNCHANGED history, at'[c] # "write",
         at'[c] = "launch" /\ role'[c] # "sup" => HasFile
  PROVE  Named' /\ Found' /\ Owned'
<1>a. Named /\ Found /\ Owned BY DEF Orderly
<1>1. \A p \in Standing : pidfile[proc[p]] = p /\ HasFile BY <1>a, NamedNow
<1>2. \A d \in Commands : at'[d] # "write" /\ (at'[d] = "launch" => d = c) OBVIOUS
<1>3. HasFile' = HasFile /\ cutoff' = cutoff /\ Strays' = Strays BY DEF HasFile, history, Strays
<1>4. Named' BY <1>1 DEF Named
<1>5. Found' BY <1>1, <1>2, <1>3 DEF Found
<1>6. Owned' BY <1>a, <1>2, <1>3 DEF Owned
<1> QED BY <1>4, <1>5, <1>6

\* What a trap leaves alone.
LEMMA TrapEffect ==
  ASSUME TypeOK, NEW p \in Pids, Trap(p) \/ NoTrap
  PROVE  /\ robbed \subseteq robbed' /\ robbed' \subseteq robbed \cup ({pidfile["sup"]} \cap Live)
         /\ \A r \in Roles : pidfile'[r] \in {pidfile[r], NoPid}
         /\ \A r \in Roles : r # "sup" => pidfile'[r] = pidfile[r]
         /\ HasFile => HasFile'
<1>1. CASE Trap(p)
  <2>1. pidfile' = [pidfile EXCEPT !["sup"] = NoPid] BY <1>1 DEF Trap
  <2>2. \A r \in Roles : pidfile'[r] = IF r = "sup" THEN NoPid ELSE pidfile[r]
    BY <2>1 DEF TypeOK
  <2>3. HasFile => HasFile' BY <1>1 DEF Trap, HasFile
  <2>4. robbed \subseteq robbed' /\ robbed' \subseteq robbed \cup ({pidfile["sup"]} \cap Live)
    BY <1>1 DEF Trap
  <2> QED BY <2>2, <2>3, <2>4
<1>2. CASE NoTrap BY <1>2 DEF NoTrap, HasFile
<1> QED BY <1>1, <1>2

\* A trap removes no other's file where one supervisor stays at most.
LEMMA TrapKeeps ==
  ASSUME TypeInv, Owned, robbed = {}, NEW p \in Pids, Trap(p),
         \A q \in Standing : proc[q] = "sup" => q = p
  PROVE  robbed' = {}
<1> SUFFICES {pidfile["sup"]} \cap (Live \ (dying \cup {p})) = {} BY DEF Trap
<1> SUFFICES ASSUME pidfile["sup"] \in Live \ (dying \cup {p}) PROVE FALSE OBVIOUS
<1> DEFINE q == pidfile["sup"]
<1>1. q # NoPid BY DEF Live, Pids, NoPid
<1>2. proc[q] = "sup" /\ q \notin cutoff BY <1>1 DEF Owned, Live, Roles
<1>3. q \in Standing BY <1>2 DEF Standing, Strays
<1> QED BY <1>2, <1>3

\* A script that dies keeps order.
LEMMA DeathStep ==
  ASSUME TypeInv, TypeInv', Orderly, scene # "rough", NEW c \in Commands, ScriptDies(c)
  PROVE  Orderly'
<1>a. Alone /\ Named /\ Found /\ Owned /\ Ports /\ Room(c) /\ Stopped(c) BY DEF Orderly
<1>b. /\ \A d \in Commands : d # c => at[d] \in {"new", "done", "dead"} /\ at'[d] = at[d]
      /\ UNCHANGED scene
  BY <1>a, OneActs
<1>c. TypeOK /\ Roled BY DEF TypeInv
<1>d. c \in Busy /\ at'[c] = "dead" /\ Goto(c, "dead") BY <1>c, GotoType DEF ScriptDies, Labels
<1>e. \A d \in Commands : at'[d] \in {"new", "done", "dead"} BY <1>b, <1>d
<1>f. Room(c)' /\ Stopped(c)' BY <1>d DEF Room, Stopped
\* What stays is named, but for the one whose pid was to be written.
<1>g. \A q \in Standing : q # held[c] \/ at[c] # "write" => pidfile[proc[q]] = q /\ HasFile
  <2>1. \A d \in Commands : at[d] = "write" => d = c BY <1>b
  <2> QED BY <1>a, <2>1 DEF Named, Found
<1>1. CASE at[c] = "write" /\ op[c] = "foreground"
  <2> DEFINE p == held[c]
  <2>1. End(p) /\ (Trap(p) \/ NoTrap) /\ cutoff' = cutoff BY <1>1 DEF ScriptDies
  <2>2. p \in Pids /\ role[c] = "sup" BY <1>c, <1>1 DEF Roled
  <2>3. /\ Live' = Live \ {p} /\ dying' = dying \ {p} /\ fore' \subseteq fore
        /\ \A q \in Pids : q # p => proc'[q] = proc[q]
        /\ proc'[p] = "ended"
    <3>1. proc'[p] = "ended" BY <1>c, <2>1, <2>2 DEF End, TypeOK
    <3> QED BY <2>1, <2>2, <3>1, EndType
  <2>4. \A q \in Standing : proc[q] = "sup" => q = p BY <1>a, <1>1, <2>2 DEF Room
  <2>5. /\ robbed \subseteq robbed' /\ robbed' \subseteq robbed \cup Live
        /\ \A r \in Roles : pidfile'[r] \in {pidfile[r], NoPid}
        /\ \A r \in Roles : r # "sup" => pidfile'[r] = pidfile[r]
        /\ HasFile => HasFile'
    BY <1>c, <2>1, <2>2, TrapEffect
  <2>6. \A q \in Standing' : q \in Standing /\ q # p /\ q \in Pids BY <2>1, <2>3, <2>5 DEF Standing, Strays, Live
  <2>7. Named'
    <3>1. \A q \in Standing' : pidfile'[proc'[q]] = q
      <4>1. \A q \in Standing' : pidfile[proc[q]] = q /\ proc'[q] = proc[q] /\ proc[q] # "sup"
        BY <1>g, <2>3, <2>4, <2>6
      <4>2. \A q \in Standing' : proc[q] \in Roles BY <2>6 DEF Standing, Live
      <4> QED BY <2>5, <4>1, <4>2
    <3> QED BY <3>1 DEF Named
  <2>8. Found' BY <1>e, <1>g, <2>5, <2>6 DEF Found
  <2>9. Owned'
    <3>1. \A r \in Roles : pidfile'[r] # NoPid =>
            proc'[pidfile'[r]] \in {r, "ended"} /\ pidfile'[r] \notin cutoff'
      <4> SUFFICES ASSUME NEW r \in Roles, pidfile'[r] # NoPid
                   PROVE  proc'[pidfile'[r]] \in {r, "ended"} /\ pidfile'[r] \notin cutoff'
        OBVIOUS
      <4>1. pidfile'[r] = pidfile[r] /\ pidfile[r] \in Pids BY <1>c, <2>5 DEF TypeOK
      <4> QED BY <1>a, <2>1, <2>3, <4>1 DEF Owned
    <3>2. \A q \in Strays' : proc'[q] # "unused"
      <4>1. Strays' \subseteq Strays \cup Live BY <2>1, <2>5 DEF Strays
      <4>2. \A q \in Live : proc[q] # "unused" BY DEF Live, Roles
      <4>3. Strays \cup Live \subseteq Pids BY <1>c DEF TypeOK, Strays, Live
      <4> QED BY <1>a, <2>3, <4>1, <4>2, <4>3 DEF Owned
    <3>3. (fore \cap cutoff)' = {} BY <1>a, <2>1, <2>3 DEF Owned
    <3> QED BY <1>e, <3>1, <3>2, <3>3 DEF Owned
  <2>10. Ports'
    <3>1. ASSUME scene = "settled" PROVE robbed' = {}
      BY <1>a, <2>1, <2>2, <2>4, <3>1, TrapKeeps DEF NoTrap, Ports
    <3>2. Strays \subseteq Strays' BY <2>1, <2>5 DEF Strays
    <3>3. \A q \in (Live \ Strays)' : q \in Live \ Strays /\ proc'[q] = proc[q]
      BY <2>3, <3>2 DEF Live
    <3> QED BY <1>a, <1>b, <1>e, <3>1, <3>3 DEF Ports
  <2> QED BY <1>f, <2>7, <2>8, <2>9, <2>10, ByCommand
<1>2. CASE at[c] = "write" /\ op[c] # "foreground"
  <2>1. /\ UNCHANGED processes /\ pidfile' = pidfile /\ trapped' = trapped /\ robbed' = robbed
        /\ cutoff' = cutoff \cup {held[c]}
    BY <1>2 DEF ScriptDies, NoTrap
  <2>2. proc' = proc /\ fore' = fore /\ dying' = dying /\ Live' = Live BY <2>1, SameProcesses
  <2>3. Strays' = Strays \cup {held[c]} BY <2>1 DEF Strays
  <2>4. Standing' = Standing \ {held[c]} BY <2>2, <2>3 DEF Standing
  <2>5. Named' BY <1>g, <2>1, <2>2, <2>4 DEF Named
  <2>6. Found' BY <1>e, <1>g, <2>1, <2>4 DEF Found, HasFile
  <2>7. Owned'
    <3>1. /\ proc[held[c]] # "unused" /\ held[c] \notin fore
          /\ \A r \in Roles : pidfile[r] # held[c]
      BY <1>a, <1>c, <1>2 DEF Owned, TypeOK, Roles
    <3> QED BY <1>a, <1>e, <2>1, <2>2, <2>3, <3>1 DEF Owned
  <2>8. Ports' BY <1>a, <1>b, <1>e, <2>1, <2>2, <2>3 DEF Ports
  <2> QED BY <1>f, <2>5, <2>6, <2>7, <2>8, ByCommand
<1>3. CASE at[c] # "write"
  <2>1. UNCHANGED processes /\ NoTrap /\ cutoff' = cutoff BY <1>3 DEF ScriptDies
  <2>2. pidfile' = pidfile /\ UNCHANGED history BY <2>1 DEF NoTrap, history
  <2>3. proc' = proc /\ fore' = fore /\ dying' = dying /\ Live' = Live BY <2>1, SameProcesses
  <2>4. Strays' = Strays BY <2>2 DEF Strays, history
  <2>5. Standing' = Standing BY <2>3, <2>4 DEF Standing
  <2>6. Named' /\ Found' /\ Owned' BY <1>b, <1>d, <1>3, <2>2, <2>3, <2>5, Quiet
  <2>7. Ports' BY <1>a, <1>b, <1>e, <2>2, <2>3, <2>4 DEF Ports, history
  <2> QED BY <1>f, <2>6, <2>7, ByCommand
<1> QED BY <1>1, <1>2, <1>3

\* A command keeps order.
LEMMA CommandStep ==
  ASSUME TypeInv, TypeInv', Orderly, scene # "rough", NEW c \in Commands, Begin(c) \/ lis(c)
  PROVE  Orderly'
<1>a. Alone /\ Named /\ Found /\ Owned /\ Ports /\ Room(c) /\ Stopped(c) BY DEF Orderly
<1>b. /\ \A d \in Commands : d # c => at[d] \in {"new", "done", "dead"} /\ at'[d] = at[d]
      /\ UNCHANGED scene /\ (Begin(c) => Busy = {})
  BY <1>a, OneActs
<1>c. TypeOK /\ Roled /\ TypeOK' BY DEF TypeInv
<1>d. at[c] # "write" => \A p \in Standing : pidfile[proc[p]] = p /\ HasFile
  <2> SUFFICES ASSUME at[c] # "write" PROVE \A p \in Standing : pidfile[proc[p]] = p /\ HasFile
    OBVIOUS
  <2>1. \A d \in Commands : at[d] # "write" BY <1>b
  <2> QED BY <1>a, <2>1, NamedNow
<1>e. ASSUME UNCHANGED processes, UNCHANGED history
      PROVE  /\ proc' = proc /\ fore' = fore /\ dying' = dying /\ Live' = Live
             /\ Strays' = Strays /\ Standing' = Standing /\ robbed' = robbed
  <2>1. Strays' = Strays /\ robbed' = robbed BY <1>e DEF Strays, history
  <2> QED BY <1>e, <2>1, SameProcesses DEF Standing
<1>f. ASSUME UNCHANGED processes, UNCHANGED pidfile, UNCHANGED history, at[c] # "write",
             at'[c] # "write", at'[c] = "launch" /\ role'[c] # "sup" => HasFile
      PROVE  Named' /\ Found' /\ Owned'
  BY <1>b, <1>e, <1>f, Quiet
\* A start keeps what Ports says of its own stages.
<1>g. ASSUME UNCHANGED processes, UNCHANGED cutoff, UNCHANGED robbed,
             at[c] \in {"check", "ensure", "launch", "write"} \/ at'[c] \in {"find", "kill", "remove", "done"}
      PROVE  Ports'
  <2>1. \A d \in Commands : at'[d] \in {"check", "ensure", "launch", "write"} =>
          at[d] \in {"check", "ensure", "launch", "write"}
    BY <1>b, <1>g
  <2>2. proc' = proc /\ dying' = dying /\ Live' = Live /\ Strays' = Strays
    BY <1>g, SameProcesses DEF Strays
  <2> QED BY <1>a, <1>b, <1>g, <2>1, <2>2 DEF Ports
<1>1. CASE Begin(c)
  <2>1. PICK o \in Ops :
          /\ op' = [op EXCEPT ![c] = o]
          /\ at' = [at EXCEPT ![c] = IF o = "stop" THEN "find" ELSE IF o = "migrate" THEN "ensure" ELSE "check"]
    BY <1>1 DEF Begin
  <2>2. /\ UNCHANGED scene /\ UNCHANGED processes /\ UNCHANGED files /\ UNCHANGED history
        /\ at[c] = "new" /\ (scene = "settled" => dying = {})
    BY <1>1 DEF Begin
  <2>3. op'[c] = o /\ at'[c] = IF o = "stop" THEN "find" ELSE IF o = "migrate" THEN "ensure" ELSE "check"
    BY <1>c, <2>1 DEF TypeOK
  <2>4. Named' /\ Found' /\ Owned' BY <1>f, <2>2, <2>3 DEF files
  <2>5. Ports' BY <1>a, <1>e, <2>2 DEF Ports
  <2>6. Room(c)' /\ Stopped(c)'
    <3>1. o = "migrate" \/ at'[c] # "ensure" BY <2>3
    <3> QED BY <2>3, <3>1 DEF Room, Stopped
  <2> QED BY <2>4, <2>5, <2>6, ByCommand
<1>2. CASE Check(c)
  <2>1. /\ UNCHANGED role /\ UNCHANGED held /\ UNCHANGED processes /\ UNCHANGED pidfile
        /\ UNCHANGED history /\ at[c] = "check" /\ Goto(c, IF Alive("sup") THEN "done" ELSE "ensure")
    BY <1>2 DEF Check, files
  <2>2. at'[c] = IF Alive("sup") THEN "done" ELSE "ensure" BY <1>c, <2>1 DEF Goto, TypeOK
  <2>3. ~Alive("sup") => \A p \in Standing : proc[p] # "sup"
    BY <1>d, <2>1 DEF Alive, Standing
  <2>4. Standing' = Standing /\ proc' = proc BY <1>e, <2>1
  <2>5. Room(c)' /\ Stopped(c)' BY <2>2, <2>3, <2>4 DEF Room, Stopped
  <2>6. Named' /\ Found' /\ Owned' BY <1>f, <2>1, <2>2
  <2>7. Ports' BY <1>g, <2>1 DEF history
  <2> QED BY <1>2, <2>5, <2>6, <2>7, ByCommand
<1>3. CASE lis_db_engine_ensure(c)
  <2>1. PICK ok \in BOOLEAN : Goto(c, IF ok /\ op[c] # "migrate" THEN "launch" ELSE "done")
    BY <1>3 DEF lis_db_engine_ensure
  <2>2. /\ UNCHANGED role /\ UNCHANGED held /\ UNCHANGED processes /\ UNCHANGED pidfile
        /\ UNCHANGED history /\ at[c] = "ensure"
    BY <1>3 DEF lis_db_engine_ensure
  <2>3. at'[c] = IF ok /\ op[c] # "migrate" THEN "launch" ELSE "done" BY <1>c, <2>1 DEF Goto, TypeOK
  <2>4. Standing' = Standing /\ proc' = proc BY <1>e, <2>2
  <2>5. Room(c)' /\ Stopped(c)' BY <1>a, <2>2, <2>3, <2>4 DEF Room, Stopped
  <2>6. role'[c] = "sup" BY <1>c, <2>2 DEF Roled
  <2>7. Named' /\ Found' /\ Owned' BY <1>f, <2>2, <2>3, <2>6
  <2>8. Ports' BY <1>g, <2>2 DEF history
  <2> QED BY <1>3, <2>5, <2>7, <2>8, ByCommand
<1>4. CASE Launch(c)
  <2>0. UNCHANGED dying /\ UNCHANGED bound /\ UNCHANGED pidfile /\ UNCHANGED history /\ at[c] = "launch"
    BY <1>4 DEF Launch, files
  <2>1. CASE /\ role[c] # "sup" /\ NextRole(c, "launch", "done")
             /\ UNCHANGED held /\ UNCHANGED proc /\ UNCHANGED fore
    <3>1. at'[c] \in {"launch", "done"} /\ role'[c] # "sup"
      BY <1>c, <2>1, NextRoleType DEF TypeOK, Labels, Roles
    <3>2. Room(c)' /\ Stopped(c)' BY <3>1 DEF Room, Stopped
    <3>3. UNCHANGED processes /\ HasFile BY <1>a, <2>0, <2>1 DEF processes, Found
    <3>4. Named' /\ Found' /\ Owned' BY <1>f, <2>0, <3>1, <3>3
    <3>5. Ports' BY <1>g, <2>0, <3>3 DEF history
    <3> QED BY <1>4, <3>2, <3>4, <3>5, ByCommand
  <2>2. ASSUME NEW p \in Pids, Start(c, p), Goto(c, "write"), UNCHANGED role,
               fore' = IF op[c] = "foreground" THEN fore \cup {p} ELSE fore,
               role[c] # "sup" => ~Alive(role[c])
        PROVE  Orderly'
    <3>1. at'[c] = "write" /\ held'[c] = p /\ op'[c] = op[c]
      BY <1>c, <2>2, StartType, GotoType DEF Labels
    <3>2. \A q \in Standing : proc[q] # role[c]
      <4>1. CASE role[c] = "sup" BY <1>a, <2>0, <4>1 DEF Room
      <4>2. CASE role[c] # "sup" BY <1>d, <2>0, <2>2, <4>2 DEF Alive, Standing
      <4> QED BY <4>1, <4>2
    <3>3. /\ proc'[p] = role[c] /\ p \notin Live /\ Live' = Live \cup {p}
          /\ \A q \in Pids : q # p => proc'[q] = proc[q]
          /\ proc[p] = "unused" /\ role[c] \in Roles
      BY <1>c, <2>2, StartType DEF Start, TypeOK
    <3>a. \A q \in Live : q \in Pids /\ q # p BY <3>3 DEF Live
    <3>4. Strays' = Strays /\ cutoff' = cutoff /\ robbed' = robbed /\ p \notin Strays
      BY <1>a, <2>0, <3>3 DEF Strays, history, Owned
    <3>5. Standing' = Standing \cup {p}
      BY <1>c, <2>0, <3>3, <3>4 DEF Standing, TypeOK
    <3>6. Room(c)' BY <2>2, <3>1, <3>2, <3>3, <3>5, <3>a DEF Room, Standing
    <3>7. Stopped(c)' BY <3>1 DEF Stopped
    <3>8. Named' BY <1>d, <2>0, <2>2, <3>1, <3>3, <3>5, <3>a DEF Named, Standing
    <3>9. Found'
      <4>1. HasFile' = HasFile BY <2>0 DEF HasFile, history
      <4>2. role[c] # "sup" => HasFile BY <1>a, <2>0 DEF Found
      <4>3. \A q \in Standing : HasFile BY <1>d, <2>0
      <4> QED BY <1>b, <2>2, <3>1, <3>5, <4>1, <4>2, <4>3 DEF Found
    <3>10. Owned'
      <4>1. \A r \in Roles : pidfile[r] # p
        <5>1. p # NoPid /\ "unused" \notin Roles BY DEF Pids, NoPid, Roles
        <5> QED BY <1>a, <3>3, <5>1 DEF Owned, Roles
      <4>2. \A r \in Roles : pidfile'[r] # NoPid =>
              proc'[pidfile'[r]] \in {r, "ended"} /\ pidfile'[r] \notin cutoff'
        BY <1>a, <1>c, <2>0, <3>3, <3>4, <4>1 DEF Owned, TypeOK
      <4>3. \A q \in Strays' : proc'[q] # "unused"
        <5>1. Strays \subseteq Pids BY <1>c DEF TypeOK, Strays
        <5> QED BY <1>a, <3>3, <3>4, <5>1 DEF Owned
      <4>4. op[c] # "foreground" => p \notin fore' BY <1>c, <2>2, <3>3 DEF TypeOK
      <4>5. (fore \cap cutoff)' = {} BY <1>a, <2>2, <3>4 DEF Owned, Strays
      <4>6. \A d \in Commands : at'[d] = "write" => d = c BY <1>b
      <4> QED BY <2>0, <2>2, <3>1, <3>3, <3>4, <4>1, <4>2, <4>3, <4>4, <4>5, <4>6 DEF Owned
    <3>11. Ports'
      <4>1. scene = "settled" => dying = {} BY <1>a, <2>0 DEF Ports
      <4>2. dying = {} => Standing = Live \ Strays BY DEF Standing
      <4>3. scene = "settled" => \A q, r \in (Live \ Strays)' : proc'[q] = proc'[r] => q = r
        <5>1. \A q \in (Live \ Strays)' : q = p \/ (q \in Live \ Strays /\ q \in Pids /\ q # p)
          BY <3>3, <3>4, <3>a
        <5> QED BY <1>a, <3>2, <3>3, <4>1, <4>2, <5>1 DEF Ports
      <4> QED BY <1>a, <1>b, <2>0, <3>4, <4>1, <4>3 DEF Ports
    <3> QED BY <1>4, <3>6, <3>7, <3>8, <3>9, <3>10, <3>11, ByCommand
  <2> QED BY <1>4, <2>1, <2>2 DEF Launch
<1>5. CASE WritePid(c)
  <2>0. /\ UNCHANGED held /\ UNCHANGED processes /\ UNCHANGED cutoff /\ UNCHANGED robbed /\ at[c] = "write"
        /\ pidfile' = [pidfile EXCEPT ![role[c]] = held[c]]
        /\ trapped' = (trapped /\ role[c] # "sup")
    BY <1>5 DEF WritePid
  <2>1. /\ at'[c] \in {"launch", "done"} /\ (at'[c] = "launch" => role'[c] # "sup")
    <3>1. CASE Goto(c, "done") BY <1>c, <3>1, GotoType DEF Labels
    <3>2. CASE NextRole(c, "launch", "done")
      BY <1>c, <3>2, NextRoleType DEF TypeOK, Labels, Roles
    <3> QED BY <1>5, <3>1, <3>2 DEF WritePid
  <2>2. Standing' = Standing /\ proc' = proc /\ fore' = fore /\ Strays' = Strays
    BY <2>0, SameProcesses DEF Standing, Strays
  <2>3. Room(c)' /\ Stopped(c)' BY <2>1 DEF Room, Stopped
  <2>4. ASSUME NEW p \in Standing PROVE pidfile'[proc[p]] = p
    <3>1. proc[p] \in Roles BY DEF Standing, Live
    <3>2. CASE proc[p] = role[c]
      <4>1. p = held[c] BY <1>a, <2>0, <3>2 DEF Room
      <4> QED BY <1>c, <2>0, <3>1, <3>2, <4>1 DEF TypeOK
    <3>3. CASE proc[p] # role[c]
      <4>1. pidfile[proc[p]] = p BY <1>a, <1>b, <3>3 DEF Named
      <4> QED BY <1>c, <2>0, <3>1, <3>3, <4>1 DEF TypeOK
    <3> QED BY <3>2, <3>3
  <2>5. Named' BY <2>2, <2>4 DEF Named
  <2>6. Found'
    <3>1. HasFile'
      <4>1. CASE role[c] = "sup"
        <5>1. held[c] # NoPid BY <1>c, <2>0 DEF Roled, Pids, NoPid
        <5> QED BY <1>c, <2>0, <4>1, <5>1 DEF HasFile, TypeOK
      <4>2. CASE role[c] # "sup" BY <1>a, <1>c, <2>0, <4>2 DEF Found, HasFile, TypeOK
      <4> QED BY <4>1, <4>2
    <3> QED BY <3>1 DEF Found
  <2>7. Owned'
    <3>1. \A r \in Roles : pidfile'[r] = IF r = role[c] THEN held[c] ELSE pidfile[r]
      BY <1>c, <2>0 DEF TypeOK
    <3>2. proc[held[c]] \in {role[c], "ended"} /\ held[c] \notin cutoff
      BY <1>a, <2>0 DEF Owned, Strays
    <3>3. \A d \in Commands : at'[d] # "write" BY <1>b, <2>1
    <3> QED BY <1>a, <2>0, <2>2, <3>1, <3>2, <3>3 DEF Owned
  <2>8. Ports' BY <1>g, <2>0
  <2> QED BY <1>5, <2>3, <2>5, <2>6, <2>7, <2>8, ByCommand
<1>6. CASE Find(c)
  <2>0. /\ UNCHANGED role /\ UNCHANGED processes /\ UNCHANGED pidfile /\ UNCHANGED history /\ at[c] = "find"
    BY <1>6 DEF Find, files
  <2>1. at'[c] \in {"done", "kill"} /\ (at'[c] = "kill" => held'[c] = pidfile["sup"])
    BY <1>c, <1>6 DEF Find, Goto, TypeOK
  <2>2. role'[c] = "sup" BY <1>c, <2>0 DEF Roled
  <2>3. Standing' = Standing /\ proc' = proc BY <1>e, <2>0
  <2>4. Stopped(c)' BY <1>d, <2>0, <2>1, <2>2, <2>3 DEF Stopped
  <2>5. Room(c)' BY <2>1 DEF Room
  <2>6. Named' /\ Found' /\ Owned' BY <1>f, <2>0, <2>1
  <2>7. Ports' BY <1>g, <2>0, <2>1 DEF history
  <2> QED BY <1>6, <2>4, <2>5, <2>6, <2>7, ByCommand
<1>7. CASE Kill(c)
  <2> DEFINE p == IF role[c] = "sup" THEN held[c] ELSE pidfile[role[c]]
  <2>0. /\ UNCHANGED held /\ UNCHANGED proc /\ UNCHANGED fore /\ UNCHANGED pidfile /\ UNCHANGED history
        /\ at[c] = "kill" /\ NextRole(c, "kill", "remove") /\ dying' = dying \cup ({p} \cap Live)
    BY <1>7 DEF Kill, files
  <2>1. Standing' = Standing \ {p} /\ Live' = Live /\ Strays' = Strays /\ robbed' = robbed
    <3>1. Live' = Live /\ Strays' = Strays /\ robbed' = robbed BY <2>0 DEF Live, Strays, history
    <3> QED BY <2>0, <3>1 DEF Standing
  <2>2. \A q \in Standing' : proc[q] # role[c]
    BY <1>a, <1>d, <2>0, <2>1 DEF Stopped
  <2>3. /\ role[c] \in Roles
        /\ role[c] = "rt" => at'[c] = "remove"
        /\ role[c] = "sup" => at'[c] = "kill" /\ role'[c] = "reg"
        /\ role[c] = "reg" => at'[c] = "kill" /\ role'[c] = "rt"
    BY <1>c, <2>0, NextRoleType DEF TypeOK, Labels
  <2>4. \A q \in Standing' : q \in Standing /\ proc[q] \in Roles BY <2>1 DEF Standing, Live
  <2>5. Stopped(c)'
    BY <1>a, <2>0, <2>2, <2>3, <2>4 DEF Stopped, Roles
  <2>6. at'[c] \in {"kill", "remove"} BY <2>3 DEF Roles
  <2>7. Room(c)' BY <2>6 DEF Room
  <2>8. Named' /\ Found' /\ Owned' BY <1>b, <2>0, <2>1, <2>6, Quiet
  <2>9. Ports'
    <3>1. scene # "settled" \/ \A d \in Commands : at'[d] \notin {"check", "ensure", "launch", "write"}
      BY <1>b, <2>6
    <3> QED BY <1>a, <1>b, <2>0, <2>1, <3>1 DEF Ports
  <2> QED BY <1>7, <2>5, <2>7, <2>8, <2>9, ByCommand
<1>8. CASE Remove(c)
  <2>0. /\ UNCHANGED processes /\ UNCHANGED cutoff /\ UNCHANGED robbed /\ at[c] = "remove" /\ at'[c] = "done"
        /\ pidfile' = [r \in Roles |-> NoPid]
    BY <1>c, <1>8, GotoType DEF Remove, Labels
  <2>1. Strays' = Strays /\ proc' = proc /\ fore' = fore /\ Standing' = Standing
    BY <2>0, SameProcesses DEF Strays, Standing
  <2>2. Standing' = {} BY <1>a, <2>0, <2>1 DEF Stopped
  <2>3. \A d \in Commands : at'[d] \in {"new", "done", "dead"} BY <1>b, <2>0
  <2>4. Named' /\ Found' BY <2>2, <2>3 DEF Named, Found
  <2>5. Owned' BY <1>a, <2>0, <2>1, <2>3 DEF Owned
  <2>6. Room(c)' /\ Stopped(c)' BY <2>0 DEF Room, Stopped
  <2>7. Ports' BY <1>g, <2>0
  <2> QED BY <1>8, <2>4, <2>5, <2>6, <2>7, ByCommand
<1> QED BY <1>1, <1>2, <1>3, <1>4, <1>5, <1>6, <1>7, <1>8 DEF lis

\* What is to be shown of a step of a process: none comes up, and no pid file of one
\* that stays is touched.
LEMMA ByProcess ==
  ASSUME TypeInv, TypeInv', scene # "rough", Orderly, UNCHANGED scene, UNCHANGED command,
         \A q \in Pids : proc'[q] = proc[q] \/ (q \in Live /\ proc'[q] = "ended"),
         fore' \subseteq fore, dying' \subseteq dying \/ Busy = {},
         Standing' \subseteq Standing, cutoff' = cutoff, robbed \subseteq robbed',
         robbed' \subseteq robbed \cup ({pidfile["sup"]} \cap Live),
         scene = "settled" => robbed' = {},
         \A r \in Roles : pidfile'[r] \in {pidfile[r], NoPid},
         \A q \in Standing' : pidfile[proc[q]] = q => pidfile'[proc[q]] = q,
         HasFile => HasFile'
  PROVE  Orderly'
<1>a. Alone /\ Named /\ Found /\ Owned /\ Ports /\ \A c \in Commands : Room(c) /\ Stopped(c) BY DEF Orderly
<1>b. /\ op' = op /\ at' = at /\ role' = role /\ held' = held BY DEF command
<1>c. TypeOK /\ Roled BY DEF TypeInv
<1>d. \A q \in Live' : q \in Live /\ proc'[q] = proc[q] BY DEF Live, Roles
<1>e. \A q \in Standing' : q \in Standing /\ proc'[q] = proc[q] BY <1>d DEF Standing
<1>1. Alone' BY <1>a, <1>b DEF Alone, Busy
<1>2. Named' BY <1>a, <1>b, <1>e DEF Named
<1>3. Found' BY <1>a, <1>b DEF Found
<1>4. Owned'
  <2>1. \A r \in Roles : pidfile'[r] # NoPid =>
          proc'[pidfile'[r]] \in {r, "ended"} /\ pidfile'[r] \notin cutoff'
    <3> SUFFICES ASSUME NEW r \in Roles, pidfile'[r] # NoPid
                 PROVE  proc'[pidfile'[r]] \in {r, "ended"} /\ pidfile'[r] \notin cutoff'
      OBVIOUS
    <3>1. pidfile'[r] = pidfile[r] /\ pidfile[r] \in Pids BY <1>c DEF TypeOK
    <3> QED BY <1>a, <3>1 DEF Owned
  <2>2. \A q \in Strays' : proc'[q] # "unused"
    <3>1. Strays' \subseteq Strays \cup Live BY DEF Strays
    <3>2. \A q \in Live : proc[q] # "unused" BY DEF Live, Roles
    <3>3. Strays \cup Live \subseteq Pids BY <1>c DEF TypeOK, Strays, Live
    <3> QED BY <1>a, <3>1, <3>2, <3>3 DEF Owned
  <2>3. ASSUME NEW c \in Commands, at[c] = "write"
        PROVE  /\ proc'[held[c]] \in {role[c], "ended"} /\ held[c] \notin Strays'
               /\ \A r \in Roles : pidfile'[r] # held[c]
               /\ op[c] # "foreground" => held[c] \notin fore'
    <3>1. held[c] \in Pids /\ held[c] # NoPid BY <1>c, <2>3 DEF Roled, Pids, NoPid
    <3>2. held[c] # pidfile["sup"] BY <1>a, <2>3 DEF Owned, Roles
    <3>3. held[c] \notin Strays' BY <1>a, <2>3, <3>2 DEF Owned, Strays
    <3> QED BY <1>a, <2>3, <3>1, <3>3 DEF Owned
  <2> QED BY <1>a, <1>b, <2>1, <2>2, <2>3 DEF Owned
<1>5. Ports'
  <2>1. ASSUME Busy = {} PROVE \A c \in Commands : at[c] \notin {"check", "ensure", "launch", "write"}
    BY <2>1 DEF Busy
  <2>2. \A q \in (Live \ Strays)' : q \in Live \ Strays /\ proc'[q] = proc[q]
    BY <1>d DEF Strays
  <2> QED BY <1>a, <1>b, <2>1, <2>2 DEF Ports
<1>6. \A c \in Commands : (Room(c) /\ Stopped(c))' BY <1>a, <1>b, <1>e DEF Room, Stopped
<1> QED BY <1>1, <1>2, <1>3, <1>4, <1>5, <1>6 DEF Orderly

\* A process keeps order, whatever becomes of it.
LEMMA ProcessStep ==
  ASSUME TypeInv, TypeInv', Orderly, scene # "rough", NEW p \in Pids,
         Process(p) \/ Interrupt(p) \/ Die(p)
  PROVE  Orderly'
<1>a. UNCHANGED scene /\ UNCHANGED command
  BY DEF Process, Bind, Terminate, Interrupt, Die
<1>b. TypeOK /\ Roled /\ Alone /\ Ports /\ Owned BY DEF Orderly, TypeInv
<1>c. ASSUME UNCHANGED pidfile, UNCHANGED history
      PROVE  /\ cutoff' = cutoff /\ robbed' = robbed /\ Strays' = Strays /\ HasFile' = HasFile
             /\ scene = "settled" => robbed' = {}
  BY <1>b, <1>c DEF history, Strays, HasFile, Ports
<1>1. CASE Bind(p)
  <2>1. fore' = fore /\ pidfile' = pidfile /\ UNCHANGED history BY <1>1 DEF Bind, files
  <2>2. /\ \A q \in Pids : proc'[q] = proc[q] \/ (q \in Live /\ proc'[q] = "ended")
        /\ dying' \subseteq dying
        /\ Live' \ dying' \subseteq Live \ dying
    BY <1>1, <1>b DEF Bind, Live, TypeOK, Roles
  <2>3. Standing' \subseteq Standing BY <1>c, <2>1, <2>2 DEF Standing
  <2> QED BY <1>a, <1>c, <2>1, <2>2, <2>3, ByProcess
<1>2. ASSUME End(p), p \in Live
      PROVE  /\ \A q \in Pids : proc'[q] = proc[q] \/ (q \in Live /\ proc'[q] = "ended")
             /\ dying' \subseteq dying /\ fore' \subseteq fore
             /\ Live' \ dying' \subseteq Live \ (dying \cup {p})
  <2>1. proc'[p] = "ended" BY <1>2, <1>b DEF End, TypeOK
  <2> QED BY <1>2, <2>1, EndType
<1>3. CASE Terminate(p)
  <2>0. p \in Live /\ End(p) /\ cutoff' = cutoff BY <1>3, <1>b DEF Terminate, TypeOK
  <2>1. CASE p \in fore
    <3>1. Trap(p) BY <1>3, <2>1 DEF Terminate
    <3>2. scene = "settled" => robbed' = {}
      <4> SUFFICES ASSUME scene = "settled" PROVE robbed' = {} OBVIOUS
      <4>1. p \in Live \ Strays /\ proc[p] = "sup" /\ robbed = {}
        BY <1>b, <2>0, <2>1 DEF Ports, Owned, Strays, Roled
      <4>2. \A q \in Standing : proc[q] = "sup" => q = p BY <1>b, <4>1 DEF Ports, Standing
      <4> QED BY <1>b, <3>1, <4>1, <4>2, TrapKeeps
    <3>3. /\ robbed \subseteq robbed' /\ robbed' \subseteq robbed \cup ({pidfile["sup"]} \cap Live)
          /\ \A r \in Roles : pidfile'[r] \in {pidfile[r], NoPid}
          /\ \A r \in Roles : r # "sup" => pidfile'[r] = pidfile[r]
          /\ HasFile => HasFile'
      BY <1>b, <3>1, TrapEffect
    <3>4. Standing' \subseteq Standing BY <1>2, <2>0, <3>3 DEF Standing, Strays
    <3>5. \A q \in Standing' : pidfile[proc[q]] = q => pidfile'[proc[q]] = q
      <4> SUFFICES ASSUME NEW q \in Standing', pidfile[proc[q]] = q PROVE pidfile'[proc[q]] = q
        OBVIOUS
      <4>1. q \in Live \ (dying \cup {p}) /\ q \notin robbed' BY <1>2, <2>0 DEF Standing, Strays
      <4>2. pidfile["sup"] # q BY <3>1, <4>1 DEF Trap
      <4>3. proc[q] \in Roles BY <4>1 DEF Live
      <4> QED BY <3>3, <4>2, <4>3
    <3> QED BY <1>a, <1>2, <2>0, <3>2, <3>3, <3>4, <3>5, ByProcess
  <2>2. CASE p \notin fore
    <3>1. pidfile' = pidfile /\ UNCHANGED history BY <1>3, <2>0, <2>2 DEF Terminate, NoTrap, history
    <3>2. Standing' \subseteq Standing BY <1>c, <1>2, <2>0, <3>1 DEF Standing
    <3> QED BY <1>a, <1>c, <1>2, <2>0, <3>1, <3>2, ByProcess
  <2> QED BY <2>1, <2>2
<1>4. CASE Interrupt(p)
  <2>1. /\ fore' = fore /\ pidfile' = pidfile /\ proc' = proc /\ dying' = dying \cup {p} /\ Busy = {}
        /\ UNCHANGED history
    BY <1>4 DEF Interrupt, files
  <2>2. Live' = Live BY <2>1 DEF Live
  <2>3. Standing' \subseteq Standing BY <1>c, <2>1, <2>2 DEF Standing
  <2> QED BY <1>a, <1>c, <2>1, <2>3, ByProcess
<1>5. CASE Die(p)
  <2>1. End(p) /\ p \in Live /\ pidfile' = pidfile /\ UNCHANGED history BY <1>5 DEF Die, files
  <2>2. Standing' \subseteq Standing BY <1>c, <1>2, <2>1 DEF Standing
  <2> QED BY <1>a, <1>c, <1>2, <2>1, <2>2, ByProcess
<1> QED BY <1>1, <1>3, <1>4, <1>5 DEF Process

-----------------------------------------------------------------------------
(* The theorems.                                                            *)

Inv == TypeInv /\ Orderly

\* At first no command was given and nothing runs.
LEMMA InvInit == Init => Inv
<1> SUFFICES ASSUME Init PROVE Inv OBVIOUS
<1>1. Live = {} /\ Busy = {} BY DEF Init, Live, Roles, Busy
<1>2. TypeOK
  <2>1. "sup" \in Roles /\ "new" \in Labels /\ deaths \in 0..MaxDeaths
    BY SupervisorAssumption DEF Init, Roles, Labels
  <2>2. fore \subseteq Live /\ dying \subseteq Live /\ bound \subseteq Live BY DEF Init
  <2>3. ready \in BOOLEAN /\ catalog \in BOOLEAN BY DEF Init
  <2> QED BY <2>1, <2>2, <2>3 DEF Init, TypeOK
<1>3. Roled BY DEF Init, Roled
<1>4. Orderly
  <2>1. Standing = {} /\ Strays = {} BY <1>1 DEF Standing, Strays, Init
  <2>2. Alone BY <1>1 DEF Alone
  <2>3. Named /\ Found /\ Owned /\ Ports BY <1>1, <2>1 DEF Named, Found, Owned, Ports, Init
  <2>4. \A c \in Commands : Room(c) /\ Stopped(c) BY <2>1 DEF Room, Stopped, Init
  <2> QED BY <2>2, <2>3, <2>4 DEF Orderly
<1> QED BY <1>2, <1>3, <1>4 DEF Inv, TypeInv

\* Every step of a script or a process keeps the invariant.
LEMMA InvStep == Inv /\ [Next]_vars => Inv'
<1> SUFFICES ASSUME Inv, [Next]_vars PROVE Inv' OBVIOUS
<1>1. TypeInv /\ TypeInv' /\ Orderly BY TypeStep DEF Inv
<1>2. CASE UNCHANGED vars
  BY <1>1, <1>2 DEF Inv, Orderly, Alone, Busy, Named, Found, HasFile, Owned, Ports, Room, Stopped,
     Standing, Strays, Live, vars, command, processes, files, history
<1>3. UNCHANGED scene
  BY DEF Next, Begin, lis, Check, lis_db_engine_ensure, Launch, WritePid, Find, Kill, Remove,
     ScriptDies, Process, Bind, Terminate, Interrupt, Die, vars
<1>4. CASE scene = "rough" BY <1>1, <1>3, <1>4 DEF Inv, Orderly
<1>5. CASE scene # "rough" /\ Next
  BY <1>1, <1>5, CommandStep, DeathStep, ProcessStep DEF Next, Inv
<1> QED BY <1>2, <1>4, <1>5

\* The inductive invariant of the supervisor.
LEMMA InvAlways == Spec => []Inv
BY InvInit, InvStep, PTL DEF Spec

\* The variables keep their types, however the commands are given.
THEOREM TypeCorrect == Spec => []TypeOK
<1>1. Inv => TypeOK BY DEF Inv, TypeInv
<1> QED BY <1>1, InvAlways, PTL

\* Between commands given one at a time every process of the stack that is to stay is
\* named by its pid file, and lis-db.pid exists unless a trap has removed it, but for
\* the strays; where what was killed has ended first, a trap makes none.
THEOREM NoOrphanHolds == Spec => []NoOrphan
<1>1. Inv => NoOrphan
  <2> SUFFICES ASSUME Inv, scene # "rough", Busy = {}
               PROVE  /\ \A p \in Standing : pidfile[proc[p]] = p /\ HasFile
                      /\ scene = "settled" => robbed = {}
    BY DEF NoOrphan, Standing, HasFile
  <2>1. \A c \in Commands : at[c] # "write" BY DEF Busy
  <2>2. Named /\ Found /\ Ports BY DEF Inv, Orderly
  <2> QED BY <2>1, <2>2, NamedNow DEF Ports
<1> QED BY <1>1, InvAlways, PTL

\* No role is played twice, but for the strays.
THEOREM OneStackHolds == Spec => []OneStack
<1>1. Inv => OneStack
  <2> SUFFICES ASSUME Inv PROVE OneStack OBVIOUS
  <2>1. scene = "settled" => \A p, q \in Live \ Strays : proc[p] = proc[q] => p = q
    BY DEF Inv, Orderly, Ports
  <2>2. ASSUME scene = "prompt", NEW p \in Standing, NEW q \in Standing, proc[p] = proc[q]
        PROVE  p = q
    <3>1. Named /\ \A c \in Commands : Room(c) BY <2>2 DEF Inv, Orderly
    <3>2. CASE \E c \in Commands : at[c] = "write" /\ role[c] = proc[p]
      BY <2>2, <3>1, <3>2 DEF Room
    <3>3. CASE ~\E c \in Commands : at[c] = "write" /\ role[c] = proc[p]
      BY <2>2, <3>1, <3>3 DEF Named
    <3> QED BY <3>2, <3>3
  <2> QED BY <2>1, <2>2 DEF OneStack, Standing
<1> QED BY <1>1, InvAlways, PTL
=============================================================================
