----------------------------- MODULE Supervisor -----------------------------
(***************************************************************************)
(* `lis db start|stop|migrate` (bin/lis): shell scripts without a lock     *)
(* that keep one data directory's stack in three pid files.  The stack is  *)
(* a supervisor (a subshell that sleeps, or with --foreground the script   *)
(* itself), the registry API and the Realtime server.  Every process of    *)
(* the stack, the scripts and the signals they send run side by side.      *)
(***************************************************************************)
EXTENDS Naturals, FiniteSets

CONSTANTS
  MaxCommands, \* bound: commands given
  MaxPids,     \* bound: processes started; a pid is not used again
  MaxDeaths,   \* bound: processes and scripts that die of themselves
  Ops,         \* the commands given
  Scenes       \* how they are given: see Begin

ASSUME SupervisorAssumption ==
  /\ MaxCommands \in Nat /\ MaxPids \in Nat /\ MaxDeaths \in Nat
  /\ Ops \subseteq {"start", "foreground", "stop", "migrate"}
  /\ Scenes \subseteq {"settled", "prompt", "rough"}

Commands == 1..MaxCommands
Pids == 1..MaxPids
NoPid == 0
Roles == {"sup", "reg", "rt"}

VARIABLES
  scene,
  op, at,    \* command: what a running script does, where its script is ("new" .. "done", "dead")
  role,      \* command: the process it is starting or killing
  held,      \* command: $!, or the pid stop has read
  proc,      \* pid: the process's role, "unused" or "ended"
  fore,      \* the supervisors that are scripts, with an EXIT trap
  dying,     \* those sent SIGTERM and not ended
  bound,     \* those that own their port
  pidfile,   \* role: lis-db.pid, lis-registry-api.pid, lis-realtime.pid
  ready,     \* .lis-db-engine-ready exists
  catalog,   \* the engine's catalog.heap exists
  deaths,
  cutoff,    \* history: those started by a script that died before it wrote the pid
  robbed,    \* history: those whose lis-db.pid another's EXIT trap has removed
  trapped    \* history: lis-db.pid was removed by an EXIT trap and not written since

command == <<op, at, role, held>>
processes == <<proc, fore, dying, bound>>
files == <<pidfile, ready, catalog>>
history == <<cutoff, robbed, trapped>>
vars == <<scene, command, processes, files, deaths, history>>

Init ==
  /\ scene \in Scenes
  /\ op = [c \in Commands |-> "none"] /\ at = [c \in Commands |-> "new"]
  /\ role = [c \in Commands |-> "sup"] /\ held = [c \in Commands |-> NoPid]
  /\ proc = [p \in Pids |-> "unused"]
  /\ fore = {} /\ dying = {} /\ bound = {}
  /\ pidfile = [r \in Roles |-> NoPid]
  /\ ready = FALSE /\ catalog = FALSE
  /\ deaths = 0
  /\ cutoff = {} /\ robbed = {} /\ trapped = FALSE

Live == {p \in Pids : proc[p] \in Roles}
Busy == {c \in Commands : at[c] \notin {"new", "done", "dead"}}

\* [[ -f file ]] && kill -0 "$(cat file)"
Alive(r) == pidfile[r] \in Live

\* The next line of a script; one that has ended does nothing any more.
Goto(c, label) ==
  /\ at' = [at EXCEPT ![c] = label]
  /\ op' = [op EXCEPT ![c] = IF label \in {"done", "dead"} THEN "none" ELSE @]
ToRole(c, r) == role' = [role EXCEPT ![c] = r]

\* Both scripts go from the supervisor to the registry to Realtime.
After == [sup |-> "reg", reg |-> "rt"]

\* The next process of the list, or what follows the last.
NextRole(c, label, last) ==
  IF role[c] = "rt" THEN Goto(c, last) /\ UNCHANGED role
                    ELSE Goto(c, label) /\ ToRole(c, After[role[c]])

-----------------------------------------------------------------------------
(* "settled": a command is given when the one before is over and what was  *)
(* killed has ended.  "prompt": as soon as the one before is over, be a     *)
(* process it has killed, or one in the foreground, ending or not.          *)
(* "rough": at any time.                                                    *)
Begin(c) ==
  /\ at[c] = "new"
  /\ \A b \in Commands : b < c => at[b] # "new"
  /\ scene # "rough" => Busy = {}
  /\ scene = "settled" => dying = {}
  /\ \E o \in Ops :
       /\ op' = [op EXCEPT ![c] = o]
       /\ at' = [at EXCEPT ![c] =
            IF o = "stop" THEN "find" ELSE IF o = "migrate" THEN "ensure" ELSE "check"]
  /\ UNCHANGED <<scene, role, held, processes, files, deaths, history>>

\* Mutant: a second stack is started beside a live one.
CheckNothing(c) ==
  /\ at[c] = "check"
  /\ Goto(c, "ensure")
  /\ UNCHANGED <<scene, role, held, processes, files, deaths, history>>

\* "already running": exit 0.
Check(c) ==
  /\ at[c] = "check"
  /\ Goto(c, IF Alive("sup") THEN "done" ELSE "ensure")
  /\ UNCHANGED <<scene, role, held, processes, files, deaths, history>>

\* lidb_engine.py ensure: a session of the embedded engine makes its catalog;
\* it fails without a checkout, and also when the engine then does not answer.
cmd_ensure(ok) == catalog' = TRUE \/ (~ok /\ UNCHANGED catalog)

lis_db_engine_ensure(c) ==
  /\ at[c] = "ensure"
  /\ \E ok \in BOOLEAN :
       /\ cmd_ensure(ok)
       /\ ready' = (ok \/ ready)
       /\ Goto(c, IF ok /\ op[c] # "migrate" THEN "launch" ELSE "done")
  /\ UNCHANGED <<scene, role, held, processes, pidfile, deaths, history>>

Start(c, p) ==
  /\ proc[p] = "unused"
  /\ \A q \in Pids : q < p => proc[q] # "unused"
  /\ proc' = [proc EXCEPT ![p] = role[c]]
  /\ held' = [held EXCEPT ![c] = p]

\* Mutant: the next process is started although it is alive.
LaunchAgain(c) ==
  /\ at[c] = "launch"
  /\ \E p \in Pids :
       Start(c, p) /\ fore' = IF op[c] = "foreground" THEN fore \cup {p} ELSE fore
  /\ Goto(c, "write")
  /\ UNCHANGED <<scene, role, dying, bound, files, deaths, history>>

\* The next process is started, unless it is alive, switched off
\* (LI_REGISTRY_API=0, a profile without Realtime) or lacks its library.
Launch(c) ==
  /\ at[c] = "launch"
  /\ \/ /\ role[c] # "sup"
        /\ NextRole(c, "launch", "done")
        /\ UNCHANGED <<held, proc, fore>>
     \/ /\ role[c] # "sup" => ~Alive(role[c])
        /\ \E p \in Pids :
             Start(c, p) /\ fore' = IF op[c] = "foreground" THEN fore \cup {p} ELSE fore
        /\ Goto(c, "write") /\ UNCHANGED role
  /\ UNCHANGED <<scene, dying, bound, files, deaths, history>>

\* echo $! >"$pid_file"; with --foreground the script stays in its loop.
WritePid(c) ==
  /\ at[c] = "write"
  /\ pidfile' = [pidfile EXCEPT ![role[c]] = held[c]]
  /\ trapped' = (trapped /\ role[c] # "sup")
  /\ IF op[c] = "foreground" THEN Goto(c, "done") /\ UNCHANGED role
                             ELSE NextRole(c, "launch", "done")
  /\ UNCHANGED <<scene, held, processes, ready, catalog, deaths, cutoff, robbed>>

-----------------------------------------------------------------------------
(* lis db stop *)

Find(c) ==
  /\ at[c] = "find"
  /\ IF pidfile["sup"] = NoPid THEN Goto(c, "done") /\ UNCHANGED held
                               ELSE Goto(c, "kill") /\ held' = [held EXCEPT ![c] = pidfile["sup"]]
  /\ UNCHANGED <<scene, role, processes, files, deaths, history>>

\* Mutants: the registry and Realtime are left to the supervisor; the pids are
\* not asked whether they are alive.
KillSup(c) ==
  /\ at[c] = "kill"
  /\ dying' = dying \cup ({held[c]} \cap Live)
  /\ Goto(c, "remove")
  /\ UNCHANGED <<scene, role, held, proc, fore, bound, files, deaths, history>>

KillBlindly(c) ==
  LET p == IF role[c] = "sup" THEN held[c] ELSE pidfile[role[c]] IN
  /\ at[c] = "kill"
  /\ dying' = dying \cup {p}
  /\ NextRole(c, "kill", "remove")
  /\ UNCHANGED <<scene, held, proc, fore, bound, files, deaths, history>>

\* SIGTERM to the process of each pid file that is alive.
Kill(c) ==
  LET p == IF role[c] = "sup" THEN held[c] ELSE pidfile[role[c]] IN
  /\ at[c] = "kill"
  /\ dying' = dying \cup ({p} \cap Live)
  /\ NextRole(c, "kill", "remove")
  /\ UNCHANGED <<scene, held, proc, fore, bound, files, deaths, history>>

Remove(c) ==
  /\ at[c] = "remove"
  /\ pidfile' = [r \in Roles |-> NoPid] /\ ready' = FALSE /\ trapped' = FALSE
  /\ Goto(c, "done")
  /\ UNCHANGED <<scene, role, held, processes, catalog, deaths, cutoff, robbed>>

-----------------------------------------------------------------------------
(* Processes *)

\* A server binds its port, or ends because another has it.
Bind(p) ==
  /\ proc[p] \in {"reg", "rt"} /\ p \notin bound
  /\ IF \E q \in bound : proc[q] = proc[p]
     THEN /\ proc' = [proc EXCEPT ![p] = "ended"] /\ dying' = dying \ {p}
          /\ UNCHANGED bound
     ELSE bound' = bound \cup {p} /\ UNCHANGED <<proc, dying>>
  /\ UNCHANGED <<scene, command, fore, files, deaths, history>>

End(p) ==
  /\ proc' = [proc EXCEPT ![p] = "ended"]
  /\ dying' = dying \ {p} /\ bound' = bound \ {p} /\ fore' = fore \ {p}

\* The EXIT trap of a script in the foreground removes lis-db.pid whoever wrote it.
Trap(p) ==
  /\ pidfile' = [pidfile EXCEPT !["sup"] = NoPid] /\ ready' = FALSE
  /\ trapped' = (trapped \/ pidfile["sup"] # NoPid)
  /\ robbed' = robbed \cup ({pidfile["sup"]} \cap (Live \ (dying \cup {p})))

NoTrap == UNCHANGED <<pidfile, ready, trapped, robbed>>

\* The signal arrives.
Terminate(p) ==
  /\ p \in dying
  /\ End(p)
  /\ IF p \in fore THEN Trap(p) ELSE NoTrap
  /\ UNCHANGED <<scene, command, catalog, deaths, cutoff>>

\* Ctrl+C in the terminal of a script in the foreground.
Interrupt(p) ==
  /\ p \in fore \ dying
  /\ Busy = {}
  /\ dying' = dying \cup {p}
  /\ UNCHANGED <<scene, command, proc, fore, bound, files, deaths, history>>

\* Between the start of a script and its pid in lis-db.pid it is no supervisor yet.
Starting(p) ==
  \E c \in Commands : at[c] = "write" /\ op[c] = "foreground" /\ held[c] = p

\* A crash, the OOM killer.
Die(p) ==
  /\ deaths < MaxDeaths /\ deaths' = deaths + 1
  /\ p \in Live /\ ~Starting(p)
  /\ End(p)
  /\ UNCHANGED <<scene, command, files, history>>

\* A script ends at any line: set -e after a write that fails, Ctrl+C, Studio's
\* time limit.  What it has started in the background goes on, with no pid file if
\* that was to be the next line.
ScriptDies(c) ==
  /\ c \in Busy
  /\ deaths < MaxDeaths /\ deaths' = deaths + 1
  /\ Goto(c, "dead")
  /\ IF at[c] = "write" /\ op[c] = "foreground"
     THEN End(held[c]) /\ (Trap(held[c]) \/ NoTrap) /\ UNCHANGED cutoff
     ELSE /\ cutoff' = IF at[c] = "write" THEN cutoff \cup {held[c]} ELSE cutoff
          /\ UNCHANGED processes /\ NoTrap
  /\ UNCHANGED <<scene, role, held, catalog>>

lis(c) ==
  \/ Check(c) \/ lis_db_engine_ensure(c) \/ Launch(c) \/ WritePid(c)
  \/ Find(c) \/ Kill(c) \/ Remove(c)

Process(p) == Bind(p) \/ Terminate(p)

Next ==
  \/ \E c \in Commands : Begin(c) \/ lis(c) \/ ScriptDies(c)
  \/ \E p \in Pids : Process(p) \/ Interrupt(p) \/ Die(p)

Spec == Init /\ [][Next]_vars

\* The shell and the kernel go on; nobody has to give a command.
FairSpec ==
  /\ Spec
  /\ \A c \in Commands : WF_vars(lis(c))
  /\ \A p \in Pids : WF_vars(Process(p))
-----------------------------------------------------------------------------
(* Properties *)

Labels == {"new", "check", "ensure", "launch", "write", "find", "kill", "remove", "done", "dead"}

\* Every variable has its type.
TypeOK ==
  /\ scene \in Scenes
  /\ op \in [Commands -> Ops \cup {"none"}] /\ at \in [Commands -> Labels]
  /\ role \in [Commands -> Roles] /\ held \in [Commands -> Pids \cup {NoPid}]
  /\ proc \in [Pids -> Roles \cup {"unused", "ended"}]
  /\ fore \subseteq Live /\ dying \subseteq Live /\ bound \subseteq Live
  /\ pidfile \in [Roles -> Pids \cup {NoPid}]
  /\ ready \in BOOLEAN /\ catalog \in BOOLEAN
  /\ deaths \in 0..MaxDeaths
  /\ cutoff \subseteq Pids /\ robbed \subseteq Pids /\ trapped \in BOOLEAN

\* The processes no pid file can name any more.
Strays == cutoff \cup robbed

(***************************************************************************)
(* Between commands given one at a time, every process of the stack that   *)
(* is not ending is the one its pid file names, whatever died meanwhile,   *)
(* so that status tells the truth about it; and lis-db.pid exists, so that *)
(* a stop does not take the stack for stopped, unless the trap of a        *)
(* supervisor in the foreground has removed it since.  The exceptions are  *)
(* the strays: what a start had begun when it died before it wrote the     *)
(* pid, and a supervisor whose pid file the trap of an earlier one has     *)
(* removed, which does not happen where what was killed is given time to   *)
(* end.                                                                    *)
(***************************************************************************)
NoOrphan ==
  scene # "rough" /\ Busy = {} =>
    /\ \A p \in Live \ (dying \cup Strays) :
         pidfile[proc[p]] = p /\ (pidfile["sup"] # NoPid \/ trapped)
    /\ scene = "settled" => robbed = {}

(***************************************************************************)
(* But for the strays no role is played twice; if what a stop killed is    *)
(* given time to end before the next command, not even by a process that   *)
(* is ending, so that no server finds its port taken by another of its     *)
(* stack.                                                                  *)
(***************************************************************************)
OneStack ==
  /\ scene = "settled" => \A p, q \in Live \ Strays : proc[p] = proc[q] => p = q
  /\ scene = "prompt" => \A p, q \in Live \ (dying \cup Strays) : proc[p] = proc[q] => p = q

(***************************************************************************)
(* A stop that has found lis-db.pid, or comes when no trap has removed it, *)
(* ends all that starts have begun, a registry whose supervisor has died   *)
(* before it included: all but the strays, unless its script dies.         *)
(***************************************************************************)
StackEnds ==
  \A c \in Commands :
    /\ scene = "prompt"
    /\ at[c] = "kill" \/ (at[c] = "find" /\ fore = {} /\ ~trapped)
    ~> \/ Live \subseteq Strays
       \/ at[c] = "dead"
       \/ \E d \in Commands : d > c /\ at[d] # "new"
=============================================================================
