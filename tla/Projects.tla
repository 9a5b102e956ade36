------------------------------ MODULE Projects ------------------------------
(***************************************************************************)
(* The project store of Data Studio (data-studio-ui/lib/projects-store.ts  *)
(* and the routes that use it).  Every request reads the whole JSON file,  *)
(* changes its copy and writes the whole file back, with awaits between    *)
(* these steps, and without a lock: the event loop runs other requests     *)
(* meanwhile, and a file that cannot be parsed reads as an empty store.    *)
(*                                                                         *)
(* A project is named by the request that created it: ids are fresh UUIDs. *)
(* A block of 20 ports is counted as one: block n is 55000 + 20 n.  The    *)
(* command that launches a database is only waited for.                    *)
(***************************************************************************)
EXTENDS Naturals, FiniteSets

CONSTANTS
  Requests,    (* each is made at most once                                 *)
  Calls,       (* what clients ask for: [op, id]                            *)
  LongNamed,   (* the projects with a name longer than those of the others  *)
  NoBlock,     (* of a project that is not in a store                       *)
  Loads,       (* how requests overlap: see MayRead                         *)
  MaxCrashes   (* bound, per load: times Studio is killed and restarted     *)

ASSUME ProjectsAssumption ==
  /\ NoBlock \notin Nat
  /\ IsFiniteSet(Requests) /\ LongNamed \subseteq Requests
  /\ Calls \subseteq [op : {"create", "launch", "get"}, id : Requests]
  /\ Loads \subseteq {"apart", "any"}
  /\ MaxCrashes \in [Loads -> Nat]

VARIABLES
  load,     \* the load of this behaviour
  pc,       \* request: "new", then where it is, then "done"
  call,     \* what it asks for
  copy,     \* the store it read, changed by it
  result,   \* launch: the status it will record
  file,     \* projects.json: "torn" (missing or not JSON), "whole"
  disk,     \* what a whole file says
  length,   \* how long the file is
  answer,   \* what its client got
  told,     \* create: the block of ports its client was told
  crashes

fileVars == <<file, disk, length>>
vars == <<load, pc, call, copy, result, fileVars, answer, told, crashes>>

\* A store: the next block of ports, and each project's block and status.
defaultStore ==
  [next |-> 0, block |-> [p \in Requests |-> NoBlock],
   status |-> [p \in Requests |-> "stopped"]]

Init ==
  /\ load \in Loads
  /\ pc = [r \in Requests |-> "new"]
  /\ call \in [Requests -> Calls]
  /\ copy = [r \in Requests |-> defaultStore]
  /\ result = [r \in Requests |-> "unknown"]
  /\ file = "torn" /\ disk = defaultStore /\ length = 0
  /\ answer = [r \in Requests |-> "none"]
  /\ told = [r \in Requests |-> NoBlock]
  /\ crashes = 0

InFlight == {r \in Requests : pc[r] \notin {"new", "done"}}
At(r, label) == pc[r] = label
Goto(r, label) == pc' = [pc EXCEPT ![r] = label]
Finish(r, text) ==
  /\ Goto(r, "done")
  /\ answer' = [answer EXCEPT ![r] = text]

\* Those that have read the store and are to write it back.
Writers == {r \in Requests : pc[r] \in {"truncate", "write"}}

\* Two loads.  "any": requests overlap at every await.  "apart": they overlap as
\* well, a launch runs beside anything, but the store is not read between another
\* request's reading it and writing it back.
MayRead == load = "apart" => Writers = {}

Has(store, p) == store.block[p] # NoBlock

\* JSON.parse throws on what is not JSON, the empty file included.
readStore == IF file = "whole" THEN disk ELSE defaultStore

\* The longer text has more projects or longer names; every status has seven
\* letters.
TextLength(store) ==
  2 * Cardinality({p \in Requests : Has(store, p)})
  + Cardinality({p \in LongNamed : Has(store, p)})

-----------------------------------------------------------------------------
Arrive(r) ==
  /\ At(r, "new")
  /\ Goto(r, call[r].op)
  /\ UNCHANGED <<load, call, copy, result, fileVars, answer, told, crashes>>

\* Mutant: the next project gets the same ports.
allocateAgain(store, p) == [store EXCEPT !.block[p] = store.next]

\* The store with a project more.
allocatePorts(store, p) ==
  [next |-> store.next + 1, block |-> [store.block EXCEPT ![p] = store.next],
   status |-> store.status]

\* Mutant: the store is not read before it is written.
createUnread(r) ==
  /\ At(r, "create")
  /\ copy' = [copy EXCEPT ![r] = allocatePorts(defaultStore, r)]
  /\ told' = [told EXCEPT ![r] = defaultStore.next]
  /\ Goto(r, "truncate")
  /\ UNCHANGED <<load, call, result, fileVars, answer, crashes>>

createProject(r) ==
  /\ At(r, "create")
  /\ copy' = [copy EXCEPT ![r] = allocatePorts(readStore, r)]
  /\ told' = [told EXCEPT ![r] = readStore.next]
  /\ Goto(r, "truncate")
  /\ UNCHANGED <<load, call, result, fileVars, answer, crashes>>

getProject(r) ==
  /\ pc[r] \in {"get", "launch"}
  /\ IF Has(readStore, call[r].id)
     THEN IF At(r, "get") THEN Finish(r, "found")
                          ELSE Goto(r, "launching") /\ UNCHANGED answer
     ELSE Finish(r, "missing")
  /\ UNCHANGED <<load, call, copy, result, fileVars, told, crashes>>

\* Mutant: what the probe found is recorded as it is.
LaunchedDegraded(r) ==
  /\ At(r, "launching")
  /\ \E status \in {"running", "degraded"} : result' = [result EXCEPT ![r] = status]
  /\ Goto(r, "update")
  /\ UNCHANGED <<load, call, copy, fileVars, answer, told, crashes>>

\* `lis db start` and the probe have ended, well or not.
Launched(r) ==
  /\ At(r, "launching")
  /\ \E status \in {"running", "unknown"} : result' = [result EXCEPT ![r] = status]
  /\ Goto(r, "update")
  /\ UNCHANGED <<load, call, copy, fileVars, answer, told, crashes>>

\* Mutant: a project gets new ports when it is launched.
updateReallocates(r) ==
  /\ At(r, "update")
  /\ IF Has(readStore, call[r].id)
     THEN /\ copy' = [copy EXCEPT ![r] = allocatePorts(readStore, call[r].id)]
          /\ Goto(r, "truncate")
          /\ UNCHANGED answer
     ELSE Finish(r, result[r]) /\ UNCHANGED copy
  /\ UNCHANGED <<load, call, result, fileVars, told, crashes>>

\* A project that has gone meanwhile is not written; nobody looks at the null.
updateProject(r) ==
  /\ At(r, "update")
  /\ IF Has(readStore, call[r].id)
     THEN /\ copy' = [copy EXCEPT ![r] =
               [readStore EXCEPT !.status[call[r].id] = result[r]]]
          /\ Goto(r, "truncate")
          /\ UNCHANGED answer
     ELSE Finish(r, result[r]) /\ UNCHANGED copy
  /\ UNCHANGED <<load, call, result, fileVars, told, crashes>>

(* writeStore: writeFile opens the file with "w", then writes the text.     *)
Truncate(r) ==
  /\ At(r, "truncate")
  /\ file' = "torn" /\ length' = 0
  /\ Goto(r, "write")
  /\ UNCHANGED <<load, call, copy, result, disk, answer, told, crashes>>

\* The text goes to the start of the file; what a longer text of another
\* request left behind it stays.
Write(r) ==
  /\ At(r, "write")
  /\ IF length > TextLength(copy[r])
     THEN file' = "torn" /\ UNCHANGED <<disk, length>>
     ELSE file' = "whole" /\ disk' = copy[r] /\ length' = TextLength(copy[r])
  /\ Finish(r, IF call[r].op = "create" THEN "created" ELSE result[r])
  /\ UNCHANGED <<load, call, copy, result, told, crashes>>

-----------------------------------------------------------------------------
\* The process ends; the next one has the file and nothing else.
Crash ==
  /\ crashes < MaxCrashes[load]
  /\ crashes' = crashes + 1
  /\ pc' = [r \in Requests |-> IF r \in InFlight THEN "done" ELSE pc[r]]
  /\ answer' = [r \in Requests |-> IF r \in InFlight THEN "dropped" ELSE answer[r]]
  /\ UNCHANGED <<load, call, copy, result, fileVars, told>>

Handle(r) ==
  \/ MayRead /\ (createProject(r) \/ getProject(r) \/ updateProject(r))
  \/ Arrive(r) \/ Launched(r) \/ Truncate(r) \/ Write(r)

Next == (\E r \in Requests : Handle(r)) \/ Crash

Spec == Init /\ [][Next]_vars
-----------------------------------------------------------------------------
(* Properties *)

Statuses == {"stopped", "running", "unknown"}
Stores ==
  [next : Nat, block : [Requests -> Nat \cup {NoBlock}], status : [Requests -> Statuses]]

\* Every variable has its type.
TypeOK ==
  /\ load \in Loads
  /\ pc \in [Requests -> {"new", "create", "get", "launch", "launching", "update",
                          "truncate", "write", "done"}]
  /\ call \in [Requests -> Calls]
  /\ copy \in [Requests -> Stores]
  /\ result \in [Requests -> {"running", "unknown"}]
  /\ file \in {"torn", "whole"} /\ disk \in Stores /\ length \in Nat
  /\ answer \in [Requests -> {"none", "created", "found", "missing", "running",
                              "unknown", "dropped"}]
  /\ told \in [Requests -> Nat \cup {NoBlock}]
  /\ crashes \in Nat

\* No two projects of a store share ports, and the next project will not either.
Disjoint(store) ==
  \A p \in Requests : Has(store, p) =>
    /\ store.block[p] < store.next
    /\ \A q \in Requests \ {p} : store.block[q] # store.block[p]

\* README.md:21 of Data Studio within one store: however requests overlap and
\* whenever Studio is killed, the projects of a store have ports of their own.
DisjointStores == Disjoint(disk) /\ \A r \in Requests : Disjoint(copy[r])

\* The ports of a project never change: wherever it is stored, it has those that
\* its client was told, although every request writes all projects.
PortsFixed ==
  \A p \in Requests : \A store \in {disk} \cup {copy[r] : r \in Requests} :
    Has(store, p) => store.block[p] = told[p]

\* Requests that keep apart lose nothing, although a launch records its status two
\* minutes after it has looked the project up and writes all projects: a project
\* whose client was told of it is in the file, with a status that a launch of it
\* reported, or "stopped" if none did.
Kept ==
  load = "apart" /\ Writers = {} =>
    \A p \in Requests : answer[p] = "created" =>
      /\ file = "whole" /\ Has(disk, p)
      /\ \/ disk.status[p] = "stopped" /\ \A r \in Requests :
              answer[r] \in {"running", "unknown"} => call[r].id # p
         \/ \E r \in Requests : call[r].id = p /\ answer[r] = disk.status[p]

\* README.md:21 of Data Studio, for requests that keep apart: each project gets
\* dedicated ports.  (Two projects that are created at once get the same, and one
\* of them is not stored.)
DedicatedPorts ==
  load = "apart" =>
    \A p, q \in Requests :
      p # q /\ answer[p] = "created" /\ answer[q] = "created" => told[p] # told[q]
=============================================================================
