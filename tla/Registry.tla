------------------------------ MODULE Registry ------------------------------
(***************************************************************************)
(* The package registry: a ThreadingHTTPServer runs handle_request in a    *)
(* thread per request, without a lock.  The store is opened by the first   *)
(* request; it keeps the versions in a dict and rewrites one JSON file     *)
(* after every change (routes/registry/handlers.py, store.py,              *)
(* liorm_mock.py).  A thread may lose the interpreter between any two      *)
(* steps.                                                                  *)
(*                                                                         *)
(* mem[r] is the dict of the store object request r opened, _store the     *)
(* store that get_registry_store returns.  In mock mode liorm_mock holds a *)
(* second such global, filled the same way; one is modelled.  The plans a  *)
(* LiormRegistryStore runs first are the engine's business and are not.    *)
(***************************************************************************)
EXTENDS Naturals, FiniteSets

CONSTANTS
  Requests,    (* each is made at most once                                 *)
  Keys,        (* (name, version)                                           *)
  Digests,
  DemoKey,     (* the version _seed_demo puts into a registry without file  *)
  DemoDigest,
  Absent,      (* no entry in a dict                                        *)
  NoStore,     (* _store is None                                            *)
  Calls,       (* what clients ask for: [op, key, digest, valid]            *)
  Loads,       (* how clients behave: see Arrive                            *)
  MaxCrashes   (* bound, per load: times the server is killed and restarted *)

ASSUME RegistryAssumption ==
  /\ DemoKey \in Keys /\ DemoDigest \in Digests
  /\ NoStore \notin Requests /\ IsFiniteSet(Keys)
  /\ Absent \notin [digest : Digests, yanked : BOOLEAN]
  /\ Absent \notin [digest : Digests, yanked : BOOLEAN, by : Requests \cup {NoStore}]
  /\ Calls \subseteq [op : {"publish", "yank", "get"}, key : Keys, digest : Digests,
                    valid : BOOLEAN]
  /\ \A c \in Calls : c.op = "get" => c.valid
  /\ Loads \subseteq {"serial", "spread", "any"}
  /\ MaxCrashes \in [Loads -> Nat]

VARIABLES
  load,     \* the load of this behaviour
  pc,       \* request: "new", then where its thread is, then "done"
  call,     \* what it asks for
  _store,   \* the store requests use: the request that opened it, or NoStore
  mem,      \* the versions of each store: Absent or [digest, yanked, by]
  st,       \* the store a request uses
  seen,     \* yank: the object it looked up
  rows,     \* _save: the rows it collects
  file,     \* registry-mock.json: "none", "torn" (not JSON), "whole"
  disk,     \* what a whole file says
  length,   \* how long the file is
  outcome,  \* what a request was decided to be, when it took effect
  answer,   \* what its client got: "none", "sent", "dropped" (connection lost)
  crashes

local == <<st, seen, rows>>
fileVars == <<file, disk, length>>
vars == <<load, pc, call, _store, mem, local, fileVars, outcome, answer, crashes>>

Nothing == [k \in Keys |-> Absent]
Seed ==
  [k \in Keys |-> IF k = DemoKey
                  THEN [digest |-> DemoDigest, yanked |-> FALSE, by |-> NoStore]
                  ELSE Absent]

Init ==
  /\ load \in Loads
  /\ pc = [r \in Requests |-> "new"]
  /\ call \in [Requests -> Calls]
  /\ _store = NoStore
  /\ mem = [r \in Requests |-> Nothing]
  /\ st = [r \in Requests |-> NoStore]
  /\ seen = [r \in Requests |-> Absent]
  /\ rows = [r \in Requests |-> Nothing]
  /\ file = "none" /\ disk = Nothing /\ length = 0
  /\ outcome = [r \in Requests |-> "none"]
  /\ answer = [r \in Requests |-> "none"]
  /\ crashes = 0

Idle == {"new", "done"}
InFlight == {r \in Requests : pc[r] \notin Idle}
Writes(r) == call[r].op \in {"publish", "yank"} /\ call[r].valid

At(r, label) == pc[r] = label
Goto(r, label) == pc' = [pc EXCEPT ![r] = label]
Decide(r, result) == outcome' = [outcome EXCEPT ![r] = result]

\* The thread ends: its answer is on the way, or the exception closed the
\* connection.
Finish(r, result) ==
  /\ Goto(r, "done")
  /\ answer' = [answer EXCEPT ![r] = result]

-----------------------------------------------------------------------------
(* "serial": nothing arrives while a request is being handled.  "spread":   *)
(* nothing arrives while a first request opens the store, and no two        *)
(* requests change one version at once.  "any": everything may.             *)
Arrive(r) ==
  /\ At(r, "new")
  /\ load = "serial" => InFlight = {}
  /\ load = "spread" =>
       /\ _store = NoStore => InFlight = {}
       /\ Writes(r) => \A q \in InFlight : Writes(q) => call[q].key # call[r].key
  /\ Goto(r, "store")
  /\ UNCHANGED <<load, call, _store, mem, local, fileVars, outcome, answer, crashes>>

get_registry_store(r) ==
  /\ At(r, "store")
  /\ IF _store = NoStore
     THEN Goto(r, "open") /\ UNCHANGED st
     ELSE Goto(r, call[r].op) /\ st' = [st EXCEPT ![r] = _store]
  /\ UNCHANGED <<load, call, _store, mem, seen, rows, fileVars, outcome, answer, crashes>>

\* Mutant: the registry is seeded whether or not it has a file.
LoadAlwaysSeeds(r) ==
  /\ At(r, "open")
  /\ st' = [st EXCEPT ![r] = r]
  /\ mem' = [mem EXCEPT ![r] = Seed]
  /\ Goto(r, "save")
  /\ UNCHANGED <<load, call, _store, seen, rows, fileVars, outcome, answer, crashes>>

\* MockRegistryStore.open: a new store, loaded or, without a file, seeded.
_load(r) ==
  /\ At(r, "open")
  /\ st' = [st EXCEPT ![r] = r]
  /\ \/ /\ file = "none"
        /\ mem' = [mem EXCEPT ![r] = Seed]
        /\ Goto(r, "save")
        /\ UNCHANGED answer
     \/ /\ file = "whole"
        /\ mem' = [mem EXCEPT ![r] = disk]
        /\ Goto(r, "opened")
        /\ UNCHANGED answer
     \/ /\ file = "torn"
        /\ Finish(r, "dropped")
        /\ UNCHANGED mem
  /\ UNCHANGED <<load, call, _store, seen, rows, fileVars, outcome, crashes>>

\* The global is assigned, and read again to be returned.
SetStore(r) ==
  /\ At(r, "opened")
  /\ _store' = r
  /\ Goto(r, "store")
  /\ UNCHANGED <<load, call, mem, local, fileVars, outcome, answer, crashes>>

-----------------------------------------------------------------------------
Entry(r) == mem[st[r]][call[r].key]

\* No token, a missing field, too little coverage: nothing is touched.  A coverage
\* that is no number raises ValueError, which answers nothing.
Reject(r) ==
  /\ pc[r] \in {"publish", "yank"} /\ ~call[r].valid
  /\ Decide(r, "rejected")
  /\ Finish(r, "sent") \/ (At(r, "publish") /\ Finish(r, "dropped"))
  /\ UNCHANGED <<load, call, _store, mem, local, fileVars, crashes>>

\* Mutant: the digests are not compared.
PublishAnyDigest(r) ==
  /\ At(r, "publish") /\ call[r].valid
  /\ IF Entry(r) = Absent
     THEN Goto(r, "insert") /\ UNCHANGED <<outcome, answer>>
     ELSE Decide(r, "published") /\ Finish(r, "sent")
  /\ UNCHANGED <<load, call, _store, mem, local, fileVars, crashes>>

\* `if key in self.versions`
PublishCheck(r) ==
  /\ At(r, "publish") /\ call[r].valid
  /\ IF Entry(r) = Absent
     THEN Goto(r, "insert") /\ UNCHANGED <<outcome, answer>>
     ELSE /\ Decide(r, IF Entry(r).digest = call[r].digest THEN "published" ELSE "conflict")
          /\ Finish(r, "sent")
  /\ UNCHANGED <<load, call, _store, mem, local, fileVars, crashes>>

\* Mutant: the version is stored without its tree_digest.
InsertNoDigest(r) ==
  /\ At(r, "insert")
  /\ mem' = [mem EXCEPT ![st[r]][call[r].key] =
       [digest |-> Absent, yanked |-> FALSE, by |-> r]]
  /\ Decide(r, "published")
  /\ Goto(r, "save")
  /\ UNCHANGED <<load, call, _store, local, fileVars, answer, crashes>>

PublishInsert(r) ==
  /\ At(r, "insert")
  /\ mem' = [mem EXCEPT ![st[r]][call[r].key] =
       [digest |-> call[r].digest, yanked |-> FALSE, by |-> r]]
  /\ Decide(r, "published")
  /\ Goto(r, "save")
  /\ UNCHANGED <<load, call, _store, local, fileVars, answer, crashes>>

YankCheck(r) ==
  /\ At(r, "yank") /\ call[r].valid
  /\ IF Entry(r) # Absent /\ ~Entry(r).yanked
     THEN /\ seen' = [seen EXCEPT ![r] = Entry(r)]
          /\ Goto(r, "mark")
          /\ UNCHANGED <<outcome, answer>>
     ELSE /\ Decide(r, IF Entry(r) = Absent THEN "not_found" ELSE "conflict")
          /\ Finish(r, "sent")
          /\ UNCHANGED seen
  /\ UNCHANGED <<load, call, _store, mem, st, rows, fileVars, crashes>>

\* The object that was looked up is marked, in the dict still or not.
YankMark(r) ==
  /\ At(r, "mark")
  /\ mem' = IF Entry(r).by = seen[r].by
            THEN [mem EXCEPT ![st[r]][call[r].key].yanked = TRUE] ELSE mem
  /\ Decide(r, "yanked")
  /\ Goto(r, "save")
  /\ UNCHANGED <<load, call, _store, local, fileVars, answer, crashes>>

\* Mutant: a yanked version is returned like any other.
GetYankedToo(r) ==
  /\ At(r, "get")
  /\ Decide(r, IF Entry(r) = Absent THEN "not_found" ELSE "found")
  /\ Finish(r, "sent")
  /\ UNCHANGED <<load, call, _store, mem, local, fileVars, crashes>>

get_package_version(r) ==
  /\ At(r, "get")
  /\ Decide(r, IF Entry(r) = Absent THEN "not_found"
               ELSE IF Entry(r).yanked THEN "gone" ELSE "found")
  /\ Finish(r, "sent")
  /\ UNCHANGED <<load, call, _store, mem, local, fileVars, crashes>>

-----------------------------------------------------------------------------
(* _save: the dict is iterated, the file opened with "w", the text written. *)

Count(versions) == Cardinality({k \in Keys : versions[k] # Absent})

\* A longer dict makes a longer text, and so does a reason to yank.
TextLength(versions) ==
  2 * Count(versions)
  + Cardinality({k \in Keys : versions[k] # Absent /\ versions[k].yanked})

SaveIterate(r) ==
  /\ At(r, "save")
  /\ rows' = [rows EXCEPT ![r] = mem[st[r]]]
  /\ Goto(r, "collect")
  /\ UNCHANGED <<load, call, _store, mem, st, seen, fileVars, outcome, answer, crashes>>

\* A row says what its object was when the loop came by.  A new key is a
\* RuntimeError: dictionary changed size during iteration.
SaveCollect(r) ==
  /\ At(r, "collect")
  /\ IF Count(mem[st[r]]) = Count(rows[r])
     THEN /\ \E early \in SUBSET Keys :
               rows' = [rows EXCEPT ![r] =
                 [k \in Keys |-> IF k \in early THEN @[k] ELSE mem[st[r]][k]]]
          /\ Goto(r, "truncate")
          /\ UNCHANGED answer
     ELSE Finish(r, "dropped") /\ UNCHANGED rows
  /\ UNCHANGED <<load, call, _store, mem, st, seen, fileVars, outcome, crashes>>

SaveTruncate(r) ==
  /\ At(r, "truncate")
  /\ file' = "torn" /\ disk' = Nothing /\ length' = 0
  /\ Goto(r, "write")
  /\ UNCHANGED <<load, call, _store, mem, local, outcome, answer, crashes>>

\* The text goes to the start of the file; what a longer text of another thread
\* left behind it stays.
SaveWrite(r) ==
  /\ At(r, "write")
  /\ IF length > TextLength(rows[r])
     THEN file' = "torn" /\ UNCHANGED <<disk, length>>
     ELSE file' = "whole" /\ disk' = rows[r] /\ length' = TextLength(rows[r])
  /\ IF outcome[r] = "none" THEN Goto(r, "opened") /\ UNCHANGED answer
                            ELSE Finish(r, "sent")
  /\ UNCHANGED <<load, call, _store, mem, local, outcome, crashes>>

-----------------------------------------------------------------------------
\* The process is killed; the next one has the file and nothing else.
Crash ==
  /\ crashes < MaxCrashes[load]
  /\ crashes' = crashes + 1
  /\ _store' = NoStore
  /\ pc' = [r \in Requests |-> IF r \in InFlight THEN "done" ELSE pc[r]]
  /\ answer' = [r \in Requests |-> IF r \in InFlight THEN "dropped" ELSE answer[r]]
  /\ UNCHANGED <<load, call, mem, local, fileVars, outcome>>

Handle(r) ==
  \/ get_registry_store(r) \/ _load(r) \/ SetStore(r)
  \/ Reject(r) \/ PublishCheck(r) \/ PublishInsert(r)
  \/ YankCheck(r) \/ YankMark(r) \/ get_package_version(r)
  \/ SaveIterate(r) \/ SaveCollect(r) \/ SaveTruncate(r) \/ SaveWrite(r)

Next ==
  \/ \E r \in Requests : Arrive(r) \/ Handle(r)
  \/ Crash

Spec == Init /\ [][Next]_vars
-----------------------------------------------------------------------------
(* Properties *)

Steps == {"new", "store", "open", "opened", "publish", "insert", "yank", "mark",
          "get", "save", "collect", "truncate", "write", "done"}
Outcomes == {"none", "rejected", "published", "conflict", "not_found", "yanked",
             "gone", "found"}
Entries == [digest : Digests, yanked : BOOLEAN, by : Requests \cup {NoStore}]
Versions == [Keys -> Entries \cup {Absent}]

\* Every variable has its type.
TypeOK ==
  /\ load \in Loads
  /\ pc \in [Requests -> Steps]
  /\ call \in [Requests -> Calls]
  /\ _store \in Requests \cup {NoStore}
  /\ mem \in [Requests -> Versions]
  /\ st \in [Requests -> Requests \cup {NoStore}]
  /\ seen \in [Requests -> Entries \cup {Absent}]
  /\ rows \in [Requests -> Versions]
  /\ file \in {"none", "torn", "whole"} /\ disk \in Versions /\ length \in Nat
  /\ outcome \in [Requests -> Outcomes]
  /\ answer \in [Requests -> {"none", "sent", "dropped"}]
  /\ crashes \in Nat

Told(r, result) == answer[r] = "sent" /\ outcome[r] = result

\* What the versions must say for the answer r's client got to be true of them.
Kept(r, versions) ==
  LET entry == versions[call[r].key] IN
  /\ Told(r, "published") => entry # Absent /\ entry.digest = call[r].digest
  /\ Told(r, "yanked") => entry # Absent /\ entry.yanked

\* The store every later request is served from has each version a client was
\* told is published, with the digest it sent, and each yank it was told of.
AckedInMemory ==
  load # "any" /\ _store # NoStore => \A r \in Requests : Kept(r, mem[_store])

\* What a client was told is in the file too, as long as the file is JSON: a
\* server that is started again comes back with it.
Durable ==
  load = "serial" /\ file = "whole" => \A r \in Requests : Kept(r, disk)

Plain(v) == IF v = Absent THEN Absent ELSE [digest |-> v.digest, yanked |-> v.yanked]
Index == INSTANCE PackageIndex WITH
  index <- [k \in Keys |-> Plain(IF _store = NoStore THEN Seed[k] ELSE mem[_store][k])]

\* Until it is killed, the registry answers as an index that handles one request
\* at a time: each is decided at one instant, although its thread takes many
\* steps, if no two change one version at once and nothing arrives while the
\* first request opens the store.
ImplementsPackageIndex ==
  /\ load = "spread" => Index!Init
  /\ [][load = "spread" => Index!Next]_(Index!vars)

\* openapi/registry-v1.yaml: a version that exists with a different tree_digest
\* is a conflict, so that two digests are never both published as one version.
OneDigest ==
  \A q, r \in Requests :
    Told(q, "published") /\ Told(r, "published") /\ call[q].key = call[r].key =>
      call[q].digest = call[r].digest
=============================================================================
