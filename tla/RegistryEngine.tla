--------------------------- MODULE RegistryEngine ---------------------------
(***************************************************************************)
(* The registry on lidb (routes/registry/liorm_store.py, plans.py,         *)
(* lidb_import.py), the default: before it asks the store that Registry    *)
(* models, every operation runs a plan in the engine, and a read answers   *)
(* with the engine's rows if the engine is ready and has any.  Also the    *)
(* listing of packages, which takes several steps beside the others.       *)
(***************************************************************************)
EXTENDS Registry

CONSTANTS
  Modes,     (* per load, the modes met: "mock" (LI_REGISTRY_MOCK=1),       *)
             (* "missing" (no lidb checkout), "stub" (plans run, no engine  *)
             (* behind them), "ready" (embedded engine)                     *)
  MaxLists   (* bound, per load: listings asked for                         *)

ASSUME EngineAssumption ==
  /\ Modes \in [Loads -> SUBSET {"mock", "missing", "stub", "ready"}]
  /\ MaxLists \in [Loads -> Nat]

VARIABLES
  mode,
  plans,     \* _PLANS_READY
  engine,    \* rows of package_versions: [key, digest]
  planned,   \* the requests whose plan has run
  shown,     \* the digests a request was answered with
  list,      \* the listing under way: its step, what it collected, what it left
             \* out, and what clients had been told when it began
  lists

engineVars == <<mode, plans, engine, planned, shown>>
listVars == <<list, lists>>
allVars == <<vars, engineVars, listVars>>

NoList == [at |-> "none", collected |-> {}, hidden |-> {}, published |-> {}, yanked |-> {}]

EngineInit ==
  /\ Init
  /\ mode \in Modes[load]
  /\ plans = FALSE
  /\ engine = {} /\ planned = {}
  /\ shown = [r \in Requests |-> {}]
  /\ list = NoList /\ lists = 0

OnEngine == mode \in {"stub", "ready"}

import_liorm == mode # "missing"

\* Before the store is opened.  Without a checkout the request raises.
ensure_registry_plans(r) ==
  /\ At(r, "open") /\ mode # "mock" /\ ~plans
  /\ IF import_liorm THEN plans' = TRUE /\ UNCHANGED <<pc, answer>>
                     ELSE Finish(r, "dropped") /\ UNCHANGED plans
  /\ UNCHANGED <<load, call, _store, mem, local, fileVars, outcome, crashes>>
  /\ UNCHANGED <<mode, engine, planned, shown, listVars>>

open_liorm_store(r) ==
  /\ mode = "mock" \/ plans
  /\ _load(r)
  /\ UNCHANGED <<engineVars, listVars>>

Row(r) == [key |-> call[r].key, digest |-> call[r].digest]

\* What a plan does in the engine: only a publish inserts what a later plan may
\* return.  The yank inserts a row for a version that is a constant.
Executed(r) ==
  engine' = IF mode = "ready" /\ call[r].op = "publish" THEN engine \cup {Row(r)} ELSE engine

\* It may raise, before or after the engine has run it: the client gets an
\* error or no answer, and is told nothing either way.
_run_plan(r) ==
  /\ pc[r] \in {"publish", "yank", "get"} /\ OnEngine /\ r \notin planned
  /\ \/ Executed(r) /\ planned' = planned \cup {r} /\ UNCHANGED <<pc, answer>>
     \/ (Executed(r) \/ UNCHANGED engine) /\ Finish(r, "dropped") /\ UNCHANGED planned
  /\ UNCHANGED <<load, call, _store, mem, local, fileVars, outcome, crashes>>
  /\ UNCHANGED <<mode, plans, shown, listVars>>

Planned(r) == OnEngine => r \in planned

\* The rows a plan returned: of the engine, or what a stub makes up.
PlanRows(r) ==
  IF mode = "ready" THEN {row \in engine : row.key = call[r].key} ELSE {Row(r)}

\* Mutant: the rows of a stub are taken for the engine's.
_engine_ready_always == OnEngine

_engine_ready == mode = "ready"

\* The rows are joined with packages, where lis inserts nothing: lidb may know
\* the package or not.
NativeGet(r) ==
  /\ At(r, "get") /\ OnEngine /\ r \in planned /\ _engine_ready
  /\ \E row \in PlanRows(r) : shown' = [shown EXCEPT ![r] = {row.digest}]
  /\ Decide(r, "found") /\ Finish(r, "sent")
  /\ UNCHANGED <<load, call, _store, mem, local, fileVars, crashes>>
  /\ UNCHANGED <<mode, plans, engine, planned, listVars>>

BackingGet(r) ==
  /\ Planned(r)
  /\ get_package_version(r)
  /\ shown' = [shown EXCEPT ![r] = IF outcome'[r] = "found" THEN {Entry(r).digest} ELSE {}]
  /\ UNCHANGED <<mode, plans, engine, planned, listVars>>

-----------------------------------------------------------------------------
(* GET /v1/packages: the versions are copied, then those yanked left out.   *)

ToldKeys(result) == {call[r].key : r \in {r \in Requests : Told(r, result)}}

ListCollect ==
  /\ lists < MaxLists[load] /\ lists' = lists + 1
  /\ list.at = "none" /\ _store # NoStore
  /\ list' = [at |-> "filter", collected |-> {k \in Keys : mem[_store][k] # Absent},
              hidden |-> {}, published |-> ToldKeys("published"), yanked |-> ToldKeys("yanked")]
  /\ UNCHANGED <<vars, engineVars>>

\* Mutant: yanked versions are listed.
ListFilterNone ==
  /\ list.at = "filter"
  /\ list' = [list EXCEPT !.at = "done"]
  /\ UNCHANGED <<vars, engineVars, lists>>

ListFilter ==
  /\ list.at = "filter"
  /\ list' = [list EXCEPT !.at = "done",
                          !.hidden = {k \in list.collected : mem[_store][k].yanked}]
  /\ UNCHANGED <<vars, engineVars, lists>>

-----------------------------------------------------------------------------
EngineCrash ==
  /\ Crash
  /\ plans' = FALSE /\ list' = NoList
  /\ UNCHANGED <<mode, engine, planned, shown, lists>>

Rest == UNCHANGED <<engineVars, listVars>>

EngineNext ==
  \/ \E r \in Requests : Arrive(r) /\ Rest
  \/ \E r \in Requests : get_registry_store(r) /\ Rest
  \/ \E r \in Requests : ensure_registry_plans(r)
  \/ \E r \in Requests : open_liorm_store(r)
  \/ \E r \in Requests : SetStore(r) /\ Rest
  \/ \E r \in Requests : _run_plan(r)
  \/ \E r \in Requests : Reject(r) /\ Rest
  \/ \E r \in Requests : Planned(r) /\ PublishCheck(r) /\ Rest
  \/ \E r \in Requests : PublishInsert(r) /\ Rest
  \/ \E r \in Requests : Planned(r) /\ YankCheck(r) /\ Rest
  \/ \E r \in Requests : YankMark(r) /\ Rest
  \/ \E r \in Requests : NativeGet(r)
  \/ \E r \in Requests : BackingGet(r)
  \/ \E r \in Requests : SaveIterate(r) /\ Rest
  \/ \E r \in Requests : SaveCollect(r) /\ Rest
  \/ \E r \in Requests : SaveTruncate(r) /\ Rest
  \/ \E r \in Requests : SaveWrite(r) /\ Rest
  \/ ListCollect \/ ListFilter
  \/ EngineCrash

EngineSpec == EngineInit /\ [][EngineNext]_allVars
-----------------------------------------------------------------------------
(* Properties *)

(***************************************************************************)
(* Whatever the engine does meanwhile, a version whose publication was     *)
(* answered is never answered 404 again, by this server or one that was    *)
(* started after a kill.                                                   *)
(***************************************************************************)
PublishedIsFound ==
  [][load # "any" =>
       \A r \in Requests :
         outcome'[r] = "not_found" /\ outcome[r] = "none" =>
           call[r].key \notin ToldKeys("published")]_outcome

\* What a plan has, or may have, inserted: it ran, or raised.
MayHaveRun(q) == call[q].op = "publish" /\ (q \in planned \/ pc[q] = "done")

(***************************************************************************)
(* A client is shown, for a version, the digest of a publish of that       *)
(* version that was accepted, or the demo's, in every mode; only an engine *)
(* that answers reads itself also shows that of one that was refused or    *)
(* never answered, once its plan may have run: never a row of another      *)
(* version, what a stub makes up, or what nobody has asked to publish.     *)
(***************************************************************************)
ShownIsAsked ==
  \A r \in Requests : \A digest \in shown[r] :
    \/ call[r].key = DemoKey /\ digest = DemoDigest
    \/ \E q \in Requests :
         /\ call[q].key = call[r].key /\ call[q].digest = digest
         /\ outcome[q] = "published" \/ (mode = "ready" /\ MayHaveRun(q))

(***************************************************************************)
(* A listing has every version whose publication was answered before it    *)
(* began, unless it leaves it out as yanked, which somebody asked for; and *)
(* no version whose yank was answered before it began.                     *)
(***************************************************************************)
ListingIsTrue ==
  load # "any" /\ mode # "ready" /\ list.at = "done" =>
    /\ list.published \subseteq list.collected
    /\ list.yanked \subseteq list.hidden
    /\ \A k \in list.hidden : \E r \in Requests : call[r].op = "yank" /\ call[r].key = k
=============================================================================
