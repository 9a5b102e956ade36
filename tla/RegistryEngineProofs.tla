------------------------ MODULE RegistryEngineProofs ------------------------
(***************************************************************************)
(* The registry on lidb: what RegistryProofs shows of the store holds with *)
(* the engine before it; what a client is shown somebody has asked to      *)
(* publish, and was accepted unless the engine answers reads itself.       *)
(* What clients were told stays true, in the store and in the file, for    *)
(* later requests, for listings and, with kills, for later servers.        *)
(*                                                                         *)
(* A step of RegistryEngine is a step of Registry or one of two others: a  *)
(* plan raises, or a read is answered with the engine's rows.              *)
(***************************************************************************)
EXTENDS RegistryEngine, RegistryProofs

Beside == UNCHANGED <<load, call, _store, mem, local, fileVars, crashes>>

\* A plan raised.
Raised(r) ==
  /\ pc[r] \in {"publish", "yank", "get"} \/ (At(r, "open") /\ mode = "missing")
  /\ Finish(r, "dropped") /\ UNCHANGED outcome /\ Beside

\* The engine has answered.
Answered(r) ==
  At(r, "get") /\ mode = "ready" /\ Decide(r, "found") /\ Finish(r, "sent") /\ Beside

EngineStep(r) == Raised(r) \/ Answered(r)

\* No step of Registry changes the mode or the load.
LEMMA ModeKept == [EngineNext]_allVars => mode' = mode /\ load' = load
<1> SUFFICES ASSUME [EngineNext]_allVars PROVE mode' = mode /\ load' = load OBVIOUS
<1> USE DEF Rest, engineVars, listVars, vars
<1>1. CASE UNCHANGED allVars BY <1>1 DEF allVars
<1>2. ASSUME NEW r \in Requests,
             \/ (Arrive(r) /\ Rest) \/ (get_registry_store(r) /\ Rest)
             \/ (SetStore(r) /\ Rest) \/ (Reject(r) /\ Rest) \/ open_liorm_store(r)
      PROVE  mode' = mode /\ load' = load
  BY <1>2 DEF Arrive, get_registry_store, SetStore, Reject, open_liorm_store, _load
<1>3. ASSUME NEW r \in Requests, ensure_registry_plans(r) \/ _run_plan(r) \/ NativeGet(r) \/ BackingGet(r)
      PROVE  mode' = mode /\ load' = load
  BY <1>3 DEF ensure_registry_plans, _run_plan, NativeGet, BackingGet, get_package_version
<1>4. ASSUME NEW r \in Requests,
             \/ (PublishCheck(r) /\ Rest) \/ (PublishInsert(r) /\ Rest)
             \/ (YankCheck(r) /\ Rest) \/ (YankMark(r) /\ Rest)
      PROVE  mode' = mode /\ load' = load
  BY <1>4 DEF PublishCheck, PublishInsert, YankCheck, YankMark
<1>5. ASSUME NEW r \in Requests,
             \/ (SaveIterate(r) /\ Rest) \/ (SaveCollect(r) /\ Rest)
             \/ (SaveTruncate(r) /\ Rest) \/ (SaveWrite(r) /\ Rest)
      PROVE  mode' = mode /\ load' = load
  BY <1>5 DEF SaveIterate, SaveCollect, SaveTruncate, SaveWrite
<1>6. CASE ListCollect \/ ListFilter BY <1>6 DEF ListCollect, ListFilter
<1>7. CASE EngineCrash BY <1>7 DEF EngineCrash, Crash
<1> QED BY <1>1, <1>2, <1>3, <1>4, <1>5, <1>6, <1>7 DEF EngineNext

\* What a step of the engine is to the store.
LEMMA StepOfStore ==
  ASSUME [EngineNext]_allVars
  PROVE  [Next]_vars \/ \E r \in Requests : EngineStep(r)
<1>1. CASE UNCHANGED allVars BY <1>1 DEF allVars
<1>2. ASSUME NEW r \in Requests, ensure_registry_plans(r)
      PROVE  UNCHANGED vars \/ EngineStep(r)
  BY <1>2 DEF ensure_registry_plans, import_liorm, EngineStep, Raised, Beside, vars
<1>3. ASSUME NEW r \in Requests, _run_plan(r)
      PROVE  UNCHANGED vars \/ EngineStep(r)
  BY <1>3 DEF _run_plan, EngineStep, Raised, Beside, vars
<1>4. ASSUME NEW r \in Requests, NativeGet(r)
      PROVE  EngineStep(r)
  BY <1>4 DEF NativeGet, _engine_ready, EngineStep, Answered, Beside
<1>5. CASE ListCollect \/ ListFilter BY <1>5 DEF ListCollect, ListFilter
<1>6. CASE EngineCrash BY <1>6 DEF EngineCrash, Next
<1>7. ASSUME NEW r \in Requests,
             \/ Arrive(r) \/ get_registry_store(r) \/ open_liorm_store(r) \/ SetStore(r)
             \/ Reject(r) \/ PublishCheck(r) \/ PublishInsert(r)
             \/ YankCheck(r) \/ YankMark(r) \/ BackingGet(r)
             \/ SaveIterate(r) \/ SaveCollect(r) \/ SaveTruncate(r) \/ SaveWrite(r)
      PROVE  Next
  BY <1>7 DEF Next, Handle, open_liorm_store, BackingGet
<1> QED BY <1>1, <1>2, <1>3, <1>4, <1>5, <1>6, <1>7 DEF EngineNext

-----------------------------------------------------------------------------
(* The invariants of the store.                                             *)

\* A request that ends leaves the store as it is.
LEMMA TypeBeside ==
  ASSUME TypeInv, NEW r \in Requests, EngineStep(r)
  PROVE  TypeInv'
<1>1. /\ Goto(r, "done") /\ Beside
      /\ answer' = [answer EXCEPT ![r] = "dropped"] \/ answer' = [answer EXCEPT ![r] = "sent"]
      /\ outcome' = outcome \/ outcome' = [outcome EXCEPT ![r] = "found"]
  BY DEF EngineStep, Raised, Answered, Finish, Decide
<1>2. TypeOK'
  BY <1>1 DEF TypeInv, TypeOK, Goto, Beside, local, fileVars, Steps, Outcomes
<1>3. pc'[r] = "done" /\ \A q \in Requests \ {r} : pc'[q] = pc[q]
  BY <1>1 DEF TypeInv, TypeOK, Goto
<1>4. StoreInHand' BY <1>1, <1>3 DEF TypeInv, StoreInHand, Beside, local
<1>5. Fresh' BY <1>1, <1>3 DEF TypeInv, Fresh, Unused, Beside, local
<1>6. MarkPresent' BY <1>1, <1>3 DEF TypeInv, MarkPresent, At, Entry, Beside, local
<1> QED BY <1>2, <1>4, <1>5, <1>6 DEF TypeInv

\* Every step keeps the types.
LEMMA EngineTypeStep == TypeInv /\ [EngineNext]_allVars => TypeInv'
BY StepOfStore, TypeInvStep, TypeBeside

\* Where lis has its lidb, a plan that raises and an answer of the engine leave
\* requests that overlap as they are.
LEMMA SpreadBeside ==
  ASSUME TypeInv, SpreadInv, NEW r \in Requests, EngineStep(r),
         load = "spread" => mode # "missing"
  PROVE  SpreadInv'
<1> SUFFICES ASSUME load' = "spread" PROVE SpreadInv' BY DEF SpreadInv
<1>1. load = "spread" BY DEF EngineStep, Raised, Answered, Beside
<1>2. /\ pc[r] \in {"publish", "yank", "get"} /\ Goto(r, "done") /\ Beside
      /\ outcome' = outcome \/ outcome' = [outcome EXCEPT ![r] = "found"]
  BY <1>1 DEF EngineStep, Raised, Answered, Finish, Decide, At
<1>3. /\ pc'[r] = "done"
      /\ \A q \in Requests \ {r} : pc'[q] = pc[q] /\ outcome'[q] = outcome[q]
  BY <1>2 DEF TypeInv, TypeOK, Goto
<1>4. _store # NoStore /\ \A q \in Requests : WarmOf(q)
  BY <1>1, <1>2 DEF SpreadInv, Cold, Saving
<1>5. Apart'
  <2>1. InFlight' \subseteq InFlight BY <1>3 DEF InFlight, Idle
  <2> QED BY <1>1, <1>2, <2>1 DEF SpreadInv, Apart, Writes, Beside
<1>6. \A q \in Requests : WarmOf(q)'
  BY <1>2, <1>3, <1>4 DEF WarmOf, Saving, Undecided, Beside, local
<1> QED BY <1>2, <1>4, <1>5, <1>6 DEF SpreadInv, Beside

\* The mode is one that is met under the load.
ModeOK == mode \in Modes[load]

\* Every variable of the store keeps its type, whatever the engine does.
THEOREM EngineTypeCorrect == EngineSpec => []TypeOK
<1>1. EngineInit => TypeInv BY TypeInit DEF EngineInit
<1>2. TypeInv => TypeOK BY DEF TypeInv
<1> QED BY <1>1, <1>2, EngineTypeStep, PTL DEF EngineSpec

-----------------------------------------------------------------------------
(* What clients are shown.                                                  *)

\* A request is decided once.
Once ==
  \A r \in Requests : pc[r] \in Undecided \cup {"open", "opened"} => outcome[r] = "none"

\* The versions with the digests they may have: the demo's, and those of publishes
\* that were accepted.
Sources ==
  {<<DemoKey, DemoDigest>>}
    \cup {<<call[q].key, call[q].digest>> : q \in {q \in Requests : outcome[q] = "published"}}

\* The versions somebody asks to yank.
YankKeys == {call[q].key : q \in {q \in Requests : call[q].op = "yank"}}

Sourced(versions) ==
  \A k \in Keys : versions[k] # Absent =>
    <<k, versions[k].digest>> \in Sources /\ (versions[k].yanked => k \in YankKeys)

StoreSourced == (\A r \in Requests : Sourced(mem[r]) /\ Sourced(rows[r])) /\ Sourced(disk)

\* The versions and digests whose plans the engine may have run.
PlanSources ==
  {<<call[q].key, call[q].digest>> : q \in {q \in Requests : MayHaveRun(q)}}

EngineSourced == \A row \in engine : row.digest \in Digests /\ <<row.key, row.digest>> \in PlanSources

ShownSourced ==
  /\ shown \in [Requests -> SUBSET Digests]
  /\ \A r \in Requests : \A digest \in shown[r] :
       \/ <<call[r].key, digest>> \in Sources
       \/ mode = "ready" /\ <<call[r].key, digest>> \in PlanSources

\* The thread is where its request brought it.
Asked ==
  \A r \in Requests :
    /\ pc[r] \in {"publish", "yank", "get"} => call[r].op = pc[r]
    /\ pc[r] = "mark" => call[r].op = "yank"

\* A request that is decided is at its end or saves.
LEMMA OnceStep ==
  ASSUME TypeInv, Once, [Next]_vars \/ \E r \in Requests : EngineStep(r)
  PROVE  /\ Once' /\ call' = call
         /\ \A q \in Requests : outcome[q] = "published" => outcome'[q] = "published"
<1> USE DEF Once, Undecided, At, Goto, Finish, Decide
<1>a. pc \in [Requests -> Steps] /\ outcome \in [Requests -> Outcomes]
  BY DEF TypeInv, TypeOK
<1> DEFINE Goal == /\ Once' /\ call' = call
                   /\ \A q \in Requests : outcome[q] = "published" => outcome'[q] = "published"
<1>1. ASSUME NEW r \in Requests, Arrive(r) \/ _load(r) \/ SetStore(r) PROVE Goal
  BY <1>a, <1>1 DEF Arrive, _load, SetStore
<1>2. ASSUME NEW r \in Requests, get_registry_store(r) PROVE Goal
  BY <1>a, <1>2 DEF get_registry_store
<1>3. ASSUME NEW r \in Requests, Reject(r) \/ PublishCheck(r) \/ PublishInsert(r) PROVE Goal
  BY <1>a, <1>3 DEF Reject, PublishCheck, PublishInsert
<1>4. ASSUME NEW r \in Requests, YankCheck(r) \/ YankMark(r) \/ get_package_version(r) PROVE Goal
  BY <1>a, <1>4 DEF YankCheck, YankMark, get_package_version
<1>5. ASSUME NEW r \in Requests, SaveIterate(r) \/ SaveCollect(r) \/ SaveTruncate(r) PROVE Goal
  BY <1>a, <1>5 DEF SaveIterate, SaveCollect, SaveTruncate
<1>6. ASSUME NEW r \in Requests, SaveWrite(r) PROVE Goal
  BY <1>a, <1>6 DEF SaveWrite
<1>7. CASE Crash BY <1>a, <1>7 DEF Crash, InFlight, Idle
<1>8. CASE UNCHANGED vars BY <1>8 DEF vars
<1>9. ASSUME NEW r \in Requests, EngineStep(r) PROVE Goal
  BY <1>a, <1>9 DEF EngineStep, Raised, Answered, Beside
<1> QED BY <1>1, <1>2, <1>3, <1>4, <1>5, <1>6, <1>7, <1>8, <1>9 DEF Next, Handle

\* What had a source keeps it.
LEMMA SourceStays ==
  ASSUME TypeInv, Once, [Next]_vars \/ \E r \in Requests : EngineStep(r)
  PROVE  Sources \subseteq Sources' /\ YankKeys' = YankKeys
BY OnceStep DEF Sources, YankKeys

\* Nothing brings it anywhere else.
LEMMA AskedStep ==
  ASSUME TypeInv, Once, Asked, [Next]_vars \/ \E r \in Requests : EngineStep(r)
  PROVE  Asked'
<1> USE DEF Asked, At, Goto, Finish
<1>a. pc \in [Requests -> Steps] /\ call' = call
  BY OnceStep DEF TypeInv, TypeOK
<1>1. ASSUME NEW r \in Requests, Arrive(r) \/ _load(r) \/ SetStore(r) PROVE Asked'
  BY <1>a, <1>1 DEF Arrive, _load, SetStore
<1>2. ASSUME NEW r \in Requests, get_registry_store(r) PROVE Asked'
  <2>1. call[r].op \in {"publish", "yank", "get"} BY CallType DEF TypeInv
  <2> QED BY <1>a, <1>2, <2>1 DEF get_registry_store
<1>3. ASSUME NEW r \in Requests, Reject(r) \/ PublishCheck(r) \/ PublishInsert(r) \/ YankMark(r)
      PROVE  Asked'
  BY <1>a, <1>3 DEF Reject, PublishCheck, PublishInsert, YankMark
<1>4. ASSUME NEW r \in Requests, YankCheck(r) \/ get_package_version(r) PROVE Asked'
  BY <1>a, <1>4 DEF YankCheck, get_package_version
<1>5. ASSUME NEW r \in Requests, SaveIterate(r) \/ SaveCollect(r) \/ SaveTruncate(r) \/ SaveWrite(r)
      PROVE  Asked'
  BY <1>a, <1>5 DEF SaveIterate, SaveCollect, SaveTruncate, SaveWrite
<1>6. CASE Crash BY <1>a, <1>6 DEF Crash
<1>7. CASE UNCHANGED vars BY <1>7 DEF vars
<1>8. ASSUME NEW r \in Requests, EngineStep(r) PROVE Asked'
  BY <1>a, <1>8 DEF EngineStep, Raised, Answered
<1> QED BY <1>1, <1>2, <1>3, <1>4, <1>5, <1>6, <1>7, <1>8 DEF Next, Handle

\* A version of a store replaced by one that has a source.
LEMMA ReplacedSourced ==
  ASSUME TypeInv, NEW s \in Requests, NEW k \in Keys, NEW e \in Entries,
         <<k, e.digest>> \in Sources', e.yanked => k \in YankKeys',
         mem' = Replace(mem, s, k, e), \A q \in Requests : Sourced(mem[q]),
         Sources \subseteq Sources', YankKeys' = YankKeys
  PROVE  \A q \in Requests : Sourced(mem[q])'
<1>1. mem \in [Requests -> Versions] BY DEF TypeInv, TypeOK
<1> SUFFICES ASSUME NEW q \in Requests, NEW l \in Keys, mem'[q][l] # Absent
             PROVE  /\ <<l, mem'[q][l].digest>> \in Sources'
                    /\ mem'[q][l].yanked => l \in YankKeys'
  BY DEF Sourced
<1>2. CASE q = s /\ l = k BY <1>1, <1>2, Replaced
<1>3. CASE q # s \/ l # k
  <2>1. mem'[q][l] = mem[q][l] BY <1>1, <1>3, Replaced
  <2> QED BY <2>1 DEF Sourced
<1> QED BY <1>2, <1>3

\* Every version of a store and of the file has a source.
LEMMA StoreSourcedStep ==
  ASSUME TypeInv, Once, Asked, StoreSourced, [Next]_vars \/ \E r \in Requests : EngineStep(r)
  PROVE  StoreSourced'
<1>a. TypeOK /\ mem \in [Requests -> Versions] /\ rows \in [Requests -> Versions]
      /\ disk \in Versions
  BY DEF TypeInv, TypeOK
<1>b. Sources \subseteq Sources' /\ YankKeys' = YankKeys
  BY SourceStays
<1>c. ASSUME NEW versions \in Versions, Sourced(versions)
      PROVE  \A k \in Keys : versions[k] # Absent =>
               /\ <<k, versions[k].digest>> \in Sources'
               /\ versions[k].yanked => k \in YankKeys'
  BY <1>b, <1>c DEF Sourced
<1>d. \A k \in Keys : Seed[k] # Absent => <<k, Seed[k].digest>> \in Sources' /\ ~Seed[k].yanked
  BY DEF Seed, Sources
<1>e. \A r \in Requests : Sourced(mem[r]) /\ Sourced(rows[r])
  BY DEF StoreSourced
<1>f. Sourced(disk) BY DEF StoreSourced
<1>g. (UNCHANGED mem) => \A r \in Requests : Sourced(mem[r])'
  BY <1>a, <1>c, <1>e DEF Sourced
<1>h. (UNCHANGED rows) => \A r \in Requests : Sourced(rows[r])'
  BY <1>a, <1>c, <1>e DEF Sourced
<1>i. (UNCHANGED disk) => Sourced(disk)'
  BY <1>a, <1>c, <1>f DEF Sourced
<1>1. ASSUME UNCHANGED mem, UNCHANGED rows, UNCHANGED disk PROVE StoreSourced'
  BY <1>g, <1>h, <1>i, <1>1 DEF StoreSourced
<1>2. ASSUME NEW r \in Requests,
             \/ Arrive(r) \/ get_registry_store(r) \/ SetStore(r) \/ Reject(r)
             \/ PublishCheck(r) \/ YankCheck(r) \/ get_package_version(r) \/ EngineStep(r)
      PROVE  StoreSourced'
  BY <1>1, <1>2 DEF Arrive, get_registry_store, SetStore, Reject, PublishCheck, YankCheck,
     get_package_version, EngineStep, Raised, Answered, Beside, local, fileVars
<1>3. ASSUME NEW r \in Requests, _load(r) PROVE StoreSourced'
  <2>1. /\ UNCHANGED rows /\ UNCHANGED disk
        /\ mem' \in {mem, [mem EXCEPT ![r] = Seed], [mem EXCEPT ![r] = disk]}
    BY <1>3 DEF _load, fileVars
  <2>2. \A q \in Requests : mem'[q] \in {mem[q], Seed, disk} BY <1>a, <2>1
  <2>3. \A q \in Requests : Sourced(mem[q])'
    BY <1>a, <1>c, <1>d, <1>e, <1>f, <2>2 DEF Sourced
  <2> QED BY <1>h, <1>i, <2>1, <2>3 DEF StoreSourced
<1>4. ASSUME NEW r \in Requests, PublishInsert(r) PROVE StoreSourced'
  <2>1. st[r] \in Requests BY <1>4 DEF TypeInv, StoreInHand, PublishInsert, At
  <2>2. PICK e \in Entries : /\ e.digest = call[r].digest /\ ~e.yanked
                             /\ mem' = Replace(mem, st[r], call[r].key, e)
    BY <1>a, <1>4, <2>1, InsertEffect
  <2>3. outcome'[r] = "published" /\ call' = call /\ UNCHANGED rows /\ UNCHANGED disk
    BY <1>4 DEF PublishInsert, Decide, TypeInv, TypeOK, local, fileVars
  <2>4. <<call[r].key, e.digest>> \in Sources' BY <2>2, <2>3 DEF Sources
  <2>5. call[r].key \in Keys BY <1>a, CallType
  <2>6. \A q \in Requests : Sourced(mem[q])'
    BY <1>b, <1>e, <2>1, <2>2, <2>4, <2>5, ReplacedSourced
  <2> QED BY <1>h, <1>i, <2>3, <2>6 DEF StoreSourced
<1>5. ASSUME NEW r \in Requests, YankMark(r) PROVE StoreSourced'
  <2>1. st[r] \in Requests /\ Entry(r) # Absent
    BY <1>5 DEF TypeInv, StoreInHand, MarkPresent, YankMark, At
  <2>2. UNCHANGED rows /\ UNCHANGED disk BY <1>5 DEF YankMark, local, fileVars
  <2>3. PICK e \in Entries :
          /\ e.digest = Entry(r).digest
          /\ mem' = IF Entry(r).by = seen[r].by
                    THEN Replace(mem, st[r], call[r].key, e) ELSE mem
    BY <1>a, <1>5, <2>1, MarkEffect
  <2>4. CASE UNCHANGED mem BY <1>1, <2>2, <2>4
  <2>5. CASE mem' = Replace(mem, st[r], call[r].key, e)
    <3>1. call[r].key \in Keys BY <1>a, CallType
    <3>2. mem[st[r]] \in Versions /\ Sourced(mem[st[r]]) BY <1>a, <1>e, <2>1
    <3>3. <<call[r].key, e.digest>> \in Sources' BY <1>c, <2>1, <2>3, <3>1, <3>2 DEF Entry
    <3>4. call[r].key \in YankKeys' BY <1>b, <1>5 DEF YankMark, At, Asked, YankKeys
    <3>5. \A q \in Requests : Sourced(mem[q])'
      BY <1>b, <1>e, <2>1, <2>5, <3>1, <3>3, <3>4, ReplacedSourced
    <3> QED BY <1>h, <1>i, <2>2, <3>5 DEF StoreSourced
  <2> QED BY <2>3, <2>4, <2>5
<1>6. ASSUME NEW r \in Requests, SaveIterate(r) PROVE StoreSourced'
  <2>1. st[r] \in Requests BY <1>6 DEF TypeInv, StoreInHand, SaveIterate, At
  <2>2. /\ UNCHANGED mem /\ UNCHANGED disk
        /\ \A q \in Requests : rows'[q] = IF q = r THEN mem[st[r]] ELSE rows[q]
    BY <1>a, <1>6 DEF SaveIterate, fileVars
  <2>3. \A q \in Requests : Sourced(rows[q])' BY <1>a, <1>c, <1>e, <2>1, <2>2 DEF Sourced
  <2> QED BY <1>g, <1>i, <2>2, <2>3 DEF StoreSourced
<1>7. ASSUME NEW r \in Requests, SaveCollect(r) PROVE StoreSourced'
  <2>1. st[r] \in Requests BY <1>7 DEF TypeInv, StoreInHand, SaveCollect, At
  <2>2. UNCHANGED mem /\ UNCHANGED disk BY <1>7 DEF SaveCollect, fileVars
  <2>3. CASE UNCHANGED rows BY <1>1, <2>2, <2>3
  <2>4. CASE \E early \in SUBSET Keys :
               rows' = [rows EXCEPT ![r] =
                          [k \in Keys |-> IF k \in early THEN @[k] ELSE mem[st[r]][k]]]
    <3>1. PICK early \in SUBSET Keys :
            rows' = [rows EXCEPT ![r] =
                       [k \in Keys |-> IF k \in early THEN @[k] ELSE mem[st[r]][k]]]
      BY <2>4
    <3>2. \A q \in Requests : q # r => rows'[q] = rows[q] BY <1>a, <3>1
    <3>3. \A k \in Keys : rows'[r][k] \in {rows[r][k], mem[st[r]][k]} BY <1>a, <3>1
    <3>4. \A k \in Keys : rows'[r][k] # Absent =>
            <<k, rows'[r][k].digest>> \in Sources' /\ (rows'[r][k].yanked => k \in YankKeys')
      BY <1>a, <1>c, <1>e, <2>1, <3>3
    <3>5. \A q \in Requests : Sourced(rows[q])'
      BY <1>a, <1>c, <1>e, <3>2, <3>4 DEF Sourced
    <3> QED BY <1>g, <1>i, <2>2, <3>5 DEF StoreSourced
  <2> QED BY <1>7, <2>3, <2>4 DEF SaveCollect
<1>8. ASSUME NEW r \in Requests, SaveTruncate(r) \/ SaveWrite(r) PROVE StoreSourced'
  <2>1. UNCHANGED mem /\ UNCHANGED rows /\ disk' \in {disk, Nothing, rows[r]}
    BY <1>8 DEF SaveTruncate, SaveWrite, local
  <2>2. \A k \in Keys : Nothing[k] = Absent BY DEF Nothing
  <2>3. Sourced(disk)' BY <1>a, <1>c, <1>e, <1>f, <2>1, <2>2 DEF Sourced
  <2> QED BY <1>g, <1>h, <2>1, <2>3 DEF StoreSourced
<1>9. CASE Crash BY <1>1, <1>9 DEF Crash, local, fileVars
<1>10. CASE UNCHANGED vars BY <1>1, <1>10 DEF vars, local, fileVars
<1> QED BY <1>2, <1>3, <1>4, <1>5, <1>6, <1>7, <1>8, <1>9, <1>10 DEF Next, Handle

\* A request that has ended does nothing any more.
LEMMA EndStays ==
  ASSUME TypeInv, [Next]_vars \/ \E r \in Requests : EngineStep(r)
  PROVE  \A q \in Requests : pc[q] = "done" => pc'[q] = "done"
<1> USE DEF At, Goto, Finish
<1>a. pc \in [Requests -> Steps] BY DEF TypeInv, TypeOK
<1> DEFINE Goal == \A q \in Requests : pc[q] = "done" => pc'[q] = "done"
<1>1. ASSUME NEW r \in Requests, Arrive(r) \/ get_registry_store(r) \/ _load(r) \/ SetStore(r) PROVE Goal
  BY <1>a, <1>1 DEF Arrive, get_registry_store, _load, SetStore
<1>2. ASSUME NEW r \in Requests, Reject(r) \/ PublishCheck(r) \/ PublishInsert(r) \/ YankMark(r) PROVE Goal
  BY <1>a, <1>2 DEF Reject, PublishCheck, PublishInsert, YankMark
<1>3. ASSUME NEW r \in Requests, YankCheck(r) \/ get_package_version(r) PROVE Goal
  BY <1>a, <1>3 DEF YankCheck, get_package_version
<1>4. ASSUME NEW r \in Requests, SaveIterate(r) \/ SaveCollect(r) \/ SaveTruncate(r) \/ SaveWrite(r)
      PROVE  Goal
  BY <1>a, <1>4 DEF SaveIterate, SaveCollect, SaveTruncate, SaveWrite
<1>5. CASE Crash BY <1>a, <1>5 DEF Crash
<1>6. CASE UNCHANGED vars BY <1>6 DEF vars
<1>7. ASSUME NEW r \in Requests, EngineStep(r) PROVE Goal
  BY <1>a, <1>7 DEF EngineStep, Raised, Answered
<1> QED BY <1>1, <1>2, <1>3, <1>4, <1>5, <1>6, <1>7 DEF Next, Handle

\* A plan that may have run inserts what its request asks; no other step does.
LEMMA EngineSourcedStep ==
  ASSUME TypeInv, Once, Asked, EngineSourced, [EngineNext]_allVars
  PROVE  EngineSourced' /\ PlanSources \subseteq PlanSources'
<1>a. call' = call /\ \A q \in Requests : pc[q] = "done" => pc'[q] = "done"
  BY StepOfStore, OnceStep, EndStays
<1>b. \A q \in Requests : call[q].key \in Keys /\ call[q].digest \in Digests
  BY CallType DEF TypeInv
<1>1. ASSUME planned \subseteq planned' PROVE PlanSources \subseteq PlanSources'
  BY <1>a, <1>1 DEF PlanSources, MayHaveRun
<1>2. ASSUME UNCHANGED planned, UNCHANGED engine PROVE EngineSourced' /\ PlanSources \subseteq PlanSources'
  <2>1. PlanSources \subseteq PlanSources' BY <1>1, <1>2
  <2> QED BY <1>2, <2>1 DEF EngineSourced
<1>3. ASSUME NEW r \in Requests, _run_plan(r) PROVE EngineSourced' /\ PlanSources \subseteq PlanSources'
  <2>1. /\ engine' = engine \/ (call[r].op = "publish" /\ engine' = engine \cup {Row(r)})
        /\ planned \subseteq planned'
        /\ r \in planned' \/ Finish(r, "dropped")
    BY <1>3 DEF _run_plan, Executed
  <2>2. r \in planned' \/ pc'[r] = "done" BY <2>1 DEF Finish, Goto, TypeInv, TypeOK
  <2>3. PlanSources \subseteq PlanSources' BY <1>1, <2>1
  <2>4. call[r].op = "publish" => <<Row(r).key, Row(r).digest>> \in PlanSources' /\ Row(r).digest \in Digests
    BY <1>a, <1>b, <2>2 DEF PlanSources, MayHaveRun, Row
  <2> QED BY <2>1, <2>3, <2>4 DEF EngineSourced
<1>4. (UNCHANGED planned /\ UNCHANGED engine) \/ \E r \in Requests : _run_plan(r)
  <2>1. CASE UNCHANGED allVars BY <2>1 DEF allVars, engineVars
  <2>2. ASSUME Rest PROVE UNCHANGED planned /\ UNCHANGED engine BY <2>2 DEF Rest, engineVars
  <2>3. ASSUME NEW r \in Requests,
               ensure_registry_plans(r) \/ open_liorm_store(r) \/ NativeGet(r) \/ BackingGet(r)
        PROVE UNCHANGED planned /\ UNCHANGED engine
    BY <2>3 DEF ensure_registry_plans, open_liorm_store, NativeGet, BackingGet, engineVars
  <2>4. CASE ListCollect \/ ListFilter \/ EngineCrash
    BY <2>4 DEF ListCollect, ListFilter, EngineCrash, engineVars
  <2> QED BY <2>1, <2>2, <2>3, <2>4 DEF EngineNext
<1> QED BY <1>2, <1>3, <1>4

\* What is shown is what the store has, or a ready engine.
LEMMA ShownSourcedStep ==
  ASSUME TypeInv, Once, Asked, StoreSourced, EngineSourced, ShownSourced, [EngineNext]_allVars
  PROVE  ShownSourced'
<1>1. /\ Sources \subseteq Sources' /\ call' = call /\ mode' = mode
      /\ PlanSources \subseteq PlanSources'
  BY StepOfStore, SourceStays, OnceStep, ModeKept, EngineSourcedStep
<1>2. ASSUME UNCHANGED shown PROVE ShownSourced' BY <1>1, <1>2 DEF ShownSourced
<1>a. ASSUME NEW r \in Requests, NEW digests \in SUBSET Digests,
             shown' = [shown EXCEPT ![r] = digests],
             \A digest \in digests :
               \/ <<call[r].key, digest>> \in Sources
               \/ mode = "ready" /\ <<call[r].key, digest>> \in PlanSources
      PROVE  ShownSourced'
  <2>1. shown' \in [Requests -> SUBSET Digests] BY <1>a DEF ShownSourced
  <2>2. ASSUME NEW q \in Requests, NEW digest \in shown'[q]
        PROVE  \/ <<call[q].key, digest>> \in Sources
               \/ mode = "ready" /\ <<call[q].key, digest>> \in PlanSources
    BY <1>a, <2>2 DEF ShownSourced
  <2> QED BY <1>1, <2>1, <2>2 DEF ShownSourced
<1>3. ASSUME NEW r \in Requests, BackingGet(r) PROVE ShownSourced'
  <2>1. /\ At(r, "get") /\ outcome \in [Requests -> Outcomes]
        /\ outcome' = [outcome EXCEPT
             ![r] = IF Entry(r) = Absent THEN "not_found"
                    ELSE IF Entry(r).yanked THEN "gone" ELSE "found"]
        /\ shown' = [shown EXCEPT
             ![r] = IF outcome'[r] = "found" THEN {Entry(r).digest} ELSE {}]
    BY <1>3 DEF BackingGet, get_package_version, Decide, TypeInv, TypeOK
  <2>2. outcome'[r] = "found" => Entry(r) # Absent BY <2>1
  <2>3. call[r].key \in Keys /\ st[r] \in Requests /\ mem[st[r]] \in Versions
    BY <2>1, CallType DEF TypeInv, TypeOK, StoreInHand, At
  <2>4. Entry(r) # Absent =>
          Entry(r).digest \in Digests /\ <<call[r].key, Entry(r).digest>> \in Sources
    BY <2>3 DEF StoreSourced, Sourced, Entry, Versions, Entries
  <2> DEFINE digests == IF outcome'[r] = "found" THEN {Entry(r).digest} ELSE {}
  <2>5. digests \in SUBSET Digests BY <2>2, <2>4
  <2>6. shown' = [shown EXCEPT ![r] = digests] BY <2>1
  <2>7. \A digest \in digests : <<call[r].key, digest>> \in Sources BY <2>2, <2>4
  <2> HIDE DEF digests
  <2> QED BY <1>a, <2>5, <2>6, <2>7
<1>4. ASSUME NEW r \in Requests, NativeGet(r) PROVE ShownSourced'
  <2>1. PICK row \in PlanRows(r) : shown' = [shown EXCEPT ![r] = {row.digest}]
    BY <1>4 DEF NativeGet
  <2>2. mode = "ready" /\ row \in engine /\ row.key = call[r].key
    BY <1>4, <2>1 DEF NativeGet, _engine_ready, PlanRows
  <2>3. row.digest \in Digests /\ <<call[r].key, row.digest>> \in PlanSources
    BY <2>2 DEF EngineSourced
  <2> DEFINE digests == {row.digest}
  <2>4. digests \in SUBSET Digests /\ shown' = [shown EXCEPT ![r] = digests] BY <2>1, <2>3
  <2>5. \A digest \in digests : mode = "ready" /\ <<call[r].key, digest>> \in PlanSources
    BY <2>2, <2>3
  <2> HIDE DEF digests
  <2> QED BY <1>a, <2>4, <2>5
<1>5. UNCHANGED shown \/ \E r \in Requests : BackingGet(r) \/ NativeGet(r)
  <2>1. CASE UNCHANGED allVars BY <2>1 DEF allVars, engineVars
  <2>2. ASSUME Rest PROVE UNCHANGED shown BY <2>2 DEF Rest, engineVars
  <2>3. ASSUME NEW r \in Requests, ensure_registry_plans(r) \/ _run_plan(r) \/ open_liorm_store(r)
        PROVE  UNCHANGED shown
    BY <2>3 DEF ensure_registry_plans, _run_plan, open_liorm_store, engineVars
  <2>4. CASE ListCollect \/ ListFilter \/ EngineCrash
    BY <2>4 DEF ListCollect, ListFilter, EngineCrash, engineVars
  <2> QED BY <2>1, <2>2, <2>3, <2>4 DEF EngineNext
<1> QED BY <1>2, <1>3, <1>4, <1>5

\* Whatever clients do, and however often the server is killed: a client is shown the
\* digest of a publish that was accepted or the demo's; a ready engine also shows it
\* that of a publish of the same version whose plan may have run, and nothing else.
THEOREM ShownIsAskedHolds == EngineSpec => []ShownIsAsked
<1> DEFINE Inv == TypeInv /\ Once /\ Asked /\ StoreSourced /\ EngineSourced /\ ShownSourced
<1>1. EngineInit => Inv
  <2> SUFFICES ASSUME EngineInit PROVE Inv OBVIOUS
  <2>1. TypeInv BY TypeInit DEF EngineInit
  <2>2. Once /\ Asked BY DEF EngineInit, Init, Once, Asked
  <2>3. StoreSourced BY DEF EngineInit, Init, StoreSourced, Sourced, Nothing
  <2>4. EngineSourced /\ ShownSourced BY DEF EngineInit, EngineSourced, ShownSourced
  <2> QED BY <2>1, <2>2, <2>3, <2>4
<1>2. Inv /\ [EngineNext]_allVars => Inv'
  BY StepOfStore, EngineTypeStep, OnceStep, AskedStep, StoreSourcedStep, EngineSourcedStep,
     ShownSourcedStep
<1>3. Inv => ShownIsAsked
  <2> SUFFICES ASSUME Inv, NEW r \in Requests, NEW digest \in shown[r]
               PROVE  \/ call[r].key = DemoKey /\ digest = DemoDigest
                      \/ \E q \in Requests :
                           /\ call[q].key = call[r].key /\ call[q].digest = digest
                           /\ outcome[q] = "published" \/ (mode = "ready" /\ MayHaveRun(q))
    BY DEF ShownIsAsked
  <2> QED BY DEF ShownSourced, Sources, PlanSources
<1> HIDE DEF Inv
<1> QED BY <1>1, <1>2, <1>3, PTL DEF EngineSpec

-----------------------------------------------------------------------------
(* What clients were told stays true: the load "serial", with kills.        *)

\* A request whose client has its answer is at its end.
Ended == \A r \in Requests : answer[r] = "sent" => pc[r] = "done"

\* What r was decided to be is what the versions say.
Truth(r, versions) ==
  LET entry == versions[call[r].key] IN
  /\ outcome[r] = "published" => entry # Absent /\ entry.digest = call[r].digest
  /\ outcome[r] = "yanked" => entry # Absent /\ entry.yanked

AllKept(versions) == \A q \in Requests : Kept(q, versions)
OnDisk(versions) == file = "whole" /\ disk = versions

\* One request is handled at a time.
OneInFlight == \A q, r \in InFlight : q = r

\* The store that serves requests has what they were told; between two requests the
\* file says the same.
StoreServes ==
  _store # NoStore =>
    /\ AllKept(mem[_store])
    /\ (\A r \in Requests : pc[r] \notin Saving) => OnDisk(mem[_store])

\* So does the file, whenever it is JSON: it is what a killed server leaves behind.
\* Before there is a file, nobody was told anything.
FileServes ==
  /\ file = "whole" => AllKept(disk)
  /\ file = "none" => \A q \in Requests : ~Told(q, "published") /\ ~Told(q, "yanked")

Outside == {"new", "store", "open", "done"}

\* The request at work: while it opens the store it has a store of its own; what it
\* looked up still holds, and what it decided is in the store before it is saved.
Turn(r) ==
  /\ pc[r] = "open" => _store = NoStore
  /\ pc[r] \notin Outside =>
       /\ IF pc[r] \in {"opened"} \cup Saving /\ outcome[r] = "none"
          THEN st[r] = r /\ _store = NoStore ELSE st[r] = _store
       /\ AllKept(mem[st[r]])
  /\ pc[r] = "opened" => outcome[r] = "none" /\ OnDisk(mem[st[r]])
  /\ pc[r] = "insert" => Entry(r) = Absent
  /\ pc[r] = "mark" => Entry(r) = seen[r]
  /\ pc[r] \in Saving => Truth(r, mem[st[r]])
  /\ pc[r] \in {"collect", "truncate", "write"} => rows[r] = mem[st[r]]
  /\ pc[r] = "write" => length = 0

Serving == OneInFlight /\ StoreServes /\ FileServes /\ \A r \in Requests : Turn(r)

SerialInv == load = "serial" => Serving

\* Nobody is answered before the end.
LEMMA EndedStep ==
  ASSUME TypeInv, Ended, [Next]_vars \/ \E r \in Requests : EngineStep(r)
  PROVE  Ended'
<1> USE DEF Ended, At, Goto, Finish
<1>a. pc \in [Requests -> Steps] /\ answer \in [Requests -> {"none", "sent", "dropped"}]
  BY DEF TypeInv, TypeOK
<1>1. ASSUME NEW r \in Requests,
             Arrive(r) \/ get_registry_store(r) \/ _load(r) \/ SetStore(r)
      PROVE  Ended'
  BY <1>a, <1>1 DEF Arrive, get_registry_store, _load, SetStore
<1>2. ASSUME NEW r \in Requests,
             Reject(r) \/ PublishCheck(r) \/ PublishInsert(r) \/ YankCheck(r)
      PROVE  Ended'
  BY <1>a, <1>2 DEF Reject, PublishCheck, PublishInsert, YankCheck
<1>3. ASSUME NEW r \in Requests, YankMark(r) \/ get_package_version(r) \/ SaveIterate(r)
      PROVE  Ended'
  BY <1>a, <1>3 DEF YankMark, get_package_version, SaveIterate
<1>4. ASSUME NEW r \in Requests, SaveCollect(r) \/ SaveTruncate(r) \/ SaveWrite(r)
      PROVE  Ended'
  BY <1>a, <1>4 DEF SaveCollect, SaveTruncate, SaveWrite
<1>5. CASE Crash BY <1>a, <1>5 DEF Crash, InFlight, Idle
<1>6. CASE UNCHANGED vars BY <1>6 DEF vars
<1>7. ASSUME NEW r \in Requests, EngineStep(r) PROVE Ended'
  BY <1>a, <1>7 DEF EngineStep, Raised, Answered
<1> QED BY <1>1, <1>2, <1>3, <1>4, <1>5, <1>6, <1>7 DEF Next, Handle

\* While r is at work every other request is before or behind its own.
LEMMA Others ==
  ASSUME TypeInv, Serving, NEW r \in Requests, pc[r] \notin Idle
  PROVE  \A q \in Requests : q # r => pc[q] \in {"new", "done"}
BY DEF Serving, OneInFlight, InFlight, Idle

\* Steps of a request that change no store, no file and no answer.
LEMMA SerialMoves ==
  ASSUME TypeInv, Ended, Once, Serving, load = "serial", NEW r \in Requests,
         Arrive(r) \/ get_registry_store(r) \/ SetStore(r)
  PROVE  Serving'
<1> USE DEF At, Goto
<1>a. /\ pc \in [Requests -> Steps] /\ st \in [Requests -> Requests \cup {NoStore}]
      /\ _store \in Requests \cup {NoStore} /\ NoStore \notin Requests
  BY RegistryAssumption DEF TypeInv, TypeOK
<1>b. StoreServes /\ FileServes /\ Turn(r)
  BY DEF Serving
<1>1. \A q \in Requests : q # r => pc[q] \in {"new", "done"}
  <2>1. CASE Arrive(r) BY <2>1 DEF Arrive, InFlight, Idle
  <2>2. CASE get_registry_store(r) \/ SetStore(r)
    BY <2>2, Others DEF get_registry_store, SetStore, Idle
  <2> QED BY <2>1, <2>2
<1>2. /\ UNCHANGED <<mem, file, disk, call, outcome, answer>>
      /\ \A q \in Requests : q # r => pc'[q] = pc[q] /\ st'[q] = st[q]
  BY <1>a DEF Arrive, get_registry_store, SetStore, local, fileVars
<1>4. FileServes'
  BY <1>b, <1>2 DEF FileServes, AllKept, Kept, Told
<1>5. OneInFlight'
  BY <1>1, <1>2 DEF OneInFlight, InFlight, Idle
<1>6. \A q \in Requests : q # r => Turn(q)'
  BY <1>1, <1>2 DEF Turn, Outside, Saving
<1>3. StoreServes' /\ Turn(r)'
  <2>1. CASE Arrive(r)
    <3>1. pc[r] = "new" /\ pc'[r] = "store" /\ _store' = _store BY <1>a, <2>1 DEF Arrive
    <3>2. StoreServes'
      BY <1>b, <1>1, <1>2, <3>1 DEF StoreServes, AllKept, Kept, Told, OnDisk, Saving
    <3> QED BY <3>1, <3>2 DEF Turn, Outside, Saving
  <2>2. CASE get_registry_store(r)
    <3>1. pc[r] = "store" /\ _store' = _store /\ outcome[r] = "none"
      BY <2>2 DEF get_registry_store, Once, Undecided
    <3>2. /\ pc'[r] \in {"open", "publish", "yank", "get"}
          /\ pc'[r] = "open" <=> _store = NoStore
          /\ _store # NoStore => st'[r] = _store
      <4>1. call[r].op \in {"publish", "yank", "get"} BY CallType DEF TypeInv
      <4> QED BY <1>a, <2>2, <4>1 DEF get_registry_store
    <3>3. StoreServes'
      BY <1>b, <1>1, <1>2, <3>1, <3>2 DEF StoreServes, AllKept, Kept, Told, OnDisk, Saving
    <3>4. CASE _store = NoStore
      BY <3>1, <3>2, <3>3, <3>4 DEF Turn, Outside, Saving
    <3>5. CASE _store # NoStore
      <4>1. pc'[r] \in {"publish", "yank", "get"} /\ st'[r] = _store'
        BY <3>1, <3>2, <3>5
      <4>2. AllKept(mem[st[r]])'
        BY <3>1, <3>3, <3>5, <4>1 DEF StoreServes, AllKept, Kept, Told
      <4> QED BY <3>3, <4>1, <4>2 DEF Turn, Outside, Saving, AllKept, Kept, Told
    <3> QED BY <3>3, <3>4, <3>5
  <2>3. CASE SetStore(r)
    <3>1. pc[r] = "opened" /\ pc'[r] = "store" /\ _store' = r /\ outcome[r] = "none"
      BY <1>a, <1>b, <2>3 DEF SetStore, Turn
    <3>2. st[r] = r /\ AllKept(mem[r]) /\ OnDisk(mem[r])
      BY <1>b, <3>1 DEF Turn, Outside
    <3>3. StoreServes'
      BY <1>2, <3>1, <3>2 DEF StoreServes, AllKept, Kept, Told, OnDisk
    <3> QED BY <3>1, <3>3 DEF Turn, Outside, Saving
  <2> QED BY <2>1, <2>2, <2>3
<1> QED BY <1>3, <1>4, <1>5, <1>6 DEF Serving

\* A request that ends without a change: what it was told is in the store, and so in
\* the file.
LEMMA SerialAnswers ==
  ASSUME TypeInv, Ended, Once, Serving, NEW r \in Requests,
         \/ Reject(r) \/ get_package_version(r) \/ EngineStep(r)
         \/ PublishCheck(r) /\ Entry(r) # Absent
         \/ YankCheck(r) /\ ~(Entry(r) # Absent /\ ~Entry(r).yanked)
  PROVE  Serving'
<1> USE DEF At, Goto, Finish
<1>a. /\ pc \in [Requests -> Steps] /\ answer \in [Requests -> {"none", "sent", "dropped"}]
      /\ outcome \in [Requests -> Outcomes]
  BY DEF TypeInv, TypeOK
<1>b. StoreServes /\ FileServes /\ Turn(r)
  BY DEF Serving
<1>1. /\ pc[r] \in {"publish", "yank", "get", "open"} /\ outcome[r] = "none"
      /\ pc' = [pc EXCEPT ![r] = "done"]
      /\ UNCHANGED <<_store, mem, st, file, disk, call>>
  BY DEF Reject, get_package_version, EngineStep, Raised, Answered, Beside, PublishCheck,
     YankCheck, Once, Undecided, local, fileVars
<1>2. \A q \in Requests : q # r => pc[q] \in {"new", "done"} /\ pc'[q] = pc[q]
  BY <1>a, <1>1, Others DEF Idle
<1>3. \A q \in Requests : q # r => outcome'[q] = outcome[q] /\ answer'[q] = answer[q]
  BY <1>a DEF Reject, get_package_version, EngineStep, Raised, Answered, Beside, PublishCheck,
     YankCheck, Decide
<1>4. ~Told(r, "yanked")'
  BY <1>a, <1>1 DEF Reject, get_package_version, EngineStep, Raised, Answered, PublishCheck,
     YankCheck, Decide, Told
<1>5. Told(r, "published")' =>
        /\ pc[r] = "publish" /\ Entry(r) # Absent /\ Entry(r).digest = call[r].digest
  BY <1>a, <1>1 DEF Reject, get_package_version, EngineStep, Raised, Answered, PublishCheck,
     YankCheck, Decide, Told
<1>6. Told(r, "published")' => _store # NoStore /\ st[r] = _store /\ file = "whole" /\ disk = mem[_store]
  <2> SUFFICES ASSUME pc[r] = "publish"
               PROVE  _store # NoStore /\ st[r] = _store /\ file = "whole" /\ disk = mem[_store]
    BY <1>5
  <2>1. st[r] \in Requests BY DEF TypeInv, StoreInHand
  <2>2. st[r] = _store /\ _store # NoStore
    BY <1>b, <2>1, RegistryAssumption DEF Turn, Outside, Saving
  <2> QED BY <1>2, <1>b, <2>2 DEF StoreServes, Saving, OnDisk
<1>7. FileServes'
  BY <1>b, <1>1, <1>3, <1>4, <1>5, <1>6 DEF FileServes, AllKept, Kept, Told, Entry
<1>8. StoreServes'
  <2> SUFFICES ASSUME _store # NoStore
               PROVE  /\ AllKept(mem[_store])'
                      /\ (\A q \in Requests : pc'[q] \notin Saving) => OnDisk(mem[_store])'
    BY <1>1 DEF StoreServes
  <2>1. OnDisk(mem[_store])'
    BY <1>b, <1>1, <1>2 DEF StoreServes, OnDisk, Saving
  <2>2. AllKept(mem[_store])'
    BY <1>b, <1>1, <1>3, <1>4, <1>5, <1>6 DEF StoreServes, AllKept, Kept, Told, Entry
  <2> QED BY <2>1, <2>2
<1>9. OneInFlight' /\ \A q \in Requests : Turn(q)'
  BY <1>a, <1>1, <1>2 DEF OneInFlight, InFlight, Idle, Turn, Outside, Saving
<1> QED BY <1>7, <1>8, <1>9 DEF Serving

\* A request that has looked its version up: it still holds that it saw.
LEMMA SerialLooks ==
  ASSUME TypeInv, Ended, Once, Serving, NEW r \in Requests,
         \/ PublishCheck(r) /\ Entry(r) = Absent
         \/ YankCheck(r) /\ Entry(r) # Absent /\ ~Entry(r).yanked
  PROVE  Serving'
<1> USE DEF At, Goto, Finish
<1>a. /\ pc \in [Requests -> Steps] /\ seen \in [Requests -> Entries \cup {Absent}]
  BY DEF TypeInv, TypeOK
<1>b. StoreServes /\ FileServes /\ Turn(r)
  BY DEF Serving
<1>1. /\ pc[r] \in {"publish", "yank"}
      /\ UNCHANGED <<_store, mem, st, file, disk, call, outcome, answer>>
      /\ \/ pc' = [pc EXCEPT ![r] = "insert"] /\ Entry(r) = Absent
         \/ pc' = [pc EXCEPT ![r] = "mark"] /\ seen'[r] = Entry(r)
  BY <1>a DEF PublishCheck, YankCheck, local, fileVars
<1>2. \A q \in Requests : q # r => pc[q] \in {"new", "done"} /\ pc'[q] = pc[q]
  BY <1>a, <1>1, Others DEF Idle
<1>3. FileServes' /\ StoreServes'
  BY <1>a, <1>b, <1>1, <1>2 DEF FileServes, StoreServes, OnDisk, AllKept, Kept, Told, Saving
<1>4. st[r] = _store /\ AllKept(mem[st[r]])'
  BY <1>b, <1>1 DEF Turn, Outside, Saving, AllKept, Kept, Told
<1>5. Turn(r)'
  BY <1>a, <1>1, <1>4 DEF Turn, Outside, Saving, Entry
<1>6. \A q \in Requests : q # r => Turn(q)'
  BY <1>2 DEF Turn, Outside, Saving
<1>7. OneInFlight'
  BY <1>2 DEF OneInFlight, InFlight, Idle
<1> QED BY <1>3, <1>5, <1>6, <1>7 DEF Serving

\* A store only grows: a version stays with its digest, a yank stays, and what r
\* decides is there.
LEMMA Grows ==
  ASSUME TypeInv, NEW r \in Requests,
         \/ PublishInsert(r) /\ Entry(r) = Absent
         \/ YankMark(r) /\ Entry(r) = seen[r]
  PROVE  /\ st[r] \in Requests /\ outcome'[r] \in {"published", "yanked"}
         /\ \A s \in Requests, k \in Keys : mem[s][k] # Absent =>
              /\ mem'[s][k] # Absent /\ mem'[s][k].digest = mem[s][k].digest
              /\ mem[s][k].yanked => mem'[s][k].yanked
         /\ Truth(r, mem[st[r]])'
<1> USE DEF At
<1>a. /\ outcome \in [Requests -> Outcomes]
      /\ mem \in [Requests -> Versions] /\ call[r].key \in Keys /\ st[r] \in Requests
      /\ UNCHANGED <<call, st>>
  BY CallType DEF TypeInv, TypeOK, StoreInHand, PublishInsert, YankMark, local
<1>1. CASE PublishInsert(r) /\ Entry(r) = Absent
  <2>1. PICK e \in Entries : /\ e.digest = call[r].digest /\ ~e.yanked
                             /\ mem' = Replace(mem, st[r], call[r].key, e)
    BY <1>a, <1>1, InsertEffect DEF TypeInv
  <2>2. /\ mem'[st[r]][call[r].key] = e /\ e # Absent
        /\ \A s \in Requests, k \in Keys : s # st[r] \/ k # call[r].key => mem'[s][k] = mem[s][k]
    BY <1>a, <2>1, Replaced, EntriesPresent
  <2>3. mem[st[r]][call[r].key] = Absent /\ outcome'[r] = "published"
    BY <1>a, <1>1 DEF Entry, PublishInsert, Decide
  <2>4. Truth(r, mem[st[r]])' BY <1>a, <2>1, <2>2, <2>3 DEF Truth
  <2> QED BY <1>a, <2>2, <2>3, <2>4
<1>2. CASE YankMark(r) /\ Entry(r) = seen[r]
  <2>1. PICK e \in Entries : /\ e.digest = Entry(r).digest /\ e.yanked
                             /\ mem' = Replace(mem, st[r], call[r].key, e)
    BY <1>a, <1>2, MarkEffect DEF TypeInv, MarkPresent, YankMark
  <2>2. /\ mem'[st[r]][call[r].key] = e /\ e # Absent
        /\ \A s \in Requests, k \in Keys : s # st[r] \/ k # call[r].key => mem'[s][k] = mem[s][k]
    BY <1>a, <2>1, Replaced, EntriesPresent
  <2>3. mem[st[r]][call[r].key] = Entry(r) /\ outcome'[r] = "yanked"
    BY <1>a, <1>2 DEF Entry, YankMark, Decide
  <2>4. Truth(r, mem[st[r]])' BY <1>a, <2>1, <2>2, <2>3 DEF Truth
  <2> QED BY <1>a, <2>1, <2>2, <2>3, <2>4
<1> QED BY <1>1, <1>2

\* A change of the store: what others were told is kept, what r is told will be true.
LEMMA SerialChanges ==
  ASSUME TypeInv, Ended, Once, Serving, NEW r \in Requests, PublishInsert(r) \/ YankMark(r)
  PROVE  Serving'
<1> USE DEF At, Goto, Finish
<1>a. /\ pc \in [Requests -> Steps] /\ outcome \in [Requests -> Outcomes]
      /\ \A q \in Requests : call[q].key \in Keys
  BY CallType DEF TypeInv, TypeOK
<1>b. StoreServes /\ FileServes /\ Turn(r)
  BY DEF Serving
<1>1. /\ pc[r] \in {"insert", "mark"} /\ pc' = [pc EXCEPT ![r] = "save"] /\ answer[r] # "sent"
      /\ UNCHANGED <<_store, st, file, disk, call, answer>>
  BY DEF PublishInsert, YankMark, Ended, local, fileVars
<1>2. \A q \in Requests : q # r => pc[q] \in {"new", "done"} /\ pc'[q] = pc[q]
  BY <1>a, <1>1, Others DEF Idle
<1>3. \A q \in Requests : q # r => outcome'[q] = outcome[q]
  BY <1>a DEF PublishInsert, YankMark, Decide
<1>4. st[r] = _store /\ AllKept(mem[_store])
  BY <1>b, <1>1 DEF Turn, Outside, Saving
<1>5. /\ st[r] \in Requests /\ outcome'[r] # "none" /\ Truth(r, mem[st[r]])'
      /\ \A k \in Keys : mem[_store][k] # Absent =>
           /\ mem'[_store][k] # Absent /\ mem'[_store][k].digest = mem[_store][k].digest
           /\ mem[_store][k].yanked => mem'[_store][k].yanked
  <2>1. \/ PublishInsert(r) /\ Entry(r) = Absent
        \/ YankMark(r) /\ Entry(r) = seen[r]
    BY <1>b DEF Turn, PublishInsert, YankMark
  <2>2. /\ st[r] \in Requests /\ outcome'[r] \in {"published", "yanked"}
        /\ Truth(r, mem[st[r]])'
    BY <2>1, Grows
  <2> QED BY <1>4, <2>1, <2>2, Grows
<1>6. \A q \in Requests : Kept(q, mem[_store])'
  <2> SUFFICES ASSUME NEW q \in Requests PROVE Kept(q, mem[_store])'
    OBVIOUS
  <2>1. CASE q = r BY <1>1, <2>1 DEF Kept, Told
  <2>2. CASE q # r
    <3>1. Kept(q, mem[_store]) BY <1>4 DEF AllKept
    <3> QED BY <1>a, <1>1, <1>3, <1>5, <2>2, <3>1 DEF Kept, Told
  <2> QED BY <2>1, <2>2
<1>7. StoreServes'
  BY <1>a, <1>1, <1>6 DEF StoreServes, AllKept, Saving
<1>8. FileServes'
  BY <1>b, <1>1, <1>3 DEF FileServes, AllKept, Kept, Told
<1>9. Turn(r)'
  <2>1. pc'[r] = "save" /\ st'[r] = _store'
    BY <1>a, <1>1, <1>4
  <2>2. AllKept(mem[st[r]])'
    BY <1>6, <2>1 DEF AllKept, Kept, Told
  <2> QED BY <1>5, <2>1, <2>2 DEF Turn, Outside
<1>10. \A q \in Requests : q # r => Turn(q)'
  BY <1>2 DEF Turn, Outside, Saving
<1>11. OneInFlight'
  BY <1>2 DEF OneInFlight, InFlight, Idle
<1> QED BY <1>7, <1>8, <1>9, <1>10, <1>11 DEF Serving

\* A store is opened: it has what is in the file, or nobody was told anything yet.
LEMMA SerialLoads ==
  ASSUME TypeInv, Ended, Once, Serving, NEW r \in Requests, _load(r)
  PROVE  Serving'
<1> USE DEF At, Goto, Finish
<1>a. /\ pc \in [Requests -> Steps] /\ st \in [Requests -> Requests \cup {NoStore}]
      /\ answer \in [Requests -> {"none", "sent", "dropped"}]
      /\ mem \in [Requests -> Versions]
  BY DEF TypeInv, TypeOK
<1>b. StoreServes /\ FileServes /\ Turn(r)
  BY DEF Serving
<1>1. /\ pc[r] = "open" /\ outcome[r] = "none" /\ _store = NoStore
      /\ st' = [st EXCEPT ![r] = r]
      /\ UNCHANGED <<_store, file, disk, call, outcome>>
  BY <1>b DEF _load, Once, Turn, fileVars
<1>2. \A q \in Requests : q # r => pc[q] \in {"new", "done"}
  BY <1>1, Others DEF Idle
<1>3. /\ answer'[r] # "sent" \/ answer' = answer
      /\ \A q \in Requests : q # r => answer'[q] = answer[q] /\ pc'[q] = pc[q]
  BY <1>a DEF _load
<1>4. answer[r] # "sent" BY <1>1 DEF Ended
<1>5. FileServes' /\ StoreServes'
  BY <1>b, <1>1, <1>3, <1>4 DEF FileServes, StoreServes, AllKept, Kept, Told
<1>6. Turn(r)'
  <2>1. CASE file = "torn"
    <3>1. pc'[r] = "done" BY <1>a, <2>1 DEF _load
    <3> QED BY <3>1 DEF Turn, Outside, Saving
  <2>2. CASE file = "whole"
    <3>1. /\ pc'[r] = "opened" /\ st'[r] = r /\ mem'[r] = disk
          /\ answer' = answer
      BY <1>a, <1>1, <2>2 DEF _load
    <3>2. AllKept(mem[st[r]])'
      BY <1>b, <1>1, <2>2, <3>1 DEF FileServes, AllKept, Kept, Told
    <3> QED BY <1>1, <2>2, <3>1, <3>2 DEF Turn, Outside, Saving, OnDisk
  <2>3. CASE file = "none"
    <3>1. pc'[r] = "save" /\ st'[r] = r /\ answer' = answer
      BY <1>a, <1>1, <2>3 DEF _load
    <3>2. AllKept(mem[st[r]])'
      BY <1>b, <1>1, <2>3, <3>1 DEF FileServes, AllKept, Kept, Told
    <3>3. Truth(r, mem[st[r]])' BY <1>1 DEF Truth
    <3> QED BY <1>1, <3>1, <3>2, <3>3 DEF Turn, Outside, Saving
  <2> QED BY <2>1, <2>2, <2>3 DEF TypeInv, TypeOK
<1>7. \A q \in Requests : q # r => Turn(q)'
  BY <1>2, <1>3 DEF Turn, Outside, Saving
<1>8. OneInFlight'
  BY <1>2, <1>3 DEF OneInFlight, InFlight, Idle
<1> QED BY <1>5, <1>6, <1>7, <1>8 DEF Serving

\* The steps of a save before the file has the text: what is in the store stays.
LEMMA SerialSaves ==
  ASSUME TypeInv, Ended, Once, Serving, NEW r \in Requests,
         SaveIterate(r) \/ SaveCollect(r) \/ SaveTruncate(r)
  PROVE  Serving'
<1> USE DEF At, Goto, Finish
<1>a. /\ pc \in [Requests -> Steps] /\ mem \in [Requests -> Versions]
      /\ rows \in [Requests -> Versions] /\ st[r] \in Requests
  BY DEF TypeInv, TypeOK, StoreInHand, SaveIterate, SaveCollect, SaveTruncate
<1>b. StoreServes /\ FileServes /\ Turn(r)
  BY DEF Serving
<1>c. pc[r] \in {"collect", "truncate"} => rows[r] = mem[st[r]]
  BY <1>b DEF Turn
<1>1. /\ pc[r] \in {"save", "collect", "truncate"}
      /\ pc'[r] \in {"collect", "truncate", "write"}
      /\ rows'[r] = mem[st[r]]
      /\ pc'[r] = "write" => length' = 0
      /\ UNCHANGED <<_store, mem, st, call, outcome, answer>>
      /\ \A q \in Requests : q # r => pc'[q] = pc[q]
  <2>1. CASE SaveIterate(r) BY <1>a, <2>1 DEF SaveIterate
  <2>2. CASE SaveCollect(r)
    <3>1. pc[r] = "collect" /\ Count(mem[st[r]]) = Count(rows[r]) BY <1>c, <2>2 DEF SaveCollect
    <3>2. /\ pc' = [pc EXCEPT ![r] = "truncate"]
          /\ \E early \in SUBSET Keys :
               rows' = [rows EXCEPT ![r] =
                 [k \in Keys |-> IF k \in early THEN @[k] ELSE mem[st[r]][k]]]
      BY <2>2, <3>1 DEF SaveCollect
    <3>3. rows'[r] = [k \in Keys |-> mem[st[r]][k]] BY <1>a, <1>c, <3>1, <3>2
    <3>4. mem[st[r]] \in Versions BY <1>a
    <3>5. mem[st[r]] = [k \in Keys |-> mem[st[r]][k]] BY <3>4 DEF Versions
    <3> QED BY <1>a, <2>2, <3>1, <3>2, <3>3, <3>5 DEF SaveCollect
  <2>3. CASE SaveTruncate(r) BY <1>a, <1>c, <2>3 DEF SaveTruncate, local
  <2> QED BY <2>1, <2>2, <2>3
<1>2. \A q \in Requests : q # r => pc[q] \in {"new", "done"}
  BY <1>1, Others DEF Idle
<1>3. file' = "torn" \/ UNCHANGED <<file, disk>>
  BY DEF SaveIterate, SaveCollect, SaveTruncate, fileVars
<1>4. FileServes' /\ StoreServes'
  BY <1>b, <1>1, <1>3 DEF FileServes, StoreServes, AllKept, Kept, Told, Saving
<1>5. Turn(r)'
  <2>1. /\ IF outcome[r] = "none" THEN st[r] = r /\ _store = NoStore ELSE st[r] = _store
        /\ AllKept(mem[st[r]]) /\ Truth(r, mem[st[r]])
    BY <1>b, <1>1 DEF Turn, Outside, Saving
  <2>2. AllKept(mem[st[r]])' /\ Truth(r, mem[st[r]])'
    BY <1>1, <2>1 DEF AllKept, Kept, Told, Truth
  <2> QED BY <1>1, <2>1, <2>2 DEF Turn, Outside, Saving
<1>6. \A q \in Requests : q # r => Turn(q)'
  BY <1>1, <1>2 DEF Turn, Outside, Saving
<1>7. OneInFlight'
  BY <1>1, <1>2 DEF OneInFlight, InFlight, Idle
<1> QED BY <1>4, <1>5, <1>6, <1>7 DEF Serving

\* The text is written: the file has what the client is told now.
LEMMA SerialWrites ==
  ASSUME TypeInv, Ended, Once, Serving, NEW r \in Requests, SaveWrite(r)
  PROVE  Serving'
<1> USE DEF At, Goto, Finish
<1>a. /\ pc \in [Requests -> Steps] /\ mem \in [Requests -> Versions]
      /\ answer \in [Requests -> {"none", "sent", "dropped"}]
      /\ TextLength(rows[r]) \in Nat /\ st[r] \in Requests
  BY TextLengthNat DEF TypeInv, TypeOK, StoreInHand, SaveWrite
<1>b. StoreServes /\ FileServes /\ Turn(r)
  BY DEF Serving
<1>1. /\ pc[r] = "write" /\ length = 0 /\ rows[r] = mem[st[r]]
      /\ AllKept(mem[st[r]]) /\ Truth(r, mem[st[r]])
      /\ IF outcome[r] = "none" THEN st[r] = r /\ _store = NoStore ELSE st[r] = _store
  BY <1>b DEF SaveWrite, Turn, Outside, Saving
<1>2. /\ file' = "whole" /\ disk' = mem[st[r]]
      /\ UNCHANGED <<_store, mem, st, call, outcome>>
      /\ IF outcome[r] = "none"
         THEN pc' = [pc EXCEPT ![r] = "opened"] /\ UNCHANGED answer
         ELSE pc' = [pc EXCEPT ![r] = "done"] /\ answer' = [answer EXCEPT ![r] = "sent"]
  <2>1. ~(length > TextLength(rows[r])) BY <1>a, <1>1
  <2> QED BY <1>1, <2>1 DEF SaveWrite, local
<1>3. \A q \in Requests : q # r => pc[q] \in {"new", "done"} /\ pc'[q] = pc[q]
  BY <1>a, <1>1, <1>2, Others DEF Idle
<1>4. \A q \in Requests : Kept(q, mem[st[r]])'
  <2> SUFFICES ASSUME NEW q \in Requests PROVE Kept(q, mem[st[r]])'
    OBVIOUS
  <2>1. CASE q = r BY <1>1, <1>2, <2>1 DEF Kept, Told, Truth
  <2>2. CASE q # r BY <1>a, <1>1, <1>2, <2>2 DEF AllKept, Kept, Told
  <2> QED BY <2>1, <2>2
<1>5. FileServes'
  BY <1>2, <1>4 DEF FileServes, AllKept, Kept, Told
<1>6. StoreServes'
  BY <1>1, <1>2, <1>4 DEF StoreServes, AllKept, OnDisk, TypeInv, TypeOK
<1>7. Turn(r)'
  <2>1. AllKept(mem[st[r]])' BY <1>4 DEF AllKept
  <2>2. CASE outcome[r] = "none"
    <3>1. pc'[r] = "opened" BY <1>a, <1>2, <2>2
    <3> QED BY <1>1, <1>2, <2>1, <2>2, <3>1 DEF Turn, Outside, Saving, OnDisk
  <2>3. CASE outcome[r] # "none"
    <3>1. pc'[r] = "done" BY <1>a, <1>2, <2>3
    <3> QED BY <3>1 DEF Turn, Outside, Saving
  <2> QED BY <2>2, <2>3
<1>8. \A q \in Requests : q # r => Turn(q)'
  BY <1>3 DEF Turn, Outside, Saving
<1>9. OneInFlight'
  BY <1>3 DEF OneInFlight, InFlight, Idle
<1> QED BY <1>5, <1>6, <1>7, <1>8, <1>9 DEF Serving

\* A kill leaves the file, and nobody at work.
LEMMA SerialCrash ==
  ASSUME TypeInv, Ended, Serving, Crash
  PROVE  Serving'
<1>1. \A q \in Requests : pc'[q] \in {"new", "done"}
  BY DEF Crash, InFlight, Idle
<1>2. /\ _store' = NoStore /\ UNCHANGED <<file, disk, call, outcome>>
      /\ \A q \in Requests : answer'[q] = "sent" => answer[q] = "sent"
  BY DEF Crash, fileVars
<1>3. FileServes'
  BY <1>2 DEF Serving, FileServes, AllKept, Kept, Told
<1>4. StoreServes' BY <1>2 DEF StoreServes
<1>5. OneInFlight' BY <1>1 DEF OneInFlight, InFlight, Idle
<1>6. \A q \in Requests : Turn(q)'
  BY <1>1 DEF Turn, Outside, Saving
<1> QED BY <1>3, <1>4, <1>5, <1>6 DEF Serving

\* A step of a server that handles one request at a time.
LEMMA SerialStep ==
  ASSUME TypeInv, Ended, Once, SerialInv, [Next]_vars \/ \E r \in Requests : EngineStep(r),
         load' = load
  PROVE  SerialInv'
<1> SUFFICES ASSUME load = "serial" PROVE Serving' BY DEF SerialInv
<1>a. Serving BY DEF SerialInv
<1>1. ASSUME NEW r \in Requests, Arrive(r) \/ Handle(r)
      PROVE  Serving'
  <2>1. CASE \/ Reject(r) \/ get_package_version(r)
             \/ PublishCheck(r) /\ Entry(r) # Absent
             \/ YankCheck(r) /\ ~(Entry(r) # Absent /\ ~Entry(r).yanked)
    BY <1>a, <2>1, SerialAnswers
  <2>2. CASE \/ PublishCheck(r) /\ Entry(r) = Absent
             \/ YankCheck(r) /\ Entry(r) # Absent /\ ~Entry(r).yanked
    BY <1>a, <2>2, SerialLooks
  <2>3. CASE Arrive(r) \/ get_registry_store(r) \/ SetStore(r) BY <1>a, <2>3, SerialMoves
  <2>4. CASE PublishInsert(r) \/ YankMark(r) BY <1>a, <2>4, SerialChanges
  <2>5. CASE _load(r) BY <1>a, <2>5, SerialLoads
  <2>6. CASE SaveIterate(r) \/ SaveCollect(r) \/ SaveTruncate(r) BY <1>a, <2>6, SerialSaves
  <2>7. CASE SaveWrite(r) BY <1>a, <2>7, SerialWrites
  <2> QED BY <1>1, <2>1, <2>2, <2>3, <2>4, <2>5, <2>6, <2>7 DEF Handle
<1>2. CASE \E r \in Requests : EngineStep(r) BY <1>a, <1>2, SerialAnswers
<1>3. CASE Crash BY <1>a, <1>3, SerialCrash
<1>4. CASE UNCHANGED vars
  BY <1>a, <1>4 DEF vars, local, fileVars, Serving, OneInFlight, InFlight, StoreServes,
     FileServes, Turn, AllKept, Kept, Told, OnDisk, Truth, Entry
<1> QED BY <1>1, <1>2, <1>3, <1>4 DEF Next

-----------------------------------------------------------------------------
(* The same for requests that overlap: the load "spread".                   *)

\* The store says what every request was decided to be, answered or not.
SpreadTrue ==
  load = "spread" /\ _store # NoStore => \A r \in Requests : Truth(r, mem[_store])

\* Without lidb no request gets past the opening of the store.
Missing ==
  mode = "missing" =>
    plans = FALSE /\ _store = NoStore /\ \A r \in Requests : pc[r] \in Outside

\* Every step keeps it so: the plans are never ready.
LEMMA MissingStep ==
  ASSUME TypeInv, Missing, [EngineNext]_allVars
  PROVE  Missing'
<1> USE DEF At, Goto, Finish
<1> SUFFICES ASSUME mode' = "missing" PROVE Missing' BY DEF Missing
<1>a. /\ mode = "missing" /\ plans = FALSE /\ _store = NoStore
      /\ pc \in [Requests -> Steps] /\ \A r \in Requests : pc[r] \in {"new", "store", "open", "done"}
  BY ModeKept DEF Missing, Outside, TypeInv, TypeOK
<1>1. CASE UNCHANGED allVars
  BY <1>a, <1>1 DEF allVars, vars, engineVars, Missing, Outside
<1>2. ASSUME NEW r \in Requests,
             (Arrive(r) /\ Rest) \/ (get_registry_store(r) /\ Rest) \/ ensure_registry_plans(r)
      PROVE  Missing'
  BY <1>a, <1>2 DEF Arrive, get_registry_store, ensure_registry_plans, import_liorm, Rest,
     engineVars, Missing, Outside
<1>3. ASSUME NEW r \in Requests
      PROVE  ~(open_liorm_store(r) \/ SetStore(r) \/ _run_plan(r) \/ Reject(r))
  BY <1>a DEF open_liorm_store, SetStore, _run_plan, Reject
<1>4. ASSUME NEW r \in Requests
      PROVE  ~(PublishCheck(r) \/ PublishInsert(r) \/ YankCheck(r) \/ YankMark(r))
  BY <1>a DEF PublishCheck, PublishInsert, YankCheck, YankMark
<1>5. ASSUME NEW r \in Requests
      PROVE  ~(NativeGet(r) \/ BackingGet(r))
  BY <1>a DEF NativeGet, BackingGet, get_package_version
<1>6. ASSUME NEW r \in Requests
      PROVE  ~(SaveIterate(r) \/ SaveCollect(r) \/ SaveTruncate(r) \/ SaveWrite(r))
  BY <1>a DEF SaveIterate, SaveCollect, SaveTruncate, SaveWrite
<1>7. CASE ListCollect \/ ListFilter
  BY <1>a, <1>7 DEF ListCollect, ListFilter, vars, engineVars, Missing, Outside
<1>8. CASE EngineCrash
  BY <1>a, <1>8 DEF EngineCrash, Crash, InFlight, Idle, Missing, Outside
<1> QED BY <1>1, <1>2, <1>3, <1>4, <1>5, <1>6, <1>7, <1>8 DEF EngineNext

\* While nobody is killed.
NoKills == "spread" \in Loads => MaxCrashes["spread"] = 0

\* A step leaves what requests were decided to be true.
LEMMA SpreadTrueStep ==
  ASSUME TypeInv, Once, SpreadInv, SpreadTrue, load = "spread", NoKills,
         [Next]_vars \/ \E r \in Requests : EngineStep(r)
  PROVE  SpreadTrue'
<1> USE DEF At
<1>a. /\ outcome \in [Requests -> Outcomes] /\ mem \in [Requests -> Versions]
      /\ _store \in Requests \cup {NoStore} /\ NoStore \notin Requests
      /\ \A q \in Requests : call[q].key \in Keys
  BY CallType, RegistryAssumption DEF TypeInv, TypeOK
<1>b. ~Crash BY DEF Crash, NoKills, TypeInv, TypeOK
<1>1. CASE _store = NoStore
  <2>1. \A q \in Requests : outcome[q] = "none" BY <1>1 DEF SpreadInv, Cold
  <2>2. ASSUME NEW r \in Requests, SetStore(r) PROVE SpreadTrue'
    BY <2>1, <2>2 DEF SetStore, SpreadTrue, Truth
  <2>3. ASSUME NEW r \in Requests,
               \/ Arrive(r) \/ get_registry_store(r) \/ _load(r)
               \/ SaveIterate(r) \/ SaveCollect(r) \/ SaveTruncate(r) \/ SaveWrite(r)
               \/ EngineStep(r)
        PROVE  SpreadTrue'
    <3>1. _store' = NoStore
      BY <1>1, <2>3 DEF Arrive, get_registry_store, _load, SaveIterate, SaveCollect,
         SaveTruncate, SaveWrite, EngineStep, Raised, Answered, Beside
    <3> QED BY <3>1 DEF SpreadTrue
  <2>4. ASSUME NEW r \in Requests
        PROVE  ~(Reject(r) \/ PublishCheck(r) \/ PublishInsert(r) \/ YankCheck(r) \/ YankMark(r)
                 \/ get_package_version(r))
    BY <1>1 DEF SpreadInv, Cold, Saving, Reject, PublishCheck, PublishInsert, YankCheck, YankMark,
       get_package_version
  <2>5. CASE UNCHANGED vars BY <1>1, <2>5 DEF vars, SpreadTrue
  <2> QED BY <1>b, <2>2, <2>3, <2>4, <2>5 DEF Next, Handle
<1>2. CASE _store # NoStore
  <2>a. /\ \A q \in Requests : WarmOf(q) /\ Truth(q, mem[_store])
        /\ _store \in Requests
    BY <1>a, <1>2 DEF SpreadInv, SpreadTrue
  <2>1. ASSUME UNCHANGED <<_store, mem, call>>,
               NEW r \in Requests, \A q \in Requests : q # r => outcome'[q] = outcome[q],
               Truth(r, mem[_store])'
        PROVE  SpreadTrue'
    BY <2>a, <2>1 DEF SpreadTrue, Truth
  <2>2. ASSUME UNCHANGED <<_store, mem, call, outcome>> PROVE SpreadTrue'
    BY <2>a, <2>2 DEF SpreadTrue, Truth
  <2>3. ASSUME NEW r \in Requests,
               \/ Arrive(r) \/ get_registry_store(r)
               \/ SaveIterate(r) \/ SaveCollect(r) \/ SaveTruncate(r) \/ SaveWrite(r)
        PROVE  SpreadTrue'
    BY <2>2, <2>3 DEF Arrive, get_registry_store, SaveIterate, SaveCollect, SaveTruncate, SaveWrite
  <2>4. ASSUME NEW r \in Requests PROVE ~_load(r) /\ ~SetStore(r)
    BY <2>a DEF WarmOf, _load, SetStore
  <2>5. ASSUME NEW r \in Requests,
               \/ Reject(r) \/ get_package_version(r) \/ EngineStep(r)
               \/ PublishCheck(r) /\ Entry(r) # Absent
               \/ YankCheck(r) /\ ~(Entry(r) # Absent /\ ~Entry(r).yanked)
        PROVE  SpreadTrue'
    <3>1. /\ UNCHANGED <<_store, mem, call>>
          /\ \A q \in Requests : q # r => outcome'[q] = outcome[q]
      BY <1>a, <2>5 DEF Reject, get_package_version, EngineStep, Raised, Answered, Beside,
         PublishCheck, YankCheck, Decide
    <3>2. CASE PublishCheck(r) /\ Entry(r) # Absent
      <4>1. Entry(r) = mem[_store][call[r].key] BY <2>a, <3>2 DEF WarmOf, PublishCheck, Entry
      <4>2. outcome'[r] = IF Entry(r).digest = call[r].digest THEN "published" ELSE "conflict"
        BY <1>a, <3>2 DEF PublishCheck, Decide
      <4>3. Truth(r, mem[_store])' BY <3>1, <3>2, <4>1, <4>2 DEF Truth
      <4> QED BY <2>1, <3>1, <4>3
    <3>3. CASE \/ Reject(r) \/ get_package_version(r) \/ Answered(r)
               \/ YankCheck(r) /\ ~(Entry(r) # Absent /\ ~Entry(r).yanked)
      <4>1. outcome'[r] \notin {"published", "yanked"}
        BY <1>a, <3>3 DEF Reject, get_package_version, Answered, YankCheck, Decide
      <4>2. Truth(r, mem[_store])' BY <4>1 DEF Truth
      <4> QED BY <2>1, <3>1, <4>2
    <3>4. CASE Raised(r) BY <2>2, <3>1, <3>4 DEF Raised
    <3> QED BY <2>5, <3>2, <3>3, <3>4 DEF EngineStep
  <2>6. ASSUME NEW r \in Requests,
               \/ PublishCheck(r) /\ Entry(r) = Absent
               \/ YankCheck(r) /\ Entry(r) # Absent /\ ~Entry(r).yanked
        PROVE  SpreadTrue'
    BY <2>2, <2>6 DEF PublishCheck, YankCheck
  <2>7. ASSUME NEW r \in Requests, PublishInsert(r) \/ YankMark(r)
        PROVE  SpreadTrue'
    <3>1. st[r] = _store
      BY <2>a, <2>7 DEF WarmOf, PublishInsert, YankMark
    <3>2. /\ UNCHANGED <<_store, st, call>>
          /\ \A q \in Requests : q # r => outcome'[q] = outcome[q]
      BY <1>a, <2>7 DEF PublishInsert, YankMark, Decide, local
    <3>3. \/ PublishInsert(r) /\ Entry(r) = Absent
          \/ YankMark(r) /\ Entry(r) = seen[r]
      BY <2>a, <2>7, <3>1 DEF WarmOf, PublishInsert, YankMark, Entry
    <3>4. Truth(r, mem[st[r]])' BY <3>3, Grows
    <3>5. \A k \in Keys : mem[_store][k] # Absent =>
              /\ mem'[_store][k] # Absent /\ mem'[_store][k].digest = mem[_store][k].digest
              /\ mem[_store][k].yanked => mem'[_store][k].yanked
      BY <2>a, <3>3, Grows
    <3>6. ASSUME NEW q \in Requests, q # r PROVE Truth(q, mem[_store])'
      <4>1. Truth(q, mem[_store]) BY <2>a
      <4> QED BY <1>a, <3>2, <3>5, <3>6, <4>1 DEF Truth
    <3>7. Truth(r, mem[_store])' BY <3>1, <3>2, <3>4 DEF Truth
    <3> QED BY <3>6, <3>7 DEF SpreadTrue
  <2>8. CASE UNCHANGED vars BY <2>2, <2>8 DEF vars
  <2> QED BY <1>b, <2>3, <2>4, <2>5, <2>6, <2>7, <2>8 DEF Next, Handle
<1> QED BY <1>1, <1>2

\* The registry under the loads for which it promises its clients something.
ServingInv ==
  /\ TypeInv /\ Ended /\ Once /\ Asked
  /\ SerialInv /\ Missing
  /\ mode # "missing" => SpreadInv
  /\ SpreadTrue

\* It holds before the first request.
LEMMA ServingInit == EngineInit => ServingInv
<1> SUFFICES ASSUME EngineInit PROVE ServingInv OBVIOUS
<1>a. Init /\ plans = FALSE BY DEF EngineInit
<1>1. TypeInv /\ SpreadInv BY <1>a, TypeInit, SpreadInit
<1>2. Ended /\ Once /\ Asked BY <1>a DEF Init, Ended, Once, Asked
<1>3. Missing /\ SpreadTrue BY <1>a DEF Init, Missing, SpreadTrue, Outside
<1>4. SerialInv
  <2>1. OneInFlight /\ StoreServes BY <1>a DEF Init, OneInFlight, InFlight, Idle, StoreServes
  <2>2. FileServes BY <1>a DEF Init, FileServes, Told
  <2>3. \A r \in Requests : Turn(r) BY <1>a DEF Init, Turn, Outside, Saving
  <2> QED BY <2>1, <2>2, <2>3 DEF SerialInv, Serving
<1> QED BY <1>1, <1>2, <1>3, <1>4 DEF ServingInv

\* Every step keeps it.
LEMMA ServingStep ==
  ASSUME NoKills, ServingInv, [EngineNext]_allVars
  PROVE  ServingInv'
<1>a. /\ TypeInv /\ Ended /\ Once /\ Asked /\ SerialInv /\ Missing
      /\ mode # "missing" => SpreadInv
      /\ SpreadTrue
  BY DEF ServingInv
<1>b. mode' = mode /\ load' = load BY ModeKept
<1>c. [Next]_vars \/ \E r \in Requests : EngineStep(r) BY StepOfStore
<1>1. TypeInv' /\ Ended' /\ Once' /\ Asked' /\ SerialInv' /\ Missing'
  BY <1>a, <1>b, <1>c, EngineTypeStep, EndedStep, OnceStep, AskedStep, SerialStep, MissingStep
<1>2. ASSUME mode # "missing" PROVE SpreadInv'
  <2>1. CASE [Next]_vars BY <1>a, <1>2, <2>1, SpreadStep DEF NoKills
  <2>2. CASE \E r \in Requests : EngineStep(r) BY <1>a, <1>2, <2>2, SpreadBeside
  <2> QED BY <1>c, <2>1, <2>2
<1>3. SpreadTrue'
  <2>1. CASE load # "spread" BY <1>b, <2>1 DEF SpreadTrue
  <2>2. CASE mode = "missing" BY <1>1, <1>b, <2>2 DEF Missing, SpreadTrue
  <2>3. CASE load = "spread" /\ mode # "missing" BY <1>a, <1>c, <2>3, SpreadTrueStep
  <2> QED BY <2>1, <2>2, <2>3
<1> QED BY <1>1, <1>2, <1>3, <1>b DEF ServingInv

\* The store that serves requests has what clients were told.
LEMMA StoreHolds ==
  ASSUME ServingInv, load # "any", _store # NoStore
  PROVE  AllKept(mem[_store])
<1>1. load \in {"serial", "spread"}
  BY RegistryAssumption DEF ServingInv, TypeInv, TypeOK
<1>2. CASE load = "serial" BY <1>2 DEF ServingInv, SerialInv, Serving, StoreServes
<1>3. CASE load = "spread"
  BY <1>3 DEF ServingInv, SpreadTrue, AllKept, Kept, Told, Truth
<1> QED BY <1>1, <1>2, <1>3

\* Every request that looks a version up looks it up in that store.
LEMMA StoreAtWork ==
  ASSUME ServingInv, load # "any", NEW r \in Requests, pc[r] \in {"publish", "yank", "get"}
  PROVE  st[r] = _store /\ _store # NoStore
<1>1. load \in {"serial", "spread"} /\ st[r] \in Requests
  BY RegistryAssumption DEF ServingInv, TypeInv, TypeOK, StoreInHand
<1>2. mode # "missing" BY DEF ServingInv, Missing, Outside
<1>3. CASE load = "serial"
  BY <1>1, <1>3, RegistryAssumption DEF ServingInv, SerialInv, Serving, Turn, Outside, Saving
<1>4. CASE load = "spread"
  BY <1>2, <1>4 DEF ServingInv, SpreadInv, Cold, Saving, WarmOf
<1> QED BY <1>1, <1>3, <1>4

\* However often the server is killed between two requests, in the midst of one or
\* while it saves: as long as the file is JSON it has every version and every yank a
\* client was told of, so that the next server comes back with them.
THEOREM DurableHolds == EngineSpec => []Durable
<1> DEFINE Inv == TypeInv /\ Ended /\ Once /\ SerialInv
<1>1. EngineInit => Inv BY ServingInit DEF ServingInv
<1>2. Inv /\ [EngineNext]_allVars => Inv'
  BY StepOfStore, ModeKept, EngineTypeStep, EndedStep, OnceStep, SerialStep
<1>3. Inv => Durable
  BY DEF SerialInv, Serving, FileServes, AllKept, Durable
<1> HIDE DEF Inv
<1> QED BY <1>1, <1>2, <1>3, PTL DEF EngineSpec

\* The store that later requests are served from has every version and every yank a
\* client was told of: with kills if requests come one by one, and without if they
\* overlap but no two change one version.
THEOREM AckedInMemoryHolds ==
  ASSUME NoKills
  PROVE  EngineSpec => []AckedInMemory
<1>1. ServingInv /\ [EngineNext]_allVars => ServingInv' BY ServingStep
<1>2. ServingInv => AckedInMemory
  BY StoreHolds DEF AckedInMemory, AllKept
<1> QED BY ServingInit, <1>1, <1>2, PTL DEF EngineSpec

\* Without lidb no request is decided.
LEMMA MissingQuiet ==
  ASSUME TypeInv, Missing, mode = "missing", [EngineNext]_allVars
  PROVE  UNCHANGED Index!vars
<1>a. _store = NoStore /\ \A r \in Requests : pc[r] \in {"new", "store", "open", "done"}
  BY DEF Missing, Outside
<1>b. _store' = NoStore BY MissingStep, ModeKept DEF Missing
<1>1. call' = call /\ outcome' = outcome
  <2>1. CASE UNCHANGED vars BY <2>1 DEF vars
  <2>2. ASSUME NEW r \in Requests, EngineStep(r) PROVE call' = call /\ outcome' = outcome
    BY <1>a, <2>2 DEF EngineStep, Raised, Answered, Beside, At
  <2>3. CASE Crash BY <2>3 DEF Crash
  <2>4. ASSUME NEW r \in Requests, Arrive(r) \/ get_registry_store(r) \/ _load(r)
        PROVE  call' = call /\ outcome' = outcome
    BY <2>4 DEF Arrive, get_registry_store, _load
  <2>5. ASSUME NEW r \in Requests
        PROVE  /\ ~SetStore(r) /\ ~Reject(r) /\ ~PublishCheck(r) /\ ~PublishInsert(r)
               /\ ~YankCheck(r) /\ ~YankMark(r) /\ ~get_package_version(r)
    BY <1>a DEF SetStore, Reject, PublishCheck, PublishInsert, YankCheck, YankMark,
       get_package_version, At
  <2>6. ASSUME NEW r \in Requests
        PROVE  ~SaveIterate(r) /\ ~SaveCollect(r) /\ ~SaveTruncate(r) /\ ~SaveWrite(r)
    BY <1>a DEF SaveIterate, SaveCollect, SaveTruncate, SaveWrite, At
  <2> QED BY <2>1, <2>2, <2>3, <2>4, <2>5, <2>6, StepOfStore DEF Next, Handle
<1>2. Current' = Current BY <1>a, <1>b DEF Current
<1> QED BY <1>1, <1>2 DEF Index!vars, Current

\* With plans that run, or raise, before every operation the registry still answers
\* as the index that handles one request at a time, if the engine does not answer
\* reads itself, the server is not killed and no two requests in flight change one
\* version: LiormRegistryStore.
THEOREM EngineImplementsIndex ==
  ASSUME NoKills, "spread" \in Loads => "ready" \notin Modes["spread"]
  PROVE  EngineSpec => ImplementsPackageIndex
<1> DEFINE Inv == ServingInv /\ ModeOK
<1>1. EngineInit => Inv BY ServingInit DEF EngineInit, ModeOK
<1>2. Inv /\ [EngineNext]_allVars => Inv' BY ServingStep, ModeKept DEF ModeOK
<1>3. Inv /\ [EngineNext]_allVars => [load = "spread" => Index!Next]_(Index!vars)
  <2> SUFFICES ASSUME Inv, [EngineNext]_allVars, load = "spread"
               PROVE  Index!Next \/ UNCHANGED Index!vars
    OBVIOUS
  <2>1. TypeInv /\ Missing /\ (mode # "missing" => SpreadInv) BY DEF ServingInv
  <2>2. "spread" \in Loads /\ mode # "ready" BY <2>1 DEF TypeInv, TypeOK, ModeOK
  <2>3. CASE mode = "missing" BY <2>1, <2>3, MissingQuiet
  <2>4. CASE mode # "missing" /\ [Next]_vars BY <2>1, <2>2, <2>4, IndexStep DEF NoKills
  <2>5. ASSUME mode # "missing", NEW r \in Requests, EngineStep(r) PROVE UNCHANGED Index!vars
    <3>1. Raised(r) BY <2>2, <2>5 DEF EngineStep, Answered
    <3>2. call' = call /\ outcome' = outcome /\ Current' = Current
      BY <3>1 DEF Raised, Beside, Current
    <3> QED BY <3>2 DEF Index!vars, Current
  <2> QED BY <2>3, <2>4, <2>5, StepOfStore
<1> HIDE DEF Inv
<1>4. EngineInit => (load = "spread" => Index!Init) BY IndexInit DEF EngineInit
<1>5. EngineSpec => [][load = "spread" => Index!Next]_(Index!vars)
  BY <1>1, <1>2, <1>3, PTL DEF EngineSpec
<1> QED BY <1>4, <1>5 DEF ImplementsPackageIndex, EngineSpec

\* A version whose publication was answered is never answered 404: whatever plans
\* raise and whatever the engine returns, by this server or by the one after it.
THEOREM PublishedIsFoundHolds ==
  ASSUME NoKills
  PROVE  EngineSpec => PublishedIsFound
<1> DEFINE Found ==
      load # "any" =>
        \A r \in Requests :
          outcome'[r] = "not_found" /\ outcome[r] = "none" =>
            call[r].key \notin ToldKeys("published")
<1>1. ServingInv /\ [EngineNext]_allVars => [Found]_outcome
  <2> SUFFICES ASSUME ServingInv, [EngineNext]_allVars, load # "any", NEW r \in Requests,
                      outcome'[r] = "not_found", outcome[r] = "none"
               PROVE  call[r].key \notin ToldKeys("published")
    OBVIOUS
  <2>a. outcome \in [Requests -> Outcomes] BY DEF ServingInv, TypeInv, TypeOK
  <2>1. pc[r] \in {"publish", "yank", "get"} /\ Entry(r) = Absent
    <3>1. ASSUME NEW q \in Requests,
                 YankCheck(q) \/ get_package_version(q) \/ Reject(q) \/ PublishCheck(q)
          PROVE  pc[r] \in {"publish", "yank", "get"} /\ Entry(r) = Absent
      BY <2>a, <3>1 DEF YankCheck, get_package_version, Reject, PublishCheck, Decide, At
    <3>2. ASSUME NEW q \in Requests, PublishInsert(q) \/ YankMark(q) \/ EngineStep(q)
          PROVE  FALSE
      BY <2>a, <3>2 DEF PublishInsert, YankMark, EngineStep, Raised, Answered, Decide
    <3>3. outcome' # outcome OBVIOUS
    <3> QED BY <3>1, <3>2, <3>3, StepOfStore
        DEF Next, Handle, Arrive, get_registry_store, _load, SetStore, SaveIterate, SaveCollect,
            SaveTruncate, SaveWrite, Crash, vars
  <2>2. st[r] = _store /\ AllKept(mem[_store]) BY <2>1, StoreAtWork, StoreHolds
  <2>3. ASSUME NEW q \in Requests, Told(q, "published"), call[q].key = call[r].key PROVE FALSE
    BY <2>1, <2>2, <2>3 DEF AllKept, Kept, Entry
  <2> QED BY <2>3 DEF ToldKeys
<1>2. ServingInv /\ [EngineNext]_allVars => ServingInv' BY ServingStep
<1> HIDE DEF Found
<1>3. EngineSpec => [][Found]_outcome BY ServingInit, <1>1, <1>2, PTL DEF EngineSpec
<1> QED BY <1>3 DEF Found, PublishedIsFound

-----------------------------------------------------------------------------
(* Listings.                                                                *)

\* A listing under way has what clients had been told when it began, and the store
\* still says it.
ListInv ==
  /\ list \in [at : {"none", "filter", "done"}, collected : SUBSET Keys, hidden : SUBSET Keys,
               published : SUBSET Keys, yanked : SUBSET Keys]
  /\ load # "any" =>
       /\ list.at = "filter" =>
            /\ _store # NoStore
            /\ \A k \in list.collected : mem[_store][k] # Absent
            /\ list.published \subseteq list.collected
            /\ list.yanked \subseteq list.collected
            /\ \A k \in list.yanked : mem[_store][k].yanked
       /\ list.at = "done" =>
            /\ list.published \subseteq list.collected
            /\ list.yanked \subseteq list.hidden
            /\ list.hidden \subseteq YankKeys

\* The store that serves requests is replaced only when there is none, and grows.
LEMMA StoreGrows ==
  ASSUME ServingInv, load # "any", _store # NoStore, [EngineNext]_allVars, ~EngineCrash
  PROVE  /\ _store' = _store
         /\ \A k \in Keys : mem[_store][k] # Absent =>
              mem'[_store][k] # Absent /\ (mem[_store][k].yanked => mem'[_store][k].yanked)
<1> USE DEF At
<1>a. /\ TypeInv /\ load \in {"serial", "spread"} /\ _store \in Requests
      /\ mode # "missing"
  BY RegistryAssumption DEF ServingInv, TypeInv, TypeOK, Missing
<1>b. load = "serial" => \A r \in Requests : Turn(r)
  BY DEF ServingInv, SerialInv, Serving
<1>c. load = "spread" => \A r \in Requests : WarmOf(r)
  BY <1>a DEF ServingInv, SpreadInv
<1>1. ASSUME NEW r \in Requests, _load(r) \/ SetStore(r) PROVE FALSE
  <2>1. load # "spread" BY <1>c, <1>1 DEF WarmOf, _load, SetStore
  <2>2. Turn(r) BY <1>a, <1>b, <2>1
  <2> QED BY <1>1, <2>2 DEF Turn, Outside, _load, SetStore
<1>2. ASSUME NEW r \in Requests, PublishInsert(r) \/ YankMark(r)
      PROVE  /\ _store' = _store
             /\ \A k \in Keys : mem[_store][k] # Absent =>
                  mem'[_store][k] # Absent /\ (mem[_store][k].yanked => mem'[_store][k].yanked)
  <2>1. CASE load = "serial"
    <3>1. \/ PublishInsert(r) /\ Entry(r) = Absent
          \/ YankMark(r) /\ Entry(r) = seen[r]
      BY <1>b, <1>2, <2>1 DEF Turn, PublishInsert, YankMark
    <3>2. _store' = _store BY <1>2 DEF PublishInsert, YankMark
    <3> QED BY <1>a, <3>1, <3>2, Grows
  <2>2. CASE load = "spread"
    <3>1. \/ PublishInsert(r) /\ Entry(r) = Absent
          \/ YankMark(r) /\ Entry(r) = seen[r]
      BY <1>c, <1>2, <2>2 DEF WarmOf, PublishInsert, YankMark, Entry
    <3>2. _store' = _store BY <1>2 DEF PublishInsert, YankMark
    <3> QED BY <1>a, <3>1, <3>2, Grows
  <2> QED BY <1>a, <2>1, <2>2
<1>3. CASE UNCHANGED <<_store, mem>> BY <1>3
<1>4. ASSUME NEW r \in Requests,
             \/ Arrive(r) \/ get_registry_store(r) \/ Reject(r) \/ PublishCheck(r)
             \/ YankCheck(r) \/ get_package_version(r)
      PROVE  UNCHANGED <<_store, mem>>
  BY <1>4 DEF Arrive, get_registry_store, Reject, PublishCheck, YankCheck, get_package_version
<1>5. ASSUME NEW r \in Requests,
             \/ SaveIterate(r) \/ SaveCollect(r) \/ SaveTruncate(r) \/ SaveWrite(r)
      PROVE  UNCHANGED <<_store, mem>>
  BY <1>5 DEF SaveIterate, SaveCollect, SaveTruncate, SaveWrite
<1>6. CASE UNCHANGED allVars BY <1>6 DEF allVars, vars
<1>7. ASSUME NEW r \in Requests, ensure_registry_plans(r) \/ _run_plan(r) \/ NativeGet(r)
      PROVE  UNCHANGED <<_store, mem>>
  BY <1>7 DEF ensure_registry_plans, _run_plan, NativeGet
<1>8. CASE ListCollect \/ ListFilter BY <1>8 DEF ListCollect, ListFilter, vars
<1> QED BY <1>1, <1>2, <1>3, <1>4, <1>5, <1>6, <1>7, <1>8 DEF EngineNext, open_liorm_store, BackingGet

\* A step of anybody leaves a listing true.
LEMMA ListStep ==
  ASSUME ServingInv, StoreSourced, ListInv, [EngineNext]_allVars
  PROVE  ListInv'
<1>a. /\ list \in [at : {"none", "filter", "done"}, collected : SUBSET Keys, hidden : SUBSET Keys,
                   published : SUBSET Keys, yanked : SUBSET Keys]
      /\ load' = load /\ mode' = mode
  BY ModeKept DEF ListInv
<1>b. YankKeys' = YankKeys
  BY StepOfStore, SourceStays DEF ServingInv
<1>c. /\ mem \in [Requests -> Versions] /\ _store \in Requests \cup {NoStore}
      /\ \A q \in Requests : call[q].key \in Keys
  BY CallType DEF ServingInv, TypeInv, TypeOK
<1>1. ASSUME UNCHANGED list, ~EngineCrash PROVE ListInv'
  <2>1. CASE load = "any" \/ list.at # "filter"
    BY <1>a, <1>b, <1>1, <2>1 DEF ListInv
  <2>2. CASE load # "any" /\ list.at = "filter"
    <3>1. _store # NoStore BY <2>2 DEF ListInv
    <3>2. /\ _store' = _store
          /\ \A k \in Keys : mem[_store][k] # Absent =>
               mem'[_store][k] # Absent /\ (mem[_store][k].yanked => mem'[_store][k].yanked)
      BY <1>1, <2>2, <3>1, StoreGrows
    <3>3. list.collected \subseteq Keys /\ list.yanked \subseteq Keys BY <1>a
    <3> QED BY <1>a, <1>1, <2>2, <3>1, <3>2, <3>3 DEF ListInv
  <2> QED BY <2>1, <2>2
<1>2. CASE EngineCrash
  <2>1. list' = NoList BY <1>2 DEF EngineCrash
  <2> QED BY <2>1 DEF ListInv, NoList
<1>3. CASE ListCollect
  <2>1. /\ _store # NoStore /\ UNCHANGED <<_store, mem, call>>
        /\ list' = [at |-> "filter", collected |-> {k \in Keys : mem[_store][k] # Absent},
                    hidden |-> {}, published |-> ToldKeys("published"),
                    yanked |-> ToldKeys("yanked")]
    BY <1>3 DEF ListCollect, vars
  <2>2. ToldKeys("published") \subseteq Keys /\ ToldKeys("yanked") \subseteq Keys
    BY <1>c DEF ToldKeys
  <2>3. ASSUME load # "any"
        PROVE  /\ \A k \in ToldKeys("published") : mem[_store][k] # Absent
               /\ \A k \in ToldKeys("yanked") : mem[_store][k] # Absent /\ mem[_store][k].yanked
    <3>1. AllKept(mem[_store]) BY <2>1, <2>3, StoreHolds
    <3> QED BY <3>1 DEF AllKept, Kept, ToldKeys
  <2>4. /\ list'.at = "filter" /\ list'.collected = {k \in Keys : mem[_store][k] # Absent}
        /\ list'.published = ToldKeys("published") /\ list'.yanked = ToldKeys("yanked")
    BY <2>1
  <2>5. list' \in [at : {"none", "filter", "done"}, collected : SUBSET Keys, hidden : SUBSET Keys,
                   published : SUBSET Keys, yanked : SUBSET Keys]
    BY <2>1, <2>2
  <2> QED BY <1>a, <2>1, <2>2, <2>3, <2>4, <2>5 DEF ListInv
<1>4. CASE ListFilter
  <2>1. /\ list.at = "filter" /\ UNCHANGED <<_store, mem, call>>
        /\ list' = [list EXCEPT !.at = "done",
                                !.hidden = {k \in list.collected : mem[_store][k].yanked}]
    BY <1>4 DEF ListFilter, vars
  <2>2. /\ list'.at = "done" /\ list'.hidden = {k \in list.collected : mem[_store][k].yanked}
        /\ list'.published = list.published /\ list'.collected = list.collected
        /\ list'.yanked = list.yanked
    BY <1>a, <2>1
  <2>3. list' \in [at : {"none", "filter", "done"}, collected : SUBSET Keys, hidden : SUBSET Keys,
                   published : SUBSET Keys, yanked : SUBSET Keys]
    BY <1>a, <2>1
  <2>4. ASSUME load # "any", NEW k \in list'.hidden PROVE k \in YankKeys
    <3>1. k \in list.collected /\ mem[_store][k].yanked /\ k \in Keys BY <1>a, <2>2, <2>4
    <3>2. _store \in Requests /\ mem[_store][k] # Absent
      BY <1>c, <2>1, <2>4, <3>1 DEF ListInv
    <3> QED BY <3>1, <3>2 DEF StoreSourced, Sourced
  <2>5. load # "any" =>
          /\ list.published \subseteq list.collected
          /\ list.yanked \subseteq list.collected
          /\ \A k \in list.yanked : mem[_store][k].yanked
    BY <2>1 DEF ListInv
  <2> QED BY <1>a, <1>b, <2>2, <2>3, <2>4, <2>5 DEF ListInv
<1>5. UNCHANGED list \/ ListCollect \/ ListFilter \/ EngineCrash
  BY DEF EngineNext, allVars, Rest, listVars, ensure_registry_plans, open_liorm_store, _run_plan,
     NativeGet, BackingGet
<1> QED BY <1>1, <1>2, <1>3, <1>4, <1>5

\* A listing, which is collected and filtered beside requests that publish and yank,
\* has every version whose publication was answered before it began, unless it leaves
\* it out as yanked, which somebody asked for; it leaves out every version whose yank
\* was answered before it began.
THEOREM ListingIsTrueHolds ==
  ASSUME NoKills
  PROVE  EngineSpec => []ListingIsTrue
<1> DEFINE Inv == ServingInv /\ StoreSourced /\ ListInv
<1>1. EngineInit => Inv
  <2> SUFFICES ASSUME EngineInit PROVE Inv OBVIOUS
  <2>1. StoreSourced BY DEF EngineInit, Init, StoreSourced, Sourced, Nothing
  <2>2. ListInv BY DEF EngineInit, ListInv, NoList
  <2> QED BY <2>1, <2>2, ServingInit
<1>2. Inv /\ [EngineNext]_allVars => Inv'
  <2> SUFFICES ASSUME Inv, [EngineNext]_allVars PROVE Inv' OBVIOUS
  <2>1. StoreSourced' BY StepOfStore, StoreSourcedStep DEF ServingInv
  <2> QED BY <2>1, ServingStep, ListStep
<1>3. Inv => ListingIsTrue
  BY DEF ListInv, ListingIsTrue, YankKeys
<1> HIDE DEF Inv
<1> QED BY <1>1, <1>2, <1>3, PTL DEF EngineSpec
=============================================================================
