--------------------------- MODULE ProjectsProofs ---------------------------
(***************************************************************************)
(* For any number of requests, projects and kills: the type invariant of   *)
(* Projects, and that overlapping requests, which do lose each other's     *)
(* projects, never store two projects with the same ports, or one with     *)
(* other ports than its client was told.  For requests that do not read    *)
(* the store while another is to write it, and without a kill: that they   *)
(* lose nothing and give every project ports of its own.                   *)
(***************************************************************************)
EXTENDS Projects, FiniteSetTheorems, TLAPS

\* A store that may be written: its projects have ports of their own, the ones
\* told to their clients.
Fit(store, t) ==
  /\ Disjoint(store)
  /\ \A p \in Requests : Has(store, p) => store.block[p] = t[p]

\* allocatePorts has not run for a request that has not reached it.
Untold == \A r \in Requests : pc[r] \in {"new", "create"} => told[r] = NoBlock

IInv == TypeOK /\ DisjointStores /\ PortsFixed /\ Untold

-----------------------------------------------------------------------------
(* What the steps do to a store.                                            *)

LEMMA InvFit ==
  ASSUME TypeOK
  PROVE  DisjointStores /\ PortsFixed
           <=> Fit(disk, told) /\ \A r \in Requests : Fit(copy[r], told)
<1>1. ASSUME DisjointStores, PortsFixed
      PROVE  Fit(disk, told) /\ \A r \in Requests : Fit(copy[r], told)
  <2>1. \A store \in {disk} \cup {copy[r] : r \in Requests} :
          \A p \in Requests : Has(store, p) => store.block[p] = told[p]
    BY <1>1 DEF PortsFixed
  <2>2. QED
    BY <1>1, <2>1 DEF DisjointStores, Fit
<1>2. ASSUME Fit(disk, told), \A r \in Requests : Fit(copy[r], told)
      PROVE  DisjointStores /\ PortsFixed
  BY <1>2 DEF Fit, DisjointStores, PortsFixed
<1>3. QED
  BY <1>1, <1>2

LEMMA DefaultFits ==
  /\ defaultStore \in Stores
  /\ \A t : Fit(defaultStore, t)
<1>1. \A p \in Requests : ~Has(defaultStore, p)
  BY DEF defaultStore, Has
<1>2. defaultStore \in Stores
  BY DEF defaultStore, Stores, Statuses
<1>3. QED
  BY <1>1, <1>2 DEF Fit, Disjoint

LEMMA ReadFits ==
  ASSUME TypeOK, Fit(disk, told)
  PROVE  readStore \in Stores /\ Fit(readStore, told)
BY DefaultFits DEF readStore, TypeOK

LEMMA AllocatedType ==
  ASSUME NEW store \in Stores, NEW p \in Requests
  PROVE  allocatePorts(store, p) \in Stores
BY DEF allocatePorts, Stores

\* A new project gets ports nobody in the store has, and the other projects
\* keep theirs.
LEMMA AllocatedFits ==
  ASSUME NEW store \in Stores, NEW p \in Requests,
         NEW t \in [Requests -> Nat \cup {NoBlock}], Fit(store, t)
  PROVE  /\ allocatePorts(store, p) \in Stores
         /\ Fit(allocatePorts(store, p), [t EXCEPT ![p] = store.next])
<1> DEFINE new == allocatePorts(store, p)
<1>1. /\ store.next \in Nat
      /\ store.block \in [Requests -> Nat \cup {NoBlock}]
      /\ store.status \in [Requests -> Statuses]
  BY DEF Stores
<1>2. new = [next |-> store.next + 1,
             block |-> [store.block EXCEPT ![p] = store.next],
             status |-> store.status]
  BY DEF allocatePorts
<1>3. /\ new \in Stores
      /\ new.next = store.next + 1
      /\ new.block[p] = store.next
      /\ \A q \in Requests \ {p} : new.block[q] = store.block[q]
  BY <1>1, <1>2 DEF Stores
<1>4. \A q \in Requests \ {p} :
        Has(new, q) => new.block[q] = t[q] /\ new.block[q] < store.next
                       /\ new.block[q] \in Nat
  BY <1>1, <1>3 DEF Fit, Disjoint, Has
<1>5. Disjoint(new)
  <2>1. ASSUME NEW q \in Requests, Has(new, q)
        PROVE  new.block[q] < new.next
    BY <1>1, <1>3, <1>4, <2>1
  <2>2. ASSUME NEW q \in Requests, Has(new, q), NEW o \in Requests \ {q}
        PROVE  new.block[o] # new.block[q]
    <3>1. CASE q = p
      BY <1>1, <1>3, <1>4, <2>2, <3>1, ProjectsAssumption DEF Has
    <3>2. CASE q # p /\ o = p
      BY <1>1, <1>3, <1>4, <2>2, <3>2
    <3>3. CASE q # p /\ o # p
      BY <1>3, <2>2, <3>3 DEF Fit, Disjoint, Has
    <3>4. QED
      BY <3>1, <3>2, <3>3
  <2>3. QED
    BY <2>1, <2>2 DEF Disjoint
<1>6. QED
  BY <1>3, <1>4, <1>5 DEF Fit

\* A new status leaves every project its ports.
LEMMA RecordedFits ==
  ASSUME NEW store \in Stores, NEW p \in Requests, NEW status \in Statuses,
         NEW t, Fit(store, t)
  PROVE  /\ [store EXCEPT !.status[p] = status] \in Stores
         /\ Fit([store EXCEPT !.status[p] = status], t)
<1> DEFINE new == [store EXCEPT !.status[p] = status]
<1>1. /\ new \in Stores
      /\ new.next = store.next
      /\ new.block = store.block
  BY DEF Stores
<1>2. QED
  BY <1>1 DEF Fit, Disjoint, Has

LEMMA TextLengthNat ==
  ASSUME NEW store
  PROVE  TextLength(store) \in Nat
<1> DEFINE named == {p \in Requests : Has(store, p)}
           long == {p \in LongNamed : Has(store, p)}
<1>1. IsFiniteSet(named) /\ IsFiniteSet(LongNamed) /\ IsFiniteSet(long)
  BY ProjectsAssumption, FS_Subset
<1>2. Cardinality(named) \in Nat /\ Cardinality(long) \in Nat
  BY <1>1, FS_CardinalityType
<1>3. QED
  BY <1>2 DEF TextLength

-----------------------------------------------------------------------------
\* The type invariant.
LEMMA TypeInit == Init => TypeOK
BY DefaultFits, ProjectsAssumption DEF Init, TypeOK

LEMMA TypeStep ==
  ASSUME TypeOK, [Next]_vars
  PROVE  TypeOK'
<1> USE DEF TypeOK
<1>1. ASSUME NEW r \in Requests, Arrive(r)
      PROVE  TypeOK'
  <2>1. call[r].op \in {"create", "launch", "get"}
    BY ProjectsAssumption
  <2>2. QED
    BY <1>1, <2>1 DEF Arrive, Goto, fileVars
<1>2. ASSUME NEW r \in Requests, createProject(r)
      PROVE  TypeOK'
  <2>1. readStore \in Stores /\ readStore.next \in Nat
    BY DefaultFits DEF readStore, Stores
  <2>2. allocatePorts(readStore, r) \in Stores
    BY <2>1, AllocatedType
  <2>3. QED
    BY <1>2, <2>1, <2>2 DEF createProject, Goto, fileVars
<1>3. ASSUME NEW r \in Requests, getProject(r)
      PROVE  TypeOK'
  BY <1>3 DEF getProject, Goto, Finish, fileVars
<1>4. ASSUME NEW r \in Requests, Launched(r)
      PROVE  TypeOK'
  BY <1>4 DEF Launched, Goto, fileVars
<1>5. ASSUME NEW r \in Requests, updateProject(r)
      PROVE  TypeOK'
  <2>1. readStore \in Stores
    BY DefaultFits DEF readStore
  <2>2. /\ [readStore EXCEPT !.status[call[r].id] = result[r]] \in Stores
        /\ result[r] \in {"running", "unknown"}
    BY <2>1 DEF Stores, Statuses
  <2>3. QED
    BY <1>5, <2>2 DEF updateProject, Goto, Finish, fileVars
<1>6. ASSUME NEW r \in Requests, Truncate(r)
      PROVE  TypeOK'
  BY <1>6 DEF Truncate, Goto
<1>7. ASSUME NEW r \in Requests, Write(r)
      PROVE  TypeOK'
  <2>1. TextLength(copy[r]) \in Nat
    BY TextLengthNat
  <2>2. result[r] \in {"running", "unknown"}
    OBVIOUS
  <2>3. QED
    BY <1>7, <2>1, <2>2 DEF Write, Goto, Finish
<1>8. ASSUME Crash
      PROVE  TypeOK'
  <2>1. crashes' \in Nat
    BY <1>8 DEF Crash
  <2>2. QED
    BY <1>8, <2>1 DEF Crash, fileVars
<1>9. CASE UNCHANGED vars
  BY <1>9 DEF vars, fileVars
<1>10. QED
  BY <1>1, <1>2, <1>3, <1>4, <1>5, <1>6, <1>7, <1>8, <1>9 DEF Next, Handle

-----------------------------------------------------------------------------
LEMMA InvInit == Init => IInv
<1> SUFFICES ASSUME Init PROVE IInv
  OBVIOUS
<1>1. TypeOK
  BY TypeInit
<1>2. Fit(disk, told) /\ \A r \in Requests : Fit(copy[r], told)
  BY DefaultFits DEF Init
<1>3. QED
  BY <1>1, <1>2, InvFit DEF Init, IInv, Untold

LEMMA InvStep ==
  ASSUME IInv, [Next]_vars
  PROVE  IInv'
<1>1. TypeOK /\ TypeOK'
  BY TypeStep DEF IInv
<1>2. Fit(disk, told) /\ \A r \in Requests : Fit(copy[r], told)
  BY <1>1, InvFit DEF IInv
<1>3. SUFFICES /\ Fit(disk', told')
               /\ \A r \in Requests : Fit(copy[r]', told')
               /\ Untold'
  <2>1. (DisjointStores /\ PortsFixed
           <=> Fit(disk, told) /\ \A r \in Requests : Fit(copy[r], told))'
    BY <1>1, InvFit, PTL
  <2>2. QED
    BY <1>1, <2>1 DEF IInv
<1>4. readStore \in Stores /\ Fit(readStore, told)
  BY <1>1, <1>2, ReadFits
<1>5. \A p \in Requests : told[p] = NoBlock =>
        ~Has(disk, p) /\ \A r \in Requests : ~Has(copy[r], p)
  BY <1>2 DEF Fit, Has
<1> USE DEF Untold, TypeOK, IInv
<1>6. ASSUME NEW r \in Requests, Arrive(r)
      PROVE  Fit(disk', told') /\ (\A q \in Requests : Fit(copy[q]', told')) /\ Untold'
  BY <1>2, <1>6 DEF Arrive, At, Goto, fileVars
<1>7. ASSUME NEW r \in Requests, createProject(r)
      PROVE  Fit(disk', told') /\ (\A q \in Requests : Fit(copy[q]', told')) /\ Untold'
  <2>1. told' = [told EXCEPT ![r] = readStore.next] /\ told[r] = NoBlock
    BY <1>7 DEF createProject, At
  <2>2. Fit(allocatePorts(readStore, r), told')
    BY <1>1, <1>4, <2>1, AllocatedFits
  <2>3. ASSUME NEW store, Fit(store, told), ~Has(store, r)
        PROVE  Fit(store, told')
    BY <2>1, <2>3, <1>1 DEF Fit
  <2>4. Fit(disk, told') /\ \A q \in Requests : Fit(copy[q], told')
    BY <1>2, <1>5, <2>1, <2>3
  <2>5. disk' = disk /\ copy' = [copy EXCEPT ![r] = allocatePorts(readStore, r)]
    BY <1>7 DEF createProject, fileVars
  <2>6. Untold'
    BY <1>7, <2>1 DEF createProject, Goto
  <2>7. QED
    BY <1>1, <2>2, <2>4, <2>5, <2>6
<1>8. ASSUME NEW r \in Requests, getProject(r)
      PROVE  Fit(disk', told') /\ (\A q \in Requests : Fit(copy[q]', told')) /\ Untold'
  BY <1>2, <1>8 DEF getProject, At, Goto, Finish, fileVars
<1>9. ASSUME NEW r \in Requests, Launched(r)
      PROVE  Fit(disk', told') /\ (\A q \in Requests : Fit(copy[q]', told')) /\ Untold'
  BY <1>2, <1>9 DEF Launched, At, Goto, fileVars
<1>10. ASSUME NEW r \in Requests, updateProject(r)
       PROVE  Fit(disk', told') /\ (\A q \in Requests : Fit(copy[q]', told')) /\ Untold'
  <2>1. call[r].id \in Requests /\ result[r] \in Statuses
    BY ProjectsAssumption DEF Statuses
  <2>2. Fit([readStore EXCEPT !.status[call[r].id] = result[r]], told)
    BY <1>4, <2>1, RecordedFits
  <2>3. disk' = disk /\ told' = told /\ Untold'
    BY <1>10 DEF updateProject, At, Goto, Finish, fileVars
  <2>4. \A q \in Requests : Fit(copy[q]', told)
    BY <1>2, <1>10, <2>2 DEF updateProject
  <2>5. QED
    BY <1>2, <2>3, <2>4
<1>11. ASSUME NEW r \in Requests, Truncate(r)
       PROVE  Fit(disk', told') /\ (\A q \in Requests : Fit(copy[q]', told')) /\ Untold'
  BY <1>2, <1>11 DEF Truncate, At, Goto
<1>12. ASSUME NEW r \in Requests, Write(r)
       PROVE  Fit(disk', told') /\ (\A q \in Requests : Fit(copy[q]', told')) /\ Untold'
  <2>1. told' = told /\ copy' = copy /\ disk' \in {disk, copy[r]}
    BY <1>12 DEF Write
  <2>2. Untold'
    BY <1>12 DEF Write, At, Goto, Finish
  <2>3. QED
    BY <1>2, <2>1, <2>2
<1>13. ASSUME Crash
       PROVE  Fit(disk', told') /\ (\A q \in Requests : Fit(copy[q]', told')) /\ Untold'
  <2>1. told' = told /\ copy' = copy /\ disk' = disk
    BY <1>13 DEF Crash, fileVars
  <2>2. \A q \in Requests : pc'[q] \in {pc[q], "done"}
    BY <1>13 DEF Crash
  <2>3. QED
    BY <1>2, <2>1, <2>2
<1>14. CASE UNCHANGED vars
  BY <1>2, <1>14 DEF vars, fileVars
<1>15. QED
  BY <1>6, <1>7, <1>8, <1>9, <1>10, <1>11, <1>12, <1>13, <1>14 DEF Next, Handle

-----------------------------------------------------------------------------
\* Every variable of the project store keeps its type.
THEOREM TypeCorrect == Spec => []TypeOK
<1>1. Init => TypeOK
  BY TypeInit
<1>2. TypeOK /\ [Next]_vars => TypeOK'
  BY TypeStep
<1>3. QED
  BY <1>1, <1>2, PTL DEF Spec

\* However requests overlap and whenever Studio is killed, no store that
\* projects-store.ts reads or writes has two projects with the same ports.
THEOREM DisjointStoresHold == Spec => []DisjointStores
<1>1. IInv => DisjointStores
  BY DEF IInv
<1>2. IInv /\ [Next]_vars => IInv'
  BY InvStep
<1>3. QED
  BY InvInit, <1>1, <1>2, PTL DEF Spec

\* updateProject and createProject write all projects, yet a project never has
\* other ports than its client was told.
THEOREM PortsFixedHolds == Spec => []PortsFixed
<1>1. IInv => PortsFixed
  BY DEF IInv
<1>2. IInv /\ [Next]_vars => IInv'
  BY InvStep
<1>3. QED
  BY InvInit, <1>1, <1>2, PTL DEF Spec

-----------------------------------------------------------------------------
(* Requests that keep apart: the load "apart".                              *)

\* The status of a project is one that a launch of it reported, or "stopped" if
\* none has reported any.
StatusTrue(p) ==
  \/ /\ disk.status[p] = "stopped"
     /\ \A r \in Requests : answer[r] \in {"running", "unknown"} => call[r].id # p
  \/ \E r \in Requests : call[r].id = p /\ answer[r] = disk.status[p]

\* Only a request that is done has an answer.
Unanswered == \A r \in Requests : pc[r] # "done" => answer[r] = "none"

OneWriter == \A r, q \in Writers : r = q

\* What is in the file between writes, and what its clients know of it.
Stored ==
  /\ file = "torn" /\ disk # defaultStore => \E r \in Requests : At(r, "write")
  /\ \A p \in Requests : (answer[p] = "created") = Has(disk, p)
  /\ \A p \in Requests : StatusTrue(p)

\* A request: the project it launches is there, and what it is to write is the file
\* with one project more, or with one status changed.
InStep(r) ==
  /\ At(r, "create") => call[r].op = "create"
  /\ pc[r] \in {"launch", "launching", "update"} => call[r].op = "launch"
  /\ pc[r] \in {"launching", "update"} => Has(disk, call[r].id)
  /\ pc[r] \in {"truncate", "write"} =>
       IF call[r].op = "create"
       THEN copy[r] = allocatePorts(disk, r)
       ELSE copy[r] = [disk EXCEPT !.status[call[r].id] = result[r]]
  /\ At(r, "write") => length = 0

ApartInv ==
  load = "apart" => OneWriter /\ Stored /\ \A r \in Requests : InStep(r)

\* Studio is not killed in this load.
NoKills == "apart" \in Loads => MaxCrashes["apart"] = 0

LEMMA UnansweredStep ==
  ASSUME TypeOK, Unanswered, [Next]_vars
  PROVE  Unanswered'
<1> USE DEF TypeOK, Unanswered, At, Goto
<1>1. ASSUME NEW r \in Requests, Arrive(r) \/ createProject(r) \/ Launched(r) \/ Truncate(r)
      PROVE  Unanswered'
  BY <1>1 DEF Arrive, createProject, Launched, Truncate
<1>2. ASSUME NEW r \in Requests, getProject(r) \/ updateProject(r) \/ Write(r)
      PROVE  Unanswered'
  BY <1>2 DEF getProject, updateProject, Write, Finish
<1>3. ASSUME Crash
      PROVE  Unanswered'
  BY <1>3 DEF Crash
<1>4. CASE UNCHANGED vars
  BY <1>4 DEF vars
<1>5. QED
  BY <1>1, <1>2, <1>3, <1>4 DEF Next, Handle

\* Nobody is to write when a request reads, and Studio is not killed.
LEMMA OneWriterStep ==
  ASSUME TypeOK, NoKills, load = "apart", OneWriter, [Next]_vars
  PROVE  OneWriter' /\ load' = load /\ ~Crash
<1> USE DEF TypeOK, OneWriter, Writers, At, Goto
<1>1. ASSUME NEW r \in Requests, Arrive(r)
      PROVE  OneWriter' /\ load' = load
  <2>1. call[r].op \in {"create", "launch", "get"}
    BY ProjectsAssumption
  <2>2. QED
    BY <1>1, <2>1 DEF Arrive
<1>2. ASSUME NEW r \in Requests, MayRead,
             createProject(r) \/ getProject(r) \/ updateProject(r)
      PROVE  OneWriter' /\ load' = load
  <2>1. Writers = {} /\ load' = load
    BY <1>2 DEF MayRead, createProject, getProject, updateProject
  <2>2. \A q \in Requests : q # r => pc'[q] = pc[q]
    BY <1>2 DEF createProject, getProject, updateProject, Finish
  <2>3. QED
    BY <2>1, <2>2
<1>3. ASSUME NEW r \in Requests, Launched(r) \/ Truncate(r) \/ Write(r)
      PROVE  OneWriter' /\ load' = load
  BY <1>3 DEF Launched, Truncate, Write, Finish
<1>4. ~Crash
  BY ProjectsAssumption DEF Crash, NoKills
<1>5. CASE UNCHANGED vars
  BY <1>4, <1>5 DEF vars
<1>6. QED
  BY <1>1, <1>2, <1>3, <1>4, <1>5 DEF Next, Handle

\* While the file is not being written, it reads as what it says.
LEMMA ReadsTrue ==
  ASSUME TypeOK, load = "apart", Stored, MayRead
  PROVE  readStore = disk /\ \A q \in Requests : ~At(q, "write")
<1>1. \A q \in Requests : ~At(q, "write")
  BY DEF MayRead, Writers, At
<1>2. QED
  BY <1>1 DEF Stored, readStore, TypeOK

\* A step of a request leaves the others as they are, if it does not write while
\* another is to.
LEMMA OthersStay ==
  ASSUME TypeOK, \A q \in Requests : InStep(q), NEW r \in Requests,
         InStep(r)', UNCHANGED call,
         \/ Writers \subseteq {r} /\ \A p \in Requests : Has(disk, p) => Has(disk, p)'
         \/ UNCHANGED <<disk, length>>,
         \A q \in Requests : q # r => pc'[q] = pc[q] /\ copy'[q] = copy[q]
                                      /\ result'[q] = result[q]
  PROVE  \A q \in Requests : InStep(q)'
<1>1. \A q \in Requests : call[q].id \in Requests
  BY ProjectsAssumption DEF TypeOK
<1>2. ASSUME NEW q \in Requests, q # r
      PROVE  InStep(q)'
  <2>1. InStep(q)
    OBVIOUS
  <2>2. pc'[q] = pc[q] /\ copy'[q] = copy[q] /\ result'[q] = result[q]
    BY <1>2
  <2>3. CASE Writers \subseteq {r} /\ \A p \in Requests : Has(disk, p) => Has(disk, p)'
    <3>1. pc[q] \notin {"truncate", "write"}
      BY <1>2, <2>3 DEF Writers
    <3>2. QED
      BY <1>1, <2>1, <2>2, <2>3, <3>1 DEF InStep, At
  <2>4. CASE UNCHANGED <<disk, length>>
    BY <2>1, <2>2, <2>4 DEF InStep, At, Has, allocatePorts
  <2>5. QED
    BY <2>3, <2>4
<1>3. QED
  BY <1>2

\* An answer that reports no status and creates nothing changes nothing that is
\* known of the file.
LEMMA StoredStays ==
  ASSUME TypeOK, Unanswered, Stored, UNCHANGED <<call, disk>>,
         \/ UNCHANGED file /\ \A r \in Requests : At(r, "write") => At(r, "write")'
         \/ \E r \in Requests : At(r, "write")',
         \/ UNCHANGED answer
         \/ \E r \in Requests : pc[r] # "done" /\ answer' = [answer EXCEPT ![r] = "found"]
         \/ \E r \in Requests : pc[r] # "done" /\ answer' = [answer EXCEPT ![r] = "missing"]
  PROVE  Stored'
<1>1. file' = "torn" /\ disk' # defaultStore => \E r \in Requests : At(r, "write")'
  BY DEF Stored
<1>2. ASSUME NEW r \in Requests, NEW text \in {"found", "missing"}, pc[r] # "done",
             answer' = [answer EXCEPT ![r] = text]
      PROVE  /\ \A p \in Requests : (answer'[p] = "created") = Has(disk, p)
             /\ \A p \in Requests : StatusTrue(p)'
  <2>1. answer[r] = "none"
    BY <1>2 DEF Unanswered
  <2>2. \A q \in Requests : q # r => answer'[q] = answer[q]
    BY <1>2 DEF TypeOK
  <2>3. answer'[r] = text
    BY <1>2 DEF TypeOK
  <2>4. \A p \in Requests : (answer'[p] = "created") = Has(disk, p)
    BY <2>1, <2>2, <2>3 DEF Stored
  <2>5. ASSUME NEW p \in Requests
        PROVE  StatusTrue(p)'
    <3>1. CASE disk.status[p] = "stopped" /\ \A q \in Requests :
                 answer[q] \in {"running", "unknown"} => call[q].id # p
      <4>1. \A q \in Requests : answer'[q] \in {"running", "unknown"} => call[q].id # p
        BY <2>2, <2>3, <3>1
      <4>2. QED
        BY <3>1, <4>1 DEF StatusTrue
    <3>2. CASE \E q \in Requests : call[q].id = p /\ answer[q] = disk.status[p]
      <4>1. disk.status[p] # "none"
        BY DEF TypeOK, Stores, Statuses
      <4>2. QED
        BY <2>1, <2>2, <3>2, <4>1 DEF StatusTrue
    <3>3. QED
      BY <3>1, <3>2 DEF Stored, StatusTrue
  <2>6. QED
    BY <2>4, <2>5
<1>3. CASE UNCHANGED answer
  BY <1>1, <1>3 DEF Stored, StatusTrue, Has
<1>4. QED
  BY <1>1, <1>2, <1>3 DEF Stored, Has

-----------------------------------------------------------------------------
\* What each step of a request leaves behind.
LEMMA ArriveKeeps ==
  ASSUME TypeOK, Unanswered, load = "apart", OneWriter, Stored,
         \A q \in Requests : InStep(q), NEW r \in Requests, Arrive(r)
  PROVE  Stored' /\ \A q \in Requests : InStep(q)'
<1>1. /\ pc[r] = "new" /\ pc' = [pc EXCEPT ![r] = call[r].op]
      /\ UNCHANGED <<call, copy, result, file, disk, length, answer>>
      /\ call[r].op \in {"create", "launch", "get"}
  BY ProjectsAssumption DEF Arrive, At, Goto, fileVars, TypeOK
<1>2. pc'[r] = call[r].op /\ \A q \in Requests : q # r => pc'[q] = pc[q]
  BY <1>1 DEF TypeOK
<1>3. Stored'
  BY <1>1, <1>2 DEF Stored, StatusTrue, Has, At
<1>4. InStep(r)'
  BY <1>1, <1>2 DEF InStep, At
<1>5. QED
  BY <1>1, <1>2, <1>3, <1>4, OthersStay

LEMMA CreateKeeps ==
  ASSUME TypeOK, Unanswered, load = "apart", OneWriter, Stored,
         \A q \in Requests : InStep(q), NEW r \in Requests, MayRead, createProject(r)
  PROVE  Stored' /\ \A q \in Requests : InStep(q)'
<1>1. /\ pc[r] = "create" /\ pc' = [pc EXCEPT ![r] = "truncate"]
      /\ copy' = [copy EXCEPT ![r] = allocatePorts(readStore, r)]
      /\ UNCHANGED <<call, result, file, disk, length, answer>>
  BY DEF createProject, At, Goto, fileVars
<1>2. readStore = disk /\ \A q \in Requests : ~At(q, "write")
  BY ReadsTrue
<1>3. Stored'
  BY <1>1, <1>2, StoredStays
<1>4. pc'[r] = "truncate" /\ \A q \in Requests : q # r => pc'[q] = pc[q]
  BY <1>1 DEF TypeOK
<1>5. copy'[r] = allocatePorts(disk, r)
  BY <1>1, <1>2 DEF TypeOK
<1>6. call[r].op = "create"
  BY <1>1 DEF InStep, At
<1>7. InStep(r)'
  BY <1>1, <1>4, <1>5, <1>6 DEF InStep, At, allocatePorts
<1>8. QED
  BY <1>1, <1>2, <1>3, <1>4, <1>7, OthersStay

LEMMA GetKeeps ==
  ASSUME TypeOK, Unanswered, load = "apart", OneWriter, Stored,
         \A q \in Requests : InStep(q), NEW r \in Requests, MayRead, getProject(r)
  PROVE  Stored' /\ \A q \in Requests : InStep(q)'
<1>1. /\ pc[r] \in {"get", "launch"}
      /\ UNCHANGED <<call, copy, result, file, disk, length>>
  BY DEF getProject, fileVars
<1>2. readStore = disk /\ \A q \in Requests : ~At(q, "write")
  BY ReadsTrue
<1>3. \/ /\ pc' = [pc EXCEPT ![r] = "done"]
         /\ answer' \in {[answer EXCEPT ![r] = "found"], [answer EXCEPT ![r] = "missing"]}
      \/ /\ pc' = [pc EXCEPT ![r] = "launching"] /\ UNCHANGED answer
         /\ pc[r] = "launch" /\ Has(disk, call[r].id)
  BY <1>1, <1>2 DEF getProject, At, Goto, Finish
<1>4. Stored'
  BY <1>1, <1>2, <1>3, StoredStays
<1>5. \A q \in Requests : q # r => pc'[q] = pc[q]
  BY <1>3 DEF TypeOK
<1>6. InStep(r)'
  <2>1. CASE pc' = [pc EXCEPT ![r] = "done"]
    <3>1. pc'[r] = "done"
      BY <2>1 DEF TypeOK
    <3>2. QED
      BY <3>1 DEF InStep, At
  <2>2. CASE /\ pc' = [pc EXCEPT ![r] = "launching"]
             /\ pc[r] = "launch" /\ Has(disk, call[r].id)
    <3>1. pc'[r] = "launching" /\ call[r].op = "launch"
      BY <2>2 DEF TypeOK, InStep
    <3>2. QED
      BY <1>1, <2>2, <3>1 DEF InStep, At, Has
  <2>3. QED
    BY <1>3, <2>1, <2>2
<1>7. QED
  BY <1>1, <1>2, <1>4, <1>5, <1>6, OthersStay

LEMMA LaunchedKeeps ==
  ASSUME TypeOK, Unanswered, load = "apart", OneWriter, Stored,
         \A q \in Requests : InStep(q), NEW r \in Requests, Launched(r)
  PROVE  Stored' /\ \A q \in Requests : InStep(q)'
<1>1. /\ pc[r] = "launching" /\ pc' = [pc EXCEPT ![r] = "update"]
      /\ UNCHANGED <<call, copy, file, disk, length, answer>>
  BY DEF Launched, At, Goto, fileVars
<1>2. /\ pc'[r] = "update"
      /\ \A q \in Requests : q # r => pc'[q] = pc[q] /\ result'[q] = result[q]
  BY <1>1 DEF Launched, TypeOK
<1>3. \A q \in Requests : At(q, "write") => At(q, "write")'
  BY <1>1, <1>2 DEF At
<1>4. Stored'
  BY <1>1, <1>3, StoredStays
<1>5. InStep(r)'
  BY <1>1, <1>2 DEF InStep, At, Has
<1>6. QED
  BY <1>1, <1>2, <1>5, <1>4, OthersStay

LEMMA UpdateKeeps ==
  ASSUME TypeOK, Unanswered, load = "apart", OneWriter, Stored,
         \A q \in Requests : InStep(q), NEW r \in Requests, MayRead, updateProject(r)
  PROVE  Stored' /\ \A q \in Requests : InStep(q)'
<1>1. pc[r] = "update" /\ UNCHANGED <<call, result, file, disk, length>>
  BY DEF updateProject, At, fileVars
<1>2. /\ readStore = disk /\ \A q \in Requests : ~At(q, "write")
      /\ Has(disk, call[r].id) /\ call[r].op = "launch"
  <2>1. Has(disk, call[r].id) /\ call[r].op = "launch"
    BY <1>1 DEF InStep
  <2>2. QED
    BY <2>1, ReadsTrue
<1>3. /\ copy' = [copy EXCEPT ![r] = [disk EXCEPT !.status[call[r].id] = result[r]]]
      /\ pc' = [pc EXCEPT ![r] = "truncate"] /\ UNCHANGED answer
  BY <1>2 DEF updateProject, Goto
<1>4. Stored'
  BY <1>1, <1>2, <1>3, StoredStays
<1>5. /\ pc'[r] = "truncate"
      /\ \A q \in Requests : q # r => pc'[q] = pc[q] /\ copy'[q] = copy[q]
  BY <1>3 DEF TypeOK
<1>6. copy'[r] = [disk EXCEPT !.status[call[r].id] = result[r]]
  BY <1>3 DEF TypeOK
<1>7. InStep(r)'
  BY <1>1, <1>2, <1>5, <1>6 DEF InStep, At
<1>8. QED
  BY <1>1, <1>2, <1>4, <1>5, <1>7, OthersStay

LEMMA TruncateKeeps ==
  ASSUME TypeOK, Unanswered, load = "apart", OneWriter, Stored,
         \A q \in Requests : InStep(q), NEW r \in Requests, Truncate(r)
  PROVE  Stored' /\ \A q \in Requests : InStep(q)'
<1>1. /\ pc[r] = "truncate" /\ pc' = [pc EXCEPT ![r] = "write"] /\ length' = 0
      /\ UNCHANGED <<call, copy, result, disk, answer>>
  BY DEF Truncate, At, Goto
<1>2. Writers \subseteq {r}
  BY <1>1 DEF OneWriter, Writers
<1>3. pc'[r] = "write" /\ \A q \in Requests : q # r => pc'[q] = pc[q]
  BY <1>1 DEF TypeOK
<1>4. Stored'
  <2>1. At(r, "write")'
    BY <1>3 DEF At
  <2>2. QED
    BY <1>1, <2>1, StoredStays
<1>5. InStep(r)'
  BY <1>1, <1>3 DEF InStep, At, allocatePorts
<1>6. QED
  BY <1>1, <1>2, <1>3, <1>4, <1>5, OthersStay

\* The write: the client is told when the file says so.
LEMMA WriteKeeps ==
  ASSUME TypeOK, Unanswered, load = "apart", OneWriter, Stored,
         \A q \in Requests : InStep(q), NEW r \in Requests, Write(r)
  PROVE  Stored' /\ \A q \in Requests : InStep(q)'
<1>1. /\ pc[r] = "write" /\ length = 0 /\ Writers \subseteq {r} /\ answer[r] = "none"
      /\ IF call[r].op = "create"
         THEN copy[r] = allocatePorts(disk, r)
         ELSE copy[r] = [disk EXCEPT !.status[call[r].id] = result[r]]
  BY DEF Write, At, InStep, OneWriter, Writers, Unanswered
<1>2. /\ file' = "whole" /\ disk' = copy[r] /\ UNCHANGED <<call, copy, result>>
      /\ pc' = [pc EXCEPT ![r] = "done"]
      /\ answer' = [answer EXCEPT ![r] = IF call[r].op = "create" THEN "created" ELSE result[r]]
  <2>1. ~(length > TextLength(copy[r]))
    BY <1>1, TextLengthNat
  <2>2. QED
    BY <2>1 DEF Write, Finish, Goto
<1>3. pc'[r] = "done" /\ \A q \in Requests : q # r => pc'[q] = pc[q]
  BY <1>2 DEF TypeOK
<1>4. InStep(r)'
  BY <1>3 DEF InStep, At
<1>5. (\A p \in Requests : Has(disk, p) => Has(disk, p)')
         => \A q \in Requests : InStep(q)'
  BY <1>1, <1>2, <1>3, <1>4, OthersStay
<1>6. /\ answer'[r] = IF call[r].op = "create" THEN "created" ELSE result[r]
      /\ \A q \in Requests : q # r => answer'[q] = answer[q]
      /\ result[r] \in {"running", "unknown"} /\ call[r].id \in Requests
  BY <1>2, ProjectsAssumption DEF TypeOK
<1>7. CASE call[r].op = "create"
  <2>1. /\ disk'.status = disk.status
        /\ disk'.block[r] = disk.next /\ disk.next \in Nat
        /\ \A p \in Requests : p # r => disk'.block[p] = disk.block[p]
    BY <1>1, <1>2, <1>7 DEF allocatePorts, TypeOK, Stores
  <2>2. /\ \A p \in Requests : (answer'[p] = "created") = Has(disk', p)
        /\ \A p \in Requests : Has(disk, p) => Has(disk', p)
    <3>1. Has(disk', r)
      BY <2>1, ProjectsAssumption DEF Has
    <3>2. \A p \in Requests : p # r => Has(disk', p) = Has(disk, p)
      BY <2>1 DEF Has
    <3>3. QED
      BY <1>6, <1>7, <3>1, <3>2 DEF Stored
  <2>3. ASSUME NEW p \in Requests
        PROVE  StatusTrue(p)'
    <3>1. \A q \in Requests : answer'[q] \in {"running", "unknown"} =>
            answer[q] \in {"running", "unknown"}
      BY <1>6, <1>7
    <3>2. disk.status[p] # "none"
      BY DEF TypeOK, Stores, Statuses
    <3>3. \A q \in Requests : answer[q] = disk.status[p] => answer'[q] = answer[q]
      BY <1>1, <1>6, <3>2
    <3>4. QED
      BY <1>2, <2>1, <3>1, <3>3 DEF Stored, StatusTrue
  <2>4. Stored'
    BY <1>2, <2>2, <2>3 DEF Stored, Has
  <2>5. QED
    BY <1>5, <2>2, <2>4 DEF Has
<1>8. CASE call[r].op # "create"
  <2>1. /\ disk'.block = disk.block
        /\ disk'.status[call[r].id] = result[r]
        /\ \A p \in Requests : p # call[r].id => disk'.status[p] = disk.status[p]
    BY <1>1, <1>2, <1>6, <1>8 DEF TypeOK, Stores
  <2>2. /\ \A p \in Requests : (answer'[p] = "created") = Has(disk', p)
        /\ \A p \in Requests : Has(disk, p) => Has(disk', p)
    <3>1. \A p \in Requests : Has(disk', p) = Has(disk, p)
      BY <2>1 DEF Has
    <3>2. \A p \in Requests : (answer'[p] = "created") = (answer[p] = "created")
      BY <1>1, <1>6, <1>8
    <3>3. QED
      BY <3>1, <3>2 DEF Stored
  <2>3. ASSUME NEW p \in Requests
        PROVE  StatusTrue(p)'
    <3>1. CASE p = call[r].id
      BY <1>2, <1>6, <1>8, <2>1, <3>1 DEF StatusTrue
    <3>2. CASE p # call[r].id
      <4>1. disk.status[p] # "none"
        BY DEF TypeOK, Stores, Statuses
      <4>2. \A q \in Requests : answer[q] = disk.status[p] => answer'[q] = answer[q]
        BY <1>1, <1>6, <4>1
      <4>3. \A q \in Requests : call[q].id = p => answer'[q] = answer[q]
        BY <1>6, <3>2
      <4>4. QED
        BY <1>2, <2>1, <3>2, <4>2, <4>3 DEF Stored, StatusTrue
    <3>3. QED
      BY <3>1, <3>2
  <2>4. Stored'
    BY <1>2, <2>2, <2>3 DEF Stored, Has
  <2>5. QED
    BY <1>5, <2>2, <2>4 DEF Has
<1>9. QED
  BY <1>7, <1>8

-----------------------------------------------------------------------------
\* Initially nobody has been told anything and nothing is stored.
LEMMA ApartInit == Init => TypeOK /\ Unanswered /\ ApartInv
<1>1. SUFFICES ASSUME Init
               PROVE  TypeOK /\ Unanswered /\ ApartInv
  OBVIOUS
<1>2. TypeOK
  BY <1>1, InvInit DEF IInv
<1>3. Unanswered
  BY <1>1 DEF Init, Unanswered
<1>4. OneWriter
  BY <1>1 DEF Init, OneWriter, Writers
<1>5. Stored
  BY <1>1 DEF Init, Stored, Has, StatusTrue, defaultStore
<1>6. \A r \in Requests : InStep(r)
  BY <1>1 DEF Init, InStep, At
<1>7. QED
  BY <1>2, <1>3, <1>4, <1>5, <1>6 DEF ApartInv

\* Every step of this load leaves the file as its clients know it.
LEMMA ApartStep ==
  ASSUME TypeOK, Unanswered, NoKills, ApartInv, [Next]_vars
  PROVE  ApartInv'
<1>1. ASSUME load # "apart"
      PROVE  load' # "apart"
  <2>1. load' = load
    BY DEF Next, Handle, Arrive, createProject, getProject, Launched, updateProject,
           Truncate, Write, Crash, vars
  <2>2. QED
    BY <1>1, <2>1
<1>2. ASSUME load = "apart"
      PROVE  OneWriter' /\ Stored' /\ \A r \in Requests : InStep(r)'
  <2>1. OneWriter /\ Stored /\ \A r \in Requests : InStep(r)
    BY <1>2 DEF ApartInv
  <2>2. OneWriter' /\ ~Crash
    BY <1>2, <2>1, OneWriterStep
  <2>3. ASSUME NEW r \in Requests, Handle(r)
        PROVE  Stored' /\ \A q \in Requests : InStep(q)'
    <3>1. CASE Arrive(r)
      BY <1>2, <2>1, <3>1, ArriveKeeps
    <3>2. CASE MayRead /\ createProject(r)
      BY <1>2, <2>1, <3>2, CreateKeeps
    <3>3. CASE MayRead /\ getProject(r)
      BY <1>2, <2>1, <3>3, GetKeeps
    <3>4. CASE Launched(r)
      BY <1>2, <2>1, <3>4, LaunchedKeeps
    <3>5. CASE MayRead /\ updateProject(r)
      BY <1>2, <2>1, <3>5, UpdateKeeps
    <3>6. CASE Truncate(r)
      BY <1>2, <2>1, <3>6, TruncateKeeps
    <3>7. CASE Write(r)
      BY <1>2, <2>1, <3>7, WriteKeeps
    <3>8. QED
      BY <2>3, <3>1, <3>2, <3>3, <3>4, <3>5, <3>6, <3>7 DEF Handle
  <2>4. ASSUME UNCHANGED vars
        PROVE  Stored' /\ \A q \in Requests : InStep(q)'
    <3>1. Stored'
      BY <2>1, <2>4 DEF vars, fileVars, Stored, StatusTrue, Has, At
    <3>2. \A q \in Requests : InStep(q)'
      BY <2>1, <2>4 DEF vars, fileVars, InStep, Has, At
    <3>3. QED
      BY <3>1, <3>2
  <2>5. QED
    BY <2>2, <2>3, <2>4 DEF Next
<1>3. QED
  BY <1>1, <1>2 DEF ApartInv

\* When no request is in flight, the file is whole if anything was created.
LEMMA ApartKept == TypeOK /\ ApartInv => Kept
<1>1. SUFFICES ASSUME TypeOK, ApartInv, load = "apart", Writers = {},
                      NEW p \in Requests, answer[p] = "created"
               PROVE  /\ file = "whole" /\ Has(disk, p)
                      /\ StatusTrue(p)
  BY DEF Kept, StatusTrue
<1>2. Stored
  BY <1>1 DEF ApartInv
<1>3. Has(disk, p) /\ StatusTrue(p)
  BY <1>1, <1>2 DEF Stored
<1>4. disk # defaultStore
  BY <1>3 DEF Has, defaultStore
<1>5. \A r \in Requests : ~At(r, "write")
  BY <1>1 DEF Writers, At
<1>6. file = "whole"
  BY <1>1, <1>2, <1>4, <1>5 DEF Stored, TypeOK
<1>7. QED
  BY <1>3, <1>6

\* Dedicated ports: both projects are in the file, with ports of their own.
LEMMA ApartDedicated == IInv /\ ApartInv => DedicatedPorts
<1>1. SUFFICES ASSUME IInv, ApartInv, load = "apart", NEW p \in Requests,
                      NEW q \in Requests, p # q,
                      answer[p] = "created", answer[q] = "created"
               PROVE  told[p] # told[q]
  BY DEF DedicatedPorts
<1>2. Has(disk, p) /\ Has(disk, q)
  BY <1>1 DEF ApartInv, Stored
<1>3. disk.block[p] = told[p] /\ disk.block[q] = told[q]
  BY <1>1, <1>2 DEF IInv, PortsFixed
<1>4. disk.block[q] # disk.block[p]
  BY <1>1, <1>2 DEF IInv, DisjointStores, Disjoint
<1>5. QED
  BY <1>3, <1>4

AllInv == IInv /\ Unanswered /\ ApartInv

LEMMA AllInvariant == ASSUME NoKills PROVE Spec => []AllInv
<1>1. Init => AllInv
  BY InvInit, ApartInit DEF AllInv
<1>2. AllInv /\ [Next]_vars => AllInv'
  <2>1. IInv => TypeOK
    BY DEF IInv
  <2>2. QED
    BY <2>1, InvStep, UnansweredStep, ApartStep DEF AllInv
<1>3. QED
  BY <1>1, <1>2, PTL DEF Spec

\* If no request reads the store while another is to write it, and Studio is not
\* killed, no project and no status is lost: what clients were told is in the file.
THEOREM KeptHolds == ASSUME NoKills PROVE Spec => []Kept
<1>1. AllInv => Kept
  BY ApartKept DEF AllInv, IInv
<1>2. QED
  BY <1>1, AllInvariant, PTL

\* In that case no two projects are told the same ports, however launches, which
\* write all projects, run beside the creates.
THEOREM DedicatedPortsHold == ASSUME NoKills PROVE Spec => []DedicatedPorts
<1>1. AllInv => DedicatedPorts
  BY ApartDedicated DEF AllInv
<1>2. QED
  BY <1>1, AllInvariant, PTL
=============================================================================
