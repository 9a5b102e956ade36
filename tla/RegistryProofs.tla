--------------------------- MODULE RegistryProofs ---------------------------
(***************************************************************************)
(* For any number of requests, versions and kills: the type invariant of   *)
(* Registry, and that requests which overlap, but do not change one        *)
(* version at once, are answered as if they were handled one at a time.    *)
(***************************************************************************)
EXTENDS Registry, FiniteSetTheorems, TLAPS

\* A request past the opening of the store has a store in its hands.
StoreInHand ==
  \A r \in Requests : pc[r] \notin {"new", "store", "open", "done"} => st[r] \in Requests

\* A store is opened once: nobody uses the one that r is about to open.
Unused(r) ==
  \/ pc[r] \in {"new", "open"}
  \/ pc[r] = "store" /\ _store = NoStore

Fresh == \A r \in Requests : Unused(r) => _store # r /\ \A q \in Requests : st[q] # r

\* A version that is being yanked is not removed.
MarkPresent == \A r \in Requests : At(r, "mark") => Entry(r) # Absent

TypeInv == TypeOK /\ StoreInHand /\ Fresh /\ MarkPresent

-----------------------------------------------------------------------------
(* What the steps do to the tables.                                         *)

LEMMA CallType ==
  ASSUME TypeOK, NEW r \in Requests
  PROVE  /\ call[r] \in Calls
         /\ call[r].op \in {"publish", "yank", "get"}
         /\ call[r].key \in Keys /\ call[r].digest \in Digests
         /\ call[r].valid \in BOOLEAN
         /\ call[r].op = "get" => call[r].valid
<1>1. call[r] \in Calls
  BY DEF TypeOK
<1>2. QED
  BY <1>1, RegistryAssumption

LEMMA EntriesPresent == Absent \notin Entries
BY RegistryAssumption DEF Entries

LEMMA SeedType == Seed \in Versions /\ Nothing \in Versions
BY RegistryAssumption DEF Seed, Nothing, Versions, Entries

\* A table of stores with one version of one store replaced.
Replace(table, s, k, e) ==
  [q \in Requests |-> IF q = s THEN [l \in Keys |-> IF l = k THEN e ELSE table[s][l]]
                               ELSE table[q]]

LEMMA Replaced ==
  ASSUME NEW table \in [Requests -> Versions], NEW s \in Requests, NEW k \in Keys,
         NEW e \in Entries
  PROVE  /\ Replace(table, s, k, e) \in [Requests -> Versions]
         /\ Replace(table, s, k, e)[s][k] = e
         /\ \A q \in Requests, l \in Keys :
              q # s \/ l # k => Replace(table, s, k, e)[q][l] = table[q][l]
BY DEF Replace, Versions

\* Assignment to one version of one store.
LEMMA Assigned ==
  ASSUME NEW table \in [Requests -> Versions], NEW s \in Requests, NEW k \in Keys,
         NEW e \in Entries
  PROVE  [table EXCEPT ![s][k] = e] = Replace(table, s, k, e)
<1>1. table[s] \in [Keys -> Entries \cup {Absent}]
  BY DEF Versions
<1>2. [table[s] EXCEPT ![k] = e] = [l \in Keys |-> IF l = k THEN e ELSE table[s][l]]
  BY <1>1
<1>3. QED
  BY <1>2 DEF Replace

LEMMA InsertEffect ==
  ASSUME TypeOK, NEW r \in Requests, st[r] \in Requests, PublishInsert(r)
  PROVE  \E e \in Entries :
           /\ e.digest = call[r].digest /\ ~e.yanked
           /\ mem' = Replace(mem, st[r], call[r].key, e)
<1>1. PICK e \in Entries :
        e = [digest |-> call[r].digest, yanked |-> FALSE, by |-> r]
  BY CallType DEF Entries
<1>2. mem' = [mem EXCEPT ![st[r]][call[r].key] = e]
  BY <1>1 DEF PublishInsert
<1>3. mem' = Replace(mem, st[r], call[r].key, e)
  <2>1. mem \in [Requests -> Versions] /\ call[r].key \in Keys
    BY CallType DEF TypeOK
  <2>2. [mem EXCEPT ![st[r]][call[r].key] = e] = Replace(mem, st[r], call[r].key, e)
    BY <2>1, Assigned
  <2>3. QED
    BY <1>2, <2>2
<1>4. QED
  BY <1>1, <1>3

LEMMA MarkEffect ==
  ASSUME TypeOK, NEW r \in Requests, st[r] \in Requests, Entry(r) # Absent, YankMark(r)
  PROVE  \E e \in Entries :
           /\ e.digest = Entry(r).digest /\ e.yanked
           /\ mem' = IF Entry(r).by = seen[r].by
                     THEN Replace(mem, st[r], call[r].key, e) ELSE mem
<1>1. mem \in [Requests -> Versions] /\ call[r].key \in Keys
  BY CallType DEF TypeOK
<1>2. PICK s \in Requests, k \in Keys : s = st[r] /\ k = call[r].key
  BY <1>1
<1>3. mem[s][k] # Absent /\ Entry(r) = mem[s][k]
  BY <1>2 DEF Entry
<1>4. /\ [mem[s][k] EXCEPT !.yanked = TRUE] \in Entries
      /\ [mem EXCEPT ![s][k].yanked = TRUE]
           = Replace(mem, s, k, [mem[s][k] EXCEPT !.yanked = TRUE])
  <2>1. mem[s] \in [Keys -> Entries \cup {Absent}] /\ mem[s][k] \in Entries
    BY <1>1, <1>3 DEF Versions
  <2>2. [mem[s][k] EXCEPT !.yanked = TRUE] \in Entries
    BY <2>1 DEF Entries
  <2>3. [mem[s] EXCEPT ![k].yanked = TRUE]
          = [l \in Keys |-> IF l = k THEN [mem[s][k] EXCEPT !.yanked = TRUE]
                                     ELSE mem[s][l]]
    BY <2>1
  <2>4. QED
    BY <1>1, <2>2, <2>3 DEF Replace
<1>5. mem' = IF Entry(r).by = seen[r].by THEN [mem EXCEPT ![s][k].yanked = TRUE] ELSE mem
  BY <1>2 DEF YankMark
<1>6. PICK e \in Entries : e = [mem[s][k] EXCEPT !.yanked = TRUE]
  BY <1>4
<1>7. e.digest = mem[s][k].digest /\ e.yanked
  <2>1. mem[s][k] \in Entries
    BY <1>1, <1>3 DEF Versions
  <2>2. QED
    BY <1>6, <2>1 DEF Entries
<1>8. QED
  BY <1>2, <1>3, <1>4, <1>5, <1>6, <1>7

LEMMA TextLengthNat ==
  ASSUME NEW versions
  PROVE  Count(versions) \in Nat /\ TextLength(versions) \in Nat
<1> DEFINE there == {k \in Keys : versions[k] # Absent}
           gone == {k \in Keys : versions[k] # Absent /\ versions[k].yanked}
<1>1. IsFiniteSet(there) /\ IsFiniteSet(gone)
  BY RegistryAssumption, FS_Subset
<1>2. Cardinality(there) \in Nat /\ Cardinality(gone) \in Nat
  BY <1>1, FS_CardinalityType
<1>3. QED
  BY <1>2 DEF Count, TextLength

-----------------------------------------------------------------------------
(* The type invariant.                                                      *)

LEMMA TypeInit == Init => TypeInv
BY SeedType, RegistryAssumption, EntriesPresent
   DEF Init, TypeInv, TypeOK, StoreInHand, Fresh, MarkPresent, Unused, At, Steps, Outcomes

LEMMA TypeOKStep ==
  ASSUME TypeInv, [Next]_vars
  PROVE  TypeOK'
<1> USE DEF TypeOK
<1>a. TypeOK
  BY DEF TypeInv
<1>1. ASSUME NEW r \in Requests, Arrive(r)
      PROVE  TypeOK'
  BY <1>a, <1>1 DEF Arrive, Goto, At, Steps, local, fileVars
<1>2. ASSUME NEW r \in Requests, get_registry_store(r)
      PROVE  TypeOK'
  <2>1. call[r].op \in Steps
    BY <1>a, CallType DEF Steps
  <2>2. QED
    BY <1>a, <1>2, <2>1 DEF get_registry_store, Goto, At, Steps, fileVars
<1>3. ASSUME NEW r \in Requests, _load(r)
      PROVE  TypeOK'
  <2>1. Seed \in Versions /\ disk \in Versions
    BY <1>a, SeedType
  <2>2. mem' \in [Requests -> Versions]
    BY <1>a, <1>3, <2>1 DEF _load
  <2>3. QED
    BY <1>a, <1>3, <2>2 DEF _load, Goto, Finish, At, Steps, fileVars
<1>4. ASSUME NEW r \in Requests, SetStore(r)
      PROVE  TypeOK'
  BY <1>a, <1>4 DEF SetStore, Goto, At, Steps, local, fileVars
<1>5. ASSUME NEW r \in Requests, Reject(r)
      PROVE  TypeOK'
  BY <1>a, <1>5 DEF Reject, Goto, Finish, Decide, At, Steps, Outcomes, local, fileVars
<1>6. ASSUME NEW r \in Requests, PublishCheck(r)
      PROVE  TypeOK'
  BY <1>a, <1>6 DEF PublishCheck, Goto, Finish, Decide, At, Steps, Outcomes, local, fileVars
<1>7. ASSUME NEW r \in Requests, PublishInsert(r)
      PROVE  TypeOK'
  <2>1. st[r] \in Requests
    BY <1>a, <1>7 DEF PublishInsert, At, TypeInv, StoreInHand
  <2>2. PICK e \in Entries : mem' = Replace(mem, st[r], call[r].key, e)
    BY <1>a, <1>7, <2>1, InsertEffect
  <2>3. mem' \in [Requests -> Versions]
    BY <1>a, <2>1, <2>2, Replaced, CallType
  <2>4. QED
    BY <1>a, <1>7, <2>3 DEF PublishInsert, Goto, Decide, At, Steps, Outcomes, local, fileVars
<1>8. ASSUME NEW r \in Requests, YankCheck(r)
      PROVE  TypeOK'
  <2>1. st[r] \in Requests
    BY <1>a, <1>8 DEF YankCheck, At, TypeInv, StoreInHand
  <2>2. Entry(r) \in Entries \cup {Absent}
    BY <1>a, <2>1, CallType DEF Entry, Versions
  <2>3. QED
    BY <1>a, <1>8, <2>2 DEF YankCheck, Goto, Finish, Decide, At, Steps, Outcomes, fileVars
<1>9. ASSUME NEW r \in Requests, YankMark(r)
      PROVE  TypeOK'
  <2>1. st[r] \in Requests /\ Entry(r) # Absent
    BY <1>a, <1>9 DEF YankMark, At, TypeInv, StoreInHand, MarkPresent
  <2>2. mem' \in [Requests -> Versions]
    <3>1. PICK e \in Entries :
            mem' = IF Entry(r).by = seen[r].by
                   THEN Replace(mem, st[r], call[r].key, e) ELSE mem
      BY <1>a, <1>9, <2>1, MarkEffect
    <3>2. Replace(mem, st[r], call[r].key, e) \in [Requests -> Versions]
      BY <1>a, <2>1, Replaced, CallType
    <3>3. QED
      BY <1>a, <3>1, <3>2
  <2>3. QED
    BY <1>a, <1>9, <2>2 DEF YankMark, Goto, Decide, At, Steps, Outcomes, local, fileVars
<1>10. ASSUME NEW r \in Requests, get_package_version(r)
       PROVE  TypeOK'
  BY <1>a, <1>10 DEF get_package_version, Goto, Finish, Decide, At, Steps, Outcomes, local, fileVars
<1>11. ASSUME NEW r \in Requests, SaveIterate(r)
       PROVE  TypeOK'
  <2>1. st[r] \in Requests
    BY <1>a, <1>11 DEF SaveIterate, At, TypeInv, StoreInHand
  <2>2. QED
    BY <1>a, <1>11, <2>1 DEF SaveIterate, Goto, At, Steps, fileVars
<1>12. ASSUME NEW r \in Requests, SaveCollect(r)
       PROVE  TypeOK'
  <2>1. st[r] \in Requests
    BY <1>a, <1>12 DEF SaveCollect, At, TypeInv, StoreInHand
  <2>2. mem[st[r]] \in Versions /\ rows[r] \in Versions
    BY <1>a, <2>1
  <2>3. \A early \in SUBSET Keys :
          [k \in Keys |-> IF k \in early THEN rows[r][k] ELSE mem[st[r]][k]] \in Versions
    BY <2>2 DEF Versions
  <2>4. rows' \in [Requests -> Versions]
    BY <1>a, <1>12, <2>3 DEF SaveCollect
  <2>5. QED
    BY <1>a, <1>12, <2>4 DEF SaveCollect, Goto, Finish, At, Steps, fileVars
<1>13. ASSUME NEW r \in Requests, SaveTruncate(r)
       PROVE  TypeOK'
  BY <1>a, <1>13, SeedType DEF SaveTruncate, Goto, At, Steps, local
<1>14. ASSUME NEW r \in Requests, SaveWrite(r)
       PROVE  TypeOK'
  <2>1. TextLength(rows[r]) \in Nat
    BY TextLengthNat
  <2>2. rows[r] \in Versions
    BY <1>a
  <2>3. file' \in {"none", "torn", "whole"} /\ disk' \in Versions /\ length' \in Nat
    BY <1>a, <1>14, <2>1, <2>2 DEF SaveWrite
  <2>4. QED
    BY <1>a, <1>14, <2>3 DEF SaveWrite, Goto, Finish, At, Steps, local
<1>15. ASSUME Crash
       PROVE  TypeOK'
  <2>1. crashes' \in Nat
    BY <1>a, <1>15 DEF Crash
  <2>2. QED
    BY <1>a, <1>15, <2>1 DEF Crash, Steps, local, fileVars
<1>16. CASE UNCHANGED vars
  BY <1>a, <1>16 DEF vars, local, fileVars
<1>17. QED
  BY <1>1, <1>2, <1>3, <1>4, <1>5, <1>6, <1>7, <1>8, <1>9, <1>10, <1>11, <1>12, <1>13,
     <1>14, <1>15, <1>16 DEF Next, Handle

LEMMA StoreInHandStep ==
  ASSUME TypeInv, [Next]_vars
  PROVE  StoreInHand'
<1> USE DEF StoreInHand, At, Goto, Finish
<1>a. TypeOK /\ StoreInHand
  BY DEF TypeInv
<1>b. pc \in [Requests -> Steps] /\ st \in [Requests -> Requests \cup {NoStore}]
  BY <1>a DEF TypeOK
<1>1. ASSUME NEW r \in Requests, get_registry_store(r)
      PROVE  StoreInHand'
  <2>1. _store \in Requests \cup {NoStore}
    BY <1>a DEF TypeOK
  <2>2. QED
    BY <1>a, <1>b, <1>1, <2>1 DEF get_registry_store
<1>2. ASSUME NEW r \in Requests, _load(r)
      PROVE  StoreInHand'
  BY <1>a, <1>b, <1>2 DEF _load
<1>3. ASSUME NEW r \in Requests, Arrive(r) \/ SetStore(r) \/ Reject(r) \/ PublishCheck(r)
                                \/ PublishInsert(r) \/ YankCheck(r) \/ YankMark(r)
                                \/ get_package_version(r)
      PROVE  StoreInHand'
  BY <1>a, <1>b, <1>3 DEF Arrive, SetStore, Reject, PublishCheck, PublishInsert, YankCheck,
     YankMark, get_package_version, local
<1>4. ASSUME NEW r \in Requests, SaveIterate(r) \/ SaveCollect(r) \/ SaveTruncate(r)
                                \/ SaveWrite(r)
      PROVE  StoreInHand'
  BY <1>a, <1>b, <1>4 DEF SaveIterate, SaveCollect, SaveTruncate, SaveWrite, local
<1>5. ASSUME Crash
      PROVE  StoreInHand'
  BY <1>a, <1>b, <1>5 DEF Crash, InFlight, Idle, local
<1>6. CASE UNCHANGED vars
  BY <1>a, <1>6 DEF vars, local
<1>7. QED
  BY <1>1, <1>2, <1>3, <1>4, <1>5, <1>6 DEF Next, Handle

LEMMA FreshStep ==
  ASSUME TypeInv, [Next]_vars
  PROVE  Fresh'
<1> USE DEF Fresh, Unused, At, Goto, Finish
<1>a. TypeOK /\ Fresh
  BY DEF TypeInv
<1>b. /\ pc \in [Requests -> Steps] /\ st \in [Requests -> Requests \cup {NoStore}]
      /\ _store \in Requests \cup {NoStore} /\ NoStore \notin Requests
  BY <1>a, RegistryAssumption DEF TypeOK
<1>1. ASSUME NEW r \in Requests, get_registry_store(r)
      PROVE  Fresh'
  <2>1. call[r].op \notin {"new", "open", "store"}
    BY <1>a, CallType
  <2>2. QED
    BY <1>a, <1>b, <1>1, <2>1 DEF get_registry_store
<1>2. ASSUME NEW r \in Requests, _load(r)
      PROVE  Fresh'
  BY <1>a, <1>b, <1>2 DEF _load
<1>3. ASSUME NEW r \in Requests, SetStore(r)
      PROVE  Fresh'
  BY <1>a, <1>b, <1>3 DEF SetStore, local
<1>4. ASSUME NEW r \in Requests, Arrive(r) \/ Reject(r) \/ PublishCheck(r)
                                \/ PublishInsert(r) \/ YankCheck(r) \/ YankMark(r)
                                \/ get_package_version(r)
      PROVE  Fresh'
  BY <1>a, <1>b, <1>4 DEF Arrive, Reject, PublishCheck, PublishInsert, YankCheck,
     YankMark, get_package_version, local
<1>5. ASSUME NEW r \in Requests, SaveIterate(r) \/ SaveCollect(r) \/ SaveTruncate(r)
                                \/ SaveWrite(r)
      PROVE  Fresh'
  BY <1>a, <1>b, <1>5 DEF SaveIterate, SaveCollect, SaveTruncate, SaveWrite, local
<1>6. ASSUME Crash
      PROVE  Fresh'
  BY <1>a, <1>b, <1>6 DEF Crash, InFlight, Idle, local
<1>7. CASE UNCHANGED vars
  BY <1>a, <1>7 DEF vars, local
<1>8. QED
  BY <1>1, <1>2, <1>3, <1>4, <1>5, <1>6, <1>7 DEF Next, Handle

\* No step takes a version out of a store that a request has in its hands.
LEMMA VersionsStay ==
  ASSUME TypeInv, [Next]_vars, NEW s \in Requests, NEW k \in Keys, mem[s][k] # Absent,
         ~At(s, "open")
  PROVE  mem'[s][k] # Absent
<1>a. TypeOK /\ mem \in [Requests -> Versions]
  BY DEF TypeInv, TypeOK
<1>1. CASE mem' = mem
  BY <1>1
<1>2. ASSUME NEW r \in Requests, _load(r)
      PROVE  mem'[s][k] # Absent
  BY <1>a, <1>2 DEF _load, At
<1>3. ASSUME NEW r \in Requests, PublishInsert(r)
      PROVE  mem'[s][k] # Absent
  <2>1. st[r] \in Requests
    BY <1>3 DEF PublishInsert, At, TypeInv, StoreInHand
  <2>2. PICK e \in Entries : mem' = Replace(mem, st[r], call[r].key, e)
    BY <1>a, <1>3, <2>1, InsertEffect
  <2>3. QED
    BY <1>a, <2>1, <2>2, Replaced, CallType, EntriesPresent
<1>4. ASSUME NEW r \in Requests, YankMark(r)
      PROVE  mem'[s][k] # Absent
  <2>1. st[r] \in Requests /\ Entry(r) # Absent
    BY <1>4 DEF YankMark, At, TypeInv, StoreInHand, MarkPresent
  <2>2. PICK e \in Entries :
          mem' = IF Entry(r).by = seen[r].by
                 THEN Replace(mem, st[r], call[r].key, e) ELSE mem
    BY <1>a, <1>4, <2>1, MarkEffect
  <2>3. Replace(mem, st[r], call[r].key, e)[s][k] # Absent
    BY <1>a, <2>1, Replaced, CallType, EntriesPresent
  <2>4. QED
    BY <2>2, <2>3
<1>5. QED
  BY <1>1, <1>2, <1>3, <1>4 DEF Next, Handle, Arrive, get_registry_store, SetStore, Reject,
     PublishCheck, YankCheck, get_package_version, SaveIterate, SaveCollect, SaveTruncate,
     SaveWrite, Crash, vars

\* A request that has been given its store keeps it, and what it asks for.
LEMMA StoreKept ==
  ASSUME TypeOK, [Next]_vars, NEW r \in Requests, pc[r] \notin {"store", "open"}
  PROVE  st'[r] = st[r] /\ call' = call
<1>a. st \in [Requests -> Requests \cup {NoStore}]
  BY DEF TypeOK
<1>1. ASSUME NEW q \in Requests, get_registry_store(q) \/ _load(q)
      PROVE  st'[r] = st[r] /\ call' = call
  BY <1>a, <1>1 DEF get_registry_store, _load, At
<1>2. QED
  BY <1>1 DEF Next, Handle, Arrive, SetStore, Reject, PublishCheck, PublishInsert,
     YankCheck, YankMark, get_package_version, SaveIterate, SaveCollect, SaveTruncate,
     SaveWrite, Crash, vars, local

\* The only way to the mark is by a look that found the version.
LEMMA MarkReached ==
  ASSUME TypeOK, [Next]_vars, NEW r \in Requests, pc[r] # "mark", pc'[r] = "mark"
  PROVE  YankCheck(r)
<1> USE DEF At, Goto, Finish
<1>a. pc \in [Requests -> Steps]
  BY DEF TypeOK
<1>1. ASSUME NEW q \in Requests, get_registry_store(q)
      PROVE  YankCheck(r)
  <2>1. call[q].op \in {"publish", "yank", "get"}
    BY CallType
  <2>2. QED
    BY <1>a, <1>1, <2>1 DEF get_registry_store
<1>2. ASSUME NEW q \in Requests, YankCheck(q)
      PROVE  YankCheck(r)
  BY <1>a, <1>2 DEF YankCheck
<1>3. ASSUME NEW q \in Requests, Arrive(q) \/ _load(q) \/ SetStore(q) \/ Reject(q)
        \/ PublishCheck(q) \/ PublishInsert(q) \/ YankMark(q) \/ get_package_version(q)
      PROVE  YankCheck(r)
  BY <1>a, <1>3 DEF Arrive, _load, SetStore, Reject, PublishCheck, PublishInsert, YankMark,
     get_package_version
<1>4. ASSUME NEW q \in Requests, SaveIterate(q) \/ SaveCollect(q) \/ SaveTruncate(q)
                                \/ SaveWrite(q)
      PROVE  YankCheck(r)
  BY <1>a, <1>4 DEF SaveIterate, SaveCollect, SaveTruncate, SaveWrite
<1>5. CASE Crash
  BY <1>a, <1>5 DEF Crash
<1>6. CASE UNCHANGED vars
  BY <1>6 DEF vars
<1>7. QED
  BY <1>1, <1>2, <1>3, <1>4, <1>5, <1>6 DEF Next, Handle

LEMMA MarkPresentStep ==
  ASSUME TypeInv, [Next]_vars
  PROVE  MarkPresent'
<1>a. TypeOK /\ StoreInHand /\ Fresh /\ MarkPresent
  BY DEF TypeInv
<1> SUFFICES ASSUME NEW r \in Requests, pc'[r] = "mark"
             PROVE  mem'[st'[r]][call'[r].key] # Absent
  BY DEF MarkPresent, At, Entry
<1>1. CASE pc[r] = "mark"
  <2>1. st'[r] = st[r] /\ call' = call
    BY <1>a, <1>1, StoreKept
  <2>2. st[r] \in Requests /\ mem[st[r]][call[r].key] # Absent
    BY <1>a, <1>1 DEF StoreInHand, MarkPresent, At, Entry
  <2>3. ~At(st[r], "open")
    BY <1>a, <2>2 DEF Fresh, Unused, At
  <2>4. QED
    BY <1>a, <2>1, <2>2, <2>3, VersionsStay, CallType
<1>2. CASE pc[r] # "mark"
  <2>1. YankCheck(r)
    BY <1>a, <1>2, MarkReached
  <2>2. QED
    BY <1>a, <2>1 DEF YankCheck, Entry, Finish, Goto, At, TypeOK
<1>3. QED
  BY <1>1, <1>2

LEMMA TypeInvStep ==
  ASSUME TypeInv, [Next]_vars
  PROVE  TypeInv'
BY TypeOKStep, StoreInHandStep, FreshStep, MarkPresentStep DEF TypeInv

\* Every variable of the registry keeps its type, whatever clients do.
THEOREM TypeCorrect == Spec => []TypeOK
<1>1. TypeInv /\ [Next]_vars => TypeInv'
  BY TypeInvStep
<1>2. TypeInv => TypeOK
  BY DEF TypeInv
<1>3. QED
  BY TypeInit, <1>1, <1>2, PTL DEF Spec

-----------------------------------------------------------------------------
(* Requests that overlap, under the load "spread".                          *)

Saving == {"save", "collect", "truncate", "write"}
Undecided == {"new", "store", "publish", "insert", "yank", "mark", "get"}

\* While no store is set, one request is at work: it opens the store.
Cold ==
  /\ \A q, r \in Requests : pc[q] # "new" /\ pc[r] # "new" => q = r
  /\ \A r \in Requests :
       /\ pc[r] \in {"new", "store", "open", "opened"} \cup Saving
       /\ outcome[r] = "none"
       /\ pc[r] \in {"opened"} \cup Saving => st[r] = r /\ mem[r] = Seed
       /\ pc[r] = "collect" => rows[r] = Seed
  /\ (\A r \in Requests : pc[r] \in {"new", "store", "open"}) => file = "none"

\* Once it is set, every request works on it; what it saw there still holds.
WarmOf(r) ==
  /\ pc[r] \notin {"open", "opened"}
  /\ pc[r] \notin {"new", "store", "done"} => st[r] = _store
  /\ pc[r] \in Undecided => outcome[r] = "none"
  /\ pc[r] \in Saving => outcome[r] # "none"
  /\ pc[r] \in {"publish", "yank", "get"} => call[r].op = pc[r]
  /\ pc[r] = "insert" =>
       /\ call[r].op = "publish" /\ call[r].valid
       /\ mem[_store][call[r].key] = Absent
  /\ pc[r] = "mark" =>
       /\ call[r].op = "yank" /\ call[r].valid
       /\ mem[_store][call[r].key] = seen[r] /\ seen[r] # Absent /\ ~seen[r].yanked

\* No two requests in flight change one version.
Apart ==
  \A q, r \in InFlight : Writes(q) /\ Writes(r) /\ q # r => call[q].key # call[r].key

SpreadInv ==
  load = "spread" =>
    /\ Apart
    /\ _store = NoStore => Cold
    /\ _store # NoStore => \A r \in Requests : WarmOf(r)

\* A step of one request leaves the others where they are.
LEMMA OthersKept ==
  ASSUME TypeOK, NEW r \in Requests, Arrive(r) \/ Handle(r), NEW q \in Requests, q # r
  PROVE  /\ pc'[q] = pc[q] /\ st'[q] = st[q] /\ outcome'[q] = outcome[q]
         /\ seen'[q] = seen[q] /\ rows'[q] = rows[q]
         /\ call' = call /\ load' = load
<1> USE DEF TypeOK, At, Goto, Finish, Decide, local
<1>1. CASE Arrive(r) \/ get_registry_store(r) \/ _load(r) \/ SetStore(r) \/ Reject(r)
  BY <1>1 DEF Arrive, get_registry_store, _load, SetStore, Reject
<1>2. CASE PublishCheck(r) \/ PublishInsert(r) \/ YankCheck(r) \/ YankMark(r)
             \/ get_package_version(r)
  BY <1>2 DEF PublishCheck, PublishInsert, YankCheck, YankMark, get_package_version
<1>3. CASE SaveIterate(r) \/ SaveCollect(r) \/ SaveTruncate(r) \/ SaveWrite(r)
  BY <1>3 DEF SaveIterate, SaveCollect, SaveTruncate, SaveWrite
<1>4. QED
  BY <1>1, <1>2, <1>3 DEF Handle

\* Nothing but an arrival puts a request in flight.
LEMMA InFlightShrinks ==
  ASSUME TypeOK, NEW r \in Requests, Handle(r)
  PROVE  r \in InFlight /\ InFlight' \subseteq InFlight
<1>1. r \in InFlight
  BY CallType DEF Handle, InFlight, Idle, At, get_registry_store, _load, SetStore, Reject,
     PublishCheck, PublishInsert, YankCheck, YankMark, get_package_version, SaveIterate,
     SaveCollect, SaveTruncate, SaveWrite
<1>2. QED
  BY <1>1, OthersKept DEF InFlight

LEMMA ApartStep ==
  ASSUME TypeOK, Apart, load = "spread", NEW r \in Requests, Arrive(r) \/ Handle(r)
  PROVE  Apart'
<1>1. CASE Handle(r)
  <2>1. call' = call
    BY <1>1 DEF Handle, get_registry_store, _load, SetStore, Reject,
       PublishCheck, PublishInsert, YankCheck, YankMark, get_package_version, SaveIterate,
       SaveCollect, SaveTruncate, SaveWrite
  <2>2. QED
    BY <1>1, <2>1, InFlightShrinks DEF Apart, Writes
<1>2. CASE Arrive(r)
  <2>1. /\ call' = call /\ InFlight' \subseteq InFlight \cup {r}
        /\ Writes(r) => \A q \in InFlight : Writes(q) => call[q].key # call[r].key
    BY <1>2, OthersKept DEF Arrive, InFlight
  <2>2. QED
    BY <2>1 DEF Apart, Writes
<1>3. QED
  BY <1>1, <1>2

LEMMA ColdStep ==
  ASSUME TypeOK, Cold, _store = NoStore, load = "spread",
         NEW r \in Requests, Arrive(r) \/ Handle(r)
  PROVE  /\ _store' = NoStore => Cold'
         /\ _store' # NoStore => \A q \in Requests : WarmOf(q)'
<1> USE DEF At, Goto, Finish
<1>a. /\ pc \in [Requests -> Steps] /\ st \in [Requests -> Requests \cup {NoStore}]
      /\ mem \in [Requests -> Versions] /\ rows \in [Requests -> Versions]
      /\ outcome \in [Requests -> Outcomes]
  BY DEF TypeOK
<1>b. pc[r] \in {"new", "store", "open", "opened"} \cup Saving /\ outcome[r] = "none"
  BY DEF Cold
<1>1. CASE Arrive(r)
  <2>1. \A q \in Requests : pc[q] = "new"
    BY <1>1 DEF Arrive, Cold, InFlight, Idle, Saving
  <2>2. QED
    BY <1>a, <1>1, <2>1 DEF Arrive, Cold, Saving, local, fileVars
<1>2. CASE get_registry_store(r)
  BY <1>a, <1>2 DEF get_registry_store, Cold, Saving, fileVars
<1>3. CASE _load(r)
  <2>1. \A q \in Requests : q # r => pc[q] = "new"
    BY <1>3 DEF _load, Cold
  <2>2. file = "none"
    BY <1>3, <2>1 DEF _load, Cold
  <2>3. mem' = [mem EXCEPT ![r] = Seed] /\ pc' = [pc EXCEPT ![r] = "save"]
    BY <1>3, <2>2 DEF _load
  <2>4. /\ st' = [st EXCEPT ![r] = r] /\ outcome' = outcome /\ rows' = rows
        /\ file' = file /\ _store' = NoStore
    BY <1>3 DEF _load, fileVars
  <2>5. QED
    BY <1>a, <2>1, <2>2, <2>3, <2>4 DEF Cold, Saving
<1>4. CASE SetStore(r)
  <2>1. \A q \in Requests : q # r => pc[q] = "new"
    BY <1>4 DEF SetStore, Cold
  <2>2. pc' = [pc EXCEPT ![r] = "store"] /\ outcome' = outcome
    BY <1>4 DEF SetStore
  <2>3. \A q \in Requests : pc'[q] \in {"new", "store"} /\ outcome'[q] = "none"
    BY <1>a, <2>1, <2>2 DEF Cold
  <2>4. \A q \in Requests : WarmOf(q)'
    BY <2>3 DEF WarmOf, Saving, Undecided
  <2>5. QED
    BY <1>4, <2>4, RegistryAssumption DEF SetStore
<1>5. CASE SaveIterate(r)
  BY <1>a, <1>5 DEF SaveIterate, Cold, Saving, fileVars
<1>6. CASE SaveCollect(r)
  <2>1. mem[st[r]] = rows[r]
    BY <1>6 DEF SaveCollect, Cold, Saving
  <2>2. pc' = [pc EXCEPT ![r] = "truncate"]
    BY <1>6, <2>1 DEF SaveCollect
  <2>3. QED
    BY <1>a, <1>6, <2>2 DEF SaveCollect, Cold, Saving, fileVars
<1>7. CASE SaveTruncate(r)
  BY <1>a, <1>7 DEF SaveTruncate, Cold, Saving, local
<1>8. CASE SaveWrite(r)
  <2>1. pc' = [pc EXCEPT ![r] = "opened"]
    BY <1>b, <1>8 DEF SaveWrite
  <2>2. QED
    BY <1>a, <1>8, <2>1 DEF SaveWrite, Cold, Saving, local
<1>9. QED
  BY <1>b, <1>1, <1>2, <1>3, <1>4, <1>5, <1>6, <1>7, <1>8
     DEF Handle, Reject, PublishCheck, PublishInsert, YankCheck, YankMark,
         get_package_version, Saving

\* A version that a request is about to change is changed by nobody else.
LEMMA Undisturbed ==
  ASSUME TypeInv, Apart, _store # NoStore, \A p \in Requests : WarmOf(p),
         NEW r \in Requests, Handle(r),
         NEW q \in InFlight, q # r, Writes(q)
  PROVE  mem'[_store][call[q].key] = mem[_store][call[q].key]
<1>a. TypeOK /\ mem \in [Requests -> Versions] /\ _store \in Requests /\ q \in Requests
  BY DEF TypeInv, TypeOK, InFlight
<1>1. CASE mem' = mem
  BY <1>1
<1>2. CASE PublishInsert(r)
  <2>1. /\ st[r] = _store /\ r \in InFlight /\ Writes(r)
    BY <1>2 DEF PublishInsert, At, WarmOf, InFlight, Idle, Writes
  <2>2. call[r].key # call[q].key
    BY <2>1 DEF Apart
  <2>3. PICK e \in Entries : mem' = Replace(mem, st[r], call[r].key, e)
    BY <1>a, <1>2, <2>1, InsertEffect
  <2>4. QED
    BY <1>a, <2>1, <2>2, <2>3, Replaced, CallType
<1>3. CASE YankMark(r)
  <2>1. /\ st[r] = _store /\ r \in InFlight /\ Writes(r) /\ Entry(r) # Absent
    BY <1>3 DEF YankMark, At, WarmOf, InFlight, Idle, Writes, Entry
  <2>2. call[r].key # call[q].key
    BY <2>1 DEF Apart
  <2>3. PICK e \in Entries :
          mem' = IF Entry(r).by = seen[r].by
                 THEN Replace(mem, st[r], call[r].key, e) ELSE mem
    BY <1>a, <1>3, <2>1, MarkEffect
  <2>4. Replace(mem, st[r], call[r].key, e)[_store][call[q].key] = mem[_store][call[q].key]
    BY <1>a, <2>1, <2>2, Replaced, CallType
  <2>5. QED
    BY <2>3, <2>4
<1>4. QED
  BY <1>1, <1>2, <1>3 DEF Handle, get_registry_store, _load, At, WarmOf, SetStore, Reject,
     PublishCheck, YankCheck, get_package_version, SaveIterate, SaveCollect, SaveTruncate,
     SaveWrite

\* What the step of a request does to the request itself.
LEMMA WarmOwnStep ==
  ASSUME TypeInv, _store # NoStore, \A p \in Requests : WarmOf(p),
         NEW r \in Requests, Arrive(r) \/ Handle(r)
  PROVE  WarmOf(r)' /\ _store' = _store
<1> USE DEF At, Goto, Finish, Decide, WarmOf, Saving, Undecided, TypeOK
<1>a. TypeOK /\ WarmOf(r)
  BY DEF TypeInv
<1>1. CASE Arrive(r)
  BY <1>a, <1>1 DEF Arrive, local
<1>2. CASE get_registry_store(r)
  <2>1. call[r].op \in {"publish", "yank", "get"}
    BY <1>a, CallType
  <2>2. pc' = [pc EXCEPT ![r] = call[r].op] /\ st' = [st EXCEPT ![r] = _store]
    BY <1>2 DEF get_registry_store
  <2>3. outcome[r] = "none" /\ outcome' = outcome /\ call' = call /\ _store' = _store
    BY <1>a, <1>2 DEF get_registry_store
  <2>4. pc'[r] = call[r].op /\ st'[r] = _store
    BY <1>a, <2>2
  <2>5. QED
    BY <2>1, <2>3, <2>4
<1>3. CASE Reject(r) \/ PublishCheck(r)
  <2>1. CASE Reject(r)
    BY <1>a, <2>1 DEF Reject, local
  <2>2. CASE PublishCheck(r)
    BY <1>a, <2>2 DEF PublishCheck, Entry, local
  <2>3. QED
    BY <1>3, <2>1, <2>2
<1>4. CASE PublishInsert(r)
  BY <1>a, <1>4 DEF PublishInsert, local
<1>5. CASE YankCheck(r)
  BY <1>a, <1>5 DEF YankCheck, Entry
<1>6. CASE YankMark(r) \/ get_package_version(r)
  BY <1>a, <1>6 DEF YankMark, get_package_version, local
<1>7. CASE SaveIterate(r) \/ SaveCollect(r) \/ SaveTruncate(r) \/ SaveWrite(r)
  BY <1>a, <1>7 DEF SaveIterate, SaveCollect, SaveTruncate, SaveWrite, local
<1>8. QED
  BY <1>a, <1>1, <1>2, <1>3, <1>4, <1>5, <1>6, <1>7 DEF Handle, _load, SetStore

LEMMA WarmStep ==
  ASSUME TypeInv, Apart, load = "spread", _store # NoStore, \A p \in Requests : WarmOf(p),
         NEW r \in Requests, Arrive(r) \/ Handle(r)
  PROVE  /\ _store' = _store
         /\ \A q \in Requests : WarmOf(q)'
<1>a. TypeOK
  BY DEF TypeInv
<1>b. WarmOf(r)' /\ _store' = _store
  BY WarmOwnStep
<1>1. ASSUME NEW q \in Requests, q # r
      PROVE  WarmOf(q)'
  <2>1. /\ pc'[q] = pc[q] /\ st'[q] = st[q] /\ outcome'[q] = outcome[q]
        /\ seen'[q] = seen[q] /\ call' = call
    BY <1>a, <1>1, OthersKept
  <2>2. pc[q] \in {"insert", "mark"} =>
          mem'[_store][call[q].key] = mem[_store][call[q].key]
    <3>1. CASE Arrive(r)
      BY <3>1 DEF Arrive
    <3>2. CASE Handle(r)
      <4>1. pc[q] \in {"insert", "mark"} => q \in InFlight /\ Writes(q)
        BY DEF WarmOf, InFlight, Idle, Writes
      <4>2. QED
        BY <1>1, <3>2, <4>1, Undisturbed
    <3>3. QED
      BY <3>1, <3>2
  <2>3. WarmOf(q)
    OBVIOUS
  <2>4. QED
    BY <1>b, <2>1, <2>2, <2>3 DEF WarmOf
<1>2. QED
  BY <1>b, <1>1

LEMMA SpreadInit == Init => SpreadInv
BY DEF Init, SpreadInv, Apart, InFlight, Idle, Cold, Saving

LEMMA SpreadStep ==
  ASSUME TypeInv, SpreadInv, [Next]_vars, "spread" \in Loads => MaxCrashes["spread"] = 0
  PROVE  SpreadInv'
<1>a. TypeOK
  BY DEF TypeInv
<1> SUFFICES ASSUME load' = "spread"
             PROVE  SpreadInv'
  BY DEF SpreadInv
<1>1. load = "spread"
  <2>1. load' = load
    BY DEF Next, Handle, Arrive, get_registry_store, _load, SetStore, Reject,
       PublishCheck, PublishInsert, YankCheck, YankMark, get_package_version, SaveIterate,
       SaveCollect, SaveTruncate, SaveWrite, Crash, vars
  <2>2. QED
    BY <2>1
<1>2. ~Crash
  BY <1>a, <1>1 DEF Crash, TypeOK
<1>3. ASSUME NEW r \in Requests, Arrive(r) \/ Handle(r)
      PROVE  SpreadInv'
  <2>1. Apart'
    BY <1>a, <1>1, <1>3, ApartStep DEF SpreadInv
  <2>2. CASE _store = NoStore
    BY <1>a, <1>1, <1>3, <2>1, <2>2, ColdStep DEF SpreadInv
  <2>3. CASE _store # NoStore
    BY <1>1, <1>3, <2>1, <2>3, WarmStep DEF SpreadInv
  <2>4. QED
    BY <2>2, <2>3
<1>4. CASE UNCHANGED vars
  BY <1>4 DEF SpreadInv, vars, local, fileVars, Apart, InFlight, Writes, Cold, WarmOf
<1>5. QED
  BY <1>2, <1>3, <1>4 DEF Next

-----------------------------------------------------------------------------
(* The refinement.                                                          *)

\* The index that the registry stands for.
Current == [k \in Keys |-> Plain(IF _store = NoStore THEN Seed[k] ELSE mem[_store][k])]

LEMMA PlainEntry ==
  ASSUME NEW v \in Entries
  PROVE  /\ v # Absent /\ Plain(v) # Absent
         /\ Plain(v) = [digest |-> v.digest, yanked |-> v.yanked]
         /\ Plain(v).digest = v.digest /\ Plain(v).yanked = v.yanked
BY EntriesPresent, RegistryAssumption DEF Plain, Entries

LEMMA CurrentEntry ==
  ASSUME TypeOK, NEW r \in Requests, _store # NoStore, st[r] = _store
  PROVE  /\ Entry(r) \in Entries \cup {Absent}
         /\ Current[call[r].key] = Plain(Entry(r))
<1>1. call[r].key \in Keys /\ _store \in Requests /\ mem \in [Requests -> Versions]
  BY CallType DEF TypeOK
<1>2. QED
  BY <1>1 DEF Entry, Current, Versions

LEMMA CurrentReplaced ==
  ASSUME TypeOK, _store # NoStore, _store' = _store, NEW k \in Keys, NEW e \in Entries,
         mem' = Replace(mem, _store, k, e)
  PROVE  Current' = [Current EXCEPT ![k] = Plain(e)]
<1>1. _store \in Requests /\ mem \in [Requests -> Versions]
  BY DEF TypeOK
<1>2. /\ mem'[_store][k] = e
      /\ \A l \in Keys : l # k => mem'[_store][l] = mem[_store][l]
  BY <1>1, Replaced
<1>3. QED
  BY <1>2 DEF Current

\* Steps that the abstract index does not see.
LEMMA QuietStep ==
  ASSUME TypeInv, SpreadInv, load = "spread", NEW r \in Requests,
         \/ Arrive(r) \/ get_registry_store(r) \/ _load(r) \/ SetStore(r)
         \/ SaveIterate(r) \/ SaveCollect(r) \/ SaveTruncate(r) \/ SaveWrite(r)
  PROVE  call' = call /\ outcome' = outcome /\ Current' = Current
<1>1. CASE Arrive(r) \/ get_registry_store(r)
  BY <1>1 DEF Arrive, get_registry_store, Current
<1>2. CASE _load(r)
  <2>1. _store = NoStore
    BY <1>2 DEF _load, At, SpreadInv, WarmOf
  <2>2. QED
    BY <1>2, <2>1 DEF _load, Current
<1>3. CASE SetStore(r)
  <2>1. _store = NoStore
    BY <1>3 DEF SetStore, At, SpreadInv, WarmOf
  <2>2. mem[r] = Seed
    BY <1>3, <2>1 DEF SetStore, At, SpreadInv, Cold
  <2>3. QED
    BY <1>3, <2>1, <2>2, RegistryAssumption DEF SetStore, Current
<1>4. CASE SaveIterate(r) \/ SaveCollect(r) \/ SaveTruncate(r) \/ SaveWrite(r)
  BY <1>4 DEF SaveIterate, SaveCollect, SaveTruncate, SaveWrite, Current
<1>5. QED
  BY <1>1, <1>2, <1>3, <1>4

\* A request that decides is one that the index may handle now.
LEMMA AtWork ==
  ASSUME SpreadInv, load = "spread", NEW r \in Requests,
         pc[r] \in {"publish", "insert", "yank", "mark", "get"}
  PROVE  _store # NoStore /\ st[r] = _store /\ outcome[r] = "none" /\ WarmOf(r)
BY DEF SpreadInv, Cold, WarmOf, Undecided, Saving

\* Deciding without a change of the index.
LEMMA AnswerStep ==
  ASSUME TypeInv, SpreadInv, load = "spread", NEW r \in Requests,
         \/ Reject(r) \/ get_package_version(r)
         \/ PublishCheck(r) /\ Entry(r) # Absent
         \/ YankCheck(r) /\ (Entry(r) = Absent \/ Entry(r).yanked)
  PROVE  Index!Handle(r)
<1>a. /\ TypeOK /\ _store # NoStore /\ st[r] = _store /\ outcome[r] = "none" /\ WarmOf(r)
      /\ call[r].key \in Keys
  BY AtWork, CallType DEF TypeInv, Reject, get_package_version, PublishCheck, YankCheck, At
<1>b. /\ Entry(r) \in Entries \cup {Absent}
      /\ Current[call[r].key] = Plain(Entry(r))
      /\ Plain(Absent) = Absent
  BY <1>a, CurrentEntry DEF Plain
<1>c. Current' = Current /\ call' = call
  BY DEF Reject, get_package_version, PublishCheck, YankCheck, Current
<1>d. Current' = [Current EXCEPT ![call[r].key] = Current[call[r].key]]
  BY <1>a, <1>c DEF Current
<1>1. CASE Reject(r)
  <2>1. ~call[r].valid /\ outcome' = [outcome EXCEPT ![r] = "rejected"]
    BY <1>1 DEF Reject, Decide
  <2>2. QED
    BY <1>a, <1>c, <1>d, <2>1 DEF Index!Handle, Index!Reject, Index!Decide, Current
<1>2. CASE get_package_version(r)
  <2>1. call[r].op = "get" /\ call[r].valid
    BY <1>a, <1>2, CallType DEF get_package_version, At, WarmOf
  <2>2. outcome' = [outcome EXCEPT ![r] = IF Entry(r) = Absent THEN "not_found"
                      ELSE IF Entry(r).yanked THEN "gone" ELSE "found"]
    BY <1>2 DEF get_package_version, Decide
  <2>3. Index!Get(r, call[r].key)
    <3>1. CASE Entry(r) = Absent
      BY <1>a, <1>b, <1>c, <1>d, <2>2, <3>1 DEF Index!Get, Index!Decide, Current
    <3>2. CASE Entry(r) # Absent
      <4>1. /\ Current[call[r].key] # Absent
            /\ Current[call[r].key].yanked = Entry(r).yanked
        BY <1>b, <3>2, PlainEntry
      <4>2. QED
        BY <1>a, <1>c, <1>d, <2>2, <3>2, <4>1 DEF Index!Get, Index!Decide, Current
    <3>3. QED
      BY <3>1, <3>2
  <2>4. QED
    BY <2>1, <2>3 DEF Index!Handle
<1>3. CASE PublishCheck(r) /\ Entry(r) # Absent
  <2>1. call[r].op = "publish" /\ call[r].valid
    BY <1>a, <1>3 DEF PublishCheck, At, WarmOf
  <2>2. outcome' = [outcome EXCEPT ![r] =
                      IF Entry(r).digest = call[r].digest THEN "published" ELSE "conflict"]
    BY <1>3 DEF PublishCheck, Decide
  <2>3. /\ Current[call[r].key] # Absent
        /\ Current[call[r].key].digest = Entry(r).digest
    BY <1>b, <1>3, PlainEntry
  <2>4. Index!Publish(r, call[r].key, call[r].digest)
    BY <1>a, <1>c, <1>d, <2>2, <2>3 DEF Index!Publish, Index!Decide, Current
  <2>5. QED
    BY <2>1, <2>4 DEF Index!Handle
<1>4. CASE YankCheck(r) /\ (Entry(r) = Absent \/ Entry(r).yanked)
  <2>1. call[r].op = "yank" /\ call[r].valid
    BY <1>a, <1>4 DEF YankCheck, At, WarmOf
  <2>2. outcome' = [outcome EXCEPT ![r] =
                      IF Entry(r) = Absent THEN "not_found" ELSE "conflict"]
    BY <1>4 DEF YankCheck, Decide
  <2>3. Index!Yank(r, call[r].key)
    <3>1. CASE Entry(r) = Absent
      BY <1>a, <1>b, <1>c, <1>d, <2>2, <3>1 DEF Index!Yank, Index!Decide, Current
    <3>2. CASE Entry(r) # Absent
      <4>1. Current[call[r].key] # Absent /\ Current[call[r].key].yanked
        BY <1>b, <1>4, <3>2, PlainEntry
      <4>2. QED
        BY <1>a, <1>c, <1>d, <2>2, <3>2, <4>1 DEF Index!Yank, Index!Decide, Current
    <3>3. QED
      BY <3>1, <3>2
  <2>4. QED
    BY <2>1, <2>3 DEF Index!Handle
<1>5. QED
  BY <1>1, <1>2, <1>3, <1>4

LEMMA InsertStep ==
  ASSUME TypeInv, SpreadInv, load = "spread", NEW r \in Requests, PublishInsert(r)
  PROVE  Index!Handle(r)
<1>a. /\ TypeOK /\ _store # NoStore /\ st[r] = _store /\ outcome[r] = "none" /\ WarmOf(r)
      /\ call[r].key \in Keys /\ _store' = _store /\ call' = call
  BY AtWork, CallType DEF TypeInv, PublishInsert, At
<1>1. /\ call[r].op = "publish" /\ call[r].valid /\ Entry(r) = Absent
      /\ outcome' = [outcome EXCEPT ![r] = "published"]
  BY <1>a DEF PublishInsert, At, Decide, WarmOf, Entry
<1>2. Current[call[r].key] = Absent
  BY <1>a, <1>1, CurrentEntry DEF Plain
<1>3. Current' = [Current EXCEPT ![call[r].key] =
                    [digest |-> call[r].digest, yanked |-> FALSE]]
  <2>1. st[r] \in Requests
    BY <1>a DEF TypeOK
  <2>2. PICK e \in Entries :
          /\ e.digest = call[r].digest /\ ~e.yanked
          /\ mem' = Replace(mem, _store, call[r].key, e)
    BY <1>a, <2>1, InsertEffect
  <2>3. Current' = [Current EXCEPT ![call[r].key] = Plain(e)]
    BY <1>a, <2>2, CurrentReplaced
  <2>4. e.yanked = FALSE
    BY <2>2 DEF Entries
  <2>5. QED
    BY <2>2, <2>3, <2>4, PlainEntry
<1>4. Index!Publish(r, call[r].key, call[r].digest)
  BY <1>a, <1>1, <1>2, <1>3 DEF Index!Publish, Index!Decide, Current
<1>5. QED
  BY <1>1, <1>4 DEF Index!Handle

LEMMA MarkStep ==
  ASSUME TypeInv, SpreadInv, load = "spread", NEW r \in Requests, YankMark(r)
  PROVE  Index!Handle(r)
<1>a. /\ TypeOK /\ _store # NoStore /\ st[r] = _store /\ outcome[r] = "none" /\ WarmOf(r)
      /\ call[r].key \in Keys /\ _store' = _store /\ call' = call
  BY AtWork, CallType DEF TypeInv, YankMark, At
<1>1. /\ call[r].op = "yank" /\ call[r].valid
      /\ Entry(r) = seen[r] /\ Entry(r) # Absent /\ ~Entry(r).yanked
      /\ outcome' = [outcome EXCEPT ![r] = "yanked"]
  BY <1>a DEF YankMark, At, Decide, WarmOf, Entry
<1>2. Entry(r) \in Entries /\ Current[call[r].key] = Plain(Entry(r))
  BY <1>a, <1>1, CurrentEntry
<1>3. /\ Current[call[r].key] # Absent /\ ~Current[call[r].key].yanked
      /\ Current[call[r].key] = [digest |-> Entry(r).digest, yanked |-> Entry(r).yanked]
  BY <1>1, <1>2, PlainEntry
<1>4. Current' = [Current EXCEPT ![call[r].key] =
                    [Current[call[r].key] EXCEPT !.yanked = TRUE]]
  <2>1. st[r] \in Requests
    BY <1>a DEF TypeOK
  <2>2. PICK e \in Entries :
          /\ e.digest = Entry(r).digest /\ e.yanked
          /\ mem' = Replace(mem, _store, call[r].key, e)
    BY <1>a, <1>1, <2>1, MarkEffect
  <2>3. Current' = [Current EXCEPT ![call[r].key] = Plain(e)]
    BY <1>a, <2>2, CurrentReplaced
  <2>4. e.yanked = TRUE
    BY <2>2 DEF Entries
  <2>5. Plain(e) = [digest |-> Entry(r).digest, yanked |-> TRUE]
    BY <2>2, <2>4, PlainEntry
  <2>6. Entry(r).digest \in Digests /\ Entry(r).yanked \in BOOLEAN
    BY <1>2 DEF Entries
  <2>7. [Current[call[r].key] EXCEPT !.yanked = TRUE] = Plain(e)
    <3>1. ASSUME NEW v \in [digest : Digests, yanked : BOOLEAN]
          PROVE  [v EXCEPT !.yanked = TRUE] = [digest |-> v.digest, yanked |-> TRUE]
      <4>1. PICK w \in [digest : Digests, yanked : BOOLEAN] : w = [v EXCEPT !.yanked = TRUE]
        OBVIOUS
      <4>2. w.digest = v.digest /\ w.yanked = TRUE
        BY <4>1
      <4>3. w = [digest |-> w.digest, yanked |-> w.yanked]
        OBVIOUS
      <4>4. QED
        BY <4>1, <4>2, <4>3
    <3>2. Current[call[r].key] \in [digest : Digests, yanked : BOOLEAN]
      BY <1>3, <2>6
    <3>3. Current[call[r].key].digest = Entry(r).digest
      BY <1>3
    <3>4. QED
      BY <2>5, <3>1, <3>2, <3>3
  <2>8. QED
    BY <2>3, <2>7
<1>5. Index!Yank(r, call[r].key)
  BY <1>a, <1>1, <1>3, <1>4 DEF Index!Yank, Index!Decide, Current
<1>6. QED
  BY <1>1, <1>5 DEF Index!Handle

LEMMA IndexInit == Init => Index!Init
<1> SUFFICES ASSUME Init PROVE Index!Init
  OBVIOUS
<1>1. /\ _store = NoStore /\ call \in [Requests -> Calls]
      /\ outcome = [r \in Requests |-> "none"]
  BY DEF Init
<1>2. Seed \in Versions
  BY SeedType
<1>3. \A k \in Keys : Plain(Seed[k]) = IF k = DemoKey
                                       THEN [digest |-> DemoDigest, yanked |-> FALSE]
                                       ELSE Absent
  <2>1. Plain(Absent) = Absent
    BY DEF Plain
  <2>2. [digest |-> DemoDigest, yanked |-> FALSE, by |-> NoStore] \in Entries
    BY RegistryAssumption DEF Entries
  <2>3. Plain([digest |-> DemoDigest, yanked |-> FALSE, by |-> NoStore])
          = [digest |-> DemoDigest, yanked |-> FALSE]
    BY <2>2, PlainEntry
  <2>4. QED
    BY <2>1, <2>3 DEF Seed
<1>4. QED
  BY <1>1, <1>3 DEF Index!Init

LEMMA IndexStep ==
  ASSUME TypeInv, SpreadInv, load = "spread", [Next]_vars, MaxCrashes["spread"] = 0
  PROVE  Index!Next \/ UNCHANGED Index!vars
<1>a. TypeOK
  BY DEF TypeInv
<1>1. ~Crash
  BY <1>a DEF Crash, TypeOK
<1>2. ASSUME call' = call, outcome' = outcome, Current' = Current
      PROVE  UNCHANGED Index!vars
  BY <1>2 DEF Index!vars, Current
<1>3. ASSUME NEW r \in Requests, Arrive(r) \/ Handle(r)
      PROVE  Index!Next \/ UNCHANGED Index!vars
  <2>1. CASE \/ Arrive(r) \/ get_registry_store(r) \/ _load(r) \/ SetStore(r)
             \/ SaveIterate(r) \/ SaveCollect(r) \/ SaveTruncate(r) \/ SaveWrite(r)
    BY <1>2, <2>1, QuietStep
  <2>2. CASE \/ Reject(r) \/ get_package_version(r)
             \/ PublishCheck(r) /\ Entry(r) # Absent
             \/ YankCheck(r) /\ (Entry(r) = Absent \/ Entry(r).yanked)
    BY <2>2, AnswerStep DEF Index!Next
  <2>3. CASE PublishCheck(r) /\ Entry(r) = Absent
    <3>1. call' = call /\ outcome' = outcome /\ Current' = Current
      BY <2>3 DEF PublishCheck, Current
    <3>2. QED
      BY <1>2, <3>1
  <2>4. CASE YankCheck(r) /\ Entry(r) # Absent /\ ~Entry(r).yanked
    <3>1. call' = call /\ outcome' = outcome /\ Current' = Current
      BY <2>4 DEF YankCheck, Current
    <3>2. QED
      BY <1>2, <3>1
  <2>5. CASE PublishInsert(r)
    BY <2>5, InsertStep DEF Index!Next
  <2>6. CASE YankMark(r)
    BY <2>6, MarkStep DEF Index!Next
  <2>7. QED
    BY <1>3, <2>1, <2>2, <2>3, <2>4, <2>5, <2>6 DEF Handle
<1>4. CASE UNCHANGED vars
  <2>1. call' = call /\ outcome' = outcome /\ Current' = Current
    BY <1>4 DEF vars, local, fileVars, Current
  <2>2. QED
    BY <1>2, <2>1
<1>5. QED
  BY <1>1, <1>3, <1>4 DEF Next

\* While the server is not killed, and if no two requests in flight change one
\* version, the threads of handle_request, which interleave at every step, answer
\* as the index of openapi/registry-v1.yaml that handles one request at a time.
THEOREM ImplementsIndex ==
  ASSUME "spread" \in Loads => MaxCrashes["spread"] = 0
  PROVE  Spec => ImplementsPackageIndex
<1>1. Init => Index!Init
  BY IndexInit
<1>2. TypeInv /\ [Next]_vars => TypeInv'
  BY TypeInvStep
<1>3. TypeInv /\ SpreadInv /\ [Next]_vars => SpreadInv'
  BY SpreadStep
<1>4. TypeInv /\ SpreadInv /\ [Next]_vars => [load = "spread" => Index!Next]_(Index!vars)
  BY IndexStep DEF TypeInv, TypeOK
<1>5. Spec => [](TypeInv /\ SpreadInv)
  BY TypeInit, SpreadInit, <1>2, <1>3, PTL DEF Spec
<1>6. Spec => [][load = "spread" => Index!Next]_(Index!vars)
  BY <1>4, <1>5, PTL DEF Spec
<1>7. QED
  BY <1>1, <1>6 DEF ImplementsPackageIndex, Spec
=============================================================================
