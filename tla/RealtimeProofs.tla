--------------------------- MODULE RealtimeProofs ---------------------------
(***************************************************************************)
(* Proofs about Realtime, for every number of connections, topics, joins   *)
(* events and ids, and every set of tokens and subscriptions.              *)
(***************************************************************************)
EXTENDS Realtime, TLAPS, FiniteSetTheorems, SequenceTheorems

Entry == [topic : Topics, session : Sessions, live : BOOLEAN]

\* The live slots of a dict are finitely many: its size is a number.
LEMMA LiveFinite ==
  ASSUME TypeOK, NEW c \in Conns
  PROVE  /\ Live(c) \subseteq Nat \ {0}
         /\ IsFiniteSet(Live(c)) /\ Cardinality(Live(c)) \in Nat
<1>1. topics[c] \in Seq(Entry)
  BY DEF TypeOK, Entry
<1>2. DOMAIN topics[c] = 1..Len(topics[c]) /\ Len(topics[c]) \in Nat
  BY <1>1
<1>3. Live(c) \in SUBSET Nat /\ \A k \in Live(c) : k # 0 /\ k <= Len(topics[c])
  BY <1>2 DEF Live
<1>4. IsFiniteSet(Live(c))
  BY <1>2, <1>3, FS_BoundedSetOfNaturals
<1>5. QED
  BY <1>3, <1>4, FS_CardinalityType

\* Resolving a token against the claims of the connection gives known claims.
LEMMA ResolveType ==
  ASSUME NEW token \in Tokens
  PROVE  /\ claims_from_access_token(token) \in ClaimSet
         /\ \A claims \in ClaimSet : _resolve_claims(token, claims) \in ClaimSet
BY DEF _resolve_claims, ClaimSet

\* The live slots in their order are all the live slots, and each moves left.
LEMMA Packed ==
  ASSUME TypeOK, NEW c \in Conns, NEW f \in Packings(c)
  PROVE  LET m == Cardinality(Live(c)) IN
         /\ m \in Nat /\ f \in [1..m -> Live(c)]
         /\ \A k, l \in 1..m : f[k] = f[l] => k = l
         /\ \A k \in 1..m : k <= f[k]
         /\ \A l \in Live(c) : \E k \in 1..m : f[k] = l
<1> DEFINE m == Cardinality(Live(c))
<1>1. /\ m \in Nat /\ Live(c) \subseteq Nat \ {0} /\ IsFiniteSet(Live(c))
      /\ f \in [1..m -> Live(c)] /\ \A k, l \in 1..m : k < l => f[k] < f[l]
  BY LiveFinite DEF Packings
<1> HIDE DEF m
<1>2. \A k \in 1..m : f[k] \in Nat \ {0}
  BY <1>1
<1>3. ASSUME NEW k \in 1..m, NEW l \in 1..m, f[k] = f[l]
      PROVE  k = l
  <2>1. ~(k < l) /\ ~(l < k)
    BY <1>1, <1>2, <1>3
  <2>2. QED
    BY <1>1, <2>1
<1>4. f \in Injection(1..m, Live(c))
  BY <1>1, <1>3 DEF Injection, IsInjective
<1>5. IsFiniteSet(1..m) /\ Cardinality(1..m) = m
  BY <1>1, FS_Interval
<1>6. f \in Surjection(1..m, Live(c))
  BY <1>1, <1>4, <1>5, FS_Injection DEF m
<1>7. ASSUME NEW k \in 1..m
      PROVE  k <= f[k]
  <2> DEFINE g == [l \in 1..k |-> f[l]]
  <2>1. ASSUME NEW l \in 1..k
        PROVE  l \in 1..m /\ f[l] \in 1..f[k]
    <3>1. l \in 1..m /\ f[l] \in Nat \ {0} /\ f[k] \in Nat \ {0}
      BY <1>1, <1>2, <1>7, <2>1
    <3>2. l = k \/ f[l] < f[k]
      BY <1>1, <1>7, <2>1, <3>1
    <3>3. QED
      BY <3>1, <3>2
  <2>2. g \in [1..k -> 1..f[k]]
    BY <2>1
  <2>3. g \in Injection(1..k, 1..f[k])
    BY <1>3, <2>1, <2>2 DEF Injection, IsInjective
  <2> HIDE DEF g
  <2>4. k \in Nat \ {0} /\ f[k] \in Nat \ {0}
    BY <1>1, <1>2, <1>7
  <2>5. \A n \in Nat \ {0} : IsFiniteSet(1..n) /\ Cardinality(1..n) = n
    BY FS_Interval
  <2>6. Cardinality(1..k) <= Cardinality(1..f[k])
    BY <2>3, <2>4, <2>5, FS_Injection
  <2>7. QED
    BY <2>4, <2>5, <2>6
<1>8. QED
  BY <1>1, <1>3, <1>6, <1>7 DEF Surjection, m

\* The live slots in their order are the slots of a table again.
LEMMA PackedType ==
  ASSUME TypeOK, NEW c \in Conns, NEW f \in Packings(c)
  PROVE  /\ [k \in DOMAIN f |-> topics[c][f[k]]] \in Seq(Entry)
         /\ Len([k \in DOMAIN f |-> topics[c][f[k]]]) = Cardinality(Live(c))
         /\ DOMAIN f = 1..Cardinality(Live(c))
<1> DEFINE m == Cardinality(Live(c))
           e(k) == topics[c][f[k]]
<1>1. m \in Nat /\ f \in [1..m -> Live(c)]
  BY Packed
<1>2. topics[c] \in Seq(Entry)
  BY DEF TypeOK, Entry
<1> HIDE DEF m
<1>3. \A k \in 1..m : e(k) \in Entry
  BY <1>1, <1>2, ElementOfSeq DEF Live
<1> HIDE DEF e
<1>4. [k \in 1..m |-> e(k)] \in Seq(Entry) /\ DOMAIN f = 1..m
  BY <1>1, <1>3, IsASeq
<1>5. Len([k \in 1..m |-> e(k)]) = m
  BY <1>1
<1>6. QED
  BY <1>4, <1>5 DEF e, m

NewEntry(t, session) == [topic |-> t, session |-> session, live |-> TRUE]

\* The ways a dict assignment leaves the table.
LEMMA TableCases ==
  ASSUME NEW c \in Conns, NEW t \in Topics, NEW session, NEW table \in Tables(c, t, session)
  PROVE  \/ /\ Slots(c, t) # {}
            /\ table = [k \in DOMAIN topics[c] |->
                          IF k \in Slots(c, t) THEN NewEntry(t, session) ELSE topics[c][k]]
         \/ Slots(c, t) = {} /\ table = Append(topics[c], NewEntry(t, session))
         \/ /\ Slots(c, t) = {}
            /\ \E f \in Packings(c) :
                 table = Append([k \in DOMAIN f |-> topics[c][f[k]]], NewEntry(t, session))
BY DEF Tables, NewEntry

\* Assigning a key of a dict leaves a well-formed table.
LEMMA TablesType ==
  ASSUME TypeOK, NEW c \in Conns, NEW t \in Topics, NEW session \in Sessions,
         NEW table \in Tables(c, t, session)
  PROVE  table \in Seq(Entry)
<1> DEFINE entry == NewEntry(t, session)
<1>1. topics[c] \in Seq(Entry)
  BY DEF TypeOK, Entry
<1>2. entry \in Entry
  BY DEF Entry, NewEntry
<1>3. \/ table = [k \in DOMAIN topics[c] |->
                    IF k \in Slots(c, t) THEN entry ELSE topics[c][k]]
      \/ table = Append(topics[c], entry)
      \/ \E f \in Packings(c) :
           table = Append([k \in DOMAIN f |-> topics[c][f[k]]], entry)
  BY TableCases
<1> HIDE DEF entry
<1>4. CASE table = [k \in DOMAIN topics[c] |->
                      IF k \in Slots(c, t) THEN entry ELSE topics[c][k]]
  <2> DEFINE f(k) == IF k \in Slots(c, t) THEN entry ELSE topics[c][k]
  <2>1. DOMAIN topics[c] = 1..Len(topics[c]) /\ Len(topics[c]) \in Nat
    BY <1>1
  <2>2. ASSUME NEW k \in 1..Len(topics[c])
        PROVE  f(k) \in Entry
    BY <1>1, <1>2, ElementOfSeq
  <2> HIDE DEF f
  <2>3. [k \in 1..Len(topics[c]) |-> f(k)] \in Seq(Entry)
    BY <2>1, <2>2, IsASeq
  <2>4. QED
    BY <1>4, <2>1, <2>3 DEF f
<1>5. CASE table = Append(topics[c], entry)
  BY <1>1, <1>2, <1>5
<1>6. CASE \E f \in Packings(c) :
             table = Append([k \in DOMAIN f |-> topics[c][f[k]]], entry)
  <2>1. PICK f \in Packings(c) :
          table = Append([k \in DOMAIN f |-> topics[c][f[k]]], entry)
    BY <1>6
  <2> DEFINE packed == [k \in DOMAIN f |-> topics[c][f[k]]]
  <2>2. packed \in Seq(Entry) /\ table = Append(packed, entry)
    BY <2>1, PackedType
  <2> HIDE DEF packed
  <2>3. QED
    BY <1>2, <2>2
<1>7. QED
  BY <1>3, <1>4, <1>5, <1>6

\* Handing a message to a transport, or failing to, keeps what was sent typed.
LEMMA ReplyType ==
  ASSUME TypeOK, NEW c \in Conns, NEW m \in Message,
         NEW next \in {"recv", "system"}, Reply(c, m, next)
  PROVE  /\ sent' \in [Conns -> Seq(Message)]
         /\ handler' \in [Conns -> {"recv", "system", "raised"}]
<1>1. sent[c] \in Seq(Message)
  BY DEF TypeOK
<1>2. Append(sent[c], m) \in Seq(Message)
  BY <1>1
<1>3. CASE net[c] = "open"
  BY <1>2, <1>3 DEF TypeOK, Reply, Transmit
<1>4. CASE net[c] # "open"
  BY <1>4 DEF TypeOK, Reply
<1>5. QED
  BY <1>3, <1>4

\* The handler of a connection ends: its loop does, or it raises.
Ends(c) == Unwind(c) \/ JoinRaises(c)

LEMMA EndsForgets ==
  ASSUME NEW c \in Conns, Ends(c)
  PROVE  Forget(c) /\ net[c] \in {"open", "closed"}
BY DEF Ends, Unwind, JoinRaises, Handling

-----------------------------------------------------------------------------
LEMMA InitType == Init => TypeOK
BY RealtimeAssumption DEF Init, TypeOK

LEMMA EnqueueType ==
  ASSUME TypeOK, NEW event \in Events, _enqueue_changefeed_event(event)
  PROVE  TypeOK'
<1> USE DEF TypeOK
<1>1. feed' \in Seq(Events) /\ Len(feed') = Len(feed) + 1 /\ Len(feed) \in Nat
  BY DEF _enqueue_changefeed_event
<1>2. Len(feed') <= MaxEvents /\ taken' \in 0..Len(feed')
  BY <1>1, RealtimeAssumption DEF _enqueue_changefeed_event
<1>3. QED
  BY <1>1, <1>2 DEF _enqueue_changefeed_event, drainVars, connVars, joinVars

LEMMA ConnectType ==
  ASSUME TypeOK, NEW c \in Conns, NEW i \in Ids, NEW token \in Tokens,
         Connect(c, i, token)
  PROVE  TypeOK'
BY ResolveType DEF TypeOK, Connect, feedVars, drainVars, joinVars

LEMMA CloseType ==
  ASSUME TypeOK, NEW c \in Conns, Close(c)
  PROVE  TypeOK'
BY DEF TypeOK, Close, feedVars, drainVars, joinVars

LEMMA EndsType ==
  ASSUME TypeOK, NEW c \in Conns, Ends(c)
  PROVE  TypeOK'
BY EndsForgets DEF TypeOK, Forget, feedVars, drainVars

LEMMA JoinType ==
  ASSUME TypeOK, DrainControl, IdsFiled, NEW c \in Conns, NEW t \in Topics,
         NEW token \in Tokens, NEW config \in Configs, _handle_join(c, t, token, config)
  PROVE  TypeOK'
<1> DEFINE claims  == _resolve_claims(token, query[c])
           session == [join |-> joins + 1, claims |-> claims, subs |-> config,
                       since |-> taken]
<1>1. /\ net[c] \in {"open", "closed"} /\ joins < MaxJoins /\ joins' = joins + 1
      /\ UNCHANGED <<feedVars, drainVars, connVars>>
  BY DEF _handle_join, Handling
<1>2. idOf[c] \in Ids /\ query[c] \in ClaimSet
  BY <1>1 DEF IdsFiled
<1>3. taken \in 0..MaxEvents /\ joins + 1 \in 1..MaxJoins
  BY <1>1, RealtimeAssumption DEF TypeOK
<1>4. session \in Sessions
  BY <1>2, <1>3, ResolveType DEF Sessions
<1>8. /\ joins' \in 0..MaxJoins
      /\ UNCHANGED <<feed, taken, drain, snapshot, cur, net, idOf, query, activeWs>>
  BY <1>1, <1>3, RealtimeAssumption DEF feedVars, drainVars, connVars
<1> HIDE DEF session
<1>5. CASE authorize_join(claims)
  <2> DEFINE m == [kind |-> "ok", topic |-> t, session |-> session]
             next == IF config = <<>> THEN "recv" ELSE "system"
  <2>1. PICK table \in Tables(c, t, session) :
          /\ topics' = [topics EXCEPT ![c] = table] /\ Moves(c, table)
          /\ wsIndex' = [wsIndex EXCEPT ![idOf[c]] = c]
          /\ Reply(c, m, next)
    BY <1>5 DEF _handle_join, session
  <2>2. m \in Message
    BY <1>4 DEF Message
  <2> HIDE DEF m
  <2>3. /\ sent' \in [Conns -> Seq(Message)]
        /\ handler' \in [Conns -> {"recv", "system", "raised"}]
    BY <2>1, <2>2, ReplyType
  <2>4. topics' \in [Conns -> Seq(Entry)]
    BY <1>4, <2>1, TablesType DEF TypeOK, Entry
  <2>5. wsIndex' \in [Ids -> Conns \cup {None}]
    BY <1>2, <2>1 DEF TypeOK
  <2>6. moved' \in [Conns -> SUBSET (1..MaxEvents)]
    <3>1. cur # None => taken \in 1..MaxEvents
      BY <1>3 DEF DrainControl, TypeOK
    <3>2. QED
      BY <2>1, <3>1 DEF Moves, TypeOK
  <2>7. QED
    BY <1>8, <2>3, <2>4, <2>5, <2>6 DEF TypeOK, Entry
<1>6. CASE ~authorize_join(claims)
  <2>1. /\ UNCHANGED <<wsIndex, topics, moved>>
        /\ Reply(c, [kind |-> "error", topic |-> t], "recv")
    BY <1>6 DEF _handle_join
  <2>2. [kind |-> "error", topic |-> t] \in Message
    BY DEF Message
  <2>3. QED
    BY <1>8, <2>1, <2>2, ReplyType DEF TypeOK
<1>7. QED
  BY <1>5, <1>6

LEMMA SystemType ==
  ASSUME TypeOK, NEW c \in Conns, SendSystem(c)
  PROVE  TypeOK'
<1>1. [kind |-> "system"] \in Message
  BY DEF Message
<1>2. QED
  BY <1>1, ReplyType
     DEF TypeOK, SendSystem, feedVars, drainVars, connVars

LEMMA LeaveType ==
  ASSUME TypeOK, NEW c \in Conns, NEW t \in Topics, HandleLeave(c, t)
  PROVE  TypeOK'
<1>1. PICK k \in Slots(c, t) :
        /\ topics' = [topics EXCEPT ![c][k].live = FALSE]
        /\ \/ Reply(c, [kind |-> "left", join |-> topics[c][k].session.join,
                        ev |-> taken], "recv")
           \/ UNCHANGED <<sent, handler>>
  BY DEF HandleLeave
<1>2. topics[c] \in Seq(Entry) /\ k \in 1..Len(topics[c])
  <2>1. topics[c] \in Seq(Entry)
    BY DEF TypeOK, Entry
  <2>2. k \in DOMAIN topics[c]
    BY DEF Slots, Live
  <2>3. QED
    BY <2>1, <2>2
<1>3. topics[c][k] \in Entry
  BY <1>2, ElementOfSeq
<1>4. [topics[c] EXCEPT ![k].live = FALSE] \in Seq(Entry)
  <2>1. [topics[c][k] EXCEPT !.live = FALSE] \in Entry
    BY <1>3 DEF Entry
  <2>2. QED
    BY <1>2, <2>1, ExceptSeq
<1>5. topics' \in [Conns -> Seq(Entry)]
  BY <1>1, <1>4 DEF TypeOK, Entry
<1>6. taken \in 0..MaxEvents
  BY RealtimeAssumption DEF TypeOK
<1>7. [kind |-> "left", join |-> topics[c][k].session.join, ev |-> taken] \in Message
  BY <1>3, <1>6 DEF Message, Entry, Sessions
<1>8. /\ sent' \in [Conns -> Seq(Message)]
      /\ handler' \in [Conns -> {"recv", "system", "raised"}]
  BY <1>1, <1>7, ReplyType DEF TypeOK
<1>9. QED
  BY <1>5, <1>8 DEF TypeOK, Entry, HandleLeave, feedVars, drainVars, connVars

LEMMA TakeType ==
  ASSUME TypeOK, Take
  PROVE  TypeOK'
<1>1. taken' \in 0..Len(feed) /\ feed' = feed
  BY DEF TypeOK, Take
<1>2. snapshot' \in SUBSET Conns
  BY DEF TypeOK, Take
<1>3. QED
  BY <1>1, <1>2 DEF TypeOK, Take, connVars, joinVars

LEMMA NextWsType ==
  ASSUME TypeOK, IdsFiled, NEW c \in Conns, NextWs(c)
  PROVE  TypeOK'
<1>1. idOf[c] \in Ids
  BY DEF NextWs, IdsFiled
<1>2. cur' \in Iterations \cup {None}
  BY <1>1, LiveFinite DEF TypeOK, NextWs, Iterations
<1>3. QED
  BY <1>2 DEF TypeOK, NextWs, feedVars, connVars, joinVars

LEMMA EndBroadcastType ==
  ASSUME TypeOK, EndBroadcast
  PROVE  TypeOK'
BY DEF TypeOK, EndBroadcast, feedVars, connVars, joinVars

\* What the iterator binds is typed.
LEMMA BindsTyped ==
  ASSUME TypeOK, cur \in Iterations, NEW k \in Ahead, ~KeysChanged
  PROVE  [cur EXCEPT !.left = @ - 1, !.slot = k, !.sub = 1,
                     !.topic = topics[cur.owner][k].topic,
                     !.session = topics[cur.owner][k].session] \in Iterations
<1>1. cur.owner \in Conns /\ cur.left \in Nat
  BY DEF Iterations
<1>2. cur.left # 0
  BY DEF KeysChanged
<1>3. cur.left - 1 \in Nat
  BY <1>1, <1>2
<1>4. k \in DOMAIN topics[cur.owner] /\ topics[cur.owner] \in Seq(Entry)
  BY <1>1 DEF Ahead, Live, TypeOK, Entry
<1>5. topics[cur.owner][k] \in Entry /\ k \in Nat \ {0}
  BY <1>4, ElementOfSeq
<1>6. topics[cur.owner][k].topic \in Topics /\ topics[cur.owner][k].session \in Sessions
  BY <1>5 DEF Entry
<1> DEFINE next == [cur EXCEPT !.left = @ - 1, !.slot = k, !.sub = 1,
                               !.topic = topics[cur.owner][k].topic,
                               !.session = topics[cur.owner][k].session]
<1>7. /\ cur.ws \in Conns /\ cur.size \in Nat
      /\ cur = [owner |-> cur.owner, ws |-> cur.ws, size |-> cur.size,
                left |-> cur.left, slot |-> cur.slot, sub |-> cur.sub,
                topic |-> cur.topic, session |-> cur.session]
  BY DEF Iterations
<1>8. next = [owner |-> cur.owner, ws |-> cur.ws, size |-> cur.size,
              left |-> cur.left - 1, slot |-> k, sub |-> 1,
              topic |-> topics[cur.owner][k].topic,
              session |-> topics[cur.owner][k].session]
  <2>1. DOMAIN next = {"owner", "ws", "size", "left", "slot", "sub", "topic", "session"}
    BY <1>7
  <2>2. /\ next.owner = cur.owner /\ next.ws = cur.ws /\ next.size = cur.size
        /\ next.left = cur.left - 1 /\ next.slot = k /\ next.sub = 1
        /\ next.topic = topics[cur.owner][k].topic
        /\ next.session = topics[cur.owner][k].session
    BY <1>7
  <2>3. next = [x \in DOMAIN next |-> next[x]]
    OBVIOUS
  <2> HIDE DEF next
  <2>4. QED
    BY <2>1, <2>2, <2>3
<1> HIDE DEF next
<1>9. next \in Iterations
  BY <1>1, <1>3, <1>5, <1>6, <1>7, <1>8 DEF Iterations
<1>10. QED
  BY <1>9 DEF next

LEMMA NextTopicType ==
  ASSUME TypeOK, NextTopic
  PROVE  TypeOK'
<1>1. cur \in Iterations
  BY DEF TypeOK, NextTopic
<1>2. cur' \in Iterations \cup {None}
  <2>1. CASE cur' = cur \/ cur' = None
    BY <1>1, <2>1
  <2>2. CASE ~(cur' = cur \/ cur' = None)
    <3>1. /\ ~KeysChanged
          /\ \E k \in Ahead :
               cur' = [cur EXCEPT !.left = @ - 1, !.slot = k, !.sub = 1,
                                  !.topic = topics[cur.owner][k].topic,
                                  !.session = topics[cur.owner][k].session]
      BY <2>2 DEF NextTopic
    <3>2. QED
      BY <1>1, <3>1, BindsTyped
  <2>3. QED
    BY <2>1, <2>2
<1>3. QED
  BY <1>2 DEF TypeOK, NextTopic, feedVars, connVars, joinVars

\* What the iterator binds is the first live slot ahead of it.
LEMMA NextTopicBinds ==
  ASSUME TypeOK, NextTopic, cur' # cur, cur' # None
  PROVE  /\ cur # None /\ SessionDone /\ drain = "run"
         /\ UNCHANGED <<feedVars, drain, snapshot, connVars, joinVars, sent>>
         /\ \E k \in Ahead :
              /\ \A l \in Ahead : k <= l
              /\ cur'.owner = cur.owner /\ cur'.ws = cur.ws
              /\ cur'.slot = k /\ cur'.sub = 1
              /\ cur'.topic = topics[cur.owner][k].topic
              /\ cur'.session = topics[cur.owner][k].session
<1>1. cur \in Iterations
  BY DEF TypeOK, NextTopic
<1>2. PICK k \in Ahead :
        /\ \A l \in Ahead : k <= l
        /\ cur' = [cur EXCEPT !.left = @ - 1, !.slot = k, !.sub = 1,
                              !.topic = topics[cur.owner][k].topic,
                              !.session = topics[cur.owner][k].session]
  BY DEF NextTopic
<1>3. /\ cur'.owner = cur.owner /\ cur'.ws = cur.ws /\ cur'.slot = k /\ cur'.sub = 1
      /\ cur'.topic = topics[cur.owner][k].topic
      /\ cur'.session = topics[cur.owner][k].session
  BY <1>1, <1>2 DEF Iterations
<1>4. QED
  BY <1>2, <1>3 DEF NextTopic

\* Two iterations that differ at most in the subscription they are at.
SameBinding(it, jt) ==
  /\ it.owner = jt.owner /\ it.ws = jt.ws /\ it.size = jt.size
  /\ it.slot = jt.slot /\ it.topic = jt.topic /\ it.session = jt.session

\* Inside a session, the iteration holds a topic and a typed session.
LEMMA InSession ==
  ASSUME TypeOK, cur # None, ~SessionDone
  PROVE  /\ cur.slot # 0 /\ cur \in Iterations
         /\ cur.owner \in Conns /\ cur.ws \in Conns /\ cur.topic \in Topics
         /\ cur.session \in Sessions /\ cur.sub \in Nat \ {0}
         /\ [cur EXCEPT !.sub = @ + 1] \in Iterations
         /\ [cur EXCEPT !.sub = @ + 1] # None
         /\ SameBinding([cur EXCEPT !.sub = @ + 1], cur)
<1>1. cur \in Iterations /\ cur.slot # 0
  BY DEF TypeOK, SessionDone
<1>2. cur \in [owner : Conns, ws : Conns, size : Nat, left : Nat, slot : Nat \ {0},
                sub : Nat \ {0}, topic : Topics, session : Sessions]
  BY <1>1 DEF Iterations
<1>3. [cur EXCEPT !.sub = @ + 1] \in Iterations
  BY <1>2 DEF Iterations
<1>4. SameBinding([cur EXCEPT !.sub = @ + 1], cur)
  BY <1>2 DEF SameBinding
<1>5. QED
  BY <1>1, <1>2, <1>3, <1>4, NoneAssumption

LEMMA SkipSubType ==
  ASSUME TypeOK, SkipSub
  PROVE  TypeOK'
<1>1. cur' \in Iterations
  BY InSession DEF SkipSub
<1>2. QED
  BY <1>1 DEF TypeOK, SkipSub, feedVars, connVars, joinVars

LEMMA SendSubType ==
  ASSUME TypeOK, DrainControl, SendSub
  PROVE  TypeOK'
<1>1. /\ cur.ws \in Conns /\ cur.topic \in Topics /\ cur.session \in Sessions
      /\ cur.sub \in Nat /\ cur \in Iterations
      /\ [cur EXCEPT !.sub = @ + 1] \in Iterations
  BY InSession DEF SendSub
<1>2. taken \in 1..MaxEvents
  BY RealtimeAssumption DEF TypeOK, DrainControl, SendSub
<1> DEFINE m == [kind |-> "changes", topic |-> cur.topic,
                 join |-> cur.session.join, sub |-> cur.sub, ev |-> taken]
<1>3. m \in Message
  BY <1>1, <1>2 DEF Message, Sessions
<1> HIDE DEF m
<1>4. Append(sent[cur.ws], m) \in Seq(Message)
  BY <1>1, <1>3 DEF TypeOK
<1>5. sent' \in [Conns -> Seq(Message)] /\ cur' \in Iterations
  BY <1>1, <1>4 DEF TypeOK, SendSub, Transmit, m
<1>6. QED
  BY <1>5 DEF TypeOK, SendSub, feedVars, connVars, joinVars

LEMMA ResumeType ==
  ASSUME TypeOK, Resume
  PROVE  TypeOK'
BY DEF TypeOK, Resume, feedVars, connVars, joinVars

-----------------------------------------------------------------------------
\* Type correctness is preserved by every step.
LEMMA TypeStep ==
  ASSUME TypeOK, DrainControl, IdsFiled, [Next]_vars
  PROVE  TypeOK'
<1>1. CASE UNCHANGED vars
  BY <1>1 DEF TypeOK, vars, feedVars, drainVars, connVars, joinVars
<1>2. ASSUME NEW event \in Events, _enqueue_changefeed_event(event)
      PROVE  TypeOK'
  BY <1>2, EnqueueType
<1>3. ASSUME NEW c \in Conns, Network(c)
      PROVE  TypeOK'
  BY <1>3, ConnectType, CloseType DEF Network
<1>4. ASSUME NEW c \in Conns, Handler(c)
      PROVE  TypeOK'
  BY <1>4, JoinType, LeaveType, SystemType, EndsType DEF Handler, Ends
<1>5. CASE Drain
  BY <1>5, TakeType, NextWsType, EndBroadcastType, NextTopicType, SkipSubType,
     SendSubType, ResumeType DEF Drain
<1>6. QED
  BY <1>1, <1>2, <1>3, <1>4, <1>5 DEF Next

\* The handlers and the network leave the queue and the drain task alone.
LEMMA LoopFrame ==
  ASSUME NEW c \in Conns, Network(c) \/ Handler(c)
  PROVE  UNCHANGED <<feed, taken, drain, snapshot, cur>>
<1> USE DEF feedVars, drainVars
<1>1. CASE Network(c)
  BY <1>1 DEF Network, Connect, Close
<1>2. CASE Handler(c)
  BY <1>2, EndsForgets DEF Handler, _handle_join, HandleLeave, SendSystem, Ends, Forget
<1>3. QED
  BY <1>1, <1>2

\* The drain task and the changefeed leave the connections and joins alone.
LEMMA DrainFrame ==
  ASSUME Drain \/ \E event \in Events : _enqueue_changefeed_event(event)
  PROVE  UNCHANGED <<net, idOf, query, activeWs, wsIndex, topics, moved, handler, joins>>
BY DEF Drain, _enqueue_changefeed_event, Take, NextWs, EndBroadcast, NextTopic,
       SkipSub, SendSub, Resume, connVars, joinVars

LEMMA DrainControlStep ==
  ASSUME TypeOK, DrainControl, [Next]_vars
  PROVE  DrainControl'
<1> USE DEF DrainControl
<1>1. CASE UNCHANGED <<taken, drain, snapshot, cur>>
  BY <1>1
<1>2. CASE Take
  BY <1>2 DEF Take, TypeOK
<1>3. CASE \E c \in Conns : NextWs(c)
  BY <1>3 DEF NextWs, feedVars
<1>4. CASE EndBroadcast
  BY <1>4 DEF EndBroadcast, feedVars
<1>5. CASE NextTopic
  BY <1>5 DEF NextTopic, feedVars
<1>6. CASE SkipSub
  BY <1>6 DEF SkipSub, feedVars
<1>7. CASE SendSub
  BY <1>7, InSession DEF SendSub, feedVars, SameBinding
<1>8. CASE Resume
  BY <1>8 DEF Resume, feedVars
<1>9. ASSUME NEW event \in Events, _enqueue_changefeed_event(event)
      PROVE  DrainControl'
  BY <1>9 DEF _enqueue_changefeed_event, drainVars
<1>10. CASE UNCHANGED vars
  BY <1>10 DEF vars, feedVars, drainVars
<1>11. QED
  BY <1>1, <1>2, <1>3, <1>4, <1>5, <1>6, <1>7, <1>8, <1>9, <1>10, LoopFrame
     DEF Next, Drain

\* Which connections a step of the drain task can bring under iteration.
LEMMA DrainIterates ==
  ASSUME TypeOK, IdsFiled, DrainControl, Drain
  PROVE  /\ \A c \in snapshot' : net[c] # "absent"
         /\ cur' # None => net[cur'.owner] # "absent"
         /\ cur' # None /\ cur # None => cur'.owner = cur.owner /\ cur'.ws = cur.ws
         /\ cur' # None /\ cur = None =>
              /\ idOf[cur'.owner] \in Ids
              /\ cur'.ws = activeWs[idOf[cur'.owner]] /\ cur'.ws # None
<1>1. CASE Take
  <2>1. cur = None /\ cur' = None
    BY <1>1 DEF Take, DrainControl
  <2>2. ASSUME NEW i \in Ids, wsIndex[i] # None
        PROVE  net[wsIndex[i]] # "absent"
    BY <2>2, RealtimeAssumption DEF TypeOK, IdsFiled
  <2>3. QED
    BY <1>1, <2>1, <2>2 DEF Take
<1>2. CASE \E c \in Conns : NextWs(c)
  <2>1. PICK c \in Conns : NextWs(c)
    BY <1>2
  <2>2. net[c] # "absent" /\ idOf[c] \in Ids /\ snapshot' \subseteq snapshot
    BY <2>1 DEF NextWs, IdsFiled
  <2>3. cur = None
    BY <2>1 DEF NextWs
  <2>4. cur' # None => /\ cur'.owner = c /\ cur'.ws = activeWs[idOf[c]]
                       /\ activeWs[idOf[c]] # None
    BY <2>1 DEF NextWs
  <2>5. QED
    BY <2>2, <2>3, <2>4 DEF IdsFiled, TypeOK
<1>3. CASE EndBroadcast
  BY <1>3 DEF EndBroadcast, IdsFiled
<1>4. CASE NextTopic
  <2>1. cur # None /\ snapshot' = snapshot
    BY <1>4 DEF NextTopic
  <2>2. cur' = cur \/ cur' = None \/ (cur'.owner = cur.owner /\ cur'.ws = cur.ws)
    BY <1>4, NextTopicBinds
  <2>3. QED
    BY <2>1, <2>2 DEF IdsFiled
<1>5. CASE SkipSub
  BY <1>5, InSession DEF SkipSub, IdsFiled, SameBinding
<1>6. CASE SendSub
  BY <1>6, InSession DEF SendSub, IdsFiled, SameBinding
<1>7. CASE Resume
  BY <1>7 DEF Resume, IdsFiled
<1>8. QED
  BY <1>1, <1>2, <1>3, <1>4, <1>5, <1>6, <1>7 DEF Drain

LEMMA IdsFiledStep ==
  ASSUME TypeOK, DrainControl, IdsFiled, [Next]_vars
  PROVE  IdsFiled'
<1>1. CASE UNCHANGED <<net, idOf, query, activeWs, wsIndex, topics, snapshot, cur>>
  BY <1>1 DEF IdsFiled
<1>2. ASSUME NEW event \in Events, _enqueue_changefeed_event(event)
      PROVE  IdsFiled'
  BY <1>1, <1>2 DEF _enqueue_changefeed_event, drainVars, connVars, joinVars
<1>3. CASE Drain
  BY <1>3, DrainFrame, DrainIterates DEF IdsFiled
<1>4. ASSUME NEW c \in Conns, NEW i \in Ids, NEW token \in Tokens, Connect(c, i, token)
      PROVE  IdsFiled'
  <2>1. /\ net[c] = "absent"
        /\ \/ net' = [net EXCEPT ![c] = "gone"] /\ query' = query
           \/ /\ net' = [net EXCEPT ![c] = "open"]
              /\ query' = [query EXCEPT ![c] = claims_from_access_token(token)]
        /\ idOf' = [idOf EXCEPT ![c] = i]
        /\ activeWs' = [activeWs EXCEPT ![i] = c]
        /\ UNCHANGED <<wsIndex, topics, snapshot, cur>>
    BY <1>4 DEF Connect, joinVars, drainVars
  <2>2. idOf[c] = None /\ None \notin Ids
    BY <2>1, RealtimeAssumption DEF IdsFiled
  <2>3. \A j \in Ids : activeWs[j] # c /\ wsIndex[j] # c
    BY <2>2, RealtimeAssumption DEF IdsFiled
  <2>4. claims_from_access_token(token) \in ClaimSet
    BY ResolveType
  <2>5. \A d \in Conns :
          /\ net'[d] # "absent" => idOf'[d] \in Ids
          /\ net'[d] \in {"open", "closed"} => query'[d] \in ClaimSet
    BY <2>1, <2>4 DEF TypeOK, IdsFiled
  <2>6. \A d \in Conns : net'[d] = "absent" => idOf'[d] = None /\ topics'[d] = <<>>
    BY <2>1 DEF TypeOK, IdsFiled
  <2>7. \A j \in Ids : activeWs'[j] # None => idOf'[activeWs'[j]] = j
    BY <2>1, <2>3 DEF TypeOK, IdsFiled
  <2>8. \A j \in Ids : wsIndex'[j] # None => idOf'[wsIndex'[j]] = j
    BY <2>1, <2>3 DEF TypeOK, IdsFiled
  <2>11. \A d \in Conns : net[d] # "absent" => net'[d] # "absent"
    BY <2>1 DEF TypeOK
  <2>9. /\ \A d \in snapshot' : net'[d] # "absent"
        /\ cur' # None => net'[cur'.owner] # "absent"
    BY <2>1, <2>11 DEF TypeOK, IdsFiled, Iterations
  <2>10. QED
    BY <2>5, <2>6, <2>7, <2>8, <2>9 DEF IdsFiled
<1>5. ASSUME NEW c \in Conns, Close(c)
      PROVE  IdsFiled'
  <2>1. /\ UNCHANGED <<idOf, query, activeWs, wsIndex, topics, snapshot, cur>>
        /\ net[c] = "open" /\ net' = [net EXCEPT ![c] = "closed"]
    BY <1>5 DEF Close, drainVars, joinVars
  <2>2. \A d \in Conns : net'[d] = "absent" <=> net[d] = "absent"
    BY <2>1 DEF TypeOK
  <2>3. cur # None => cur.owner \in Conns
    BY DEF TypeOK, Iterations
  <2>4. QED
    BY <2>1, <2>2, <2>3 DEF TypeOK, IdsFiled
<1>6. ASSUME NEW c \in Conns, Ends(c)
      PROVE  IdsFiled'
  <2>1. /\ UNCHANGED <<snapshot, cur, idOf, query, topics>>
        /\ net[c] \in {"open", "closed"} /\ net' = [net EXCEPT ![c] = "gone"]
        /\ activeWs' = [activeWs EXCEPT ![idOf[c]] = None]
        /\ wsIndex' = [wsIndex EXCEPT ![idOf[c]] = None]
    BY <1>6, EndsForgets DEF Forget, drainVars
  <2>2. \A d \in Conns :
          /\ net'[d] = "absent" <=> net[d] = "absent"
          /\ net'[d] \in {"open", "closed"} => net[d] \in {"open", "closed"}
    BY <2>1 DEF TypeOK
  <2>3. \A j \in Ids : /\ activeWs'[j] # None => activeWs'[j] = activeWs[j]
                       /\ wsIndex'[j] # None => wsIndex'[j] = wsIndex[j]
    BY <2>1 DEF TypeOK
  <2>4. (cur # None => cur.owner \in Conns) /\ snapshot \subseteq Conns
    BY DEF TypeOK, Iterations
  <2>5. QED
    BY <2>1, <2>2, <2>3, <2>4 DEF IdsFiled
<1>7. ASSUME NEW c \in Conns, NEW t \in Topics, NEW token \in Tokens,
             NEW config \in Configs, _handle_join(c, t, token, config)
      PROVE  IdsFiled'
  <2>1. /\ UNCHANGED <<snapshot, cur, net, idOf, query, activeWs>>
        /\ net[c] \in {"open", "closed"}
        /\ \/ UNCHANGED <<wsIndex, topics>>
           \/ /\ wsIndex' = [wsIndex EXCEPT ![idOf[c]] = c]
              /\ \E table : topics' = [topics EXCEPT ![c] = table]
    BY <1>7 DEF _handle_join, Handling, drainVars, connVars
  <2>2. \A d \in Conns : net[d] = "absent" => topics'[d] = topics[d]
    BY <2>1 DEF TypeOK
  <2>3. \A j \in Ids : wsIndex'[j] = wsIndex[j] \/ (j = idOf[c] /\ wsIndex'[j] = c)
    BY <2>1 DEF TypeOK
  <2>4. QED
    BY <2>1, <2>2, <2>3 DEF IdsFiled
<1>8. ASSUME NEW c \in Conns, NEW t \in Topics, HandleLeave(c, t)
      PROVE  IdsFiled'
  <2>1. /\ UNCHANGED <<snapshot, cur, net, idOf, query, activeWs, wsIndex>>
        /\ net[c] \in {"open", "closed"}
        /\ \E k : topics' = [topics EXCEPT ![c][k].live = FALSE]
    BY <1>8 DEF HandleLeave, Handling, drainVars, connVars
  <2>2. QED
    BY <2>1 DEF TypeOK, IdsFiled
<1>9. ASSUME NEW c \in Conns, SendSystem(c)
      PROVE  IdsFiled'
  BY <1>1, <1>9 DEF SendSystem, drainVars, connVars
<1>10. QED
  BY <1>1, <1>2, <1>3, <1>4, <1>5, <1>6, <1>7, <1>8, <1>9
     DEF Next, Network, Handler, Ends, vars, drainVars, connVars, joinVars

-----------------------------------------------------------------------------
\* What was handed to a transport is never taken back or changed.
SentGrows ==
  \A c \in Conns :
    /\ DOMAIN sent[c] \subseteq DOMAIN sent'[c]
    /\ \A i \in DOMAIN sent[c] : sent'[c][i] = sent[c][i]

\* Handing over one message appends it.
LEMMA TransmitAppends ==
  ASSUME TypeOK, NEW c \in Conns, NEW m, Transmit(c, m)
  PROVE  /\ SentGrows
         /\ sent'[c][Len(sent[c]) + 1] = m
         /\ DOMAIN sent'[c] = DOMAIN sent[c] \cup {Len(sent[c]) + 1}
         /\ Len(sent[c]) + 1 \notin DOMAIN sent[c]
         /\ \A i \in DOMAIN sent[c] : i < Len(sent[c]) + 1
         /\ \A d \in Conns : d # c => sent'[d] = sent[d]
<1> DEFINE S == Message \cup {m}
<1>1. sent[c] \in Seq(S) /\ sent' = [sent EXCEPT ![c] = Append(@, m)]
  BY SeqMonotonic DEF TypeOK, Transmit
<1> HIDE DEF S
<1>6. m \in S
  BY DEF S
<1>2. /\ Len(sent[c]) \in Nat
      /\ DOMAIN sent[c] = 1..Len(sent[c])
      /\ DOMAIN Append(sent[c], m) = 1..Len(sent[c]) + 1
      /\ Append(sent[c], m)[Len(sent[c]) + 1] = m
      /\ \A i \in 1..Len(sent[c]) : Append(sent[c], m)[i] = sent[c][i]
  BY <1>1, <1>6, AppendProperties
<1>3. sent'[c] = Append(sent[c], m) /\ \A d \in Conns : d # c => sent'[d] = sent[d]
  BY <1>1 DEF TypeOK
<1>4. SentGrows
  BY <1>2, <1>3 DEF SentGrows
<1>5. QED
  BY <1>2, <1>3, <1>4

LEMMA ReplyGrows ==
  ASSUME TypeOK, NEW c \in Conns, NEW m, NEW next, Reply(c, m, next)
  PROVE  SentGrows
BY TransmitAppends DEF Reply, SentGrows

LEMMA GrowsStep ==
  ASSUME TypeOK, DrainControl, [Next]_vars
  PROVE  SentGrows
<1>1. CASE UNCHANGED sent
  BY <1>1 DEF SentGrows
<1>2. ASSUME NEW c \in Conns, Network(c) \/ Ends(c)
      PROVE  UNCHANGED sent
  BY <1>2, EndsForgets DEF Network, Connect, Close, Forget
<1>3. ASSUME NEW c \in Conns, Handler(c), ~Ends(c)
      PROVE  SentGrows
  BY <1>1, <1>3, ReplyGrows DEF Handler, Ends, _handle_join, HandleLeave, SendSystem
<1>4. CASE SendSub
  BY <1>1, <1>4, InSession, TransmitAppends DEF SendSub
<1>5. ASSUME Drain, ~SendSub
      PROVE  UNCHANGED sent
  BY <1>5 DEF Drain, Take, NextWs, EndBroadcast, NextTopic, SkipSub, Resume
<1>6. ASSUME NEW event \in Events, _enqueue_changefeed_event(event)
      PROVE  UNCHANGED sent
  BY <1>6 DEF _enqueue_changefeed_event
<1>7. QED
  BY <1>1, <1>2, <1>3, <1>4, <1>5, <1>6 DEF Next, vars

\* A join that was answered stays answered.
LEMMA AckedStable ==
  ASSUME SentGrows, NEW c \in Conns, NEW t, NEW j, Acked(sent[c], t, j)
  PROVE  Acked(sent'[c], t, j)
BY DEF SentGrows, Acked, Of

\* A join processed on an open connection is answered in the same step.
LEMMA JoinAcked ==
  ASSUME TypeOK, NEW c \in Conns, NEW t, NEW session, NEW next, net[c] = "open",
         Reply(c, [kind |-> "ok", topic |-> t, session |-> session], next)
  PROVE  Acked(sent'[c], t, session.join)
<1> DEFINE m == [kind |-> "ok", topic |-> t, session |-> session]
<1>1. Transmit(c, m)
  BY DEF Reply
<1>2. m.kind = "ok" /\ m.topic = t /\ m.session = session
  OBVIOUS
<1> HIDE DEF m
<1>3. QED
  BY <1>1, <1>2, TransmitAppends DEF Acked, Of

\* After an assignment a slot holds the new session, or what a slot held before.
LEMMA TablesSlots ==
  ASSUME TypeOK, NEW c \in Conns, NEW t \in Topics, NEW session \in Sessions,
         NEW table \in Tables(c, t, session), NEW p \in DOMAIN table
  PROVE  \/ table[p].session = session /\ table[p].topic = t
         \/ \E l \in DOMAIN topics[c] : table[p] = topics[c][l]
<1>1. topics[c] \in Seq(Entry)
  BY DEF TypeOK, Entry
<1>2. NewEntry(t, session) \in Entry /\ NewEntry(t, session).session = session /\ NewEntry(t, session).topic = t
  BY DEF Entry, NewEntry
<1>3. \/ table = [k \in DOMAIN topics[c] |->
                    IF k \in Slots(c, t) THEN NewEntry(t, session) ELSE topics[c][k]]
      \/ table = Append(topics[c], NewEntry(t, session))
      \/ \E f \in Packings(c) :
           table = Append([k \in DOMAIN f |-> topics[c][f[k]]], NewEntry(t, session))
  BY TableCases
<1>4. CASE table = [k \in DOMAIN topics[c] |->
                      IF k \in Slots(c, t) THEN NewEntry(t, session) ELSE topics[c][k]]
  BY <1>2, <1>4
<1>5. CASE table = Append(topics[c], NewEntry(t, session))
  BY <1>1, <1>2, <1>5, AppendProperties
<1>6. CASE \E f \in Packings(c) :
             table = Append([k \in DOMAIN f |-> topics[c][f[k]]], NewEntry(t, session))
  <2>1. PICK f \in Packings(c) :
          table = Append([k \in DOMAIN f |-> topics[c][f[k]]], NewEntry(t, session))
    BY <1>6
  <2> DEFINE packed == [k \in DOMAIN f |-> topics[c][f[k]]]
  <2>2. /\ packed \in Seq(Entry) /\ table = Append(packed, NewEntry(t, session))
        /\ DOMAIN packed = DOMAIN f
        /\ \A l \in DOMAIN f : f[l] \in DOMAIN topics[c] /\ packed[l] = topics[c][f[l]]
    <3>1. packed \in Seq(Entry) /\ table = Append(packed, NewEntry(t, session)) /\ DOMAIN packed = DOMAIN f
      BY <2>1, PackedType
    <3>2. \A l \in DOMAIN f : f[l] \in Live(c)
      BY Packed
    <3>3. QED
      BY <3>1, <3>2 DEF Live
  <2> HIDE DEF packed
  <2>3. (p \in DOMAIN packed /\ table[p] = packed[p]) \/ table[p] = NewEntry(t, session)
    BY <1>2, <2>2, AppendProperties
  <2>4. QED
    BY <1>2, <2>2, <2>3
<1>7. QED
  BY <1>3, <1>4, <1>5, <1>6

\* A step that changes no table, opens no connection and binds no session keeps
\* every session answered.
LEMMA AckedFrame ==
  ASSUME TypeOK, SessionsAcked, SentGrows, UNCHANGED topics,
         \A c \in Conns : net'[c] = "open" => net[c] = "open",
         \/ cur' = None
         \/ cur'.slot = 0
         \/ cur' # None /\ cur # None /\ SameBinding(cur', cur)
  PROVE  SessionsAcked'
<1>1. ASSUME NEW c \in Conns, net'[c] = "open", NEW k \in DOMAIN topics[c]
      PROVE  Acked(sent'[c], topics'[c][k].topic, topics'[c][k].session.join)
  BY <1>1, AckedStable DEF SessionsAcked
<1>2. cur # None => cur.owner \in Conns
  BY DEF TypeOK, Iterations
<1>3. ASSUME cur' # None, cur'.slot # 0, net'[cur'.owner] = "open"
      PROVE  Acked(sent'[cur'.owner], cur'.topic, cur'.session.join)
  BY <1>2, <1>3, AckedStable DEF SessionsAcked, SameBinding
<1>4. QED
  BY <1>1, <1>3 DEF SessionsAcked

LEMMA SessionsAckedStep ==
  ASSUME TypeOK, DrainControl, IdsFiled, SessionsAcked, [Next]_vars
  PROVE  SessionsAcked'
<1>1. SentGrows
  BY GrowsStep
<1>2. ASSUME UNCHANGED <<topics, cur>>,
             \A c \in Conns : net'[c] = "open" => net[c] = "open"
      PROVE  SessionsAcked'
  BY <1>1, <1>2, AckedFrame DEF SameBinding
<1>3. ASSUME NEW event \in Events, _enqueue_changefeed_event(event)
      PROVE  SessionsAcked'
  BY <1>2, <1>3, DrainFrame DEF _enqueue_changefeed_event, drainVars
<1>4. ASSUME NEW c \in Conns, NEW i \in Ids, NEW token \in Tokens, Connect(c, i, token)
      PROVE  SessionsAcked'
  <2>1. /\ UNCHANGED <<topics, cur>> /\ net[c] = "absent"
        /\ \E state : net' = [net EXCEPT ![c] = state]
    BY <1>4 DEF Connect, joinVars, drainVars
  <2>2. topics[c] = <<>> /\ (cur # None => cur.owner # c)
    BY <2>1 DEF IdsFiled
  <2>3. ASSUME NEW d \in Conns, net'[d] = "open", NEW k \in DOMAIN topics[d]
        PROVE  Acked(sent'[d], topics[d][k].topic, topics[d][k].session.join)
    <3>1. d # c
      BY <2>2
    <3>2. QED
      BY <1>1, <2>1, <2>3, <3>1, AckedStable DEF SessionsAcked, TypeOK
  <2>4. ASSUME cur # None, cur.slot # 0, net'[cur.owner] = "open"
        PROVE  Acked(sent'[cur.owner], cur.topic, cur.session.join)
    <3>1. cur.owner \in Conns /\ net[cur.owner] = "open"
      BY <2>1, <2>2, <2>4 DEF TypeOK, Iterations
    <3>2. QED
      BY <1>1, <2>4, <3>1, AckedStable DEF SessionsAcked
  <2>5. QED
    BY <2>1, <2>3, <2>4 DEF SessionsAcked
<1>5. ASSUME NEW c \in Conns, Close(c) \/ Ends(c) \/ SendSystem(c)
      PROVE  SessionsAcked'
  <2>1. UNCHANGED <<topics, cur>>
    BY <1>5, EndsForgets DEF Close, Forget, SendSystem, drainVars, joinVars
  <2>2. \A d \in Conns : net'[d] = "open" => net[d] = "open"
    BY <1>5, EndsForgets DEF Close, Forget, SendSystem, connVars, TypeOK
  <2>3. QED
    BY <1>2, <2>1, <2>2
<1>6. ASSUME NEW c \in Conns, NEW t \in Topics, NEW token \in Tokens,
             NEW config \in Configs, _handle_join(c, t, token, config)
      PROVE  SessionsAcked'
  <2> DEFINE claims  == _resolve_claims(token, query[c])
             session == [join |-> joins + 1, claims |-> claims, subs |-> config,
                         since |-> taken]
  <2>1. UNCHANGED <<net, cur>>
    BY <1>6 DEF _handle_join, connVars, drainVars
  <2>2. CASE ~authorize_join(claims)
    BY <1>2, <1>6, <2>1, <2>2 DEF _handle_join
  <2>3. CASE authorize_join(claims)
    <3>1. PICK table \in Tables(c, t, session) :
            /\ topics' = [topics EXCEPT ![c] = table]
            /\ \E next : Reply(c, [kind |-> "ok", topic |-> t, session |-> session], next)
      BY <1>6, <2>3 DEF _handle_join
    <3>2. session \in Sessions
      <4>1. joins + 1 \in 1..MaxJoins /\ taken \in 0..MaxEvents
        BY <1>6, RealtimeAssumption DEF _handle_join, TypeOK
      <4>2. claims \in ClaimSet
        BY <1>6, ResolveType DEF _handle_join, Handling, IdsFiled
      <4>3. QED
        BY <4>1, <4>2 DEF Sessions
    <3> HIDE DEF session
    <3>3. ASSUME NEW d \in Conns, net[d] = "open", NEW k \in DOMAIN topics'[d]
          PROVE  Acked(sent'[d], topics'[d][k].topic, topics'[d][k].session.join)
      <4>1. CASE d # c
        BY <1>1, <3>1, <3>3, <4>1, AckedStable DEF SessionsAcked, TypeOK
      <4>2. CASE d = c
        <5>1. topics'[d] = table
          BY <3>1, <4>2 DEF TypeOK
        <5>2. Acked(sent'[c], t, session.join)
          BY <3>1, <3>3, <4>2, JoinAcked
        <5>3. \/ topics'[d][k].session = session /\ topics'[d][k].topic = t
              \/ \E l \in DOMAIN topics[d] : topics'[d][k] = topics[d][l]
          BY <3>2, <3>3, <4>2, <5>1, TablesSlots
        <5>4. QED
          BY <1>1, <3>3, <4>2, <5>2, <5>3, AckedStable DEF SessionsAcked
      <4>3. QED
        BY <4>1, <4>2
    <3>4. ASSUME cur # None, cur.slot # 0, net[cur.owner] = "open"
          PROVE  Acked(sent'[cur.owner], cur.topic, cur.session.join)
      BY <1>1, <3>4, AckedStable DEF SessionsAcked, TypeOK, Iterations
    <3>5. QED
      BY <2>1, <3>3, <3>4 DEF SessionsAcked
  <2>4. QED
    BY <2>2, <2>3
<1>7. ASSUME NEW c \in Conns, NEW t \in Topics, HandleLeave(c, t)
      PROVE  SessionsAcked'
  <2>1. UNCHANGED <<net, cur>>
    BY <1>7 DEF HandleLeave, connVars, drainVars
  <2>2. PICK l \in Slots(c, t) : topics' = [topics EXCEPT ![c][l].live = FALSE]
    BY <1>7 DEF HandleLeave
  <2>3. ASSUME NEW d \in Conns, net[d] = "open", NEW k \in DOMAIN topics'[d]
        PROVE  Acked(sent'[d], topics'[d][k].topic, topics'[d][k].session.join)
    <3>1. topics[d] \in Seq(Entry)
      BY DEF TypeOK, Entry
    <3>2. k \in DOMAIN topics[d]
      BY <2>2, <2>3 DEF TypeOK
    <3>3. topics[d][k] \in Entry
      BY <3>1, <3>2, ElementOfSeq
    <3>4. topics'[d][k] \in {topics[d][k], [topics[d][k] EXCEPT !.live = FALSE]}
      BY <2>2, <3>1, <3>2 DEF TypeOK
    <3>5. topics'[d][k].topic = topics[d][k].topic
          /\ topics'[d][k].session = topics[d][k].session
      BY <3>3, <3>4 DEF Entry
    <3>6. QED
      BY <1>1, <2>3, <3>2, <3>5, AckedStable DEF SessionsAcked
  <2>4. ASSUME cur # None, cur.slot # 0, net[cur.owner] = "open"
        PROVE  Acked(sent'[cur.owner], cur.topic, cur.session.join)
    BY <1>1, <2>4, AckedStable DEF SessionsAcked, TypeOK, Iterations
  <2>5. QED
    BY <2>1, <2>3, <2>4 DEF SessionsAcked
<1>8. CASE Drain
  <2>1. UNCHANGED <<topics, net>>
    BY <1>8, DrainFrame
  <2>2. ASSUME NextTopic, cur' # None, cur' # cur
        PROVE  SessionsAcked'
    <3>1. PICK k \in Ahead :
            /\ cur'.owner = cur.owner /\ cur'.slot = k
            /\ cur'.topic = topics[cur.owner][k].topic
            /\ cur'.session = topics[cur.owner][k].session
      BY <2>2, NextTopicBinds
    <3>2. cur.owner \in Conns /\ k \in DOMAIN topics[cur.owner]
      BY <2>2 DEF NextTopic, TypeOK, Iterations, Ahead, Live
    <3>3. net[cur.owner] = "open" =>
            Acked(sent'[cur'.owner], cur'.topic, cur'.session.join)
      BY <1>1, <3>1, <3>2, AckedStable DEF SessionsAcked
    <3>4. \A c \in Conns : net[c] = "open" =>
            \A l \in DOMAIN topics[c] :
              Acked(sent'[c], topics[c][l].topic, topics[c][l].session.join)
      BY <1>1, AckedStable DEF SessionsAcked
    <3>5. QED
      BY <2>1, <3>1, <3>3, <3>4 DEF SessionsAcked
  <2>3. \/ NextTopic /\ cur' # None /\ cur' # cur
        \/ cur' = None
        \/ cur' = cur
        \/ cur'.slot = 0
        \/ cur # None /\ cur' # None /\ SameBinding(cur', cur)
    <3>1. CASE Take \/ EndBroadcast \/ Resume
      BY <3>1 DEF Take, EndBroadcast, Resume
    <3>2. CASE \E c \in Conns : NextWs(c)
      BY <3>2 DEF NextWs
    <3>3. CASE SkipSub \/ SendSub
      BY <3>3, InSession DEF SkipSub, SendSub
    <3>4. QED
      BY <1>8, <3>1, <3>2, <3>3 DEF Drain
  <2>4. QED
    BY <1>1, <2>1, <2>2, <2>3, AckedFrame DEF SameBinding
<1>9. CASE UNCHANGED vars
  BY <1>2, <1>9 DEF vars, joinVars, drainVars, connVars
<1>10. QED
  BY <1>3, <1>4, <1>5, <1>6, <1>7, <1>8, <1>9 DEF Next, Network, Handler, Ends

-----------------------------------------------------------------------------
\* A reply is not a change.
LEMMA ReplyNoChanges ==
  ASSUME TypeOK, NEW c \in Conns, NEW m, m.kind # "changes", NEW next,
         Reply(c, m, next)
  PROVE  \A d \in Conns : Of(d, "changes")' \subseteq Of(d, "changes")
<1>1. CASE UNCHANGED sent
  BY <1>1 DEF Of
<1>2. CASE Transmit(c, m)
  BY <1>2, TransmitAppends DEF Of, SentGrows
<1>3. QED
  BY <1>1, <1>2 DEF Reply

\* Only the drain task sends changes.
LEMMA OnlySendSub ==
  ASSUME TypeOK, [Next]_vars, ~SendSub
  PROVE  \A d \in Conns : Of(d, "changes")' \subseteq Of(d, "changes")
<1>1. CASE UNCHANGED sent
  BY <1>1 DEF Of
<1>2. ASSUME NEW c \in Conns, Network(c) \/ Ends(c)
      PROVE  UNCHANGED sent
  BY <1>2, EndsForgets DEF Network, Connect, Close, Forget
<1>3. ASSUME NEW c \in Conns, Handler(c), ~Ends(c)
      PROVE  \A d \in Conns : Of(d, "changes")' \subseteq Of(d, "changes")
  <2>1. CASE SendSystem(c)
    BY <2>1, ReplyNoChanges DEF SendSystem
  <2>2. ASSUME NEW t \in Topics, HandleLeave(c, t)
        PROVE  \A d \in Conns : Of(d, "changes")' \subseteq Of(d, "changes")
    BY <1>1, <2>2, ReplyNoChanges DEF HandleLeave
  <2>3. ASSUME NEW t \in Topics, NEW token \in Tokens, NEW config \in Configs,
               _handle_join(c, t, token, config)
        PROVE  \A d \in Conns : Of(d, "changes")' \subseteq Of(d, "changes")
    BY <2>3, ReplyNoChanges DEF _handle_join
  <2>4. QED
    BY <1>3, <2>1, <2>2, <2>3 DEF Handler, Ends
<1>4. ASSUME Drain
      PROVE  UNCHANGED sent
  BY <1>4 DEF Drain, Take, NextWs, EndBroadcast, NextTopic, SkipSub, Resume
<1>5. ASSUME NEW event \in Events, _enqueue_changefeed_event(event)
      PROVE  UNCHANGED sent
  BY <1>5 DEF _enqueue_changefeed_event
<1>6. QED
  BY <1>1, <1>2, <1>3, <1>4, <1>5 DEF Next, vars

-----------------------------------------------------------------------------
LEMMA InitBookkeeping ==
  ASSUME Init
  PROVE  Bookkeeping
BY DEF Init, Bookkeeping, DrainControl, IdsFiled, SessionsAcked

LEMMA BookkeepingStep ==
  ASSUME TypeOK, Bookkeeping, [Next]_vars
  PROVE  Bookkeeping'
BY DrainControlStep, IdsFiledStep, SessionsAckedStep DEF Bookkeeping

(***************************************************************************)
(* Every variable of the server keeps its type, whatever clients do.       *)
(***************************************************************************)
THEOREM TypeCorrect == Spec => []TypeOK
<1>1. Spec => [](TypeOK /\ Bookkeeping)
  <2>1. Init => TypeOK /\ Bookkeeping
    BY InitType, InitBookkeeping
  <2>2. TypeOK /\ Bookkeeping /\ [Next]_vars => TypeOK' /\ Bookkeeping'
    BY TypeStep, BookkeepingStep DEF Bookkeeping
  <2>3. QED
    BY <2>1, <2>2, PTL DEF Spec
<1>2. QED
  BY <1>1, PTL

(***************************************************************************)
(* What the server files under an id belongs to a connection of that id,   *)
(* and every channel of an open connection has been answered.              *)
(***************************************************************************)
THEOREM BookkeepingHolds == Spec => []Bookkeeping
<1>1. Init => Bookkeeping
  BY InitBookkeeping
<1>2. TypeOK /\ Bookkeeping /\ [Next]_vars => Bookkeeping'
  BY BookkeepingStep
<1>3. QED
  BY <1>1, <1>2, TypeCorrect, PTL DEF Spec

-----------------------------------------------------------------------------
\* A topic has at most one live slot in a dict: it is a key of it.
OneSlot ==
  \A c \in Conns : \A k, l \in Live(c) : topics[c][k].topic = topics[c][l].topic => k = l

\* The table is that of connection c with session n for topic t in slot p: the
\* other slots are slots of the table there was, g says which, moved to the left
\* if at all, and no live one is lost.
Assigned(c, t, p, n, table, g) ==
  /\ DOMAIN table \subseteq Nat /\ p \in DOMAIN table
  /\ table[p] = [topic |-> t, session |-> n, live |-> TRUE]
  /\ g \in [DOMAIN table \ {p} -> DOMAIN topics[c] \ Slots(c, t)]
  /\ \A k, l \in DOMAIN table \ {p} : g[k] = g[l] => k = l
  /\ \A k \in DOMAIN table \ {p} : k <= g[k] /\ table[k] = topics[c][g[k]]
  /\ \A l \in Live(c) \ Slots(c, t) : \E k \in DOMAIN table \ {p} : g[k] = l
  /\ \A k \in Live(c) : k \in DOMAIN table => table[k].live

\* The live slots of a table are where they were.
Still(c, table) ==
  \A k \in Live(c) : k \in DOMAIN table /\ table[k].topic = topics[c][k].topic

\* The step puts session n for topic t into slot p of connection c, and tells
\* nobody of any other session.
Joins(c, t, p, n, g) ==
  /\ n.join = joins + 1 /\ n.since = taken
  /\ joins' = joins + 1
  /\ UNCHANGED <<feed, taken, drain, snapshot, cur, net, idOf, activeWs>>
  /\ wsIndex' = [wsIndex EXCEPT ![idOf[c]] = c]
  /\ net[c] # "absent"
  /\ \A d \in Conns : d # c => topics'[d] = topics[d]
  /\ Assigned(c, t, p, n, topics'[c], g)
  /\ cur # None /\ cur.owner = c /\ taken \notin moved'[c] => Still(c, topics'[c])
  /\ \A d \in Conns : \A i \in Of(d, "ok")' :
       i \in Of(d, "ok") \/ sent'[d][i].session = n

\* The step makes no session: the slots keep theirs, and none comes to life.
NoJoin ==
  /\ joins <= joins'
  /\ \A c \in Conns : DOMAIN topics'[c] = DOMAIN topics[c]
  /\ \A c \in Conns : \A k \in DOMAIN topics[c] :
       /\ topics'[c][k].session = topics[c][k].session
       /\ topics'[c][k].topic = topics[c][k].topic
       /\ topics'[c][k].live => topics[c][k].live
  /\ \A c \in Conns : Of(c, "ok")' \subseteq Of(c, "ok")

\* Assigning a key of a dict puts the session into one slot, the one of the key
\* if it is live.
LEMMA TablesPlaces ==
  ASSUME TypeOK, OneSlot, NEW c \in Conns, NEW t \in Topics, NEW n \in Sessions,
         NEW table \in Tables(c, t, n)
  PROVE  \E p, g : p \in Nat /\ Assigned(c, t, p, n, table, g)
<1>1. topics[c] \in Seq(Entry) /\ NewEntry(t, n) \in Entry
  BY DEF TypeOK, Entry, NewEntry
<1>2. /\ DOMAIN topics[c] = 1..Len(topics[c]) /\ Len(topics[c]) \in Nat
      /\ Live(c) \subseteq DOMAIN topics[c]
  BY <1>1 DEF Live
<1>3. \/ /\ Slots(c, t) # {}
         /\ table = [k \in DOMAIN topics[c] |->
                       IF k \in Slots(c, t) THEN NewEntry(t, n) ELSE topics[c][k]]
      \/ Slots(c, t) = {} /\ table = Append(topics[c], NewEntry(t, n))
      \/ /\ Slots(c, t) = {}
         /\ \E f \in Packings(c) :
              table = Append([k \in DOMAIN f |-> topics[c][f[k]]], NewEntry(t, n))
  <2>1. Slots(c, t) # {} =>
          table = [k \in DOMAIN topics[c] |->
                     IF k \in Slots(c, t) THEN NewEntry(t, n) ELSE topics[c][k]]
    BY TableCases
  <2>2. Slots(c, t) = {} =>
          \/ table = Append(topics[c], NewEntry(t, n))
          \/ \E f \in Packings(c) :
               table = Append([k \in DOMAIN f |-> topics[c][f[k]]], NewEntry(t, n))
    BY DEF Tables, NewEntry
  <2>3. CASE Slots(c, t) = {}
    BY <2>2, <2>3, Zenon
  <2>4. CASE Slots(c, t) # {}
    BY <2>1, <2>4, Zenon
  <2>5. QED
    BY <2>3, <2>4, Zenon
<1>9. NewEntry(t, n) = [topic |-> t, session |-> n, live |-> TRUE]
  BY DEF NewEntry
<1>4. CASE /\ Slots(c, t) # {}
           /\ table = [k \in DOMAIN topics[c] |->
                         IF k \in Slots(c, t) THEN NewEntry(t, n) ELSE topics[c][k]]
  <2>1. PICK p \in Slots(c, t) : TRUE
    BY <1>4
  <2>2. Slots(c, t) = {p}
    BY <2>1 DEF OneSlot, Slots
  <2>3. p \in DOMAIN topics[c] /\ p \in Nat
    BY <1>2, <2>1 DEF Slots
  <2> DEFINE g == [k \in DOMAIN topics[c] \ {p} |-> k]
  <2>4. DOMAIN table = DOMAIN topics[c] /\ table[p] = NewEntry(t, n)
    BY <1>4, <2>1, <2>3
  <2>5. \A k \in DOMAIN table \ {p} : g[k] = k /\ k <= k /\ table[k] = topics[c][k]
    BY <1>2, <1>4, <2>2, <2>4
  <2>6. g \in [DOMAIN table \ {p} -> DOMAIN topics[c] \ Slots(c, t)]
    BY <2>2, <2>4
  <2>7. DOMAIN table \subseteq Nat
    BY <1>2, <2>4
  <2> HIDE DEF g
  <2>10. \A k \in Live(c) : k \in DOMAIN table => table[k].live
    BY <1>9, <2>4, <2>5 DEF Live
  <2>8. Assigned(c, t, p, n, table, g)
    BY <1>2, <1>9, <2>2, <2>3, <2>4, <2>5, <2>6, <2>7, <2>10 DEF Assigned
  <2>9. QED
    BY <2>3, <2>8
<1>5. CASE Slots(c, t) = {} /\ table = Append(topics[c], NewEntry(t, n))
  <2> DEFINE p == Len(topics[c]) + 1
             g == [k \in DOMAIN topics[c] |-> k]
  <2>1. /\ DOMAIN table = DOMAIN topics[c] \cup {p} /\ p \notin DOMAIN topics[c] /\ p \in Nat
        /\ table[p] = NewEntry(t, n)
        /\ \A k \in DOMAIN topics[c] : table[k] = topics[c][k] /\ k <= k
    BY <1>1, <1>2, <1>5, AppendProperties
  <2>2. DOMAIN table \subseteq Nat
    BY <1>2, <2>1
  <2> HIDE DEF p
  <2>3. DOMAIN table \ {p} = DOMAIN topics[c] /\ Slots(c, t) = {}
    BY <1>5, <2>1
  <2>4. g \in [DOMAIN topics[c] -> DOMAIN topics[c]] /\ \A k \in DOMAIN topics[c] : g[k] = k
    OBVIOUS
  <2> HIDE DEF g
  <2>7. \A k \in Live(c) : table[k].live
    BY <2>1 DEF Live
  <2>5. Assigned(c, t, p, n, table, g)
    BY <1>2, <1>9, <2>1, <2>2, <2>3, <2>4, <2>7 DEF Assigned
  <2>6. QED
    BY <2>1, <2>5
<1>6. CASE /\ Slots(c, t) = {}
           /\ \E f \in Packings(c) :
                table = Append([k \in DOMAIN f |-> topics[c][f[k]]], NewEntry(t, n))
  <2>1. PICK f \in Packings(c) :
          table = Append([k \in DOMAIN f |-> topics[c][f[k]]], NewEntry(t, n))
    BY <1>6
  <2> DEFINE packed == [k \in DOMAIN f |-> topics[c][f[k]]]
             m == Cardinality(Live(c))
  <2>2. /\ packed \in Seq(Entry) /\ table = Append(packed, NewEntry(t, n))
        /\ Len(packed) = m /\ DOMAIN packed = 1..m
        /\ \A k \in 1..m : packed[k] = topics[c][f[k]]
    BY <2>1, PackedType
  <2>3. /\ m \in Nat /\ f \in [1..m -> Live(c)]
        /\ \A k, l \in 1..m : f[k] = f[l] => k = l
        /\ \A k \in 1..m : k <= f[k]
        /\ \A l \in Live(c) : \E k \in 1..m : f[k] = l
    BY Packed
  <2> HIDE DEF packed, m
  <2>4. /\ DOMAIN table = 1..(m + 1) /\ table[m + 1] = NewEntry(t, n)
        /\ \A k \in 1..m : table[k] = packed[k]
    BY <1>1, <2>2, <2>3, AppendProperties
  <2>5. DOMAIN table \subseteq Nat /\ m + 1 \in DOMAIN table /\ DOMAIN table \ {m + 1} = 1..m
    BY <2>3, <2>4
  <2>6. PICK p : p = m + 1
    OBVIOUS
  <2>7. /\ DOMAIN table \subseteq Nat /\ p \in DOMAIN table /\ DOMAIN table \ {p} = 1..m
        /\ table[p] = NewEntry(t, n)
    BY <2>4, <2>5, <2>6
  <2>8. f \in [1..m -> DOMAIN topics[c] \ Slots(c, t)]
    BY <1>2, <1>6, <2>3
  <2>11. \A k \in DOMAIN table : table[k].live
    BY <1>9, <2>2, <2>3, <2>4, <2>7 DEF Live
  <2>9. Assigned(c, t, p, n, table, f)
    BY <1>9, <2>2, <2>3, <2>4, <2>7, <2>8, <2>11 DEF Assigned
  <2>10. QED
    BY <2>7, <2>9
<1>7. QED
  BY <1>3, <1>4, <1>5, <1>6

\* In a table whose live slots are where they were, each comes from its own.
LEMMA StillInPlace ==
  ASSUME OneSlot, NEW c \in Conns, NEW t, NEW p, NEW n, NEW table, NEW g,
         Assigned(c, t, p, n, table, g), Still(c, table),
         NEW k \in DOMAIN table, k # p, table[k].live
  PROVE  k \in Live(c) /\ table[k] = topics[c][k]
<1>1. g[k] \in DOMAIN topics[c] \ Slots(c, t) /\ table[k] = topics[c][g[k]]
  BY DEF Assigned
<1>2. PICK l \in Live(c) \ Slots(c, t) : l = g[k]
  BY <1>1 DEF Live
<1>3. l \in DOMAIN table /\ table[l].topic = topics[c][l].topic
  BY DEF Still
<1>4. l # p
  BY <1>3 DEF Assigned, Slots
<1>5. g[l] \in DOMAIN topics[c] /\ table[l] = topics[c][g[l]] /\ table[l].live
  BY <1>3, <1>4 DEF Assigned
<1>6. g[l] = l
  BY <1>3, <1>5 DEF OneSlot, Live
<1>7. k = l
  BY <1>2, <1>3, <1>4, <1>6 DEF Assigned
<1>8. QED
  BY <1>1, <1>2, <1>7

\* A message of another kind than those of a reply is not told by it.
LEMMA ReplyTells ==
  ASSUME TypeOK, NEW c \in Conns, NEW m, NEW next, Reply(c, m, next)
  PROVE  \A d \in Conns : \A i \in DOMAIN sent'[d] :
           \/ i \in DOMAIN sent[d] /\ sent'[d][i] = sent[d][i]
           \/ d = c /\ sent'[d][i] = m
<1>1. CASE UNCHANGED sent
  BY <1>1
<1>2. CASE Transmit(c, m)
  BY <1>2, TransmitAppends DEF SentGrows
<1>3. QED
  BY <1>1, <1>2 DEF Reply

\* A step that keeps the tables and tells of no session.
LEMMA Uneventful ==
  ASSUME UNCHANGED topics, joins <= joins',
         \A c \in Conns : Of(c, "ok")' \subseteq Of(c, "ok")
  PROVE  NoJoin
BY DEF NoJoin

LEMMA JoinEffect ==
  ASSUME TypeOK, IdsFiled, OneSlot, NEW c \in Conns, NEW t \in Topics,
         NEW token \in Tokens, NEW config \in Configs, _handle_join(c, t, token, config)
  PROVE  NoJoin \/ \E p \in Nat, n \in Sessions : \E g : Joins(c, t, p, n, g)
<1> DEFINE claims  == _resolve_claims(token, query[c])
           n == [join |-> joins + 1, claims |-> claims, subs |-> config,
                 since |-> taken]
<1>1. /\ UNCHANGED <<feed, taken, drain, snapshot, cur, net, idOf, activeWs>>
      /\ joins' = joins + 1 /\ joins < MaxJoins /\ joins \in Nat
      /\ net[c] \in {"open", "closed"}
  BY RealtimeAssumption
     DEF _handle_join, Handling, feedVars, drainVars, connVars, TypeOK
<1>2. n \in Sessions /\ n.join = joins + 1 /\ n.since = taken
  <2>1. joins + 1 \in 1..MaxJoins /\ taken \in 0..MaxEvents
    BY <1>1, RealtimeAssumption DEF TypeOK
  <2>2. claims \in ClaimSet
    BY <1>1, ResolveType DEF IdsFiled
  <2>3. QED
    BY <2>1, <2>2 DEF Sessions
<1>3. CASE ~authorize_join(claims)
  <2>1. UNCHANGED <<topics, moved>> /\ Reply(c, [kind |-> "error", topic |-> t], "recv")
    BY <1>3 DEF _handle_join
  <2>2. \A d \in Conns : Of(d, "ok")' \subseteq Of(d, "ok")
    BY <2>1, ReplyTells DEF Of
  <2>3. joins <= joins'
    BY <1>1
  <2>4. QED
    BY <2>1, <2>2, <2>3, Uneventful
<1>4. CASE authorize_join(claims)
  <2> DEFINE m == [kind |-> "ok", topic |-> t, session |-> n]
  <2>1. PICK table \in Tables(c, t, n) :
          /\ topics' = [topics EXCEPT ![c] = table] /\ Moves(c, table)
          /\ wsIndex' = [wsIndex EXCEPT ![idOf[c]] = c]
          /\ \E next : Reply(c, m, next)
    BY <1>4 DEF _handle_join
  <2>2. m.session = n
    OBVIOUS
  <2> HIDE DEF n, m
  <2>3. PICK p, g : p \in Nat /\ Assigned(c, t, p, n, table, g)
    BY <1>2, TablesPlaces
  <2>4. topics'[c] = table /\ \A d \in Conns : d # c => topics'[d] = topics[d]
    BY <2>1 DEF TypeOK
  <2>5. \A d \in Conns : \A i \in Of(d, "ok")' :
          i \in Of(d, "ok") \/ sent'[d][i].session = n
    BY <2>1, <2>2, ReplyTells DEF Of
  <2>6. cur # None /\ cur.owner = c /\ taken \notin moved'[c] => Still(c, table)
    BY <2>1 DEF Moves, Still, TypeOK
  <2>7. Joins(c, t, p, n, g)
    BY <1>1, <1>2, <2>1, <2>3, <2>4, <2>5, <2>6 DEF Joins
  <2>8. QED
    BY <1>2, <2>3, <2>7
<1>5. QED
  BY <1>3, <1>4

\* Every step makes one session, in one slot, or none.
LEMMA StepJoins ==
  ASSUME TypeOK, IdsFiled, OneSlot, [Next]_vars
  PROVE  NoJoin \/ \E c \in Conns, t \in Topics, p \in Nat, n \in Sessions : \E g :
                     Joins(c, t, p, n, g)
<1>0. joins \in Int
  BY DEF TypeOK
<1>1. ASSUME UNCHANGED <<topics, joins, sent>>
      PROVE  NoJoin
  BY <1>0, <1>1, Uneventful DEF Of
<1>2. ASSUME NEW event \in Events, _enqueue_changefeed_event(event)
      PROVE  NoJoin
  BY <1>1, <1>2 DEF _enqueue_changefeed_event, joinVars
<1>3. ASSUME NEW c \in Conns, Network(c) \/ Ends(c)
      PROVE  NoJoin
  BY <1>1, <1>3, EndsForgets DEF Network, Connect, Close, Forget, joinVars
<1>4. ASSUME NEW c \in Conns, SendSystem(c)
      PROVE  NoJoin
  <2>1. UNCHANGED <<topics, joins>> /\ Reply(c, [kind |-> "system"], "recv")
    BY <1>4 DEF SendSystem
  <2>2. \A d \in Conns : Of(d, "ok")' \subseteq Of(d, "ok")
    BY <2>1, ReplyTells DEF Of
  <2>3. QED
    BY <1>0, <2>1, <2>2, Uneventful
<1>5. ASSUME NEW c \in Conns, NEW t \in Topics, HandleLeave(c, t)
      PROVE  NoJoin
  <2>1. PICK l \in Slots(c, t) :
          /\ topics' = [topics EXCEPT ![c][l].live = FALSE]
          /\ \/ Reply(c, [kind |-> "left", join |-> topics[c][l].session.join,
                          ev |-> taken], "recv")
             \/ UNCHANGED <<sent, handler>>
    BY <1>5 DEF HandleLeave
  <2>2. \A d \in Conns : Of(d, "ok")' \subseteq Of(d, "ok")
    BY <2>1, ReplyTells DEF Of
  <2>3. \A d \in Conns : DOMAIN topics'[d] = DOMAIN topics[d]
    BY <2>1 DEF TypeOK
  <2>4. ASSUME NEW d \in Conns, NEW k \in DOMAIN topics[d]
        PROVE  /\ topics'[d][k].session = topics[d][k].session
               /\ topics'[d][k].topic = topics[d][k].topic
               /\ topics'[d][k].live => topics[d][k].live
    <3>1. topics[d] \in Seq(Entry)
      BY DEF TypeOK, Entry
    <3>2. topics[d][k] \in Entry
      BY <3>1, ElementOfSeq
    <3>3. topics'[d][k] \in {topics[d][k], [topics[d][k] EXCEPT !.live = FALSE]}
      BY <2>1, <3>1 DEF TypeOK
    <3>4. QED
      BY <3>2, <3>3 DEF Entry
  <2>5. joins' = joins
    BY <1>5 DEF HandleLeave
  <2>6. QED
    BY <1>0, <2>2, <2>3, <2>4, <2>5 DEF NoJoin
<1>6. ASSUME Drain
      PROVE  NoJoin
  <2>1. UNCHANGED <<topics, joins>>
    BY <1>6, DrainFrame
  <2>2. CASE UNCHANGED sent
    BY <1>1, <2>1, <2>2
  <2>3. CASE SendSub /\ sent' # sent
    <3> DEFINE m == [kind |-> "changes", topic |-> cur.topic,
                     join |-> cur.session.join, sub |-> cur.sub, ev |-> taken]
    <3>1. Transmit(cur.ws, m) /\ cur.ws \in Conns /\ m.kind = "changes"
      BY <2>3, InSession DEF SendSub
    <3> HIDE DEF m
    <3>2. \A d \in Conns : Of(d, "ok")' \subseteq Of(d, "ok")
      BY <3>1, TransmitAppends DEF SentGrows, Of
    <3>3. QED
      BY <1>0, <2>1, <3>2, Uneventful
  <2>4. QED
    BY <1>6, <2>2, <2>3 DEF Drain, Take, NextWs, EndBroadcast, NextTopic, SkipSub, Resume
<1>7. QED
  BY <1>1, <1>2, <1>3, <1>4, <1>5, <1>6, JoinEffect
     DEF Next, Network, Handler, Ends, vars, joinVars

-----------------------------------------------------------------------------
\* The drain task has a session of the dict under iteration in its hand.
Bound == cur # None /\ cur.slot # 0

\* The sessions the server has made: in a dict, in the hand of the drain task,
\* or told to a client.
Made(s) ==
  \/ \E c \in Conns : \E k \in DOMAIN topics[c] : topics[c][k].session = s
  \/ Bound /\ cur.session = s
  \/ \E c \in Conns : \E k \in Of(c, "ok") : sent[c][k].session = s

\* A session is known by its join number, and no join has a number yet to come.
Numbered ==
  /\ \A s \in Sessions : Made(s) => s.join <= joins
  /\ \A s, r \in Sessions : Made(s) /\ Made(r) /\ s.join = r.join => s = r
  /\ \A c \in Conns : \A i \in Of(c, "left") \cup Of(c, "changes") :
       sent[c][i].join <= joins

\* A join has one place: one slot of one dict, and a rebuilt dict moves it left.
OnePlace ==
  /\ \A c, d \in Conns : \A k \in DOMAIN topics[c], l \in DOMAIN topics[d] :
       topics[c][k].session.join = topics[d][l].session.join => c = d /\ k = l
  /\ Bound => \A c \in Conns : \A k \in DOMAIN topics[c] :
       topics[c][k].session.join = cur.session.join => c = cur.owner /\ k <= cur.slot

\* Nothing is sent of an event before it is taken, and a dict under iteration
\* is not waiting to be iterated over as well.
Paced ==
  /\ \A c \in Conns : \A i \in Of(c, "changes") : sent[c][i].ev <= taken
  /\ cur # None => cur.owner \notin snapshot

\* What has been sent of the event in hand is for joins the broadcast is past,
\* or for subscriptions of the session in hand it is past.
Past(m) ==
  /\ \A d \in snapshot : \A k \in DOMAIN topics[d] : topics[d][k].session.join # m.join
  /\ cur # None => \A k \in DOMAIN topics[cur.owner] :
       k > cur.slot => topics[cur.owner][k].session.join # m.join
  /\ Bound /\ cur.session.join = m.join => m.sub < cur.sub

BroadcastOrder ==
  drain # "get" => \A c \in Conns : \A i \in Of(c, "changes") :
    sent[c][i].ev = taken => Past(sent[c][i])

\* A join that was left is in no live slot, and in the hand of the drain task
\* only for the event it was left at.
Left ==
  \A c \in Conns : \A i \in Of(c, "left") :
    /\ \A d \in Conns : \A k \in Live(d) :
         topics[d][k].session.join # sent[c][i].join
    /\ Bound /\ cur.session.join = sent[c][i].join => sent[c][i].ev = taken

\* Whoever is sent a row has claims that may see it.
RowsAllowed ==
  \A c \in Conns : \A i \in Of(c, "changes") : \A s \in Sessions :
    Made(s) /\ s.join = sent[c][i].join
      => rls_allows_row(s.claims, feed[sent[c][i].ev].record)

\* No two connections with a handler have one id.
OneHolder ==
  \A c, d \in Conns :
    net[c] \in {"open", "closed"} /\ net[d] \in {"open", "closed"} /\ idOf[c] = idOf[d]
      => c = d

\* The dict of an open connection is sent to that connection.
OwnerServed == cur # None /\ net[cur.owner] = "open" => cur.ws = cur.owner

\* An open connection is filed under its id, and so is its dict once it joined.
Filed ==
  \A c \in Conns : net[c] = "open" =>
    /\ activeWs[idOf[c]] = c
    /\ topics[c] # <<>> => wsIndex[idOf[c]] = c

\* Unless the entries of the dict have moved, the slot in the hand of the drain
\* task holds the session it bound, or one made since the event was taken.
InHand ==
  Bound /\ taken \notin moved[cur.owner] => \A k \in Live(cur.owner) : k = cur.slot =>
    \/ topics[cur.owner][k].session = cur.session
    \/ topics[cur.owner][k].session.since = taken

\* Subscription n of slot k of connection c is ahead of the broadcast.
Remains(c, k, n) ==
  \/ c \in snapshot
  \/ cur # None /\ cur.owner = c /\ (k > cur.slot \/ (k = cur.slot /\ n >= cur.sub))

\* Subscription n of slot k has not been sent an event it is to see.
Skips(c, k, n, ev) ==
  /\ topics[c][k].session.since < ev
  /\ Delivers(topics[c][k].session, n, feed[ev])
  /\ ~Sent(c, topics[c][k].session.join, n, ev)

Owing(c, k, n) == Skips(c, k, n, taken)

\* What the broadcast owes a dict whose entries have not moved it still has ahead
\* of it, and of the events it has done nothing is owed.
Owed ==
  drain # "get" => \A c \in Conns : net[c] = "open" /\ taken \notin moved[c] =>
    \A k \in Live(c) : \A n \in DOMAIN topics[c][k].session.subs :
      Owing(c, k, n) => Remains(c, k, n)

NoSkips ==
  \A c \in Conns : net[c] = "open" =>
    \A k \in Live(c) : \A n \in DOMAIN topics[c][k].session.subs :
      \A ev \in Done \ moved[c] : ~Skips(c, k, n, ev)

-----------------------------------------------------------------------------
\* A message of changes is handed over by SendSub, for the session in hand.
LEMMA ChangesStep ==
  ASSUME TypeOK, [Next]_vars, NEW c \in Conns,
         NEW i \in Of(c, "changes")', i \notin Of(c, "changes")
  PROVE  /\ SendSub /\ Bound /\ net[cur.ws] = "open" /\ c = cur.ws
         /\ i = Len(sent[c]) + 1
         /\ sent'[c][i] = [kind |-> "changes", topic |-> cur.topic,
                           join |-> cur.session.join, sub |-> cur.sub, ev |-> taken]
<1>1. SendSub
  BY OnlySendSub
<1> DEFINE m == [kind |-> "changes", topic |-> cur.topic,
                 join |-> cur.session.join, sub |-> cur.sub, ev |-> taken]
<1>2. /\ cur # None /\ ~SessionDone
      /\ net[cur.ws] = "open" => Transmit(cur.ws, m)
      /\ net[cur.ws] # "open" => UNCHANGED sent
  BY <1>1 DEF SendSub
<1>3. Bound /\ cur.ws \in Conns
  BY <1>2, InSession DEF Bound
<1> HIDE DEF m
<1>4. net[cur.ws] = "open"
  BY <1>2 DEF Of
<1>5. \A d \in Conns : \A k \in DOMAIN sent'[d] :
        \/ k \in DOMAIN sent[d] /\ sent'[d][k] = sent[d][k]
        \/ d = cur.ws /\ k = Len(sent[cur.ws]) + 1 /\ sent'[d][k] = m
  BY <1>2, <1>3, <1>4, TransmitAppends DEF SentGrows
<1>6. c = cur.ws /\ i = Len(sent[c]) + 1 /\ sent'[c][i] = m
  BY <1>5 DEF Of
<1>7. QED
  BY <1>1, <1>3, <1>4, <1>6 DEF m

\* A phx_leave is answered for the slot it takes out of the dict.
LEMMA LeftStep ==
  ASSUME TypeOK, IdsFiled, OneSlot, [Next]_vars, NEW c \in Conns,
         NEW i \in Of(c, "left")', i \notin Of(c, "left")
  PROVE  /\ UNCHANGED <<taken, drain, snapshot, cur, joins>>
         /\ NoJoin
         /\ \E k \in Live(c) :
              /\ sent'[c][i].join = topics[c][k].session.join
              /\ sent'[c][i].ev = taken
              /\ k \notin Live(c)'
<1> DEFINE Grew(kind) == \E d \in Conns : \E m :
             m.kind = kind /\ \A e \in Conns : \A k \in DOMAIN sent'[e] :
               \/ k \in DOMAIN sent[e] /\ sent'[e][k] = sent[e][k]
               \/ e = d /\ sent'[e][k] = m
<1>1. ~Grew("system") /\ ~Grew("ok") /\ ~Grew("error") /\ ~Grew("changes")
  BY DEF Of
<1>2. sent' # sent
  BY DEF Of
<1>3. ASSUME NEW d \in Conns, SendSystem(d)
      PROVE  Grew("system")
  <2> DEFINE m == [kind |-> "system"]
  <2>1. Reply(d, m, "recv") /\ m.kind = "system"
    BY <1>3 DEF SendSystem
  <2> HIDE DEF m
  <2>2. QED
    BY <2>1, ReplyTells
<1>4. ASSUME NEW d \in Conns, NEW t \in Topics, NEW token \in Tokens,
             NEW config \in Configs, _handle_join(d, t, token, config)
      PROVE  Grew("ok") \/ Grew("error")
  <2>1. PICK m, next : m.kind \in {"ok", "error"} /\ Reply(d, m, next)
    BY <1>4 DEF _handle_join
  <2>2. \A e \in Conns : \A k \in DOMAIN sent'[e] :
          \/ k \in DOMAIN sent[e] /\ sent'[e][k] = sent[e][k]
          \/ e = d /\ sent'[e][k] = m
    BY <2>1, ReplyTells
  <2>3. Grew(m.kind)
    BY <2>2
  <2>4. QED
    BY <2>1, <2>3
<1>5. ASSUME SendSub
      PROVE  Grew("changes")
  <2> DEFINE m == [kind |-> "changes", topic |-> cur.topic,
                   join |-> cur.session.join, sub |-> cur.sub, ev |-> taken]
  <2>1. Transmit(cur.ws, m) /\ cur.ws \in Conns /\ m.kind = "changes"
    BY <1>2, <1>5, InSession DEF SendSub
  <2> HIDE DEF m
  <2>2. QED
    BY <2>1, TransmitAppends DEF SentGrows
<1>6. ~SendSub => ~Drain
  BY <1>2 DEF Drain, Take, NextWs, EndBroadcast, NextTopic, SkipSub, Resume
<1>7. \A d \in Conns : ~Network(d) /\ ~Ends(d)
  BY <1>2, EndsForgets DEF Network, Connect, Close, Forget
<1>8. \A event \in Events : ~_enqueue_changefeed_event(event)
  BY <1>2 DEF _enqueue_changefeed_event
<1> HIDE DEF Grew
<1>9. ~SendSub /\ \A d \in Conns : ~SendSystem(d)
  BY <1>1, <1>3, <1>5
<1>10. \A d \in Conns, t \in Topics, token \in Tokens, config \in Configs :
         ~_handle_join(d, t, token, config)
  BY <1>1, <1>4
<1>11. PICK d \in Conns, t \in Topics : HandleLeave(d, t)
  BY <1>2, <1>6, <1>7, <1>8, <1>9, <1>10 DEF Next, Handler, Ends, vars
<1>12. PICK k \in Slots(d, t) :
         /\ topics' = [topics EXCEPT ![d][k].live = FALSE]
         /\ \/ Reply(d, [kind |-> "left", join |-> topics[d][k].session.join,
                         ev |-> taken], "recv")
            \/ UNCHANGED <<sent, handler>>
  BY <1>11 DEF HandleLeave
<1> DEFINE m == [kind |-> "left", join |-> topics[d][k].session.join, ev |-> taken]
<1>13. Reply(d, m, "recv") /\ m.join = topics[d][k].session.join /\ m.ev = taken
  BY <1>2, <1>12
<1> HIDE DEF m
<1>14. d = c /\ sent'[c][i] = m
  BY <1>13, ReplyTells DEF Of
<1>15. k \in Live(c) /\ k \notin Live(c)'
  <2>1. k \in Live(c) /\ k \in DOMAIN topics[c] /\ topics[c] \in Seq(Entry)
    BY <1>14 DEF Slots, Live, TypeOK, Entry
  <2>2. topics[c][k] \in Entry
    BY <2>1, ElementOfSeq
  <2>3. topics'[c][k].live = FALSE
    BY <1>12, <1>14, <2>1, <2>2 DEF TypeOK, Entry
  <2>4. QED
    BY <2>1, <2>3 DEF Live
<1>16. UNCHANGED <<taken, drain, snapshot, cur, joins>>
  BY <1>11 DEF HandleLeave, feedVars, drainVars
<1>17. joins' # joins + 1
  BY <1>16 DEF TypeOK
<1>18. NoJoin
  BY <1>17, StepJoins DEF Joins
<1>19. QED
  BY <1>13, <1>14, <1>15, <1>16, <1>18

-----------------------------------------------------------------------------
\* What is in the hand of the drain task was there before, or is bound from a
\* live slot the iteration comes to.
LEMMA BoundStep ==
  ASSUME TypeOK, DrainControl, [Next]_vars, Bound'
  PROVE  \/ Bound /\ SameBinding(cur', cur)
         \/ /\ UNCHANGED <<topics, snapshot, taken, drain, sent, joins, feed, net>>
            /\ cur # None /\ SessionDone /\ drain = "run"
            /\ \E k \in Ahead :
                 /\ \A l \in Ahead : k <= l
                 /\ cur'.owner = cur.owner /\ cur'.slot = k /\ cur'.sub = 1
                 /\ cur'.session = topics[cur.owner][k].session
<1>1. CASE UNCHANGED cur
  BY <1>1 DEF Bound, SameBinding
<1>2. ASSUME NEW event \in Events, _enqueue_changefeed_event(event)
      PROVE  UNCHANGED cur
  BY <1>2 DEF _enqueue_changefeed_event, drainVars
<1>3. ASSUME NEW c \in Conns, Network(c) \/ Handler(c)
      PROVE  UNCHANGED cur
  BY <1>3, LoopFrame
<1>4. CASE Take \/ EndBroadcast \/ Resume
  BY <1>1, <1>4 DEF Take, EndBroadcast, Resume
<1>5. ASSUME NEW c \in Conns, NextWs(c)
      PROVE  ~Bound'
  BY <1>5 DEF NextWs, Bound
<1>6. CASE SkipSub \/ SendSub
  BY <1>1, <1>6, InSession DEF SkipSub, SendSub, Bound
<1>7. CASE NextTopic
  BY <1>1, <1>7, NextTopicBinds DEF Bound, feedVars, connVars, joinVars
<1>8. QED
  BY <1>1, <1>2, <1>3, <1>4, <1>5, <1>6, <1>7 DEF Next, Drain, vars, drainVars

LEMMA OneSlotStep ==
  ASSUME TypeOK, IdsFiled, OneSlot, [Next]_vars
  PROVE  OneSlot'
<1>1. CASE NoJoin
  BY <1>1 DEF NoJoin, OneSlot, Live
<1>2. ASSUME NEW c \in Conns, NEW t \in Topics, NEW p \in Nat, NEW n \in Sessions,
             NEW g, Joins(c, t, p, n, g)
      PROVE  OneSlot'
  <2>1. ASSUME NEW k \in DOMAIN topics'[c], topics'[c][k].live, k # p
        PROVE  /\ g[k] \in Live(c) /\ topics'[c][k].topic = topics[c][g[k]].topic
               /\ topics'[c][k].topic # t
    <3>1. g[k] \in DOMAIN topics[c] \ Slots(c, t) /\ topics'[c][k] = topics[c][g[k]]
      BY <1>2, <2>1 DEF Joins, Assigned
    <3>2. g[k] \in Live(c)
      BY <2>1, <3>1 DEF Live
    <3>3. QED
      BY <3>1, <3>2 DEF Slots
  <2>2. topics'[c][p].topic = t
    BY <1>2 DEF Joins, Assigned
  <2>3. \A k, l \in Live(c)' : topics'[c][k].topic = topics'[c][l].topic => k = l
    <3>1. ASSUME NEW k \in DOMAIN topics'[c] \ {p}, NEW l \in DOMAIN topics'[c] \ {p},
                 g[k] = g[l]
          PROVE  k = l
      BY <1>2, <3>1 DEF Joins, Assigned
    <3>2. QED
      BY <2>1, <2>2, <3>1 DEF OneSlot, Live
  <2>4. \A d \in Conns : d # c => topics'[d] = topics[d]
    BY <1>2 DEF Joins
  <2>5. QED
    BY <2>3, <2>4 DEF OneSlot, Live
<1>3. QED
  BY <1>1, <1>2, StepJoins

\* A step makes no session but the one it puts into a slot.
LEMMA MadeStep ==
  ASSUME TypeOK, DrainControl, [Next]_vars, NEW s \in Sessions, Made(s)'
  PROVE  /\ NoJoin => Made(s)
         /\ \A c \in Conns, t \in Topics, p \in Nat, n \in Sessions : \A g :
              Joins(c, t, p, n, g) => Made(s) \/ s = n
<1>0. SentGrows
  BY GrowsStep
<1>1. ASSUME Bound', cur'.session = s
      PROVE  Made(s)
  <2>1. CASE Bound /\ SameBinding(cur', cur)
    BY <1>1, <2>1 DEF SameBinding, Made
  <2>2. CASE \E k \in Ahead : cur # None /\ cur'.session = topics[cur.owner][k].session
    <3>1. cur # None => cur.owner \in Conns
      BY DEF TypeOK, Iterations
    <3>2. QED
      BY <1>1, <2>2, <3>1 DEF Ahead, Live, Made
  <2>3. QED
    BY <1>1, <2>1, <2>2, BoundStep
<1>2. ASSUME NoJoin
      PROVE  Made(s)
  <2>1. ASSUME NEW c \in Conns, NEW k \in DOMAIN topics'[c], topics'[c][k].session = s
        PROVE  Made(s)
    BY <1>2, <2>1 DEF NoJoin, Made
  <2>2. ASSUME NEW c \in Conns, NEW k \in Of(c, "ok")', sent'[c][k].session = s
        PROVE  Made(s)
    BY <1>0, <1>2, <2>2 DEF NoJoin, Made, SentGrows, Of
  <2>3. QED
    BY <1>1, <2>1, <2>2 DEF Made
<1>3. ASSUME NEW c \in Conns, NEW t \in Topics, NEW p \in Nat, NEW n \in Sessions,
             NEW g, Joins(c, t, p, n, g), s # n
      PROVE  Made(s)
  <2>1. ASSUME NEW d \in Conns, NEW k \in DOMAIN topics'[d], topics'[d][k].session = s
        PROVE  Made(s)
    <3>1. \E l \in DOMAIN topics[d] : topics'[d][k] = topics[d][l]
      <4>1. topics'[c][p].session # s
        BY <1>3 DEF Joins, Assigned
      <4>2. CASE d = c
        BY <1>3, <2>1, <4>1, <4>2 DEF Joins, Assigned
      <4>3. CASE d # c
        BY <1>3, <2>1, <4>3 DEF Joins
      <4>4. QED
        BY <4>2, <4>3
    <3>2. QED
      BY <2>1, <3>1 DEF Made
  <2>2. ASSUME NEW d \in Conns, NEW k \in Of(d, "ok")', sent'[d][k].session = s
        PROVE  Made(s)
    BY <1>0, <1>3, <2>2 DEF Joins, Made, SentGrows, Of
  <2>3. QED
    BY <1>1, <2>1, <2>2 DEF Made
<1>4. QED
  BY <1>2, <1>3

-----------------------------------------------------------------------------
\* Types of what is in hand and in a slot.
LEMMA BoundType ==
  ASSUME TypeOK, Bound
  PROVE  /\ cur.session \in Sessions /\ cur.owner \in Conns /\ cur.ws \in Conns
         /\ cur.slot \in Nat \ {0} /\ cur.sub \in Nat \ {0}
BY DEF TypeOK, Bound, Iterations

LEMMA SlotType ==
  ASSUME TypeOK, NEW c \in Conns, NEW k \in DOMAIN topics[c]
  PROVE  /\ k \in Nat \ {0} /\ topics[c][k].session \in Sessions
         /\ topics[c][k].topic \in Topics /\ topics[c][k].live \in BOOLEAN
<1>1. topics[c] \in Seq(Entry)
  BY DEF TypeOK, Entry
<1>2. topics[c][k] \in Entry /\ k \in Nat \ {0}
  BY <1>1, ElementOfSeq
<1>3. QED
  BY <1>2 DEF Entry

\* A slot after a join holds the new session, or what a slot held before.
LEMMA JoinsFrom ==
  ASSUME TypeOK, NEW c \in Conns, NEW t, NEW p, NEW n, NEW g, Joins(c, t, p, n, g),
         NEW d \in Conns, NEW k \in DOMAIN topics'[d], ~(d = c /\ k = p)
  PROVE  /\ k \in Nat
         /\ \E l \in DOMAIN topics[d] :
              /\ k <= l /\ topics'[d][k] = topics[d][l]
              /\ d = c => l = g[k]
              /\ d # c => l = k
<1>1. CASE d = c
  BY <1>1 DEF Joins, Assigned
<1>2. CASE d # c
  <2>1. topics'[d] = topics[d]
    BY <1>2 DEF Joins
  <2>2. k \in DOMAIN topics[d] /\ k \in Nat
    BY <2>1, SlotType
  <2>3. QED
    BY <1>2, <2>1, <2>2
<1>3. QED
  BY <1>1, <1>2

\* Types of what is in a log.
LEMMA LogType ==
  ASSUME TypeOK, NEW c \in Conns
  PROVE  /\ \A i \in Of(c, "ok") : sent[c][i].session \in Sessions
         /\ \A i \in Of(c, "left") : sent[c][i].join \in 1..MaxJoins /\ sent[c][i].ev \in 0..MaxEvents
         /\ \A i \in Of(c, "changes") :
              /\ sent[c][i].join \in 1..MaxJoins /\ sent[c][i].ev \in 1..MaxEvents
              /\ sent[c][i].sub \in Nat
<1>1. sent[c] \in Seq(Message)
  BY DEF TypeOK
<1>2. \A i \in DOMAIN sent[c] : sent[c][i] \in Message
  BY <1>1, ElementOfSeq
<1>3. QED
  BY <1>2 DEF Of, Message

\* The number of a session is a number.
LEMMA JoinNumber ==
  ASSUME NEW s \in Sessions
  PROVE  s.join \in Nat /\ s.join # 0 /\ s.since \in Nat
BY RealtimeAssumption DEF Sessions

\* The counters of joins and events only go up.
LEMMA CountersStep ==
  ASSUME TypeOK, IdsFiled, OneSlot, [Next]_vars
  PROVE  /\ joins \in Nat /\ joins' \in Nat /\ joins <= joins'
         /\ taken \in Nat /\ (taken' = taken \/ (Take /\ taken' = taken + 1))
<1>1. joins \in Nat /\ taken \in Nat
  BY RealtimeAssumption DEF TypeOK
<1>2. joins <= joins' /\ joins' \in Nat
  <2>1. joins' = joins \/ joins' = joins + 1
    BY EndsForgets DEF Next, Network, Handler, Drain, _enqueue_changefeed_event, Connect, Close,
       _handle_join, HandleLeave, SendSystem, Ends, Forget, Take, NextWs, EndBroadcast,
       NextTopic, SkipSub, SendSub, Resume, vars, joinVars
  <2>2. QED
    BY <1>1, <2>1
<1>3. taken' = taken \/ (Take /\ taken' = taken + 1)
  <2>1. ASSUME NEW c \in Conns, Network(c) \/ Handler(c)
        PROVE  taken' = taken
    BY <2>1, LoopFrame
  <2>2. ASSUME NEW event \in Events, _enqueue_changefeed_event(event)
        PROVE  taken' = taken
    BY <2>2 DEF _enqueue_changefeed_event
  <2>3. CASE Drain
    BY <2>3 DEF Drain, Take, NextWs, EndBroadcast, NextTopic, SkipSub, SendSub, Resume,
                feedVars
  <2>4. QED
    BY <2>1, <2>2, <2>3 DEF Next, vars, feedVars
<1>4. QED
  BY <1>1, <1>2, <1>3

LEMMA NumberedStep ==
  ASSUME TypeOK, IdsFiled, DrainControl, OneSlot, Numbered, [Next]_vars
  PROVE  Numbered'
<1>1. joins \in Nat /\ joins' \in Nat /\ joins <= joins'
  BY CountersStep
<1>2. SentGrows
  BY GrowsStep
<1>3. ASSUME NEW s \in Sessions, Made(s)'
      PROVE  s.join <= joins'
  <2>1. s.join \in Nat
    BY JoinNumber
  <2>2. CASE Made(s)
    BY <1>1, <2>1, <2>2 DEF Numbered
  <2>3. CASE \E c \in Conns, t \in Topics, p \in Nat, n \in Sessions : \E g :
               Joins(c, t, p, n, g) /\ s = n
    BY <1>1, <2>3 DEF Joins
  <2>4. QED
    BY <1>3, <2>2, <2>3, MadeStep, StepJoins
<1>4. ASSUME NEW s \in Sessions, NEW r \in Sessions, Made(s)', Made(r)', s.join = r.join
      PROVE  s = r
  <2>1. CASE NoJoin
    BY <1>4, <2>1, MadeStep DEF Numbered
  <2>2. ASSUME NEW c \in Conns, NEW t \in Topics, NEW p \in Nat, NEW n \in Sessions,
               NEW g, Joins(c, t, p, n, g)
        PROVE  s = r
    <3>1. (Made(s) \/ s = n) /\ (Made(r) \/ r = n)
      BY <1>4, <2>2, MadeStep
    <3>2. n.join = joins + 1
      BY <2>2 DEF Joins
    <3>3. Made(s) => s.join # n.join
      <4>1. s.join \in Nat
        BY JoinNumber
      <4>2. QED
        BY <1>1, <3>2, <4>1 DEF Numbered
    <3>4. Made(r) => r.join # n.join
      <4>1. r.join \in Nat
        BY JoinNumber
      <4>2. QED
        BY <1>1, <3>2, <4>1 DEF Numbered
    <3>5. QED
      BY <1>4, <3>1, <3>3, <3>4 DEF Numbered
  <2>3. QED
    BY <2>1, <2>2, StepJoins
<1>5. ASSUME NEW c \in Conns, NEW i \in Of(c, "left")' \cup Of(c, "changes")'
      PROVE  sent'[c][i].join \in Nat /\ sent'[c][i].join <= joins
  <2>1. CASE i \in Of(c, "left") \cup Of(c, "changes")
    BY <1>2, <2>1, LogType DEF Numbered, SentGrows, Of
  <2>2. ASSUME i \in Of(c, "left")', i \notin Of(c, "left")
        PROVE  sent'[c][i].join \in Nat /\ sent'[c][i].join <= joins
    <3>1. PICK k \in Live(c) : sent'[c][i].join = topics[c][k].session.join
      BY <2>2, LeftStep
    <3>2. k \in DOMAIN topics[c] /\ Made(topics[c][k].session)
      BY DEF Live, Made
    <3>3. QED
      BY <3>1, <3>2, SlotType, JoinNumber DEF Numbered
  <2>3. ASSUME i \in Of(c, "changes")', i \notin Of(c, "changes")
        PROVE  sent'[c][i].join \in Nat /\ sent'[c][i].join <= joins
    <3>1. Bound /\ sent'[c][i].join = cur.session.join
      BY <2>3, ChangesStep
    <3>2. cur.session \in Sessions /\ Made(cur.session)
      BY <3>1, BoundType DEF Made
    <3>3. QED
      BY <3>1, <3>2, JoinNumber DEF Numbered
  <2>4. QED
    BY <1>5, <2>1, <2>2, <2>3
<1>6. ASSUME NEW c \in Conns, NEW i \in Of(c, "left")' \cup Of(c, "changes")'
      PROVE  sent'[c][i].join <= joins'
  BY <1>1, <1>5, <1>6
<1>7. QED
  BY <1>3, <1>4, <1>6 DEF Numbered

LEMMA OnePlaceStep ==
  ASSUME TypeOK, IdsFiled, DrainControl, OneSlot, Numbered, OnePlace, [Next]_vars
  PROVE  OnePlace'
<1>1. joins \in Nat
  BY CountersStep
<1>2. ASSUME NEW c \in Conns, NEW k \in DOMAIN topics[c]
      PROVE  topics[c][k].session.join # joins + 1
  <2>1. topics[c][k].session.join <= joins /\ topics[c][k].session.join \in Nat
    BY <1>2, SlotType, JoinNumber DEF Numbered, Made
  <2>2. QED
    BY <1>1, <2>1
<1>3. Bound => cur.session.join # joins + 1
  <2>1. Bound => cur.session.join <= joins /\ cur.session.join \in Nat
    BY BoundType, JoinNumber DEF Numbered, Made
  <2>2. QED
    BY <1>1, <2>1
<1>4. ASSUME NoJoin
      PROVE  OnePlace'
  <2>1. \A c, d \in Conns : \A k \in DOMAIN topics'[c], l \in DOMAIN topics'[d] :
          topics'[c][k].session.join = topics'[d][l].session.join => c = d /\ k = l
    BY <1>4 DEF NoJoin, OnePlace
  <2>2. ASSUME Bound', NEW c \in Conns, NEW k \in DOMAIN topics[c],
               topics[c][k].session.join = cur'.session.join
        PROVE  c = cur'.owner /\ k <= cur'.slot
    <3>1. CASE Bound /\ SameBinding(cur', cur)
      BY <2>2, <3>1 DEF OnePlace, SameBinding
    <3>2. CASE cur # None /\ \E l \in Ahead : cur'.owner = cur.owner /\ cur'.slot = l
                  /\ cur'.session = topics[cur.owner][l].session
      <4>1. cur.owner \in Conns
        BY <3>2 DEF TypeOK, Iterations
      <4>2. c = cur'.owner /\ k = cur'.slot
        BY <2>2, <3>2, <4>1 DEF OnePlace, Ahead, Live
      <4>3. k \in Nat
        BY <2>2, SlotType
      <4>4. QED
        BY <4>2, <4>3
    <3>3. QED
      BY <2>2, <3>1, <3>2, BoundStep
  <2>3. QED
    BY <1>4, <2>1, <2>2 DEF NoJoin, OnePlace
<1>5. ASSUME NEW c \in Conns, NEW t \in Topics, NEW p \in Nat, NEW n \in Sessions,
             NEW g, Joins(c, t, p, n, g)
      PROVE  OnePlace'
  <2>1. topics'[c][p].session = n /\ n.join = joins + 1 /\ cur' = cur
    BY <1>5 DEF Joins, Assigned
  <2>2. ASSUME NEW d \in Conns, NEW k \in DOMAIN topics'[d], ~(d = c /\ k = p)
        PROVE  topics'[d][k].session.join # joins + 1
    BY <1>2, <1>5, <2>2, JoinsFrom
  <2>3. ASSUME NEW d \in Conns, NEW e \in Conns,
               NEW k \in DOMAIN topics'[d], NEW l \in DOMAIN topics'[e],
               topics'[d][k].session.join = topics'[e][l].session.join
        PROVE  d = e /\ k = l
    <3>1. CASE (d = c /\ k = p) \/ (e = c /\ l = p)
      BY <2>1, <2>2, <2>3, <3>1
    <3>2. CASE ~(d = c /\ k = p) /\ ~(e = c /\ l = p)
      <4>1. PICK i \in DOMAIN topics[d] :
              topics'[d][k] = topics[d][i] /\ (d = c => i = g[k]) /\ (d # c => i = k)
        BY <1>5, <3>2, JoinsFrom
      <4>2. PICK j \in DOMAIN topics[e] :
              topics'[e][l] = topics[e][j] /\ (e = c => j = g[l]) /\ (e # c => j = l)
        BY <1>5, <3>2, JoinsFrom
      <4>3. d = e /\ i = j
        BY <2>3, <4>1, <4>2 DEF OnePlace
      <4>4. d = c => k = l
        <5>1. ASSUME d = c
              PROVE  k \in DOMAIN topics'[c] \ {p} /\ l \in DOMAIN topics'[c] \ {p} /\ g[k] = g[l]
          BY <3>2, <4>1, <4>2, <4>3, <5>1
        <5>2. QED
          BY <1>5, <5>1 DEF Joins, Assigned
      <4>5. QED
        BY <4>1, <4>2, <4>3, <4>4
    <3>3. QED
      BY <3>1, <3>2
  <2>4. ASSUME Bound, NEW d \in Conns, NEW k \in DOMAIN topics'[d],
               topics'[d][k].session.join = cur.session.join
        PROVE  d = cur.owner /\ k <= cur.slot
    <3>1. PICK l \in DOMAIN topics[d] : k <= l /\ k \in Nat /\ topics'[d][k] = topics[d][l]
      BY <1>3, <1>5, <2>1, <2>4, JoinsFrom
    <3>2. d = cur.owner /\ l <= cur.slot
      BY <2>4, <3>1 DEF OnePlace
    <3>3. l \in Nat /\ cur.slot \in Nat
      BY <2>4, SlotType, BoundType
    <3>4. QED
      BY <3>1, <3>2, <3>3
  <2>5. QED
    BY <2>1, <2>3, <2>4 DEF OnePlace, Bound
<1>6. QED
  BY <1>4, <1>5, StepJoins

-----------------------------------------------------------------------------
\* A message that is new in a log comes after those that were there.
LEMMA NewIsLast ==
  ASSUME TypeOK, DrainControl, IdsFiled, [Next]_vars, NEW c \in Conns,
         NEW i \in DOMAIN sent'[c], i \notin DOMAIN sent[c], NEW j \in DOMAIN sent[c]
  PROVE  j < i
<1>1. sent[c] \in Seq(Message)
  BY DEF TypeOK
<1>2. sent'[c] \in Seq(Message)
  BY TypeStep DEF TypeOK
<1>3. DOMAIN sent[c] = 1..Len(sent[c]) /\ Len(sent[c]) \in Nat
  BY <1>1
<1>4. DOMAIN sent'[c] = 1..Len(sent'[c]) /\ Len(sent'[c]) \in Nat
  BY <1>2
<1>5. QED
  BY <1>3, <1>4

\* A message is new, or was there before, unchanged.
LEMMA OldOrNew ==
  ASSUME TypeOK, DrainControl, [Next]_vars, NEW c \in Conns, NEW kind, NEW i \in Of(c, kind)'
  PROVE  \/ i \in Of(c, kind) /\ sent'[c][i] = sent[c][i]
         \/ i \notin Of(c, kind) /\ i \notin DOMAIN sent[c]
BY GrowsStep DEF SentGrows, Of

\* The drain task moves on: to the next connection of its snapshot, the next
\* slot of a dict or the next subscription of a session.
LEMMA Onward ==
  ASSUME TypeOK, DrainControl, [Next]_vars, ~Take
  PROVE  /\ snapshot' \subseteq snapshot
         /\ cur' # None =>
              \/ /\ cur # None /\ cur'.owner = cur.owner /\ snapshot' = snapshot
                 /\ \/ cur'.slot > cur.slot
                    \/ cur'.slot = cur.slot /\ cur'.sub >= cur.sub
              \/ /\ cur = None /\ cur'.owner \in snapshot /\ cur'.owner \notin snapshot'
                 /\ cur'.slot = 0
<1>1. cur # None => cur.slot \in Nat /\ cur.sub \in Nat
  BY DEF TypeOK, Iterations
<1>2. CASE UNCHANGED <<cur, snapshot>>
  BY <1>1, <1>2
<1>3. ASSUME NEW event \in Events, _enqueue_changefeed_event(event)
      PROVE  UNCHANGED <<cur, snapshot>>
  BY <1>3 DEF _enqueue_changefeed_event, drainVars
<1>4. ASSUME NEW c \in Conns, Network(c) \/ Handler(c)
      PROVE  UNCHANGED <<cur, snapshot>>
  BY <1>4, LoopFrame
<1>5. CASE EndBroadcast \/ Resume
  BY <1>2, <1>5 DEF EndBroadcast, Resume
<1>6. CASE \E c \in Conns : NextWs(c)
  BY <1>6 DEF NextWs
<1>7. CASE SkipSub \/ (SendSub /\ cur' # cur)
  <2>1. /\ cur # None /\ ~SessionDone /\ snapshot' = snapshot
        /\ cur' = [cur EXCEPT !.sub = @ + 1]
    BY <1>7 DEF SkipSub, SendSub
  <2>2. cur \in Iterations /\ SameBinding(cur', cur)
    BY <2>1, InSession
  <2>3. cur'.sub = cur.sub + 1
    BY <2>1, <2>2 DEF Iterations
  <2>4. QED
    BY <1>1, <2>1, <2>2, <2>3 DEF SameBinding
<1>8. CASE SendSub /\ cur' = cur
  BY <1>2, <1>8 DEF SendSub
<1>9. CASE NextTopic
  <2>1. snapshot' = snapshot /\ cur # None
    BY <1>9 DEF NextTopic
  <2>2. CASE cur' # cur /\ cur' # None
    BY <1>9, <2>1, <2>2, NextTopicBinds DEF Ahead
  <2>3. CASE cur' = cur \/ cur' = None
    BY <1>2, <2>1, <2>3
  <2>4. QED
    BY <2>2, <2>3
<1>10. QED
  BY <1>2, <1>3, <1>4, <1>5, <1>6, <1>7, <1>8, <1>9 DEF Next, Drain, vars, drainVars

LEMMA PacedStep ==
  ASSUME TypeOK, IdsFiled, DrainControl, OneSlot, Paced, [Next]_vars
  PROVE  Paced'
<1>1. taken \in Nat /\ taken <= taken'
  BY CountersStep
<1>2. ASSUME NEW c \in Conns, NEW i \in Of(c, "changes")'
      PROVE  sent'[c][i].ev <= taken'
  <2>1. CASE i \in Of(c, "changes") /\ sent'[c][i] = sent[c][i]
    <3>1. sent[c][i].ev <= taken /\ sent[c][i].ev \in Nat
      BY <2>1, LogType DEF Paced
    <3>2. QED
      BY <1>1, <2>1, <3>1, CountersStep
  <2>2. CASE i \notin Of(c, "changes")
    BY <1>1, <1>2, <2>2, ChangesStep
  <2>3. QED
    BY <1>2, <2>1, <2>2, OldOrNew
<1>3. ASSUME cur' # None
      PROVE  cur'.owner \notin snapshot'
  <2>1. ~Take
    BY <1>3 DEF Take, DrainControl
  <2>2. QED
    BY <1>3, <2>1, Onward DEF Paced
<1>4. QED
  BY <1>2, <1>3 DEF Paced

\* What the broadcast is past, it stays past until the next event is taken.
LEMMA PastStep ==
  ASSUME TypeOK, IdsFiled, DrainControl, OneSlot, Paced, [Next]_vars, ~Take,
         NEW m, m.join <= joins, m.join \in Nat, m.sub \in Nat, Past(m)
  PROVE  Past(m)'
<1>1. ASSUME NEW d \in Conns, NEW k \in DOMAIN topics'[d],
             topics'[d][k].session.join = m.join
      PROVE  /\ k \in Nat
             /\ \E l \in DOMAIN topics[d] : k <= l /\ topics[d][l].session.join = m.join
  <2>1. CASE NoJoin
    <3>1. k \in DOMAIN topics[d] /\ topics[d][k].session.join = m.join
      BY <1>1, <2>1 DEF NoJoin
    <3>2. k \in Nat
      BY <3>1, SlotType
    <3>3. QED
      BY <3>1, <3>2
  <2>2. ASSUME NEW c \in Conns, NEW t \in Topics, NEW p \in Nat, NEW n \in Sessions,
               NEW g, Joins(c, t, p, n, g)
        PROVE  /\ k \in Nat
               /\ \E l \in DOMAIN topics[d] : k <= l /\ topics[d][l].session.join = m.join
    <3>1. topics'[c][p].session.join # m.join
      BY <2>2, CountersStep DEF Joins, Assigned
    <3>2. QED
      BY <1>1, <2>2, <3>1, JoinsFrom
  <2>3. QED
    BY <2>1, <2>2, StepJoins
<1>2. snapshot \subseteq Conns /\ (cur # None => cur.owner \in Conns)
  BY DEF TypeOK, Iterations
<1>3. \A d \in snapshot' : \A k \in DOMAIN topics'[d] : topics'[d][k].session.join # m.join
  BY <1>1, <1>2, Onward DEF Past
<1>4. cur' # None => cur'.slot \in Nat /\ cur'.sub \in Nat
  <2>1. cur' \in Iterations \cup {None}
    BY TypeStep DEF TypeOK
  <2>2. QED
    BY <2>1 DEF Iterations
<1>5. ASSUME cur' # None, NEW k \in DOMAIN topics'[cur'.owner], k > cur'.slot
      PROVE  topics'[cur'.owner][k].session.join # m.join
  <2>1. CASE cur = None /\ cur'.owner \in snapshot
    BY <1>1, <1>2, <1>5, <2>1 DEF Past
  <2>2. CASE cur # None /\ cur'.owner = cur.owner /\ cur'.slot >= cur.slot
    <3>1. SUFFICES ASSUME topics'[cur.owner][k].session.join = m.join PROVE FALSE
      BY <2>2
    <3>2. PICK l \in DOMAIN topics[cur.owner] :
            k \in Nat /\ k <= l /\ topics[cur.owner][l].session.join = m.join
      BY <1>1, <1>2, <1>5, <2>2, <3>1
    <3>3. l \in Nat /\ cur.slot \in Nat
      BY <1>2, <2>2, <3>2, SlotType DEF TypeOK, Iterations
    <3>4. l > cur.slot
      BY <1>5, <1>4, <2>2, <3>2, <3>3
    <3>5. QED
      BY <2>2, <3>2, <3>4 DEF Past
  <2>3. cur # None => cur.slot \in Nat
    BY DEF TypeOK, Iterations
  <2>4. QED
    BY <1>5, <1>4, <2>1, <2>2, <2>3, Onward
<1>6. ASSUME Bound', cur'.session.join = m.join
      PROVE  m.sub < cur'.sub
  <2>1. CASE Bound /\ SameBinding(cur', cur)
    <3>1. m.sub < cur.sub /\ cur.sub \in Nat
      BY <1>6, <2>1, BoundType DEF Past, SameBinding
    <3>2. cur'.sub >= cur.sub /\ cur'.sub \in Nat
      <4>1. cur'.sub \in Nat
        BY <1>6, <1>4 DEF Bound
      <4>2. cur'.slot = cur.slot /\ cur.slot \in Nat
        BY <2>1, BoundType DEF SameBinding
      <4>3. QED
        BY <1>6, <2>1, <4>1, <4>2, Onward DEF Bound
    <3>3. QED
      BY <3>1, <3>2
  <2>2. ASSUME cur # None, NEW k \in Ahead, cur'.session = topics[cur.owner][k].session
        PROVE  FALSE
    BY <1>6, <2>2 DEF Past, Ahead, Live
  <2>3. QED
    BY <1>6, <2>1, <2>2, BoundStep
<1>7. QED
  BY <1>3, <1>5, <1>6 DEF Past

LEMMA BroadcastOrderStep ==
  ASSUME TypeOK, IdsFiled, DrainControl, OneSlot, Numbered, OnePlace, Paced,
         BroadcastOrder, [Next]_vars
  PROVE  BroadcastOrder'
<1> SUFFICES ASSUME drain' # "get", NEW c \in Conns, NEW i \in Of(c, "changes")',
                    NEW m, m = sent'[c][i], m.ev = taken'
             PROVE  Past(m)'
  BY DEF BroadcastOrder, Past
<1>1. CASE i \in Of(c, "changes") /\ sent'[c][i] = sent[c][i]
  <2>1. m.ev <= taken /\ m.ev \in Nat /\ m.join <= joins /\ m.join \in Nat /\ m.sub \in Nat
    BY <1>1, LogType DEF Paced, Numbered
  <2>2. ~Take
    BY <2>1, CountersStep DEF Take
  <2>3. taken' = taken
    BY <2>2, CountersStep
  <2>4. drain # "get"
    <3>1. ASSUME NEW d \in Conns, Network(d) \/ Handler(d)
          PROVE  drain' = drain
      BY <3>1, LoopFrame
    <3>2. ASSUME NEW event \in Events, _enqueue_changefeed_event(event)
          PROVE  drain' = drain
      BY <3>2 DEF _enqueue_changefeed_event, drainVars
    <3>3. CASE Drain
      BY <2>2, <3>3 DEF Drain, NextWs, EndBroadcast, NextTopic, SkipSub, SendSub, Resume
    <3>4. QED
      BY <3>1, <3>2, <3>3 DEF Next, vars, drainVars
  <2>5. Past(m)
    BY <1>1, <2>3, <2>4 DEF BroadcastOrder
  <2>6. Past(m)'
    BY <2>1, <2>2, <2>5, PastStep
  <2>7. QED
    BY <2>6
<1>2. CASE i \notin Of(c, "changes")
  <2>1. /\ SendSub /\ Bound /\ net[cur.ws] = "open"
        /\ m.join = cur.session.join /\ m.sub = cur.sub
    BY <1>2, ChangesStep
  <2>2. /\ cur' = [cur EXCEPT !.sub = @ + 1] /\ UNCHANGED <<topics, snapshot>>
        /\ cur # None /\ ~SessionDone
    BY <2>1 DEF SendSub, joinVars
  <2>3. SameBinding(cur', cur) /\ cur'.sub = cur.sub + 1 /\ cur.sub \in Nat
    BY <2>2, InSession DEF Iterations
  <2>4. snapshot \subseteq Conns /\ cur.owner \in Conns /\ cur.owner \notin snapshot
    BY <2>1, <2>2, BoundType DEF TypeOK, Paced
  <2>5. ASSUME NEW d \in snapshot, NEW k \in DOMAIN topics[d]
        PROVE  topics[d][k].session.join # m.join
    BY <2>1, <2>4, <2>5 DEF OnePlace
  <2>6. ASSUME NEW k \in DOMAIN topics[cur.owner], k > cur.slot
        PROVE  topics[cur.owner][k].session.join # m.join
    <3>1. ~(k <= cur.slot)
      BY <2>1, <2>4, <2>6, SlotType, BoundType
    <3>2. QED
      BY <2>1, <2>4, <3>1 DEF OnePlace
  <2>7. m.sub < cur'.sub
    BY <2>1, <2>3
  <2>8. Past(m)'
    BY <2>2, <2>3, <2>5, <2>6, <2>7 DEF Past, SameBinding
  <2>9. QED
    BY <2>8
<1>3. QED
  BY <1>1, <1>2, OldOrNew

LEMMA FeedOrderStep ==
  ASSUME TypeOK, IdsFiled, DrainControl, Paced, BroadcastOrder, FeedOrder, [Next]_vars
  PROVE  FeedOrder'
<1> SUFFICES ASSUME NEW c \in Conns, NEW i \in Of(c, "changes")',
                    NEW j \in Of(c, "changes")', i < j
             PROVE  /\ sent'[c][i].ev <= sent'[c][j].ev
                    /\ sent'[c][i].join = sent'[c][j].join /\ sent'[c][i].sub = sent'[c][j].sub
                         => sent'[c][i].ev < sent'[c][j].ev
  BY DEF FeedOrder
<1>1. CASE i \in Of(c, "changes") /\ j \in Of(c, "changes")
  BY <1>1, OldOrNew DEF FeedOrder
<1>2. CASE i \notin Of(c, "changes") /\ j \notin Of(c, "changes")
  <2>1. i = j /\ j \in Int
    <3>1. sent[c] \in Seq(Message)
      BY DEF TypeOK
    <3>2. i = Len(sent[c]) + 1 /\ j = Len(sent[c]) + 1 /\ Len(sent[c]) \in Nat
      BY <1>2, <3>1, ChangesStep
    <3>3. QED
      BY <3>2
  <2>2. QED
    BY <2>1
<1>3. CASE i \notin Of(c, "changes") /\ j \in Of(c, "changes")
  <2>1. j < i
    BY <1>3, OldOrNew, NewIsLast DEF Of
  <2>2. i \in Int /\ j \in Int
    <3>1. sent'[c] \in Seq(Message)
      BY TypeStep DEF TypeOK
    <3>2. DOMAIN sent'[c] \subseteq Int
      BY <3>1
    <3>3. QED
      BY <3>2 DEF Of
  <2>3. QED
    BY <2>1, <2>2
<1>4. CASE i \in Of(c, "changes") /\ j \notin Of(c, "changes")
  <2>1. /\ SendSub /\ Bound /\ sent'[c][j].ev = taken
        /\ sent'[c][j].join = cur.session.join /\ sent'[c][j].sub = cur.sub
    BY <1>4, ChangesStep
  <2>2. sent'[c][i] = sent[c][i]
    BY <1>4, OldOrNew
  <2>3. sent[c][i].ev <= taken /\ sent[c][i].ev \in Nat /\ taken \in Nat
    <3>1. taken \in Nat
      BY DEF TypeOK
    <3>2. QED
      BY <1>4, <3>1, LogType DEF Paced
  <2>4. ASSUME sent[c][i].ev = taken, sent[c][i].join = cur.session.join,
               sent[c][i].sub = cur.sub
        PROVE  FALSE
    <3>1. sent[c][i].sub < cur.sub /\ cur.sub \in Nat
      BY <1>4, <2>1, <2>4, BoundType DEF BroadcastOrder, Past, SendSub
    <3>2. QED
      BY <2>4, <3>1
  <2>5. QED
    BY <2>1, <2>2, <2>3, <2>4
<1>5. QED
  BY <1>1, <1>2, <1>3, <1>4

-----------------------------------------------------------------------------
\* A session that is in hand while an event is taken is in no hand.
LEMMA TakeUnbound ==
  ASSUME DrainControl, Take
  PROVE  ~Bound /\ ~Bound'
BY DEF DrainControl, Take, Bound

LEMMA LeftInvStep ==
  ASSUME TypeOK, IdsFiled, DrainControl, OneSlot, Numbered, OnePlace, Left, [Next]_vars
  PROVE  Left'
<1> SUFFICES ASSUME NEW c \in Conns, NEW i \in Of(c, "left")',
                    NEW m, m = sent'[c][i]
             PROVE  /\ \A d \in Conns : \A k \in Live(d)' :
                         topics'[d][k].session.join # m.join
                    /\ Bound' /\ cur'.session.join = m.join => m.ev = taken'
  BY DEF Left
<1>1. CASE i \in Of(c, "left") /\ m = sent[c][i]
  <2>1. m.join \in Nat /\ m.join <= joins
    BY <1>1, LogType DEF Numbered
  <2>2. ASSUME NEW d \in Conns, NEW k \in Live(d)', topics'[d][k].session.join = m.join
        PROVE  FALSE
    <3>1. k \in DOMAIN topics'[d] /\ topics'[d][k].live
      BY DEF Live
    <3>2. CASE NoJoin
      <4>1. k \in Live(d) /\ topics'[d][k].session = topics[d][k].session
        BY <3>1, <3>2 DEF NoJoin, Live
      <4>2. QED
        BY <1>1, <2>2, <4>1 DEF Left
    <3>3. ASSUME NEW e \in Conns, NEW t \in Topics, NEW p \in Nat, NEW n \in Sessions,
                 NEW g, Joins(e, t, p, n, g)
          PROVE  FALSE
      <4>1. topics'[e][p].session.join # m.join
        BY <2>1, <3>3, CountersStep DEF Joins, Assigned
      <4>2. \E l \in DOMAIN topics[d] : topics'[d][k] = topics[d][l]
        BY <2>2, <3>1, <3>3, <4>1, JoinsFrom
      <4>3. QED
        BY <1>1, <2>2, <3>1, <4>2 DEF Left, Live
    <3>4. QED
      BY <3>2, <3>3, StepJoins
  <2>3. ASSUME Bound', cur'.session.join = m.join
        PROVE  m.ev = taken'
    <3>1. taken' = taken
      BY <2>3, TakeUnbound, CountersStep
    <3>2. CASE Bound /\ SameBinding(cur', cur)
      BY <1>1, <2>3, <3>1, <3>2 DEF Left, SameBinding
    <3>3. ASSUME cur # None, NEW k \in Ahead, cur'.session = topics[cur.owner][k].session
          PROVE  FALSE
      <4>1. cur.owner \in Conns
        BY <3>3 DEF TypeOK, Iterations
      <4>2. QED
        BY <1>1, <2>3, <3>3, <4>1 DEF Left, Ahead
    <3>4. QED
      BY <2>3, <3>2, <3>3, BoundStep
  <2>4. QED
    BY <2>2, <2>3
<1>2. CASE i \notin Of(c, "left")
  <2>1. /\ UNCHANGED <<taken, cur>> /\ NoJoin
        /\ \E k \in Live(c) :
             m.join = topics[c][k].session.join /\ m.ev = taken /\ k \notin Live(c)'
    BY <1>2, LeftStep
  <2>2. PICK k \in Live(c) :
          m.join = topics[c][k].session.join /\ m.ev = taken /\ k \notin Live(c)'
    BY <2>1
  <2>3. ASSUME NEW d \in Conns, NEW l \in Live(d)', topics'[d][l].session.join = m.join
        PROVE  FALSE
    <3>1. l \in DOMAIN topics[d] /\ topics'[d][l].session = topics[d][l].session
      BY <2>1, <2>3 DEF NoJoin, Live
    <3>2. d = c /\ l = k
      BY <2>2, <2>3, <3>1 DEF OnePlace, Live
    <3>3. QED
      BY <2>2, <2>3, <3>2
  <2>4. QED
    BY <2>1, <2>2, <2>3
<1>3. QED
  BY <1>1, <1>2, OldOrNew

LEMMA LeaveIsPromptStep ==
  ASSUME TypeOK, IdsFiled, DrainControl, OneSlot, Left, LeaveIsPrompt, [Next]_vars
  PROVE  LeaveIsPrompt'
<1> SUFFICES ASSUME NEW c \in Conns, NEW i \in Of(c, "left")',
                    NEW j \in Of(c, "changes")', i < j,
                    sent'[c][i].join = sent'[c][j].join
             PROVE  sent'[c][j].ev = sent'[c][i].ev
  BY DEF LeaveIsPrompt
<1>1. CASE i \in Of(c, "left") /\ j \in Of(c, "changes")
  BY <1>1, OldOrNew DEF LeaveIsPrompt
<1>2. CASE i \notin Of(c, "left") /\ j \in Of(c, "changes")
  <2>1. j < i
    BY <1>2, OldOrNew, NewIsLast DEF Of
  <2>2. sent'[c] \in Seq(Message)
    BY TypeStep DEF TypeOK
  <2>3. DOMAIN sent'[c] \subseteq Int
    BY <2>2
  <2>4. i \in Int /\ j \in Int
    BY <2>3 DEF Of
  <2>5. QED
    BY <2>1, <2>4
<1>3. CASE j \notin Of(c, "changes")
  <2>1. /\ SendSub /\ Bound /\ net[cur.ws] = "open" /\ sent'[c][j].ev = taken
        /\ sent'[c][j].join = cur.session.join
    BY <1>3, ChangesStep
  <2>2. drain' # drain
    BY <2>1 DEF SendSub
  <2>3. i \in Of(c, "left")
    BY <2>2, LeftStep
  <2>4. QED
    BY <2>1, <2>3, OldOrNew DEF Left
<1>4. QED
  BY <1>1, <1>2, <1>3

-----------------------------------------------------------------------------
\* The queue only grows at its end: an event taken stays what it was.
LEMMA FeedGrows ==
  ASSUME TypeOK, [Next]_vars
  PROVE  \A ev \in 1..taken : feed'[ev] = feed[ev]
<1>1. CASE UNCHANGED feed
  BY <1>1
<1>2. ASSUME NEW event \in Events, _enqueue_changefeed_event(event)
      PROVE  \A ev \in 1..taken : feed'[ev] = feed[ev]
  <2>1. feed \in Seq(Events) /\ taken \in Nat /\ taken <= Len(feed)
    BY DEF TypeOK
  <2>2. feed' = Append(feed, event)
    BY <1>2 DEF _enqueue_changefeed_event
  <2>3. QED
    BY <2>1, <2>2, AppendProperties
<1>3. ASSUME NEW c \in Conns, Network(c) \/ Handler(c)
      PROVE  UNCHANGED feed
  BY <1>3, LoopFrame
<1>4. CASE Drain
  BY <1>4 DEF Drain, Take, NextWs, EndBroadcast, NextTopic, SkipSub, SendSub, Resume,
              feedVars
<1>5. QED
  BY <1>1, <1>2, <1>3, <1>4 DEF Next, vars, feedVars

LEMMA RowsAllowedStep ==
  ASSUME TypeOK, IdsFiled, DrainControl, OneSlot, Numbered, Paced, RowsAllowed, [Next]_vars
  PROVE  RowsAllowed'
<1> SUFFICES ASSUME NEW c \in Conns, NEW i \in Of(c, "changes")', NEW s \in Sessions,
                    Made(s)', s.join = sent'[c][i].join
             PROVE  rls_allows_row(s.claims, feed'[sent'[c][i].ev].record)
  BY DEF RowsAllowed, rls_allows_row
<1>1. CASE i \in Of(c, "changes") /\ sent'[c][i] = sent[c][i]
  <2>1. /\ sent[c][i].join \in Nat /\ sent[c][i].join <= joins
        /\ sent[c][i].ev \in Nat /\ sent[c][i].ev # 0 /\ sent[c][i].ev <= taken
    BY <1>1, LogType DEF Numbered, Paced
  <2>2. sent[c][i].ev \in 1..taken
    BY <2>1, CountersStep
  <2>3. feed'[sent[c][i].ev] = feed[sent[c][i].ev]
    BY <2>2, FeedGrows
  <2>4. Made(s)
    <3>1. ASSUME NEW d \in Conns, NEW t \in Topics, NEW p \in Nat, NEW n \in Sessions,
                 NEW g, Joins(d, t, p, n, g)
          PROVE  s # n
      BY <1>1, <2>1, <3>1, CountersStep DEF Joins
    <3>2. QED
      BY <3>1, MadeStep, StepJoins
  <2>5. QED
    BY <1>1, <2>3, <2>4 DEF RowsAllowed
<1>2. CASE i \notin Of(c, "changes")
  <2>1. /\ SendSub /\ Bound /\ sent'[c][i].ev = taken
        /\ sent'[c][i].join = cur.session.join /\ net[cur.ws] = "open"
    BY <1>2, ChangesStep
  <2>2. /\ drain' # drain /\ feed' = feed
        /\ Delivers(cur.session, cur.sub, feed[taken])
    BY <2>1 DEF SendSub, feedVars
  <2>3. Made(s)
    BY <2>2, MadeStep, StepJoins DEF Joins
  <2>4. s = cur.session
    BY <2>1, <2>3, BoundType DEF Numbered, Made
  <2>5. QED
    BY <2>1, <2>2, <2>4 DEF Delivers
<1>3. QED
  BY <1>1, <1>2, OldOrNew

\* The rows sent are those the claims of the join that was answered may see.
LEMMA RowsOfTheTenant ==
  ASSUME TypeOK, RowsAllowed
  PROVE  TenantIsolation
<1> SUFFICES ASSUME NEW c \in Conns, NEW claims \in ClaimSet, NEW row \in Rows,
                    RowSent(c, claims, row), claims.role = "authenticated"
             PROVE  /\ claims.publisher_id # None
                    /\ row.publisher_id \in {None, claims.publisher_id}
  BY DEF TenantIsolation
<1>1. PICK i \in Of(c, "changes"), k \in Of(c, "ok") :
        /\ sent[c][k].session.join = sent[c][i].join
        /\ claims = sent[c][k].session.claims
        /\ row = feed[sent[c][i].ev].record
  BY DEF RowSent
<1>2. sent[c][k].session \in Sessions /\ Made(sent[c][k].session)
  BY LogType DEF Made
<1>3. rls_allows_row(claims, row)
  BY <1>1, <1>2 DEF RowsAllowed
<1>4. QED
  BY <1>3 DEF rls_allows_row

-----------------------------------------------------------------------------
\* An id is given to nobody else before its connection is unwound.
LEMMA OneHolderStep ==
  ASSUME TypeOK, IdsFiled, OneHolder, [Next]_vars
  PROVE  OneHolder'
<1>1. ASSUME UNCHANGED idOf,
             \A c \in Conns : net'[c] \in {"open", "closed"} => net[c] \in {"open", "closed"}
      PROVE  OneHolder'
  BY <1>1 DEF OneHolder
<1>2. ASSUME NEW event \in Events, _enqueue_changefeed_event(event)
      PROVE  OneHolder'
  BY <1>1, <1>2, DrainFrame
<1>3. CASE Drain
  BY <1>1, <1>3, DrainFrame
<1>4. ASSUME NEW c \in Conns, NEW i \in Ids, NEW token \in Tokens, Connect(c, i, token)
      PROVE  OneHolder'
  <2>1. /\ \E state : net' = [net EXCEPT ![c] = state]
        /\ idOf' = [idOf EXCEPT ![c] = i] /\ i \in FreeIds
    BY <1>4 DEF Connect
  <2>2. \A d \in Conns : net[d] \in {"open", "closed"} => idOf[d] # i
    BY <2>1 DEF FreeIds, Referenced
  <2>3. /\ idOf'[c] = i
        /\ \A d \in Conns : d # c => idOf'[d] = idOf[d] /\ net'[d] = net[d]
    BY <2>1 DEF TypeOK
  <2>4. QED
    BY <2>2, <2>3 DEF OneHolder
<1>5. ASSUME NEW c \in Conns, Close(c) \/ Ends(c)
      PROVE  OneHolder'
  <2>1. UNCHANGED idOf
    BY <1>5, EndsForgets DEF Close, Forget
  <2>2. \A d \in Conns : net'[d] \in {"open", "closed"} => net[d] \in {"open", "closed"}
    BY <1>5, EndsForgets DEF Close, Forget, TypeOK
  <2>3. QED
    BY <1>1, <2>1, <2>2
<1>6. ASSUME NEW c \in Conns, Handler(c), ~Ends(c)
      PROVE  OneHolder'
  BY <1>1, <1>6 DEF Handler, Ends, _handle_join, HandleLeave, SendSystem, connVars
<1>7. CASE UNCHANGED vars
  BY <1>1, <1>7 DEF vars, connVars
<1>8. QED
  BY <1>2, <1>3, <1>4, <1>5, <1>6, <1>7 DEF Next, Network

\* A broadcast looks the connection of a dict up by an id that is still its own.
LEMMA OwnerServedStep ==
  ASSUME TypeOK, DrainControl, IdsFiled, Filed, OwnerServed, [Next]_vars
  PROVE  OwnerServed'
<1>1. ASSUME UNCHANGED cur, cur # None => (net'[cur.owner] = "open" => net[cur.owner] = "open")
      PROVE  OwnerServed'
  BY <1>1 DEF OwnerServed
<1>2. CASE Drain
  <2>1. UNCHANGED net
    BY <1>2, DrainFrame
  <2>2. ASSUME cur' # None, cur = None, net[cur'.owner] = "open"
        PROVE  cur'.ws = cur'.owner
    <3>1. cur'.owner \in Conns /\ cur'.ws = activeWs[idOf[cur'.owner]]
      BY <1>2, <2>2, TypeStep, DrainIterates DEF TypeOK, Iterations
    <3>2. QED
      BY <2>2, <3>1 DEF Filed
  <2>3. ASSUME cur' # None, cur # None, net[cur'.owner] = "open"
        PROVE  cur'.ws = cur'.owner
    BY <1>2, <2>3, DrainIterates DEF OwnerServed
  <2>4. QED
    BY <2>1, <2>2, <2>3 DEF OwnerServed
<1>3. ASSUME NEW event \in Events, _enqueue_changefeed_event(event)
      PROVE  OwnerServed'
  BY <1>1, <1>3 DEF _enqueue_changefeed_event, drainVars, connVars
<1>4. ASSUME NEW c \in Conns, Network(c) \/ Handler(c)
      PROVE  OwnerServed'
  <2>1. UNCHANGED cur
    BY <1>4, LoopFrame
  <2>2. ASSUME cur # None, net'[cur.owner] = "open"
        PROVE  net[cur.owner] = "open"
    <3>1. cur.owner \in Conns /\ net[cur.owner] # "absent"
      BY <2>2 DEF TypeOK, Iterations, IdsFiled
    <3>2. QED
      BY <1>4, <2>2, <3>1, EndsForgets
         DEF Network, Connect, Close, Handler, _handle_join, HandleLeave, SendSystem,
             Ends, Forget, connVars, TypeOK
  <2>3. QED
    BY <1>1, <2>1, <2>2
<1>5. CASE UNCHANGED vars
  BY <1>1, <1>5 DEF vars, drainVars, connVars
<1>6. QED
  BY <1>2, <1>3, <1>4, <1>5 DEF Next

\* An open connection keeps its place under its id: no other has the id.
LEMMA FiledStep ==
  ASSUME TypeOK, DrainControl, IdsFiled, OneHolder, Filed, [Next]_vars
  PROVE  Filed'
<1>1. ASSUME UNCHANGED <<idOf, activeWs, wsIndex, topics>>,
             \A c \in Conns : net'[c] = "open" => net[c] = "open"
      PROVE  Filed'
  BY <1>1 DEF Filed
<1>2. ASSUME NEW event \in Events, _enqueue_changefeed_event(event)
      PROVE  Filed'
  BY <1>1, <1>2, DrainFrame
<1>3. CASE Drain
  BY <1>1, <1>3, DrainFrame
<1>4. ASSUME NEW c \in Conns, NEW i \in Ids, NEW token \in Tokens, Connect(c, i, token)
      PROVE  Filed'
  <2>1. /\ net[c] = "absent" /\ i \in FreeIds
        /\ \E state : net' = [net EXCEPT ![c] = state]
        /\ idOf' = [idOf EXCEPT ![c] = i]
        /\ activeWs' = [activeWs EXCEPT ![i] = c]
        /\ UNCHANGED <<wsIndex, topics>>
    BY <1>4 DEF Connect, joinVars
  <2>2. \A d \in Conns : net[d] = "open" => idOf[d] # i
    BY <2>1 DEF FreeIds, Referenced
  <2>3. topics[c] = <<>>
    BY <2>1 DEF IdsFiled
  <2>4. ASSUME NEW d \in Conns, net'[d] = "open"
        PROVE  activeWs'[idOf'[d]] = d /\ (topics'[d] # <<>> => wsIndex'[idOf'[d]] = d)
    <3>1. CASE d = c
      BY <2>1, <2>3, <3>1 DEF TypeOK
    <3>2. CASE d # c
      BY <2>1, <2>2, <2>4, <3>2 DEF TypeOK, Filed
    <3>3. QED
      BY <3>1, <3>2
  <2>5. QED
    BY <2>4 DEF Filed
<1>5. ASSUME NEW c \in Conns, Close(c)
      PROVE  Filed'
  BY <1>1, <1>5 DEF Close, TypeOK, joinVars
<1>6. ASSUME NEW c \in Conns, Ends(c)
      PROVE  Filed'
  <2>1. /\ net[c] \in {"open", "closed"} /\ net' = [net EXCEPT ![c] = "gone"]
        /\ activeWs' = [activeWs EXCEPT ![idOf[c]] = None]
        /\ wsIndex' = [wsIndex EXCEPT ![idOf[c]] = None]
        /\ UNCHANGED <<idOf, topics>>
    BY <1>6, EndsForgets DEF Forget
  <2>2. ASSUME NEW d \in Conns, net'[d] = "open"
        PROVE  d # c /\ net[d] = "open" /\ idOf[d] # idOf[c]
    <3>1. d # c /\ net[d] = "open"
      BY <2>1, <2>2 DEF TypeOK
    <3>2. QED
      BY <2>1, <3>1 DEF OneHolder
  <2>3. QED
    BY <2>1, <2>2 DEF TypeOK, Filed
<1>7. ASSUME NEW c \in Conns, NEW t \in Topics, NEW token \in Tokens,
             NEW config \in Configs, _handle_join(c, t, token, config)
      PROVE  Filed'
  <2>1. /\ UNCHANGED <<net, idOf, activeWs>>
        /\ net[c] \in {"open", "closed"}
        /\ \/ UNCHANGED <<wsIndex, topics>>
           \/ /\ wsIndex' = [wsIndex EXCEPT ![idOf[c]] = c]
              /\ \E table : topics' = [topics EXCEPT ![c] = table]
    BY <1>7 DEF _handle_join, Handling, connVars
  <2>2. CASE UNCHANGED <<wsIndex, topics>>
    BY <1>1, <2>1, <2>2
  <2>3. CASE /\ wsIndex' = [wsIndex EXCEPT ![idOf[c]] = c]
             /\ \E table : topics' = [topics EXCEPT ![c] = table]
    <3>1. idOf[c] \in Ids
      BY <2>1 DEF IdsFiled
    <3>2. \A d \in Conns : d # c /\ net[d] = "open" => idOf[d] # idOf[c]
      BY <2>1 DEF OneHolder
    <3>3. QED
      BY <2>1, <2>3, <3>1, <3>2 DEF TypeOK, Filed
  <2>4. QED
    BY <2>1, <2>2, <2>3
<1>8. ASSUME NEW c \in Conns, NEW t \in Topics, HandleLeave(c, t)
      PROVE  Filed'
  <2>1. UNCHANGED <<net, idOf, activeWs, wsIndex>>
    BY <1>8 DEF HandleLeave, connVars
  <2>2. PICK k \in Slots(c, t) : topics' = [topics EXCEPT ![c][k].live = FALSE]
    BY <1>8 DEF HandleLeave
  <2>3. topics[c] # <<>>
    BY DEF Slots, Live
  <2>4. QED
    BY <2>1, <2>2, <2>3 DEF TypeOK, Filed
<1>9. ASSUME NEW c \in Conns, SendSystem(c)
      PROVE  Filed'
  BY <1>1, <1>9 DEF SendSystem, connVars
<1>10. CASE UNCHANGED vars
  BY <1>1, <1>10 DEF vars, connVars, joinVars
<1>11. QED
  BY <1>2, <1>3, <1>4, <1>5, <1>6, <1>7, <1>8, <1>9, <1>10 DEF Next, Network, Handler, Ends

-----------------------------------------------------------------------------
\* A connection that is still to come has been sent nothing, and what is filed
\* in the index has a handler.
Alive ==
  /\ \A c \in Conns : net[c] = "absent" => sent[c] = <<>>
  /\ \A i \in Ids : wsIndex[i] # None => net[wsIndex[i]] \in {"open", "closed"}

\* A dict under iteration is sent to a connection of the id of its owner.
SameId == cur # None => idOf[cur.ws] = idOf[cur.owner]

\* A connection that has the id of another one under broadcast connected after
\* the event was taken: it has been sent nothing of an earlier one.
Late ==
  \A c, d \in Conns :
    /\ net[c] \in {"open", "closed"} /\ c # d /\ idOf[c] = idOf[d]
    /\ d \in snapshot \/ (cur # None /\ cur.owner = d)
    => \A i \in Of(c, "changes") : sent[c][i].ev = taken

\* A message to a connection is handed over while it is open.
LEMMA SentToOpen ==
  ASSUME TypeOK, [Next]_vars, NEW c \in Conns, net[c] # "open"
  PROVE  sent'[c] = sent[c]
<1>1. CASE UNCHANGED sent
  BY <1>1
<1>2. ASSUME NEW d \in Conns, NEW m, NEW next, Reply(d, m, next)
      PROVE  sent'[c] = sent[c]
  BY <1>2 DEF Reply, Transmit, TypeOK
<1>3. ASSUME NEW d \in Conns, Network(d) \/ Ends(d)
      PROVE  UNCHANGED sent
  BY <1>3, EndsForgets DEF Network, Connect, Close, Forget
<1>4. ASSUME NEW d \in Conns, Handler(d), ~Ends(d)
      PROVE  sent'[c] = sent[c]
  BY <1>1, <1>2, <1>4 DEF Handler, Ends, _handle_join, HandleLeave, SendSystem
<1>5. CASE SendSub
  BY <1>5 DEF SendSub, Transmit, TypeOK
<1>6. ASSUME Drain, ~SendSub
      PROVE  UNCHANGED sent
  BY <1>6 DEF Drain, Take, NextWs, EndBroadcast, NextTopic, SkipSub, Resume
<1>7. ASSUME NEW event \in Events, _enqueue_changefeed_event(event)
      PROVE  UNCHANGED sent
  BY <1>7 DEF _enqueue_changefeed_event
<1>8. QED
  BY <1>1, <1>3, <1>4, <1>5, <1>6, <1>7 DEF Next, vars

\* Who has a handler had one before, or connects; who has none gets none.
LEMMA NetStep ==
  ASSUME TypeOK, [Next]_vars, NEW c \in Conns
  PROVE  /\ net[c] # "absent" => net'[c] # "absent" /\ idOf'[c] = idOf[c]
         /\ net[c] = "gone" => net'[c] = "gone"
         /\ net'[c] \in {"open", "closed"} => net[c] # "gone"
         /\ net[c] \in {"open", "closed"} /\ net'[c] \notin {"open", "closed"} => Ends(c)
         /\ net[c] = "absent" =>
              \/ UNCHANGED <<net, idOf>>
              \/ net'[c] = "absent" /\ idOf'[c] = idOf[c]
              \/ \E i \in FreeIds, token \in Tokens : Connect(c, i, token)
<1>1. CASE UNCHANGED <<net, idOf>>
  BY <1>1 DEF TypeOK
<1>2. ASSUME NEW d \in Conns, NEW i \in Ids, NEW token \in Tokens, Connect(d, i, token)
      PROVE  /\ net[d] = "absent" /\ i \in FreeIds
             /\ \A e \in Conns : e # d => net'[e] = net[e] /\ idOf'[e] = idOf[e]
  BY <1>2 DEF Connect, TypeOK
<1>3. ASSUME NEW d \in Conns, Close(d)
      PROVE  /\ net[d] = "open" /\ net'[d] = "closed" /\ UNCHANGED idOf
             /\ \A e \in Conns : e # d => net'[e] = net[e]
  BY <1>3 DEF Close, TypeOK
<1>4. ASSUME NEW d \in Conns, Ends(d)
      PROVE  /\ net[d] \in {"open", "closed"} /\ net'[d] = "gone" /\ UNCHANGED idOf
             /\ \A e \in Conns : e # d => net'[e] = net[e]
  BY <1>4, EndsForgets DEF Forget, TypeOK
<1>5. ASSUME NEW d \in Conns, Handler(d), ~Ends(d)
      PROVE  UNCHANGED <<net, idOf>>
  BY <1>5 DEF Handler, Ends, _handle_join, HandleLeave, SendSystem, connVars
<1>6. ASSUME \/ Drain
             \/ \E event \in Events : _enqueue_changefeed_event(event)
             \/ UNCHANGED vars
      PROVE  UNCHANGED <<net, idOf>>
  BY <1>6, DrainFrame DEF vars, connVars
<1>7. CASE \E d \in Conns, i \in Ids, token \in Tokens : Connect(d, i, token)
  <2>1. PICK d \in Conns, i \in Ids, token \in Tokens : Connect(d, i, token)
    BY <1>7
  <2>2. CASE c = d
    BY <1>2, <2>1, <2>2
  <2>3. CASE c # d
    BY <1>2, <2>1, <2>3
  <2>4. QED
    BY <2>2, <2>3
<1>8. CASE \E d \in Conns : Close(d)
  BY <1>3, <1>8
<1>9. CASE \E d \in Conns : Ends(d)
  BY <1>4, <1>9
<1>10. QED
  BY <1>1, <1>5, <1>6, <1>7, <1>8, <1>9 DEF Next, Network

LEMMA AliveStep ==
  ASSUME TypeOK, DrainControl, IdsFiled, Alive, [Next]_vars
  PROVE  Alive'
<1>1. ASSUME NEW c \in Conns, net'[c] = "absent"
      PROVE  sent'[c] = <<>>
  BY <1>1, NetStep, SentToOpen DEF Alive
<1>2. ASSUME NEW i \in Ids, wsIndex'[i] # None
      PROVE  net'[wsIndex'[i]] \in {"open", "closed"}
  <2>1. CASE wsIndex'[i] = wsIndex[i]
    <3>1. wsIndex[i] \in Conns /\ net[wsIndex[i]] \in {"open", "closed"} /\ idOf[wsIndex[i]] = i
      BY <1>2, <2>1 DEF Alive, TypeOK, IdsFiled
    <3>2. ~Ends(wsIndex[i])
      BY <1>2, <2>1, <3>1, EndsForgets DEF Forget, TypeOK
    <3>3. QED
      BY <2>1, <3>1, <3>2, NetStep
  <2>2. CASE wsIndex'[i] # wsIndex[i]
    <3>1. ASSUME NEW d \in Conns, NEW t \in Topics, NEW token \in Tokens,
                 NEW config \in Configs, _handle_join(d, t, token, config)
          PROVE  net'[wsIndex'[i]] \in {"open", "closed"}
      BY <2>2, <3>1 DEF _handle_join, Handling, connVars, TypeOK
    <3>2. ASSUME NEW d \in Conns, Ends(d)
          PROVE  FALSE
      BY <1>2, <2>2, <3>2, EndsForgets DEF Forget, TypeOK
    <3>3. ASSUME NEW d \in Conns, Network(d)
          PROVE  FALSE
      BY <2>2, <3>3 DEF Network, Connect, Close, joinVars
    <3>4. ASSUME NEW d \in Conns, NEW t \in Topics, HandleLeave(d, t)
          PROVE  FALSE
      BY <2>2, <3>4 DEF HandleLeave
    <3>5. ASSUME NEW d \in Conns, SendSystem(d)
          PROVE  FALSE
      BY <2>2, <3>5 DEF SendSystem
    <3>6. QED
      BY <2>2, <3>1, <3>2, <3>3, <3>4, <3>5, DrainFrame
         DEF Next, Handler, Ends, vars, joinVars
  <2>3. QED
    BY <2>1, <2>2
<1>3. QED
  BY <1>1, <1>2 DEF Alive

LEMMA SameIdStep ==
  ASSUME TypeOK, DrainControl, IdsFiled, SameId, [Next]_vars
  PROVE  SameId'
<1> SUFFICES ASSUME cur' # None PROVE idOf'[cur'.ws] = idOf'[cur'.owner]
  BY DEF SameId
<1>1. CASE UNCHANGED cur
  <2>1. cur.ws \in Conns /\ cur.owner \in Conns /\ net[cur.owner] # "absent"
    BY <1>1 DEF TypeOK, Iterations, IdsFiled
  <2>2. net[cur.ws] # "absent"
    BY <1>1, <2>1, RealtimeAssumption DEF SameId, IdsFiled
  <2>3. QED
    BY <1>1, <2>1, <2>2, NetStep DEF SameId
<1>2. CASE Drain
  <2>1. UNCHANGED idOf
    BY <1>2, DrainFrame
  <2>2. CASE cur # None
    BY <1>2, <2>1, <2>2, DrainIterates DEF SameId
  <2>3. CASE cur = None
    BY <1>2, <2>1, <2>3, DrainIterates DEF IdsFiled
  <2>4. QED
    BY <2>2, <2>3
<1>3. ASSUME NEW event \in Events, _enqueue_changefeed_event(event)
      PROVE  UNCHANGED cur
  BY <1>3 DEF _enqueue_changefeed_event, drainVars
<1>4. ASSUME NEW c \in Conns, Network(c) \/ Handler(c)
      PROVE  UNCHANGED cur
  BY <1>4, LoopFrame
<1>5. QED
  BY <1>1, <1>2, <1>3, <1>4 DEF Next, vars, drainVars

LEMMA LateStep ==
  ASSUME TypeOK, DrainControl, IdsFiled, OneSlot, OneHolder, Alive, Late, [Next]_vars
  PROVE  Late'
<1> SUFFICES ASSUME NEW c \in Conns, NEW d \in Conns,
                    net'[c] \in {"open", "closed"}, c # d, idOf'[c] = idOf'[d],
                    d \in snapshot' \/ (cur' # None /\ cur'.owner = d),
                    NEW i \in Of(c, "changes")'
             PROVE  sent'[c][i].ev = taken'
  BY DEF Late
<1>1. CASE Take
  <2>1. /\ cur' = None /\ UNCHANGED <<net, idOf>>
        /\ snapshot' = {wsIndex[j] : j \in Ids} \ {None}
    BY <1>1 DEF Take, DrainControl, connVars
  <2>2. net[d] \in {"open", "closed"}
    BY <2>1 DEF Alive
  <2>3. QED
    BY <2>1, <2>2 DEF OneHolder
<1>2. CASE ~Take
  <2>1. taken' = taken
    BY <1>2, CountersStep
  <2>2. d \in snapshot \/ (cur # None /\ cur.owner = d)
    BY <1>2, Onward
  <2>3. net[d] # "absent" /\ idOf'[d] = idOf[d]
    BY <2>2, NetStep DEF IdsFiled
  <2>4. i \in Of(c, "changes") => sent'[c][i] = sent[c][i]
    BY OldOrNew
  <2>5. CASE net[c] = "absent"
    <3>1. i \notin Of(c, "changes")
      BY <2>5 DEF Alive, Of
    <3>2. QED
      BY <2>1, <3>1, ChangesStep
  <2>6. CASE net[c] # "absent"
    <3>1. net[c] \in {"open", "closed"} /\ idOf'[c] = idOf[c]
      BY <2>6, NetStep DEF TypeOK
    <3>2. i \in Of(c, "changes") => sent[c][i].ev = taken
      BY <2>2, <2>3, <3>1 DEF Late
    <3>3. QED
      BY <2>1, <2>4, <3>2, ChangesStep
  <2>7. QED
    BY <2>5, <2>6
<1>3. QED
  BY <1>1, <1>2

\* A change that has been answered, or is for a connection that is gone, stays so.
LEMMA OwnChannelStep ==
  ASSUME TypeOK, DrainControl, IdsFiled, SessionsAcked, OneSlot, OneHolder,
         Alive, SameId, Late, OwnChannel, [Next]_vars
  PROVE  OwnChannel'
<1> SUFFICES ASSUME NEW c \in Conns, NEW i \in Of(c, "changes")'
             PROVE  \/ Answered(c, i)'
                    \/ /\ \E d \in Conns \ {c} : idOf'[d] = idOf'[c] /\ net'[d] = "gone"
                       /\ \A j \in Of(c, "changes")' :
                            j <= i => sent'[c][j].ev = sent'[c][i].ev
  BY DEF OwnChannel
<1>1. SentGrows
  BY GrowsStep
<1>2. CASE i \in Of(c, "changes")
  <2>1. net[c] # "absent"
    BY <1>2 DEF Alive, Of
  <2>2. CASE Answered(c, i)
    <3>1. PICK k \in Of(c, "ok") :
            /\ k < i
            /\ sent[c][k].topic = sent[c][i].topic
            /\ sent[c][k].session.join = sent[c][i].join
      BY <2>2 DEF Answered
    <3>2. /\ k \in Of(c, "ok")' /\ sent'[c][k] = sent[c][k]
          /\ sent'[c][i] = sent[c][i]
      BY <1>1, <1>2 DEF SentGrows, Of
    <3>3. QED
      BY <3>1, <3>2 DEF Answered
  <2>3. ASSUME NEW d \in Conns \ {c}, idOf[d] = idOf[c], net[d] = "gone",
               \A j \in Of(c, "changes") : j <= i => sent[c][j].ev = sent[c][i].ev
        PROVE  /\ idOf'[d] = idOf'[c] /\ net'[d] = "gone"
               /\ \A j \in Of(c, "changes")' :
                    j <= i => sent'[c][j].ev = sent'[c][i].ev
    <3>1. idOf'[d] = idOf'[c] /\ net'[d] = "gone"
      BY <2>1, <2>3, NetStep
    <3>2. ASSUME NEW j \in Of(c, "changes")', j <= i
          PROVE  j \in Of(c, "changes")
      <4>1. ASSUME j \notin DOMAIN sent[c]
            PROVE  FALSE
        <5>1. i < j
          BY <1>2, <4>1, NewIsLast DEF Of
        <5>2. sent'[c] \in Seq(Message)
          BY TypeStep DEF TypeOK
        <5>3. i \in Int /\ j \in Int
          BY <1>1, <1>2, <5>2 DEF Of, SentGrows
        <5>4. QED
          BY <3>2, <5>1, <5>3
      <4>2. QED
        BY <4>1, OldOrNew
    <3>3. QED
      BY <1>2, <2>3, <3>1, <3>2, OldOrNew
  <2>4. QED
    BY <1>2, <2>2, <2>3 DEF OwnChannel
<1>3. CASE i \notin Of(c, "changes")
  <2>1. /\ SendSub /\ Bound /\ net[c] = "open" /\ c = cur.ws
        /\ i = Len(sent[c]) + 1
        /\ sent'[c][i] = [kind |-> "changes", topic |-> cur.topic,
                          join |-> cur.session.join, sub |-> cur.sub, ev |-> taken]
    BY <1>3, ChangesStep
  <2>2. /\ sent'[c][i].topic = cur.topic /\ sent'[c][i].join = cur.session.join
        /\ sent'[c][i].ev = taken
    BY <2>1
  <2>3. cur # None /\ cur.owner \in Conns /\ idOf[cur.owner] = idOf[c]
    BY <2>1, BoundType DEF SameId, Bound
  <2>4. CASE cur.owner = c
    <3>1. PICK k \in DOMAIN sent[c] :
            /\ sent[c][k].kind = "ok" /\ sent[c][k].topic = cur.topic
            /\ sent[c][k].session.join = cur.session.join
      BY <2>1, <2>3, <2>4 DEF SessionsAcked, Acked, Bound
    <3>2. k \in DOMAIN sent'[c] /\ sent'[c][k] = sent[c][k]
      BY <1>1 DEF SentGrows
    <3>3. k < i
      <4>1. sent[c] \in Seq(Message)
        BY DEF TypeOK
      <4>2. k \in 1..Len(sent[c]) /\ Len(sent[c]) \in Nat
        BY <4>1
      <4>3. QED
        BY <2>1, <4>2
    <3>4. QED
      BY <2>2, <3>1, <3>2, <3>3 DEF Answered, Of
  <2>5. CASE cur.owner # c
    <3>1. net[cur.owner] = "gone"
      BY <2>1, <2>3, <2>5 DEF OneHolder, IdsFiled, TypeOK
    <3>2. net'[cur.owner] = "gone" /\ idOf'[cur.owner] = idOf'[c]
      BY <2>1, <2>3, <3>1, NetStep
    <3>3. \A j \in Of(c, "changes") : sent[c][j].ev = taken
      BY <2>1, <2>3, <2>5 DEF Late
    <3>4. \A j \in Of(c, "changes")' : sent'[c][j].ev = taken
      BY <3>3, OldOrNew, ChangesStep
    <3>5. QED
      BY <2>2, <2>3, <2>5, <3>2, <3>4
  <2>6. QED
    BY <2>4, <2>5
<1>4. QED
  BY <1>2, <1>3

-----------------------------------------------------------------------------
\* Entries that have moved under a broadcast have moved for good.
LEMMA MovedGrows ==
  ASSUME TypeOK, [Next]_vars, NEW c \in Conns
  PROVE  moved[c] \subseteq moved'[c]
<1>1. CASE UNCHANGED moved
  BY <1>1
<1>2. ASSUME NEW d \in Conns, NEW t \in Topics, NEW token \in Tokens,
             NEW config \in Configs, _handle_join(d, t, token, config)
      PROVE  moved[c] \subseteq moved'[c]
  <2>1. moved' = moved \/ moved' = [moved EXCEPT ![d] = @ \cup {taken}]
    BY <1>2 DEF _handle_join, Moves
  <2>2. QED
    BY <2>1 DEF TypeOK
<1>3. ASSUME NEW d \in Conns, Network(d) \/ Ends(d)
      PROVE  UNCHANGED moved
  BY <1>3, EndsForgets DEF Network, Connect, Close, Forget, joinVars
<1>4. ASSUME NEW d \in Conns, NEW t \in Topics, HandleLeave(d, t) \/ SendSystem(d)
      PROVE  UNCHANGED moved
  BY <1>4 DEF HandleLeave, SendSystem
<1>5. ASSUME NEW d \in Conns, SendSystem(d)
      PROVE  UNCHANGED moved
  BY <1>5 DEF SendSystem
<1>6. QED
  BY <1>1, <1>2, <1>3, <1>4, <1>5, DrainFrame DEF Next, Handler, Ends, vars, joinVars

\* The session in hand is the one of its slot, or a later one.
LEMMA InHandStep ==
  ASSUME TypeOK, DrainControl, IdsFiled, OneSlot, InHand, [Next]_vars
  PROVE  InHand'
<1> SUFFICES ASSUME Bound', NEW c, c = cur'.owner, taken' \notin moved'[c],
                    NEW k \in Live(c)', k = cur'.slot
             PROVE  \/ topics'[c][k].session = cur'.session
                    \/ topics'[c][k].session.since = taken'
  BY DEF InHand, Bound, Live
<1>1. taken' = taken
  BY TakeUnbound, CountersStep
<1>2. CASE Bound /\ SameBinding(cur', cur)
  <2>1. c \in Conns /\ c = cur.owner /\ k = cur.slot /\ cur'.session = cur.session
    BY <1>2, BoundType DEF SameBinding
  <2>2. taken \notin moved[c]
    BY <1>1, <2>1, MovedGrows
  <2>3. CASE NoJoin
    <3>1. k \in Live(c) /\ topics'[c][k].session = topics[c][k].session
      BY <2>1, <2>3 DEF NoJoin, Live
    <3>2. QED
      BY <1>1, <1>2, <2>1, <2>2, <3>1 DEF InHand
  <2>4. ASSUME NEW d \in Conns, NEW t \in Topics, NEW p \in Nat, NEW n \in Sessions,
               NEW g, Joins(d, t, p, n, g)
        PROVE  \/ topics'[c][k].session = cur'.session
               \/ topics'[c][k].session.since = taken'
    <3>1. CASE d = c /\ k = p
      BY <1>1, <2>1, <2>4, <3>1 DEF Joins, Assigned
    <3>2. CASE ~(d = c /\ k = p)
      <4>1. k \in Live(c) /\ topics'[c][k] = topics[c][k]
        <5>1. CASE d = c
          <6>1. Assigned(c, t, p, n, topics'[c], g) /\ Still(c, topics'[c])
            BY <1>1, <1>2, <2>1, <2>4, <5>1 DEF Joins, Bound
          <6>2. k \in DOMAIN topics'[c] /\ k # p /\ topics'[c][k].live
            BY <3>2, <5>1 DEF Live
          <6>3. QED
            BY <2>1, <6>1, <6>2, StillInPlace
        <5>2. CASE d # c
          BY <2>1, <2>4, <5>2 DEF Joins, Live
        <5>3. QED
          BY <5>1, <5>2
      <4>2. QED
        BY <1>1, <1>2, <2>1, <2>2, <4>1 DEF InHand
    <3>3. QED
      BY <3>1, <3>2
  <2>5. QED
    BY <2>3, <2>4, StepJoins
<1>3. CASE UNCHANGED topics /\ cur'.session = topics[c][cur'.slot].session
  BY <1>3
<1>4. QED
  BY <1>2, <1>3, BoundStep

\* What has been sent stays sent.
LEMMA SentStable ==
  ASSUME SentGrows, NEW c \in Conns, NEW join, NEW sub, NEW ev, Sent(c, join, sub, ev)
  PROVE  Sent(c, join, sub, ev)'
BY DEF SentGrows, Sent, Of

\* A session in a live slot was in a live slot before, the same one unless
\* entries moved under the iteration, or it is new.
LEMMA LiveStep ==
  ASSUME TypeOK, IdsFiled, OneSlot, [Next]_vars, NEW c \in Conns, NEW k \in Live(c)'
  PROVE  \/ \E l \in Live(c) :
              /\ topics'[c][k].session = topics[c][l].session
              /\ l = k \/ (UNCHANGED <<snapshot, cur, taken>>
                             /\ (cur # None /\ cur.owner = c => taken \in moved'[c]))
         \/ topics'[c][k].session.since = taken /\ taken' = taken
<1>1. CASE NoJoin
  BY <1>1 DEF NoJoin, Live
<1>2. ASSUME NEW d \in Conns, NEW t \in Topics, NEW p \in Nat, NEW n \in Sessions,
             NEW g, Joins(d, t, p, n, g)
      PROVE  \/ \E l \in Live(c) :
                  /\ topics'[c][k].session = topics[c][l].session
                  /\ l = k \/ (UNCHANGED <<snapshot, cur, taken>>
                                 /\ (cur # None /\ cur.owner = c => taken \in moved'[c]))
             \/ topics'[c][k].session.since = taken /\ taken' = taken
  <2>1. k \in DOMAIN topics'[c] /\ topics'[c][k].live
    BY DEF Live
  <2>2. CASE d = c /\ k = p
    BY <1>2, <2>2 DEF Joins, Assigned
  <2>3. CASE d # c
    BY <1>2, <2>1, <2>3 DEF Joins, Live
  <2>4. CASE d = c /\ k # p /\ Still(c, topics'[c])
    <3>1. Assigned(c, t, p, n, topics'[c], g)
      BY <1>2, <2>4 DEF Joins
    <3>2. QED
      BY <2>1, <2>4, <3>1, StillInPlace
  <2>5. CASE d = c /\ k # p /\ ~Still(c, topics'[c])
    <3>1. \E l \in DOMAIN topics[c] : topics'[c][k] = topics[c][l]
      BY <1>2, <2>1, <2>5, JoinsFrom
    <3>2. UNCHANGED <<snapshot, cur, taken>>
          /\ (cur # None /\ cur.owner = c => taken \in moved'[c])
      BY <1>2, <2>5 DEF Joins
    <3>3. QED
      BY <2>1, <3>1, <3>2 DEF Live
  <2>6. QED
    BY <2>2, <2>3, <2>4, <2>5
<1>3. QED
  BY <1>1, <1>2, StepJoins

\* A connection that is open was open before, or has no dict yet.
LEMMA OpenStep ==
  ASSUME TypeOK, IdsFiled, [Next]_vars, NEW c \in Conns, net'[c] = "open", Live(c) # {}
  PROVE  net[c] = "open"
<1>1. topics[c] # <<>>
  BY DEF Live
<1>2. net[c] # "absent"
  BY <1>1 DEF IdsFiled
<1>3. ASSUME NEW d \in Conns, NEW i \in Ids, NEW token \in Tokens, Connect(d, i, token)
      PROVE  net[c] = "open"
  BY <1>2, <1>3 DEF Connect, TypeOK
<1>4. ASSUME NEW d \in Conns, Close(d) \/ Ends(d)
      PROVE  net[c] = "open"
  BY <1>4, EndsForgets DEF Close, Forget, TypeOK
<1>5. ASSUME NEW d \in Conns, Handler(d), ~Ends(d)
      PROVE  UNCHANGED net
  BY <1>5 DEF Handler, Ends, _handle_join, HandleLeave, SendSystem, connVars
<1>6. CASE UNCHANGED vars
  BY <1>6 DEF vars, connVars
<1>7. QED
  BY <1>3, <1>4, <1>5, <1>6, DrainFrame DEF Next, Network

\* The drain task takes an event when it waits for one, and waits for one when
\* the broadcast is over.
LEMMA GetStep ==
  ASSUME [Next]_vars
  PROVE  /\ drain' # "get" => drain # "get" \/ Take
         /\ drain' = "get" => drain = "get" \/ EndBroadcast
<1>1. ASSUME NEW c \in Conns, Network(c) \/ Handler(c)
      PROVE  drain' = drain
  BY <1>1, LoopFrame
<1>2. ASSUME NEW event \in Events, _enqueue_changefeed_event(event)
      PROVE  drain' = drain
  BY <1>2 DEF _enqueue_changefeed_event, drainVars
<1>3. ASSUME Drain, ~Take, ~EndBroadcast
      PROVE  (drain' = "get") = (drain = "get")
  BY <1>3 DEF Drain, NextWs, NextTopic, SkipSub, SendSub, Resume
<1>4. CASE Take \/ EndBroadcast
  BY <1>4 DEF Take, EndBroadcast
<1>5. QED
  BY <1>1, <1>2, <1>3, <1>4 DEF Next, vars, drainVars

\* What the broadcast owes a subscription, a step of the drain task delivers or
\* leaves owed.
LEMMA OwedByDrain ==
  ASSUME TypeOK, DrainControl, IdsFiled, OwnerServed, Filed, InHand, Drain, ~Take,
         NEW c \in Conns, net[c] = "open", NEW k \in Live(c),
         NEW n \in DOMAIN topics[c][k].session.subs,
         topics[c][k].session.since < taken, taken \notin moved[c],
         Delivers(topics[c][k].session, n, feed[taken]), Remains(c, k, n)
  PROVE  Remains(c, k, n)' \/ Sent(c, topics[c][k].session.join, n, taken)'
<1>1. k \in DOMAIN topics[c] /\ k \in Nat \ {0} /\ topics[c][k].session \in Sessions
  BY SlotType DEF Live
<1>2. /\ n \in Nat \ {0} /\ n \in 1..Len(topics[c][k].session.subs)
      /\ Len(topics[c][k].session.subs) \in Nat
  <2>1. topics[c][k].session.subs \in Configs
    BY <1>1 DEF Sessions
  <2>2. topics[c][k].session.subs \in Seq([schema : STRING, table : STRING, event : STRING])
    BY <2>1, RealtimeAssumption
  <2>3. QED
    BY <2>2
<1>3. topics[c][k].session.since # taken
  <2>1. topics[c][k].session.since \in Nat /\ taken \in Nat
    <3>1. taken \in Nat
      BY DEF TypeOK
    <3>2. QED
      BY <1>1, <3>1, JoinNumber
  <2>2. QED
    BY <2>1
<1>4. cur # None => cur.slot \in Nat /\ cur.sub \in Nat
  BY DEF TypeOK, Iterations
<1>5. ASSUME cur # None, cur.owner = c, k = cur.slot
      PROVE  topics[c][k].session = cur.session
  BY <1>1, <1>3, <1>5 DEF InHand, Bound
<1>6. CASE UNCHANGED <<cur, snapshot>>
  BY <1>6 DEF Remains
<1>7. ASSUME NEW d \in Conns, NextWs(d)
      PROVE  Remains(c, k, n)'
  <2>1. cur = None /\ c \in snapshot /\ snapshot' = snapshot \ {d}
    BY <1>7 DEF NextWs, Remains
  <2>2. CASE c # d
    BY <2>1, <2>2 DEF Remains
  <2>3. CASE c = d
    <3>1. activeWs[idOf[c]] = c /\ c # None
      BY RealtimeAssumption DEF Filed
    <3>2. cur' = [owner |-> c, ws |-> c, size |-> Cardinality(Live(c)),
                  left |-> Cardinality(Live(c)), slot |-> 0, sub |-> 1, topic |-> None, session |-> None]
      BY <1>7, <2>3, <3>1 DEF NextWs
    <3>3. cur' \in Iterations
      BY <3>2, LiveFinite DEF Iterations
    <3>4. cur' # None /\ cur'.owner = c /\ cur'.slot = 0
      BY <3>2, <3>3, NoneAssumption
    <3>5. QED
      BY <1>1, <3>4 DEF Remains
  <2>4. QED
    BY <2>2, <2>3
<1>8. CASE EndBroadcast \/ Resume
  BY <1>6, <1>8 DEF EndBroadcast, Resume
<1>9. ASSUME NextTopic, cur' # cur
      PROVE  Remains(c, k, n)'
  <2>1. /\ snapshot' = snapshot /\ cur # None /\ SessionDone
        /\ Ahead = {} => cur' = None
        /\ Ahead # {} => cur' # None
    <3>1. cur \in Iterations
      BY <1>9 DEF NextTopic, TypeOK
    <3>2. ASSUME NEW l \in Ahead, ~KeysChanged,
                 cur' = [cur EXCEPT !.left = @ - 1, !.slot = l, !.sub = 1,
                                    !.topic = topics[cur.owner][l].topic,
                                    !.session = topics[cur.owner][l].session]
          PROVE  cur' # None
      BY <3>1, <3>2, BindsTyped, NoneAssumption
    <3>3. QED
      BY <1>9, <3>2 DEF NextTopic
  <2>2. CASE c \in snapshot
    BY <2>1, <2>2 DEF Remains
  <2>3. CASE cur.owner = c /\ k > cur.slot
    <3>1. k \in Ahead
      BY <2>3 DEF Ahead
    <3>4. cur' # None
      BY <2>1, <3>1
    <3>2. PICK l \in Ahead : l <= k /\ cur'.owner = cur.owner /\ cur'.slot = l /\ cur'.sub = 1
      BY <1>9, <3>1, <3>4, NextTopicBinds
    <3>3. cur'.owner = c /\ cur'.slot = l /\ cur'.sub = 1
      BY <2>3, <3>2
    <3>5. l \in Nat
      BY <2>3, SlotType DEF Ahead, Live
    <3>6. QED
      BY <1>1, <1>2, <3>2, <3>3, <3>4, <3>5 DEF Remains
  <2>4. CASE cur.owner = c /\ k = cur.slot /\ n >= cur.sub
    <3>1. cur.sub > Len(cur.session.subs) /\ topics[c][k].session = cur.session
      BY <1>1, <1>5, <2>1, <2>4 DEF SessionDone
    <3>2. QED
      BY <1>2, <1>4, <2>1, <2>4, <3>1
  <2>5. QED
    BY <2>1, <2>2, <2>3, <2>4 DEF Remains
<1>10. CASE (SkipSub \/ SendSub) /\ cur' # cur
  <2>1. /\ cur # None /\ ~SessionDone /\ snapshot' = snapshot
        /\ cur' = [cur EXCEPT !.sub = @ + 1]
    BY <1>10 DEF SkipSub, SendSub
  <2>2. cur \in Iterations /\ SameBinding(cur', cur) /\ cur' # None
    BY <2>1, InSession
  <2>3. cur'.sub = cur.sub + 1
    BY <2>1, <2>2 DEF Iterations
  <2>4. CASE c \in snapshot \/ k # cur.slot \/ n # cur.sub
    BY <1>2, <1>4, <2>1, <2>2, <2>3, <2>4 DEF Remains, SameBinding
  <2>5. CASE cur.owner = c /\ k = cur.slot /\ n = cur.sub
    <3>1. topics[c][k].session = cur.session
      BY <1>5, <2>1, <2>5
    <3>2. SendSub
      BY <1>10, <2>5, <3>1 DEF SkipSub
    <3>3. cur.ws = c
      BY <2>1, <2>5 DEF OwnerServed
    <3> DEFINE m == [kind |-> "changes", topic |-> cur.topic,
                     join |-> cur.session.join, sub |-> cur.sub, ev |-> taken]
    <3>4. Transmit(c, m) /\ m.kind = "changes" /\ m.join = topics[c][k].session.join
          /\ m.sub = n /\ m.ev = taken
      BY <2>5, <3>1, <3>2, <3>3 DEF SendSub
    <3> HIDE DEF m
    <3>5. taken' = taken /\ topics' = topics
      BY <3>2 DEF SendSub, feedVars, joinVars
    <3>6. QED
      BY <3>4, <3>5, TransmitAppends DEF Sent, Of
  <2>6. QED
    BY <2>1, <2>4, <2>5 DEF Remains
<1>11. CASE (SkipSub \/ SendSub \/ NextTopic) /\ cur' = cur
  BY <1>6, <1>11 DEF SkipSub, SendSub, NextTopic
<1>12. QED
  BY <1>7, <1>8, <1>9, <1>10, <1>11 DEF Drain

\* An event that a slot is skipped for after a step, a slot that held the same
\* session was skipped for before.
LEMMA SkipsStep ==
  ASSUME SentGrows, NEW c \in Conns, NEW k, NEW l, NEW n, NEW ev,
         topics'[c][k].session = topics[c][l].session, feed'[ev] = feed[ev],
         Skips(c, k, n, ev)'
  PROVE  Skips(c, l, n, ev)
<1>1. topics[c][l].session.since < ev
  BY DEF Skips
<1>2. Delivers(topics[c][l].session, n, feed[ev])
  BY DEF Skips, Delivers, event_matches, _matches, _wal_op_to_pg, rls_allows_row
<1>3. ~Sent(c, topics[c][l].session.join, n, ev)
  BY DEF Skips, Sent, Of, SentGrows
<1>4. QED
  BY <1>1, <1>2, <1>3 DEF Skips

LEMMA OwedStep ==
  ASSUME TypeOK, DrainControl, IdsFiled, OwnerServed, OneSlot, Filed, InHand,
         Owed, [Next]_vars
  PROVE  Owed'
<1> SUFFICES ASSUME drain' # "get", NEW c \in Conns, net'[c] = "open",
                    taken' \notin moved'[c],
                    NEW k \in Live(c)', NEW n \in DOMAIN topics'[c][k].session.subs,
                    Owing(c, k, n)'
             PROVE  Remains(c, k, n)'
  BY DEF Owed
<1>1. CASE Take
  <2>1. /\ UNCHANGED <<topics, net, idOf, wsIndex>>
        /\ snapshot' = {wsIndex[i] : i \in Ids} \ {None}
    BY <1>1 DEF Take, connVars, joinVars
  <2>2. topics[c] # <<>>
    BY <2>1 DEF Live
  <2>3. wsIndex[idOf[c]] = c /\ idOf[c] \in Ids /\ c # None
    BY <2>1, <2>2, RealtimeAssumption DEF Filed, IdsFiled
  <2>4. QED
    BY <2>1, <2>3 DEF Remains
<1>2. CASE ~Take
  <2>1. drain # "get" /\ taken' = taken /\ taken \in Nat
    BY <1>2, GetStep, CountersStep
  <2>2. PICK ev : ev = taken
    OBVIOUS
  <2>3. Skips(c, k, n, ev)' /\ topics'[c][k].session.since < taken
    BY <2>1, <2>2 DEF Owing, Skips
  <2>4. PICK l \in Live(c) :
          /\ topics'[c][k].session = topics[c][l].session
          /\ l = k \/ (UNCHANGED <<snapshot, cur, taken>>
                         /\ (cur # None /\ cur.owner = c => taken \in moved'[c]))
    BY <2>1, <2>3, LiveStep
  <2>5. net[c] = "open" /\ taken \notin moved[c]
    BY <2>1, <2>4, OpenStep, MovedGrows
  <2>6. feed'[ev] = feed[ev]
    <3>1. taken # 0
      BY <2>1 DEF DrainControl
    <3>2. taken \in 1..taken
      BY <2>1, <3>1
    <3>3. QED
      BY <2>2, <3>2, FeedGrows
  <2>7. Skips(c, l, n, ev)
    BY <2>3, <2>4, <2>6, GrowsStep, SkipsStep
  <2>8. Remains(c, l, n)
    BY <2>1, <2>2, <2>4, <2>5, <2>7 DEF Owed, Owing
  <2>9. CASE Drain
    <3>0. topics' = topics
      BY <2>9, DrainFrame
    <3>1. /\ topics[c][l].session.since < taken
          /\ Delivers(topics[c][l].session, n, feed[taken])
      BY <2>2, <2>7 DEF Skips
    <3>7. n \in DOMAIN topics[c][l].session.subs
      BY <2>4
    <3>2. Remains(c, l, n)' \/ Sent(c, topics[c][l].session.join, n, taken)'
      BY <1>2, <2>4, <2>5, <2>8, <2>9, <3>1, <3>7, OwedByDrain
    <3>3. ~Sent(c, topics[c][l].session.join, n, taken)'
      BY <2>1, <2>2, <2>3, <2>4, <3>0 DEF Skips, Sent, Of
    <3>4. CASE l = k
      BY <3>2, <3>3, <3>4
    <3>5. CASE l # k
      BY <2>1, <2>4, <2>8, <3>5 DEF Remains
    <3>6. QED
      BY <3>4, <3>5
  <2>10. CASE UNCHANGED <<cur, snapshot>>
    BY <2>1, <2>4, <2>8, <2>10 DEF Remains
  <2>11. ASSUME NEW d \in Conns, Network(d) \/ Handler(d)
         PROVE  UNCHANGED <<cur, snapshot>>
    BY <2>11, LoopFrame
  <2>12. ASSUME NEW event \in Events, _enqueue_changefeed_event(event)
         PROVE  UNCHANGED <<cur, snapshot>>
    BY <2>12 DEF _enqueue_changefeed_event, drainVars
  <2>13. QED
    BY <2>9, <2>10, <2>11, <2>12 DEF Next, vars, drainVars
<1>3. QED
  BY <1>1, <1>2

LEMMA NoSkipsStep ==
  ASSUME TypeOK, DrainControl, IdsFiled, OneSlot, Owed, NoSkips, [Next]_vars
  PROVE  NoSkips'
<1> SUFFICES ASSUME NEW c \in Conns, net'[c] = "open",
                    NEW k \in Live(c)', NEW n \in DOMAIN topics'[c][k].session.subs,
                    NEW ev \in Done' \ moved'[c], Skips(c, k, n, ev)'
             PROVE  FALSE
  BY DEF NoSkips
<1>1. taken \in Nat /\ (taken' = taken \/ (Take /\ taken' = taken + 1))
  BY CountersStep
<1>2. ev \in 1..taken /\ (ev \in Done \/ (EndBroadcast /\ ev = taken))
  <2>1. CASE Take
    <3>1. drain = "get" /\ drain' = "run" /\ taken' = taken + 1
      BY <2>1 DEF Take
    <3>2. Done' = 1..taken /\ Done = 1..taken
      BY <1>1, <3>1 DEF Done
    <3>3. QED
      BY <3>2
  <2>2. CASE ~Take
    <3>1. taken' = taken
      BY <1>1, <2>2
    <3>2. CASE drain' = "get"
      <4>1. ev \in 1..taken
        BY <3>1, <3>2 DEF Done
      <4>2. CASE drain = "get"
        BY <4>1, <4>2 DEF Done
      <4>3. CASE EndBroadcast
        BY <1>1, <4>1, <4>3 DEF Done
      <4>4. QED
        BY <3>2, <4>2, <4>3, GetStep
    <3>3. CASE drain' # "get"
      <4>1. ev \in 1..(taken - 1)
        BY <3>1, <3>3 DEF Done
      <4>2. drain # "get"
        BY <2>2, <3>3, GetStep
      <4>3. QED
        BY <1>1, <4>1, <4>2 DEF Done
    <3>4. QED
      BY <3>2, <3>3
  <2>3. QED
    BY <2>1, <2>2
<1>3. PICK l \in Live(c) : topics'[c][k].session = topics[c][l].session
  <2>1. ASSUME topics'[c][k].session.since = taken
        PROVE  FALSE
    BY <1>1, <1>2, <2>1 DEF Skips
  <2>2. QED
    BY <2>1, LiveStep
<1>4. net[c] = "open" /\ ev \notin moved[c]
  BY <1>3, OpenStep, MovedGrows
<1>5. feed'[ev] = feed[ev]
  BY <1>2, FeedGrows
<1>6. Skips(c, l, n, ev) /\ n \in DOMAIN topics[c][l].session.subs
  BY <1>3, <1>5, GrowsStep, SkipsStep
<1>7. CASE ev \in Done
  BY <1>3, <1>4, <1>6, <1>7 DEF NoSkips
<1>8. CASE EndBroadcast /\ ev = taken
  <2>1. drain # "get" /\ ~Remains(c, l, n)
    BY <1>8 DEF EndBroadcast, Remains
  <2>2. QED
    BY <1>3, <1>4, <1>6, <1>8, <2>1 DEF Owed, Owing
<1>9. QED
  BY <1>2, <1>7, <1>8

-----------------------------------------------------------------------------
(***************************************************************************)
(* The inductive invariant behind the four properties of the broadcast.    *)
(***************************************************************************)
Inv ==
  /\ TypeOK /\ Bookkeeping
  /\ OneSlot /\ Numbered /\ OnePlace /\ Paced
  /\ BroadcastOrder /\ FeedOrder
  /\ Left /\ LeaveIsPrompt
  /\ RowsAllowed

LEMMA InitInv ==
  ASSUME Init
  PROVE  Inv
<1>1. TypeOK /\ Bookkeeping
  BY InitType, InitBookkeeping
<1>2. /\ \A c \in Conns : topics[c] = <<>> /\ sent[c] = <<>> /\ DOMAIN topics[c] = {}
      /\ cur = None /\ drain = "get"
  BY DEF Init
<1>3. \A c \in Conns : Live(c) = {} /\ \A kind : Of(c, kind) = {}
  BY <1>2 DEF Live, Of
<1>4. \A s : ~Made(s)
  BY <1>2, <1>3 DEF Made, Bound
<1>5. QED
  BY <1>1, <1>2, <1>3, <1>4
     DEF Inv, OneSlot, Numbered, OnePlace, Paced, BroadcastOrder, FeedOrder, Left,
         LeaveIsPrompt, RowsAllowed, Bound

LEMMA InvStep ==
  ASSUME Inv, [Next]_vars
  PROVE  Inv'
<1>1. TypeOK /\ Bookkeeping /\ DrainControl /\ IdsFiled
  BY DEF Inv, Bookkeeping
<1>2. OneSlot /\ Numbered /\ OnePlace /\ Paced
  BY DEF Inv
<1>3. BroadcastOrder /\ FeedOrder /\ Left /\ LeaveIsPrompt /\ RowsAllowed
  BY DEF Inv
<1>4. TypeOK' /\ Bookkeeping'
  BY <1>1, TypeStep, BookkeepingStep
<1>5. OneSlot' /\ Numbered' /\ OnePlace' /\ Paced'
  BY <1>1, <1>2, OneSlotStep, NumberedStep, OnePlaceStep, PacedStep
<1>6. BroadcastOrder' /\ FeedOrder'
  BY <1>1, <1>2, <1>3, BroadcastOrderStep, FeedOrderStep
<1>7. Left' /\ LeaveIsPrompt'
  BY <1>1, <1>2, <1>3, LeftInvStep, LeaveIsPromptStep
<1>8. RowsAllowed'
  BY <1>1, <1>2, <1>3, RowsAllowedStep
<1>9. QED
  BY <1>4, <1>5, <1>6, <1>7, <1>8 DEF Inv

LEMMA InvHolds == Spec => []Inv
<1>1. Init => Inv
  BY InitInv
<1>2. Inv /\ [Next]_vars => Inv'
  BY InvStep
<1>3. QED
  BY <1>1, <1>2, PTL DEF Spec

(***************************************************************************)
(* Whether ids are reused or not, a connection is sent changes in feed     *)
(* order, and no subscription of a join the same event twice.              *)
(***************************************************************************)
THEOREM FeedOrderHolds == Spec => []FeedOrder
<1>1. Inv => FeedOrder
  BY DEF Inv
<1>2. QED
  BY <1>1, InvHolds, PTL

(***************************************************************************)
(* After the answer to a phx_leave the left join is sent nothing of a      *)
(* later event.                                                            *)
(***************************************************************************)
THEOREM LeaveIsPromptHolds == Spec => []LeaveIsPrompt
<1>1. Inv => LeaveIsPrompt
  BY DEF Inv
<1>2. QED
  BY <1>1, InvHolds, PTL

(***************************************************************************)
(* A row goes to an authenticated join only if it has no publisher or the  *)
(* publisher of the claims, for every set of tokens and events.            *)
(***************************************************************************)
THEOREM TenantIsolationHolds == Spec => []TenantIsolation
<1>1. Inv => TenantIsolation
  BY RowsOfTheTenant DEF Inv
<1>2. QED
  BY <1>1, InvHolds, PTL

\* The inductive invariant behind OwnChannel.
Ownership == OneHolder /\ Alive /\ SameId /\ Late /\ OwnChannel

(***************************************************************************)
(* A connection is sent changes only for channels it joined itself, after  *)
(* the reply, whichever ids the interpreter gives out: but for one that    *)
(* was given the id of a connection that is gone, and then only the rest   *)
(* of the one event that was being broadcast when it connected.            *)
(***************************************************************************)
THEOREM OwnChannelHolds == Spec => []OwnChannel
<1>1. Init => Ownership
  <2>1. ASSUME Init
        PROVE  /\ \A c \in Conns : net[c] = "absent" /\ sent[c] = <<>>
               /\ \A i \in Ids : wsIndex[i] = None
               /\ cur = None
    BY <2>1 DEF Init
  <2>2. QED
    BY <2>1 DEF Ownership, OneHolder, Alive, SameId, Late, OwnChannel, Of
<1>2. Inv /\ Ownership /\ [Next]_vars => Ownership'
  <2>1. SUFFICES ASSUME Inv, Ownership, [Next]_vars PROVE Ownership'
    OBVIOUS
  <2>2. TypeOK /\ DrainControl /\ IdsFiled /\ SessionsAcked /\ OneSlot
    BY <2>1 DEF Inv, Bookkeeping
  <2>3. OneHolder /\ Alive /\ SameId /\ Late /\ OwnChannel
    BY <2>1 DEF Ownership
  <2>4. OneHolder' /\ Alive' /\ SameId'
    BY <2>1, <2>2, <2>3, OneHolderStep, AliveStep, SameIdStep
  <2>5. Late' /\ OwnChannel'
    BY <2>1, <2>2, <2>3, LateStep, OwnChannelStep
  <2>6. QED
    BY <2>4, <2>5 DEF Ownership
<1>3. Ownership => OwnChannel
  BY DEF Ownership
<1>4. QED
  BY <1>1, <1>2, <1>3, InvHolds, PTL DEF Spec

\* The inductive invariant behind NoneSkipped.
Delivery == OneHolder /\ OwnerServed /\ Filed /\ InHand /\ Owed /\ NoSkips

(***************************************************************************)
(* Every subscription that is still in place has been sent each matching   *)
(* event broadcast since its join, whatever joined, left or closed during  *)
(* the broadcasts: but for those that met a rebuild of its own dict.       *)
(***************************************************************************)
THEOREM NoneSkippedHolds == Spec => []NoneSkipped
<1>1. Init => Delivery
  <2>1. ASSUME Init
        PROVE  /\ \A c \in Conns : net[c] = "absent"
               /\ cur = None /\ drain = "get"
    BY <2>1 DEF Init
  <2>2. QED
    BY <2>1 DEF Delivery, OneHolder, OwnerServed, Filed, InHand, Owed, NoSkips, Bound
<1>2. Inv /\ Delivery /\ [Next]_vars => Delivery'
  <2>1. SUFFICES ASSUME Inv, Delivery, [Next]_vars PROVE Delivery'
    OBVIOUS
  <2>2. TypeOK /\ DrainControl /\ IdsFiled /\ OneSlot
    BY <2>1 DEF Inv, Bookkeeping
  <2>3. OneHolder /\ OwnerServed /\ Filed /\ InHand /\ Owed /\ NoSkips
    BY <2>1 DEF Delivery
  <2>4. OneHolder' /\ OwnerServed' /\ Filed'
    BY <2>1, <2>2, <2>3, OneHolderStep, OwnerServedStep, FiledStep
  <2>5. InHand' /\ Owed' /\ NoSkips'
    BY <2>1, <2>2, <2>3, InHandStep, OwedStep, NoSkipsStep
  <2>6. QED
    BY <2>4, <2>5 DEF Delivery
<1>3. Delivery => NoneSkipped
  BY DEF Delivery, NoSkips, Skips, NoneSkipped
<1>4. QED
  BY <1>1, <1>2, <1>3, InvHolds, PTL DEF Spec
=============================================================================
