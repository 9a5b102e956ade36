-------------------------- MODULE ProxyRelayProofs --------------------------
(***************************************************************************)
(* Theorems about ProxyRelay, for any slots, connections and sizes of      *)
(* responses and any number of requests: its types, that upstream          *)
(* connections are neither shared nor leaked, and, as long as no response  *)
(* was relayed by a head of another size, that the pool is clean, that     *)
(* left is what is to come and that clients are sent only their own bytes. *)
(***************************************************************************)
EXTENDS ProxyRelay, SequenceTheorems, TLAPS

Reqs == [n : 1..MaxRequests, size : Sizes]
Total(r) == r.size.len + r.size.cl
Bytes == Seq(Reqs \X Nat)

\* The bytes of the response to r that follow the first i of them.
Piece(q, r, i) == \A k \in 1..Len(q) : q[k] = <<r, i + k>>

-----------------------------------------------------------------------------
(* Pieces *)

\* The sizes of a request's response are numbers.
LEMMA ReqSizes ==
  ASSUME NEW r \in Reqs
  PROVE  /\ r.size.len \in Nat \ {0} /\ r.size.cl \in Nat /\ Total(r) \in Nat
         /\ r.size = [len |-> r.size.len, cl |-> r.size.cl]
<1>1. r.size \in [len : Nat \ {0}, cl : Nat] BY ProxyAssumption DEF Reqs
<1> QED BY <1>1 DEF Total

\* Only the empty piece has no length.
LEMMA EmptyLength ==
  /\ << >> \in Bytes /\ Len(<< >>) = 0
  /\ \A q \in Bytes : Len(q) \in Nat /\ (Len(q) = 0 <=> q = << >>)
BY EmptySeq, LenProperties DEF Bytes

\* What is behind the first n bytes, and those bytes.
LEMMA CutTyped ==
  ASSUME NEW q \in Bytes, NEW n \in 0..Len(q)
  PROVE  /\ Behind(q, n) \in Bytes /\ Len(Behind(q, n)) = Len(q) - n
         /\ SubSeq(q, 1, n) \in Bytes /\ Len(SubSeq(q, 1, n)) = n
         /\ \A k \in 1..(Len(q) - n) : Behind(q, n)[k] = q[n + k]
         /\ \A k \in 1..n : SubSeq(q, 1, n)[k] = q[k]
<1>1. Len(q) \in Nat /\ n \in Nat /\ \A i \in 1..Len(q) : q[i] \in Reqs \X Nat
  BY LenProperties, ElementOfSeq DEF Bytes
<1>2. Behind(q, n) \in Bytes /\ Len(Behind(q, n)) = Len(q) - n
  BY <1>1, SubSeqProperties DEF Bytes, Behind
<1>3. SubSeq(q, 1, n) \in Bytes /\ Len(SubSeq(q, 1, n)) = n
  BY <1>1, SubSeqProperties DEF Bytes
<1>4. \A k \in 1..(Len(q) - n) : Behind(q, n)[k] = q[n + k]
  BY <1>1, SubSeqProperties DEF Bytes, Behind
<1>5. \A k \in 1..n : SubSeq(q, 1, n)[k] = q[k]
  BY <1>1, SubSeqProperties DEF Bytes
<1> QED BY <1>2, <1>3, <1>4, <1>5

\* Behind more bytes than there are is nothing.
LEMMA BehindTyped ==
  ASSUME NEW q \in Bytes, NEW n \in Nat
  PROVE  Behind(q, n) \in Bytes
<1>1. CASE n <= Len(q) BY <1>1, EmptyLength, CutTyped
<1>2. CASE n > Len(q)
  <2>1. Len(q) \in Nat BY EmptyLength
  <2>2. Behind(q, n) = << >> BY <1>2, <2>1 DEF Behind, Bytes
  <2> QED BY <2>2, EmptyLength
<1> QED BY <1>1, <1>2, EmptyLength

\* Pieces of a piece.
LEMMA PieceCut ==
  ASSUME NEW q \in Bytes, NEW n \in 0..Len(q), NEW r, NEW i \in Int, Piece(q, r, i)
  PROVE  Piece(Behind(q, n), r, i + n) /\ Piece(SubSeq(q, 1, n), r, i)
<1>1. Len(q) \in Nat /\ n \in Nat BY EmptyLength
<1>2. Piece(Behind(q, n), r, i + n)
  <2>1. SUFFICES ASSUME NEW k \in 1..(Len(q) - n) PROVE Behind(q, n)[k] = <<r, i + n + k>>
    BY CutTyped DEF Piece
  <2>2. n + k \in 1..Len(q) /\ i + (n + k) = i + n + k BY <1>1
  <2>3. q[n + k] = <<r, i + n + k>> BY <2>2 DEF Piece
  <2> QED BY <2>3, CutTyped
<1>3. Piece(SubSeq(q, 1, n), r, i)
  <2>1. \A k \in 1..n : SubSeq(q, 1, n)[k] = q[k] /\ k \in 1..Len(q)
    BY <1>1, CutTyped
  <2> QED BY <2>1, CutTyped DEF Piece
<1> QED BY <1>2, <1>3

\* The first n bytes of a response are a piece of it.
LEMMA ResponsePiece ==
  ASSUME NEW r \in Reqs, NEW n \in 0..Total(r)
  PROVE  /\ SubSeq(Response(r), 1, n) \in Bytes /\ Len(SubSeq(Response(r), 1, n)) = n
         /\ Piece(SubSeq(Response(r), 1, n), r, 0)
         /\ Len(Response(r)) = Total(r)
<1>1. Total(r) \in Nat BY ReqSizes
<1>2. Response(r) \in Bytes /\ Len(Response(r)) = Total(r)
  <2>1. Response(r) \in [1..Total(r) -> Reqs \X Nat] BY <1>1 DEF Response, Total
  <2> QED BY <1>1, <2>1 DEF Bytes
<1>3. Piece(Response(r), r, 0) BY <1>1, <1>2 DEF Piece, Response, Total
<1> QED BY <1>2, <1>3, CutTyped, PieceCut

\* A piece from the beginning shows no head but its own, once it is whole.
LEMMA OwnHead ==
  ASSUME NEW r \in Reqs, NEW q \in Bytes, Piece(q, r, 0), NEW h \in HeadsIn(q)
  PROVE  h = r.size /\ r.size.len <= Len(q)
<1>1. DOMAIN q = 1..Len(q) /\ Len(q) \in Nat BY EmptyLength, LenProperties DEF Bytes
<1>2. PICK i \in 1..Len(q) : q[i][2] = q[i][1].size.len /\ h = [len |-> i, cl |-> q[i][1].size.cl]
  BY <1>1 DEF HeadsIn
<1>3. q[i] = <<r, i>> BY <1>1 DEF Piece
<1>4. i = r.size.len /\ h = [len |-> r.size.len, cl |-> r.size.cl] BY <1>2, <1>3
<1> QED BY <1>1, <1>2, <1>4, ReqSizes

\* What is parsed of bytes is a size.
LEMMA HeadsTyped ==
  ASSUME NEW q \in Bytes, NEW h \in HeadsIn(q)
  PROVE  h \in [len : Nat, cl : Nat]
<1>1. DOMAIN q = 1..Len(q) /\ Len(q) \in Nat BY EmptyLength, LenProperties DEF Bytes
<1>2. PICK i \in 1..Len(q) : h = [len |-> i, cl |-> q[i][1].size.cl] BY <1>1 DEF HeadsIn
<1>3. q[i] \in Reqs \X Nat BY <1>1, ElementOfSeq DEF Bytes
<1>4. q[i][1].size.cl \in Nat BY <1>3, ReqSizes
<1> QED BY <1>1, <1>2, <1>4

-----------------------------------------------------------------------------
(* Types *)

Parsings == {"parse", "cached", "body"}

\* Connections: one that epoll names a slot for is open.
FdsOK ==
  /\ open \subseteq Fds /\ idle \subseteq open /\ ended \subseteq open
  /\ tag \in [Fds -> Slots \cup {NoSlot}]
  /\ \A f \in Fds : tag[f] # NoSlot => f \in open
  /\ wire \in [Fds -> Bytes] /\ owed \in [Fds -> Seq(Reqs)]

\* Slots: an active one has a client, a connection and a request.
SlotsOK ==
  /\ conn \subseteq Slots /\ active \subseteq conn
  /\ up \in [Slots -> Fds \cup {NoFd}]
  /\ phase \in [Slots -> {"send_req", "send_body", "relay"}]
  /\ parsing \in [Slots -> Parsings]
  /\ left \in [Slots -> Int] /\ acc \in [Slots -> Bytes] /\ body \in [Slots -> Bytes]
  /\ req \in [Slots -> Reqs \cup {NoReq}]
  /\ result \in [Slots -> {"none", "ok", "err"}]
  /\ \A s \in active : up[s] \in Fds /\ req[s] \in Reqs

RestOK ==
  /\ cache \in [len : Nat, cl : Nat]
  /\ hung \in BOOLEAN /\ mixed \in BOOLEAN /\ requests \in 0..MaxRequests

TypeInv == FdsOK /\ SlotsOK /\ RestOK

LEMMA InvTypes == TypeInv => TypeOK
BY DEF TypeInv, FdsOK, SlotsOK, RestOK, TypeOK, Parsings, Reqs

\* A slot that only takes from its connection.
Stays(s, rest) ==
  /\ wire' = [wire EXCEPT ![up[s]] = rest]
  /\ UNCHANGED <<conn, active, up, result, open, idle, tag, owed, ended>>

\* What the steps of a relay have in common: the slot ends or stays, and what
\* is kept of the other slots stays the same.
Moves(s) ==
  /\ s \in active
  /\ UNCHANGED <<phase, req, hung, requests>>
  /\ parsing' \in [Slots -> Parsings] /\ left' \in [Slots -> Int]
  /\ acc' \in [Slots -> Bytes] /\ body' \in [Slots -> Bytes]
  /\ cache' \in [len : Nat, cl : Nat] /\ mixed' \in BOOLEAN
  /\ \A t \in Slots \ {s} : /\ parsing'[t] = parsing[t] /\ left'[t] = left[t]
                            /\ acc'[t] = acc[t] /\ body'[t] = body[t]
  /\ \/ \E rest \in Bytes : Stays(s, rest)
     \/ \E rest \in Bytes : Finish(s, "ok", rest) /\ up[s] \in open /\ UNCHANGED conn
     \/ Finish(s, "err", << >>) /\ Failed(s)

\* Closing a connection, in the pool or not, keeps what is known of all.
LEMMA CloseTyped ==
  ASSUME FdsOK, NEW f \in Fds, CloseFd(f)
  PROVE  FdsOK'
<1>1. << >> \in Bytes /\ << >> \in Seq(Reqs) BY EmptyLength, EmptySeq
<1> QED BY <1>1 DEF FdsOK, CloseFd

\* A relay that ends gives its connection back.
LEMMA FinishTyped ==
  ASSUME TypeInv, NEW s \in active, NEW how \in {"ok", "err"}, NEW rest \in Bytes,
         how = "ok" => up[s] \in open, Finish(s, how, rest)
  PROVE  /\ FdsOK' /\ active' = active \ {s} /\ up' = [up EXCEPT ![s] = NoFd]
         /\ result' \in [Slots -> {"none", "ok", "err"}]
<1>1. s \in Slots /\ up[s] \in Fds /\ FdsOK BY DEF TypeInv, SlotsOK
<1>2. active' = active \ {s} /\ up' = [up EXCEPT ![s] = NoFd]
      /\ result' = [result EXCEPT ![s] = how]
  BY DEF Finish
<1>3. FdsOK'
  <2>1. CASE how = "ok"
    <3>1. /\ idle' = idle \cup {up[s]} /\ tag' = [tag EXCEPT ![up[s]] = NoSlot]
          /\ wire' = [wire EXCEPT ![up[s]] = rest]
          /\ UNCHANGED open /\ UNCHANGED owed /\ UNCHANGED ended
      BY <2>1 DEF Finish, Reuse
    <3> QED BY <1>1, <2>1, <3>1 DEF FdsOK
  <2>2. CASE how = "err"
    BY <1>1, <2>2, CloseTyped DEF Finish, Reuse
  <2> QED BY <2>1, <2>2
<1>4. result' \in [Slots -> {"none", "ok", "err"}] BY <1>2 DEF TypeInv, SlotsOK
<1> QED BY <1>2, <1>3, <1>4

\* A step of a relay keeps the types.
LEMMA MovesTyped ==
  ASSUME TypeInv, NEW s \in Slots, Moves(s)
  PROVE  TypeInv'
<1>1. /\ s \in active /\ s \in Slots /\ up[s] \in Fds
      /\ UNCHANGED phase /\ UNCHANGED req /\ UNCHANGED hung /\ UNCHANGED requests
      /\ parsing' \in [Slots -> Parsings] /\ left' \in [Slots -> Int]
      /\ acc' \in [Slots -> Bytes] /\ body' \in [Slots -> Bytes]
      /\ cache' \in [len : Nat, cl : Nat] /\ mixed' \in BOOLEAN
  BY DEF Moves, TypeInv, SlotsOK
<1>2. RestOK' BY <1>1 DEF TypeInv, RestOK
<1>3. ASSUME NEW how \in {"ok", "err"}, NEW rest \in Bytes, how = "ok" => up[s] \in open,
             Finish(s, how, rest), Failed(s)
      PROVE  FdsOK' /\ SlotsOK'
  <2>1. /\ FdsOK' /\ active' = active \ {s} /\ up' = [up EXCEPT ![s] = NoFd]
        /\ result' \in [Slots -> {"none", "ok", "err"}]
    BY <1>1, <1>3, FinishTyped
  <2>2. conn' \subseteq Slots /\ active' \subseteq conn' BY <1>3, <2>1 DEF Failed, TypeInv, SlotsOK
  <2>3. up' \in [Slots -> Fds \cup {NoFd}] /\ \A t \in active' : up'[t] \in Fds /\ req'[t] \in Reqs
    BY <1>1, <2>1 DEF TypeInv, SlotsOK
  <2> QED BY <1>1, <2>1, <2>2, <2>3 DEF TypeInv, SlotsOK
<1>4. CASE \E rest \in Bytes : Stays(s, rest)
  <2>1. PICK rest \in Bytes : Stays(s, rest) BY <1>4
  <2>2. /\ wire' = [wire EXCEPT ![up[s]] = rest]
        /\ UNCHANGED conn /\ UNCHANGED active /\ UNCHANGED up /\ UNCHANGED result
        /\ UNCHANGED open /\ UNCHANGED idle /\ UNCHANGED tag /\ UNCHANGED owed /\ UNCHANGED ended
    BY <2>1 DEF Stays
  <2>3. FdsOK' BY <1>1, <2>2 DEF TypeInv, FdsOK
  <2>4. SlotsOK' BY <1>1, <2>2 DEF TypeInv, SlotsOK
  <2> QED BY <1>2, <2>3, <2>4 DEF TypeInv
<1>5. CASE \E rest \in Bytes : Finish(s, "ok", rest) /\ up[s] \in open /\ UNCHANGED conn
  <2>1. FdsOK' /\ SlotsOK' BY <1>3, <1>5 DEF Failed
  <2> QED BY <1>2, <2>1 DEF TypeInv
<1>6. CASE Finish(s, "err", << >>) /\ Failed(s)
  <2>1. FdsOK' /\ SlotsOK' BY <1>3, <1>6, EmptyLength
  <2> QED BY <1>2, <2>1 DEF TypeInv
<1> QED BY <1>4, <1>5, <1>6 DEF Moves

\* A slot that counts a body ends or stays.
LEMMA CountedMoves ==
  ASSUME TypeInv, NEW s \in active, tag[up[s]] = s, NEW lft \in Int, NEW rest \in Bytes,
         Counted(s, lft, rest)
  PROVE  /\ left' \in [Slots -> Int] /\ parsing' \in [Slots -> Parsings]
         /\ \A t \in Slots \ {s} : parsing'[t] = parsing[t] /\ left'[t] = left[t]
         /\ left'[s] = lft /\ parsing'[s] = "body"
         /\ \/ Stays(s, rest) /\ lft > 0
            \/ Finish(s, "ok", rest) /\ lft <= 0 /\ up[s] \in open /\ UNCHANGED conn
<1>1. s \in Slots /\ up[s] \in Fds /\ up[s] \in open
  BY ProxyAssumption DEF TypeInv, FdsOK, SlotsOK
<1>2. left' = [left EXCEPT ![s] = lft] /\ parsing' = [parsing EXCEPT ![s] = "body"]
      /\ UNCHANGED conn
  BY DEF Counted
<1>3. /\ left' \in [Slots -> Int] /\ parsing' \in [Slots -> Parsings]
      /\ \A t \in Slots \ {s} : parsing'[t] = parsing[t] /\ left'[t] = left[t]
      /\ left'[s] = lft /\ parsing'[s] = "body"
  BY <1>1, <1>2 DEF TypeInv, SlotsOK, Parsings
<1>4. \/ Stays(s, rest) /\ lft > 0
      \/ Finish(s, "ok", rest) /\ lft <= 0 /\ up[s] \in open /\ UNCHANGED conn
  <2>1. CASE lft <= 0
    <3>1. Finish(s, "ok", rest) BY <2>1 DEF Counted
    <3> QED BY <1>1, <1>2, <2>1, <3>1
  <2>2. CASE ~(lft <= 0)
    <3>1. Stays(s, rest) BY <2>2 DEF Counted, Stays
    <3>2. lft > 0 BY <2>2
    <3> QED BY <3>1, <3>2
  <2> QED BY <2>1, <2>2
<1> QED BY <1>3, <1>4

\* What a slot that receives may take from its connection.
LEMMA PieceTaken ==
  ASSUME TypeInv, NEW s \in active, tag[up[s]] = s, NEW n \in 1..Len(wire[up[s]])
  PROVE  /\ s \in Slots /\ up[s] \in Fds /\ up[s] \in open
         /\ wire[up[s]] \in Bytes /\ Len(wire[up[s]]) \in Nat
         /\ n \in Nat /\ n >= 1 /\ n <= Len(wire[up[s]]) /\ n \in 0..Len(wire[up[s]])
         /\ acc[s] \in Bytes /\ body[s] \in Bytes /\ left[s] \in Int /\ req[s] \in Reqs
         /\ Behind(wire[up[s]], n) \in Bytes /\ SubSeq(wire[up[s]], 1, n) \in Bytes
         /\ Len(Behind(wire[up[s]], n)) = Len(wire[up[s]]) - n
         /\ Len(SubSeq(wire[up[s]], 1, n)) = n
<1>1. s \in Slots /\ up[s] \in Fds /\ up[s] \in open /\ wire[up[s]] \in Bytes
      /\ acc[s] \in Bytes /\ body[s] \in Bytes /\ left[s] \in Int /\ req[s] \in Reqs
  BY ProxyAssumption DEF TypeInv, FdsOK, SlotsOK
<1>2. Len(wire[up[s]]) \in Nat BY <1>1, EmptyLength
<1>3. n \in 0..Len(wire[up[s]]) /\ n \in Nat /\ n >= 1 /\ n <= Len(wire[up[s]]) BY <1>2
<1> QED BY <1>1, <1>2, <1>3, CutTyped

\* proxy_li_pump_cl is a step of a relay.
LEMMA PumpMoves ==
  ASSUME TypeInv, NEW s \in Slots, proxy_li_pump_cl(s)
  PROVE  Moves(s)
<1>1. s \in active /\ tag[up[s]] = s BY DEF proxy_li_pump_cl, Receiving
<1>2. PICK n \in 1..Len(wire[up[s]]) :
        /\ body' = [body EXCEPT ![s] = @ \o SubSeq(wire[up[s]], 1, Least(n, left[s]))]
        /\ Counted(s, left[s] - Least(n, left[s]), Behind(wire[up[s]], n))
  BY DEF proxy_li_pump_cl
<1>3. /\ UNCHANGED phase /\ UNCHANGED acc /\ UNCHANGED cache /\ UNCHANGED req
      /\ UNCHANGED hung /\ UNCHANGED mixed /\ UNCHANGED requests
  BY DEF proxy_li_pump_cl
<1> DEFINE q == wire[up[s]]
<1>4. /\ q \in Bytes /\ Len(q) \in Nat /\ n \in Nat /\ n <= Len(q) /\ left[s] \in Int
      /\ Behind(q, n) \in Bytes /\ body[s] \in Bytes
  BY <1>1, PieceTaken
<1> HIDE DEF q
<1>5. Least(n, left[s]) \in Int /\ Least(n, left[s]) <= n BY <1>4 DEF Least
<1>6. SubSeq(q, 1, Least(n, left[s])) \in Bytes
  <2>1. CASE Least(n, left[s]) <= 0
    <3>1. SubSeq(q, 1, Least(n, left[s])) = << >> BY <1>4, <1>5, <2>1 DEF Bytes
    <3> QED BY <3>1, EmptyLength
  <2>2. CASE Least(n, left[s]) > 0
    <3>1. Least(n, left[s]) \in 0..Len(q) BY <1>4, <1>5, <2>2
    <3> QED BY <1>4, <3>1, CutTyped
  <2> QED BY <1>5, <2>1, <2>2
<1>7. body[s] \o SubSeq(q, 1, Least(n, left[s])) \in Bytes
  BY <1>4, <1>6, ConcatProperties DEF Bytes
<1>8. body' \in [Slots -> Bytes] /\ \A t \in Slots \ {s} : body'[t] = body[t]
  BY <1>2, <1>7 DEF q, TypeInv, SlotsOK
<1>9. left[s] - Least(n, left[s]) \in Int BY <1>4, <1>5
<1>10. /\ left' \in [Slots -> Int] /\ parsing' \in [Slots -> Parsings]
       /\ \A t \in Slots \ {s} : parsing'[t] = parsing[t] /\ left'[t] = left[t]
       /\ \/ Stays(s, Behind(q, n))
          \/ Finish(s, "ok", Behind(q, n)) /\ up[s] \in open /\ UNCHANGED conn
  BY <1>1, <1>2, <1>4, <1>9, CountedMoves DEF q
<1>11. acc' \in [Slots -> Bytes] /\ \A t \in Slots \ {s} : acc'[t] = acc[t]
  BY <1>3 DEF TypeInv, SlotsOK
<1>12. cache' \in [len : Nat, cl : Nat] /\ mixed' \in BOOLEAN BY <1>3 DEF TypeInv, RestOK
<1> QED BY <1>1, <1>3, <1>4, <1>8, <1>10, <1>11, <1>12 DEF Moves

\* So is proxy_li_finish_resp_headers, called with what came of a response.
LEMMA HeadersMoves ==
  ASSUME TypeInv, NEW s \in Slots, s \in active, tag[up[s]] = s,
         NEW q \in Bytes, NEW rest \in Bytes, proxy_li_finish_resp_headers(s, q, rest),
         acc' = acc, UNCHANGED <<phase, req, hung, requests>>
  PROVE  Moves(s)
<1>1. acc' \in [Slots -> Bytes] /\ acc \in [Slots -> Bytes] /\ left \in [Slots -> Int]
      /\ parsing \in [Slots -> Parsings] /\ body \in [Slots -> Bytes]
      /\ cache \in [len : Nat, cl : Nat] /\ mixed \in BOOLEAN /\ body[s] \in Bytes
  BY DEF TypeInv, SlotsOK, RestOK
<1>2. CASE proxy_li_finish_err(s) /\ UNCHANGED <<parsing, left, cache, body, mixed>>
  BY <1>1, <1>2 DEF Moves, proxy_li_finish_err
<1>3. ASSUME NEW first \in HeadsIn(q), NEW h \in {first} \cup ({cache} \ {NoHead}),
             cache' = h, Uses(s, h),
             \/ proxy_li_finish_err(s) /\ UNCHANGED <<parsing, left, body>>
             \/ /\ \E sent \in Least(1, Len(SentBehindHead(q, h)))..Len(SentBehindHead(q, h)) :
                     body' = [body EXCEPT ![s] = @ \o SubSeq(SentBehindHead(q, h), 1, sent)]
                /\ Counted(s, LeftBehindHead(h, SentBehindHead(q, h)), rest)
      PROVE  Moves(s)
  <2>1. h \in [len : Nat, cl : Nat] BY <1>1, HeadsTyped
  <2>2. cache' \in [len : Nat, cl : Nat] /\ mixed' \in BOOLEAN
    BY <1>1, <1>3, <2>1 DEF Uses
  <2>3. CASE proxy_li_finish_err(s) /\ UNCHANGED <<parsing, left, body>>
    BY <1>1, <2>2, <2>3 DEF Moves, proxy_li_finish_err
  <2>4. CASE /\ \E sent \in Least(1, Len(SentBehindHead(q, h)))..Len(SentBehindHead(q, h)) :
                  body' = [body EXCEPT ![s] = @ \o SubSeq(SentBehindHead(q, h), 1, sent)]
             /\ Counted(s, LeftBehindHead(h, SentBehindHead(q, h)), rest)
    <3> DEFINE tail == SentBehindHead(q, h)
    <3>1. tail \in Bytes /\ Len(tail) \in Nat /\ h.cl \in Int
      BY <2>1, BehindTyped, EmptyLength DEF SentBehindHead
    <3>2. PICK sent \in Least(1, Len(tail))..Len(tail) :
            body' = [body EXCEPT ![s] = @ \o SubSeq(tail, 1, sent)]
      BY <2>4
    <3>3. sent \in 0..Len(tail) BY <3>1, <3>2 DEF Least
    <3>4. Counted(s, h.cl - Len(tail), rest) BY <2>4 DEF LeftBehindHead
    <3> HIDE DEF tail
    <3>5. SubSeq(tail, 1, sent) \in Bytes BY <3>1, <3>3, CutTyped
    <3>6. body[s] \o SubSeq(tail, 1, sent) \in Bytes
      BY <1>1, <3>5, ConcatProperties DEF Bytes
    <3>7. body' \in [Slots -> Bytes] /\ \A t \in Slots \ {s} : body'[t] = body[t]
      BY <1>1, <3>2, <3>6
    <3>8. h.cl - Len(tail) \in Int BY <3>1
    <3>9. /\ left' \in [Slots -> Int] /\ parsing' \in [Slots -> Parsings]
          /\ \A t \in Slots \ {s} : parsing'[t] = parsing[t] /\ left'[t] = left[t]
          /\ \/ Stays(s, rest)
             \/ Finish(s, "ok", rest) /\ up[s] \in open /\ UNCHANGED conn
      BY <3>4, <3>8, CountedMoves
    <3> QED BY <1>1, <2>2, <3>7, <3>9 DEF Moves
  <2> QED BY <1>3, <2>3, <2>4
<1> QED BY <1>2, <1>3 DEF proxy_li_finish_resp_headers

LEMMA ParseMoves ==
  ASSUME TypeInv, NEW s \in Slots, proxy_li_on_up_recv_parse(s)
  PROVE  Moves(s)
<1>1. s \in active /\ tag[up[s]] = s BY DEF proxy_li_on_up_recv_parse, Receiving
<1>2. PICK n \in 1..Len(wire[up[s]]) :
        proxy_li_finish_resp_headers(s, SubSeq(wire[up[s]], 1, n), Behind(wire[up[s]], n))
  BY DEF proxy_li_on_up_recv_parse
<1>3. acc' = acc /\ UNCHANGED <<phase, req, hung, requests>> BY DEF proxy_li_on_up_recv_parse
<1>4. SubSeq(wire[up[s]], 1, n) \in Bytes /\ Behind(wire[up[s]], n) \in Bytes
  BY <1>1, PieceTaken
<1> QED BY <1>1, <1>2, <1>3, <1>4, HeadersMoves

\* The three ways proxy_li_feed_cached_hdr goes, for a piece of n bytes.
FeedLost(s, n) ==
  /\ Len(acc[s]) >= cache.len
  /\ proxy_li_finish_resp_headers(s, acc[s], Behind(wire[up[s]], n))
  /\ UNCHANGED acc

FeedMore(s, n) ==
  /\ Len(acc[s]) + n < cache.len
  /\ acc' = [acc EXCEPT ![s] = acc[s] \o SubSeq(wire[up[s]], 1, n)]
  /\ Stays(s, Behind(wire[up[s]], n))
  /\ UNCHANGED <<parsing, left, cache, body, mixed>>

FeedLast(s, n) ==
  /\ Len(acc[s]) < cache.len /\ Len(acc[s]) + n >= cache.len
  /\ acc' = [acc EXCEPT ![s] = acc[s] \o SubSeq(wire[up[s]], 1, cache.len - Len(acc[s]))]
  /\ Uses(s, cache)
  /\ Counted(s, cache.cl - (Len(acc[s]) + n - cache.len), Behind(wire[up[s]], n))
  /\ UNCHANGED <<cache, body>>

LEMMA FeedCases ==
  ASSUME NEW s \in Slots, proxy_li_feed_cached_hdr(s)
  PROVE  \E n \in 1..Len(wire[up[s]]) : FeedLost(s, n) \/ FeedMore(s, n) \/ FeedLast(s, n)
BY DEF proxy_li_feed_cached_hdr, FeedLost, FeedMore, FeedLast, Stays

LEMMA CachedMoves ==
  ASSUME TypeInv, NEW s \in Slots, proxy_li_feed_cached_hdr(s)
  PROVE  Moves(s)
<1>1. s \in active /\ tag[up[s]] = s /\ UNCHANGED <<phase, req, hung, requests>>
  BY DEF proxy_li_feed_cached_hdr, Receiving
<1>2. PICK n \in 1..Len(wire[up[s]]) : FeedLost(s, n) \/ FeedMore(s, n) \/ FeedLast(s, n)
  BY FeedCases
<1> DEFINE q == wire[up[s]]
<1>3. /\ q \in Bytes /\ Len(q) \in Nat /\ n \in Nat /\ n <= Len(q) /\ acc[s] \in Bytes
      /\ Behind(q, n) \in Bytes /\ SubSeq(q, 1, n) \in Bytes /\ Len(acc[s]) \in Nat
  BY <1>1, PieceTaken, EmptyLength
<1>4. /\ acc \in [Slots -> Bytes] /\ left \in [Slots -> Int] /\ body \in [Slots -> Bytes]
      /\ parsing \in [Slots -> Parsings]
      /\ cache \in [len : Nat, cl : Nat] /\ mixed \in BOOLEAN
  BY DEF TypeInv, SlotsOK, RestOK
<1>5. CASE FeedLost(s, n)
  BY <1>1, <1>3, <1>5, HeadersMoves DEF FeedLost
<1>6. CASE FeedMore(s, n)
  <2>1. /\ acc' = [acc EXCEPT ![s] = acc[s] \o SubSeq(q, 1, n)]
        /\ Stays(s, Behind(q, n))
        /\ UNCHANGED <<parsing, left, cache, body, mixed>>
    BY <1>6 DEF FeedMore
  <2> HIDE DEF q
  <2>2. acc[s] \o SubSeq(q, 1, n) \in Bytes BY <1>3, ConcatProperties DEF Bytes
  <2>3. acc' \in [Slots -> Bytes] /\ \A t \in Slots \ {s} : acc'[t] = acc[t]
    BY <1>4, <2>1, <2>2
  <2> QED BY <1>1, <1>3, <1>4, <2>1, <2>3 DEF Moves
<1>7. CASE FeedLast(s, n)
  <2>1. /\ Len(acc[s]) < cache.len /\ Len(acc[s]) + n >= cache.len
        /\ acc' = [acc EXCEPT ![s] = acc[s] \o SubSeq(q, 1, cache.len - Len(acc[s]))]
        /\ Uses(s, cache)
        /\ Counted(s, cache.cl - (Len(acc[s]) + n - cache.len), Behind(q, n))
        /\ UNCHANGED <<cache, body>>
    BY <1>7 DEF FeedLast
  <2> HIDE DEF q
  <2>2. cache.len \in Nat /\ cache.cl \in Nat BY <1>4
  <2>3. cache.len - Len(acc[s]) \in 0..Len(q) BY <1>3, <2>1, <2>2
  <2>4. acc[s] \o SubSeq(q, 1, cache.len - Len(acc[s])) \in Bytes
    <3>1. SubSeq(q, 1, cache.len - Len(acc[s])) \in Bytes BY <1>3, <2>3, CutTyped
    <3> QED BY <1>3, <3>1, ConcatProperties DEF Bytes
  <2>5. acc' \in [Slots -> Bytes] /\ \A t \in Slots \ {s} : acc'[t] = acc[t]
    BY <1>4, <2>1, <2>4
  <2>6. cache.cl - (Len(acc[s]) + n - cache.len) \in Int BY <1>3, <2>2
  <2>7. /\ left' \in [Slots -> Int] /\ parsing' \in [Slots -> Parsings]
        /\ \A t \in Slots \ {s} : parsing'[t] = parsing[t] /\ left'[t] = left[t]
        /\ \/ Stays(s, Behind(q, n))
           \/ Finish(s, "ok", Behind(q, n)) /\ up[s] \in open /\ UNCHANGED conn
    BY <1>1, <1>3, <2>1, <2>6, CountedMoves
  <2>8. mixed' \in BOOLEAN BY <1>4, <2>1 DEF Uses
  <2> QED BY <1>1, <1>3, <1>4, <2>1, <2>5, <2>7, <2>8 DEF Moves
<1> QED BY <1>2, <1>5, <1>6, <1>7

\* So are the ways a relay fails.
LEMMA FailMoves ==
  ASSUME TypeInv, NEW s \in active, proxy_li_finish_err(s),
         UNCHANGED <<phase, parsing, left, acc, cache, req, body, hung, mixed, requests>>
  PROVE  Moves(s)
<1>1. s \in Slots /\ acc \in [Slots -> Bytes] /\ left \in [Slots -> Int]
      /\ body \in [Slots -> Bytes] /\ parsing \in [Slots -> Parsings]
      /\ cache \in [len : Nat, cl : Nat] /\ mixed \in BOOLEAN
  BY DEF TypeInv, SlotsOK, RestOK
<1> QED BY <1>1 DEF Moves, proxy_li_finish_err

\* The events that are steps of a relay.
Relays(s) ==
  \/ s \in active /\ ClientHangup(s)
  \/ Fails(s) \/ UpEnds(s)
  \/ proxy_li_pump_cl(s) \/ proxy_li_on_up_recv_parse(s) \/ proxy_li_feed_cached_hdr(s)

LEMMA RelaysMoves ==
  ASSUME TypeInv, NEW s \in Slots, Relays(s)
  PROVE  Moves(s)
<1>1. CASE s \in active /\ ClientHangup(s)
  BY <1>1, FailMoves DEF ClientHangup, proxy_li_finish_err, Failed
<1>2. CASE Fails(s) BY <1>2, FailMoves DEF Fails
<1>3. CASE UpEnds(s) BY <1>3, FailMoves DEF UpEnds, Receiving
<1> QED BY <1>1, <1>2, <1>3, PumpMoves, ParseMoves, CachedMoves DEF Relays

-----------------------------------------------------------------------------
LEMMA TypeInit == Init => TypeInv
<1> SUFFICES ASSUME Init PROVE TypeInv OBVIOUS
<1> USE ProxyAssumption
<1>1. << >> \in Bytes /\ << >> \in Seq(Reqs) BY EmptyLength, EmptySeq
<1>2. FdsOK BY <1>1 DEF Init, FdsOK
<1>3. SlotsOK BY <1>1 DEF Init, SlotsOK, Parsings
<1>4. RestOK
  <2>1. cache \in [len : Nat, cl : Nat] BY DEF Init, NoHead
  <2>2. hung \in BOOLEAN /\ mixed \in BOOLEAN BY DEF Init
  <2>3. requests \in 0..MaxRequests BY DEF Init
  <2> QED BY <2>1, <2>2, <2>3 DEF RestOK
<1> QED BY <1>2, <1>3, <1>4 DEF TypeInv

\* A request is counted, and its client may be disconnected.
LEMMA RequestTyped ==
  ASSUME TypeInv, NEW s \in Slots, Requested(s), Failed(s)
  PROVE  requests' \in 0..MaxRequests /\ conn' \subseteq Slots /\ active \subseteq conn'
BY ProxyAssumption DEF Requested, Failed, TypeInv, SlotsOK, RestOK

\* Every step keeps the types.
LEMMA TypeNext == TypeInv /\ [Next]_vars => TypeInv'
<1> SUFFICES ASSUME TypeInv, [Next]_vars PROVE TypeInv' OBVIOUS
<1> USE ProxyAssumption
<1>1. ASSUME NEW s \in Slots, proxy_accept_batch(s) PROVE TypeInv'
  BY <1>1 DEF proxy_accept_batch, TypeInv, FdsOK, SlotsOK, RestOK, slotVars, fdVars, seen
<1>2. ASSUME NEW s \in Slots, s \notin active, ClientHangup(s) PROVE TypeInv'
  BY <1>2 DEF ClientHangup, TypeInv, FdsOK, SlotsOK, RestOK, fdVars
<1>3. ASSUME NEW s \in Slots, proxy_li_start(s) PROVE TypeInv'
  <2>1. PICK f \in Fds :
          /\ open' = open \cup {f} /\ idle' = idle \ {f}
          /\ tag' = [tag EXCEPT ![f] = s]
          /\ up' = [up EXCEPT ![s] = f]
    BY <1>3 DEF proxy_li_start
  <2>2. PICK z \in Sizes : req' = [req EXCEPT ![s] = [n |-> requests', size |-> z]]
    BY <1>3 DEF proxy_li_start
  <2>3. /\ s \in conn /\ requests < MaxRequests /\ requests' = requests + 1
        /\ active' = active \cup {s}
        /\ phase' = [phase EXCEPT ![s] = "send_req"]
        /\ acc' = [acc EXCEPT ![s] = << >>] /\ left' = [left EXCEPT ![s] = 0]
        /\ body' = [body EXCEPT ![s] = << >>]
        /\ result' = [result EXCEPT ![s] = "none"]
        /\ UNCHANGED conn /\ UNCHANGED parsing /\ UNCHANGED wire /\ UNCHANGED owed
        /\ UNCHANGED ended /\ UNCHANGED cache /\ UNCHANGED hung /\ UNCHANGED mixed
    BY <1>3 DEF proxy_li_start, Requested
  <2>4. FdsOK' BY <2>1, <2>3 DEF TypeInv, FdsOK
  <2>5. requests' \in 1..MaxRequests /\ requests' \in 0..MaxRequests
    BY <2>3 DEF TypeInv, RestOK
  <2>6. [n |-> requests', size |-> z] \in Reqs BY <2>5 DEF Reqs
  <2>7. /\ req' \in [Slots -> Reqs \cup {NoReq}] /\ up' \in [Slots -> Fds \cup {NoFd}]
        /\ \A t \in active' : up'[t] \in Fds /\ req'[t] \in Reqs
    BY <2>1, <2>2, <2>3, <2>6 DEF TypeInv, SlotsOK
  <2>8. acc' \in [Slots -> Bytes] /\ body' \in [Slots -> Bytes]
    BY <2>3, EmptyLength DEF TypeInv, SlotsOK
  <2>9. /\ conn' \subseteq Slots /\ active' \subseteq conn' /\ left' \in [Slots -> Int]
        /\ phase' \in [Slots -> {"send_req", "send_body", "relay"}]
        /\ parsing' \in [Slots -> Parsings] /\ result' \in [Slots -> {"none", "ok", "err"}]
    BY <2>3 DEF TypeInv, SlotsOK
  <2>10. SlotsOK' BY <2>7, <2>8, <2>9 DEF SlotsOK
  <2> QED BY <2>3, <2>4, <2>5, <2>10 DEF TypeInv, RestOK
<1>4. ASSUME NEW s \in Slots, MarkFails(s) PROVE TypeInv'
  <2>1. FdsOK' BY <1>4, CloseTyped DEF MarkFails, TypeInv
  <2>2. Requested(s) /\ Failed(s) /\ UNCHANGED slotVars /\ UNCHANGED cache /\ UNCHANGED seen
        /\ UNCHANGED hung /\ UNCHANGED mixed
    BY <1>4 DEF MarkFails
  <2> QED BY <2>1, <2>2, RequestTyped DEF TypeInv, SlotsOK, RestOK, slotVars, seen
<1>5. ASSUME NEW s \in Slots, AcquireFails(s) PROVE TypeInv'
  <2>1. Requested(s) /\ Failed(s) /\ UNCHANGED slotVars /\ UNCHANGED cache /\ UNCHANGED seen
        /\ UNCHANGED fdVars /\ UNCHANGED hung /\ UNCHANGED mixed
    BY <1>5 DEF AcquireFails
  <2> QED BY <2>1, RequestTyped DEF TypeInv, FdsOK, SlotsOK, RestOK, slotVars, fdVars, seen
<1>6. ASSUME NEW s \in Slots, proxy_li_pump_send(s) PROVE TypeInv'
  <2>1. phase' \in [Slots -> {"send_req", "send_body", "relay"}]
    BY <1>6 DEF proxy_li_pump_send, TypeInv, SlotsOK
  <2> QED BY <1>6, <2>1 DEF proxy_li_pump_send, TypeInv, FdsOK, SlotsOK, RestOK, fdVars, seen
<1>7. ASSUME NEW s \in Slots, proxy_li_enter_relay(s) PROVE TypeInv'
  <2>1. /\ phase' \in [Slots -> {"send_req", "send_body", "relay"}]
        /\ parsing' \in [Slots -> Parsings]
    BY <1>7 DEF proxy_li_enter_relay, TypeInv, SlotsOK, Parsings
  <2>2. s \in active /\ owed' = IF up[s] \in open THEN [owed EXCEPT ![up[s]] = Append(@, req[s])]
                                ELSE owed
    BY <1>7 DEF proxy_li_enter_relay, Sending
  <2>3. up[s] \in Fds /\ req[s] \in Reqs /\ owed[up[s]] \in Seq(Reqs)
    BY <2>2 DEF TypeInv, FdsOK, SlotsOK
  <2>4. Append(owed[up[s]], req[s]) \in Seq(Reqs) BY <2>3, AppendProperties
  <2>5. owed' \in [Fds -> Seq(Reqs)] BY <2>2, <2>4 DEF TypeInv, FdsOK
  <2> QED BY <1>7, <2>1, <2>5 DEF proxy_li_enter_relay, TypeInv, FdsOK, SlotsOK, RestOK, seen
<1>8. ASSUME NEW s \in Slots, Relays(s) PROVE TypeInv'
  BY <1>8, RelaysMoves, MovesTyped
<1>9. ASSUME NEW f \in Fds, Answer(f) PROVE TypeInv'
  <2>1. /\ f \in open /\ owed[f] # << >>
        /\ owed' = [owed EXCEPT ![f] = Tail(@)]
        /\ UNCHANGED <<conn, slotVars, cache, open, idle, tag, seen, hung, mixed, requests>>
    BY <1>9 DEF Answer
  <2>2. PICK n \in 0..Len(Response(Head(owed[f]))) :
          /\ wire' = [wire EXCEPT ![f] = @ \o SubSeq(Response(Head(owed[f])), 1, n)]
          /\ ended' = IF n < Len(Response(Head(owed[f]))) THEN ended \cup {f} ELSE ended
    BY <1>9 DEF Answer
  <2>3. owed[f] \in Seq(Reqs) /\ wire[f] \in Bytes BY DEF TypeInv, FdsOK
  <2>4. Head(owed[f]) \in Reqs /\ Tail(owed[f]) \in Seq(Reqs)
    BY <2>1, <2>3, HeadTailProperties
  <2>5. \A r \in Reqs : \A m \in 0..Len(Response(r)) : SubSeq(Response(r), 1, m) \in Bytes
    <3>1. SUFFICES ASSUME NEW r \in Reqs, NEW m \in 0..Len(Response(r))
                   PROVE  SubSeq(Response(r), 1, m) \in Bytes
      OBVIOUS
    <3>2. Total(r) \in Nat BY ReqSizes
    <3>3. 0 \in 0..Total(r) BY <3>2
    <3>4. Len(Response(r)) = Total(r) BY <3>3, ResponsePiece
    <3> QED BY <3>4, ResponsePiece
  <2>6. SubSeq(Response(Head(owed[f])), 1, n) \in Bytes BY <2>2, <2>4, <2>5
  <2>7. wire[f] \o SubSeq(Response(Head(owed[f])), 1, n) \in Bytes
    BY <2>3, <2>6, ConcatProperties DEF Bytes
  <2>8. FdsOK' BY <2>1, <2>2, <2>4, <2>7 DEF TypeInv, FdsOK
  <2> QED BY <2>1, <2>8 DEF TypeInv, SlotsOK, RestOK, slotVars, seen
<1>10. ASSUME NEW f \in Fds, UpHangup(f) PROVE TypeInv'
  <2>1. FdsOK' BY <1>10, CloseTyped DEF UpHangup, TypeInv
  <2>2. UNCHANGED <<conn, slotVars, cache, seen, mixed, requests>> /\ hung' = TRUE
    BY <1>10 DEF UpHangup
  <2> QED BY <2>1, <2>2 DEF TypeInv, SlotsOK, RestOK, slotVars, seen
<1>11. ASSUME NEW f \in Fds, CloseIdle(f) PROVE TypeInv'
  BY <1>11 DEF CloseIdle, TypeInv, FdsOK, SlotsOK, RestOK, slotVars, seen
<1>12. CASE UNCHANGED vars
  BY <1>12 DEF vars, TypeInv, FdsOK, SlotsOK, RestOK, slotVars, fdVars, seen
<1> QED
  BY <1>1, <1>2, <1>3, <1>4, <1>5, <1>6, <1>7, <1>8, <1>9, <1>10, <1>11, <1>12
     DEF Next, Relays

\* In every state the variables have their types.
LEMMA TypeAlways == Spec => []TypeInv
BY TypeInit, TypeNext, PTL DEF Spec

\* TypeOK: only open connections are in the pool, and only a slot with a client
\* relays, after any failure, hang-up or response that was counted wrong.
THEOREM TypeCorrect == Spec => []TypeOK
BY TypeAlways, InvTypes, PTL

-----------------------------------------------------------------------------
(* Ownership *)

\* Each open connection has one owner.
Owned ==
  /\ open = idle \cup {up[s] : s \in active}
  /\ \A s \in active : up[s] \notin idle /\ tag[up[s]] = s

\* No two slots have one connection.
LEMMA Distinct ==
  ASSUME TypeInv, Owned, NEW s \in active, NEW t \in active, t # s
  PROVE  up[t] # up[s] /\ up[t] \in Fds /\ up[s] \in Fds /\ s \in Slots /\ t \in Slots
<1>1. tag[up[s]] = s /\ tag[up[t]] = t BY DEF Owned
<1>2. up[t] \in Fds /\ up[s] \in Fds /\ s \in Slots /\ t \in Slots BY DEF TypeInv, SlotsOK
<1> QED BY <1>1, <1>2

\* A relay that ends gives its connection to the pool or closes it.
LEMMA FinishEffects ==
  ASSUME TypeInv, Owned, NEW s \in active, NEW how \in {"ok", "err"}, NEW rest, Finish(s, how, rest)
  PROVE  /\ s \in Slots /\ up[s] \in Fds /\ up[s] \in open /\ up[s] \notin idle
         /\ active' = active \ {s} /\ up' = [up EXCEPT ![s] = NoFd]
         /\ tag' = [tag EXCEPT ![up[s]] = NoSlot]
         /\ \/ /\ how = "ok" /\ idle' = idle \cup {up[s]}
               /\ wire' = [wire EXCEPT ![up[s]] = rest]
               /\ open' = open /\ owed' = owed /\ ended' = ended
            \/ /\ how = "err" /\ open' = open \ {up[s]} /\ idle' = idle /\ ended' = ended \ {up[s]}
               /\ wire' = [wire EXCEPT ![up[s]] = << >>]
               /\ owed' = [owed EXCEPT ![up[s]] = << >>]
<1>1. s \in Slots /\ up[s] \in Fds /\ up[s] \in open /\ up[s] \notin idle
  BY DEF Owned, TypeInv, SlotsOK
<1>2. idle \ {up[s]} = idle BY <1>1
<1> QED BY <1>1, <1>2 DEF Finish, Reuse, CloseFd

LEMMA FinishOwned ==
  ASSUME TypeInv, Owned, NEW s \in active, NEW how \in {"ok", "err"}, NEW rest, Finish(s, how, rest)
  PROVE  Owned'
<1>1. /\ s \in Slots /\ up[s] \in Fds /\ up[s] \in open /\ up[s] \notin idle
      /\ active' = active \ {s} /\ up' = [up EXCEPT ![s] = NoFd]
      /\ tag' = [tag EXCEPT ![up[s]] = NoSlot]
      /\ \/ idle' = idle \cup {up[s]} /\ open' = open
         \/ idle' = idle /\ open' = open \ {up[s]}
  BY FinishEffects
<1>2. \A t \in active' : /\ t \in active /\ t \in Slots /\ up'[t] = up[t]
                         /\ up[t] # up[s] /\ up[t] \in Fds
  BY <1>1, Distinct DEF TypeInv, SlotsOK
<1>3. open' = idle' \cup {up'[t] : t \in active'}
  <2>1. {up'[t] : t \in active'} = {up[t] : t \in active} \ {up[s]}
    BY <1>1, <1>2
  <2> QED BY <1>1, <2>1 DEF Owned
<1>4. \A t \in active' : up'[t] \notin idle' /\ tag'[up'[t]] = t
  BY <1>1, <1>2 DEF Owned, TypeInv, FdsOK
<1> QED BY <1>3, <1>4 DEF Owned

LEMMA MovesOwned ==
  ASSUME TypeInv, Owned, NEW s \in Slots, Moves(s)
  PROVE  Owned'
<1>1. CASE \E rest \in Bytes : Stays(s, rest) BY <1>1 DEF Stays, Owned
<1>2. CASE \E rest \in Bytes : Finish(s, "ok", rest) /\ up[s] \in open /\ UNCHANGED conn
  BY <1>2, FinishOwned DEF Moves
<1>3. CASE Finish(s, "err", << >>) /\ Failed(s) BY <1>3, FinishOwned DEF Moves
<1> QED BY <1>1, <1>2, <1>3 DEF Moves

\* What a step that begins a relay does.
LEMMA StartEffects ==
  ASSUME TypeInv, Owned, NEW s \in Slots, proxy_li_start(s)
  PROVE  \E f \in Fds :
           /\ f \in idle \/ f \notin open
           /\ open' = open \cup {f} /\ idle' = idle \ {f}
           /\ tag' = [tag EXCEPT ![f] = s] /\ up'[s] = f /\ s \notin active
           /\ active' = active \cup {s}
           /\ \A t \in active : t \in Slots /\ t # s /\ up[t] \in Fds /\ up[t] # f /\ up'[t] = up[t]
<1>1. PICK f \in Fds :
        /\ Acquired(f)
        /\ open' = open \cup {f} /\ idle' = idle \ {f}
        /\ tag' = [tag EXCEPT ![f] = s]
        /\ up' = [up EXCEPT ![s] = f]
  BY DEF proxy_li_start
<1>2. s \notin active /\ active' = active \cup {s} BY DEF proxy_li_start, Requested
<1>3. f \in idle \/ f \notin open BY <1>1 DEF Acquired
<1>4. \A t \in active : t \in Slots /\ t # s /\ up[t] \in Fds /\ up[t] # f /\ up'[t] = up[t]
  BY <1>1, <1>2, <1>3 DEF Owned, TypeInv, SlotsOK
<1>5. up'[s] = f BY <1>1 DEF TypeInv, SlotsOK
<1> QED BY <1>1, <1>2, <1>3, <1>4, <1>5

\* A connection that was acquired for nothing is not of a slot.
LEMMA MarkEffects ==
  ASSUME TypeInv, Owned, NEW s \in Slots, MarkFails(s)
  PROVE  \E f \in Fds :
           /\ open' = open \ {f} /\ idle' = idle \ {f} /\ ended' = ended \ {f}
           /\ tag' = [tag EXCEPT ![f] = NoSlot]
           /\ wire' = [wire EXCEPT ![f] = << >>] /\ owed' = [owed EXCEPT ![f] = << >>]
           /\ \A t \in active : t \in Slots /\ up[t] \in Fds /\ up[t] # f
<1>1. PICK f \in Fds : Acquired(f) /\ CloseFd(f) BY DEF MarkFails
<1>2. f \in idle \/ f \notin open BY <1>1 DEF Acquired
<1>3. \A t \in active : t \in Slots /\ up[t] \in Fds /\ up[t] # f
  BY <1>2 DEF Owned, TypeInv, SlotsOK
<1> QED BY <1>1, <1>3 DEF CloseFd

\* Every step that is not a hangup of an active upstream keeps the ownership.
LEMMA OwnedNext == TypeInv /\ Owned /\ [Next]_vars => hung' \/ Owned'
<1> SUFFICES ASSUME TypeInv, Owned, [Next]_vars PROVE hung' \/ Owned' OBVIOUS
<1>1. ASSUME NEW s \in Slots, proxy_li_start(s) PROVE Owned'
  <2>1. PICK f \in Fds :
          /\ f \in idle \/ f \notin open
          /\ open' = open \cup {f} /\ idle' = idle \ {f}
          /\ tag' = [tag EXCEPT ![f] = s] /\ up'[s] = f /\ s \notin active
          /\ active' = active \cup {s}
          /\ \A t \in active : t \in Slots /\ t # s /\ up[t] \in Fds /\ up[t] # f /\ up'[t] = up[t]
    BY <1>1, StartEffects
  <2>2. open' = idle' \cup {up'[t] : t \in active'}
    <3>1. {up'[t] : t \in active'} = {up[t] : t \in active} \cup {f} BY <2>1
    <3> QED BY <2>1, <3>1 DEF Owned
  <2>3. \A t \in active' : up'[t] \notin idle' /\ tag'[up'[t]] = t
    BY <2>1 DEF Owned, TypeInv, FdsOK
  <2> QED BY <2>2, <2>3 DEF Owned
<1>2. ASSUME NEW s \in Slots, MarkFails(s) PROVE Owned'
  <2>1. PICK f \in Fds :
          /\ open' = open \ {f} /\ idle' = idle \ {f}
          /\ tag' = [tag EXCEPT ![f] = NoSlot]
          /\ \A t \in active : t \in Slots /\ up[t] \in Fds /\ up[t] # f
    BY <1>2, MarkEffects
  <2>2. UNCHANGED active /\ UNCHANGED up BY <1>2 DEF MarkFails, slotVars
  <2> QED BY <2>1, <2>2 DEF Owned, TypeInv, FdsOK
<1>3. ASSUME UNCHANGED <<active, up, open, idle, tag>> PROVE Owned'
  BY <1>3 DEF Owned
<1>4. ASSUME NEW s \in Slots, s \notin active, ClientHangup(s) PROVE Owned'
  BY <1>3, <1>4 DEF ClientHangup, fdVars
<1>5. ASSUME NEW s \in Slots,
             \/ proxy_accept_batch(s) \/ AcquireFails(s)
             \/ proxy_li_pump_send(s) \/ proxy_li_enter_relay(s)
      PROVE  Owned'
  BY <1>3, <1>5 DEF proxy_accept_batch, AcquireFails, proxy_li_pump_send, proxy_li_enter_relay,
     slotVars, fdVars
<1>6. ASSUME NEW s \in Slots, Relays(s) PROVE Owned' BY <1>6, RelaysMoves, MovesOwned
<1>7. ASSUME NEW f \in Fds, UpHangup(f) PROVE hung' BY <1>7 DEF UpHangup
<1>8. ASSUME NEW f \in Fds, Answer(f) \/ CloseIdle(f) PROVE Owned'
  BY <1>3, <1>8 DEF Answer, CloseIdle, slotVars
<1>9. CASE UNCHANGED vars BY <1>3, <1>9 DEF vars, slotVars, fdVars
<1> QED
  BY <1>1, <1>2, <1>4, <1>5, <1>6, <1>7, <1>8, <1>9 DEF Next, Relays

LEMMA OwnedInit == Init => Owned
BY DEF Init, Owned

-----------------------------------------------------------------------------
(* What is on a connection *)

\* A slot to which nothing has come.
Waiting(s) == wire[up[s]] = << >> /\ acc[s] = << >>

\* A slot that reads a head: what was kept and what is to be received are the
\* beginning of its response, all of it unless the upstream broke off.
Coming(s) ==
  /\ owed[up[s]] = << >>
  /\ Piece(acc[s], req[s], 0) /\ Piece(wire[up[s]], req[s], Len(acc[s]))
  /\ Len(acc[s]) + Len(wire[up[s]]) <= Total(req[s])
  /\ up[s] \in ended \/ Len(acc[s]) + Len(wire[up[s]]) = Total(req[s])

InHead(s) ==
  /\ (Waiting(s) /\ owed[up[s]] = <<req[s]>>) \/ Coming(s)
  /\ parsing[s] = "parse" => acc[s] = << >>
  /\ parsing[s] = "cached" => Len(acc[s]) < cache.len

\* A slot that reads a body never has more to receive than it counts on, and
\* what it has is what follows the bytes it counted.
InBody(s) ==
  /\ owed[up[s]] = << >> /\ left[s] > 0 /\ Len(wire[up[s]]) <= left[s]
  /\ up[s] \in ended \/ Len(wire[up[s]]) = left[s]
  /\ Piece(wire[up[s]], req[s], Total(req[s]) - left[s])

Fits(s) ==
  IF phase[s] # "relay" THEN Waiting(s) /\ owed[up[s]] = << >>
  ELSE IF parsing[s] = "body" THEN InBody(s) ELSE InHead(s)

\* What is on a connection is its owner's.
Clean ==
  /\ \A f \in idle \cup (Fds \ open) : wire[f] = << >> /\ owed[f] = << >>
  /\ \A s \in active : Fits(s)

\* A step that relays no response by a head of another size replaces no head
\* that is kept.
CacheKept == cache.len = 0 \/ cache' = cache

\* What a step leaves alone still fits.
LEMMA FitsKept ==
  ASSUME TypeInv, NEW s \in Slots, Fits(s), CacheKept, up'[s] = up[s], phase'[s] = phase[s],
         parsing'[s] = parsing[s], left'[s] = left[s], acc'[s] = acc[s], req'[s] = req[s],
         wire'[up[s]] = wire[up[s]], owed'[up[s]] = owed[up[s]],
         up[s] \in ended' <=> up[s] \in ended
  PROVE  Fits(s)'
<1>1. Len(acc[s]) \in Nat BY EmptyLength DEF TypeInv, SlotsOK
<1>2. Len(acc[s]) < cache.len => cache' = cache BY <1>1 DEF CacheKept
<1> QED BY <1>2 DEF Fits, Waiting, Coming, InHead, InBody

\* A head of another size, once used, is remembered; else the one that is kept
\* is the one of this response.
LEMMA UsesOwn ==
  ASSUME TypeInv, NEW s \in Slots, NEW h, Uses(s, h), ~mixed'
  PROVE  h = req[s].size /\ cache \in {NoHead, h}
BY DEF Uses, TypeInv, RestOK

\* The frame of a step of a relay: the other slots fit.
LEMMA OthersFit ==
  ASSUME TypeInv, Owned, Clean, NEW s \in active, CacheKept,
         UNCHANGED <<phase, req>>,
         \A t \in Slots \ {s} : parsing'[t] = parsing[t] /\ left'[t] = left[t] /\ acc'[t] = acc[t],
         \A t \in active \ {s} : up'[t] = up[t],
         \A f \in Fds \ {up[s]} : /\ wire'[f] = wire[f] /\ owed'[f] = owed[f]
                                  /\ (f \in ended' <=> f \in ended)
  PROVE  \A t \in active \ {s} : Fits(t)'
<1>1. SUFFICES ASSUME NEW t \in active \ {s} PROVE Fits(t)' OBVIOUS
<1>2. t \in Slots /\ up[t] # up[s] /\ up[t] \in Fds BY Distinct
<1>3. Fits(t) BY DEF Clean
<1> QED BY <1>2, <1>3, FitsKept

\* A relay that ends leaves a clean connection, if all was received.
LEMMA FinishClean ==
  ASSUME TypeInv, Owned, Clean, NEW s \in active, NEW how \in {"ok", "err"}, NEW rest,
         Finish(s, how, rest), how = "ok" => rest = << >> /\ owed[up[s]] = << >>,
         CacheKept, UNCHANGED <<phase, req>>,
         \A t \in Slots \ {s} : parsing'[t] = parsing[t] /\ left'[t] = left[t] /\ acc'[t] = acc[t]
  PROVE  Clean'
<1>1. /\ s \in Slots /\ up[s] \in Fds /\ up[s] \in open /\ up[s] \notin idle
      /\ active' = active \ {s} /\ up' = [up EXCEPT ![s] = NoFd]
      /\ tag' = [tag EXCEPT ![up[s]] = NoSlot]
      /\ \/ /\ how = "ok" /\ idle' = idle \cup {up[s]}
            /\ wire' = [wire EXCEPT ![up[s]] = rest]
            /\ open' = open /\ owed' = owed /\ ended' = ended
         \/ /\ how = "err" /\ open' = open \ {up[s]} /\ idle' = idle /\ ended' = ended \ {up[s]}
            /\ wire' = [wire EXCEPT ![up[s]] = << >>]
            /\ owed' = [owed EXCEPT ![up[s]] = << >>]
  BY FinishEffects
<1>2. \A f \in Fds \ {up[s]} : /\ wire'[f] = wire[f] /\ owed'[f] = owed[f]
                               /\ (f \in ended' <=> f \in ended)
  BY <1>1 DEF TypeInv, FdsOK
<1>3. wire'[up[s]] = << >> /\ owed'[up[s]] = << >> BY <1>1 DEF TypeInv, FdsOK
<1>4. \A t \in active \ {s} : up'[t] = up[t] BY <1>1 DEF TypeInv, SlotsOK
<1>5. \A f \in idle' \cup (Fds \ open') : wire'[f] = << >> /\ owed'[f] = << >>
  BY <1>1, <1>2, <1>3 DEF Clean, TypeInv, FdsOK
<1>6. \A t \in active' : Fits(t)' BY <1>1, <1>2, <1>4, OthersFit
<1> QED BY <1>5, <1>6 DEF Clean

\* A slot that stays, and fits, leaves the others alone.
LEMMA StaysClean ==
  ASSUME TypeInv, Owned, Clean, NEW s \in active, NEW rest, Stays(s, rest),
         CacheKept, UNCHANGED <<phase, req>>,
         \A t \in Slots \ {s} : parsing'[t] = parsing[t] /\ left'[t] = left[t] /\ acc'[t] = acc[t],
         Fits(s)'
  PROVE  Clean'
<1>1. /\ wire' = [wire EXCEPT ![up[s]] = rest]
      /\ UNCHANGED active /\ UNCHANGED up /\ UNCHANGED open /\ UNCHANGED idle
      /\ UNCHANGED owed /\ UNCHANGED ended
  BY DEF Stays
<1>2. up[s] \in Fds /\ up[s] \in open /\ up[s] \notin idle BY DEF Owned, TypeInv, SlotsOK
<1>3. \A f \in Fds \ {up[s]} : /\ wire'[f] = wire[f] /\ owed'[f] = owed[f]
                               /\ (f \in ended' <=> f \in ended)
  BY <1>1 DEF TypeInv, FdsOK
<1>4. \A f \in idle' \cup (Fds \ open') : wire'[f] = << >> /\ owed'[f] = << >>
  BY <1>1, <1>2 DEF Clean, TypeInv, FdsOK
<1>5. \A t \in active \ {s} : Fits(t)' BY <1>1, <1>3, OthersFit
<1> QED BY <1>1, <1>4, <1>5 DEF Clean

\* A slot that counts what follows the bytes it took.
LEMMA CountedClean ==
  ASSUME TypeInv, Owned, Clean, NEW s \in active, NEW lft \in Int, NEW rest \in Bytes,
         Counted(s, lft, rest), owed[up[s]] = << >>, phase[s] = "relay",
         Len(rest) <= lft, up[s] \in ended \/ Len(rest) = lft,
         Piece(rest, req[s], Total(req[s]) - lft),
         CacheKept, UNCHANGED <<phase, req>>,
         \A t \in Slots \ {s} : acc'[t] = acc[t]
  PROVE  Clean'
<1>1. tag[up[s]] = s /\ s \in Slots /\ up[s] \in Fds BY DEF Owned, TypeInv, SlotsOK
<1>2. /\ \A t \in Slots \ {s} : parsing'[t] = parsing[t] /\ left'[t] = left[t]
      /\ left'[s] = lft /\ parsing'[s] = "body"
      /\ \/ Stays(s, rest) /\ lft > 0
         \/ Finish(s, "ok", rest) /\ lft <= 0 /\ up[s] \in open /\ UNCHANGED conn
  BY <1>1, CountedMoves
<1>3. CASE Stays(s, rest) /\ lft > 0
  <2>1. up'[s] = up[s] /\ wire'[up[s]] = rest /\ owed' = owed /\ ended' = ended
    BY <1>1, <1>3 DEF Stays, TypeInv, FdsOK
  <2>2. InBody(s)' BY <1>2, <1>3, <2>1 DEF InBody
  <2>3. Fits(s)' BY <1>2, <2>2 DEF Fits
  <2> QED BY <1>2, <1>3, <2>3, StaysClean
<1>4. CASE Finish(s, "ok", rest) /\ lft <= 0
  <2>1. rest = << >> BY <1>4, EmptyLength
  <2> QED BY <1>2, <1>4, <2>1, FinishClean
<1> QED BY <1>2, <1>3, <1>4

-----------------------------------------------------------------------------
\* The pieces of the response, each taken from what its owner expects.
LEMMA CleanPump ==
  ASSUME TypeInv, Owned, Clean, NEW s \in Slots, proxy_li_pump_cl(s)
  PROVE  Clean'
<1>1. s \in active /\ tag[up[s]] = s /\ phase[s] = "relay" /\ parsing[s] = "body"
  BY DEF proxy_li_pump_cl, Receiving
<1>2. PICK n \in 1..Len(wire[up[s]]) :
        Counted(s, left[s] - Least(n, left[s]), Behind(wire[up[s]], n))
  BY DEF proxy_li_pump_cl
<1>3. UNCHANGED phase /\ UNCHANGED acc /\ UNCHANGED req /\ UNCHANGED cache
  BY DEF proxy_li_pump_cl
<1>4. InBody(s) BY <1>1 DEF Clean, Fits
<1> DEFINE rest == Behind(wire[up[s]], n)
<1>5. /\ n \in Nat /\ n >= 1 /\ n <= Len(wire[up[s]]) /\ n \in 0..Len(wire[up[s]])
      /\ left[s] \in Int /\ Len(wire[up[s]]) \in Nat /\ wire[up[s]] \in Bytes
      /\ rest \in Bytes /\ Len(rest) = Len(wire[up[s]]) - n /\ req[s] \in Reqs
  BY <1>1, PieceTaken
<1>6. Least(n, left[s]) = n BY <1>4, <1>5 DEF InBody, Least
<1>7. Counted(s, left[s] - n, rest) BY <1>2, <1>6
<1>8. Total(req[s]) \in Nat BY <1>5, ReqSizes
<1>9. Total(req[s]) - left[s] \in Int
      /\ Total(req[s]) - left[s] + n = Total(req[s]) - (left[s] - n)
      /\ left[s] - n \in Int
  BY <1>5, <1>8
<1>10. Piece(rest, req[s], Total(req[s]) - (left[s] - n))
  <2>1. Piece(rest, req[s], Total(req[s]) - left[s] + n)
    BY <1>4, <1>5, <1>9, PieceCut DEF InBody
  <2> QED BY <1>9, <2>1
<1> HIDE DEF rest
<1>11. Len(rest) <= left[s] - n /\ (up[s] \in ended \/ Len(rest) = left[s] - n)
  BY <1>4, <1>5 DEF InBody
<1>12. owed[up[s]] = << >> BY <1>4 DEF InBody
<1> QED
  BY <1>1, <1>3, <1>5, <1>7, <1>9, <1>10, <1>11, <1>12, CountedClean DEF CacheKept

LEMMA CleanParse ==
  ASSUME TypeInv, Owned, Clean, NEW s \in Slots, proxy_li_on_up_recv_parse(s), ~mixed'
  PROVE  Clean'
<1>1. s \in active /\ tag[up[s]] = s /\ phase[s] = "relay" /\ parsing[s] = "parse"
  BY DEF proxy_li_on_up_recv_parse, Receiving
<1>2. PICK n \in 1..Len(wire[up[s]]) :
        proxy_li_finish_resp_headers(s, SubSeq(wire[up[s]], 1, n), Behind(wire[up[s]], n))
  BY DEF proxy_li_on_up_recv_parse
<1>3. UNCHANGED phase /\ UNCHANGED acc /\ UNCHANGED req BY DEF proxy_li_on_up_recv_parse
<1> DEFINE q == SubSeq(wire[up[s]], 1, n)
           rest == Behind(wire[up[s]], n)
<1>4. /\ n \in Nat /\ n >= 1 /\ n <= Len(wire[up[s]]) /\ n \in 0..Len(wire[up[s]])
      /\ Len(wire[up[s]]) \in Nat /\ wire[up[s]] \in Bytes /\ req[s] \in Reqs
      /\ q \in Bytes /\ Len(q) = n /\ rest \in Bytes /\ Len(rest) = Len(wire[up[s]]) - n
  BY <1>1, PieceTaken
<1>5. InHead(s) BY <1>1 DEF Clean, Fits
<1>6. acc[s] = << >> /\ Len(acc[s]) = 0 /\ Coming(s)
  BY <1>1, <1>4, <1>5, EmptyLength DEF InHead, Waiting
<1>7. /\ Piece(q, req[s], 0) /\ Piece(rest, req[s], 0 + n) /\ owed[up[s]] = << >>
  BY <1>4, <1>6, PieceCut DEF Coming
<1>8. /\ Len(wire[up[s]]) <= Total(req[s])
      /\ up[s] \in ended \/ Len(wire[up[s]]) = Total(req[s])
  BY <1>4, <1>6 DEF Coming
<1> DEFINE len == req[s].size.len
           cl == req[s].size.cl
<1>9. len \in Nat /\ cl \in Nat /\ Total(req[s]) = len + cl
  BY <1>4, ReqSizes DEF Total
<1>10. proxy_li_finish_resp_headers(s, q, rest) BY <1>2
<1> HIDE DEF q, rest, len, cl
<1>11. CASE proxy_li_finish_err(s) /\ UNCHANGED <<parsing, left, cache, body, mixed>>
  BY <1>1, <1>3, <1>11, FinishClean DEF proxy_li_finish_err, CacheKept
<1>12. ASSUME NEW first \in HeadsIn(q), NEW h \in {first} \cup ({cache} \ {NoHead}),
              cache' = h, Uses(s, h),
              \/ proxy_li_finish_err(s) /\ UNCHANGED <<parsing, left, body>>
              \/ Counted(s, LeftBehindHead(h, SentBehindHead(q, h)), rest)
       PROVE  Clean'
  <2>1. h = req[s].size /\ cache \in {NoHead, h} BY <1>12, UsesOwn
  <2>2. len <= n BY <1>4, <1>7, <1>12, OwnHead DEF len
  <2>3. CacheKept BY <1>12, <2>1 DEF CacheKept, NoHead
  <2>4. CASE proxy_li_finish_err(s) /\ UNCHANGED <<parsing, left, body>>
    BY <1>1, <1>3, <2>3, <2>4, FinishClean DEF proxy_li_finish_err
  <2>5. CASE Counted(s, LeftBehindHead(h, SentBehindHead(q, h)), rest)
    <3>1. len \in 0..Len(q) /\ SentBehindHead(q, h) = Behind(q, len)
      BY <1>4, <1>9, <2>1, <2>2 DEF SentBehindHead, len
    <3>2. Len(SentBehindHead(q, h)) = n - len BY <1>4, <3>1, CutTyped
    <3>3. LeftBehindHead(h, SentBehindHead(q, h)) = cl - (n - len)
      BY <2>1, <3>2 DEF LeftBehindHead, cl
    <3>4. /\ cl - (n - len) \in Int /\ Total(req[s]) - (cl - (n - len)) = 0 + n
          /\ Len(rest) <= cl - (n - len)
          /\ up[s] \in ended \/ Len(rest) = cl - (n - len)
      BY <1>4, <1>8, <1>9, <2>2
    <3>5. Counted(s, cl - (n - len), rest) BY <2>5, <3>3
    <3>6. Piece(rest, req[s], Total(req[s]) - (cl - (n - len))) BY <1>7, <3>4
    <3>7. \A t \in Slots \ {s} : acc'[t] = acc[t] BY <1>3
    <3> QED BY <1>1, <1>3, <1>4, <1>7, <2>3, <3>4, <3>5, <3>6, <3>7, CountedClean
  <2> QED BY <1>12, <2>4, <2>5
<1> QED BY <1>10, <1>11, <1>12 DEF proxy_li_finish_resp_headers

LEMMA CleanCached ==
  ASSUME TypeInv, Owned, Clean, NEW s \in Slots, proxy_li_feed_cached_hdr(s), ~mixed'
  PROVE  Clean'
<1>1. s \in active /\ tag[up[s]] = s /\ phase[s] = "relay" /\ parsing[s] = "cached"
  BY DEF proxy_li_feed_cached_hdr, Receiving
<1>2. PICK n \in 1..Len(wire[up[s]]) : FeedLost(s, n) \/ FeedMore(s, n) \/ FeedLast(s, n)
  BY FeedCases
<1>3. UNCHANGED phase /\ UNCHANGED req BY DEF proxy_li_feed_cached_hdr
<1> DEFINE q == wire[up[s]]
           a == acc[s]
           rest == Behind(q, n)
           front == SubSeq(q, 1, n)
           r == req[s]
<1>4. /\ s \in Slots /\ up[s] \in Fds
      /\ n \in Nat /\ n >= 1 /\ n <= Len(q) /\ n \in 0..Len(q)
      /\ Len(q) \in Nat /\ q \in Bytes /\ r \in Reqs /\ a \in Bytes /\ Len(a) \in Nat
      /\ front \in Bytes /\ Len(front) = n /\ rest \in Bytes /\ Len(rest) = Len(q) - n
  BY <1>1, PieceTaken, EmptyLength
<1>5. InHead(s) BY <1>1 DEF Clean, Fits
<1>6. Coming(s) /\ Len(a) < cache.len
  BY <1>1, <1>4, <1>5, EmptyLength DEF InHead, Waiting
<1>7. /\ Piece(a, r, 0) /\ Piece(q, r, Len(a)) /\ owed[up[s]] = << >>
      /\ Len(a) + Len(q) <= Total(r) /\ (up[s] \in ended \/ Len(a) + Len(q) = Total(r))
  BY <1>6 DEF Coming
<1>8. Piece(front, r, Len(a)) /\ Piece(rest, r, Len(a) + n) BY <1>4, <1>7, PieceCut
<1>9. cache.len \in Nat /\ cache.cl \in Nat BY DEF TypeInv, RestOK
<1>10. r.size.len \in Nat /\ r.size.cl \in Nat /\ Total(r) = r.size.len + r.size.cl
  BY <1>4, ReqSizes DEF Total
<1>11. ~FeedLost(s, n) BY <1>4, <1>6, <1>9 DEF FeedLost
<1>12. CASE FeedMore(s, n)
  <2>1. /\ Len(a) + n < cache.len
        /\ acc' = [acc EXCEPT ![s] = a \o front]
        /\ Stays(s, rest)
        /\ UNCHANGED parsing /\ UNCHANGED left /\ UNCHANGED cache
    BY <1>12 DEF FeedMore
  <2> DEFINE b == a \o front
  <2>2. b \in Bytes /\ Len(b) = Len(a) + n
        /\ \A k \in 1..Len(b) : b[k] = IF k <= Len(a) THEN a[k] ELSE front[k - Len(a)]
    BY <1>4, ConcatProperties DEF Bytes
  <2>3. acc' \in [Slots -> Bytes] /\ acc'[s] = b /\ \A t \in Slots \ {s} : acc'[t] = acc[t]
    BY <1>4, <2>1, <2>2 DEF TypeInv, SlotsOK
  <2> HIDE DEF a, b, front, q, rest, r
  <2>4. Piece(b, r, 0)
    <3>1. SUFFICES ASSUME NEW k \in 1..Len(b) PROVE b[k] = <<r, 0 + k>> BY DEF Piece
    <3>2. CASE k <= Len(a)
      <4>1. k \in 1..Len(a) /\ b[k] = a[k] BY <1>4, <2>2, <3>2
      <4> QED BY <1>7, <4>1 DEF Piece
    <3>3. CASE k > Len(a)
      <4>1. k - Len(a) \in 1..Len(front) /\ b[k] = front[k - Len(a)]
            /\ Len(a) + (k - Len(a)) = 0 + k
        BY <1>4, <2>2, <3>3
      <4>2. front[k - Len(a)] = <<r, Len(a) + (k - Len(a))>> BY <1>8, <4>1 DEF Piece
      <4> QED BY <4>1, <4>2
    <3> QED BY <1>4, <2>2, <3>2, <3>3
  <2>5. wire'[up[s]] = rest /\ up'[s] = up[s] /\ req'[s] = r /\ owed' = owed /\ ended' = ended
        /\ parsing'[s] = "cached" /\ phase'[s] = "relay" /\ cache' = cache
    <3>1. wire' = [wire EXCEPT ![up[s]] = rest] /\ up' = up /\ owed' = owed /\ ended' = ended
      BY <2>1 DEF Stays
    <3>2. wire'[up[s]] = rest BY <1>4, <3>1 DEF TypeInv, FdsOK
    <3> QED BY <1>1, <1>3, <2>1, <3>1, <3>2 DEF r
  <2>6. /\ Len(b) + Len(rest) <= Total(r) /\ Len(b) < cache.len
        /\ up[s] \in ended \/ Len(b) + Len(rest) = Total(r)
    BY <1>4, <1>7, <1>9, <1>10, <2>1, <2>2
  <2>7. Piece(rest, r, Len(b)) BY <1>8, <2>2
  <2>8. InHead(s)' BY <1>7, <2>3, <2>4, <2>5, <2>6, <2>7 DEF InHead, Coming
  <2>9. Fits(s)' BY <2>5, <2>8 DEF Fits
  <2> QED BY <1>1, <1>3, <2>1, <2>3, <2>9, StaysClean DEF CacheKept
<1>13. CASE FeedLast(s, n)
  <2>1. /\ Len(a) + n >= cache.len /\ Uses(s, cache) /\ cache' = cache
        /\ Counted(s, cache.cl - (Len(a) + n - cache.len), rest)
        /\ \A t \in Slots \ {s} : acc'[t] = acc[t]
    BY <1>13 DEF FeedLast, TypeInv, SlotsOK
  <2>2. cache = r.size BY <1>4, <2>1, UsesOwn
  <2> DEFINE lft == cache.cl - (Len(a) + n - cache.len)
  <2> HIDE DEF a, front, q, rest, r
  <2>3. lft \in Int /\ Total(r) - lft = Len(a) + n BY <1>4, <1>9, <1>10, <2>2
  <2>4. Counted(s, lft, rest) BY <2>1
  <2>5. Piece(rest, req[s], Total(req[s]) - lft) BY <1>8, <2>3 DEF r
  <2>6. owed[up[s]] = << >> BY <1>7
  <2>7. Len(rest) <= lft /\ (up[s] \in ended \/ Len(rest) = lft) /\ rest \in Bytes
    <3>1. Len(rest) = Len(q) - n /\ rest \in Bytes /\ Len(q) \in Nat /\ Len(a) \in Nat /\ n \in Nat
      BY <1>4
    <3>2. Total(r) \in Nat BY <1>10
    <3>3. Len(a) + Len(q) <= Total(r) BY <1>7
    <3>4. up[s] \in ended \/ Len(a) + Len(q) = Total(r) BY <1>7
    <3> HIDE DEF lft
    <3>5. Len(rest) <= lft BY <2>3, <3>1, <3>2, <3>3
    <3>6. Len(a) + Len(q) = Total(r) => Len(rest) = lft BY <2>3, <3>1, <3>2
    <3> QED BY <3>1, <3>4, <3>5, <3>6
  <2> HIDE DEF lft
  <2> QED BY <1>1, <1>3, <2>1, <2>3, <2>4, <2>5, <2>6, <2>7, CountedClean DEF CacheKept
<1> QED BY <1>2, <1>11, <1>12, <1>13

\* Every step that is not a hangup of an active upstream, and relays no response
\* by a head of another size, keeps the connections clean.
LEMMA CleanNext == TypeInv /\ Owned /\ Clean /\ [Next]_vars => hung' \/ mixed' \/ Clean'
<1> SUFFICES ASSUME TypeInv, Owned, Clean, [Next]_vars, ~mixed' PROVE hung' \/ Clean' OBVIOUS
<1>1. ASSUME NEW s \in Slots, proxy_accept_batch(s) \/ AcquireFails(s) PROVE Clean'
  BY <1>1 DEF proxy_accept_batch, AcquireFails, slotVars, fdVars, seen, Clean, Fits, Waiting,
     Coming, InHead, InBody
<1>2. ASSUME NEW s \in Slots, s \notin active, ClientHangup(s) PROVE Clean'
  BY <1>2 DEF ClientHangup, fdVars, Clean, Fits, Waiting, Coming, InHead, InBody
<1>3. ASSUME NEW s \in Slots, proxy_li_start(s) PROVE Clean'
  <2>1. PICK f \in Fds :
          /\ f \in idle \/ f \notin open
          /\ open' = open \cup {f} /\ idle' = idle \ {f}
          /\ tag' = [tag EXCEPT ![f] = s] /\ up'[s] = f /\ s \notin active
          /\ active' = active \cup {s}
          /\ \A t \in active : t \in Slots /\ t # s /\ up[t] \in Fds /\ up[t] # f /\ up'[t] = up[t]
    BY <1>3, StartEffects
  <2>2. /\ phase' = [phase EXCEPT ![s] = "send_req"] /\ acc' = [acc EXCEPT ![s] = << >>]
        /\ left' = [left EXCEPT ![s] = 0] /\ \E x : req' = [req EXCEPT ![s] = x]
        /\ UNCHANGED parsing /\ UNCHANGED wire /\ UNCHANGED owed /\ UNCHANGED ended
        /\ UNCHANGED cache
    BY <1>3 DEF proxy_li_start
  <2>3. wire[f] = << >> /\ owed[f] = << >> BY <2>1 DEF Clean
  <2>4. phase'[s] = "send_req" /\ acc'[s] = << >> BY <2>2 DEF TypeInv, SlotsOK
  <2>5. Fits(s)' BY <2>1, <2>2, <2>3, <2>4 DEF Fits, Waiting
  <2>6. ASSUME NEW t \in active PROVE Fits(t)'
    <3>1. /\ t \in Slots /\ up'[t] = up[t] /\ phase'[t] = phase[t] /\ acc'[t] = acc[t]
          /\ left'[t] = left[t] /\ req'[t] = req[t] /\ parsing'[t] = parsing[t]
      BY <2>1, <2>2 DEF TypeInv, SlotsOK
    <3>2. Fits(t) /\ CacheKept BY <2>2 DEF Clean, CacheKept
    <3> QED BY <2>2, <3>1, <3>2, FitsKept
  <2>7. \A g \in idle' \cup (Fds \ open') : wire'[g] = << >> /\ owed'[g] = << >>
    BY <2>1, <2>2 DEF Clean
  <2> QED BY <2>1, <2>5, <2>6, <2>7 DEF Clean
<1>4. ASSUME NEW s \in Slots, MarkFails(s) PROVE Clean'
  <2>1. PICK f \in Fds :
          /\ open' = open \ {f} /\ idle' = idle \ {f} /\ ended' = ended \ {f}
          /\ tag' = [tag EXCEPT ![f] = NoSlot]
          /\ wire' = [wire EXCEPT ![f] = << >>] /\ owed' = [owed EXCEPT ![f] = << >>]
          /\ \A t \in active : t \in Slots /\ up[t] \in Fds /\ up[t] # f
    BY <1>4, MarkEffects
  <2>2. UNCHANGED <<slotVars, cache, seen>> BY <1>4 DEF MarkFails
  <2>3. \A g \in idle' \cup (Fds \ open') : wire'[g] = << >> /\ owed'[g] = << >>
    BY <2>1 DEF Clean, TypeInv, FdsOK
  <2>4. ASSUME NEW t \in active PROVE Fits(t)'
    <3>1. /\ t \in Slots /\ wire'[up[t]] = wire[up[t]] /\ owed'[up[t]] = owed[up[t]]
          /\ (up[t] \in ended' <=> up[t] \in ended)
      BY <2>1 DEF TypeInv, FdsOK
    <3>2. Fits(t) /\ CacheKept BY <2>2 DEF Clean, CacheKept
    <3> QED BY <2>2, <3>1, <3>2, FitsKept DEF slotVars, seen
  <2> QED BY <2>2, <2>3, <2>4 DEF Clean, slotVars
<1>5. ASSUME NEW s \in Slots, proxy_li_pump_send(s) \/ proxy_li_enter_relay(s) PROVE Clean'
  <2>1. s \in active /\ phase[s] # "relay" BY <1>5 DEF proxy_li_pump_send, proxy_li_enter_relay, Sending
  <2>2. /\ up[s] \in Fds /\ up[s] \in open /\ up[s] \notin idle /\ owed[up[s]] \in Seq(Reqs)
        /\ cache.len \in Nat
    BY <2>1 DEF Owned, TypeInv, FdsOK, SlotsOK, RestOK
  <2>3. Waiting(s) /\ owed[up[s]] = << >> BY <2>1 DEF Clean, Fits
  <2>4. UNCHANGED <<active, up, left, acc, cache, open, idle, wire, ended, req>>
    BY <1>5 DEF proxy_li_pump_send, proxy_li_enter_relay, fdVars, seen
  <2>5. \A g \in Fds \ {up[s]} : owed'[g] = owed[g]
    BY <1>5, <2>2 DEF proxy_li_pump_send, proxy_li_enter_relay, fdVars, TypeInv, FdsOK
  <2>6. \A t \in Slots \ {s} : phase'[t] = phase[t] /\ parsing'[t] = parsing[t]
    BY <1>5 DEF proxy_li_pump_send, proxy_li_enter_relay, TypeInv, SlotsOK
  <2>7. Fits(s)'
    <3>1. CASE proxy_li_pump_send(s)
      <4>1. phase'[s] = "send_body" /\ owed' = owed
        BY <2>2, <3>1 DEF proxy_li_pump_send, fdVars, TypeInv, SlotsOK
      <4> QED BY <2>3, <2>4, <4>1 DEF Fits, Waiting
    <3>2. CASE proxy_li_enter_relay(s)
      <4>1. /\ phase'[s] = "relay" /\ owed'[up[s]] = Append(owed[up[s]], req[s])
            /\ parsing'[s] = IF cache.len > 0 THEN "cached" ELSE "parse"
        BY <2>1, <2>2, <3>2 DEF proxy_li_enter_relay, TypeInv, FdsOK, SlotsOK
      <4>2. owed'[up[s]] = <<req[s]>> BY <2>3, <4>1
      <4>3. acc'[s] = << >> /\ Len(acc'[s]) = 0 BY <2>3, <2>4, EmptyLength DEF Waiting
      <4>4. InHead(s)' BY <2>2, <2>3, <2>4, <4>1, <4>2, <4>3 DEF InHead, Waiting
      <4> QED BY <4>1, <4>4 DEF Fits
    <3> QED BY <1>5, <3>1, <3>2
  <2>8. ASSUME NEW t \in active \ {s} PROVE Fits(t)'
    <3>1. t \in Slots /\ up[t] # up[s] /\ up[t] \in Fds BY <2>1, Distinct
    <3>2. Fits(t) /\ CacheKept BY <2>4 DEF Clean, CacheKept
    <3> QED BY <2>4, <2>5, <2>6, <3>1, <3>2, FitsKept
  <2>9. \A g \in idle' \cup (Fds \ open') : wire'[g] = << >> /\ owed'[g] = << >>
    BY <2>2, <2>4, <2>5 DEF Clean, TypeInv, FdsOK
  <2> QED BY <2>4, <2>7, <2>8, <2>9 DEF Clean
<1>6. ASSUME NEW s \in active, Finish(s, "err", << >>),
             UNCHANGED <<phase, parsing, left, acc, cache, req>>
      PROVE  Clean'
  BY <1>6, FinishClean DEF CacheKept
<1>7. ASSUME NEW s \in Slots, \/ s \in active /\ ClientHangup(s)
                              \/ Fails(s) \/ UpEnds(s)
      PROVE  Clean'
  BY <1>6, <1>7 DEF ClientHangup, Fails, UpEnds, Receiving, proxy_li_finish_err
<1>8. ASSUME NEW f \in Fds, Answer(f) PROVE Clean'
  <2>1. /\ f \in open /\ f \notin ended /\ owed[f] # << >>
        /\ owed' = [owed EXCEPT ![f] = Tail(@)]
        /\ UNCHANGED <<slotVars, cache, open, idle, seen>>
    BY <1>8 DEF Answer
  <2>2. PICK n \in 0..Len(Response(Head(owed[f]))) :
          /\ wire' = [wire EXCEPT ![f] = @ \o SubSeq(Response(Head(owed[f])), 1, n)]
          /\ ended' = IF n < Len(Response(Head(owed[f]))) THEN ended \cup {f} ELSE ended
    BY <1>8 DEF Answer
  <2>3. f \notin idle BY <2>1 DEF Clean
  <2>4. PICK s \in active : up[s] = f BY <2>1, <2>3 DEF Owned
  <2>5. Fits(s) /\ s \in Slots /\ req[s] \in Reqs /\ phase[s] = "relay" /\ parsing[s] # "body"
    BY <2>1, <2>4 DEF Clean, Fits, InBody, TypeInv, SlotsOK
  <2>6. InHead(s) BY <2>5 DEF Fits
  <2>7. owed[f] = <<req[s]>> /\ wire[f] = << >> /\ acc[s] = << >> /\ Len(acc[s]) = 0
    BY <2>1, <2>4, <2>6, EmptyLength DEF InHead, Coming, Waiting
  <2>8. Head(owed[f]) = req[s] /\ Tail(owed[f]) = << >> BY <2>7
  <2> DEFINE q == SubSeq(Response(req[s]), 1, n)
  <2>9. Total(req[s]) \in Nat BY <2>5, ReqSizes
  <2>10. Len(Response(req[s])) = Total(req[s])
    <3>1. 0 \in 0..Total(req[s]) BY <2>9
    <3> QED BY <2>5, <3>1, ResponsePiece
  <2>11. n \in 0..Total(req[s]) BY <2>2, <2>8, <2>10
  <2>12. q \in Bytes /\ Len(q) = n /\ Piece(q, req[s], 0) BY <2>5, <2>11, ResponsePiece
  <2>13. wire' = [wire EXCEPT ![f] = wire[f] \o q] BY <2>2, <2>8
  <2>14. ended' = IF n < Total(req[s]) THEN ended \cup {f} ELSE ended BY <2>2, <2>8, <2>10
  <2> HIDE DEF q
  <2>15. wire[f] \o q = q BY <2>7, <2>12, ConcatEmptySeq DEF Bytes
  <2>16. /\ wire'[f] = q /\ owed'[f] = << >>
         /\ \A g \in Fds \ {f} : wire'[g] = wire[g] /\ owed'[g] = owed[g]
    BY <2>1, <2>8, <2>13, <2>15 DEF TypeInv, FdsOK
  <2>17. \A g \in Fds \ {f} : g \in ended' <=> g \in ended BY <2>14
  <2>18. Fits(s)'
    <3>1. UNCHANGED <<up, phase, parsing, acc, req, cache>> BY <2>1 DEF slotVars, seen
    <3>2. Piece(acc[s], req[s], 0) BY <2>7 DEF Piece
    <3>3. f \in ended' \/ Len(q) = Total(req[s]) BY <2>9, <2>11, <2>12, <2>14
    <3>4. 0 + Len(q) <= Total(req[s]) /\ 0 + Len(q) = Len(q) BY <2>9, <2>11, <2>12
    <3>5. Coming(s)' BY <2>4, <2>7, <2>12, <2>16, <3>1, <3>2, <3>3, <3>4 DEF Coming
    <3>6. InHead(s)' BY <2>6, <2>7, <3>1, <3>5 DEF InHead
    <3> QED BY <2>5, <3>1, <3>6 DEF Fits
  <2>19. ASSUME NEW t \in active \ {s} PROVE Fits(t)'
    <3>1. t \in Slots /\ up[t] # up[s] /\ up[t] \in Fds BY Distinct
    <3>2. Fits(t) /\ CacheKept BY <2>1 DEF Clean, CacheKept
    <3> QED BY <2>1, <2>4, <2>16, <2>17, <3>1, <3>2, FitsKept DEF slotVars, seen
  <2>20. \A g \in idle' \cup (Fds \ open') : wire'[g] = << >> /\ owed'[g] = << >>
    BY <2>1, <2>3, <2>16 DEF Clean, TypeInv, FdsOK
  <2> QED BY <2>1, <2>18, <2>19, <2>20 DEF Clean, slotVars
<1>9. ASSUME NEW f \in Fds, CloseIdle(f) PROVE Clean'
  <2>1. f \in idle /\ ended' = ended \cup {f}
        /\ UNCHANGED <<slotVars, cache, open, idle, wire, owed, seen>>
    BY <1>9 DEF CloseIdle
  <2>2. ASSUME NEW t \in active PROVE Fits(t)'
    <3>1. t \in Slots /\ up[t] # f BY <2>1 DEF Owned, TypeInv, SlotsOK
    <3>2. up[t] \in ended' <=> up[t] \in ended BY <2>1, <3>1
    <3>3. Fits(t) /\ CacheKept BY <2>1 DEF Clean, CacheKept
    <3> QED BY <2>1, <3>1, <3>2, <3>3, FitsKept DEF slotVars, seen
  <2> QED BY <2>1, <2>2 DEF Clean, slotVars
<1>10. ASSUME NEW f \in Fds, UpHangup(f) PROVE hung' BY <1>10 DEF UpHangup
<1>11. CASE UNCHANGED vars
  BY <1>11 DEF vars, slotVars, fdVars, seen, Clean, Fits, Waiting, Coming, InHead, InBody
<1> QED
  BY <1>1, <1>2, <1>3, <1>4, <1>5, <1>7, <1>8, <1>9, <1>10, <1>11,
     CleanPump, CleanParse, CleanCached DEF Next

\* Once an upstream hung up on an active slot, or a head of another size was
\* used, that is remembered.
LEMMA FlagsStay == TypeInv /\ [Next]_vars => (hung => hung') /\ (mixed => mixed')
<1> SUFFICES ASSUME TypeInv, [Next]_vars PROVE (hung => hung') /\ (mixed => mixed') OBVIOUS
<1>1. ASSUME NEW s \in Slots, NEW q, NEW rest, proxy_li_finish_resp_headers(s, q, rest)
      PROVE  mixed => mixed'
  BY <1>1 DEF proxy_li_finish_resp_headers, Uses
<1>2. ASSUME NEW s \in Slots, proxy_li_on_up_recv_parse(s) \/ proxy_li_feed_cached_hdr(s)
      PROVE  hung' = hung /\ (mixed => mixed')
  <2>1. CASE proxy_li_on_up_recv_parse(s)
    BY <1>1, <2>1 DEF proxy_li_on_up_recv_parse
  <2>2. CASE proxy_li_feed_cached_hdr(s)
    <3>1. PICK n \in 1..Len(wire[up[s]]) : FeedLost(s, n) \/ FeedMore(s, n) \/ FeedLast(s, n)
      BY <2>2, FeedCases
    <3>2. mixed => mixed' BY <1>1, <3>1 DEF FeedLost, FeedMore, FeedLast, Uses
    <3> QED BY <2>2, <3>2 DEF proxy_li_feed_cached_hdr
  <2> QED BY <1>2, <2>1, <2>2
<1>3. ASSUME NEW s \in Slots,
             \/ proxy_accept_batch(s) \/ ClientHangup(s) \/ proxy_li_start(s) \/ MarkFails(s)
             \/ AcquireFails(s) \/ proxy_li_pump_send(s) \/ proxy_li_enter_relay(s)
             \/ Fails(s) \/ proxy_li_pump_cl(s) \/ UpEnds(s)
      PROVE  hung' = hung /\ mixed' = mixed
  BY <1>3 DEF proxy_accept_batch, ClientHangup, proxy_li_start, MarkFails, AcquireFails,
     proxy_li_pump_send, proxy_li_enter_relay, Fails, proxy_li_pump_cl, UpEnds
<1>4. ASSUME NEW f \in Fds, UpHangup(f) \/ CloseIdle(f) \/ Answer(f)
      PROVE  (hung => hung') /\ mixed' = mixed
  BY <1>4 DEF UpHangup, CloseIdle, Answer
<1>5. CASE UNCHANGED vars BY <1>5 DEF vars
<1> QED BY <1>2, <1>3, <1>4, <1>5 DEF Next

LEMMA CleanInit == Init => Clean
BY DEF Init, Clean

\* Until then the ownership holds, and what is on the connections is known.
LEMMA RelayAlways == Spec => [](TypeInv /\ (~hung => Owned) /\ (~hung /\ ~mixed => Clean))
<1> DEFINE Inv == TypeInv /\ (~hung => Owned) /\ (~hung /\ ~mixed => Clean)
<1>1. Init => Inv BY TypeInit, OwnedInit, CleanInit
<1>2. Inv /\ [Next]_vars => Inv' BY TypeNext, OwnedNext, CleanNext, FlagsStay
<1> QED BY <1>1, <1>2, PTL DEF Spec

\* No upstream connection is shared by two clients and none is leaked, whatever
\* fails and whatever sizes responses have: lib.li closes or pools the connection
\* on every way out of a relay.
THEOREM OneOwnerHolds == Spec => []OneOwner
<1>1. (~hung => Owned) => OneOwner BY DEF OneOwner, Owned
<1> QED BY <1>1, RelayAlways, PTL

\* Where the sizes agree, what finish_ok puts into the pool has nothing left to
\* be received, for any cut of the responses and any order of the events.
THEOREM PoolCleanHolds == Spec => []PoolClean
<1>1. (~hung /\ ~mixed => Clean) => PoolClean BY DEF PoolClean, Clean
<1> QED BY <1>1, RelayAlways, PTL

\* Where the sizes agree, cl_left of lib.li is what is to come, whether the head
\* was read or the kept one was sent.
THEOREM LeftIsTrueHolds == Spec => []LeftIsTrue
<1>1. TypeInv /\ (~hung /\ ~mixed => Clean) => LeftIsTrue
  <2> SUFFICES ASSUME TypeInv, Clean, NEW s \in active, Receiving(s, "body"), up[s] \notin ended
               PROVE  left[s] = Len(wire[up[s]]) /\ left[s] > 0
    BY DEF LeftIsTrue
  <2>1. InBody(s) BY DEF Clean, Fits, Receiving
  <2> QED BY <2>1 DEF InBody
<1> QED BY <1>1, RelayAlways, PTL

-----------------------------------------------------------------------------
(* What clients are sent *)

\* Bytes of the response to r, in their order, behind the first lo, and none
\* behind hi.
Rising(b, r, lo, hi) ==
  /\ \A i \in 1..Len(b) : b[i][1] = r /\ lo < b[i][2] /\ b[i][2] <= hi
  /\ \A i, j \in 1..Len(b) : i < j => b[i][2] < b[j][2]

\* A client was sent bytes of its own body, and while it is relayed none of
\* those that are still counted.
SentBy(s) ==
  /\ Rising(body[s], req[s], req[s].size.len, Total(req[s]))
  /\ s \in active =>
       IF phase[s] = "relay" /\ parsing[s] = "body"
       THEN /\ left[s] <= req[s].size.cl
            /\ Rising(body[s], req[s], req[s].size.len, Total(req[s]) - left[s])
       ELSE body[s] = << >>

AllSent == \A s \in Slots : SentBy(s)

\* What follows may be sent behind it.
LEMMA RisingAppend ==
  ASSUME NEW r, NEW b \in Bytes, NEW q \in Bytes, NEW lo \in Int, NEW hi \in Int, NEW top \in Int,
         Rising(b, r, lo, hi), Piece(q, r, hi), lo <= hi, hi + Len(q) <= top
  PROVE  b \o q \in Bytes /\ Rising(b \o q, r, lo, top)
<1>1. /\ b \o q \in Bytes /\ Len(b \o q) = Len(b) + Len(q) /\ Len(b) \in Nat /\ Len(q) \in Nat
      /\ \A k \in 1..Len(b \o q) : (b \o q)[k] = IF k <= Len(b) THEN b[k] ELSE q[k - Len(b)]
      /\ \A k \in 1..Len(b) : b[k][2] \in Nat
  BY ConcatProperties, EmptyLength, ElementOfSeq DEF Bytes
<1> DEFINE c == b \o q
<1>2. \A k \in 1..Len(b) : k \in 1..Len(c) /\ c[k] = b[k] BY <1>1
<1>3. ASSUME NEW k \in 1..Len(c), k > Len(b)
      PROVE  c[k] = <<r, hi + (k - Len(b))>> /\ k - Len(b) \in 1..Len(q)
  <2>1. k - Len(b) \in 1..Len(q) /\ c[k] = q[k - Len(b)] BY <1>1, <1>3
  <2> QED BY <2>1 DEF Piece
<1> HIDE DEF c
<1>4. \A k \in 1..Len(c) : c[k][1] = r /\ lo < c[k][2] /\ c[k][2] <= top
  <2>1. SUFFICES ASSUME NEW k \in 1..Len(c) PROVE c[k][1] = r /\ lo < c[k][2] /\ c[k][2] <= top
    OBVIOUS
  <2>2. k \in Nat BY <1>1 DEF c
  <2>3. CASE k <= Len(b)
    <3>1. k \in 1..Len(b) BY <1>1, <2>2, <2>3 DEF c
    <3>2. c[k][1] = r /\ lo < c[k][2] /\ c[k][2] <= hi /\ c[k][2] \in Nat
      BY <1>1, <1>2, <3>1 DEF Rising
    <3> QED BY <1>1, <3>2
  <2>4. CASE k > Len(b)
    <3>1. c[k][1] = r /\ c[k][2] = hi + (k - Len(b)) /\ k - Len(b) \in 1..Len(q)
      BY <1>3, <2>4
    <3> QED BY <1>1, <3>1
  <2> QED BY <1>1, <2>2, <2>3, <2>4
<1>5. ASSUME NEW i \in 1..Len(c), NEW j \in 1..Len(c), i < j PROVE c[i][2] < c[j][2]
  <2>1. i \in Nat /\ j \in Nat BY <1>1 DEF c
  <2>2. CASE j <= Len(b)
    <3>1. i \in 1..Len(b) /\ j \in 1..Len(b) BY <1>1, <1>5, <2>1, <2>2
    <3> QED BY <1>2, <1>5, <3>1 DEF Rising
  <2>3. CASE j > Len(b) /\ i <= Len(b)
    <3>1. i \in 1..Len(b) BY <1>1, <2>1, <2>3
    <3>2. c[i][2] <= hi /\ c[i][2] \in Nat BY <1>1, <1>2, <3>1 DEF Rising
    <3>3. c[j][2] = hi + (j - Len(b)) /\ j - Len(b) \in 1..Len(q) BY <1>3, <2>3
    <3> QED BY <1>1, <3>2, <3>3
  <2>4. CASE j > Len(b) /\ i > Len(b)
    <3>1. c[j][2] = hi + (j - Len(b)) /\ c[i][2] = hi + (i - Len(b)) BY <1>3, <2>4
    <3> QED BY <1>1, <1>5, <2>1, <3>1
  <2> QED BY <1>1, <2>1, <2>2, <2>3, <2>4
<1> QED BY <1>1, <1>4, <1>5 DEF Rising, c

\* Nothing is of every response.
LEMMA RisingEmpty == \A r, lo, hi : Rising(<< >>, r, lo, hi)
BY EmptyLength DEF Rising

\* What a step leaves alone.
LEMMA SentKept ==
  ASSUME NEW s \in Slots, SentBy(s), body'[s] = body[s], req'[s] = req[s],
         s \in active' => /\ s \in active /\ phase'[s] = phase[s] /\ left'[s] = left[s]
                          /\ parsing'[s] = parsing[s]
  PROVE  SentBy(s)'
BY DEF SentBy

\* A slot that begins, or goes on, to count.
LEMMA SentCounted ==
  ASSUME TypeInv, NEW s \in active, phase'[s] = "relay", parsing'[s] = "body", req'[s] = req[s],
         left'[s] \in Int, left'[s] >= 0, left'[s] <= req[s].size.cl,
         Rising(body'[s], req[s], req[s].size.len, Total(req[s]) - left'[s]),
         body'[s] \in Bytes
  PROVE  SentBy(s)'
<1>1. req[s] \in Reqs BY DEF TypeInv, SlotsOK
<1>2. Total(req[s]) \in Nat BY <1>1, ReqSizes
<1>3. \A i \in 1..Len(body'[s]) : body'[s][i][2] \in Nat BY ElementOfSeq DEF Bytes
<1>4. Rising(body'[s], req[s], req[s].size.len, Total(req[s]))
  <2>1. \A i \in 1..Len(body'[s]) : body'[s][i][2] <= Total(req[s])
    <3>1. SUFFICES ASSUME NEW i \in 1..Len(body'[s]) PROVE body'[s][i][2] <= Total(req[s]) OBVIOUS
    <3>2. body'[s][i][2] <= Total(req[s]) - left'[s] /\ body'[s][i][2] \in Nat BY <1>3 DEF Rising
    <3> QED BY <1>2, <3>2
  <2> QED BY <2>1 DEF Rising
<1> QED BY <1>4 DEF SentBy

\* A step of a relay leaves the other slots alone.
LEMMA SentOthers ==
  ASSUME TypeInv, AllSent, NEW s \in active, Moves(s), SentBy(s)'
  PROVE  AllSent'
<1>1. UNCHANGED <<phase, req>> /\ active' \subseteq active
      /\ \A t \in Slots \ {s} : /\ parsing'[t] = parsing[t] /\ left'[t] = left[t]
                                /\ body'[t] = body[t]
  BY DEF Moves, Stays, Finish
<1>2. ASSUME NEW t \in Slots \ {s} PROVE SentBy(t)' BY <1>1, SentKept DEF AllSent
<1> QED BY <1>2 DEF AllSent

LEMMA SentPump ==
  ASSUME TypeInv, Owned, Clean, AllSent, NEW s \in Slots, proxy_li_pump_cl(s)
  PROVE  AllSent'
<1>1. s \in active /\ tag[up[s]] = s /\ phase[s] = "relay" /\ parsing[s] = "body"
  BY DEF proxy_li_pump_cl, Receiving
<1>2. PICK n \in 1..Len(wire[up[s]]) :
        /\ body' = [body EXCEPT ![s] = @ \o SubSeq(wire[up[s]], 1, Least(n, left[s]))]
        /\ Counted(s, left[s] - Least(n, left[s]), Behind(wire[up[s]], n))
  BY DEF proxy_li_pump_cl
<1>3. UNCHANGED phase /\ UNCHANGED req BY DEF proxy_li_pump_cl
<1> DEFINE r == req[s]
           front == SubSeq(wire[up[s]], 1, n)
           lft == left[s] - n
<1>4. /\ n \in 0..Len(wire[up[s]]) /\ n \in Nat /\ left[s] \in Int /\ Len(wire[up[s]]) \in Nat
      /\ wire[up[s]] \in Bytes /\ front \in Bytes /\ Len(front) = n /\ r \in Reqs
      /\ body[s] \in Bytes /\ Behind(wire[up[s]], n) \in Bytes
  BY <1>1, PieceTaken
<1>5. InBody(s) BY <1>1 DEF Clean, Fits
<1>6. Least(n, left[s]) = n /\ lft \in Int /\ lft >= 0 BY <1>4, <1>5 DEF InBody, Least
<1>7. r.size.len \in Nat /\ r.size.cl \in Nat /\ Total(r) = r.size.len + r.size.cl
  BY <1>4, ReqSizes DEF Total
<1>8. left[s] <= r.size.cl BY <1>1 DEF AllSent, SentBy
<1> DEFINE past == Total(r) - left[s]
<1>16. Rising(body[s], r, r.size.len, past) BY <1>1 DEF AllSent, SentBy
<1>9. Piece(front, r, past)
  <2>1. past \in Int BY <1>4, <1>7
  <2> QED BY <1>4, <1>5, <2>1, PieceCut DEF InBody
<1>10. body'[s] = body[s] \o front BY <1>1, <1>2, <1>6 DEF TypeInv, SlotsOK
<1>11. Counted(s, lft, Behind(wire[up[s]], n)) BY <1>2, <1>6
<1>12. left'[s] = lft /\ parsing'[s] = "body" BY <1>1, <1>4, <1>6, <1>11, CountedMoves
<1> HIDE DEF r, front
<1>13. /\ past \in Int /\ Total(r) - lft \in Int
       /\ r.size.len <= past /\ past + n <= Total(r) - lft
       /\ lft <= r.size.cl
  BY <1>4, <1>7, <1>8
<1> HIDE DEF lft, past
<1>14. body'[s] \in Bytes /\ Rising(body'[s], r, r.size.len, Total(r) - lft)
  <2>1. r.size.len \in Int /\ past + Len(front) <= Total(r) - lft BY <1>4, <1>7, <1>13
  <2>2. /\ body[s] \o front \in Bytes
        /\ Rising(body[s] \o front, r, r.size.len, Total(r) - lft)
    BY <1>4, <1>9, <1>13, <1>16, <2>1, RisingAppend, Zenon
  <2> QED BY <1>10, <2>2
<1>15. SentBy(s)' BY <1>1, <1>3, <1>6, <1>12, <1>13, <1>14, SentCounted DEF r
<1> QED BY <1>1, <1>15, PumpMoves, SentOthers

\* Behind the head the client is sent a piece of what came with it.
LEMMA SentParse ==
  ASSUME TypeInv, Owned, Clean, AllSent, NEW s \in Slots, proxy_li_on_up_recv_parse(s), ~mixed'
  PROVE  AllSent'
<1>1. s \in active /\ tag[up[s]] = s /\ phase[s] = "relay" /\ parsing[s] = "parse"
  BY DEF proxy_li_on_up_recv_parse, Receiving
<1>2. PICK n \in 1..Len(wire[up[s]]) :
        proxy_li_finish_resp_headers(s, SubSeq(wire[up[s]], 1, n), Behind(wire[up[s]], n))
  BY DEF proxy_li_on_up_recv_parse
<1>3. UNCHANGED phase /\ UNCHANGED acc /\ UNCHANGED req BY DEF proxy_li_on_up_recv_parse
<1> DEFINE q == SubSeq(wire[up[s]], 1, n)
           rest == Behind(wire[up[s]], n)
           r == req[s]
<1>4. /\ n \in Nat /\ n <= Len(wire[up[s]]) /\ n \in 0..Len(wire[up[s]]) /\ s \in Slots
      /\ Len(wire[up[s]]) \in Nat /\ wire[up[s]] \in Bytes /\ r \in Reqs
      /\ q \in Bytes /\ Len(q) = n /\ rest \in Bytes
  BY <1>1, PieceTaken
<1>5. InHead(s) /\ body[s] = << >> /\ SentBy(s) BY <1>1 DEF Clean, Fits, AllSent, SentBy
<1>6. acc[s] = << >> /\ Len(acc[s]) = 0 /\ Coming(s)
  BY <1>1, <1>4, <1>5, EmptyLength DEF InHead, Waiting
<1>7. Piece(q, r, 0) BY <1>4, <1>6, PieceCut DEF Coming
<1> DEFINE len == r.size.len
           cl == r.size.cl
<1>9. len \in Nat /\ cl \in Nat /\ Total(r) = len + cl BY <1>4, ReqSizes DEF Total
<1>10. proxy_li_finish_resp_headers(s, q, rest) BY <1>2
<1>11. Moves(s) BY ParseMoves
<1>8. n <= Total(r)
  <2>1. Len(acc[s]) + Len(wire[up[s]]) <= Total(r) BY <1>6 DEF Coming
  <2> HIDE DEF q, rest, r, len, cl
  <2> QED BY <1>4, <1>6, <1>9, <2>1
<1> HIDE DEF q, rest, len, cl, r
<1>12. CASE UNCHANGED <<parsing, left, body>>
  BY <1>3, <1>4, <1>5, <1>11, <1>12, <1>1, SentKept, SentOthers
<1>13. ASSUME NEW first \in HeadsIn(q), NEW h \in {first} \cup ({cache} \ {NoHead}),
              Uses(s, h), NEW sent \in Least(1, Len(SentBehindHead(q, h)))..Len(SentBehindHead(q, h)),
              body' = [body EXCEPT ![s] = @ \o SubSeq(SentBehindHead(q, h), 1, sent)],
              Counted(s, LeftBehindHead(h, SentBehindHead(q, h)), rest)
       PROVE  AllSent'
  <2>1. h = r.size BY <1>4, <1>13, UsesOwn DEF r
  <2>2. len <= n BY <1>4, <1>7, <1>13, OwnHead DEF len
  <2> DEFINE tail == Behind(q, len)
             part == SubSeq(tail, 1, sent)
             lft == cl - (n - len)
  <2>3. len \in 0..Len(q) /\ SentBehindHead(q, h) = tail
    BY <1>4, <1>9, <2>1, <2>2 DEF SentBehindHead, len
  <2>4. tail \in Bytes /\ Len(tail) = n - len /\ Piece(tail, r, len)
    <3>1. tail \in Bytes /\ Len(tail) = n - len BY <1>4, <2>3, CutTyped
    <3>2. Piece(Behind(q, len), r, 0 + len) BY <1>4, <1>7, <2>3, PieceCut
    <3>3. 0 + len = len BY <1>9
    <3> QED BY <3>1, <3>2, <3>3
  <2>5. sent \in 0..Len(tail) BY <1>4, <1>9, <1>13, <2>2, <2>3, <2>4 DEF Least
  <2> HIDE DEF tail
  <2>6. part \in Bytes /\ Len(part) = sent /\ Piece(part, r, len)
    BY <1>9, <2>4, <2>5, CutTyped, PieceCut
  <2>7. LeftBehindHead(h, SentBehindHead(q, h)) = lft
    BY <2>1, <2>3, <2>4 DEF LeftBehindHead, cl
  <2>8. lft \in Int /\ lft >= 0 /\ lft <= cl /\ len + sent <= Total(r) - lft
        /\ Total(r) - lft \in Int
    BY <1>4, <1>8, <1>9, <2>2, <2>4, <2>5
  <2>9. left'[s] = lft /\ parsing'[s] = "body"
    BY <1>1, <1>4, <1>13, <2>7, <2>8, CountedMoves
  <2>10. body'[s] = << >> \o part /\ << >> \in Bytes
    BY <1>4, <1>5, <1>13, <2>3, EmptyLength DEF TypeInv, SlotsOK
  <2> HIDE DEF part, lft
  <2>11. body'[s] \in Bytes /\ Rising(body'[s], r, len, Total(r) - lft)
    <3>1. Rising(<< >>, r, len, len) /\ len \in Int /\ len <= len BY <1>9, RisingEmpty
    <3>2. len + Len(part) <= Total(r) - lft BY <2>6, <2>8
    <3>3. /\ << >> \o part \in Bytes
          /\ Rising(<< >> \o part, r, len, Total(r) - lft)
      BY <2>6, <2>8, <2>10, <3>1, <3>2, RisingAppend, Zenon
    <3> QED BY <2>10, <3>3
  <2>12. SentBy(s)' BY <1>1, <1>3, <2>8, <2>9, <2>11, SentCounted DEF r, len, cl
  <2> QED BY <1>1, <1>11, <2>12, SentOthers
<1> QED BY <1>10, <1>12, <1>13 DEF proxy_li_finish_resp_headers

LEMMA SentCached ==
  ASSUME TypeInv, Owned, Clean, AllSent, NEW s \in Slots, proxy_li_feed_cached_hdr(s), ~mixed'
  PROVE  AllSent'
<1>1. s \in active /\ tag[up[s]] = s /\ phase[s] = "relay" /\ parsing[s] = "cached"
  BY DEF proxy_li_feed_cached_hdr, Receiving
<1>2. PICK n \in 1..Len(wire[up[s]]) : FeedLost(s, n) \/ FeedMore(s, n) \/ FeedLast(s, n)
  BY FeedCases
<1>3. UNCHANGED phase /\ UNCHANGED req BY DEF proxy_li_feed_cached_hdr
<1> DEFINE a == Len(acc[s])
           w == Len(wire[up[s]])
           r == req[s]
           lft == cache.cl - (a + n - cache.len)
<1>4. /\ n \in Nat /\ n <= w /\ w \in Nat /\ a \in Nat /\ r \in Reqs
      /\ Behind(wire[up[s]], n) \in Bytes
  BY <1>1, PieceTaken, EmptyLength
<1>5. InHead(s) /\ body[s] = << >> /\ SentBy(s) BY <1>1 DEF Clean, Fits, AllSent, SentBy
<1>6. Coming(s) /\ a < cache.len BY <1>1, <1>4, <1>5, EmptyLength DEF InHead, Waiting
<1>7. a + w <= Total(r) BY <1>6 DEF Coming
<1>13. r.size.len \in Nat /\ r.size.cl \in Nat /\ Total(r) = r.size.len + r.size.cl
  BY <1>4, ReqSizes DEF Total
<1>8. cache.len \in Nat /\ cache.cl \in Nat BY DEF TypeInv, RestOK
<1>9. Moves(s) BY CachedMoves
<1>10. ~FeedLost(s, n) BY <1>4, <1>6, <1>8 DEF FeedLost
<1>11. CASE FeedMore(s, n)
  BY <1>1, <1>3, <1>5, <1>9, <1>11, SentKept, SentOthers DEF FeedMore, Stays
<1>12. CASE FeedLast(s, n)
  <2>1. /\ a + n >= cache.len /\ Uses(s, cache) /\ body' = body
        /\ Counted(s, lft, Behind(wire[up[s]], n))
    BY <1>12 DEF FeedLast
  <2>2. cache = r.size BY <2>1, UsesOwn
  <2>4. lft \in Int /\ lft >= 0 /\ lft <= r.size.cl
    <3> HIDE DEF a, w, r
    <3>1. a + n >= cache.len BY <2>1
    <3> QED BY <1>4, <1>7, <1>8, <1>13, <2>2, <3>1
  <2> HIDE DEF lft
  <2>5. left'[s] = lft /\ parsing'[s] = "body" BY <1>1, <1>4, <2>1, <2>4, CountedMoves
  <2>6. body'[s] = << >> /\ body'[s] \in Bytes BY <1>5, <2>1, EmptyLength
  <2>7. SentBy(s)' BY <1>1, <1>3, <2>4, <2>5, <2>6, RisingEmpty, SentCounted
  <2> QED BY <1>1, <1>9, <2>7, SentOthers
<1> QED BY <1>2, <1>10, <1>11, <1>12

\* A step outside the relay sends nothing.
LEMMA SentNext == TypeInv /\ Owned /\ Clean /\ AllSent /\ [Next]_vars => hung' \/ mixed' \/ AllSent'
<1> SUFFICES ASSUME TypeInv, Owned, Clean, AllSent, [Next]_vars, ~mixed' PROVE hung' \/ AllSent'
  OBVIOUS
<1>1. ASSUME UNCHANGED <<active, phase, parsing, left, req, body>> PROVE AllSent'
  BY <1>1, SentKept DEF AllSent
<1>2. ASSUME NEW s \in Slots, \/ proxy_accept_batch(s) \/ MarkFails(s) \/ AcquireFails(s)
                              \/ s \notin active /\ ClientHangup(s)
      PROVE  AllSent'
  BY <1>1, <1>2 DEF proxy_accept_batch, MarkFails, AcquireFails, ClientHangup, slotVars, seen
<1>3. ASSUME NEW s \in Slots, proxy_li_start(s) PROVE AllSent'
  <2>1. /\ active' = active \cup {s} /\ phase' = [phase EXCEPT ![s] = "send_req"]
        /\ left' = [left EXCEPT ![s] = 0] /\ body' = [body EXCEPT ![s] = << >>]
        /\ UNCHANGED parsing /\ \E x : req' = [req EXCEPT ![s] = x]
    BY <1>3 DEF proxy_li_start
  <2>2. body'[s] = << >> /\ phase'[s] = "send_req" BY <2>1 DEF TypeInv, SlotsOK
  <2>3. SentBy(s)' BY <2>2, RisingEmpty DEF SentBy
  <2>4. ASSUME NEW t \in Slots \ {s} PROVE SentBy(t)'
    <3>1. /\ body'[t] = body[t] /\ req'[t] = req[t] /\ phase'[t] = phase[t]
          /\ left'[t] = left[t] /\ parsing'[t] = parsing[t]
      BY <2>1 DEF TypeInv, SlotsOK
    <3> QED BY <2>1, <3>1, SentKept DEF AllSent
  <2> QED BY <2>3, <2>4 DEF AllSent
<1>4. ASSUME NEW s \in Slots, proxy_li_pump_send(s) \/ proxy_li_enter_relay(s) PROVE AllSent'
  <2>1. s \in active /\ phase[s] # "relay"
    BY <1>4 DEF proxy_li_pump_send, proxy_li_enter_relay, Sending
  <2>2. UNCHANGED <<active, left, req, body>>
    BY <1>4 DEF proxy_li_pump_send, proxy_li_enter_relay, seen
  <2>3. \A t \in Slots \ {s} : phase'[t] = phase[t] /\ parsing'[t] = parsing[t]
    BY <1>4 DEF proxy_li_pump_send, proxy_li_enter_relay, TypeInv, SlotsOK
  <2>4. phase'[s] # "relay" \/ parsing'[s] # "body"
    BY <1>4 DEF proxy_li_pump_send, proxy_li_enter_relay, TypeInv, SlotsOK
  <2>5. body[s] = << >> BY <2>1 DEF AllSent, SentBy
  <2>6. SentBy(s)' BY <2>2, <2>4, <2>5, RisingEmpty DEF SentBy
  <2>7. ASSUME NEW t \in Slots \ {s} PROVE SentBy(t)' BY <2>2, <2>3, SentKept DEF AllSent
  <2> QED BY <2>6, <2>7 DEF AllSent
<1>5. ASSUME NEW s \in Slots, \/ s \in active /\ ClientHangup(s)
                              \/ Fails(s) \/ UpEnds(s)
      PROVE  AllSent'
  <2>1. s \in active /\ UNCHANGED <<phase, parsing, left, req, body>>
    BY <1>5 DEF ClientHangup, Fails, UpEnds, Receiving
  <2>2. Moves(s) BY <1>5, RelaysMoves DEF Relays
  <2>3. active' \subseteq active BY <2>2 DEF Moves, Stays, Finish
  <2>4. ASSUME NEW t \in Slots PROVE SentBy(t)' BY <2>1, <2>3, SentKept DEF AllSent
  <2> QED BY <2>4 DEF AllSent
<1>6. ASSUME NEW f \in Fds, Answer(f) \/ CloseIdle(f) PROVE AllSent'
  BY <1>1, <1>6 DEF Answer, CloseIdle, slotVars, seen
<1>7. ASSUME NEW f \in Fds, UpHangup(f) PROVE hung' BY <1>7 DEF UpHangup
<1>8. CASE UNCHANGED vars BY <1>1, <1>8 DEF vars, slotVars, seen
<1> QED
  BY <1>2, <1>3, <1>4, <1>5, <1>6, <1>7, <1>8, SentPump, SentParse, SentCached DEF Next

\* Where the sizes agree, no client is ever sent a byte of another's response,
\* of a head, or twice, or out of order, for any cut of the responses and any
\* order of the events.
THEOREM OwnBytesHolds == Spec => []OwnBytes
<1> DEFINE Inv == TypeInv /\ (~hung => Owned) /\ (~hung /\ ~mixed => Clean)
<1>1. Init => AllSent
  <2>1. ASSUME Init PROVE \A s \in Slots : body[s] = << >> /\ s \notin active
    BY <2>1 DEF Init
  <2> QED BY <2>1, RisingEmpty DEF AllSent, SentBy
<1>2. Inv /\ (~hung /\ ~mixed => AllSent) /\ [Next]_vars => (~hung' /\ ~mixed' => AllSent')
  BY SentNext, FlagsStay
<1>3. TypeInv /\ (~hung /\ ~mixed => AllSent) => OwnBytes
  <2> SUFFICES ASSUME TypeInv, AllSent, NEW s \in Slots
               PROVE /\ \A i \in DOMAIN body[s] :
                          body[s][i][1] = req[s] /\ body[s][i][2] > req[s].size.len
                     /\ \A i, j \in DOMAIN body[s] : i < j => body[s][i][2] < body[s][j][2]
    BY DEF OwnBytes
  <2>1. body[s] \in Bytes BY DEF TypeInv, SlotsOK
  <2>2. DOMAIN body[s] = 1..Len(body[s]) BY <2>1, LenProperties DEF Bytes
  <2>3. Rising(body[s], req[s], req[s].size.len, Total(req[s])) BY DEF AllSent, SentBy
  <2> QED BY <2>2, <2>3 DEF Rising
<1> QED BY <1>1, <1>2, <1>3, RelayAlways, PTL DEF Spec
=============================================================================
