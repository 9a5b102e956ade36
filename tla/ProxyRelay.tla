----------------------------- MODULE ProxyRelay -----------------------------
(***************************************************************************)
(* The reverse proxy of li-httpd (packages/li-httpd/src/lib.li): one       *)
(* thread serves client slots and upstream connections, an epoll event at  *)
(* a time.  The head of one response is kept and sent as the head of every *)
(* later one, of any upstream; bodies are counted by its Content-Length.   *)
(*                                                                         *)
(* Functions named ..._i belong to a runtime of another repository: what   *)
(* they do is taken from how lib.li calls them.  TLS, HTTP 2, snapshots    *)
(* and health probes are theirs.  A response is size.len bytes of head and *)
(* size.cl of body; a byte is <<request, position>>.                       *)
(***************************************************************************)
EXTENDS Integers, Sequences, FiniteSets

CONSTANTS
  Slots, Fds,        (* client slots; descriptors of upstream connections   *)
  NoFd, NoSlot,
  Sizes,             (* of responses: of the head and of the body           *)
  MaxRequests        (* bound: requests of all clients                      *)

ASSUME ProxyAssumption ==
  /\ NoFd \notin Fds /\ NoSlot \notin Slots
  /\ Sizes \subseteq [len : Nat \ {0}, cl : Nat] /\ MaxRequests \in Nat

VARIABLES
  conn,      \* slots whose client is connected
  active,    \* slots that relay a request
  up,        \* the upstream connection of a slot
  phase,     \* "send_req", "send_body", "relay"
  parsing,   \* the response: "parse" or "cached" its head, then "body"
  left,      \* body bytes to come
  acc,       \* the bytes of the head that came
  cache,     \* the size of the kept head and its Content-Length
  open,      \* upstream connections that are open
  idle,      \* those of them in the pool
  tag,       \* the slot epoll names for a connection
  wire,      \* what is to be received on it
  owed,      \* the requests the upstream has to answer on it
  ended,     \* those the upstream has closed
  req,       \* the request a slot relays
  body,      \* what its client was sent behind the head
  result,    \* how it ended: "none", "ok", "err"
  hung,      \* an upstream hung up on an active slot
  mixed,     \* a response was relayed by a head of another size
  requests

slotVars == <<active, up, phase, parsing, left, acc>>
fdVars == <<open, idle, tag, wire, owed, ended>>
seen == <<req, body, result>>
vars == <<conn, slotVars, cache, fdVars, seen, hung, mixed, requests>>

NoHead == [len |-> 0, cl |-> 0]
NoReq == [n |-> 0, size |-> NoHead]
Response(r) == [i \in 1..(r.size.len + r.size.cl) |-> <<r, i>>]
Behind(bytes, n) == SubSeq(bytes, n + 1, Len(bytes))

Init ==
  /\ conn = {} /\ active = {}
  /\ up = [s \in Slots |-> NoFd]
  /\ phase = [s \in Slots |-> "send_req"]
  /\ parsing = [s \in Slots |-> "parse"]
  /\ left = [s \in Slots |-> 0]
  /\ acc = [s \in Slots |-> << >>]
  /\ cache = NoHead
  /\ open = {} /\ idle = {} /\ ended = {}
  /\ tag = [f \in Fds |-> NoSlot]
  /\ wire = [f \in Fds |-> << >>] /\ owed = [f \in Fds |-> << >>]
  /\ req = [s \in Slots |-> NoReq]
  /\ body = [s \in Slots |-> << >>]
  /\ result = [s \in Slots |-> "none"]
  /\ hung = FALSE /\ mixed = FALSE /\ requests = 0

-----------------------------------------------------------------------------
(* What the runtime does. *)

\* Mutant: a connection that is closed stays in the pool.
CloseFdPooled(f) ==
  /\ open' = open \ {f} /\ idle' = idle \cup {f} /\ ended' = ended \ {f}
  /\ tag' = [tag EXCEPT ![f] = NoSlot]
  /\ wire' = [wire EXCEPT ![f] = << >>] /\ owed' = [owed EXCEPT ![f] = << >>]

\* A connection that is closed is gone with what was on it.
CloseFd(f) ==
  /\ open' = open \ {f} /\ idle' = idle \ {f} /\ ended' = ended \ {f}
  /\ tag' = [tag EXCEPT ![f] = NoSlot]
  /\ wire' = [wire EXCEPT ![f] = << >>] /\ owed' = [owed EXCEPT ![f] = << >>]

\* Mutant: the connection of a failed relay is used again too.
ReuseAlways(how) == TRUE

\* Only a connection whose response was relayed goes back to the pool.
Reuse(how) == how = "ok"

\* finish_ok and finish_err; rest is what was not received.
Finish(s, how, rest) ==
  /\ active' = active \ {s}
  /\ up' = [up EXCEPT ![s] = NoFd]
  /\ result' = [result EXCEPT ![s] = how]
  /\ IF Reuse(how)
     THEN /\ idle' = idle \cup {up[s]}
          /\ tag' = [tag EXCEPT ![up[s]] = NoSlot]
          /\ wire' = [wire EXCEPT ![up[s]] = rest]
          /\ UNCHANGED <<open, owed, ended>>
     ELSE CloseFd(up[s])

\* The upstream answers the first of the requests it has whole, or breaks off.
Answer(f) ==
  /\ f \in open \ ended /\ owed[f] # << >>
  /\ \E n \in 0..Len(Response(Head(owed[f]))) :
       /\ wire' = [wire EXCEPT ![f] = @ \o SubSeq(Response(Head(owed[f])), 1, n)]
       /\ ended' = IF n < Len(Response(Head(owed[f]))) THEN ended \cup {f} ELSE ended
  /\ owed' = [owed EXCEPT ![f] = Tail(@)]
  /\ UNCHANGED <<conn, slotVars, cache, open, idle, tag, seen, hung, mixed, requests>>

\* It may close a connection nobody uses.
CloseIdle(f) ==
  /\ f \in idle \ ended
  /\ ended' = ended \cup {f}
  /\ UNCHANGED <<conn, slotVars, cache, open, idle, tag, wire, owed, seen, hung, mixed, requests>>

-----------------------------------------------------------------------------
(* Clients *)

proxy_accept_batch(s) ==
  /\ s \notin conn
  /\ conn' = conn \cup {s}
  /\ UNCHANGED <<slotVars, cache, fdVars, seen, hung, mixed, requests>>

\* proxy_handle_client_in has read a whole request.
Requested(s) ==
  /\ s \in conn \ active /\ requests < MaxRequests
  /\ requests' = requests + 1

\* It returns -1: its client is disconnected, but not if the request was there
\* when proxy_accept_batch, which ignores the -1, let it in.
Failed(s) == conn' \in {conn, conn \ {s}}

\* An idle connection or a new one.
Acquired(f) == f \in idle \cup (Fds \ open)

proxy_li_start(s) ==
  /\ Requested(s)
  /\ \E f \in Fds :
       /\ Acquired(f)
       /\ open' = open \cup {f} /\ idle' = idle \ {f}
       /\ tag' = [tag EXCEPT ![f] = s]
       /\ up' = [up EXCEPT ![s] = f]
  /\ active' = active \cup {s}
  /\ phase' = [phase EXCEPT ![s] = "send_req"]
  /\ acc' = [acc EXCEPT ![s] = << >>]
  /\ left' = [left EXCEPT ![s] = 0]
  /\ \E z \in Sizes : req' = [req EXCEPT ![s] = [n |-> requests', size |-> z]]
  /\ body' = [body EXCEPT ![s] = << >>]
  /\ result' = [result EXCEPT ![s] = "none"]
  /\ UNCHANGED <<conn, parsing, wire, owed, ended, cache, hung, mixed>>

\* Mutant: a connection that was acquired for nothing is kept.
MarkFailsKeeps(s) ==
  /\ Requested(s)
  /\ \E f \in Fds : Acquired(f) /\ open' = open \cup {f} /\ idle' = idle \ {f}
  /\ Failed(s)
  /\ UNCHANGED <<slotVars, cache, tag, wire, owed, ended, seen, hung, mixed>>

\* httpd_li_proxy_mark_active_i fails: the connection is given back, not to be
\* used again.
MarkFails(s) ==
  /\ Requested(s)
  /\ \E f \in Fds : Acquired(f) /\ CloseFd(f)
  /\ Failed(s)
  /\ UNCHANGED <<slotVars, cache, seen, hung, mixed>>

\* httpd_upstream_acquire_for_slot_i fails.
AcquireFails(s) ==
  /\ Requested(s)
  /\ Failed(s)
  /\ UNCHANGED <<slotVars, cache, fdVars, seen, hung, mixed>>

-----------------------------------------------------------------------------
(* proxy_dispatch_hangup_loaded *)

\* An active slot only ends its relay; it is freed by the next such event.
ClientHangup(s) ==
  /\ s \in conn
  /\ IF s \in active THEN Finish(s, "err", << >>) /\ UNCHANGED conn
     ELSE conn' = conn \ {s} /\ UNCHANGED <<active, up, result, fdVars>>
  /\ UNCHANGED <<phase, parsing, left, acc, cache, req, body, hung, mixed, requests>>

\* The connection is closed; the slot is left as it is.
UpHangup(f) ==
  /\ f \in open /\ tag[f] # NoSlot
  /\ CloseFd(f)
  /\ hung' = TRUE
  /\ UNCHANGED <<conn, slotVars, cache, seen, mixed, requests>>

-----------------------------------------------------------------------------
(* The relay *)

\* The -1 disconnects the client where it ends the event of its request.
proxy_li_finish_err(s) == Finish(s, "err", << >>) /\ Failed(s)

\* An event of the upstream, or of the client for the rest of a request body.
Sending(s) ==
  /\ s \in active /\ phase[s] # "relay"
  /\ up[s] \in Fds /\ (tag[up[s]] = s \/ phase[s] = "send_body")

proxy_li_pump_send(s) ==
  /\ Sending(s)
  /\ phase' = [phase EXCEPT ![s] = "send_body"]
  /\ UNCHANGED <<conn, active, up, parsing, left, acc, cache, fdVars, seen, hung, mixed, requests>>

\* All is sent; the first look for the response is an event of its own.
proxy_li_enter_relay(s) ==
  /\ Sending(s)
  /\ phase' = [phase EXCEPT ![s] = "relay"]
  /\ parsing' = [parsing EXCEPT ![s] = IF cache.len > 0 THEN "cached" ELSE "parse"]
  /\ owed' = IF up[s] \in open THEN [owed EXCEPT ![up[s]] = Append(@, req[s])] ELSE owed
  /\ UNCHANGED <<conn, active, up, left, acc, cache, open, idle, tag, wire, ended, seen,
                 hung, mixed, requests>>

\* A send, or a receive, that fails.
Fails(s) ==
  /\ s \in active /\ (Sending(s) \/ tag[up[s]] = s)
  /\ proxy_li_finish_err(s)
  /\ UNCHANGED <<phase, parsing, left, acc, cache, req, body, hung, mixed, requests>>

Receiving(s, how) ==
  s \in active /\ phase[s] = "relay" /\ parsing[s] = how /\ tag[up[s]] = s

\* The body is counted from lft on; at zero, or below it, the relay is done.
Counted(s, lft, rest) ==
  /\ left' = [left EXCEPT ![s] = lft]
  /\ parsing' = [parsing EXCEPT ![s] = "body"]
  /\ UNCHANGED conn
  /\ IF lft <= 0 THEN Finish(s, "ok", rest)
     ELSE /\ wire' = [wire EXCEPT ![up[s]] = rest]
          /\ UNCHANGED <<active, up, result, open, idle, tag, owed, ended>>

Least(m, n) == IF m < n THEN m ELSE n

\* proxy_li_pump_cl: a piece of the body, cut to what is left.
proxy_li_pump_cl(s) ==
  /\ Receiving(s, "body")
  /\ \E n \in 1..Len(wire[up[s]]) :
       LET take == Least(n, left[s]) IN
       /\ body' = [body EXCEPT ![s] = @ \o SubSeq(wire[up[s]], 1, take)]
       /\ Counted(s, left[s] - take, Behind(wire[up[s]], n))
  /\ UNCHANGED <<phase, acc, cache, req, hung, mixed, requests>>

\* recv returns 0.
UpEnds(s) ==
  /\ \E how \in {"parse", "cached", "body"} : Receiving(s, how)
  /\ up[s] \in ended /\ wire[up[s]] = << >>
  /\ proxy_li_finish_err(s)
  /\ UNCHANGED <<phase, parsing, left, acc, cache, req, body, hung, mixed, requests>>

\* The heads that end in the bytes, by their sizes.
HeadsIn(bytes) ==
  {[len |-> i, cl |-> bytes[i][1].size.cl] :
     i \in {j \in DOMAIN bytes : bytes[j][2] = bytes[j][1].size.len}}

\* The response is relayed by the head h.
Uses(s, h) == mixed' = (mixed \/ h # req[s].size \/ cache \notin {NoHead, h})

\* Mutant: what was sent with the head is not counted.
LeftBehindHeadUncounted(h, tail) == h.cl

LeftBehindHead(h, tail) == h.cl - Len(tail)

\* Mutant: the last byte of the head is taken for the first of the body.
SentBehindHeadEarly(bytes, h) == Behind(bytes, h.len - 1)

SentBehindHead(bytes, h) == Behind(bytes, h.len)

\* proxy_li_finish_resp_headers: the bytes must hold a whole head, whose size is
\* kept, unless the runtime stays with the one it has.  Of the bytes behind it,
\* one send takes some, and all are counted.
proxy_li_finish_resp_headers(s, bytes, rest) ==
  \/ /\ HeadsIn(bytes) = {}
     /\ proxy_li_finish_err(s)
     /\ UNCHANGED <<parsing, left, cache, body, mixed>>
  \/ \E first \in HeadsIn(bytes) : \E h \in {first} \cup ({cache} \ {NoHead}) :
       /\ \A other \in HeadsIn(bytes) : first.len <= other.len
       /\ cache' = h
       /\ Uses(s, h)
       /\ \/ proxy_li_finish_err(s) /\ UNCHANGED <<parsing, left, body>>
          \/ LET tail == SentBehindHead(bytes, h) IN
             /\ \E sent \in Least(1, Len(tail))..Len(tail) :
                  body' = [body EXCEPT ![s] = @ \o SubSeq(tail, 1, sent)]
             /\ Counted(s, LeftBehindHead(h, tail), rest)

\* The first piece of the response.
proxy_li_on_up_recv_parse(s) ==
  /\ Receiving(s, "parse")
  /\ \E n \in 1..Len(wire[up[s]]) :
       proxy_li_finish_resp_headers(s, SubSeq(wire[up[s]], 1, n), Behind(wire[up[s]], n))
  /\ UNCHANGED <<phase, acc, req, hung, requests>>

\* proxy_li_feed_cached_hdr: the kept head is sent once as many bytes have come;
\* those behind them in the same piece are counted and go nowhere.  Where a
\* shorter head was kept meanwhile the piece is lost.
proxy_li_feed_cached_hdr(s) ==
  /\ Receiving(s, "cached")
  /\ \E n \in 1..Len(wire[up[s]]) :
       LET got == Len(acc[s])
           rest == Behind(wire[up[s]], n)
       IN
       \/ /\ got >= cache.len
          /\ proxy_li_finish_resp_headers(s, acc[s], rest)
          /\ UNCHANGED acc
       \/ /\ got + n < cache.len
          /\ acc' = [acc EXCEPT ![s] = @ \o SubSeq(wire[up[s]], 1, n)]
          /\ wire' = [wire EXCEPT ![up[s]] = rest]
          /\ UNCHANGED <<conn, active, up, parsing, left, cache, body, result, open, idle, tag,
                         owed, ended, mixed>>
       \/ /\ got < cache.len /\ got + n >= cache.len
          /\ acc' = [acc EXCEPT ![s] = @ \o SubSeq(wire[up[s]], 1, cache.len - got)]
          /\ Uses(s, cache)
          /\ Counted(s, cache.cl - (got + n - cache.len), rest)
          /\ UNCHANGED <<cache, body>>
  /\ UNCHANGED <<phase, req, hung, requests>>

-----------------------------------------------------------------------------
\* One event of httpd_upstream_proxy_epoll_loop, or a step of an upstream.
Next ==
  \/ \E s \in Slots :
       \/ proxy_accept_batch(s) \/ ClientHangup(s)
       \/ proxy_li_start(s) \/ MarkFails(s) \/ AcquireFails(s)
       \/ proxy_li_pump_send(s) \/ proxy_li_enter_relay(s) \/ Fails(s)
       \/ proxy_li_on_up_recv_parse(s) \/ proxy_li_feed_cached_hdr(s)
       \/ proxy_li_pump_cl(s) \/ UpEnds(s)
  \/ \E f \in Fds : UpHangup(f) \/ CloseIdle(f) \/ Answer(f)

Spec == Init /\ [][Next]_vars
-----------------------------------------------------------------------------
(* Properties *)

\* Every variable has its type.  Nothing bounds left from below: a body that is
\* shorter than the kept Content-Length was may take it there (lib.li:604).
TypeOK ==
  /\ conn \subseteq Slots /\ active \subseteq conn
  /\ up \in [Slots -> Fds \cup {NoFd}]
  /\ phase \in [Slots -> {"send_req", "send_body", "relay"}]
  /\ parsing \in [Slots -> {"parse", "cached", "body"}]
  /\ left \in [Slots -> Int]
  /\ cache \in [len : Nat, cl : Nat]
  /\ hung \in BOOLEAN /\ mixed \in BOOLEAN /\ requests \in 0..MaxRequests
  /\ open \subseteq Fds /\ idle \subseteq open /\ ended \subseteq open
  /\ tag \in [Fds -> Slots \cup {NoSlot}]
  /\ req \in [Slots -> [n : 1..MaxRequests, size : Sizes] \cup {NoReq}]
  /\ result \in [Slots -> {"none", "ok", "err"}]

(***************************************************************************)
(* Unless an upstream hung up on an active slot, every open upstream       *)
(* connection is in the pool or serves exactly one slot, the one epoll     *)
(* names for it: no two clients share one and none is leaked.              *)
(***************************************************************************)
OneOwner ==
  ~hung =>
    /\ open = idle \cup {up[s] : s \in active}
    /\ \A s \in active : up[s] \notin idle /\ tag[up[s]] = s

(***************************************************************************)
(* As long as no response was relayed by a head of another size, a         *)
(* connection in the pool has nothing left to be received, and nothing to  *)
(* be answered: the next request that is given it reads its own response.  *)
(***************************************************************************)
PoolClean ==
  ~hung /\ ~mixed => \A f \in idle : wire[f] = << >> /\ owed[f] = << >>

(***************************************************************************)
(* So long, while a body is relayed, left is what is still to come from an *)
(* upstream that did not break off, however the bytes were cut into        *)
(* pieces: the slot neither waits for more nor stops early.                *)
(***************************************************************************)
LeftIsTrue ==
  ~hung /\ ~mixed => \A s \in active :
    Receiving(s, "body") /\ up[s] \notin ended => left[s] = Len(wire[up[s]]) /\ left[s] > 0

(***************************************************************************)
(* And so long a client is sent, behind the head, only bytes of the body   *)
(* of its own response, none twice and in their order, whichever           *)
(* connection served whom before.  Some may be missing: see RelayedInFull. *)
(***************************************************************************)
OwnBytes ==
  ~hung /\ ~mixed => \A s \in Slots :
    /\ \A i \in DOMAIN body[s] : body[s][i][1] = req[s] /\ body[s][i][2] > req[s].size.len
    /\ \A i, j \in DOMAIN body[s] : i < j => body[s][i][2] < body[s][j][2]

(***************************************************************************)
(* docs/proxy-nginx-li-migration.md:46, "Full request/response relay": a   *)
(* client whose relay ended well was sent the whole body of its own        *)
(* response and nothing else.                                              *)
(***************************************************************************)
RelayedInFull ==
  \A s \in Slots : result[s] = "ok" => body[s] = Behind(Response(req[s]), req[s].size.len)
=============================================================================
