------------------------------ MODULE Realtime ------------------------------
(***************************************************************************)
(* The WebSocket server of routes/realtime/server.py: one asyncio event    *)
(* loop that runs a handler per connection and one drain task that         *)
(* broadcasts changefeed events.  A coroutine gives the loop away only     *)
(* where it awaits a send that does not complete at once; while the drain  *)
(* task runs (drain = "run") nothing else does.                            *)
(*                                                                         *)
(* topics[c] is the table of the dict of connection c that _ws_index maps  *)
(* its id to, in insertion order: a popped entry stays as a dead slot      *)
(* until CPython rebuilds the table.  (_channels holds the same sessions   *)
(* and is never read; it has no variable here.)                            *)
(***************************************************************************)
EXTENDS RealtimeAuth, Integers, FiniteSets

CONSTANTS
  Conns,      (* connections, each opened at most once                      *)
  Ids,        (* values of id(ws); those of freed objects are given again   *)
  Usable,     (* entries of the smallest dict table, dead ones included     *)
  Topics,
  Tokens,     (* what a client may present, None included                   *)
  Configs,    (* the lists of subscriptions a client may ask for            *)
  Events,     (* the changefeed events that may arrive                      *)
  Leavers,    (* connections that may leave a channel                       *)
  Closers,    (* connections that may close                                 *)
  MaxEvents,  (* bound: events fed                                          *)
  MaxJoins,   (* bound: phx_join messages                                   *)
  MaxInputs   (* bound: both together                                       *)

ASSUME RealtimeAssumption ==
  /\ MaxEvents \in Nat /\ MaxJoins \in Nat
  /\ RequireAuth \in BOOLEAN /\ JwtSecretSet \in BOOLEAN /\ Usable \in Nat
  /\ None \notin Conns \cup Ids
  /\ \A config \in Configs : config \in Seq([schema : STRING, table : STRING, event : STRING])

VARIABLES
  feed,       \* every event put on _event_queue, in order
  taken,      \* how many of them the drain task has taken off the queue
  drain,      \* drain task: "get", "run", "send" (suspended in ws.send), "dead"
  snapshot,   \* connections left of list(self._ws_index.items())
  cur,        \* the iteration over one connection's topics, or None
  net,        \* connection: "absent", "open", "closed" (handler alive), "gone"
  idOf,       \* id(ws) of each connection
  query,      \* claims of the apikey the connection was opened with
  activeWs,   \* _active_ws: id to connection, or None
  wsIndex,    \* _ws_index: id to the connection that owns the dict, or None
  topics,
  moved,      \* events for which an iteration saw the entries of a dict move
  handler,    \* "recv", "system" (reply sent, system message due), "raised"
  joins,      \* phx_join messages handled so far; numbers the join_refs
  sent        \* messages given to each connection's transport, in order

feedVars == <<feed, taken>>
drainVars == <<drain, snapshot, cur>>
connVars == <<net, idOf, query, activeWs>>
joinVars == <<wsIndex, topics, moved, handler, joins>>
vars == <<feedVars, drainVars, connVars, joinVars, sent>>

ClaimSet == {claims_from_access_token(token) : token \in Tokens}

Init ==
  /\ feed = <<>> /\ taken = 0
  /\ drain = "get" /\ snapshot = {} /\ cur = None
  /\ net = [c \in Conns |-> "absent"]
  /\ idOf = [c \in Conns |-> None]
  /\ query = [c \in Conns |-> None]
  /\ activeWs = [i \in Ids |-> None]
  /\ wsIndex = [i \in Ids |-> None]
  /\ topics = [c \in Conns |-> <<>>]
  /\ moved = [c \in Conns |-> {}]
  /\ handler = [c \in Conns |-> "recv"]
  /\ joins = 0
  /\ sent = [c \in Conns |-> <<>>]

\* The event loop is free to run another callback.
LoopFree == drain # "run"

Handling(c) == LoopFree /\ net[c] \in {"open", "closed"}

\* A send on a connection that is not open raises ConnectionClosed.
Transmit(c, message) == sent' = [sent EXCEPT ![c] = Append(@, message)]

\* Mutant: a left topic is still served.
LiveAll(c) == DOMAIN topics[c]

Live(c) == {k \in DOMAIN topics[c] : topics[c][k].live}
Slots(c, t) == {k \in Live(c) : topics[c][k].topic = t}

-----------------------------------------------------------------------------
(* The changefeed thread: call_soon_threadsafe(put_nowait, event).          *)
_enqueue_changefeed_event(event) ==
  /\ LoopFree
  /\ Len(feed) < MaxEvents /\ Len(feed) + joins < MaxInputs
  /\ feed' = Append(feed, event)
  /\ UNCHANGED <<taken, drainVars, connVars, joinVars, sent>>

(* The handler of one connection.                                           *)

\* Objects the interpreter still refers to: their ids are not given out.
Referenced(c) ==
  \/ net[c] \in {"open", "closed"}
  \/ \E i \in Ids : activeWs[i] = c
  \/ cur # None /\ cur.ws = c

FreeIds == {i \in Ids : \A c \in Conns : idOf[c] = i => ~Referenced(c)}

Connect(c, i, token) ==
  /\ LoopFree
  /\ net[c] = "absent"
  /\ i \in FreeIds
  /\ idOf' = [idOf EXCEPT ![c] = i]
  /\ activeWs' = [activeWs EXCEPT ![i] = c]
  /\ IF Unreadable(token)
     THEN net' = [net EXCEPT ![c] = "gone"] /\ UNCHANGED query
     ELSE /\ net' = [net EXCEPT ![c] = "open"]
          /\ query' = [query EXCEPT ![c] = claims_from_access_token(token)]
  /\ UNCHANGED <<feedVars, drainVars, joinVars, sent>>

\* The peer closes, or the ping timeout does.
Close(c) ==
  /\ c \in Closers
  /\ LoopFree
  /\ net[c] = "open"
  /\ net' = [net EXCEPT ![c] = "closed"]
  /\ UNCHANGED <<feedVars, drainVars, idOf, query, activeWs, joinVars, sent>>

\* Mutant: the finally clause clears the index instead of popping its entry.
ForgetAll(c) ==
  /\ net' = [net EXCEPT ![c] = "gone"]
  /\ activeWs' = [activeWs EXCEPT ![idOf[c]] = None]
  /\ wsIndex' = [i \in Ids |-> None]
  /\ UNCHANGED <<feedVars, drainVars, idOf, query, topics, moved, handler, joins, sent>>

\* The finally clause.
Forget(c) ==
  /\ net' = [net EXCEPT ![c] = "gone"]
  /\ activeWs' = [activeWs EXCEPT ![idOf[c]] = None]
  /\ wsIndex' = [wsIndex EXCEPT ![idOf[c]] = None]
  /\ UNCHANGED <<feedVars, drainVars, idOf, query, topics, moved, handler, joins, sent>>

\* The message loop ends, or a send of the handler has raised.
Unwind(c) ==
  /\ LoopFree
  /\ net[c] = "closed"
  /\ Forget(c)

\* A phx_join whose token cannot be encoded raises: the connection is closed.
JoinRaises(c) ==
  /\ Handling(c)
  /\ handler[c] = "recv"
  /\ \E token \in Tokens : Unreadable(token)
  /\ Forget(c)

\* Mutant: the reply to a join is left to the announcement that follows it.
ReplyLate(c, message, next) ==
  /\ handler' = [handler EXCEPT ![c] = next]
  /\ IF net[c] = "open" /\ next # "system" THEN Transmit(c, message)
                                           ELSE UNCHANGED sent

\* What the handler does next when it sends: the reply goes out, or raises.
Reply(c, message, next) ==
  IF net[c] = "open"
  THEN Transmit(c, message) /\ handler' = [handler EXCEPT ![c] = next]
  ELSE UNCHANGED sent /\ handler' = [handler EXCEPT ![c] = "raised"]

\* The live slots of a table in their order, the dead ones left out.
Packings(c) ==
  {f \in [1..Cardinality(Live(c)) -> Live(c)] : \A k, l \in DOMAIN f : k < l => f[k] < f[l]}

\* The table after dict assignment: a live key keeps its slot, a new key takes
\* the next one.  A table may be full from Usable entries on; then it is rebuilt
\* of its live entries first, and those behind a dead one move to the left.
Tables(c, t, session) ==
  LET entry == [topic |-> t, session |-> session, live |-> TRUE] IN
  IF Slots(c, t) # {}
  THEN {[k \in DOMAIN topics[c] |-> IF k \in Slots(c, t) THEN entry ELSE topics[c][k]]}
  ELSE {Append(topics[c], entry)} \cup
       {Append([k \in DOMAIN f |-> topics[c][f[k]]], entry) :
          f \in {g \in Packings(c) : Len(topics[c]) >= Usable}}

\* Ghost: entries moved under the iteration of the drain task.
Moves(c, table) ==
  moved' = IF cur # None /\ cur.owner = c
              /\ \E k \in Live(c) : k \notin DOMAIN table \/ table[k].topic # topics[c][k].topic
           THEN [moved EXCEPT ![c] = @ \cup {taken}]
           ELSE moved

\* The session carries two ghosts: its join number, and how many events had
\* been taken off the queue when it was made.
_handle_join(c, t, token, config) ==
  LET claims  == _resolve_claims(token, query[c])
      session == [join |-> joins + 1, claims |-> claims, subs |-> config,
                  since |-> taken]
  IN  /\ Handling(c)
      /\ handler[c] = "recv"
      /\ joins < MaxJoins /\ Len(feed) + joins < MaxInputs
      /\ ~Unreadable(token)
      /\ joins' = joins + 1
      /\ IF authorize_join(claims)
         THEN /\ \E table \in Tables(c, t, session) :
                   topics' = [topics EXCEPT ![c] = table] /\ Moves(c, table)
              /\ wsIndex' = [wsIndex EXCEPT ![idOf[c]] = c]
              /\ Reply(c, [kind |-> "ok", topic |-> t, session |-> session],
                       IF config = <<>> THEN "recv" ELSE "system")
         ELSE /\ Reply(c, [kind |-> "error", topic |-> t], "recv")
              /\ UNCHANGED <<wsIndex, topics, moved>>
      /\ UNCHANGED <<feedVars, drainVars, connVars>>

\* The reply's send has returned; a session with subscriptions is announced.
SendSystem(c) ==
  /\ Handling(c)
  /\ handler[c] = "system"
  /\ Reply(c, [kind |-> "system"], "recv")
  /\ UNCHANGED <<feedVars, drainVars, connVars, wsIndex, topics, moved, joins>>

\* phx_leave of a joined topic, answered if it carries ref and join_ref; the
\* ghost ev is the last event taken.
HandleLeave(c, t) ==
  /\ c \in Leavers
  /\ Handling(c)
  /\ handler[c] = "recv"
  /\ \E k \in Slots(c, t) :
       /\ topics' = [topics EXCEPT ![c][k].live = FALSE]
       /\ \/ Reply(c, [kind |-> "left", join |-> topics[c][k].session.join,
                       ev |-> taken], "recv")
          \/ UNCHANGED <<sent, handler>>
  /\ UNCHANGED <<feedVars, drainVars, connVars, wsIndex, moved, joins>>

-----------------------------------------------------------------------------
(* The drain task.                                                          *)

\* Mutant: the queue is not awaited.
TakeAtOnce ==
  /\ drain = "get"
  /\ taken' = taken + 1
  /\ drain' = "run"
  /\ snapshot' = {wsIndex[i] : i \in Ids} \ {None}
  /\ UNCHANGED <<feed, cur, connVars, joinVars, sent>>

\* await self._event_queue.get(); the broadcast takes its snapshot.
Take ==
  /\ drain = "get"
  /\ taken < Len(feed)
  /\ taken' = taken + 1
  /\ drain' = "run"
  /\ snapshot' = {wsIndex[i] : i \in Ids} \ {None}
  /\ UNCHANGED <<feed, cur, connVars, joinVars, sent>>

\* The next (ws_id, topics) of the snapshot, in any order: the connection is
\* looked up by id, and skipped if the id is not active any more.
NextWs(c) ==
  /\ drain = "run" /\ cur = None
  /\ c \in snapshot
  /\ snapshot' = snapshot \ {c}
  /\ LET ws == activeWs[idOf[c]] IN
       cur' = IF ws = None THEN None
              ELSE [owner |-> c, ws |-> ws, size |-> Cardinality(Live(c)),
                    left |-> Cardinality(Live(c)),
                    slot |-> 0, sub |-> 1, topic |-> None, session |-> None]
  /\ UNCHANGED <<feedVars, drain, connVars, joinVars, sent>>

EndBroadcast ==
  /\ drain = "run" /\ cur = None
  /\ snapshot = {}
  /\ drain' = "get"
  /\ UNCHANGED <<feedVars, snapshot, cur, connVars, joinVars, sent>>

\* Mutant: the last subscription of a session is not looked at.
SessionDoneEarly == cur.slot # 0 => cur.sub >= Len(cur.session.subs)

\* No subscription of the session in hand is left (or none is in hand yet).
SessionDone == cur.slot # 0 => cur.sub > Len(cur.session.subs)

\* The slots of the dict the iterator has not reached.
Ahead == {k \in Live(cur.owner) : k > cur.slot}

\* The iterator raises if the number of keys is not what it was, or if it meets
\* one more key than there were.
KeysChanged ==
  \/ Cardinality(Live(cur.owner)) # cur.size
  \/ Ahead # {} /\ cur.left = 0

\* One step of the dict iterator; the for statement binds the session the slot
\* holds now.
NextTopic ==
  /\ drain = "run" /\ cur # None
  /\ SessionDone
  /\ \/ KeysChanged /\ drain' = "dead" /\ UNCHANGED cur
     \/ /\ ~KeysChanged
        /\ IF Ahead = {} THEN cur' = None
           ELSE \E k \in Ahead :
                  /\ \A l \in Ahead : k <= l
                  /\ cur' = [cur EXCEPT !.left = @ - 1, !.slot = k, !.sub = 1,
                                        !.topic = topics[cur.owner][k].topic,
                                        !.session = topics[cur.owner][k].session]
        /\ UNCHANGED drain
  /\ UNCHANGED <<feedVars, snapshot, connVars, joinVars, sent>>

\* The next subscription of the session: filtered out, or sent.
SkipSub ==
  /\ drain = "run" /\ cur # None
  /\ ~SessionDone
  /\ ~Delivers(cur.session, cur.sub, feed[taken])
  /\ cur' = [cur EXCEPT !.sub = @ + 1]
  /\ UNCHANGED <<feedVars, drain, snapshot, connVars, joinVars, sent>>

SendSub ==
  /\ drain = "run" /\ cur # None
  /\ ~SessionDone
  /\ Delivers(cur.session, cur.sub, feed[taken])
  /\ IF net[cur.ws] = "open"
     THEN /\ Transmit(cur.ws, [kind |-> "changes", topic |-> cur.topic,
                join |-> cur.session.join, sub |-> cur.sub, ev |-> taken])
          /\ cur' = [cur EXCEPT !.sub = @ + 1]
          /\ drain' = "send"
     ELSE drain' = "dead" /\ UNCHANGED <<cur, sent>>
  /\ UNCHANGED <<feedVars, snapshot, connVars, joinVars>>

\* Mutants: a send that returned is repeated; one whose connection is lost
\* is never completed.
ResumeResends ==
  /\ drain = "send"
  /\ drain' = "run"
  /\ cur' = [cur EXCEPT !.sub = @ - 1]
  /\ UNCHANGED <<feedVars, snapshot, connVars, joinVars, sent>>

ResumeOpenOnly ==
  /\ drain = "send"
  /\ net[cur.ws] = "open"
  /\ drain' = "run"
  /\ UNCHANGED <<feedVars, snapshot, cur, connVars, joinVars, sent>>

\* The send returns, or, on a connection lost meanwhile, may raise.
Resume ==
  /\ drain = "send"
  /\ \/ drain' = "run"
     \/ net[cur.ws] # "open" /\ drain' = "dead"
  /\ UNCHANGED <<feedVars, snapshot, cur, connVars, joinVars, sent>>

-----------------------------------------------------------------------------
Drain ==
  \/ Take
  \/ \E c \in Conns : NextWs(c)
  \/ EndBroadcast
  \/ NextTopic
  \/ SkipSub
  \/ SendSub
  \/ Resume

Handler(c) ==
  \/ \E t \in Topics, token \in Tokens, config \in Configs :
       _handle_join(c, t, token, config)
  \/ \E t \in Topics : HandleLeave(c, t)
  \/ SendSystem(c)
  \/ Unwind(c)
  \/ JoinRaises(c)

Network(c) ==
  \/ \E i \in Ids, token \in Tokens : Connect(c, i, token)
  \/ Close(c)

Next ==
  \/ \E event \in Events : _enqueue_changefeed_event(event)
  \/ \E c \in Conns : Network(c) \/ Handler(c)
  \/ Drain

Spec == Init /\ [][Next]_vars

\* The loop runs what is ready.  A send does not wait for ever: the transport
\* drains, or the ping timeout (20 s) ends the connection.
Fairness ==
  /\ WF_vars(Drain)
  /\ \A c \in Conns : WF_vars(Unwind(c) \/ SendSystem(c))

FairSpec == Spec /\ Fairness

-----------------------------------------------------------------------------
Sessions ==
  [join : 1..MaxJoins, claims : ClaimSet, subs : Configs, since : 0..MaxEvents]

Message ==
       [kind : {"ok"}, topic : Topics, session : Sessions]
  \cup [kind : {"error"}, topic : Topics]
  \cup [kind : {"system"}]
  \cup [kind : {"left"}, join : 1..MaxJoins, ev : 0..MaxEvents]
  \cup [kind : {"changes"}, topic : Topics, join : 1..MaxJoins, sub : Nat,
        ev : 1..MaxEvents]

Iterations ==
       [owner : Conns, ws : Conns, size : Nat, left : Nat, slot : {0}, sub : {1},
        topic : {None}, session : {None}]
  \cup [owner : Conns, ws : Conns, size : Nat, left : Nat, slot : Nat \ {0}, sub : Nat \ {0},
        topic : Topics, session : Sessions]

\* None is Python's None, no record.
ASSUME NoneAssumption == None \notin Iterations

TypeOK ==
  /\ feed \in Seq(Events) /\ Len(feed) <= MaxEvents
  /\ taken \in 0..Len(feed)
  /\ drain \in {"get", "run", "send", "dead"}
  /\ snapshot \in SUBSET Conns
  /\ cur \in Iterations \cup {None}
  /\ net \in [Conns -> {"absent", "open", "closed", "gone"}]
  /\ idOf \in [Conns -> Ids \cup {None}]
  /\ query \in [Conns -> ClaimSet \cup {None}]
  /\ activeWs \in [Ids -> Conns \cup {None}]
  /\ wsIndex \in [Ids -> Conns \cup {None}]
  /\ topics \in [Conns -> Seq([topic : Topics, session : Sessions, live : BOOLEAN])]
  /\ moved \in [Conns -> SUBSET (1..MaxEvents)]
  /\ handler \in [Conns -> {"recv", "system", "raised"}]
  /\ joins \in 0..MaxJoins
  /\ sent \in [Conns -> Seq(Message)]

Of(c, kind) == {i \in DOMAIN sent[c] : sent[c][i].kind = kind}

\* The drain task is inside a broadcast exactly while it is not waiting on the
\* queue, and it is suspended or dead only inside one connection's topics.
DrainControl ==
  /\ drain = "get" => snapshot = {} /\ cur = None
  /\ drain # "get" => taken # 0
  /\ drain \in {"send", "dead"} => cur # None
  /\ drain = "send" => cur.slot # 0

\* What is filed under an id belongs to a connection that has this id.
IdsFiled ==
  /\ \A c \in Conns : net[c] # "absent" => idOf[c] \in Ids
  /\ \A c \in Conns : net[c] \in {"open", "closed"} => query[c] \in ClaimSet
  /\ \A c \in Conns : net[c] = "absent" => idOf[c] = None /\ topics[c] = <<>>
  /\ \A i \in Ids : activeWs[i] # None => idOf[activeWs[i]] = i
  /\ \A i \in Ids : wsIndex[i] # None => idOf[wsIndex[i]] = i
  /\ \A c \in snapshot : net[c] # "absent"
  /\ cur # None => net[cur.owner] # "absent"

Acked(log, topic, join) ==
  \E k \in DOMAIN log :
    log[k].kind = "ok" /\ log[k].topic = topic /\ log[k].session.join = join

\* While a connection is open, each of its sessions has been answered, the one
\* in the hand of the drain task included.
SessionsAcked ==
  /\ \A c \in Conns : net[c] = "open" =>
       \A k \in DOMAIN topics[c] : Acked(sent[c], topics[c][k].topic, topics[c][k].session.join)
  /\ cur # None /\ cur.slot # 0 /\ net[cur.owner] = "open"
       => Acked(sent[cur.owner], cur.topic, cur.session.join)

Bookkeeping == DrainControl /\ IdsFiled /\ SessionsAcked

\* The change i is for a channel c joined itself, and came after the reply.
Answered(c, i) ==
  \E k \in Of(c, "ok") :
    /\ k < i
    /\ sent[c][k].topic = sent[c][i].topic
    /\ sent[c][k].session.join = sent[c][i].join

(***************************************************************************)
(* A client is sent postgres_changes only for a channel it joined itself   *)
(* on that connection, and only after the reply to that join: but for a    *)
(* connection that was given the id of one that is gone.  That one may be  *)
(* sent what is left of the event under broadcast when it connected, for   *)
(* the channels of the one that is gone, and of no later event.            *)
(***************************************************************************)
OwnChannel ==
  \A c \in Conns : \A i \in Of(c, "changes") :
    \/ Answered(c, i)
    \/ /\ \E d \in Conns \ {c} : idOf[d] = idOf[c] /\ net[d] = "gone"
       /\ \A j \in Of(c, "changes") : j <= i => sent[c][j].ev = sent[c][i].ev

(***************************************************************************)
(* A connection is sent changes in feed order, whatever channels they are  *)
(* for, and no subscription of a join is sent the same event twice.        *)
(***************************************************************************)
FeedOrder ==
  \A c \in Conns : \A i, j \in Of(c, "changes") :
    i < j =>
      /\ sent[c][i].ev <= sent[c][j].ev
      /\ sent[c][i].join = sent[c][j].join /\ sent[c][i].sub = sent[c][j].sub
           => sent[c][i].ev < sent[c][j].ev

(***************************************************************************)
(* Once a phx_leave is answered, the left join is sent at most what is     *)
(* left of the one event that was being broadcast: the for statement over  *)
(* the subscriptions keeps the session it bound.                           *)
(***************************************************************************)
LeaveIsPrompt ==
  \A c \in Conns : \A i \in Of(c, "left"), j \in Of(c, "changes") :
    i < j /\ sent[c][i].join = sent[c][j].join => sent[c][j].ev = sent[c][i].ev

\* Events whose broadcast has run to its end.
Done == IF drain = "get" THEN 1..taken ELSE 1..(taken - 1)

Sent(c, join, sub, ev) ==
  \E i \in Of(c, "changes") :
    sent[c][i].join = join /\ sent[c][i].sub = sub /\ sent[c][i].ev = ev

(***************************************************************************)
(* No subscriber is skipped: a join that is still in place on an open      *)
(* connection has been sent every event taken after it and broadcast to    *)
(* the end, once for each of its subscriptions that matches and may see    *)
(* the row, whatever other clients did meanwhile: but for the events while *)
(* whose broadcast a join of its own connection made CPython rebuild the   *)
(* dict under iteration and moved an entry past the iterator.              *)
(***************************************************************************)
NoneSkipped ==
  \A c \in Conns : net[c] = "open" =>
    \A k \in Live(c) : LET session == topics[c][k].session IN
      \A ev \in Done \ moved[c] : \A n \in DOMAIN session.subs :
        ev > session.since /\ Delivers(session, n, feed[ev])
          => Sent(c, session.join, n, ev)

\* A row sent for a join that was answered with these claims.
RowSent(c, claims, row) ==
  \E i \in Of(c, "changes"), k \in Of(c, "ok") :
    /\ sent[c][k].session.join = sent[c][i].join
    /\ claims = sent[c][k].session.claims
    /\ row = feed[sent[c][i].ev].record

Rows == {event.record : event \in Events}

(***************************************************************************)
(* docs/realtime.md:118: an authenticated join is sent only rows of the    *)
(* publisher its claims name, or rows without one.                         *)
(***************************************************************************)
TenantIsolation ==
  \A c \in Conns, claims \in ClaimSet, row \in Rows :
    RowSent(c, claims, row) /\ claims.role = "authenticated"
      => /\ claims.publisher_id # None
         /\ row.publisher_id \in {None, claims.publisher_id}

(***************************************************************************)
(* The drain task comes to the end of the broadcast of every event that    *)
(* arrives, or has died: no client, however slow or short-lived, can       *)
(* merely stall it.                                                        *)
(***************************************************************************)
QueueDrained ==
  \A ev \in 1..MaxEvents :
    ev <= Len(feed) ~> ev < taken \/ (ev = taken /\ drain = "get") \/ drain = "dead"

Received(c, join, ev) ==
  \E i \in Of(c, "changes") : sent[c][i].join = join /\ sent[c][i].ev = ev

\* A join in place on an open connection is yet to be sent a matching event.
Waits(join, ev) ==
  \E c \in Conns :
    /\ net[c] = "open" /\ ~Received(c, join, ev)
    /\ \E k \in Live(c) : LET session == topics[c][k].session IN
         /\ session.join = join
         /\ session.since < ev /\ ev <= Len(feed)
         /\ \E n \in DOMAIN session.subs : Delivers(session, n, feed[ev])

(***************************************************************************)
(* A joined client on a connection that stays open is sent every matching  *)
(* event, whatever the other clients do, unless the drain task has died or *)
(* the entries of its dict moved under the broadcast.                      *)
(***************************************************************************)
MatchDelivered ==
  \A join \in 1..MaxJoins, ev \in 1..MaxEvents :
    Waits(join, ev)
      ~> ~Waits(join, ev) \/ drain = "dead" \/ \E c \in Conns : ev \in moved[c]

(***************************************************************************)
(* docs/realtime.md:31: a joined client receives postgres_changes when the *)
(* changefeed emits a matching row.  It does not when a broadcast has met  *)
(* a connection that closed, or that joined or left a channel meanwhile.   *)
(***************************************************************************)
AlwaysDelivered ==
  \A join \in 1..MaxJoins, ev \in 1..MaxEvents : Waits(join, ev) ~> ~Waits(join, ev)
=============================================================================
