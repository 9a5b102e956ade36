---------------------------- MODULE HttpdProofs ----------------------------
(***************************************************************************)
(* For any configuration files, edits and requests, any slugs and any way  *)
(* Caddy treats words that are not plain: how far the routing cases speak  *)
(* for Caddy, and that routes_overlap says which routes of one kind answer *)
(* the same requests.                                                      *)
(***************************************************************************)
EXTENDS HttpdGateway, WellFoundedInduction, TLAPS

-----------------------------------------------------------------------------
(* Prefixes.                                                                *)

\* A sequence is a prefix of another if and only if it is as long at most and
\* agrees with it as far as it goes.
LEMMA PrefixIs ==
  ASSUME NEW S, NEW s \in Seq(S), NEW t \in Seq(S)
  PROVE  IsPrefix(s, t) <=> Len(s) <= Len(t) /\ \A i \in 1..Len(s) : s[i] = t[i]
<1>1. ASSUME Len(s) <= Len(t)
      PROVE  /\ SubSeq(s, 1, Len(s)) = [i \in 1..Len(s) |-> s[i]]
             /\ SubSeq(t, 1, Len(s)) = [i \in 1..Len(s) |-> t[i]]
  BY <1>1
<1>2. ASSUME Len(s) <= Len(t)
      PROVE  (SubSeq(s, 1, Len(s)) = SubSeq(t, 1, Len(s))) <=> \A i \in 1..Len(s) : s[i] = t[i]
  BY <1>1, <1>2
<1>3. QED
  BY <1>2 DEF IsPrefix

\* Of two prefixes of one sequence one is a prefix of the other.
LEMMA PrefixesNest ==
  ASSUME NEW S, NEW s \in Seq(S), NEW t \in Seq(S), NEW u \in Seq(S),
         IsPrefix(s, u), IsPrefix(t, u)
  PROVE  IsPrefix(s, t) \/ IsPrefix(t, s)
<1>1. /\ Len(s) <= Len(u) /\ \A i \in 1..Len(s) : s[i] = u[i]
      /\ Len(t) <= Len(u) /\ \A i \in 1..Len(t) : t[i] = u[i]
  BY PrefixIs
<1>2. CASE Len(s) <= Len(t)
  BY <1>1, <1>2, PrefixIs
<1>3. CASE Len(t) <= Len(s)
  BY <1>1, <1>3, PrefixIs
<1>4. QED
  BY <1>2, <1>3

\* A prefix of a sequence that is another one is shorter.
LEMMA PrefixShorter ==
  ASSUME NEW S, NEW s \in Seq(S), NEW t \in Seq(S), IsPrefix(s, t), s # t
  PROVE  Len(t) > Len(s)
<1>1. Len(s) <= Len(t) /\ \A i \in 1..Len(s) : s[i] = t[i]
  BY PrefixIs
<1>2. CASE Len(s) = Len(t)
  BY <1>1, <1>2
<1>3. QED
  BY <1>1, <1>2

-----------------------------------------------------------------------------
(* The routes of a site.                                                    *)

IsRoute(r) ==
  /\ r.method \in STRING /\ r.segs \in Seq(STRING) /\ r.slash \in BOOLEAN
  /\ r.kind \in {"exact", "prefix", "prefix_strip"}

\* Whatever its wildcard, a key has a path.
LEMMA PathKind ==
  ASSUME NEW path \in Paths
  PROVE  /\ parse_path_kind(path).segs \in Seq(STRING)
         /\ parse_path_kind(path).slash \in BOOLEAN
         /\ parse_path_kind(path).kind \in {"exact", "prefix", "prefix_strip"}
<1>1. path.segs \in Seq(STRING) /\ path.slash \in BOOLEAN /\ Len(path.segs) \in Nat
  BY DEF Paths
<1>2. Len(path.segs) > 0 => SubSeq(path.segs, 1, Len(path.segs) - 1) \in Seq(STRING)
  BY <1>1
<1>3. QED
  BY <1>1, <1>2 DEF parse_path_kind

\* A table has a route for each of its keys, in its order.
LEMMA RoutesTyped ==
  ASSUME NEW site \in HttpSites
  PROVE  /\ DOMAIN Routes(site) = DOMAIN site.table /\ DOMAIN Routes(site) \subseteq Nat \ {0}
         /\ \A i \in DOMAIN Routes(site) :
              IsRoute(Routes(site)[i]) /\ Routes(site)[i].priority = i
<1>1. site.table \in Seq(RouteKeys)
  BY DEF HttpSites
<1>2. /\ DOMAIN Routes(site) = DOMAIN site.table /\ DOMAIN site.table \subseteq Nat \ {0}
      /\ \A i \in DOMAIN Routes(site) : Routes(site)[i] = parse_route_key(site.table[i], i)
  BY <1>1 DEF Routes, desugar_config
<1>3. ASSUME NEW key \in RouteKeys, NEW i \in Nat
      PROVE  IsRoute(parse_route_key(key, i)) /\ parse_route_key(key, i).priority = i
  <2>1. key.method \in STRING /\ key.path \in Paths /\ key.action \in [kind : STRING, arg : STRING]
    BY DEF RouteKeys
  <2>2. QED
    BY <2>1, PathKind DEF parse_route_key, IsRoute
<1>4. \A i \in DOMAIN site.table : site.table[i] \in RouteKeys
  BY <1>1
<1>5. QED
  BY <1>2, <1>3, <1>4

\* A configuration file is its sites.
LEMMA SitesTyped ==
  ASSUME NEW f \in Files
  PROVE  SitesOf(f) \in Seq(HttpSites)
<1>1. f.server \in HttpSites /\ f.sites \in Seq(HttpSites) \cup {NoSites}
  BY HttpdAssumption
<1>2. QED
  BY <1>1 DEF SitesOf, Multi

\* A set of natural numbers that is not empty has a least member.
LEMMA LeastOf ==
  ASSUME NEW S, S \subseteq Nat, S # {}
  PROVE  \E x \in S : \A y \in S : x <= y
<1>1. PICK x \in S : \A y \in S : ~(<<y, x>> \in OpToRel(<, Nat))
  BY NatLessThanWellFounded, WFMin
<1>2. \A y \in S : ~(y < x)
  BY <1>1 DEF OpToRel
<1>3. QED
  BY <1>2

\* The simulator answers with the first route of the table that matches.
LEMMA FirstMatch ==
  ASSUME NEW site \in HttpSites, NEW req
  PROVE  LET routes == Routes(site)
             n == match_route(routes, req)
         IN  /\ n = NoRoute => \A i \in DOMAIN routes : ~route_matches(routes[i], req)
             /\ n # NoRoute => /\ n \in DOMAIN routes /\ route_matches(routes[n], req)
                               /\ \A i \in DOMAIN routes : route_matches(routes[i], req) => n <= i
<1> DEFINE routes == Routes(site)
           Hits == {i \in DOMAIN routes : route_matches(routes[i], req)}
<1>1. /\ DOMAIN routes \subseteq Nat \ {0}
      /\ \A i \in DOMAIN routes : routes[i].priority = i
  BY RoutesTyped
<1>2. CASE Hits = {}
  BY <1>2 DEF match_route
<1>3. CASE Hits # {}
  <2> DEFINE n == CHOOSE i \in Hits : \A j \in Hits : routes[i].priority <= routes[j].priority
  <2>1. match_route(routes, req) = n
    BY <1>3 DEF match_route
  <2>2. \E i \in Hits : \A j \in Hits : i <= j
    BY <1>1, <1>3, LeastOf
  <2>3. \E i \in Hits : \A j \in Hits : routes[i].priority <= routes[j].priority
    BY <1>1, <2>2
  <2>4. n \in Hits /\ \A j \in Hits : routes[n].priority <= routes[j].priority
    BY <2>3
  <2>5. n \in Hits /\ n # NoRoute /\ \A j \in Hits : n <= j
    BY <1>1, <2>4 DEF NoRoute
  <2> HIDE DEF n
  <2>6. QED
    BY <2>1, <2>5
<1>4. QED
  BY <1>2, <1>3

-----------------------------------------------------------------------------
(* What a handle accepts.                                                   *)

\* Of plain words, a handle accepts nothing that its route does not match.
LEMMA HandleMatches ==
  ASSUME NEW route, NEW upstreams, NEW req,
         PlainPath(_route_block(route, upstreams).path), PlainPath(req.path),
         CaddyMatches(_route_block(route, upstreams), req)
  PROVE  route_matches(route, req)
BY DEF CaddyMatches, _route_block, _caddy_path, route_matches, Exact

\* Of the requests with a normalised path that a route matches, its handle
\* accepts all but those of the two kinds that get lost, if the words are plain.
LEMMA HandleAccepts ==
  ASSUME NEW route, IsRoute(route), NEW upstreams, NEW req, req.path \in Paths,
         PlainPath(_route_block(route, upstreams).path), PlainPath(req.path),
         Normal(req.path), route_matches(route, req),
         IF Exact(route) THEN Normal(route)
                         ELSE ~(route.segs # <<>> /\ route.segs = req.path.segs)
  PROVE  CaddyMatches(_route_block(route, upstreams), req)
<1> DEFINE handle == _route_block(route, upstreams)
<1>1. /\ handle.method = route.method /\ handle.path.segs = route.segs
      /\ handle.path.slash = route.slash /\ handle.path.star = ~Exact(route)
  BY DEF _route_block, _caddy_path
<1>2. /\ route.segs \in Seq(STRING) /\ req.path.segs \in Seq(STRING)
      /\ route.method = req.method
  BY DEF IsRoute, Paths, route_matches
<1>0. PlainPath(handle.path) /\ PlainPath(req.path)
  OBVIOUS
<1> HIDE DEF handle
<1>3. CASE Exact(route)
  <2>1. req.path.segs = route.segs
    BY <1>3 DEF route_matches
  <2>2. route.slash = req.path.slash
    BY <1>3, <2>1 DEF Normal
  <2>3. CaddyMatches(handle, req)
    BY <1>0, <1>1, <1>2, <1>3, <2>1, <2>2 DEF CaddyMatches
  <2>4. QED
    BY <2>3 DEF handle
<1>4. CASE ~Exact(route)
  <2>1. IsPrefix(route.segs, req.path.segs)
    BY <1>4 DEF route_matches
  <2>2. Len(req.path.segs) > Len(route.segs) \/ req.path.slash
    <3>1. CASE route.segs = req.path.segs
      BY <1>4, <3>1 DEF Normal
    <3>2. CASE route.segs # req.path.segs
      BY <1>2, <2>1, <3>2, PrefixShorter
    <3>3. QED
      BY <3>1, <3>2
  <2>3. CaddyMatches(handle, req)
    BY <1>0, <1>1, <1>2, <1>4, <2>1, <2>2 DEF CaddyMatches
  <2>4. QED
    BY <2>3 DEF handle
<1>5. QED
  BY <1>3, <1>4

\* A handle that accepts a request, that no more specific one accepts and none
\* further up, answers it.
LEMMA FirstAnswers ==
  ASSUME NEW handles, DOMAIN handles \subseteq Nat,
         NEW req, NEW n \in DOMAIN handles, CaddyMatches(handles[n], req),
         \A i \in DOMAIN handles :
           CaddyMatches(handles[i], req) => n <= i /\ ~MoreSpecific(handles[i], handles[n])
  PROVE  CaddyAnswer(handles, req) = n
<1> DEFINE Hits == {i \in DOMAIN handles : CaddyMatches(handles[i], req)}
           Before(i, j) == \/ MoreSpecific(handles[i], handles[j])
                           \/ ~MoreSpecific(handles[j], handles[i]) /\ i <= j
           First(i) == \A j \in Hits : Before(i, j)
<1>1. n \in Hits /\ Hits # {} /\ Hits \subseteq Nat
  OBVIOUS
<1>2. First(n)
  OBVIOUS
<1>3. ASSUME NEW i \in Hits, First(i)
      PROVE  i = n
  <2>1. Before(i, n)
    BY <1>1, <1>3
  <2>2. n <= i /\ ~MoreSpecific(handles[i], handles[n])
    OBVIOUS
  <2>3. i <= n
    BY <2>1, <2>2
  <2>4. QED
    BY <1>1, <2>2, <2>3
<1>4. CaddyAnswer(handles, req) = CHOOSE i \in Hits : First(i)
  BY <1>1 DEF CaddyAnswer
<1> HIDE DEF Hits, First
<1>5. QED
  BY <1>1, <1>2, <1>3, <1>4

-----------------------------------------------------------------------------
(* What the commands have said, and what is written, is of the file as it   *)
(* is: an edit makes every answer void.                                     *)

Answered ==
  \A a \in answer :
    /\ load_httpd_full(file) /\ a.req.path \in Paths
    /\ a.route = match_route(Routes(SitesOf(file)[1]), a.req)

Written == rendered = "ok" => caddyfile = render_caddyfile(file)

Inv == file \in Files /\ Answered /\ Written

LEMMA InvInit == Init => Inv
BY DEF Init, Inv, Answered, Written

\* An edit voids what was said, and a command says it of the file.
LEMMA InvStep ==
  ASSUME Inv, [Next]_vars
  PROVE  Inv'
<1>1. file \in Files /\ Answered /\ Written
  BY DEF Inv
<1>2. CASE Edit
  <2>1. file' \in Files
    BY <1>2, HttpdAssumption DEF Edit
  <2>2. rendered' = "no" /\ answer' = {}
    BY <1>2 DEF Edit
  <2>3. QED
    BY <2>1, <2>2 DEF Inv, Answered, Written
<1>4. CASE lis_http_render_caddy
  <2>1. /\ rendered' = "ok" => caddyfile' = render_caddyfile(file)
        /\ UNCHANGED <<file, answer>>
    BY <1>4 DEF lis_http_render_caddy
  <2>2. QED
    BY <1>1, <2>1 DEF Inv, Answered, Written
<1>5. ASSUME NEW req \in Requests, run_cases(req)
      PROVE  Inv'
  <2>1. /\ load_httpd_full(file)
        /\ answer' = {[req |-> req, route |-> match_route(Routes(SitesOf(file)[1]), req)]}
        /\ UNCHANGED <<file, caddyfile, rendered>>
    BY <1>5 DEF run_cases
  <2>2. req.path \in Paths
    BY HttpdAssumption DEF Requests
  <2>3. \A a \in answer' :
          /\ a.req.path \in Paths
          /\ a.route = match_route(Routes(SitesOf(file)[1]), a.req)
    BY <2>1, <2>2
  <2>4. Answered'
    BY <1>1, <2>1, <2>3 DEF Answered
  <2>5. QED
    BY <1>1, <2>1, <2>4 DEF Inv, Written
<1>6. CASE UNCHANGED vars
  BY <1>1, <1>6 DEF vars, Inv, Answered, Written
<1>7. QED
  BY <1>2, <1>4, <1>5, <1>6 DEF Next

-----------------------------------------------------------------------------
\* Where all words are plain, what the simulator answers for a request Caddy
\* does with the file rendered from the same table, unless a more specific handle
\* further down accepts it, or the route is of the two kinds that get lost.
THEOREM CasesAgreeHolds == Spec => []CasesAgree
<1>1. ASSUME Inv, NEW a \in answer, rendered = "ok", Normal(a.req.path)
      PROVE  LET routes  == Routes(SitesOf(file)[1])
                 handles == caddyfile[1]
                 Lost(r) == IF Exact(r) THEN ~Normal(r)
                                        ELSE r.segs # <<>> /\ r.segs = a.req.path.segs
                 Outdone == \E i \in DOMAIN handles :
                              /\ CaddyMatches(handles[i], a.req)
                              /\ MoreSpecific(handles[i], handles[a.route])
             IN  CaddyLoads(handles) /\ AllPlain(handles, a.req) =>
                   /\ a.route = NoRoute => CaddyAnswer(handles, a.req) = NoRoute
                   /\ a.route # NoRoute /\ ~Lost(routes[a.route]) /\ ~Outdone
                        => CaddyAnswer(handles, a.req) = a.route
  <2> DEFINE site == SitesOf(file)[1]
             routes == Routes(site)
             handles == caddyfile[1]
             n == a.route
  <2>1. /\ file \in Files /\ load_httpd_full(file) /\ a.req.path \in Paths
        /\ n = match_route(routes, a.req) /\ caddyfile = render_caddyfile(file)
    BY <1>1 DEF Inv, Answered, Written
  <2>2. SitesOf(file) \in Seq(HttpSites) /\ Len(SitesOf(file)) = 1
    BY <2>1, SitesTyped DEF load_httpd_full, SitesOf
  <2>3. site \in HttpSites /\ 1 \in DOMAIN SitesOf(file)
    BY <2>2
  <2>4. handles = [k \in DOMAIN routes |-> _route_block(routes[k], file.upstreams)]
    BY <2>1, <2>3 DEF render_caddyfile
  <2>5. /\ n = NoRoute => \A i \in DOMAIN routes : ~route_matches(routes[i], a.req)
        /\ n # NoRoute =>
             /\ n \in DOMAIN routes /\ route_matches(routes[n], a.req)
             /\ \A i \in DOMAIN routes : route_matches(routes[i], a.req) => n <= i
    BY <2>1, <2>3, FirstMatch
  <2>6. DOMAIN routes \subseteq Nat /\ \A i \in DOMAIN routes : IsRoute(routes[i])
    BY <2>3, RoutesTyped
  <2> HIDE DEF site, routes, n, handles
  <2>7. SUFFICES ASSUME AllPlain(handles, a.req)
                 PROVE  /\ n = NoRoute => CaddyAnswer(handles, a.req) = NoRoute
                        /\ /\ n # NoRoute
                           /\ IF Exact(routes[n]) THEN Normal(routes[n])
                              ELSE ~(routes[n].segs # <<>> /\ routes[n].segs = a.req.path.segs)
                           /\ \A i \in DOMAIN handles : CaddyMatches(handles[i], a.req)
                                => ~MoreSpecific(handles[i], handles[n])
                           => CaddyAnswer(handles, a.req) = n
    BY DEF site, routes, n, handles
  <2>8. DOMAIN handles = DOMAIN routes
    BY <2>4
  <2>9. ASSUME NEW i \in DOMAIN routes
        PROVE  /\ handles[i] = _route_block(routes[i], file.upstreams)
               /\ PlainPath(handles[i].path) /\ PlainPath(a.req.path)
    BY <2>4, <2>7, <2>8 DEF AllPlain
  <2>10. \A i \in DOMAIN routes : CaddyMatches(handles[i], a.req) => route_matches(routes[i], a.req)
    BY <2>9, HandleMatches
  <2>11. CASE n = NoRoute
    BY <2>5, <2>8, <2>10, <2>11 DEF CaddyAnswer
  <2>12. ASSUME n # NoRoute,
                IF Exact(routes[n]) THEN Normal(routes[n])
                ELSE ~(routes[n].segs # <<>> /\ routes[n].segs = a.req.path.segs),
                \A i \in DOMAIN handles : CaddyMatches(handles[i], a.req)
                  => ~MoreSpecific(handles[i], handles[n])
         PROVE  CaddyAnswer(handles, a.req) = n
    <3>1. n \in DOMAIN routes /\ route_matches(routes[n], a.req) /\ IsRoute(routes[n])
      BY <2>5, <2>6, <2>12
    <3>2. CaddyMatches(handles[n], a.req)
      BY <1>1, <2>1, <2>9, <2>12, <3>1, HandleAccepts
    <3>3. \A i \in DOMAIN handles : CaddyMatches(handles[i], a.req) =>
            n <= i /\ ~MoreSpecific(handles[i], handles[n])
      BY <2>5, <2>8, <2>10, <2>12
    <3>4. QED
      BY <2>6, <2>8, <3>1, <3>2, <3>3, FirstAnswers
  <2>13. QED
    BY <2>11, <2>12
<1>2. Inv => CasesAgree
  BY <1>1 DEF CasesAgree
<1>3. Inv /\ [Next]_vars => Inv'
  BY InvStep
<1>4. QED
  BY InvInit, <1>2, <1>3, PTL DEF Spec

\* routes_overlap speaks only of routes that some request matches both of.
LEMMA OverlapShared ==
  ASSUME NEW a, IsRoute(a), NEW b, IsRoute(b), routes_overlap(a, b),
         NEW p, NEW q, p.method = a.method, p.path.segs = a.segs,
         q.method = b.method, q.path.segs = b.segs
  PROVE  \/ route_matches(a, p) /\ route_matches(b, p)
         \/ route_matches(a, q) /\ route_matches(b, q)
<1>1. a.segs \in Seq(STRING) /\ b.segs \in Seq(STRING) /\ a.method = b.method
  BY DEF IsRoute, routes_overlap
<1>2. IsPrefix(a.segs, a.segs) /\ IsPrefix(b.segs, b.segs)
  BY <1>1, PrefixIs
<1>3. CASE ~Exact(a) /\ ~Exact(b)
  BY <1>1, <1>2, <1>3 DEF routes_overlap, route_matches
<1>4. CASE Exact(a) \/ Exact(b)
  <2>1. a.segs = b.segs
    BY <1>4 DEF routes_overlap, SamePath
  <2>2. QED
    BY <1>1, <1>2, <2>1 DEF route_matches
<1>5. QED
  BY <1>3, <1>4

\* Two routes of one kind that a request matches overlap.
LEMMA SharedOverlap ==
  ASSUME NEW a, IsRoute(a), NEW b, IsRoute(b), NEW req, req.path \in Paths,
         route_matches(a, req), route_matches(b, req), OneKind(a, b)
  PROVE  routes_overlap(a, b)
<1>1. /\ a.segs \in Seq(STRING) /\ b.segs \in Seq(STRING) /\ req.path.segs \in Seq(STRING)
      /\ a.method = b.method
  BY DEF IsRoute, Paths, route_matches
<1>2. CASE ~Exact(a) /\ ~Exact(b)
  <2>1. IsPrefix(a.segs, req.path.segs) /\ IsPrefix(b.segs, req.path.segs)
    BY <1>2 DEF route_matches
  <2>2. IsPrefix(a.segs, b.segs) \/ IsPrefix(b.segs, a.segs)
    BY <1>1, <2>1, PrefixesNest
  <2>3. QED
    BY <1>1, <1>2, <2>2 DEF routes_overlap
<1>3. CASE Exact(a) /\ Exact(b) /\ Normal(a) /\ Normal(b)
  BY <1>1, <1>3 DEF routes_overlap, route_matches, SamePath, Normal
<1>4. QED
  BY <1>2, <1>3 DEF OneKind

\* validate_routes is told of an overlap exactly when a request matches both
\* routes, if they are of one kind, and only then otherwise.
THEOREM OverlapsAgreeHolds == ASSUME EveryRouteAsked PROVE Spec => []OverlapsAgree
<1>1. ASSUME Inv, load_httpd_sites(file), NEW s \in DOMAIN SitesOf(file),
             NEW i \in DOMAIN Routes(SitesOf(file)[s]), NEW j \in DOMAIN Routes(SitesOf(file)[s])
      PROVE  LET a == Routes(SitesOf(file)[s])[i]
                 b == Routes(SitesOf(file)[s])[j]
                 Common == \E req \in Requests : route_matches(a, req) /\ route_matches(b, req)
             IN  /\ routes_overlap(a, b) => Common
                 /\ Common /\ OneKind(a, b) => routes_overlap(a, b)
  <2> DEFINE routes == Routes(SitesOf(file)[s])
             Asked(r) == [method |-> r.method,
                          path |-> [segs |-> r.segs, slash |-> r.segs = <<>>]]
  <2>1. file \in Files
    BY <1>1 DEF Inv
  <2>2. SitesOf(file)[s] \in HttpSites
    BY <2>1, SitesTyped
  <2>3. IsRoute(routes[i]) /\ IsRoute(routes[j])
    BY <1>1, <2>2, RoutesTyped
  <2>4. Asked(routes[i]) \in Requests /\ Asked(routes[j]) \in Requests
    BY <1>1, <2>1 DEF EveryRouteAsked
  <2>5. \A req \in Requests : req.path \in Paths
    BY HttpdAssumption DEF Requests
  <2>6. ASSUME NEW a, IsRoute(a), NEW b, IsRoute(b),
               Asked(a) \in Requests, Asked(b) \in Requests, routes_overlap(a, b)
        PROVE  \E req \in Requests : route_matches(a, req) /\ route_matches(b, req)
    <3> DEFINE p == Asked(a)
               q == Asked(b)
    <3>1. /\ p.method = a.method /\ p.path.segs = a.segs
          /\ q.method = b.method /\ q.path.segs = b.segs
      OBVIOUS
    <3>2. p \in Requests /\ q \in Requests
      BY <2>6
    <3> HIDE DEF p, q
    <3>3. \/ route_matches(a, p) /\ route_matches(b, p)
          \/ route_matches(a, q) /\ route_matches(b, q)
      BY <2>6, <3>1, OverlapShared
    <3>4. QED
      BY <3>2, <3>3
  <2>7. ASSUME NEW a, IsRoute(a), NEW b, IsRoute(b), OneKind(a, b),
               \E req \in Requests : route_matches(a, req) /\ route_matches(b, req)
        PROVE  routes_overlap(a, b)
    BY <2>5, <2>7, SharedOverlap
  <2> HIDE DEF routes, Asked
  <2>8. QED
    BY <2>3, <2>4, <2>6, <2>7 DEF routes
<1>2. Inv => OverlapsAgree
  BY <1>1 DEF OverlapsAgree
<1>3. Inv /\ [Next]_vars => Inv'
  BY InvStep
<1>4. QED
  BY InvInit, <1>2, <1>3, PTL DEF Spec
=============================================================================
