---------------------------- MODULE HttpdGateway ----------------------------
(***************************************************************************)
(* The gateway's configuration and the commands on it: an operator edits   *)
(* the TOML file, `lis http render-caddy -o` writes a Caddyfile, and the   *)
(* routing cases ask the simulator which route answers a request.  Each    *)
(* command reads the file anew.  (`lis http validate` only says whether    *)
(* load_httpd_full raises.)                                                *)
(***************************************************************************)
EXTENDS HttpdRoutes

CONSTANTS
  Files,       (* the files the operator starts with:                        *)
               (* [sites, server, upstreams], a site is [host, table]        *)
  Edits,       (* those it may replace one with                              *)
  RequestPaths,
  Methods,
  NoSites,     (* the file has no [[site]]                                   *)
  NoFile,      (* no Caddyfile written yet                                   *)
  MaxEdits     (* bound                                                      *)

\* What the TOML parser makes of a path, a key of [routes] and a site.
Paths == [segs : Seq(STRING), slash : BOOLEAN]
RouteKeys == [method : STRING, path : Paths, extras : {"none", "headers", "malformed"},
              action : [kind : STRING, arg : STRING]]
HttpSites == [host : BOOLEAN, table : Seq(RouteKeys)]

ASSUME HttpdAssumption ==
  /\ MaxEdits \in Nat /\ Edits \subseteq Files
  /\ \A f \in Files : f.server \in HttpSites /\ f.sites \in Seq(HttpSites) \cup {NoSites}
  /\ RequestPaths \subseteq Paths
  /\ \A p \in RequestPaths : p.segs = <<>> => p.slash

Requests == [method : Methods, path : RequestPaths]

VARIABLES
  file,       \* the TOML file
  caddyfile,  \* the handles of each site written last, or NoFile
  rendered,   \* what lis http render-caddy said of the file: "no", "ok", "error"
  answer,     \* the last routing case of the file: [req, route], or {}
  edits

vars == <<file, caddyfile, rendered, answer, edits>>

-----------------------------------------------------------------------------
\* parse_upstreams: every upstream has peers.
parse_upstreams(f) == \A u \in DOMAIN f.upstreams : f.upstreams[u] # {}

ProxiesKnown(table, f) ==
  \A i \in DOMAIN table :
    table[i].action.kind = "proxy" => table[i].action.arg \in DOMAIN f.upstreams

Multi(f) == f.sites # NoSites

\* The loop over [[site]]: the upstreams first, then site by site.
SitesLoad(f) ==
  /\ parse_upstreams(f)
  /\ \A i \in DOMAIN f.sites : LET site == f.sites[i] IN
       /\ site.host
       /\ \A k \in DOMAIN site.table : Accepted(site.table[k])
       /\ validate_routes(desugar_config(site.table))
       /\ ProxiesKnown(site.table, f)

\* [server] and the one [routes] table: the upstreams last.
ServerLoads(f) ==
  /\ f.server.host
  /\ \A k \in DOMAIN f.server.table : Accepted(f.server.table[k])
  /\ validate_routes(desugar_config(f.server.table))
  /\ parse_upstreams(f)
  /\ ProxiesKnown(f.server.table, f)

load_httpd_full(f) == IF Multi(f) THEN SitesLoad(f) /\ Len(f.sites) = 1 ELSE ServerLoads(f)

load_httpd_sites(f) == IF Multi(f) THEN SitesLoad(f) ELSE load_httpd_full(f)

SitesOf(f) == IF Multi(f) THEN f.sites ELSE <<f.server>>

Routes(site) == desugar_config(site.table)

\* render_caddy raises for an action it does not know.
Renders(f) ==
  \A i \in DOMAIN SitesOf(f) : \A k \in DOMAIN SitesOf(f)[i].table :
    Supported(SitesOf(f)[i].table[k].action)

render_caddyfile(f) ==
  [i \in DOMAIN SitesOf(f) |->
     LET routes == Routes(SitesOf(f)[i]) IN
     [k \in DOMAIN routes |-> _route_block(routes[k], f.upstreams)]]

-----------------------------------------------------------------------------
Init ==
  /\ file \in Files
  /\ caddyfile = NoFile
  /\ rendered = "no" /\ answer = {}
  /\ edits = 0

Edit ==
  /\ edits < MaxEdits
  /\ edits' = edits + 1
  /\ file' \in Edits
  /\ rendered' = "no" /\ answer' = {}
  /\ UNCHANGED caddyfile

\* The text is made before the output file is touched.
lis_http_render_caddy ==
  LET ok == load_httpd_sites(file) /\ Renders(file) IN
  /\ rendered' = IF ok THEN "ok" ELSE "error"
  /\ caddyfile' = IF ok THEN render_caddyfile(file) ELSE caddyfile
  /\ UNCHANGED <<file, answer, edits>>

run_cases(req) ==
  /\ load_httpd_full(file)
  /\ answer' = {[req |-> req, route |-> match_route(Routes(SitesOf(file)[1]), req)]}
  /\ UNCHANGED <<file, caddyfile, rendered, edits>>

Next ==
  \/ Edit
  \/ lis_http_render_caddy
  \/ \E req \in Requests : run_cases(req)

Spec == Init /\ [][Next]_vars
-----------------------------------------------------------------------------
(* Properties *)

\* A path as normalize_path leaves it.
Normal(path) == path.slash = (path.segs = <<>>)

\* Caddy compares the request and every key of the site word by word.
AllPlain(handles, req) ==
  PlainPath(req.path) /\ \A i \in DOMAIN handles : PlainPath(handles[i].path)

(***************************************************************************)
(* How far the routing cases speak for Caddy, where it loads the site and  *)
(* all words are plain: a request no route answers no handle does, and one *)
(* answered is answered by the handle of that route, unless a more         *)
(* specific one further down the table accepts it too.  Two kinds of route *)
(* answer a request their handle does not accept: a wildcard asked for its *)
(* own base, and an exact path written with a "/" at its end.              *)
(***************************************************************************)
CasesAgree ==
  \A a \in answer : rendered = "ok" /\ Normal(a.req.path) =>
    LET routes  == Routes(SitesOf(file)[1])
        handles == caddyfile[1]
        Lost(r) == IF Exact(r) THEN ~Normal(r) ELSE r.segs # <<>> /\ r.segs = a.req.path.segs
        Outdone == \E i \in DOMAIN handles : /\ CaddyMatches(handles[i], a.req)
                                             /\ MoreSpecific(handles[i], handles[a.route])
    IN  CaddyLoads(handles) /\ AllPlain(handles, a.req) =>
          /\ a.route = NoRoute => CaddyAnswer(handles, a.req) = NoRoute
          /\ a.route # NoRoute /\ ~Lost(routes[a.route]) /\ ~Outdone
               => CaddyAnswer(handles, a.req) = a.route

OneKind(a, b) ==
  \/ ~Exact(a) /\ ~Exact(b)
  \/ Exact(a) /\ Exact(b) /\ Normal(a) /\ Normal(b)

\* Every route of a file that loads can be asked for.
EveryRouteAsked ==
  \A f \in Files : load_httpd_sites(f) => \A s \in DOMAIN SitesOf(f) :
    LET routes == Routes(SitesOf(f)[s]) IN
    \A i \in DOMAIN routes :
      [method |-> routes[i].method,
       path |-> [segs |-> routes[i].segs, slash |-> routes[i].segs = <<>>]] \in Requests

(***************************************************************************)
(* validate_routes is told of an overlap only if some request matches both *)
(* routes, and is told of every such pair of one kind: two wildcards, or   *)
(* two exact paths that are normalised.  (Of an exact path below a         *)
(* wildcard it is told nothing.)                                           *)
(***************************************************************************)
OverlapsAgree ==
  load_httpd_sites(file) => \A s \in DOMAIN SitesOf(file) :
    LET routes == Routes(SitesOf(file)[s]) IN
    \A i, j \in DOMAIN routes :
      LET a == routes[i]
          b == routes[j]
          Common == \E req \in Requests : route_matches(a, req) /\ route_matches(b, req)
      IN  /\ routes_overlap(a, b) => Common
          /\ Common /\ OneKind(a, b) => routes_overlap(a, b)
=============================================================================
