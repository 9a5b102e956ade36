----------------------------- MODULE HttpdRoutes -----------------------------
(***************************************************************************)
(* Routes of the HTTP gateway as operators: what a key of a [routes] table *)
(* means (scripts/httpd_config.py), which requests the simulator matches   *)
(* with it (scripts/httpd_match.py), the handle rendered for it            *)
(* (scripts/httpd_render_caddy.py) and what Caddy does with the handles.   *)
(*                                                                         *)
(* A path is [segs, slash]: its segments, and whether a "/" ends it.  "/"  *)
(* is [<<>>, TRUE]; [<<>>, FALSE] is "", what parse_path_kind leaves of    *)
(* "/*".  A segment "*" or "**" is a wildcard at the end of a key only.    *)
(***************************************************************************)
EXTENDS Naturals, SequencesExt

CONSTANTS
  Dotted,      (* words that hold a ".."                                     *)
  Parts(_),    (* what slug_route_name keeps of a word, cut at each "_"      *)
  Plain,       (* words Caddy takes as they are: lower case, no "*", no "%"  *)
  Globs(_, _)  (* whether Caddy takes a path of other words for another      *)

-----------------------------------------------------------------------------
(* httpd_config.py *)

parse_path_kind(path) ==
  LET n == Len(path.segs)
      Cut(kind) == [segs |-> SubSeq(path.segs, 1, n - 1), slash |-> FALSE, kind |-> kind]
      Ends(star) == n > 0 /\ ~path.slash /\ path.segs[n] = star
  IN  IF Ends("**") THEN Cut("prefix_strip")
      ELSE IF Ends("*") THEN Cut("prefix")
      ELSE [segs |-> path.segs, slash |-> path.slash, kind |-> "exact"]

\* A key the regular expressions take, without ".." or "//" in its path; they
\* do not take the path "/".  (A "//" behind a ":" would pass and is left out.)
Accepted(key) ==
  /\ key.method # "" /\ key.extras # "malformed"
  /\ key.path.segs # <<>>
  /\ Range(key.path.segs) \cap (Dotted \cup {""}) = {}

\* "/" and what is no letter, digit or "_" become "_": "/a/b" and "/a_b" have one
\* name, and so have "/a" and "/a/", and a path with and without extras.
slug_route_name(method, path) ==
  <<method, FlattenSeq([i \in DOMAIN path.segs |-> Parts(path.segs[i])])>>

parse_route_key(key, priority) ==
  LET p == parse_path_kind(key.path)
  IN  [name |-> slug_route_name(key.method, key.path), method |-> key.method,
       segs |-> p.segs, slash |-> p.slash, kind |-> p.kind, action |-> key.action,
       headers |-> key.extras # "none", priority |-> priority]

desugar_config(table) == [i \in DOMAIN table |-> parse_route_key(table[i], i)]

Exact(route) == route.kind = "exact"
SamePath(a, b) == a.segs = b.segs /\ a.slash = b.slash

\* Mutant: a base below another is not seen to overlap it.
routes_overlap_equal(a, b) ==
  /\ a.method = b.method
  /\ IF ~Exact(a) /\ ~Exact(b) THEN a.segs = b.segs ELSE SamePath(a, b)

\* Methods are upper-case words, so neither is "*".
routes_overlap(a, b) ==
  /\ a.method = b.method
  /\ IF ~Exact(a) /\ ~Exact(b)
     THEN IsPrefix(a.segs, b.segs) \/ IsPrefix(b.segs, a.segs)
     ELSE SamePath(a, b)

\* Overlapping routes are refused if they have one priority.
validate_routes(routes) ==
  \A i, j \in DOMAIN routes :
    i < j /\ routes_overlap(routes[i], routes[j]) => routes[i].priority # routes[j].priority

-----------------------------------------------------------------------------
(* httpd_match.py *)

\* Both paths are normalised: empty segments and a last "/" do not count.
route_matches(route, req) ==
  /\ route.method = req.method
  /\ IF Exact(route) THEN req.path.segs = route.segs ELSE IsPrefix(route.segs, req.path.segs)

NoRoute == 0

match_route(routes, req) ==
  LET Hits == {i \in DOMAIN routes : route_matches(routes[i], req)}
  IN  IF Hits = {} THEN NoRoute
      ELSE CHOOSE i \in Hits : \A j \in Hits : routes[i].priority <= routes[j].priority

-----------------------------------------------------------------------------
(* httpd_render_caddy.py *)

\* Mutant: only one of the two wildcards is rendered as one.
_caddy_path_strip(route) ==
  [segs |-> route.segs, slash |-> route.slash, star |-> route.kind = "prefix"]

\* The matcher of a handle: "/*" behind the base, or the path as it is.
_caddy_path(route) == [segs |-> route.segs, slash |-> route.slash, star |-> ~Exact(route)]

Supported(action) == action.kind \in {"static", "proxy"}

_route_block(route, upstreams) ==
  [name |-> route.name, method |-> route.method, path |-> _caddy_path(route),
   header_up |-> route.headers,
   peers |-> IF route.action.kind = "proxy" THEN upstreams[route.action.arg] ELSE {}]

-----------------------------------------------------------------------------
(* Caddy, which reads what is rendered. *)

\* Caddy refuses a site in which two matchers have one name, or a handle holds
\* header_up, which is no directive of its own.
CaddyLoads(handles) ==
  /\ \A i, j \in DOMAIN handles : handles[i].name = handles[j].name => i = j
  /\ \A i \in DOMAIN handles : ~handles[i].header_up

\* Plain words are compared one by one.  Other words: case is folded, and a "*"
\* inside a segment or at its end is a wildcard.
PlainPath(path) == Range(path.segs) \subseteq Plain

CaddyMatches(handle, req) ==
  /\ handle.method = req.method
  /\ IF ~(PlainPath(handle.path) /\ PlainPath(req.path)) THEN Globs(handle.path, req.path)
     ELSE IF handle.path.star
     THEN /\ IsPrefix(handle.path.segs, req.path.segs)
          /\ Len(req.path.segs) > Len(handle.path.segs) \/ req.path.slash
     ELSE /\ req.path.segs = handle.path.segs
          /\ req.path.slash = handle.path.slash

\* Handles of a site are sorted by the length of their paths, the longest first,
\* and before one that adds a "*" only the one without; else they keep their
\* order.  Of two plain handles that accept one request the path of one begins
\* the other, so the number of segments tells which is the longer.
MoreSpecific(h, g) ==
  \/ Len(h.path.segs) > Len(g.path.segs)
  \/ Len(h.path.segs) = Len(g.path.segs) /\ ~h.path.star /\ g.path.star

\* The handle that answers: the first in that order that accepts the request.
CaddyAnswer(handles, req) ==
  LET Hits == {i \in DOMAIN handles : CaddyMatches(handles[i], req)}
      Before(i, j) == \/ MoreSpecific(handles[i], handles[j])
                      \/ ~MoreSpecific(handles[j], handles[i]) /\ i <= j
  IN  IF Hits = {} THEN NoRoute ELSE CHOOSE i \in Hits : \A j \in Hits : Before(i, j)
=============================================================================
