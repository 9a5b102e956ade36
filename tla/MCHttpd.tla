------------------------------ MODULE MCHttpd ------------------------------
(* The TOML files an operator may write, and the requests asked of them. *)
EXTENDS HttpdGateway, FiniteSets

PathOf(segs, slash) == [segs |-> segs, slash |-> slash]

\* "A" is "a" to Caddy, and "a*" a wildcard; a slug has no upper case.
PlainWords  == {"a", "b", "a_b"}
DottedWords == {"..", "a..b"}
MCParts(w) == CASE w = "a_b" -> <<"a", "b">> [] w = "*" -> <<"wild">>
                [] w = "**" -> <<"wildwild">> [] w = "a*" -> <<"awild">>
                [] w = "A" -> <<>> [] OTHER -> <<w>>
Lower(segs) == [i \in DOMAIN segs |-> IF segs[i] = "A" THEN "a" ELSE segs[i]]
MCGlobs(key, path) ==
  LET p == Lower(key.segs)
      q == Lower(path.segs)
  IN  IF p = <<"a*">> THEN q # <<>> /\ q[1] \in {"a", "a*", "a_b"}
      ELSE IF key.star THEN IsPrefix(p, q) /\ (Len(q) > Len(p) \/ path.slash)
      ELSE p = q /\ key.slash = path.slash

AllRequestPaths ==
  {PathOf(<<>>, TRUE)} \cup
  {PathOf(s, slash) : slash \in BOOLEAN,
     s \in {<<"a">>, <<"b">>, <<"a", "a">>, <<"a", "b">>, <<"b", "a">>, <<"A">>, <<"a*">>, <<"a_b">>}}

Static == [kind |-> "static", arg |-> "healthcheck"]
Proxy(u) == [kind |-> "proxy", arg |-> u]
Redirect == [kind |-> "redirect", arg |-> ""]
Key(m, path, extras, action) == [method |-> m, path |-> path, extras |-> extras, action |-> action]

\* Exact paths, both wildcards under every base, a path ended by "/", names that
\* collide, and words that are not plain.
KeyPaths ==
  {PathOf(<<"a">>, FALSE), PathOf(<<"a">>, TRUE), PathOf(<<"a", "b">>, FALSE),
   PathOf(<<"a_b">>, FALSE), PathOf(<<"A">>, FALSE), PathOf(<<"a*">>, FALSE),
   PathOf(<<"*">>, FALSE), PathOf(<<"a", "*">>, FALSE), PathOf(<<"a", "**">>, FALSE),
   PathOf(<<"b", "**">>, FALSE), PathOf(<<"a", "b", "*">>, FALSE)}
Gets == {Key("GET", p, "none", Static) : p \in KeyPaths}

Some == Key("GET", PathOf(<<"a", "*">>, FALSE), "none", Proxy("app"))
B == PathOf(<<"b">>, FALSE)
Others ==
  {Some, Key("POST", PathOf(<<"a">>, FALSE), "none", Proxy("app")), Key("GET", B, "none", Redirect),
   Key("GET", B, "none", Proxy("gone")), Key("GET", B, "headers", Static),
   Key("GET", B, "malformed", Static), Key("GET", PathOf(<<>>, TRUE), "none", Static)}
  \cup {Key("GET", PathOf(<<"a", w, "*">>, FALSE), "none", Static) : w \in DottedWords}

Up == [app |-> {"p1", "p2"}]
Site(table) == [host |-> TRUE, table |-> table]
NoHost == [host |-> FALSE, table |-> <<>>]
Server(site) == [sites |-> NoSites, server |-> site, upstreams |-> Up]
Sites(sites) == [sites |-> sites, server |-> NoHost, upstreams |-> Up]

OtherFiles ==
  {Server(NoHost), [Server(Site(<<Some>>)) EXCEPT !.upstreams = [app |-> {}]], Sites(<<>>)}
  \cup {Server(Site(<<k, Some>>)) : k \in Others}
  \cup {Sites(<<Site(<<k>>)>>) : k \in Others}
  \cup {Sites(<<Site(<<Some>>), Site(<<k>>)>>) : k \in Others}

FewFiles == {Server(NoHost), Sites(<<Site(<<Some>>)>>), Server(Site(<<Some, Some>>))}

AllFiles == {Server(Site(<<k, l, m>>)) : k \in Gets, l \in Gets, m \in Gets} \cup OtherFiles

\* What HttpdProofs asks of the constants for OverlapsAgree.
ASSUME EveryRouteAsked
=============================================================================
