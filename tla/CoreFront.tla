------------------------------- MODULE CoreFront -------------------------------
(***************************************************************************)
(* The HTTP front of service.Core (src/service/core.go): NewCore's checks *)
(* of its Config, in the order the code makes them, the two routers it     *)
(* builds, addAPIServerRoutes with authhandle, and ServeHTTP's dispatch of *)
(* a request to a handler.  A path is a sequence of segments; "{}" in a    *)
(* route's pattern is a mux variable such as {pool}.  The outcome of the   *)
(* calls whose code is not in this source (api.FormatToMediaType,          *)
(* NewAuthenticator, lake.CreateOrOpen, newRequest, the authenticator's    *)
(* Middleware) is a nondeterministic choice or a constant.  Routing        *)
(* follows gorilla/mux: the first route whose path and method match; a     *)
(* path matched only with other methods is 405, no path match is 404.      *)
(***************************************************************************)
EXTENDS Sequences, SequencesExt

CONSTANTS
    Confs,         \* the Configs a server is started with: [format, auth, root]
    MediaFormats,  \* the formats api.FormatToMediaType accepts
    Requests       \* requests: [path, method, cred] (cred: a valid token)

VARIABLES
    conf,       \* the Config passed to NewCore
    core,       \* "new" before NewCore returns, then "running" or "failed"
    authn,      \* c.auth # nil: an authenticator was created
    routerAPI   \* the API routes, in registration order

frontVars == <<conf, core, authn, routerAPI>>

DefaultFormat == "sup"
Var == "{}"

\* A route of routerAux: any method, exact path or (prefix) a longer path.
AuxRoute(p, prefix, h) == [pat |-> p, prefix |-> prefix, h |-> h]

\* routerAux, built in NewCore.
RouterAux ==
    << AuxRoute(<<>>, FALSE, "rootContent"),
       AuxRoute(<<"debug", "pprof", "cmdline">>, FALSE, "pprof.Cmdline"),
       AuxRoute(<<"debug", "pprof", "profile">>, FALSE, "pprof.Profile"),
       AuxRoute(<<"debug", "pprof", "symbol">>, FALSE, "pprof.Symbol"),
       AuxRoute(<<"debug", "pprof", "trace">>, FALSE, "pprof.Trace"),
       AuxRoute(<<"debug", "pprof">>, TRUE, "pprof.Index"),
       AuxRoute(<<"metrics">>, FALSE, "metrics"),
       AuxRoute(<<"status">>, FALSE, "status"),
       AuxRoute(<<"version">>, FALSE, "version") >>

\* authhandle: the route runs f behind c.auth.Middleware when c.auth # nil.
Authhandle(auth, p, ms, f) == [pat |-> p, methods |-> ms, h |-> f, auth |-> auth]

\* c.routerAPI.Handle(path, c.handler(f)): no authentication.
Handle(p, ms, f) == [pat |-> p, methods |-> ms, h |-> f, auth |-> FALSE]

\* addAPIServerRoutes, with auth = (c.auth # nil).
AddAPIServerRoutes(auth) ==
    LET A(p, ms, f) == Authhandle(auth, p, ms, f)
        P(s) == <<"pool", Var>> \o s
        B(s) == P(<<"branch", Var>> \o s)
        R(s) == P(<<"revision", Var>> \o s)
    IN << A(<<"auth", "identity">>, {"GET"}, "handleAuthIdentityGet"),
          Handle(<<"auth", "method">>, {"GET"}, "handleAuthMethodGet"),
          A(<<"compile">>, {"POST"}, "handleCompile"),
          A(<<"events">>, {"GET"}, "handleEvents"),
          A(<<"pool">>, {"POST"}, "handlePoolPost"),
          A(P(<<>>), {"DELETE"}, "handlePoolDelete"),
          A(P(<<>>), {"POST"}, "handleBranchPost"),
          A(P(<<>>), {"PUT"}, "handlePoolPut"),
          A(B(<<>>), {"GET"}, "handleBranchGet"),
          A(B(<<>>), {"DELETE"}, "handleBranchDelete"),
          A(B(<<>>), {"POST"}, "handleBranchLoad"),
          A(B(<<"compact">>), {"POST"}, "handleCompact"),
          A(B(<<"compact", "new">>), {"POST"}, "handleCompactNew"),
          A(B(<<"delete">>), {"POST"}, "handleDelete"),
          A(B(<<"merge", Var>>), {"POST"}, "handleBranchMerge"),
          A(B(<<"revert", Var>>), {"POST"}, "handleRevertPost"),
          A(R(<<"vacuum">>), {"POST"}, "handleVacuum"),
          A(R(<<"vector">>), {"POST"}, "handleVectorPost"),
          A(R(<<"vector">>), {"DELETE"}, "handleVectorDelete"),
          A(P(<<"stats">>), {"GET"}, "handlePoolStats"),
          A(<<"query">>, {"OPTIONS", "POST"}, "handleQuery"),
          A(<<"query", "describe">>, {"OPTIONS", "POST"}, "handleQueryDescribe"),
          A(<<"query", "status", Var>>, {"GET"}, "handleQueryStatus") >>

\* A mux path template matches segment by segment; a variable matches any
\* segment.
PathMatch(pat, path) ==
    /\ Len(pat) = Len(path)
    /\ \A i \in 1..Len(pat) : pat[i] = Var \/ pat[i] = path[i]

AuxMatch(rt, path) ==
    IF rt.prefix THEN IsStrictPrefix(rt.pat, path) ELSE rt.pat = path

\* Mutant: a CORS preflight (OPTIONS) passes the Middleware without a token.
HandlerPreflightOpen(rt, r, ok) ==
    CASE ~ok -> "400"
      [] rt.auth /\ ~r.cred /\ r.method # "OPTIONS" -> "401"
      [] OTHER -> rt.h

\* c.handler(f) on a matched API route: newRequest's result ok, then f,
\* which authhandle wrapped in the Middleware that refuses a request
\* without a valid token.
Handler(rt, r, ok) ==
    CASE ~ok -> "400"
      [] rt.auth /\ ~r.cred -> "401"
      [] OTHER -> rt.h

\* The handler a request reaches: routerAux.Match first, then routerAPI.
ServeHTTP(r, ok) ==
    LET ax == SelectInSeq(RouterAux, LAMBDA rt : AuxMatch(rt, r.path))
        ai == SelectInSeq(routerAPI, LAMBDA rt : PathMatch(rt.pat, r.path)
                                                 /\ r.method \in rt.methods)
        pathOnly == \E i \in DOMAIN routerAPI : PathMatch(routerAPI[i].pat, r.path)
    IN CASE ax # 0 -> RouterAux[ax].h
         [] ai = 0 -> IF pathOnly THEN "405" ELSE "404"
         [] OTHER -> Handler(routerAPI[ai], r, ok)

\* The error NewCore returns for a Config, checks in code order; authOK
\* and lakeOK are the results of NewAuthenticator and lake.CreateOrOpen.
NewCoreError(c, authOK, lakeOK) ==
    LET format == IF c.format = "" THEN DefaultFormat ELSE c.format
    IN CASE format \notin MediaFormats -> "invalid default response format"
         [] c.auth /\ ~authOK -> "authenticator"
         [] c.root = "nil" -> "no lake root"
         [] c.root \notin {"file", "s3"} -> "root path cannot have scheme"
         [] ~lakeOK -> "lake"
         [] OTHER -> "none"

FrontInit ==
    /\ conf \in Confs /\ core = "new" /\ authn = FALSE /\ routerAPI = <<>>

\* NewCore: the checks, the routers, the Core, addAPIServerRoutes.
NewCore ==
    /\ core = "new"
    /\ \E authOK, lakeOK \in BOOLEAN :
         LET err == NewCoreError(conf, authOK, lakeOK)
         IN /\ core' = IF err = "none" THEN "running" ELSE "failed"
            /\ authn' = (err = "none" /\ conf.auth)
            /\ routerAPI' = IF err = "none" THEN AddAPIServerRoutes(conf.auth)
                                            ELSE <<>>
    /\ UNCHANGED conf

\* NewCore returned an error: the server exits.
Exited == core = "failed" /\ UNCHANGED frontVars

FrontNext == NewCore \/ Exited
=============================================================================
