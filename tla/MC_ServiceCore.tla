----------------------------- MODULE MC_ServiceCore -----------------------------
EXTENDS ServiceCore

\* A Config that starts a Core with an authenticator (or fails in
\* NewAuthenticator or lake.CreateOrOpen), and one Config for each other
\* early return of NewCore: the format, a nil root, an unknown scheme.
MCConfs ==
    { [format |-> "", auth |-> TRUE, root |-> "s3"],
      [format |-> "bogus", auth |-> FALSE, root |-> "file"],
      [format |-> "sup", auth |-> TRUE, root |-> "nil"],
      [format |-> "sup", auth |-> FALSE, root |-> "gs"] }

\* Requests for the two handlers that change Core's maps, with and without
\* a valid token and with a method their route lacks, and requests for
\* other API and aux routes and for no route.
Req(p, m, c) == [path |-> p, method |-> m, cred |-> c]

MCRequests ==
    { Req(<<"events">>, "GET", TRUE), Req(<<"events">>, "GET", FALSE),
      Req(<<"events">>, "POST", TRUE),
      Req(<<"query">>, "POST", TRUE), Req(<<"query">>, "OPTIONS", FALSE),
      Req(<<"query">>, "GET", TRUE),
      Req(<<"query", "status", "x">>, "GET", FALSE),
      Req(<<"auth", "method">>, "GET", FALSE), Req(<<"metrics">>, "GET", FALSE),
      Req(<<"debug", "pprof", "heap">>, "GET", FALSE),
      Req(<<"pool", "x", "branch", "y">>, "GET", TRUE), Req(<<"nope">>, "GET", TRUE) }
=============================================================================
