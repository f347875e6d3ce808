----------------------------- MODULE MCTransport -----------------------------
EXTENDS Transport

CONSTANTS c1, c2, r1

Url(scheme, name) == [scheme |-> scheme, host |-> "public", name |-> name,
  credentials |-> FALSE, query |-> FALSE, fragment |-> FALSE, path |-> FALSE]
Base == [security |-> "tls", max_connections |-> 1, base_url |-> Nothing,
         listen |-> "loopback", browser_origin |-> Nothing, foreground |-> FALSE]
MCOptions == {Base, [Base EXCEPT !.security = "e2ee"],
  [Base EXCEPT !.base_url = Url("https", "other"), !.foreground = TRUE,
               !.browser_origin = Url("https", "page")],
  [Base EXCEPT !.max_connections = 0],
  [Base EXCEPT !.base_url = Url("http", "other")],
  [Base EXCEPT !.foreground = TRUE, !.browser_origin = Url("http", "page")]}

Chat == [hosts |-> <<"own">>, query |-> FALSE, path |-> "api", method |-> "POST",
         origins |-> <<>>, preflight |-> "none"]
MCKinds == {Chat, [Chat EXCEPT !.hosts = <<"own", "own">>],
  [Chat EXCEPT !.origins = <<"page">>], [Chat EXCEPT !.origins = <<"elsewhere">>],
  [Chat EXCEPT !.path = "outside", !.origins = <<"page">>],
  [Chat EXCEPT !.path = "refresh"],
  [Chat EXCEPT !.method = "OPTIONS", !.origins = <<"page">>, !.preflight = "valid"]}
=============================================================================
