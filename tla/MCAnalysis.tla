----------------------------- MODULE MCAnalysis -----------------------------
(* Small thresholds, and traffic in which every check has something to find. *)
EXTENDS Analysis

SmallLimits ==
  [ids |-> 2, burst |-> 3, burstWindow |-> 10, burstHigh |-> 4, poll |-> 3,
   pollMin |-> 5, pollMax |-> 100, retry |-> 2, retryWindow |-> 10,
   retryHigh |-> 3, errorFlows |-> 3, compress |-> 2, large |-> 6,
   slowSamples |-> 2, slow |-> 10, verySlow |-> 20, preflights |-> 2,
   follow |-> 10, hops |-> 2, legacyImage |-> 3, heavyImage |-> 8,
   shortCache |-> 5, html |-> 4, loneSlow |-> 30, empty |-> 2,
   dns |-> 2, connect |-> 3, tls |-> 4, connects |-> 2, cdn |-> 2]

SmallOpaque == [x \in {"17", "42"} |-> ":id"]
Url(path) ==
  [scheme |-> "https", host |-> "api", port |-> None, path |-> path, query |-> "", frag |-> "none"]

\* A GET from Chrome that is answered and of which nothing is to be said.
Plain(id, at, path) ==
  [id |-> id, app |-> "Chrome", url |-> Url(path), method |-> "GET", at |-> at,
   state |-> "completed", status |-> 200, size |-> 1, decoded |-> 1, media |-> "text",
   dest |-> "none", to |-> <<>>, maxAge |-> None, cdn |-> "none", call |-> "none",
   dns |-> None, connect |-> None, tls |-> None, request |-> None, ttfb |-> None, has |-> {}]

To(form, path) == <<[form |-> form, url |-> Url(path), embeds |-> FALSE]>>
Redirected(id, at, path, to) == [Plain(id, at, path) EXCEPT !.status = 302, !.to = to]

\* Calls of one endpoint in and around one window, some failing, some not to be judged.
Calls ==
  {Plain(1, 0, <<"items", "17">>), Plain(2, 6, <<"items", "42">>),
   [Plain(3, 10, <<"items", "17">>) EXCEPT !.status = 500],
   [Plain(4, 13, <<"items", "42">>) EXCEPT !.status = 429],
   [Plain(5, 19, <<"items", "42">>) EXCEPT !.state = "error", !.status = None],
   [Plain(6, 19, <<"items", "17">>) EXCEPT !.app = "Slack", !.status = 503],
   [Plain(7, 24, <<"items", "17">>) EXCEPT !.has = {"resent"}]}

\* Two ways out of /login, a way back, and a dead end.
Redirects ==
  {Redirected(1, 0, <<"login">>, To("rooted", <<"sso">>)),
   Redirected(2, 4, <<"sso">>, To("absolute", <<"login">>)),
   [Redirected(3, 8, <<"sso">>, To("relative", <<"home">>)) EXCEPT !.url.port = 443],
   Redirected(4, 9, <<"login">>, To("network", <<"sso">>)),
   Redirected(5, 12, <<"home">>, To("rooted", <<"login">>)),
   Plain(6, 16, <<"home">>),
   [Redirected(7, 7, <<"sso">>, To("rooted", <<"home">>)) EXCEPT !.app = "Slack"]}

\* A page and its assets.
Assets ==
  LET asset(id, at) == [Plain(id, at, <<"app.js">>) EXCEPT !.media = "script", !.size = 6,
                                                          !.cdn = "miss", !.has = {"assetPath", "fingerprinted"}]
  IN {[asset(1, 0) EXCEPT !.maxAge = 3, !.has = @ \cup {"cacheControl"}],
      [asset(2, 1) EXCEPT !.has = @ \cup {"noStore"}, !.cdn = "hit"],
      [asset(3, 2) EXCEPT !.status = 404, !.dest = "script"],
      [asset(4, 3) EXCEPT !.has = @ \cup {"rule"}],
      [Plain(5, 4, <<"pic">>) EXCEPT !.media = "jpeg", !.size = 12, !.cdn = "miss"],
      [Plain(6, 5, <<"index">>) EXCEPT !.media = "html", !.decoded = 4, !.dest = "document"]}

\* Slow, empty and careless calls.
Careless ==
  LET call(id, at) == [Plain(id, at, <<"graphql">>) EXCEPT !.call = "Search", !.method = "POST",
                                                          !.dns = 3, !.tls = 5, !.ttfb = 40, !.media = "json"]
  IN {call(1, 0), [call(2, 3) EXCEPT !.has = {"reused", "tokenInQuery", "weakCookie"}, !.size = 7],
      [call(3, 6) EXCEPT !.decoded = 0, !.call = "none"],
      [call(4, 9) EXCEPT !.has = {"credential", "httpsReferer"}, !.url.scheme = "http", !.connect = 9],
      [Plain(5, 12, <<"items">>) EXCEPT !.method = "OPTIONS", !.has = {"preflight"}],
      [Plain(6, 15, <<"items">>) EXCEPT !.method = "OPTIONS", !.has = {"preflight", "loopback"}]}

SmallPools == {Calls, Redirects, Assets, Careless}

\* Answers of the origin and answers a block rule made, at one host.
Blocked ==
  {Plain(1, 0, <<"a">>), Plain(2, 20, <<"b">>), Plain(3, 40, <<"c">>), Plain(6, 60, <<"f">>)}
  \cup {[Plain(i, 10 * i, <<"ads">>) EXCEPT !.status = 403, !.has = {"rule"}] : i \in {4, 5}}
BlockedOnly == {Blocked}
=============================================================================
