------------------------------ MODULE Analysis ------------------------------
(***************************************************************************)
(* The insight checks over captured traffic (insights.rs).  A flow is what *)
(* the checks tell apart: who sent it, where and when, what came back, and *)
(* in "has" the facts its headers, query and edits amount to.  Grouping,   *)
(* windows, thresholds and the walk along redirects are the code's;        *)
(* titles, details, advice and the order of the list are left out.         *)
(*                                                                         *)
(* A flow: [id, app, url, method, at, state, status, size, decoded, media, *)
(* dest, to, maxAge, cdn, call, dns, connect, tls, request, ttfb, has].    *)
(***************************************************************************)
EXTENDS Integers, Sequences, FiniteSets, SequencesExt, FiniteSetsExt

CONSTANTS Limit,        \* the thresholds, by name (CodeLimits in the program)
          AddedLatency, \* latency Network Conditions adds to every answer
          Opaque,       \* segments that are identifiers: what each is written as
          Pools,        \* sets of flows, one of which is the traffic
          MaxCapture    \* flows captured before the run ends

VARIABLES traffic,      \* the flows that may be captured
          capture       \* those that were, in the order they were stored
analysisVars == <<traffic, capture>>

\* A flow has one place in time, and an id of its own.
ASSUME AnalysisAssumption ==
  /\ \A pool \in Pools : \A f, g \in pool : f.at \in Int /\ (f.id = g.id => f = g)
  /\ \A name \in {"ids", "burst", "burstWindow", "burstHigh", "retry", "retryWindow", "retryHigh"} :
       Limit[name] \in Nat
  /\ Limit.hops \in Nat \ {0}

CodeLimits ==
  [ids |-> 500, burst |-> 5, burstWindow |-> 2000, burstHigh |-> 20, poll |-> 6,
   pollMin |-> 1000, pollMax |-> 300000, retry |-> 3, retryWindow |-> 10000,
   retryHigh |-> 10, errorFlows |-> 10, compress |-> 10240, large |-> 1048576,
   slowSamples |-> 3, slow |-> 1000, verySlow |-> 3000, preflights |-> 5,
   follow |-> 10000, hops |-> 3, legacyImage |-> 102400, heavyImage |-> 512000,
   shortCache |-> 604800, html |-> 512000, loneSlow |-> 10000, empty |-> 3,
   dns |-> 200, connect |-> 300, tls |-> 500, connects |-> 2, cdn |-> 10]

None == -1              \* a time, a status or an age the flow does not carry
Known(x) == IF x = None THEN 0 ELSE x
Has(f, facts) == f.has \cap facts # {}
HostOf(f) == f.url.host

-----------------------------------------------------------------------------
(* What a flow tells. *)

Judgeable(f) ==
  /\ ~Has(f, {"internal", "tunneled", "resent", "websocket"})
  /\ f.state \in {"completed", "error"}
OriginResponse(f) == ~Has(f, {"rule", "breakpoint"}) /\ f.status # None
Failed(f) == f.state = "error" \/ Has(f, {"error"}) \/ f.status >= 400
Remote(f) == ~Has(f, {"loopback"})
IsData(f) == f.media = "json"
Compressible(f) == f.media \in {"json", "html", "script", "svg"}
IsStatic(f) == f.media \in {"script", "font", "svg", "jpeg", "webp"} \/ Has(f, {"assetPath"})
DecodedSize(f) == IF f.decoded > f.size THEN f.decoded ELSE f.size
IsRedirect(f) == f.status \in {301, 302, 303, 307, 308}
WantedAsset(f) ==
  IF f.dest # "none" THEN f.dest \in {"script", "style", "image", "font"} ELSE Has(f, {"assetPath"})

\* An MCP call is named by method and tool, a GraphQL call by operation (one
\* with no visible name has no endpoint), any other by its method and its path
\* with the identifiers in it replaced.
NormalPath(path) ==
  [i \in DOMAIN path |-> IF path[i] \in DOMAIN Opaque THEN Opaque[path[i]] ELSE path[i]]
Endpoint(f) ==
  IF Has(f, {"mcp"}) THEN <<"MCP", f.call>>
  ELSE IF Last(f.url.path) = "graphql" THEN (IF f.call = "none" THEN <<>> ELSE <<"GraphQL", f.call>>)
  ELSE <<f.method>> \o NormalPath(f.url.path)

\* A sequence with f behind all that started no later.
Inserted(s, f) ==
  LET n == Min({n \in 0..Len(s) : \A k \in (n + 1)..Len(s) : f.at < s[k].at})
  IN [k \in 1..(Len(s) + 1) |-> IF k <= n THEN s[k] ELSE IF k = n + 1 THEN f ELSE s[k - 1]]

\* The judged flows by start time; the sort is stable.
Judged(flows) ==
  LET judged[n \in 0..Len(flows)] ==
        IF n = 0 THEN <<>>
        ELSE IF Judgeable(flows[n]) THEN Inserted(judged[n - 1], flows[n]) ELSE judged[n - 1]
  IN judged[Len(flows)]

-----------------------------------------------------------------------------
(* Grouping, and what a finding is. *)

\* The flows of fs that are in S, in their order.
Within(fs, S) ==
  LET among[n \in 0..Len(fs)] ==
        IF n = 0 THEN <<>> ELSE IF fs[n] \in S THEN Append(among[n - 1], fs[n]) ELSE among[n - 1]
  IN among[Len(fs)]
Only(fs, keep(_)) == Within(fs, {f \in ToSet(fs) : keep(f)})

(* Mutant: the flows of every app are judged together. *)
AnyApp(f) == <<"any", HostOf(f)>>
HostKey(f) == <<f.app, HostOf(f)>>
EndpointKey(f) == <<f.app, HostOf(f), Endpoint(f)>>

ByHost(flows) ==
  {Only(flows, LAMBDA f : HostKey(f) = k) : k \in {HostKey(f) : f \in ToSet(flows)}}
ByEndpoint(flows) ==
  LET named == Only(flows, LAMBDA f : Endpoint(f) # <<>>)
  IN {Only(named, LAMBDA f : EndpointKey(f) = k) : k \in {EndpointKey(f) : f \in ToSet(named)}}

\* Severities: Info 1, Warning 2, High 3.
Finding(rule, key, severity, flows) ==
  [rule |-> rule, key |-> key, severity |-> severity, flows |-> flows]
EachHost(rule, severity, groups) ==
  {Finding(rule, HostKey(Head(g)), severity, g) : g \in groups}
EachEndpoint(rule, severity, groups) ==
  {Finding(rule, EndpointKey(Head(g)), severity, g) : g \in groups}
Info == 1
Warning == 2
High == 3
Graded(n, warn) == IF n >= warn THEN Warning ELSE Info

\* The ids a report carries: the newest Limit.ids of the finding's flows.
FlowIds(finding) ==
  LET skip == Max({0, Len(finding.flows) - Limit.ids})
  IN [i \in 1..(Len(finding.flows) - skip) |-> finding.flows[skip + i].id]

Total(g, of(_)) == FoldLeft(LAMBDA n, f : n + of(f), 0, g)
Weight(g) == Total(g, LAMBDA f : f.size)
EachHostBySize(rule, large, groups) ==
  {Finding(rule, HostKey(Head(g)), Graded(Weight(g), large), g) : g \in groups}
Median(values) == SortSeq(values, <)[(Len(values) \div 2) + 1]

-----------------------------------------------------------------------------
(* Patterns of calls: bursts, retry storms, polling. *)

(* Mutant: the run's own start is marked, not what is still unmarked. *)
MarkWhole(acc, j, i) == acc.members \o [k \in 1..(i - j + 1) |-> j + k - 1]
Mark(acc, j, i) ==
  LET from == Max({acc.unmarked, j}) IN acc.members \o [k \in 1..(i - from + 1) |-> from + k - 1]
\* The two-pointer sweep: the size of the longest run inside the window, and
\* every index that belongs to some run of at least `least`, each once.
DenseRuns(times, window, least) ==
  LET sweep[i \in 0..Len(times)] ==
        IF i = 0 THEN [j |-> 1, longest |-> 0, members |-> <<>>, unmarked |-> 1]
        ELSE LET acc == sweep[i - 1]
                 j == Min({k \in acc.j..i : times[i] - times[k] <= window})
                 dense == i - j + 1 >= least
             IN [j |-> j,
                 longest |-> Max({acc.longest, i - j + 1}),
                 members |-> IF dense THEN Mark(acc, j, i) ELSE acc.members,
                 unmarked |-> IF dense THEN i + 1 ELSE acc.unmarked]
  IN sweep[Len(times)]

DenseFindings(rule, groups, window, least, high) ==
  UNION {LET runs == DenseRuns([i \in DOMAIN g |-> g[i].at], window, least)
             members == [i \in DOMAIN runs.members |-> g[runs.members[i]]]
         IN IF runs.longest < least THEN {}
            ELSE {Finding(rule, EndpointKey(Head(g)), IF runs.longest >= high THEN 3 ELSE 2, members)}
         : g \in groups}

NotPreflight(f) == f.method # "OPTIONS"
Refused(f) == f.state = "error" \/ Has(f, {"error"}) \/ f.status = 429 \/ f.status >= 500
Burst(fs) ==
  DenseFindings("burst", ByEndpoint(Only(fs, NotPreflight)),
                Limit.burstWindow, Limit.burst, Limit.burstHigh)
RetryStorm(fs) ==
  DenseFindings("retry-storm", ByEndpoint(Only(fs, Refused)),
                Limit.retryWindow, Limit.retry, Limit.retryHigh)

\* The gaps between calls spread by a quarter of their mean at most, and the
\* mean is between the bounds (the variance and the mean, over n and n * n).
Steady(g) ==
  LET gaps == [i \in 1..(Len(g) - 1) |-> g[i + 1].at - g[i].at]
      n == Len(gaps)
      sum == Total(gaps, LAMBDA x : x)
  IN /\ sum >= Limit.pollMin * n /\ sum <= Limit.pollMax * n
     /\ 16 * (n * Total(gaps, LAMBDA x : x * x) - sum * sum) <= sum * sum
Polling(fs) ==
  EachEndpoint("polling", Info,
    {g \in ByEndpoint(Only(fs, LAMBDA f : f.method = "GET" /\ ~Has(f, {"mcp"}))) :
       Len(g) >= Limit.poll /\ Steady(g)})

-----------------------------------------------------------------------------
(* Failures. *)

RateLimited(fs) == EachHost("rate-limited", Warning, ByHost(Only(fs, LAMBDA f : f.status = 429)))
ErrorRate(fs) ==
  UNION {LET bad == Only(g, Failed)
         IN IF Len(g) < Limit.errorFlows \/ 4 * Len(bad) < Len(g) THEN {}
            ELSE {Finding("error-rate", HostKey(Head(g)), IF 2 * Len(bad) >= Len(g) THEN 3 ELSE 2, bad)}
         : g \in ByHost(fs)}
BrokenAsset(fs) ==
  EachHost("broken-asset", Warning,
    ByHost(Only(fs, LAMBDA f :
      /\ OriginResponse(f) /\ WantedAsset(f)
      /\ f.method = "GET" /\ f.status \in {404, 410})))
EmptyResponse(fs) ==
  EachEndpoint("empty-response", Info,
    {g \in ByEndpoint(Only(fs, LAMBDA f :
        /\ OriginResponse(f) /\ f.status = 200 /\ ~Has(f, {"mcp"}) /\ f.method \notin {"HEAD", "OPTIONS"}
        /\ DecodedSize(f) = 0 \/ (DecodedSize(f) <= 4 /\ IsData(f)))) : Len(g) >= Limit.empty})

-----------------------------------------------------------------------------
(* Size and caching. *)

Uncompressed(fs) ==
  EachHostBySize("uncompressed", Limit.large,
    ByHost(Only(fs, LAMBDA f :
      /\ OriginResponse(f) /\ Remote(f) /\ f.status \in 200..299
      /\ f.size >= Limit.compress /\ Compressible(f) /\ ~Has(f, {"encoded"}))))
LargePayload(fs) ==
  EachEndpoint("large-payload", Info,
    ByEndpoint(Only(fs, LAMBDA f :
        /\ OriginResponse(f)
        /\ \/ IsData(f) /\ DecodedSize(f) >= Limit.large
           \/ f.media = "html" /\ DecodedSize(f) >= Limit.html)))
Fetched(f) == OriginResponse(f) /\ f.method = "GET" /\ f.status = 200 /\ Remote(f)
StaticUncacheable(fs) ==
  EachHost("static-uncacheable", Info,
    ByHost(Only(fs, LAMBDA f :
      /\ Fetched(f) /\ IsStatic(f)
      /\ Has(f, {"noStore"}) \/ ~Has(f, {"cacheControl", "expires", "etag", "lastModified"}))))
ShortCache(fs) ==
  EachHost("short-cache", Info,
    ByHost(Only(fs, LAMBDA f :
        /\ Fetched(f) /\ IsStatic(f) /\ Has(f, {"fingerprinted"})
        /\ f.maxAge # None /\ f.maxAge < Limit.shortCache)))
ImageUnoptimized(fs) ==
  EachHostBySize("image-unoptimized", 2 * Limit.large,
    ByHost(Only(fs, LAMBDA f :
      /\ OriginResponse(f) /\ f.status = 200 /\ Remote(f) /\ f.media \in {"jpeg", "webp"}
      /\ f.size >= (IF f.media = "jpeg" THEN Limit.legacyImage ELSE Limit.heavyImage))))
CdnMiss(fs) ==
  UNION {LET misses == Only(g, LAMBDA f : f.cdn = "miss")
         IN IF Len(g) < Limit.cdn \/ 2 * Len(misses) < Len(g) THEN {}
            ELSE {Finding("cdn-miss", HostKey(Head(g)), 1, misses)}
         : g \in ByHost(Only(fs, LAMBDA f :
             /\ OriginResponse(f) /\ f.method = "GET" /\ f.status = 200
             /\ IsStatic(f) /\ f.cdn # "none"))}

-----------------------------------------------------------------------------
(* Time. *)

\* What the server took: setup of the connection and the latency we added
\* ourselves are not its doing.
Wait(f) ==
  Max({0, f.ttfb - Known(f.dns) - Known(f.connect) - Known(f.tls) - Known(f.request) - AddedLatency})
Waits(g) == [i \in DOMAIN g |-> Wait(g[i])]
SlowEndpoint(fs) ==
  LET groups == ByEndpoint(Only(fs, LAMBDA f : OriginResponse(f) /\ ~Has(f, {"script"}) /\ f.ttfb # None))
      few(g) == Len(g) < Limit.slowSamples
      hung(g) == Only(g, LAMBDA f : Wait(f) >= Limit.loneSlow)
  IN EachEndpoint("slow-endpoint", Warning, {hung(g) : g \in {h \in groups : few(h) /\ hung(h) # <<>>}})
     \cup {Finding("slow-endpoint", EndpointKey(Head(g)), Graded(Median(Waits(g)), Limit.verySlow), g)
            : g \in {h \in groups : ~few(h) /\ Median(Waits(h)) >= Limit.slow}}

Samples(g, of(_)) == SelectSeq([i \in DOMAIN g |-> of(g[i])], LAMBDA x : x # None)
SlowPhase(samples, limit) == Len(samples) >= Limit.connects /\ Median(samples) > limit
SlowToConnect(g) ==
  \/ SlowPhase(Samples(g, LAMBDA f : f.dns), Limit.dns)
  \/ SlowPhase(Samples(g, LAMBDA f : f.connect), Limit.connect)
  \/ SlowPhase(Samples(g, LAMBDA f : f.tls), Limit.tls)
SlowConnect(fs) ==
  EachHost("slow-connect", Info,
    {g \in ByHost(Only(fs, LAMBDA f : ~Has(f, {"reused"}) /\ {f.dns, f.connect, f.tls} # {None})) :
       SlowToConnect(g)})
CorsPreflight(fs) ==
  EachHost("cors-preflight", Info,
    {g \in ByHost(Only(fs, LAMBDA f : f.method = "OPTIONS" /\ Has(f, {"preflight"}))) :
       Len(g) >= Limit.preflights})

-----------------------------------------------------------------------------
(* What travels in the open. *)

TokenInUrl(fs) ==
  EachHost("token-in-url", High, ByHost(Only(fs, LAMBDA f : Remote(f) /\ Has(f, {"tokenInQuery"}))))
InsecureCookies(fs) ==
  EachHost("insecure-cookie", Warning,
    ByHost(Only(fs, LAMBDA f :
        /\ f.url.scheme = "https" /\ Remote(f) /\ OriginResponse(f)
        /\ Has(f, {"weakCookie"}))))
PlaintextCredentials(fs) ==
  EachHost("plaintext-credentials", High,
    ByHost(Only(fs, LAMBDA f :
        /\ f.url.scheme = "http" /\ Remote(f)
        /\ Has(f, {"credential", "weakCookie", "setCookie"}))))
MixedContent(fs) ==
  EachHost("mixed-content", Warning,
    ByHost(Only(fs, LAMBDA f : f.url.scheme = "http" /\ Remote(f) /\ Has(f, {"httpsReferer"}))))
MissingSecurityHeaders(fs) ==
  EachHost("missing-security-headers", Info,
    ByHost(Only(fs, LAMBDA f :
      /\ Fetched(f) /\ f.url.scheme = "https" /\ f.media = "html" /\ f.dest \in {"none", "document", "iframe"}
      /\ ~({"hsts", "csp", "nosniff"} \subseteq f.has) \/ ~Has(f, {"frameOptions", "frameAncestors"}))))

-----------------------------------------------------------------------------
(* Redirects. *)

Canonical(u) ==
  [u EXCEPT !.port = IF @ = (IF u.scheme = "https" THEN 443 ELSE 80) THEN None ELSE @,
            !.frag = "none"]

\* A Location against the URL that sent it.  Anything that holds "://", in its
\* query too, is taken for an absolute URL, and then names no URL at all.
Resolve(base, to) ==
  Canonical(CASE to.form = "absolute" -> to.url
              [] to.embeds            -> [to.url EXCEPT !.scheme = "none"]
              [] to.form = "network"  -> [to.url EXCEPT !.scheme = base.scheme]
              [] to.form = "rooted"   -> [base EXCEPT !.path = to.url.path, !.query = to.url.query]
              [] to.form = "relative" -> [base EXCEPT !.path = Front(@) \o to.url.path,
                                                      !.query = to.url.query])

\* The flows that can be the request flow i was redirected to.
Follows(fs, i, k) ==
  /\ Canonical(fs[k].url) = Resolve(fs[i].url, Head(fs[i].to))
  /\ fs[k].app = fs[i].app
  /\ fs[k].at >= fs[i].at /\ fs[k].at - fs[i].at <= Limit.follow

Nexts(fs, used, chain) ==
  LET cur == Last(chain)
  IN IF ~IsRedirect(fs[cur]) \/ fs[cur].to = <<>> THEN {}
     ELSE {k \in DOMAIN fs \ (used \cup ToSet(chain)) : Follows(fs, cur, k)}

\* Hop by hop, until there is none or the walk is where it has been.
FollowFrom(fs, used, start) ==
  LET walk[n \in 0..Len(fs)] ==
        IF n = 0 THEN [chain |-> <<start>>, looped |-> FALSE]
        ELSE LET so == walk[n - 1]
                 nexts == Nexts(fs, used, so.chain)
                 next == Min(nexts)
             IN IF so.looped \/ nexts = {} THEN so
                ELSE [chain |-> Append(so.chain, next),
                      looped |-> \E i \in ToSet(so.chain) : Canonical(fs[i].url) = Canonical(fs[next].url)]
  IN walk[Len(fs)]

RedirectFinding(fs, walk) ==
  Finding(IF walk.looped THEN "redirect-loop" ELSE "redirect-chain",
          <<fs[Head(walk.chain)].app, Canonical(fs[Head(walk.chain)].url)>>,
          IF walk.looped THEN 3 ELSE 2,
          [i \in DOMAIN walk.chain |-> fs[walk.chain[i]]])

(* Mutant: the flows of a chain may be told again in another one. *)
NotUsed(used, chain) == used
Used(used, chain) == used \cup ToSet(chain)
RedirectChain(fs) ==
  LET hops(chain) == Cardinality({i \in ToSet(chain) : IsRedirect(fs[i])})
      tell[n \in 0..Len(fs)] ==
        IF n = 0 THEN [used |-> {}, found |-> {}]
        ELSE LET acc == tell[n - 1]
                 walk == FollowFrom(fs, acc.used, n)
             IN IF n \in acc.used \/ ~IsRedirect(fs[n]) THEN acc
                ELSE IF ~walk.looped /\ hops(walk.chain) < Limit.hops THEN acc
                ELSE [used |-> Used(acc.used, walk.chain),
                      found |-> acc.found \cup {RedirectFinding(fs, walk)}]
  IN tell[Len(fs)].found

-----------------------------------------------------------------------------

analyze(flows) ==
  LET fs == Judged(flows)
  IN UNION {Burst(fs), Polling(fs), RetryStorm(fs), RateLimited(fs), ErrorRate(fs),
            Uncompressed(fs), LargePayload(fs), StaticUncacheable(fs), RedirectChain(fs),
            SlowEndpoint(fs), CorsPreflight(fs), TokenInUrl(fs), InsecureCookies(fs),
            PlaintextCredentials(fs), ImageUnoptimized(fs), ShortCache(fs), MixedContent(fs),
            MissingSecurityHeaders(fs), BrokenAsset(fs), EmptyResponse(fs), SlowConnect(fs),
            CdnMiss(fs)}

AnalysisInit == traffic \in Pools /\ capture = <<>>

\* A flow is stored.  Flows finish in any order, and are stored when they do or
\* before, so the order of the capture is not the order of the starts.
Capture(f) ==
  /\ Len(capture) < MaxCapture
  /\ f \in traffic \ ToSet(capture)
  /\ capture' = Append(capture, f)
  /\ UNCHANGED traffic
AnalysisNext == \E f \in traffic : Capture(f)
AnalysisSpec == AnalysisInit /\ [][AnalysisNext]_analysisVars

-----------------------------------------------------------------------------
(* Properties. *)

\* A flow of S that lies in a window holding `least` flows of S or more.
InRun(S, f, window, least) ==
  \E s \in S : /\ f.at \in s.at..(s.at + window)
              /\ Cardinality({g \in S : g.at \in s.at..(s.at + window)}) >= least
Same(S, f, key(_)) == {g \in S : key(g) = key(f)}

TellsRuns(found, flows, window, least, high) ==
  LET told == {f \in flows : InRun(Same(flows, f, EndpointKey), f, window, least)}
  IN /\ UNION {ToSet(x.flows) : x \in found} = told
     /\ \A x \in found :
          /\ Cardinality(ToSet(x.flows)) = Len(x.flows)
          /\ ToSet(x.flows) = Same(told, Head(x.flows), EndpointKey)
          /\ x.severity = 3 <=>
               \E f \in ToSet(x.flows) : InRun(ToSet(x.flows), f, window, high)

\* The sweep over start times in dense_runs tells exactly what it stands for:
\* a burst (a retry storm) is told of an endpoint when some window holds
\* enough of its calls (its failures), the finding lists every call of such a
\* window once, overlapping windows or not, and is high when one window holds
\* as many as that takes.
RunsAreExact ==
  LET fs == Judged(capture)
      named(keep(_)) == {f \in ToSet(fs) : keep(f) /\ Endpoint(f) # <<>>}
  IN /\ TellsRuns(Burst(fs), named(NotPreflight), Limit.burstWindow, Limit.burst, Limit.burstHigh)
     /\ TellsRuns(RetryStorm(fs), named(Refused), Limit.retryWindow, Limit.retry, Limit.retryHigh)

\* No request is told twice as part of a redirect, each hop of a chain really
\* led to the next, a loop ends where it has been before and a chain never
\* does, and redirects in a row that can only be read one way are told.
RedirectsTold ==
  LET fs == Judged(capture)
      found == RedirectChain(fs)
      told == UNION {ToSet(x.flows) : x \in found}
      untold == {i \in DOMAIN fs : IsRedirect(fs[i]) /\ fs[i].to # <<>> /\ fs[i] \notin told}
      urls(x) == [i \in DOMAIN x.flows |-> Canonical(x.flows[i].url)]
      only(i, k) == {l \in DOMAIN fs \ {i} : Follows(fs, i, l)} = {k}
  IN /\ \A x, y \in found : x = y \/ ToSet(x.flows) \cap ToSet(y.flows) = {}
     /\ \A x \in found : \A i \in 1..(Len(x.flows) - 1) : Follows(x.flows, i, i + 1)
     /\ \A x \in found :
          IF x.rule = "redirect-loop" THEN Last(urls(x)) \in ToSet(Front(urls(x)))
          ELSE Cardinality(ToSet(urls(x))) = Len(x.flows)
     /\ ~\E walk \in [1..Limit.hops -> untold] :
          /\ \A m, n \in 1..Limit.hops : walk[m] = walk[n] => m = n
          /\ \A n \in 1..(Limit.hops - 1) : only(walk[n], walk[n + 1])

\* A finding is about one app and one host (a redirect may change host), cites
\* only flows that can be judged, oldest first, and its list is cut to the
\* newest; two findings never share an id, and the order in which the flows
\* were stored changes nothing.
FindingsStandAlone ==
  LET found == analyze(capture)
      redirect(x) == x.rule \in {"redirect-chain", "redirect-loop"}
  IN /\ \A x \in found :
          /\ \A f \in ToSet(x.flows) :
               /\ Judgeable(f) /\ f.app = Head(x.flows).app
               /\ redirect(x) \/ HostOf(f) = HostOf(Head(x.flows))
          /\ \A i \in 1..(Len(x.flows) - 1) : x.flows[i].at <= x.flows[i + 1].at
          /\ \A f \in ToSet(x.flows), g \in ToSet(x.flows) :
               f.id \in ToSet(FlowIds(x)) /\ g.id \notin ToSet(FlowIds(x)) => g.at <= f.at
     /\ \A x, y \in found : x = y \/ redirect(x) \/ x.rule # y.rule \/ x.key # y.key
     /\ (\A f, g \in ToSet(capture) : f = g \/ f.at # g.at) => analyze(Reverse(capture)) = found

\* insights.rs, the module's comment: "Responses a rule or a breakpoint
\* produced are not the origin's, so the checks about responses skip those as
\* well."  No origin is told to fail over answers NovaProxy made.
OriginBlamedForItsOwn ==
  \A x \in analyze(capture) : \A f \in ToSet(x.flows) :
    x.rule = "error-rate" => ~Has(f, {"rule", "breakpoint"})
=============================================================================
