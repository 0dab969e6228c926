----------------------------- MODULE PublicApi ------------------------------
(***************************************************************************)
(* What happens around a public handler: the guards of RequestGuards, then *)
(* the handler, then the metrics interceptor that records how it ended.    *)
(* Handlers run for a while and end in any order; the licence rules they   *)
(* follow are LicenseServer's.  Guards run before interceptors, so what a  *)
(* guard refuses leaves no mark in the metrics.                            *)
(***************************************************************************)
EXTENDS RequestGuards, SdkCalls

CONSTANTS
    Route,    \* method and path
    RouteOf,  \* the route of a rate limit key
    MaxServed \* bound on the requests let through between two restarts

ASSUME RouteAssumption == RouteOf \in [Key -> Route] /\ MaxServed \in Nat

VARIABLES
    metrics,  \* MetricsService.routes
    totals,   \* MetricsService: totalRequests, failedRequests, sum of errorCodes
    calls     \* the handlers that began, in that order: their route and how they ended;
              \* those under way are the process's own, the rest is history

apiVars == <<vars, metrics, totals, calls>>

NoCalls == [count |-> 0, failures |-> 0]
-----------------------------------------------------------------------------
\* How a handler ends: its answer; an AppError with its code; the validation
\* pipe's exception or an error that is no HttpException, whose codes the filter
\* adds only after the interceptor.
Ending == {"OK", "CODED", "UNCODED"}
Handler == [route : Route, ending : Ending \union {"running"}]

Count(metric, ending) ==
    [count |-> metric.count + 1,
     failures |-> metric.failures + IF ending = "OK" THEN 0 ELSE 1]

Record(route, ending) ==
    /\ metrics' = [metrics EXCEPT ![route] = Count(@, ending)]
    /\ totals' = [requests |-> Count(totals.requests, ending),
                  codes |-> totals.codes + IF ending = "CODED" THEN 1 ELSE 0]
-----------------------------------------------------------------------------
\* A request passes the guards or is refused; let through, its handler starts.
Request(k, r, genuine) ==
    /\ Arrive(k, r, genuine)
    /\ IF answer'.code = "OK"
       THEN Len(calls) < MaxServed /\ calls' = Append(calls, [route |-> RouteOf[k], ending |-> "running"])
       ELSE UNCHANGED calls
    /\ UNCHANGED <<metrics, totals>>

\* A handler ends, and intercept records it.
\* Fault: only answers are recorded, errors pass the interceptor by.
FaultRespond(i, ending) ==
    /\ calls[i].ending = "running"
    /\ calls' = [calls EXCEPT ![i].ending = ending]
    /\ IF ending = "OK" THEN Record(calls[i].route, ending) ELSE UNCHANGED <<metrics, totals>>
    /\ UNCHANGED vars

Respond(i, ending) ==
    /\ calls[i].ending = "running"
    /\ calls' = [calls EXCEPT ![i].ending = ending]
    /\ Record(calls[i].route, ending)
    /\ UNCHANGED vars

ApiTime == TimePasses /\ UNCHANGED <<metrics, totals, calls>>

NothingServed ==
    /\ metrics' = [route \in Route |-> NoCalls]
    /\ totals' = [requests |-> NoCalls, codes |-> 0]
    /\ calls' = <<>>

\* The metrics live in memory too, and handlers under way end with the process.
ApiRestart == Restart /\ NothingServed

ApiInit ==
    /\ Init
    /\ metrics = [route \in Route |-> NoCalls]
    /\ totals = [requests |-> NoCalls, codes |-> 0]
    /\ calls = <<>>

ApiNext ==
    \/ \E k \in Key, r \in SignedRequest, genuine \in BOOLEAN : Request(k, r, genuine)
    \/ \E i \in DOMAIN calls, ending \in Ending : Respond(i, ending)
    \/ ApiTime
    \/ ApiRestart

ApiSpec == ApiInit /\ [][ApiNext]_apiVars
-----------------------------------------------------------------------------
\* The handlers that have ended, those of a route, and the failed among them.
Served == {i \in DOMAIN calls : calls[i].ending # "running"}
ServedOf(route) == {i \in Served : calls[i].route = route}
Failed == {i \in Served : calls[i].ending # "OK"}
Coded == {i \in Served : calls[i].ending = "CODED"}

\* What the metrics of monitoring count: the requests that got past the guards
\* and have ended, each once, whatever its end and the order of ends, for its
\* route and in the totals, which so are those of the routes.  The RATE_LIMITED
\* answers 06-生产限流评估.md:62 looks for there are not among them.
MetricsCountServed ==
    /\ \A route \in Route : metrics[route] =
          [count |-> Cardinality(ServedOf(route)), failures |-> Cardinality(ServedOf(route) \intersect Failed)]
    /\ totals = [requests |-> [count |-> Cardinality(Served), failures |-> Cardinality(Failed)],
                codes |-> Cardinality(Coded)]

\* Whenever limiter and nonce table have nothing against a request, it reaches its
\* handler if it is a call the SDKs are to make, signed or not, whatever text its
\* fields hold: what the client signs is what the server signs again.
CallsUnderstood ==
    \A k \in Key, r \in SignedRequest :
        Allowed(k) /\ Fresh(r) /\ r \notin DOMAIN Remembered => AllUnderstood
=============================================================================
