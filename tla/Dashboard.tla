----------------------------- MODULE Dashboard -----------------------------
(***************************************************************************)
(* What the dashboard is told of the stream processor: GET /api/metrics    *)
(* (services/metrics_service.py) and GET /api/system/status                *)
(* (api/routes/system.py), read through the rate limiter of                *)
(* core/security.py, from the keys that the workers of MinuteMetrics write *)
(* while they live.                                                        *)
(***************************************************************************)
EXTENDS MinuteMetrics

CONSTANTS
    Clients,    \* addresses the pages are read from
    Limit,      \* settings.rate_limit_per_minute
    BeatFresh,  \* how long a heartbeat is believed (20 s)
    RollFresh   \* how long the rolling window is current (30 s)

ASSUME DashboardAssumption ==
    /\ Limit \in Nat \ {0}
    /\ {BeatFresh, RollFresh} \subseteq Nat

VARIABLES
    hits,     \* siem:ratelimit:<client>:<minute>
    granted   \* history: when a client's requests went through, Redis working

dashVars == <<vars, hits, granted>>

Null == -1

DashInit ==
    /\ Init
    /\ hits = [c \in Clients |-> [minute |-> 0, n |-> 0]]
    /\ granted = [c \in Clients |-> <<>>]

-----------------------------------------------------------------------------
(* The rate limiter. *)

\* INCR: a key of its own for every minute of the wall clock.
Hit(c) == [minute |-> Minute(clock),
           n |-> IF hits[c].minute = Minute(clock) THEN hits[c].n + 1 ELSE 1]

\* Mutant: the request that reaches the limit is compared before it counts.
OverLate(hit) == hit.n - 1 > Limit
Over(hit) == hit.n > Limit

\* A page asks for its data.  Without Redis the limiter lets everything
\* through; a 429 changes nothing but the count.
Poll(c) ==
    /\ Spend("polls")
    /\ IF Works("redis")
       THEN /\ hits' = [hits EXCEPT ![c] = Hit(c)]
            /\ granted' = IF Over(Hit(c)) THEN granted
                          ELSE [granted EXCEPT ![c] = Append(@, clock)]
       ELSE UNCHANGED <<hits, granted>>
    /\ UNCHANGED <<clock, worker, redis, out, calm, history>>

-----------------------------------------------------------------------------
(* The answers. *)

\* Mutant: a heartbeat is believed for as long as Redis keeps it (30 s).
WorkerFreshPresent == 2 * (clock - beat) < 3 * BeatFresh

WorkerFresh == clock - beat < BeatFresh

\* On the metrics page the rates are null unless a worker lives and they were
\* measured just now.  The status page shows those that Redis still holds, and
\* both pages the lag that it still holds.
RollingFresh == WorkerFresh /\ clock - rolling.at < RollFresh
EventsInWindow == IF RollingFresh THEN rolling.events ELSE Null
StatusRates == IF Present(rolling) THEN rolling.events ELSE Null
LagMeasured == IF Present(lag) THEN lag.at ELSE Null

\* Without Redis, reading the worker's keys raises after the ping was caught.
SystemStatus ==
    CASE ~Works("redis") -> "raises"
      [] Works("redis") /\ out # {} -> "down"
      [] out = {} /\ WorkerFresh -> "healthy"
      [] OTHER -> "degraded"

DashNext ==
    \/ Next /\ UNCHANGED <<hits, granted>>
    \/ \E c \in Clients : Poll(c)

DashSpec == DashInit /\ [][DashNext]_dashVars
-----------------------------------------------------------------------------
(***************************************************************************)
(* What the dashboard promises.                                            *)
(***************************************************************************)

(***************************************************************************)
(* "fixed-window limiter" (security.py:55): no client gets through more    *)
(* often than the limit in a minute of the clock, and so never more than   *)
(* twice that in any span of a minute, two minutes' worth around the turn. *)
(***************************************************************************)
RateIsLimited ==
    \A c \in Clients : LET g == granted[c] IN
        /\ \A i \in DOMAIN g :
             Cardinality({j \in DOMAIN g : Minute(g[j]) = Minute(g[i])}) <= Limit
        /\ \A i \in DOMAIN g :
             Cardinality({j \in DOMAIN g : g[j] \in g[i]..(g[i] + MinuteTicks - 1)}) <= 2 * Limit

(***************************************************************************)
(* A worker that lives is shown: one heartbeat may age for as long as the  *)
(* refresher waits, but never to the age where the page gives it up        *)
(* (worker.py:36, 46; metrics_service.py:41), from one wait after the last *)
(* outage on.                                                              *)
(***************************************************************************)
LiveIsHealthy ==
    /\ out = {} /\ clock > calm + BeatTicks
    /\ \E w \in Up : clock > worker[w].since
    => SystemStatus = "healthy"

(***************************************************************************)
(* "or `null` when the source is unavailable" (metrics_service.py:3-5):    *)
(* once no worker has lived for as long as a heartbeat is believed, the    *)
(* metrics page shows no rates, and the status page no healthy system.  It *)
(* shows the dead workers' rates, and both pages their lag, for as long as *)
(* Redis keeps them and no longer (system.py:69-88; pipeline.py:210-211;   *)
(* worker.py:40-44) - or for ever, when the HSET that made the hash was    *)
(* not followed by its EXPIRE: a death or an outage came between.          *)
(***************************************************************************)
DeadIsBlank ==
    LET dead(ticks) == \A w \in Workers \ Up : clock - worker[w].since >= ticks IN
    Up = {} =>
        /\ dead(BeatFresh) => EventsInWindow = Null /\ SystemStatus # "healthy"
        /\ dead(RollTtl) /\ "rolling" \notin torn => StatusRates = Null
        /\ dead(LagTtl) /\ "lag" \notin torn => LagMeasured = Null
=============================================================================
