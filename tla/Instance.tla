------------------------------ MODULE Instance ------------------------------
(***************************************************************************)
(* The requests of one instance, from CorrelationMiddleware to the answer: *)
(* the rate limiter's verdict, the connection pool of app/db.py,           *)
(* authenticate, the evaluation and CRUD handlers, the readiness probe,    *)
(* and what app/metrics.py counts, while PostgreSQL comes and goes.  A     *)
(* call to Redis may fail at any time.                                     *)
(*                                                                         *)
(* A session takes a connection at its first query, which is the one of    *)
(* authenticate, and keeps it over the calls to Redis, on a cache hit too. *)
(* A commit or a rollback gives it back, and the refresh that follows a    *)
(* commit has to take one again.                                           *)
(***************************************************************************)
EXTENDS Metrics, Functions

CONSTANTS
    Requests,       \* requests that can be in progress at once
    NoKey,          \* a caller without X-API-Key
    BadKey,         \* a caller with a key that is not in the database
    Clients,        \* the pairs of caller and endpoint that requests come with
    PoolLimit,      \* db_pool_size + db_max_overflow
    Durations,      \* latencies of an evaluation, in units of 1/Grain of 0.001 ms
    MaxRequests     \* bound on the requests of the instance's life

ASSUME InstanceAssumption ==
    /\ IsFiniteSet(Requests)
    /\ PoolLimit \in Nat \ {0}
    /\ Durations \subseteq Nat
    /\ MaxRequests \in Nat
    /\ {NoKey, BadKey} \intersect Tenants = {} /\ NoKey # BadKey

VARIABLES
    req,            \* req[r]: the request r
    checkedout,     \* the pool's count of connections in use
    dbUp,           \* can PostgreSQL be reached
    arrived,        \* history: requests by caller and endpoint
    raised,         \* history: of them, those whose handler raised
    limited,        \* history: of them, those that got a 429
    refused         \* history: the 429s altogether

vars == <<metricsVars, req, checkedout, dbUp, arrived, raised, limited, refused>>

Callers == Tenants \union {NoKey, BadKey}

Traffic == Callers \X Endpoints

(* `tenant' is request.state.tenant_id; `down' and `full' say whether the  *)
(* database was ever down and the pool ever fully in use for the request.  *)
Request == [pc : {"idle", "limit", "session", "query", "lookup", "load", "evaluate",
                  "write", "refresh", "reread", "ping", "answer"},
            caller : Callers, endpoint : Endpoints, route : Endpoints \union {Unrouted},
            tenant : Tenants \union {Anonymous}, conn : BOOLEAN,
            status : {200, 401, 403, 429, 503}, counted : BOOLEAN,
            down : BOOLEAN, full : BOOLEAN]

Idle == [pc |-> "idle", caller |-> NoKey, endpoint |-> "readyz", route |-> Unrouted,
         tenant |-> Anonymous, conn |-> FALSE, status |-> 200, counted |-> FALSE,
         down |-> FALSE, full |-> FALSE]

Init ==
    /\ MetricsInit
    /\ req = [r \in Requests |-> Idle]
    /\ checkedout = 0
    /\ dbUp = TRUE
    /\ arrived = [x \in Traffic |-> 0]
    /\ raised = [x \in Traffic |-> 0]
    /\ limited = [x \in Traffic |-> 0]
    /\ refused = 0

InProgress == {r \in Requests : req[r].pc # "idle"}
Holders == {r \in Requests : req[r].conn}

At(r, step) == req[r].pc = step
Become(r, q) == req' = [req EXCEPT ![r] = q]
Goto(r, step) == Become(r, [req[r] EXCEPT !.pc = step])
Answer(r, status) == Become(r, [req[r] EXCEPT !.pc = "answer", !.status = status])
Key(r) == <<req[r].caller, req[r].endpoint>>

tallies == <<arrived, raised, limited, refused>>

----------------------------------------------------------------------------
(* The way in: middlewares and the session.                                *)

(* The bound on the instance's life.                                       *)
MayArrive == FoldFunction(+, 0, arrived) < MaxRequests

(* The probe and a request without a key pass the limiter untouched.       *)
Arrive(r, caller, endpoint) ==
    /\ At(r, "idle")
    /\ MayArrive
    /\ <<caller, endpoint>> \in Clients
    /\ endpoint = "readyz" => caller = NoKey
    /\ Become(r, [Idle EXCEPT !.pc = IF caller = NoKey THEN "session" ELSE "limit",
                              !.caller = caller, !.endpoint = endpoint, !.down = ~dbUp])
    /\ arrived' = [arrived EXCEPT ![<<caller, endpoint>>] = @ + 1]
    /\ UNCHANGED <<metricsVars, checkedout, dbUp, raised, limited, refused>>

(* Mutant: the rate limiter is the outer of the two middlewares.           *)
RateLimited_Outermost(r) ==
    /\ At(r, "limit")
    /\ Become(r, Idle)
    /\ limited' = [limited EXCEPT ![Key(r)] = @ + 1]
    /\ refused' = refused + 1
    /\ UNCHANGED <<metricsVars, checkedout, dbUp, arrived, raised>>

(* The counter is over the limit.  No route has been matched yet.          *)
RateLimited(r) ==
    /\ At(r, "limit")
    /\ Answer(r, 429)
    /\ limited' = [limited EXCEPT ![Key(r)] = @ + 1]
    /\ refused' = refused + 1
    /\ UNCHANGED <<metricsVars, checkedout, dbUp, arrived, raised>>

(* Under the limit, or Redis fails.                                        *)
PassLimiter(r) ==
    /\ At(r, "limit")
    /\ Goto(r, "session")
    /\ UNCHANGED <<metricsVars, checkedout, dbUp, tallies>>

(* The router matches; authenticate wants a key before it wants a session. *)
Unauthenticated(r) ==
    /\ At(r, "session")
    /\ req[r].endpoint # "readyz" /\ req[r].caller = NoKey
    /\ Become(r, [req[r] EXCEPT !.pc = "answer", !.status = 401, !.route = req[r].endpoint])
    /\ UNCHANGED <<metricsVars, checkedout, dbUp, tallies>>

(* The first query of a session, and the refresh after its commit.         *)
WantsConnection(r) ==
    \/ At(r, "refresh")
    \/ At(r, "session") /\ (req[r].endpoint = "readyz" \/ req[r].caller # NoKey)

(* The pool hands out a connection.  Its pre-ping, and the replacement of  *)
(* a dead one, belong to the statement that follows.                       *)
CheckOut(r) ==
    /\ WantsConnection(r)
    /\ checkedout < PoolLimit
    /\ checkedout' = checkedout + 1
    /\ Become(r, [req[r] EXCEPT !.pc = IF At(r, "refresh") THEN "reread" ELSE "query",
                                !.conn = TRUE, !.route = req[r].endpoint])
    /\ UNCHANGED <<metricsVars, dbUp, tallies>>

Released(r) == IF req[r].conn THEN checkedout - 1 ELSE checkedout

(* The readiness probe catches the exception and goes on to Redis.         *)
Unready(r) ==
    [req[r] EXCEPT !.pc = "ping", !.conn = FALSE, !.status = 503, !.route = req[r].endpoint,
                   !.full = Cardinality(Holders) = PoolLimit]

(* Mutant: the session is not closed on the way out of an exception.       *)
Raise_Leaks(r) ==
    /\ IF req[r].endpoint = "readyz"
       THEN Become(r, Unready(r)) /\ UNCHANGED raised
       ELSE Become(r, Idle) /\ raised' = [raised EXCEPT ![Key(r)] = @ + 1]
    /\ UNCHANGED <<metricsVars, checkedout, dbUp, arrived, limited, refused>>

(* An exception.  Outside readyz get_db rolls back, the session closes,    *)
(* and the middleware logs and raises on: the client gets a 500, and       *)
(* record_request is never called.                                         *)
Raise(r) ==
    /\ checkedout' = Released(r)
    /\ IF req[r].endpoint = "readyz"
       THEN Become(r, Unready(r)) /\ UNCHANGED raised
       ELSE Become(r, Idle) /\ raised' = [raised EXCEPT ![Key(r)] = @ + 1]
    /\ UNCHANGED <<metricsVars, dbUp, arrived, limited, refused>>

(* Mutant: the wait for a connection has no timeout.                       *)
CheckOutFails_Waits(r) ==
    /\ WantsConnection(r)
    /\ checkedout = PoolLimit /\ ~dbUp
    /\ Raise(r)

(* No connection came free before the pool's timeout; if it was refresh    *)
(* that waited, the change is committed and the answer a 500 nonetheless.  *)
CheckOutFails(r) ==
    /\ WantsConnection(r)
    /\ checkedout = PoolLimit
    /\ Raise(r)

(* A statement fails if the database was down since the request began; it  *)
(* may succeed after a short outage.                                       *)
StatementFails(r) ==
    /\ req[r].pc \in {"query", "load", "write", "reread"}
    /\ req[r].down
    /\ Raise(r)

----------------------------------------------------------------------------
(* authenticate and the handlers.                                          *)

Rejected(r) ==
    /\ At(r, "query")
    /\ dbUp
    /\ req[r].caller = BadKey
    /\ Answer(r, 401)
    /\ UNCHANGED <<metricsVars, checkedout, dbUp, tallies>>

HandlerOf(endpoint) == IF endpoint = "evaluate" THEN "lookup" ELSE "write"

(* Mutant: the tenant is not published for the middleware.                 *)
Authenticate_Unpublished(r) ==
    /\ At(r, "query")
    /\ dbUp
    /\ req[r].caller \in Tenants
    /\ Goto(r, HandlerOf(req[r].endpoint))
    /\ UNCHANGED <<metricsVars, checkedout, dbUp, tallies>>

Authenticate(r) ==
    /\ At(r, "query")
    /\ dbUp
    /\ req[r].caller \in Tenants
    /\ Become(r, [req[r] EXCEPT !.pc = HandlerOf(req[r].endpoint), !.tenant = req[r].caller])
    /\ UNCHANGED <<metricsVars, checkedout, dbUp, tallies>>

(* _assert_tenant_matches: the body names another tenant.                  *)
Forbidden(r) ==
    /\ At(r, "lookup")
    /\ Answer(r, 403)
    /\ UNCHANGED <<metricsVars, checkedout, dbUp, tallies>>

(* get_flag_set, with the connection of authenticate still in use.         *)
LookupHit(r) ==
    /\ At(r, "lookup")
    /\ Goto(r, "evaluate")
    /\ UNCHANGED <<metricsVars, checkedout, dbUp, tallies>>

(* A miss, an entry that does not decode, or an error of Redis.            *)
LookupMiss(r) ==
    /\ At(r, "lookup")
    /\ Goto(r, "load")
    /\ UNCHANGED <<metricsVars, checkedout, dbUp, tallies>>

(* Mutant: the loader records the evaluation, and the handler again.       *)
Load_RecordsToo(r) ==
    /\ At(r, "load")
    /\ dbUp
    /\ \E d \in Durations : record_evaluation(req[r].tenant, d)
    /\ Goto(r, "evaluate")
    /\ UNCHANGED <<checkedout, dbUp, tallies>>

Load(r) ==
    /\ At(r, "load")
    /\ dbUp
    /\ Goto(r, "evaluate")
    /\ UNCHANGED <<metricsVars, checkedout, dbUp, tallies>>

(* set_flag_set, whatever becomes of it, evaluate_all, record_evaluation.  *)
Evaluate(r, duration) ==
    /\ At(r, "evaluate")
    /\ record_evaluation(req[r].tenant, duration)
    /\ Answer(r, 200)
    /\ UNCHANGED <<checkedout, dbUp, tallies>>

(* A CRUD handler that commits nothing: a reader, a 404, a 422, a flag     *)
(* archived before.  4xx answers are like a 200.                           *)
HandleFlags(r) ==
    /\ At(r, "write")
    /\ dbUp
    /\ Answer(r, 200)
    /\ UNCHANGED <<metricsVars, checkedout, dbUp, tallies>>

(* create_flag rolls back before its 409.                                  *)
Conflict(r) ==
    /\ At(r, "write")
    /\ dbUp
    /\ checkedout' = Released(r)
    /\ Become(r, [req[r] EXCEPT !.pc = "answer", !.conn = FALSE])
    /\ UNCHANGED <<metricsVars, dbUp, tallies>>

(* The transaction of create_flag, update_flag and archive_flag.           *)
CommitFlags(r) ==
    /\ At(r, "write")
    /\ dbUp
    /\ checkedout' = Released(r)
    /\ Become(r, [req[r] EXCEPT !.pc = "refresh", !.conn = FALSE])
    /\ UNCHANGED <<metricsVars, dbUp, tallies>>

(* refresh has its connection; invalidate, whatever becomes of it.         *)
Refresh(r) ==
    /\ At(r, "reread")
    /\ dbUp
    /\ Answer(r, 200)
    /\ UNCHANGED <<metricsVars, checkedout, dbUp, tallies>>

(* readyz: SELECT 1, and the session closes before Redis is asked.         *)
SelectOne(r) ==
    /\ At(r, "query")
    /\ req[r].endpoint = "readyz"
    /\ dbUp
    /\ checkedout' = Released(r)
    /\ Become(r, [req[r] EXCEPT !.pc = "ping", !.conn = FALSE])
    /\ UNCHANGED <<metricsVars, dbUp, tallies>>

(* Mutant: a failed PING makes the instance unready.                       *)
Ping_Fatal(r) ==
    /\ At(r, "ping")
    /\ \E status \in {req[r].status, 503} : Answer(r, status)
    /\ UNCHANGED <<metricsVars, checkedout, dbUp, tallies>>

(* The result of the PING goes into the body only.                         *)
Ping(r) ==
    /\ At(r, "ping")
    /\ Answer(r, req[r].status)
    /\ UNCHANGED <<metricsVars, checkedout, dbUp, tallies>>

----------------------------------------------------------------------------
(* The way out: the session is closed and record_request called, in either *)
(* order (FastAPI closes it before or after the response, by its version). *)

Left(q) == IF q.counted /\ ~q.conn THEN Idle ELSE q

CloseSession(r) ==
    /\ At(r, "answer")
    /\ req[r].conn
    /\ checkedout' = Released(r)
    /\ Become(r, Left([req[r] EXCEPT !.conn = FALSE]))
    /\ UNCHANGED <<metricsVars, dbUp, tallies>>

RecordRequest(r) ==
    /\ At(r, "answer")
    /\ ~req[r].counted
    /\ record_request(<<req[r].tenant, req[r].route>>, req[r].status)
    /\ Become(r, Left([req[r] EXCEPT !.counted = TRUE]))
    /\ UNCHANGED <<checkedout, dbUp, tallies>>

----------------------------------------------------------------------------
DatabaseFails ==
    /\ dbUp
    /\ dbUp' = FALSE
    /\ req' = [r \in Requests |-> [req[r] EXCEPT !.down = r \in InProgress]]
    /\ UNCHANGED <<metricsVars, checkedout, tallies>>

DatabaseRecovers ==
    /\ ~dbUp
    /\ dbUp' = TRUE
    /\ UNCHANGED <<metricsVars, req, checkedout, tallies>>

----------------------------------------------------------------------------
RequestStep(r) ==
    \/ RateLimited(r) \/ PassLimiter(r) \/ Unauthenticated(r)
    \/ CheckOut(r) \/ CheckOutFails(r) \/ StatementFails(r)
    \/ Rejected(r) \/ Authenticate(r) \/ Forbidden(r)
    \/ LookupHit(r) \/ LookupMiss(r) \/ Load(r)
    \/ \E d \in Durations : Evaluate(r, d)
    \/ HandleFlags(r) \/ Conflict(r) \/ CommitFlags(r) \/ Refresh(r)
    \/ SelectOne(r) \/ Ping(r)
    \/ CloseSession(r) \/ RecordRequest(r)

Next ==
    \/ \E r \in Requests :
        \/ \E caller \in Callers, endpoint \in Endpoints : Arrive(r, caller, endpoint)
        \/ RequestStep(r)
    \/ DatabaseFails \/ DatabaseRecovers

(* The request is in a call to PostgreSQL or Redis, for which app/db.py    *)
(* and app/cache.py set no timeout; closing a session is one such call.    *)
Awaiting(r) ==
    \/ req[r].pc \in {"limit", "query", "lookup", "load", "evaluate", "write", "reread", "ping"}
    \/ At(r, "answer") /\ req[r].conn

(* The event loop runs every coroutine whose await is over, and the wait   *)
(* for the pool ends, with a connection or with its timeout.  A call to a  *)
(* datastore need not end, and no outage has to.                           *)
Spec ==
    /\ Init /\ [][Next]_vars
    /\ \A r \in Requests : WF_vars(~Awaiting(r) /\ RequestStep(r))

----------------------------------------------------------------------------
(* Properties.                                                             *)

(* Requests and counters keep their types (middleware.py, metrics.py).     *)
TypeOK ==
    /\ req \in [Requests -> Request]
    /\ checkedout \in 0..PoolLimit
    /\ samples \in Seq([duration : Durations, tenant : Tenants]) /\ Len(samples) <= MAX_SAMPLES
    /\ requests \in [Labels -> Nat] /\ errors \in [Labels -> Nat]
    /\ dbUp \in BOOLEAN
    /\ arrived \in [Traffic -> Nat] /\ raised \in [Traffic -> Nat] /\ limited \in [Traffic -> Nat]
    /\ refused \in Nat

(* No path through get_db leaks a connection: the pool counts exactly the  *)
(* connections that requests in progress hold, whatever raised.            *)
ConnectionsAccounted ==
    /\ checkedout = Cardinality(Holders)
    /\ Holders \subseteq InProgress

Uncounted(x) ==
    Cardinality({r \in InProgress : Key(r) = x /\ ~req[r].counted /\ req[r].status # 429})

(* The series of a tenant and an endpoint misses only the requests that    *)
(* raised and the 429s: everything else that came with the tenant's key,   *)
(* however requests overlap, is counted there once.                        *)
SeriesComplete ==
    \A x \in Tenants \X (Endpoints \ {"readyz"}) :
        arrived[x] = requests[x] + Uncounted(x) + raised[x] + limited[x]

(* A 429 counts toward the metrics, as anonymous (main.py on the order of  *)
(* the middlewares).                                                       *)
LimitedIsCounted ==
    refused =
        requests[<<Anonymous, Unrouted>>]
        + Cardinality({r \in InProgress : req[r].status = 429 /\ ~req[r].counted})

(* The evaluation rate of a tenant counts no evaluation whose request is   *)
(* not in the tenant's series, or about to be: failures leave no sample.   *)
SamplesAreServed ==
    \A t \in Tenants : EvaluationsOf(t) <=
        requests[<<t, "evaluate">>]
        + Cardinality({r \in InProgress : Key(r) = <<t, "evaluate">> /\ At(r, "answer")
                                          /\ ~req[r].counted})

(* What GET /metrics shows accounts for the requests of the instance's     *)
(* life: every one is counted once where it belongs, or raised.            *)
MetricsAccount == SeriesComplete /\ LimitedIsCounted /\ SamplesAreServed

(* A reported p50, p95 or p99 is a sample up to the rounding, at least     *)
(* that share of the samples is not above it, and the rest not below it.   *)
PercentilesCover ==
    \A pct \in {50, 95, 99} : samples # <<>> =>
        LET p == percentile(SortedLatencies, pct)
            n == Len(samples)
        IN  /\ \E i \in 1..n : Nearest(samples[i].duration, p)
            /\ 100 * Cardinality({i \in 1..n : round3(samples[i].duration) <= p}) >= pct * n
            /\ 100 * Cardinality({i \in 1..n : round3(samples[i].duration) >= p}) >= (100 - pct) * n

(* readyz answers 503 only if the database was down during the probe, or   *)
(* other requests held every connection of the pool; a Redis outage and    *)
(* the exceptions of earlier requests are no reason.                       *)
ReadinessHasCause ==
    \A r \in InProgress : req[r].status = 503 => req[r].down \/ req[r].full

(* A request stays unanswered only in a call of its own that PostgreSQL   *)
(* or Redis never answers: requests that hang with every connection of the *)
(* pool in hand keep nobody else, before a commit or after it.             *)
OnlyOwnCallsHang ==
    \A r \in Requests : []<>(req[r].pc = "idle") \/ <>[]Awaiting(r)

(* Every 5xx a client of an API endpoint gets is in the error rate of its  *)
(* tenant and endpoint (the metric that metrics.py says is collected).     *)
ErrorsCounted ==
    \A x \in Tenants \X (Endpoints \ {"readyz"}) : errors[x] = raised[x]
============================================================================
