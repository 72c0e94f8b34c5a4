------------------------------ MODULE Metrics ------------------------------
(***************************************************************************)
(* The in-process metrics of one instance (app/metrics.py).  Every update  *)
(* happens under the lock and without an await, and is one step.           *)
(*                                                                         *)
(* The two deques of evaluations are appended together and have the same   *)
(* bound; they are one sequence of samples.  Timestamps and the number of  *)
(* flags per evaluation are left out.                                      *)
(***************************************************************************)
EXTENDS Integers, Sequences, FiniteSets

CONSTANTS
    Tenants,        \* tenants, each with a valid API key
    MAX_SAMPLES,    \* the bound of the deques
    Grain           \* units of a latency per 0.001 ms

Endpoints == {"evaluate", "flags", "readyz"}

(* CorrelationMiddleware's fallbacks: the tenant of a request that was not *)
(* authenticated, and the endpoint of one that no route was matched for.   *)
Anonymous == "anonymous"
Unrouted == "path"

(* Tenants have UUIDs.                                                     *)
ASSUME MetricsAssumption ==
    /\ MAX_SAMPLES \in Nat \ {0} /\ Grain \in Nat \ {0}
    /\ Anonymous \notin Tenants

Labels == (Tenants \union {Anonymous}) \X (Endpoints \union {Unrouted})

VARIABLES
    samples,        \* _latencies and _evaluations: (duration, tenant)
    requests,       \* _requests[label]
    errors          \* _errors[label]

metricsVars == <<samples, requests, errors>>

MetricsInit ==
    /\ samples = <<>>
    /\ requests = [l \in Labels |-> 0]
    /\ errors = [l \in Labels |-> 0]

(* Mutant: a plain list in place of the deque.                             *)
Appended_Unbounded(q, x) == Append(q, x)

(* A full deque drops its oldest sample.                                   *)
Appended(q, x) ==
    IF Len(q) < MAX_SAMPLES THEN Append(q, x) ELSE Append(Tail(q), x)

record_evaluation(tenant_id, duration) ==
    /\ samples' = Appended(samples, [duration |-> duration, tenant |-> tenant_id])
    /\ UNCHANGED <<requests, errors>>

record_request(label, status) ==
    /\ requests' = [requests EXCEPT ![label] = @ + 1]
    /\ errors' = IF status >= 500 THEN [errors EXCEPT ![label] = @ + 1] ELSE errors
    /\ UNCHANGED samples

----------------------------------------------------------------------------
(* snapshot(): what GET /metrics computes from the state.                  *)

Latencies == [i \in 1..Len(samples) |-> samples[i].duration]

(* An order of the places of q in which its values do not decrease.        *)
Sorts(order, q) ==
    \A i, j \in DOMAIN q : i < j => order[i] # order[j] /\ q[order[i]] <= q[order[j]]

(* Python's sorted().                                                      *)
Sorted(q) ==
    LET order == CHOOSE p \in [DOMAIN q -> DOMAIN q] : Sorts(p, q)
    IN  [i \in DOMAIN q |-> q[order[i]]]

(* Mutant: the samples are taken in the order in which they arrived.       *)
SortedLatencies_Arrival == Latencies

SortedLatencies == Sorted(Latencies)

(* Mutant: the digits after the third are cut off.                         *)
round3_Cuts(x) == x \div Grain

(* Python's round(x, 3), in thousandths: to the nearest, half to even.     *)
round3(x) ==
    LET down == x \div Grain
        rest == x % Grain
    IN  IF 2 * rest < Grain \/ (2 * rest = Grain /\ down % 2 = 0) THEN down ELSE down + 1

(* No number of thousandths is nearer to x than k.                         *)
Nearest(x, k) == 2 * x <= (2 * k + 1) * Grain /\ 2 * x >= (2 * k - 1) * Grain

(* Mutant: the index is one too far.                                       *)
percentile_OffByOne(sorted, pct) ==
    LET n == Len(sorted)
        index == IF (n * pct) \div 100 + 1 < n - 1 THEN (n * pct) \div 100 + 1 ELSE n - 1
    IN  IF n = 0 THEN 0 ELSE round3(sorted[index + 1])

(* pct in percent; Python's index counts from 0.                           *)
percentile(sorted, pct) ==
    LET n == Len(sorted)
        index == IF (n * pct) \div 100 < n - 1 THEN (n * pct) \div 100 ELSE n - 1
    IN  IF n = 0 THEN 0 ELSE round3(sorted[index + 1])

(* The evaluations of a tenant that its rate is computed from.             *)
EvaluationsOf(t) == Cardinality({i \in 1..Len(samples) : samples[i].tenant = t})
============================================================================
