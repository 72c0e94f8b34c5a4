--------------------------- MODULE InstanceProofs ---------------------------
(***************************************************************************)
(* The connections, the readiness and the metrics of one instance, for     *)
(* every number of requests in progress, every pool and every outage.      *)
(***************************************************************************)
EXTENDS Instance, FiniteSetTheorems, TLAPS

----------------------------------------------------------------------------
(* The parts of the inductive invariant.                                   *)

(* What a request is and holds at each point of its life.                  *)
Slot(q) ==
    /\ q \in Request
    /\ q.pc \in {"idle", "limit", "session", "refresh"} => ~q.conn
    /\ q.endpoint = "readyz" => q.caller = NoKey
    /\ q.pc \in {"lookup", "load", "evaluate", "write", "refresh", "reread"} => q.tenant \in Tenants
    /\ q.pc # "idle" /\ q.status = 503 => q.down \/ q.full

Slots == req \in [Requests -> Request] /\ \A r \in Requests : Slot(req[r])

(* Every request in progress has seen the outage that is going on.         *)
OutageSeen == ~dbUp => \A r \in Requests : req[r].pc # "idle" => req[r].down

(* The pool counts the holders, and never beyond its limit.                *)
Pool == checkedout \in 0..PoolLimit /\ checkedout = Cardinality(Holders)

Counters ==
    /\ samples \in Seq([duration : Durations, tenant : Tenants]) /\ Len(samples) <= MAX_SAMPLES
    /\ requests \in [Labels -> Nat] /\ errors \in [Labels -> Nat]
    /\ arrived \in [Traffic -> Nat] /\ raised \in [Traffic -> Nat] /\ limited \in [Traffic -> Nat]
    /\ refused \in Nat

IInv == Slots /\ OutageSeen /\ Pool /\ Counters /\ dbUp \in BOOLEAN

----------------------------------------------------------------------------
(* Facts every step needs.                                                 *)

(* Editing fields of a request, one at a time and together.                *)
Steps == {"idle", "limit", "session", "query", "lookup", "load", "evaluate",
          "write", "refresh", "reread", "ping", "answer"}

Statuses == {200, 401, 403, 429, 503}

(* A request stays a request when one field is set.                        *)
LEMMA EditOne ==
    ASSUME NEW p \in Request
    PROVE  /\ \A x \in Steps : [p EXCEPT !.pc = x] \in Request
           /\ \A x \in Callers : [p EXCEPT !.caller = x] \in Request
           /\ \A x \in Endpoints : [p EXCEPT !.endpoint = x] \in Request
           /\ \A x \in Endpoints : [p EXCEPT !.route = x] \in Request
           /\ \A x \in Tenants : [p EXCEPT !.tenant = x] \in Request
           /\ \A x \in BOOLEAN : [p EXCEPT !.conn = x] \in Request
           /\ \A x \in Statuses : [p EXCEPT !.status = x] \in Request
           /\ \A x \in BOOLEAN : [p EXCEPT !.counted = x] \in Request
           /\ \A x \in BOOLEAN : [p EXCEPT !.down = x] \in Request
           /\ \A x \in BOOLEAN : [p EXCEPT !.full = x] \in Request
<1>1. \A x \in Steps : [p EXCEPT !.pc = x] \in Request
  BY DEF Request, Steps
<1>2. \A x \in Callers : [p EXCEPT !.caller = x] \in Request
  BY DEF Request
<1>3. \A x \in Endpoints : [p EXCEPT !.endpoint = x] \in Request
  BY DEF Request
<1>4. \A x \in Endpoints : [p EXCEPT !.route = x] \in Request
  BY DEF Request
<1>5. \A x \in Tenants : [p EXCEPT !.tenant = x] \in Request
  BY DEF Request
<1>6. \A x \in BOOLEAN : [p EXCEPT !.conn = x] \in Request
  BY DEF Request
<1>7. \A x \in Statuses : [p EXCEPT !.status = x] \in Request
  BY DEF Request, Statuses
<1>8. \A x \in BOOLEAN : [p EXCEPT !.counted = x] \in Request
  BY DEF Request
<1>9. \A x \in BOOLEAN : [p EXCEPT !.down = x] \in Request
  BY DEF Request
<1>10. \A x \in BOOLEAN : [p EXCEPT !.full = x] \in Request
  BY DEF Request
<1> QED
  BY <1>1, <1>2, <1>3, <1>4, <1>5, <1>6, <1>7, <1>8, <1>9, <1>10

(* A request stays a request when pc and another field are set.            *)
LEMMA EditTwo ==
    ASSUME NEW p \in Request, NEW step \in Steps
    PROVE  /\ \A x \in Statuses : [p EXCEPT !.pc = step, !.status = x] \in Request
           /\ \A x \in Tenants : [p EXCEPT !.pc = step, !.tenant = x] \in Request
           /\ \A x \in BOOLEAN : [p EXCEPT !.pc = step, !.conn = x] \in Request
<1> DEFINE m == [p EXCEPT !.pc = step]
<1>1. m \in Request
  BY EditOne
<1>2. /\ \A x \in Statuses : [p EXCEPT !.pc = step, !.status = x] = [m EXCEPT !.status = x]
      /\ \A x \in Tenants : [p EXCEPT !.pc = step, !.tenant = x] = [m EXCEPT !.tenant = x]
      /\ \A x \in BOOLEAN : [p EXCEPT !.pc = step, !.conn = x] = [m EXCEPT !.conn = x]
  BY DEF Request
<1> HIDE DEF m
<1>3. /\ \A x \in Statuses : [m EXCEPT !.status = x] \in Request
      /\ \A x \in Tenants : [m EXCEPT !.tenant = x] \in Request
      /\ \A x \in BOOLEAN : [m EXCEPT !.conn = x] \in Request
  BY <1>1, EditOne
<1> QED
  BY <1>2, <1>3

(* A request stays a request when its route is set as well.                *)
LEMMA EditRoute ==
    ASSUME NEW p \in Request, NEW step \in Steps, NEW route \in Endpoints
    PROVE  /\ \A x \in Statuses : [p EXCEPT !.pc = step, !.status = x, !.route = route] \in Request
           /\ \A x \in BOOLEAN : [p EXCEPT !.pc = step, !.conn = x, !.route = route] \in Request
<1> DEFINE m == [p EXCEPT !.route = route]
<1>1. m \in Request
  BY EditOne
<1>2. /\ \A x \in Statuses :
             [p EXCEPT !.pc = step, !.status = x, !.route = route] = [m EXCEPT !.pc = step, !.status = x]
      /\ \A x \in BOOLEAN :
             [p EXCEPT !.pc = step, !.conn = x, !.route = route] = [m EXCEPT !.pc = step, !.conn = x]
  BY ZenonT(60) DEF Request
<1> HIDE DEF m
<1>3. /\ \A x \in Statuses : [m EXCEPT !.pc = step, !.status = x] \in Request
      /\ \A x \in BOOLEAN : [m EXCEPT !.pc = step, !.conn = x] \in Request
  BY <1>1, EditTwo
<1> QED
  BY <1>2, <1>3

(* The request of an arrival is well formed.                               *)
LEMMA EditArrival ==
    ASSUME NEW p \in Request, NEW step \in Steps, NEW caller \in Callers,
           NEW endpoint \in Endpoints, NEW down \in BOOLEAN
    PROVE  [p EXCEPT !.pc = step, !.caller = caller, !.endpoint = endpoint, !.down = down] \in Request
<1> DEFINE m1 == [p EXCEPT !.down = down]
           m2 == [m1 EXCEPT !.endpoint = endpoint]
           m3 == [m2 EXCEPT !.caller = caller]
<1>1. [p EXCEPT !.pc = step, !.caller = caller, !.endpoint = endpoint, !.down = down]
          = [m3 EXCEPT !.pc = step]
  BY ZenonT(60) DEF Request
<1>2. m1 \in Request
  BY EditOne
<1> HIDE DEF m1
<1>3. m2 \in Request
  BY <1>2, EditOne
<1> HIDE DEF m2
<1>4. m3 \in Request
  BY <1>3, EditOne
<1> HIDE DEF m3
<1> QED
  BY <1>1, <1>4, EditOne

(* The request of a failed readiness probe is well formed.                 *)
LEMMA EditUnready ==
    ASSUME NEW p \in Request, NEW step \in Steps, NEW conn \in BOOLEAN, NEW status \in Statuses,
           NEW route \in Endpoints, NEW full \in BOOLEAN
    PROVE  [p EXCEPT !.pc = step, !.conn = conn, !.status = status, !.route = route, !.full = full]
               \in Request
<1> DEFINE m1 == [p EXCEPT !.full = full]
           m2 == [m1 EXCEPT !.route = route]
           m3 == [m2 EXCEPT !.status = status]
           m4 == [m3 EXCEPT !.conn = conn]
<1>1. [p EXCEPT !.pc = step, !.conn = conn, !.status = status, !.route = route, !.full = full]
          = [m4 EXCEPT !.pc = step]
  BY ZenonT(60) DEF Request
<1>2. m1 \in Request
  BY EditOne
<1> HIDE DEF m1
<1>3. m2 \in Request
  BY <1>2, EditOne
<1> HIDE DEF m2
<1>4. m3 \in Request
  BY <1>3, EditOne
<1> HIDE DEF m3
<1>5. m4 \in Request
  BY <1>4, EditOne
<1> HIDE DEF m4
<1> QED
  BY <1>1, <1>5, EditOne

(* A free slot is in order and holds no connection.                        *)
LEMMA IdleIsSlot == Slot(Idle) /\ Idle.pc = "idle" /\ Idle.conn = FALSE
BY DEF Idle, Slot, Request, Callers, Endpoints, Unrouted, Anonymous

(* The holders of connections are finitely many.                           *)
LEMMA HoldersCounted ==
    ASSUME Slots
    PROVE  IsFiniteSet(Holders) /\ Cardinality(Holders) \in Nat
<1>1. Holders \subseteq Requests /\ IsFiniteSet(Requests)
  BY InstanceAssumption DEF Holders
<1>2. IsFiniteSet(Holders)
  BY <1>1, FS_Subset
<1> QED
  BY <1>2, FS_CardinalityType

(* Request r is the only one that changes.                                 *)
OnlyRequest(r) ==
    /\ DOMAIN req' = Requests
    /\ req' = [s \in Requests |-> req'[s]]
    /\ \A s \in Requests : s # r => req'[s] = req[s]

(* Become changes one request.                                             *)
LEMMA Becomes ==
    ASSUME Slots, NEW r \in Requests, NEW q, Become(r, q)
    PROVE  OnlyRequest(r) /\ req'[r] = q
BY DEF Slots, Become, OnlyRequest

(* The pool over the step of one request: it keeps, releases or takes its  *)
(* connection.                                                             *)
Connection(r) ==
    \/ checkedout' = checkedout /\ (req'[r].conn <=> req[r].conn)
    \/ checkedout' = checkedout - 1 /\ req[r].conn /\ ~req'[r].conn
    \/ checkedout' = checkedout + 1 /\ ~req[r].conn /\ req'[r].conn /\ checkedout < PoolLimit

(* The pool keeps counting the holders when one request keeps, releases or *)
(* takes its connection.                                                   *)
LEMMA PoolStep ==
    ASSUME Slots, Pool, NEW r \in Requests, OnlyRequest(r), Connection(r)
    PROVE  Pool'
<1>1. IsFiniteSet(Holders) /\ Cardinality(Holders) \in Nat
  BY HoldersCounted
<1>2. \A s \in Requests : s # r => (s \in Holders' <=> s \in Holders)
  BY DEF OnlyRequest, Holders
<1>3. Holders \subseteq Requests /\ Holders' \subseteq Requests
  BY DEF Holders
<1>4. (r \in Holders <=> req[r].conn) /\ (r \in Holders' <=> req'[r].conn)
  BY DEF Holders
<1>5. checkedout \in 0..PoolLimit /\ checkedout = Cardinality(Holders) /\ PoolLimit \in Nat
  BY InstanceAssumption DEF Pool
<1>6. CASE checkedout' = checkedout /\ (req'[r].conn <=> req[r].conn)
  <2>1. Holders' = Holders
    BY <1>2, <1>3, <1>4, <1>6
  <2> QED
    BY <1>5, <1>6, <2>1 DEF Pool
<1>7. CASE checkedout' = checkedout - 1 /\ req[r].conn /\ ~req'[r].conn
  <2>1. r \in Holders /\ Holders' = Holders \ {r}
    BY <1>2, <1>3, <1>4, <1>7
  <2>2. Cardinality(Holders \ {r}) = Cardinality(Holders) - 1
    BY <1>1, <2>1, FS_RemoveElement
  <2>3. Cardinality(Holders \ {r}) \in Nat
    BY <1>1, FS_RemoveElement, FS_CardinalityType
  <2>4. Cardinality(Holders') = Cardinality(Holders) - 1 /\ Cardinality(Holders') \in Nat
    BY <2>1, <2>2, <2>3
  <2> QED
    BY <1>5, <1>7, <2>4 DEF Pool
<1>8. CASE checkedout' = checkedout + 1 /\ ~req[r].conn /\ req'[r].conn /\ checkedout < PoolLimit
  <2>1. r \notin Holders /\ Holders' = Holders \union {r}
    BY <1>2, <1>3, <1>4, <1>8
  <2>2. Cardinality(Holders \union {r}) = Cardinality(Holders) + 1
    BY <1>1, <2>1, FS_AddElement
  <2>3. Cardinality(Holders') = Cardinality(Holders) + 1
    BY <2>1, <2>2
  <2> QED
    BY <1>5, <1>8, <2>3 DEF Pool
<1> QED
  BY <1>6, <1>7, <1>8 DEF Connection

(* A step of one request that leaves its slot in order keeps the slots,    *)
(* the pool and the knowledge of an outage in order.                       *)
LEMMA RequestKeeps ==
    ASSUME IInv, NEW r \in Requests, NEW q, Become(r, q), Slot(q), dbUp' = dbUp,
           ~dbUp /\ q.pc # "idle" => q.down,
           Connection(r), Counters'
    PROVE  IInv'
<1>1. OnlyRequest(r) /\ req'[r] = q
  BY Becomes DEF IInv
<1>2. Slots'
  <2>1. \A s \in Requests : Slot(req'[s])
    BY <1>1 DEF IInv, Slots, OnlyRequest
  <2>2. \A s \in Requests : req'[s] \in Request
    BY <2>1 DEF Slot
  <2>3. req' \in [Requests -> Request]
    BY <1>1, <2>2 DEF OnlyRequest
  <2> QED
    BY <2>1, <2>3 DEF Slots
<1>3. OutageSeen'
  BY <1>1 DEF IInv, OutageSeen, OnlyRequest
<1>4. Pool'
  BY <1>1, PoolStep DEF IInv
<1> QED
  BY <1>2, <1>3, <1>4 DEF IInv

----------------------------------------------------------------------------
(* The counters.                                                           *)

(* A step that leaves metrics and tallies alone keeps their types.         *)
LEMMA CountersKept ==
    ASSUME Counters, UNCHANGED metricsVars, UNCHANGED tallies
    PROVE  Counters'
BY DEF Counters, metricsVars, tallies

(* Incrementing a tally keeps its type.                                    *)
LEMMA TallyTypes ==
    ASSUME NEW f \in [Traffic -> Nat], NEW x \in Traffic
    PROVE  [f EXCEPT ![x] = @ + 1] \in [Traffic -> Nat]
OBVIOUS

(* A request counts toward a known caller and endpoint.                    *)
LEMMA KeyType ==
    ASSUME NEW r \in Requests, Slots
    PROVE  Key(r) \in Traffic
BY DEF Slots, Key, Traffic, Request

(* A deque never outgrows its bound.                                       *)
LEMMA AppendedTypes ==
    ASSUME NEW S, NEW q \in Seq(S), NEW x \in S, Len(q) <= MAX_SAMPLES
    PROVE  Appended(q, x) \in Seq(S) /\ Len(Appended(q, x)) <= MAX_SAMPLES
<1>1. MAX_SAMPLES \in Nat \ {0}
  BY MetricsAssumption
<1>2. CASE Len(q) < MAX_SAMPLES
  BY <1>1, <1>2 DEF Appended
<1>3. CASE ~(Len(q) < MAX_SAMPLES)
  <2>1. q # <<>> /\ Tail(q) \in Seq(S) /\ Len(Tail(q)) = Len(q) - 1
    BY <1>1, <1>3
  <2> QED
    BY <1>1, <1>3, <2>1 DEF Appended
<1> QED
  BY <1>2, <1>3

----------------------------------------------------------------------------
(* The steps of a request.                                                 *)

(* A step within the handler that takes and releases no connection.        *)
LEMMA MoveStep ==
    ASSUME IInv, NEW r \in Requests, NEW q \in Request, Become(r, q), Slot(q),
           req[r].pc # "idle", q.conn = req[r].conn, q.down = req[r].down,
           UNCHANGED <<checkedout, dbUp>>, Counters'
    PROVE  IInv'
<1>1. Connection(r)
  <2>1. req'[r] = q
    BY Becomes DEF IInv
  <2> QED
    BY <2>1 DEF Connection
<1>2. ~dbUp /\ q.pc # "idle" => q.down
  BY DEF IInv, OutageSeen
<1> QED
  BY <1>1, <1>2, RequestKeeps

(* The arrival of a request keeps the invariant.                           *)
LEMMA ArriveStep ==
    ASSUME IInv, NEW r \in Requests, NEW caller \in Callers, NEW endpoint \in Endpoints,
           Arrive(r, caller, endpoint)
    PROVE  IInv'
<1> DEFINE step == IF caller = NoKey THEN "session" ELSE "limit"
<1>1. PICK b \in BOOLEAN : b = ~dbUp
  BY Zenon DEF IInv
<1> DEFINE q == [Idle EXCEPT !.pc = step, !.caller = caller, !.endpoint = endpoint, !.down = b]
<1>2. Become(r, q)
  BY <1>1, Zenon DEF Arrive
<1>3. /\ At(r, "idle") /\ (endpoint = "readyz" => caller = NoKey)
      /\ arrived' = [arrived EXCEPT ![<<caller, endpoint>>] = @ + 1]
      /\ UNCHANGED <<metricsVars, checkedout, dbUp, raised, limited, refused>>
  BY DEF Arrive
<1>5. step \in {"session", "limit"}
  OBVIOUS
<1> HIDE DEF step
<1>4. /\ q.pc = step /\ q.caller = caller /\ q.endpoint = endpoint /\ q.down = b
      /\ q.conn = FALSE /\ q.status = 200 /\ q \in Request
  <2>1. Idle \in Request /\ Idle.conn = FALSE /\ Idle.status = 200
    BY IdleIsSlot DEF Slot, Idle
  <2> HIDE DEF Idle
  <2>2. step \in Steps
    BY <1>5 DEF Steps
  <2>3. q \in Request
    <3>1. PICK p \in Request : p = Idle
      BY <2>1
    <3>2. [p EXCEPT !.pc = step, !.caller = caller, !.endpoint = endpoint, !.down = b] \in Request
      BY <2>2, EditArrival
    <3> QED
      BY <3>1, <3>2
  <2>4. /\ q.pc = step /\ q.caller = caller /\ q.endpoint = endpoint /\ q.down = b
        /\ q.conn = Idle.conn /\ q.status = Idle.status
    BY <2>1 DEF Request
  <2> QED
    BY <2>1, <2>3, <2>4
<1> HIDE DEF q
<1>6. Slot(q)
  BY <1>3, <1>4, <1>5 DEF Slot
<1>7. Connection(r)
  <2>1. req'[r] = q
    BY <1>2, Becomes DEF IInv
  <2>2. ~req[r].conn
    BY <1>3 DEF At, IInv, Slots, Slot
  <2> QED
    BY <1>3, <1>4, <2>1, <2>2 DEF Connection
<1>8. Counters'
  <2>1. <<caller, endpoint>> \in Traffic
    BY DEF Traffic
  <2>2. arrived' \in [Traffic -> Nat]
    BY <1>3, <2>1, TallyTypes DEF IInv, Counters
  <2> QED
    BY <1>3, <2>2 DEF IInv, Counters, metricsVars
<1>9. ~dbUp /\ q.pc # "idle" => q.down
  BY <1>1, <1>4
<1> QED
  BY <1>2, <1>3, <1>6, <1>7, <1>8, <1>9, RequestKeeps

(* The steps that change the program counter alone.                        *)
LEMMA GotoStep ==
    ASSUME IInv, NEW r \in Requests, NEW step, Goto(r, step),
           req[r].pc # "idle",
           \/ step = "session" /\ req[r].pc = "limit"
           \/ step \in {"load", "evaluate"} /\ req[r].pc \in {"lookup", "load"},
           UNCHANGED <<metricsVars, checkedout, dbUp, tallies>>
    PROVE  IInv'
<1> DEFINE q == [req[r] EXCEPT !.pc = step]
<1>1. Become(r, q)
  BY DEF Goto
<1>2. Slot(req[r]) /\ req[r] \in Request
  BY DEF IInv, Slots
<1>3. /\ q \in Request /\ q.pc = step /\ q.conn = req[r].conn /\ q.down = req[r].down
      /\ q.endpoint = req[r].endpoint /\ q.caller = req[r].caller /\ q.tenant = req[r].tenant
      /\ q.status = req[r].status /\ q.full = req[r].full
  BY <1>2 DEF Request
<1> HIDE DEF q
<1>4. Slot(q)
  BY <1>2, <1>3 DEF Slot
<1>5. Counters'
  BY CountersKept DEF IInv
<1> QED
  BY <1>1, <1>3, <1>4, <1>5, MoveStep

(* The steps that answer without touching the connection.                  *)
LEMMA AnswerStep ==
    ASSUME IInv, NEW r \in Requests, NEW status, Answer(r, status),
           req[r].pc # "idle",
           status \in {200, 401, 403, 429} \/ status = req[r].status,
           UNCHANGED <<checkedout, dbUp>>, Counters'
    PROVE  IInv'
<1> DEFINE q == [req[r] EXCEPT !.pc = "answer", !.status = status]
<1>1. Become(r, q)
  BY DEF Answer
<1>2. Slot(req[r]) /\ req[r] \in Request
  BY DEF IInv, Slots
<1>3. /\ q \in Request /\ q.pc = "answer" /\ q.conn = req[r].conn /\ q.down = req[r].down
      /\ q.endpoint = req[r].endpoint /\ q.caller = req[r].caller
      /\ q.status = status /\ q.full = req[r].full
  <2>1. status \in Statuses /\ "answer" \in Steps
    BY <1>2 DEF Request, Statuses, Steps
  <2>2. q \in Request
    BY <1>2, <2>1, EditTwo
  <2>3. /\ q.pc = "answer" /\ q.conn = req[r].conn /\ q.down = req[r].down
        /\ q.endpoint = req[r].endpoint /\ q.caller = req[r].caller
        /\ q.status = status /\ q.full = req[r].full
    BY <1>2 DEF Request
  <2> QED
    BY <2>2, <2>3
<1> HIDE DEF q
<1>4. Slot(q)
  BY <1>2, <1>3 DEF Slot
<1> QED
  BY <1>1, <1>3, <1>4, MoveStep

(* A 429 keeps the invariant.                                              *)
LEMMA RateLimitedStep ==
    ASSUME IInv, NEW r \in Requests, RateLimited(r)
    PROVE  IInv'
<1>1. limited' = [limited EXCEPT ![Key(r)] = @ + 1] /\ limited' \in [Traffic -> Nat]
  <2>1. Key(r) \in Traffic /\ limited \in [Traffic -> Nat]
    BY KeyType DEF IInv, Counters
  <2>2. limited' = [limited EXCEPT ![Key(r)] = @ + 1]
    BY DEF RateLimited
  <2> QED
    BY <2>1, <2>2, TallyTypes
<1>2. Counters'
  BY <1>1 DEF RateLimited, IInv, Counters, metricsVars
<1>3. /\ Answer(r, 429) /\ req[r].pc # "idle" /\ UNCHANGED <<checkedout, dbUp>>
  BY DEF RateLimited, At
<1> QED
  BY <1>2, <1>3, AnswerStep

(* A 401 without a session keeps the invariant.                            *)
LEMMA UnauthenticatedStep ==
    ASSUME IInv, NEW r \in Requests, Unauthenticated(r)
    PROVE  IInv'
<1> DEFINE q == [req[r] EXCEPT !.pc = "answer", !.status = 401, !.route = req[r].endpoint]
<1>1. /\ Become(r, q) /\ req[r].pc = "session"
      /\ UNCHANGED <<metricsVars, checkedout, dbUp, tallies>>
  BY DEF Unauthenticated, At
<1>2. Slot(req[r]) /\ req[r] \in Request /\ req[r].endpoint \in Endpoints
  BY DEF IInv, Slots, Request
<1>3. q \in Request
  <2>1. PICK step \in Steps, status \in Statuses : step = "answer" /\ status = 401
    BY DEF Steps, Statuses
  <2>2. PICK here \in Endpoints : here = req[r].endpoint
    BY <1>2
  <2>3. [req[r] EXCEPT !.pc = step, !.status = status, !.route = here] \in Request
    BY <1>2, EditRoute
  <2> QED
    BY <2>1, <2>2, <2>3, Zenon
<1>4. /\ q.pc = "answer" /\ q.conn = req[r].conn /\ q.down = req[r].down
      /\ q.endpoint = req[r].endpoint /\ q.caller = req[r].caller /\ q.status = 401
  BY <1>2 DEF Request
<1> HIDE DEF q
<1>5. Slot(q)
  BY <1>2, <1>3, <1>4 DEF Slot
<1>6. Counters'
  BY <1>1, CountersKept DEF IInv
<1> QED
  BY <1>1, <1>3, <1>4, <1>5, <1>6, MoveStep

(* The lookup of the key keeps the invariant.                              *)
LEMMA AuthenticateStep ==
    ASSUME IInv, NEW r \in Requests, Authenticate(r)
    PROVE  IInv'
<1> DEFINE step == HandlerOf(req[r].endpoint)
           q == [req[r] EXCEPT !.pc = step, !.tenant = req[r].caller]
<1>1. /\ Become(r, q) /\ req[r].pc = "query" /\ req[r].caller \in Tenants
      /\ UNCHANGED <<metricsVars, checkedout, dbUp, tallies>>
  BY DEF Authenticate, At
<1>2. Slot(req[r]) /\ req[r] \in Request
  BY DEF IInv, Slots
<1>3. step \in Steps /\ step \in {"lookup", "write"}
  BY DEF HandlerOf, Steps
<1> HIDE DEF step
<1>4. q \in Request
  BY <1>1, <1>2, <1>3, EditTwo
<1>5. /\ q.pc = step /\ q.conn = req[r].conn /\ q.down = req[r].down /\ q.full = req[r].full
      /\ q.endpoint = req[r].endpoint /\ q.caller = req[r].caller /\ q.status = req[r].status
      /\ q.tenant = req[r].caller
  BY <1>2 DEF Request
<1> HIDE DEF q
<1>6. Slot(q)
  BY <1>1, <1>2, <1>3, <1>4, <1>5 DEF Slot
<1>7. Counters'
  BY <1>1, CountersKept DEF IInv
<1> QED
  BY <1>1, <1>4, <1>5, <1>6, <1>7, MoveStep

(* What a checkout leads to.                                               *)
LEMMA CheckedOut ==
    ASSUME NEW r \in Requests, CheckOut(r)
    PROVE  \E step \in {"query", "reread"} :
               /\ Become(r, [req[r] EXCEPT !.pc = step, !.conn = TRUE, !.route = req[r].endpoint])
               /\ \/ step = "query" /\ req[r].pc = "session"
                  \/ step = "reread" /\ req[r].pc = "refresh"
<1> DEFINE step == IF At(r, "refresh") THEN "reread" ELSE "query"
<1>1. Become(r, [req[r] EXCEPT !.pc = step, !.conn = TRUE, !.route = req[r].endpoint])
  BY Zenon DEF CheckOut
<1>2. \/ step = "query" /\ req[r].pc = "session"
      \/ step = "reread" /\ req[r].pc = "refresh"
  BY DEF CheckOut, WantsConnection, At
<1> HIDE DEF step
<1> QED
  BY <1>1, <1>2

(* Taking a connection from the pool keeps the invariant.                  *)
LEMMA CheckOutStep ==
    ASSUME IInv, NEW r \in Requests, CheckOut(r)
    PROVE  IInv'
<1>0. PICK step \in {"query", "reread"} :
          /\ Become(r, [req[r] EXCEPT !.pc = step, !.conn = TRUE, !.route = req[r].endpoint])
          /\ \/ step = "query" /\ req[r].pc = "session"
             \/ step = "reread" /\ req[r].pc = "refresh"
  BY CheckedOut
<1> DEFINE q == [req[r] EXCEPT !.pc = step, !.conn = TRUE, !.route = req[r].endpoint]
<1>1. /\ Become(r, q) /\ req[r].pc # "idle"
      /\ checkedout < PoolLimit /\ checkedout' = checkedout + 1
      /\ UNCHANGED <<metricsVars, dbUp, tallies>>
  BY <1>0 DEF CheckOut
<1>2. Slot(req[r]) /\ req[r] \in Request /\ req[r].endpoint \in Endpoints
  BY DEF IInv, Slots, Request
<1>3. q \in Request
  <2>1. step \in Steps
    BY DEF Steps
  <2> QED
    BY <1>2, <2>1, EditRoute
<1>4. /\ q.pc = step /\ q.conn = TRUE /\ q.down = req[r].down /\ q.full = req[r].full
      /\ q.endpoint = req[r].endpoint /\ q.caller = req[r].caller /\ q.status = req[r].status
      /\ q.tenant = req[r].tenant
  BY <1>2 DEF Request
<1> HIDE DEF q
<1>5. Slot(q)
  BY <1>0, <1>2, <1>3, <1>4 DEF Slot
<1>6. Counters'
  BY <1>1, CountersKept DEF IInv
<1>7. Connection(r)
  <2>1. req'[r] = q
    BY <1>1, Becomes DEF IInv
  <2>2. ~req[r].conn
    BY <1>0, <1>2 DEF Slot
  <2> QED
    BY <1>1, <1>4, <2>1, <2>2 DEF Connection
<1>8. dbUp' = dbUp
  BY <1>1
<1>9. ~dbUp => q.down
  BY <1>1, <1>4 DEF IInv, OutageSeen
<1> QED
  BY <1>1, <1>5, <1>6, <1>7, <1>8, <1>9, RequestKeeps

(* A request that gives its connection back, if it has one.                *)
LEMMA ReleaseConnection ==
    ASSUME IInv, NEW r \in Requests, checkedout' = Released(r), ~req'[r].conn
    PROVE  Connection(r)
<1>1. CASE req[r].conn
  BY <1>1 DEF Released, Connection
<1>2. CASE ~req[r].conn
  BY <1>2 DEF Released, Connection
<1> QED
  BY <1>1, <1>2

(* What the end of a transaction leads to: SELECT 1 of the probe, the      *)
(* rollback of a 409 and the commit of a change.                           *)
LEMMA TransactionEnds ==
    ASSUME NEW r \in Requests, SelectOne(r) \/ Conflict(r) \/ CommitFlags(r)
    PROVE  \E step \in {"ping", "answer", "refresh"} :
               /\ Become(r, [req[r] EXCEPT !.pc = step, !.conn = FALSE])
               /\ \/ step = "ping" /\ req[r].pc = "query" /\ req[r].endpoint = "readyz"
                  \/ step # "ping" /\ req[r].pc = "write"
BY DEF SelectOne, Conflict, CommitFlags, At

(* The end of a transaction keeps the invariant.                           *)
LEMMA ReleaseStep ==
    ASSUME IInv, NEW r \in Requests, SelectOne(r) \/ Conflict(r) \/ CommitFlags(r)
    PROVE  IInv'
<1>0. PICK step \in {"ping", "answer", "refresh"} :
          /\ Become(r, [req[r] EXCEPT !.pc = step, !.conn = FALSE])
          /\ \/ step = "ping" /\ req[r].pc = "query" /\ req[r].endpoint = "readyz"
             \/ step # "ping" /\ req[r].pc = "write"
  BY TransactionEnds
<1> DEFINE q == [req[r] EXCEPT !.pc = step, !.conn = FALSE]
<1>1. /\ Become(r, q) /\ dbUp
      /\ checkedout' = Released(r)
      /\ UNCHANGED <<metricsVars, dbUp, tallies>>
  BY <1>0 DEF SelectOne, Conflict, CommitFlags
<1>2. Slot(req[r]) /\ req[r] \in Request
  BY DEF IInv, Slots
<1>3. q \in Request
  <2>1. step \in Steps
    BY DEF Steps
  <2> QED
    BY <1>2, <2>1, EditTwo
<1>4. /\ q.pc = step /\ q.conn = FALSE /\ q.down = req[r].down /\ q.full = req[r].full
      /\ q.endpoint = req[r].endpoint /\ q.caller = req[r].caller /\ q.status = req[r].status
      /\ q.tenant = req[r].tenant
  BY <1>2 DEF Request
<1> HIDE DEF q
<1>5. Slot(q)
  BY <1>0, <1>2, <1>3, <1>4 DEF Slot
<1>6. Counters'
  BY <1>1, CountersKept DEF IInv
<1>7. Connection(r)
  <2>1. req'[r] = q
    BY <1>1, Becomes DEF IInv
  <2> QED
    BY <1>1, <1>4, <2>1, ReleaseConnection
<1>8. dbUp' = dbUp
  BY <1>1
<1> QED
  BY <1>1, <1>5, <1>6, <1>7, <1>8, RequestKeeps

(* An exception has a cause: the database was down, or the pool is in use. *)
LEMMA RaiseStep ==
    ASSUME IInv, NEW r \in Requests, Raise(r), req[r].pc # "idle",
           req[r].down \/ checkedout = PoolLimit
    PROVE  IInv'
<1>1. checkedout' = Released(r) /\ UNCHANGED <<metricsVars, dbUp, arrived, limited, refused>>
  BY DEF Raise
<1>2. Slot(req[r]) /\ req[r] \in Request /\ req[r].endpoint \in Endpoints
  BY DEF IInv, Slots, Request
<1>3. CASE req[r].endpoint = "readyz"
  <2>1. PICK b \in BOOLEAN : b = (Cardinality(Holders) = PoolLimit)
    BY Zenon
  <2> DEFINE q == [req[r] EXCEPT !.pc = "ping", !.conn = FALSE, !.status = 503,
                                 !.route = req[r].endpoint, !.full = b]
  <2>2. Become(r, q) /\ UNCHANGED raised
    BY <1>3, <2>1, Zenon DEF Raise, Unready
  <2>3. q \in Request
    <3>1. "ping" \in Steps /\ 503 \in Statuses
      BY DEF Steps, Statuses
    <3>2. PICK no \in BOOLEAN : no = FALSE
      BY Zenon
    <3>3. PICK step \in Steps, status \in Statuses : step = "ping" /\ status = 503
      BY <3>1
    <3>4. [req[r] EXCEPT !.pc = step, !.conn = no, !.status = status,
                         !.route = req[r].endpoint, !.full = b] \in Request
      BY <1>2, EditUnready
    <3> QED
      BY <3>2, <3>3, <3>4, Zenon
  <2>4. /\ q.pc = "ping" /\ q.conn = FALSE /\ q.down = req[r].down /\ q.full = b
        /\ q.endpoint = req[r].endpoint /\ q.caller = req[r].caller
    BY <1>2 DEF Request
  <2> HIDE DEF q
  <2>5. req[r].down \/ b
    BY <2>1 DEF IInv, Pool
  <2>6. Slot(q)
    BY <1>2, <2>3, <2>4, <2>5 DEF Slot
  <2>7. Counters'
    BY <1>1, <2>2, CountersKept DEF IInv, tallies
  <2>8. Connection(r)
    <3>1. req'[r] = q
      BY <2>2, Becomes DEF IInv
    <3> QED
      BY <1>1, <2>4, <3>1, ReleaseConnection
  <2>9. ~dbUp => q.down
    BY <2>4 DEF IInv, OutageSeen
  <2>10. dbUp' = dbUp
    BY <1>1
  <2> QED
    BY <2>2, <2>6, <2>7, <2>8, <2>9, <2>10, RequestKeeps
<1>4. CASE req[r].endpoint # "readyz"
  <2>1. Become(r, Idle) /\ raised' = [raised EXCEPT ![Key(r)] = @ + 1]
    BY <1>4 DEF Raise
  <2>2. raised' \in [Traffic -> Nat]
    <3>1. Key(r) \in Traffic /\ raised \in [Traffic -> Nat]
      BY KeyType DEF IInv, Counters
    <3> QED
      BY <2>1, <3>1, TallyTypes
  <2>3. Counters'
    BY <1>1, <2>2 DEF IInv, Counters, metricsVars
  <2>4. Slot(Idle) /\ Idle.pc = "idle" /\ Idle.conn = FALSE
    BY IdleIsSlot
  <2>5. Connection(r)
    <3>1. req'[r] = Idle
      BY <2>1, Becomes DEF IInv
    <3> QED
      BY <1>1, <2>4, <3>1, ReleaseConnection
  <2>6. dbUp' = dbUp
    BY <1>1
  <2> QED
    BY <2>1, <2>3, <2>4, <2>5, <2>6, RequestKeeps
<1> QED
  BY <1>3, <1>4

(* A failed checkout or statement keeps the invariant.                     *)
LEMMA FailureSteps ==
    ASSUME IInv, NEW r \in Requests, CheckOutFails(r) \/ StatementFails(r)
    PROVE  IInv'
<1>1. req[r].pc # "idle" /\ Raise(r)
  BY DEF CheckOutFails, StatementFails, WantsConnection, At
<1>2. req[r].down \/ checkedout = PoolLimit
  BY <1>1 DEF CheckOutFails, StatementFails, IInv, OutageSeen
<1> QED
  BY <1>1, <1>2, RaiseStep

(* An evaluation and its sample keep the invariant.                        *)
LEMMA EvaluateStep ==
    ASSUME IInv, NEW r \in Requests, NEW d \in Durations, Evaluate(r, d)
    PROVE  IInv'
<1>1. /\ req[r].pc = "evaluate" /\ Answer(r, 200) /\ UNCHANGED <<checkedout, dbUp, tallies>>
      /\ samples' = Appended(samples, [duration |-> d, tenant |-> req[r].tenant])
      /\ UNCHANGED <<requests, errors>>
  BY DEF Evaluate, At, record_evaluation
<1>2. req[r].tenant \in Tenants
  BY <1>1 DEF IInv, Slots, Slot
<1> DEFINE Sample == [duration : Durations, tenant : Tenants]
           x == [duration |-> d, tenant |-> req[r].tenant]
<1>3. x \in Sample
  BY <1>2
<1>4. samples \in Seq(Sample) /\ Len(samples) <= MAX_SAMPLES
  BY DEF IInv, Counters
<1>5. samples' = Appended(samples, x)
  BY <1>1
<1> HIDE DEF x, Sample
<1>6. samples' \in Seq(Sample) /\ Len(samples') <= MAX_SAMPLES
  BY <1>3, <1>4, <1>5, AppendedTypes
<1>7. Counters'
  BY <1>1, <1>6 DEF IInv, Counters, tallies, Sample
<1> QED
  BY <1>1, <1>7, AnswerStep

(* The last steps of a request leave a slot that is free or in order.      *)
LEMMA LeftIsSlot ==
    ASSUME NEW q, Slot(q), q.pc = "answer"
    PROVE  /\ Slot(Left(q)) /\ (Left(q).conn <=> q.conn)
           /\ Left(q).pc # "idle" => Left(q) = q
<1>1. CASE q.counted /\ ~q.conn
  BY <1>1, IdleIsSlot DEF Left
<1>2. CASE ~(q.counted /\ ~q.conn)
  BY <1>2 DEF Left
<1> QED
  BY <1>1, <1>2

(* Closing the session keeps the invariant.                                *)
LEMMA CloseSessionStep ==
    ASSUME IInv, NEW r \in Requests, CloseSession(r)
    PROVE  IInv'
<1> DEFINE q == [req[r] EXCEPT !.conn = FALSE]
<1>1. /\ Become(r, Left(q)) /\ req[r].pc = "answer"
      /\ checkedout' = Released(r)
      /\ UNCHANGED <<metricsVars, dbUp, tallies>>
  BY DEF CloseSession, At
<1>2. Slot(req[r]) /\ req[r] \in Request
  BY DEF IInv, Slots
<1>3. q \in Request
  BY <1>2, EditOne
<1>4. /\ q.pc = "answer" /\ q.conn = FALSE /\ q.down = req[r].down /\ q.full = req[r].full
      /\ q.endpoint = req[r].endpoint /\ q.caller = req[r].caller /\ q.status = req[r].status
  BY <1>1, <1>2 DEF Request
<1> HIDE DEF q
<1>5. Slot(q)
  BY <1>1, <1>2, <1>3, <1>4 DEF Slot
<1>6. /\ Slot(Left(q)) /\ ~Left(q).conn /\ (Left(q).pc # "idle" => Left(q) = q)
  BY <1>4, <1>5, LeftIsSlot
<1>7. Counters'
  BY <1>1, CountersKept DEF IInv
<1> HIDE DEF Left
<1>8. Connection(r)
  <2>1. req'[r] = Left(q)
    BY <1>1, Becomes DEF IInv
  <2> QED
    BY <1>1, <1>6, <2>1, ReleaseConnection
<1>9. ~dbUp /\ Left(q).pc # "idle" => Left(q).down
  BY <1>1, <1>4, <1>6 DEF IInv, OutageSeen
<1>10. dbUp' = dbUp
  BY <1>1
<1> QED
  BY <1>1, <1>6, <1>7, <1>8, <1>9, <1>10, RequestKeeps

(* Recording the request keeps the invariant.                              *)
LEMMA RecordRequestStep ==
    ASSUME IInv, NEW r \in Requests, RecordRequest(r)
    PROVE  IInv'
<1> DEFINE q == [req[r] EXCEPT !.counted = TRUE]
           label == <<req[r].tenant, req[r].route>>
<1>1. /\ Become(r, Left(q)) /\ req[r].pc = "answer"
      /\ record_request(label, req[r].status)
      /\ UNCHANGED <<checkedout, dbUp, tallies>>
  BY DEF RecordRequest, At
<1>2. Slot(req[r]) /\ req[r] \in Request
  BY DEF IInv, Slots
<1>3. q \in Request
  BY <1>2, EditOne
<1>4. /\ q.pc = "answer" /\ q.conn = req[r].conn /\ q.down = req[r].down /\ q.full = req[r].full
      /\ q.endpoint = req[r].endpoint /\ q.caller = req[r].caller /\ q.status = req[r].status
  BY <1>1, <1>2 DEF Request
<1> HIDE DEF q
<1>5. Slot(q)
  BY <1>1, <1>2, <1>3, <1>4 DEF Slot
<1>6. /\ Slot(Left(q)) /\ (Left(q).conn <=> req[r].conn) /\ (Left(q).pc # "idle" => Left(q) = q)
  BY <1>4, <1>5, LeftIsSlot
<1>7. Counters'
  <2>1. label \in Labels
    BY <1>2 DEF Labels, Request
  <2>2. /\ requests \in [Labels -> Nat] /\ errors \in [Labels -> Nat]
    BY DEF IInv, Counters
  <2> HIDE DEF label
  <2>3. /\ requests' = [requests EXCEPT ![label] = @ + 1]
        /\ errors' = (IF req[r].status >= 500 THEN [errors EXCEPT ![label] = @ + 1] ELSE errors)
        /\ samples' = samples
    BY <1>1 DEF record_request
  <2>4. requests' \in [Labels -> Nat] /\ errors' \in [Labels -> Nat]
    BY <2>1, <2>2, <2>3
  <2> QED
    BY <1>1, <2>3, <2>4 DEF IInv, Counters, tallies
<1> HIDE DEF Left
<1>8. Connection(r)
  <2>1. req'[r] = Left(q)
    BY <1>1, Becomes DEF IInv
  <2> QED
    BY <1>1, <1>6, <2>1 DEF Connection
<1>9. ~dbUp /\ Left(q).pc # "idle" => Left(q).down
  BY <1>1, <1>4, <1>6 DEF IInv, OutageSeen
<1>10. dbUp' = dbUp
  BY <1>1
<1> QED
  BY <1>1, <1>6, <1>7, <1>8, <1>9, <1>10, RequestKeeps

----------------------------------------------------------------------------
(* PostgreSQL comes and goes.                                              *)

(* The start of an outage keeps the invariant: everyone in progress sees   *)
(* it.                                                                     *)
LEMMA DatabaseFailsStep ==
    ASSUME IInv, DatabaseFails
    PROVE  IInv'
<1>1. /\ dbUp' = FALSE /\ req' = [r \in Requests |-> [req[r] EXCEPT !.down = r \in InProgress]]
      /\ UNCHANGED <<metricsVars, checkedout, tallies>>
  BY DEF DatabaseFails
<1>2. ASSUME NEW r \in Requests
      PROVE  /\ Slot(req'[r]) /\ req'[r] \in Request
             /\ req'[r].pc # "idle" => req'[r].down
             /\ req'[r].conn <=> req[r].conn
  <2>1. PICK b \in BOOLEAN : b = (r \in InProgress)
    <3>1. CASE r \in InProgress
      <4>1. TRUE = (r \in InProgress)
        BY <3>1, Zenon
      <4> QED
        BY <4>1, Zenon
    <3>2. CASE r \notin InProgress
      <4>1. FALSE = (r \in InProgress)
        BY <3>2
      <4> QED
        BY <4>1, Zenon
    <3> QED
      BY <3>1, <3>2
  <2> DEFINE q == [req[r] EXCEPT !.down = b]
  <2>2. req'[r] = q
    <3>1. req'[r] = [req[r] EXCEPT !.down = r \in InProgress]
      BY <1>1, Zenon
    <3> QED
      BY <2>1, <3>1, Zenon
  <2>3. Slot(req[r]) /\ req[r] \in Request
    BY DEF IInv, Slots
  <2>4. q \in Request
    BY <2>3, EditOne
  <2>5. /\ q.pc = req[r].pc /\ q.conn = req[r].conn /\ q.down = b /\ q.full = req[r].full
        /\ q.endpoint = req[r].endpoint /\ q.caller = req[r].caller /\ q.status = req[r].status
        /\ q.tenant = req[r].tenant
    BY <2>3 DEF Request
  <2> HIDE DEF q
  <2>6. q.pc # "idle" => b
    BY <2>1, <2>5 DEF InProgress
  <2>7. Slot(q)
    BY <2>3, <2>4, <2>5, <2>6 DEF Slot
  <2> QED
    BY <2>2, <2>4, <2>5, <2>6, <2>7
<1>3. Slots'
  <2>1. req' \in [Requests -> Request]
    BY <1>1, <1>2
  <2> QED
    BY <1>2, <2>1 DEF Slots
<1>4. OutageSeen'
  BY <1>2 DEF OutageSeen
<1>5. Pool'
  <2>1. Holders' = Holders
    BY <1>2 DEF Holders
  <2> QED
    BY <1>1, <2>1 DEF IInv, Pool
<1>6. Counters'
  BY <1>1, CountersKept DEF IInv
<1>7. dbUp' \in BOOLEAN
  BY <1>1
<1> QED
  BY <1>3, <1>4, <1>5, <1>6, <1>7 DEF IInv

(* The end of an outage, and a step that changes nothing, keep the         *)
(* invariant.                                                              *)
LEMMA SameRequests ==
    ASSUME IInv, UNCHANGED <<metricsVars, req, checkedout, tallies>>, dbUp' \in {dbUp, TRUE}
    PROVE  IInv'
<1>1. Slots' /\ Pool'
  BY DEF IInv, Slots, Pool, Holders
<1>2. Counters'
  BY CountersKept DEF IInv
<1>3. OutageSeen' /\ dbUp' \in BOOLEAN
  BY DEF IInv, OutageSeen
<1> QED
  BY <1>1, <1>2, <1>3 DEF IInv

----------------------------------------------------------------------------
(* The invariant and the theorems.                                         *)

(* An instance starts in the invariant.                                    *)
LEMMA InitIInv == Init => IInv
<1> SUFFICES ASSUME Init PROVE IInv
  OBVIOUS
<1>1. Slots
  BY IdleIsSlot DEF Init, Slots, Slot
<1>2. Pool
  <2>1. Holders = {}
    BY IdleIsSlot DEF Init, Holders
  <2> QED
    BY <2>1, FS_EmptySet, InstanceAssumption DEF Init, Pool
<1>3. Counters
  BY MetricsAssumption DEF Init, MetricsInit, Counters
<1>4. OutageSeen /\ dbUp \in BOOLEAN
  BY DEF Init, OutageSeen
<1> QED
  BY <1>1, <1>2, <1>3, <1>4 DEF IInv

(* Every step of every request, and every outage, keeps the invariant.     *)
LEMMA NextIInv == IInv /\ [Next]_vars => IInv'
<1> SUFFICES ASSUME IInv, [Next]_vars PROVE IInv'
  OBVIOUS
<1>1. ASSUME NEW r \in Requests, RequestStep(r)
      PROVE  IInv'
  <2>1. CASE RateLimited(r)
    BY <2>1, RateLimitedStep
  <2>2. CASE Unauthenticated(r)
    BY <2>2, UnauthenticatedStep
  <2>3. CASE CheckOut(r)
    BY <2>3, CheckOutStep
  <2>4. CASE CheckOutFails(r) \/ StatementFails(r)
    BY <2>4, FailureSteps
  <2>5. CASE Authenticate(r)
    BY <2>5, AuthenticateStep
  <2>6. CASE PassLimiter(r) \/ LookupHit(r) \/ LookupMiss(r) \/ Load(r)
    <3>1. CASE PassLimiter(r)
      BY <3>1, GotoStep DEF PassLimiter, At
    <3>2. CASE LookupHit(r)
      BY <3>2, GotoStep DEF LookupHit, At
    <3>3. CASE LookupMiss(r)
      BY <3>3, GotoStep DEF LookupMiss, At
    <3>4. CASE Load(r)
      BY <3>4, GotoStep DEF Load, At
    <3> QED
      BY <2>6, <3>1, <3>2, <3>3, <3>4
  <2>7. CASE Rejected(r) \/ Forbidden(r) \/ HandleFlags(r) \/ Refresh(r) \/ Ping(r)
    <3>1. PICK status : /\ Answer(r, status) /\ req[r].pc # "idle"
                        /\ status \in {200, 401, 403, 429} \/ status = req[r].status
                        /\ UNCHANGED <<metricsVars, checkedout, dbUp, tallies>>
      BY <2>7 DEF Rejected, Forbidden, HandleFlags, Refresh, Ping, At
    <3>2. Counters'
      BY <3>1, CountersKept DEF IInv
    <3> QED
      BY <3>1, <3>2, AnswerStep
  <2>8. CASE \E d \in Durations : Evaluate(r, d)
    BY <2>8, EvaluateStep
  <2>9. CASE SelectOne(r) \/ Conflict(r) \/ CommitFlags(r)
    BY <2>9, ReleaseStep
  <2>10. CASE CloseSession(r)
    BY <2>10, CloseSessionStep
  <2>11. CASE RecordRequest(r)
    BY <2>11, RecordRequestStep
  <2> QED
    BY <1>1, <2>1, <2>2, <2>3, <2>4, <2>5, <2>6, <2>7, <2>8, <2>9, <2>10, <2>11 DEF RequestStep
<1>2. ASSUME NEW r \in Requests, NEW caller \in Callers, NEW endpoint \in Endpoints,
             Arrive(r, caller, endpoint)
      PROVE  IInv'
  BY <1>2, ArriveStep
<1>3. CASE DatabaseFails
  BY <1>3, DatabaseFailsStep
<1>4. CASE DatabaseRecovers
  BY <1>4, SameRequests DEF DatabaseRecovers
<1>5. CASE UNCHANGED vars
  BY <1>5, SameRequests DEF vars, tallies
<1> QED
  BY <1>1, <1>2, <1>3, <1>4, <1>5 DEF Next

(* Every reachable state of the instance satisfies the invariant.          *)
THEOREM Invariance == Spec => []IInv
BY InitIInv, NextIInv, PTL DEF Spec

(* Requests and counters keep their types, the deque of samples within its *)
(* bound.                                                                  *)
THEOREM TypeCorrect == Spec => []TypeOK
<1>1. IInv => TypeOK
  BY DEF IInv, Slots, Pool, Counters, TypeOK
<1> QED
  BY <1>1, Invariance, PTL

(* No exception, outage or order of closing and recording leaks a          *)
(* connection or gives one back twice, for every pool size and number of   *)
(* requests.                                                               *)
THEOREM NoConnectionLeaks == Spec => []ConnectionsAccounted
<1>1. IInv => ConnectionsAccounted
  BY DEF IInv, Slots, Slot, Pool, ConnectionsAccounted, Holders, InProgress
<1> QED
  BY <1>1, Invariance, PTL

(* readyz answers 503 only for an outage it saw or a pool that was fully   *)
(* in use.                                                                 *)
THEOREM UnreadyHasCause == Spec => []ReadinessHasCause
<1>1. IInv => ReadinessHasCause
  BY DEF IInv, Slots, Slot, ReadinessHasCause, InProgress
<1> QED
  BY <1>1, Invariance, PTL
----------------------------------------------------------------------------
(* What the metrics account for.                                           *)

(* What CorrelationMiddleware will label a request with at each point.     *)
Label(q) ==
    /\ q.pc # "answer" => ~q.counted /\ q.status # 429
    /\ q.pc \in {"limit", "session"} \/ q.status = 429 =>
           q.tenant = Anonymous /\ q.route = Unrouted
    /\ q.pc \notin {"idle", "limit", "session"} /\ q.status # 429 => q.route = q.endpoint
    /\ q.tenant \in Tenants => q.tenant = q.caller
    /\ q.pc = "ping" => q.endpoint = "readyz"
    /\ q.pc \in {"lookup", "load", "evaluate"} => q.endpoint = "evaluate"
    /\ q.pc = "answer" /\ q.status # 429 /\ q.caller \in Tenants => q.tenant = q.caller

Labelled == \A r \in Requests : Label(req[r])

(* A request still to be counted for its caller and endpoint, one still to *)
(* be counted as a 429, and an evaluation that has answered.               *)
Unrecorded(q, x) ==
    q.pc # "idle" /\ <<q.caller, q.endpoint>> = x /\ ~q.counted /\ q.status # 429
Refusal(q) == q.pc # "idle" /\ q.status = 429 /\ ~q.counted
Served(q, t) == Unrecorded(q, <<t, "evaluate">>) /\ q.pc = "answer"

(* SamplesAreServed without the 429s, which leave no sample: those are     *)
(* counted elsewhere, so that with them the bound would not be inductive.  *)
Evaluated ==
    \A t \in Tenants :
        EvaluationsOf(t) <= requests[<<t, "evaluate">>]
                            + Cardinality({r \in Requests : Served(req[r], t)})

Books == Labelled /\ SeriesComplete /\ LimitedIsCounted /\ Evaluated

Series == Tenants \X (Endpoints \ {"readyz"})
Limited == <<Anonymous, Unrouted>>

Bit(b) == IF b THEN 1 ELSE 0

(* A step of one request balances: what it adds to one side of each        *)
(* equation it adds to the other.                                          *)
BalancedSeries(r) ==
    \A x \in Series :
        arrived'[x] + Bit(Unrecorded(req[r], x)) + requests[x] + raised[x] + limited[x] =
            arrived[x] + Bit(Unrecorded(req'[r], x)) + requests'[x] + raised'[x] + limited'[x]

BalancedLimited(r) ==
    refused' + requests[Limited] + Bit(Refusal(req[r])) =
        refused + requests'[Limited] + Bit(Refusal(req'[r]))

BalancedSamples(r) ==
    \A t \in Tenants :
        EvaluationsOf(t)' + requests[<<t, "evaluate">>] + Bit(Served(req[r], t)) <=
            EvaluationsOf(t) + requests'[<<t, "evaluate">>] + Bit(Served(req'[r], t))

(* The size of a set of requests changes by the one that enters or leaves. *)
LEMMA OneChanges ==
    ASSUME NEW A \in SUBSET Requests, NEW B \in SUBSET Requests, NEW r \in Requests,
           \A s \in Requests : s # r => (s \in A <=> s \in B)
    PROVE  /\ Cardinality(A) \in Nat /\ Cardinality(B) \in Nat
           /\ Cardinality(B) + Bit(r \in A) = Cardinality(A) + Bit(r \in B)
<1>1. IsFiniteSet(A) /\ IsFiniteSet(B)
  BY InstanceAssumption, FS_Subset
<1>2. Cardinality(A) \in Nat /\ Cardinality(B) \in Nat
  BY <1>1, FS_CardinalityType
<1>3. CASE r \in A /\ r \in B
  <2>1. A = B
    BY <1>3
  <2> QED
    BY <1>2, <1>3, <2>1 DEF Bit
<1>4. CASE r \notin A /\ r \notin B
  <2>1. A = B
    BY <1>4
  <2> QED
    BY <1>2, <1>4, <2>1 DEF Bit
<1>5. CASE r \in A /\ r \notin B
  <2>1. A = B \union {r}
    BY <1>5
  <2>2. Cardinality(B \union {r}) = Cardinality(B) + 1
    BY <1>1, <1>5, FS_AddElement
  <2> QED
    BY <1>2, <1>5, <2>1, <2>2 DEF Bit
<1>6. CASE r \notin A /\ r \in B
  <2>1. B = A \union {r}
    BY <1>6
  <2>2. Cardinality(A \union {r}) = Cardinality(A) + 1
    BY <1>1, <1>6, FS_AddElement
  <2> QED
    BY <1>2, <1>6, <2>1, <2>2 DEF Bit
<1> QED
  BY <1>3, <1>4, <1>5, <1>6

(* The keys of the series are callers with endpoints, and labels.          *)
LEMMA SeriesTypes ==
    /\ \A x \in Series : x \in Traffic /\ x \in Labels
    /\ \A t \in Tenants : <<t, "evaluate">> \in Series
    /\ Limited \in Labels
    /\ Limited \notin Series
BY MetricsAssumption DEF Series, Traffic, Labels, Callers, Endpoints, Limited

(* The samples of a tenant in a deque.                                     *)
SamplesOf(q, t) == {i \in 1..Len(q) : q[i].tenant = t}

(* A deque holds finitely many samples of a tenant.                        *)
LEMMA SamplesCounted ==
    ASSUME NEW S, NEW q \in Seq(S), NEW t
    PROVE  IsFiniteSet(SamplesOf(q, t)) /\ Cardinality(SamplesOf(q, t)) \in Nat
<1>1. IsFiniteSet(1..Len(q))
  BY FS_Interval
<1>2. SamplesOf(q, t) \in SUBSET (1..Len(q))
  BY DEF SamplesOf
<1>3. IsFiniteSet(SamplesOf(q, t))
  BY <1>1, <1>2, FS_Subset
<1> QED
  BY <1>3, FS_CardinalityType

(* Both sides of a bound change by as much.                                *)
LEMMA Bound ==
    ASSUME NEW a \in Nat, NEW b \in Nat, NEW c \in Nat, NEW a1 \in Nat, NEW b1 \in Nat,
           NEW c1 \in Nat, NEW i \in Nat, NEW i1 \in Nat,
           a <= b + c, c1 + i = c + i1, a1 + b + i <= a + b1 + i1
    PROVE  a1 <= b1 + c1
OBVIOUS

(* Both sides of an equation of series change by as much.                  *)
LEMMA Sums ==
    ASSUME NEW a \in Nat, NEW b \in Nat, NEW c \in Nat, NEW d \in Nat, NEW e \in Nat,
           NEW a1 \in Nat, NEW b1 \in Nat, NEW c1 \in Nat, NEW d1 \in Nat, NEW e1 \in Nat,
           NEW i \in Nat, NEW i1 \in Nat,
           a = b + c + d + e, c1 + i = c + i1, a1 + i + b + d + e = a + i1 + b1 + d1 + e1
    PROVE  a1 = b1 + c1 + d1 + e1
OBVIOUS

(* A balanced step of one request keeps the books.                         *)
LEMMA BalanceKeeps ==
    ASSUME IInv, IInv', Books, NEW r \in Requests, OnlyRequest(r), Label(req'[r]),
           BalancedSeries(r), BalancedLimited(r), BalancedSamples(r)
    PROVE  Books'
<1>1. Labelled'
  BY DEF Books, Labelled, OnlyRequest
<1>2. SeriesComplete'
  <2> SUFFICES ASSUME NEW x \in Series
               PROVE  arrived'[x] = requests'[x] + Uncounted(x)' + raised'[x] + limited'[x]
    BY DEF SeriesComplete, Series
  <2> DEFINE A == {s \in Requests : Unrecorded(req[s], x)}
             B == {s \in Requests : Unrecorded(req'[s], x)}
  <2>1. Uncounted(x) = Cardinality(A) /\ Uncounted(x)' = Cardinality(B)
    <3>1. A = {s \in InProgress : Key(s) = x /\ ~req[s].counted /\ req[s].status # 429}
      BY DEF Unrecorded, InProgress, Key
    <3>2. B = {s \in InProgress' : Key(s)' = x /\ ~req'[s].counted /\ req'[s].status # 429}
      BY DEF Unrecorded, InProgress, Key
    <3> QED
      BY <3>1, <3>2 DEF Uncounted
  <2>2. \A s \in Requests : s # r => (s \in A <=> s \in B)
    BY DEF OnlyRequest
  <2>3. (r \in A <=> Unrecorded(req[r], x)) /\ (r \in B <=> Unrecorded(req'[r], x))
    OBVIOUS
  <2>4. A \in SUBSET Requests /\ B \in SUBSET Requests
    OBVIOUS
  <2> HIDE DEF A, B
  <2>5. /\ Cardinality(A) \in Nat /\ Cardinality(B) \in Nat
        /\ Cardinality(B) + Bit(r \in A) = Cardinality(A) + Bit(r \in B)
    BY <2>2, <2>4, OneChanges
  <2>6. /\ arrived[x] \in Nat /\ requests[x] \in Nat /\ raised[x] \in Nat /\ limited[x] \in Nat
        /\ arrived'[x] \in Nat /\ requests'[x] \in Nat /\ raised'[x] \in Nat /\ limited'[x] \in Nat
    BY SeriesTypes DEF IInv, Counters
  <2>7. arrived[x] = requests[x] + Cardinality(A) + raised[x] + limited[x]
    BY <2>1 DEF Books, SeriesComplete, Series
  <2>8. arrived'[x] + Bit(r \in A) + requests[x] + raised[x] + limited[x] =
            arrived[x] + Bit(r \in B) + requests'[x] + raised'[x] + limited'[x]
    BY <2>3 DEF BalancedSeries, Bit
  <2>9. Bit(r \in A) \in Nat /\ Bit(r \in B) \in Nat
    BY DEF Bit
  <2>10. arrived'[x] = requests'[x] + Cardinality(B) + raised'[x] + limited'[x]
    BY <2>5, <2>6, <2>7, <2>8, <2>9, Sums
  <2> QED
    BY <2>1, <2>10
<1>3. LimitedIsCounted'
  <2> DEFINE A == {s \in Requests : Refusal(req[s])}
             B == {s \in Requests : Refusal(req'[s])}
  <2>1. /\ LimitedIsCounted <=> refused = requests[Limited] + Cardinality(A)
        /\ LimitedIsCounted' <=> refused' = requests'[Limited] + Cardinality(B)
    <3>1. A = {s \in InProgress : req[s].status = 429 /\ ~req[s].counted}
      BY DEF Refusal, InProgress
    <3>2. B = {s \in InProgress' : req'[s].status = 429 /\ ~req'[s].counted}
      BY DEF Refusal, InProgress
    <3> QED
      BY <3>1, <3>2 DEF LimitedIsCounted, Limited
  <2>2. \A s \in Requests : s # r => (s \in A <=> s \in B)
    BY DEF OnlyRequest
  <2>3. (r \in A <=> Refusal(req[r])) /\ (r \in B <=> Refusal(req'[r]))
    OBVIOUS
  <2>4. A \in SUBSET Requests /\ B \in SUBSET Requests
    OBVIOUS
  <2> HIDE DEF A, B
  <2>5. /\ Cardinality(A) \in Nat /\ Cardinality(B) \in Nat
        /\ Cardinality(B) + Bit(r \in A) = Cardinality(A) + Bit(r \in B)
    BY <2>2, <2>4, OneChanges
  <2>6. refused \in Nat /\ requests[Limited] \in Nat /\ refused' \in Nat /\ requests'[Limited] \in Nat
    BY SeriesTypes DEF IInv, Counters
  <2>7. refused = requests[Limited] + Cardinality(A)
    BY <2>1 DEF Books
  <2>8. refused' + requests[Limited] + Bit(r \in A) = refused + requests'[Limited] + Bit(r \in B)
    BY <2>3 DEF BalancedLimited, Bit
  <2>9. Bit(r \in A) \in Nat /\ Bit(r \in B) \in Nat
    BY DEF Bit
  <2>10. refused' = requests'[Limited] + Cardinality(B)
    <3>1. refused' + Bit(r \in A) = requests'[Limited] + (Cardinality(A) + Bit(r \in B))
      <4>1. Cardinality(A) \in Nat
        BY <2>5
      <4> QED
        BY <2>6, <2>7, <2>8, <2>9, <4>1
    <3>2. refused' + Bit(r \in A) = requests'[Limited] + (Cardinality(B) + Bit(r \in A))
      BY <2>5, <3>1
    <3>3. Cardinality(B) \in Nat
      BY <2>5
    <3> QED
      BY <2>6, <2>9, <3>2, <3>3
  <2> QED
    BY <2>1, <2>10
<1>4. Evaluated'
  <2> SUFFICES ASSUME NEW t \in Tenants
               PROVE  EvaluationsOf(t)' <= requests'[<<t, "evaluate">>]
                          + Cardinality({s \in Requests : Served(req'[s], t)})
    BY DEF Evaluated
  <2> DEFINE A == {s \in Requests : Served(req[s], t)}
             B == {s \in Requests : Served(req'[s], t)}
             x == <<t, "evaluate">>
  <2>1. EvaluationsOf(t) <= requests[x] + Cardinality(A)
    BY DEF Books, Evaluated
  <2>2. \A s \in Requests : s # r => (s \in A <=> s \in B)
    BY DEF OnlyRequest
  <2>3. (r \in A <=> Served(req[r], t)) /\ (r \in B <=> Served(req'[r], t))
    OBVIOUS
  <2>4. A \in SUBSET Requests /\ B \in SUBSET Requests
    OBVIOUS
  <2>5. EvaluationsOf(t)' + requests[x] + Bit(r \in A) <=
            EvaluationsOf(t) + requests'[x] + Bit(r \in B)
    BY <2>3 DEF BalancedSamples, Bit
  <2>6. x \in Labels
    BY SeriesTypes
  <2>7. EvaluationsOf(t)' <= requests'[x] + Cardinality(B)
    <3> HIDE DEF A, B, x
    <3>1. /\ Cardinality(A) \in Nat /\ Cardinality(B) \in Nat
          /\ Cardinality(B) + Bit(r \in A) = Cardinality(A) + Bit(r \in B)
      BY <2>2, <2>4, OneChanges
    <3>2. requests[x] \in Nat /\ requests'[x] \in Nat
      BY <2>6 DEF IInv, Counters
    <3>3. EvaluationsOf(t) \in Nat /\ EvaluationsOf(t)' \in Nat
      <4>1. /\ EvaluationsOf(t) = Cardinality(SamplesOf(samples, t))
            /\ EvaluationsOf(t)' = Cardinality(SamplesOf(samples', t))
        BY DEF EvaluationsOf, SamplesOf
      <4>2. PICK S : samples \in Seq(S) /\ samples' \in Seq(S)
        BY DEF IInv, Counters
      <4> QED
        BY <4>1, <4>2, SamplesCounted
    <3>4. Bit(r \in A) \in Nat /\ Bit(r \in B) \in Nat
      BY DEF Bit
    <3> QED
      BY <2>1, <2>5, <3>1, <3>2, <3>3, <3>4, Bound
  <2> QED
    BY <2>7
<1> QED
  BY <1>1, <1>2, <1>3, <1>4 DEF Books

(* Appending a sample adds one to its tenant and nothing to the others.    *)
LEMMA AppendSamples ==
    ASSUME NEW S, NEW q \in Seq(S), NEW x \in S, NEW t
    PROVE  Cardinality(SamplesOf(Append(q, x), t)) =
               Cardinality(SamplesOf(q, t)) + Bit(x.tenant = t)
<1>1. /\ Len(q) \in Nat /\ Len(Append(q, x)) = Len(q) + 1
      /\ \A i \in 1..Len(q) : Append(q, x)[i] = q[i]
      /\ Append(q, x)[Len(q) + 1] = x
  OBVIOUS
<1>2. IsFiniteSet(SamplesOf(q, t)) /\ Cardinality(SamplesOf(q, t)) \in Nat
  BY SamplesCounted
<1>3. CASE x.tenant = t
  <2>1. SamplesOf(Append(q, x), t) = SamplesOf(q, t) \union {Len(q) + 1}
    BY <1>1, <1>3 DEF SamplesOf
  <2>2. Len(q) + 1 \notin SamplesOf(q, t)
    BY <1>1 DEF SamplesOf
  <2>3. PICK A : A = SamplesOf(q, t)
    OBVIOUS
  <2>4. PICK k : k = Len(q) + 1
    OBVIOUS
  <2>5. Cardinality(A \union {k}) = Cardinality(A) + 1
    BY <1>2, <2>2, <2>3, <2>4, FS_AddElement
  <2> QED
    BY <1>3, <2>1, <2>3, <2>4, <2>5 DEF Bit
<1>4. CASE x.tenant # t
  <2>1. SamplesOf(Append(q, x), t) = SamplesOf(q, t)
    BY <1>1, <1>4 DEF SamplesOf
  <2> QED
    BY <1>2, <1>4, <2>1 DEF Bit
<1> QED
  BY <1>3, <1>4

(* Dropping the oldest sample adds to nobody.                              *)
LEMMA TailSamples ==
    ASSUME NEW S, NEW q \in Seq(S), q # <<>>, NEW t
    PROVE  Cardinality(SamplesOf(Tail(q), t)) <= Cardinality(SamplesOf(q, t))
<1>1. /\ Len(q) \in Nat /\ Len(Tail(q)) = Len(q) - 1
      /\ \A i \in 1..(Len(q) - 1) : Tail(q)[i] = q[i + 1]
  OBVIOUS
<1> DEFINE A == SamplesOf(Tail(q), t)
           B == SamplesOf(q, t)
           f == [i \in A |-> i + 1]
<1>2. \A i \in A : i \in Nat /\ i + 1 \in B
  BY <1>1 DEF SamplesOf
<1>3. f \in [A -> B]
  BY <1>2
<1>4. \A i, j \in A : f[i] = f[j] => i = j
  BY <1>2
<1>5. f \in Injection(A, B)
  BY <1>3, <1>4 DEF Injection, IsInjective
<1>6. IsFiniteSet(B)
  BY SamplesCounted
<1> HIDE DEF A, B, f
<1>7. Cardinality(A) <= Cardinality(B)
  BY <1>5, <1>6, FS_Injection
<1> QED
  BY <1>7 DEF A, B

(* An evaluation adds at most one sample, to its own tenant.               *)
LEMMA AppendedSamples ==
    ASSUME NEW S, NEW q \in Seq(S), NEW x \in S, NEW t
    PROVE  Cardinality(SamplesOf(Appended(q, x), t)) <=
               Cardinality(SamplesOf(q, t)) + Bit(x.tenant = t)
<1>0. Cardinality(SamplesOf(q, t)) \in Nat /\ Bit(x.tenant = t) \in Nat
  BY SamplesCounted DEF Bit
<1>1. CASE Len(q) < MAX_SAMPLES
  BY <1>0, <1>1, AppendSamples DEF Appended
<1>2. CASE ~(Len(q) < MAX_SAMPLES)
  <2>1. q # <<>> /\ Tail(q) \in Seq(S)
    BY <1>2, MetricsAssumption
  <2>2. Cardinality(SamplesOf(Append(Tail(q), x), t)) =
            Cardinality(SamplesOf(Tail(q), t)) + Bit(x.tenant = t)
    <3>1. PICK p \in Seq(S) : p = Tail(q)
      BY <2>1
    <3>2. Cardinality(SamplesOf(Append(p, x), t)) =
              Cardinality(SamplesOf(p, t)) + Bit(x.tenant = t)
      BY AppendSamples
    <3> QED
      BY <3>1, <3>2
  <2>3. Cardinality(SamplesOf(Tail(q), t)) <= Cardinality(SamplesOf(q, t))
    BY <2>1, TailSamples
  <2>4. Cardinality(SamplesOf(Tail(q), t)) \in Nat
    BY <2>1, SamplesCounted
  <2>5. Appended(q, x) = Append(Tail(q), x)
    BY <1>2 DEF Appended
  <2> QED
    BY <1>0, <2>2, <2>3, <2>4, <2>5
<1> QED
  BY <1>1, <1>2

(* A step that records no evaluation keeps every tenant's count.           *)
LEMMA SameSamples ==
    ASSUME IInv, samples' = samples, NEW t
    PROVE  EvaluationsOf(t)' = EvaluationsOf(t) /\ EvaluationsOf(t) \in Nat
<1>1. EvaluationsOf(t)' = EvaluationsOf(t)
  BY DEF EvaluationsOf
<1>2. EvaluationsOf(t) = Cardinality(SamplesOf(samples, t))
  BY DEF EvaluationsOf, SamplesOf
<1>3. PICK S : samples \in Seq(S)
  BY DEF IInv, Counters
<1> QED
  BY <1>1, <1>2, <1>3, SamplesCounted

(* Without a sample, the answered evaluations must not become fewer.       *)
LEMMA SamplesBalance ==
    ASSUME IInv, IInv', samples' = samples, NEW r \in Requests,
           \A t \in Tenants : requests[<<t, "evaluate">>] + Bit(Served(req[r], t)) <=
                                  requests'[<<t, "evaluate">>] + Bit(Served(req'[r], t))
    PROVE  BalancedSamples(r)
<1> SUFFICES ASSUME NEW t \in Tenants
             PROVE  EvaluationsOf(t)' + requests[<<t, "evaluate">>] + Bit(Served(req[r], t)) <=
                        EvaluationsOf(t) + requests'[<<t, "evaluate">>] + Bit(Served(req'[r], t))
  BY DEF BalancedSamples
<1>1. EvaluationsOf(t)' = EvaluationsOf(t) /\ EvaluationsOf(t) \in Nat
  BY SameSamples
<1>2. requests[<<t, "evaluate">>] \in Nat /\ requests'[<<t, "evaluate">>] \in Nat
  BY SeriesTypes DEF IInv, Counters
<1>3. Bit(Served(req[r], t)) \in Nat /\ Bit(Served(req'[r], t)) \in Nat
  BY DEF Bit
<1> QED
  BY <1>1, <1>2, <1>3

(* What a request is counted for does not change.                          *)
Quiet(p, q) ==
    /\ q.caller = p.caller /\ q.endpoint = p.endpoint /\ q.counted = p.counted
    /\ p.pc # "idle" /\ q.pc # "idle"
    /\ q.status = 429 <=> p.status = 429
    /\ p.pc = "answer" => q.pc = "answer"

(* A step that counts nothing and leaves what is to be counted balances.   *)
LEMMA QuietStep ==
    ASSUME IInv, IInv', Books, NEW r \in Requests, NEW q, Become(r, q), Label(q),
           Quiet(req[r], q), UNCHANGED metricsVars, UNCHANGED tallies
    PROVE  Books'
<1>1. OnlyRequest(r) /\ req'[r] = q
  BY Becomes DEF IInv
<1>2. \A x : Unrecorded(q, x) <=> Unrecorded(req[r], x)
  BY DEF Quiet, Unrecorded
<1>3. Refusal(q) <=> Refusal(req[r])
  BY DEF Quiet, Refusal
<1>4. \A t : Served(req[r], t) => Served(q, t)
  BY <1>2 DEF Served, Quiet
<1>5. /\ arrived' = arrived /\ requests' = requests /\ raised' = raised /\ limited' = limited
      /\ refused' = refused /\ samples' = samples
  BY DEF metricsVars, tallies
<1>6. BalancedSeries(r)
  BY <1>1, <1>2, <1>5 DEF BalancedSeries, Bit
<1>7. BalancedLimited(r)
  BY <1>1, <1>3, <1>5 DEF BalancedLimited, Bit
<1>8. BalancedSamples(r)
  <2>1. \A t \in Tenants : requests[<<t, "evaluate">>] \in Nat
    BY SeriesTypes DEF IInv, Counters
  <2>2. \A t \in Tenants : requests[<<t, "evaluate">>] + Bit(Served(req[r], t)) <=
                               requests'[<<t, "evaluate">>] + Bit(Served(req'[r], t))
    <3> SUFFICES ASSUME NEW t \in Tenants
                 PROVE  requests[<<t, "evaluate">>] + Bit(Served(req[r], t)) <=
                            requests'[<<t, "evaluate">>] + Bit(Served(req'[r], t))
      OBVIOUS
    <3>1. Bit(Served(req[r], t)) <= Bit(Served(req'[r], t))
      BY <1>1, <1>4 DEF Bit
    <3>2. Bit(Served(req[r], t)) \in Nat /\ Bit(Served(req'[r], t)) \in Nat
      BY DEF Bit
    <3> QED
      BY <1>5, <2>1, <3>1, <3>2
  <2> QED
    BY <1>5, <2>2, SamplesBalance
<1> QED
  BY <1>1, <1>6, <1>7, <1>8, BalanceKeeps

(* The steps that change the program counter alone balance.                *)
LEMMA GotoQuiet ==
    ASSUME IInv, IInv', Books, NEW r \in Requests,
           PassLimiter(r) \/ LookupHit(r) \/ LookupMiss(r) \/ Load(r)
    PROVE  Books'
<1>1. PICK step : /\ Goto(r, step) /\ UNCHANGED metricsVars /\ UNCHANGED tallies
                  /\ \/ req[r].pc = "limit" /\ step = "session"
                     \/ req[r].pc \in {"lookup", "load"} /\ step \in {"load", "evaluate"}
  BY DEF PassLimiter, LookupHit, LookupMiss, Load, At
<1> DEFINE q == [req[r] EXCEPT !.pc = step]
<1>2. Slot(req[r]) /\ req[r] \in Request /\ Label(req[r])
  BY DEF IInv, Slots, Books, Labelled
<1>3. /\ q.pc = step /\ q.caller = req[r].caller /\ q.endpoint = req[r].endpoint
      /\ q.route = req[r].route /\ q.tenant = req[r].tenant
      /\ q.status = req[r].status /\ q.counted = req[r].counted
  BY <1>2 DEF Request
<1>4. Become(r, q)
  BY <1>1 DEF Goto
<1> HIDE DEF q
<1>5. Quiet(req[r], q)
  BY <1>1, <1>3 DEF Quiet
<1>6. Label(q)
  BY <1>1, <1>2, <1>3 DEF Label
<1> QED
  BY <1>1, <1>4, <1>5, <1>6, QuietStep

(* The answers that are no 429 and no evaluation balance.                  *)
LEMMA AnswerQuiet ==
    ASSUME IInv, IInv', Books, NEW r \in Requests,
           Rejected(r) \/ Forbidden(r) \/ HandleFlags(r) \/ Refresh(r) \/ Ping(r)
    PROVE  Books'
<1>1. Slot(req[r]) /\ req[r] \in Request /\ Label(req[r])
  BY DEF IInv, Slots, Books, Labelled
<1>2. PICK status : /\ Answer(r, status) /\ UNCHANGED metricsVars /\ UNCHANGED tallies
                    /\ status # 429
                    /\ req[r].pc \in {"query", "lookup", "write", "reread", "ping"}
                    /\ req[r].pc = "query" => req[r].caller = BadKey
  BY <1>1 DEF Rejected, Forbidden, HandleFlags, Refresh, Ping, At, Label
<1> DEFINE q == [req[r] EXCEPT !.pc = "answer", !.status = status]
<1>3. /\ q.pc = "answer" /\ q.caller = req[r].caller /\ q.endpoint = req[r].endpoint
      /\ q.route = req[r].route /\ q.tenant = req[r].tenant
      /\ q.status = status /\ q.counted = req[r].counted
  BY <1>1 DEF Request
<1>4. Become(r, q)
  BY <1>2 DEF Answer
<1> HIDE DEF q
<1>5. Quiet(req[r], q)
  BY <1>1, <1>2, <1>3 DEF Quiet, Label
<1>6. req[r].caller \in Tenants => req[r].tenant = req[r].caller
  BY <1>1, <1>2, InstanceAssumption DEF Slot, Label
<1>7. Label(q)
  BY <1>1, <1>2, <1>3, <1>6 DEF Label
<1> QED
  BY <1>2, <1>4, <1>5, <1>7, QuietStep

(* A 401 for want of a key balances.                                       *)
LEMMA UnauthenticatedQuiet ==
    ASSUME IInv, IInv', Books, NEW r \in Requests, Unauthenticated(r)
    PROVE  Books'
<1>1. Slot(req[r]) /\ req[r] \in Request /\ Label(req[r])
  BY DEF IInv, Slots, Books, Labelled
<1> DEFINE q == [req[r] EXCEPT !.pc = "answer", !.status = 401, !.route = req[r].endpoint]
<1>2. /\ Become(r, q) /\ UNCHANGED metricsVars /\ UNCHANGED tallies
      /\ req[r].pc = "session" /\ req[r].caller = NoKey
  BY DEF Unauthenticated, At
<1>3. /\ q.pc = "answer" /\ q.caller = req[r].caller /\ q.endpoint = req[r].endpoint
      /\ q.route = req[r].endpoint /\ q.tenant = req[r].tenant
      /\ q.status = 401 /\ q.counted = req[r].counted
  BY <1>1 DEF Request
<1> HIDE DEF q
<1>4. Quiet(req[r], q)
  BY <1>1, <1>2, <1>3 DEF Quiet, Label
<1>5. req[r].caller \notin Tenants
  BY <1>2, InstanceAssumption
<1>6. Label(q)
  BY <1>1, <1>2, <1>3, <1>5 DEF Label
<1> QED
  BY <1>2, <1>4, <1>6, QuietStep

(* A checkout, which matches the route, balances.                          *)
LEMMA CheckOutQuiet ==
    ASSUME IInv, IInv', Books, NEW r \in Requests, CheckOut(r)
    PROVE  Books'
<1>1. Slot(req[r]) /\ req[r] \in Request /\ Label(req[r])
  BY DEF IInv, Slots, Books, Labelled
<1>0. PICK step \in {"query", "reread"} :
          /\ Become(r, [req[r] EXCEPT !.pc = step, !.conn = TRUE, !.route = req[r].endpoint])
          /\ \/ step = "query" /\ req[r].pc = "session"
             \/ step = "reread" /\ req[r].pc = "refresh"
  BY CheckedOut
<1> DEFINE q == [req[r] EXCEPT !.pc = step, !.conn = TRUE, !.route = req[r].endpoint]
<1>2. /\ Become(r, q) /\ UNCHANGED metricsVars /\ UNCHANGED tallies
      /\ req[r].pc \in {"session", "refresh"}
  BY <1>0 DEF CheckOut
<1>3. /\ q.pc = step /\ q.caller = req[r].caller /\ q.endpoint = req[r].endpoint
      /\ q.route = req[r].endpoint /\ q.tenant = req[r].tenant
      /\ q.status = req[r].status /\ q.counted = req[r].counted
  BY <1>1 DEF Request
<1> HIDE DEF q
<1>4. Quiet(req[r], q)
  BY <1>0, <1>1, <1>2, <1>3 DEF Quiet
<1>5. Label(q)
  BY <1>0, <1>1, <1>2, <1>3 DEF Label
<1> QED
  BY <1>2, <1>4, <1>5, QuietStep

(* authenticate, which publishes the tenant, balances.                     *)
LEMMA AuthenticateQuiet ==
    ASSUME IInv, IInv', Books, NEW r \in Requests, Authenticate(r)
    PROVE  Books'
<1>1. Slot(req[r]) /\ req[r] \in Request /\ Label(req[r])
  BY DEF IInv, Slots, Books, Labelled
<1>2. PICK step : /\ step = HandlerOf(req[r].endpoint)
                  /\ (step = "lookup" /\ req[r].endpoint = "evaluate") \/ step = "write"
  BY DEF HandlerOf
<1> DEFINE q == [req[r] EXCEPT !.pc = step, !.tenant = req[r].caller]
<1>3. /\ Become(r, q) /\ UNCHANGED metricsVars /\ UNCHANGED tallies
      /\ req[r].pc = "query"
  BY <1>2 DEF Authenticate, At
<1>4. /\ q.pc = step /\ q.caller = req[r].caller /\ q.endpoint = req[r].endpoint
      /\ q.route = req[r].route /\ q.tenant = req[r].caller
      /\ q.status = req[r].status /\ q.counted = req[r].counted
  BY <1>1 DEF Request
<1> HIDE DEF q
<1>5. Quiet(req[r], q)
  BY <1>1, <1>2, <1>3, <1>4 DEF Quiet
<1>6. Label(q)
  BY <1>1, <1>2, <1>3, <1>4 DEF Label
<1> QED
  BY <1>3, <1>5, <1>6, QuietStep

(* The end of a transaction balances.                                      *)
LEMMA ReleaseQuiet ==
    ASSUME IInv, IInv', Books, NEW r \in Requests,
           SelectOne(r) \/ Conflict(r) \/ CommitFlags(r)
    PROVE  Books'
<1>0. PICK step \in {"ping", "answer", "refresh"} :
          /\ Become(r, [req[r] EXCEPT !.pc = step, !.conn = FALSE])
          /\ \/ step = "ping" /\ req[r].pc = "query" /\ req[r].endpoint = "readyz"
             \/ step # "ping" /\ req[r].pc = "write"
  BY TransactionEnds
<1>1. Slot(req[r]) /\ req[r] \in Request /\ Label(req[r])
  BY DEF IInv, Slots, Books, Labelled
<1> DEFINE q == [req[r] EXCEPT !.pc = step, !.conn = FALSE]
<1>2. /\ Become(r, q) /\ UNCHANGED metricsVars /\ UNCHANGED tallies
  BY <1>0 DEF SelectOne, Conflict, CommitFlags
<1>3. /\ q.pc = step /\ q.caller = req[r].caller /\ q.endpoint = req[r].endpoint
      /\ q.route = req[r].route /\ q.tenant = req[r].tenant
      /\ q.status = req[r].status /\ q.counted = req[r].counted
  BY <1>1 DEF Request
<1> HIDE DEF q
<1>4. Quiet(req[r], q)
  BY <1>0, <1>1, <1>3 DEF Quiet
<1>5. req[r].pc = "write" => req[r].tenant = req[r].caller
  BY <1>1 DEF Slot, Label
<1>6. Label(q)
  BY <1>0, <1>1, <1>3, <1>5 DEF Label
<1> QED
  BY <1>2, <1>4, <1>6, QuietStep

(* A free slot has nothing to be counted for.                              *)
LEMMA IdleIsQuiet ==
    /\ Label(Idle) /\ ~Refusal(Idle)
    /\ \A x : ~Unrecorded(Idle, x)
    /\ \A t : ~Served(Idle, t)
BY MetricsAssumption DEF Idle, Label, Refusal, Unrecorded, Served

(* The end or the loss of a request whose count is settled: with nothing   *)
(* recorded and nothing answered, a series loses what a tally gains.       *)
LEMMA TallyStep ==
    ASSUME IInv, IInv', Books, NEW r \in Requests, NEW q, Become(r, q), Label(q),
           UNCHANGED metricsVars, BalancedSeries(r), BalancedLimited(r),
           \A t \in Tenants : ~Served(req[r], t)
    PROVE  Books'
<1>1. OnlyRequest(r) /\ req'[r] = q
  BY Becomes DEF IInv
<1>2. samples' = samples /\ requests' = requests
  BY DEF metricsVars
<1>3. \A t \in Tenants : requests[<<t, "evaluate">>] \in Nat
  BY SeriesTypes DEF IInv, Counters
<1>4. \A t \in Tenants : requests[<<t, "evaluate">>] + Bit(Served(req[r], t)) <=
                             requests'[<<t, "evaluate">>] + Bit(Served(req'[r], t))
  <2> SUFFICES ASSUME NEW t \in Tenants
               PROVE  requests[<<t, "evaluate">>] + Bit(Served(req[r], t)) <=
                          requests'[<<t, "evaluate">>] + Bit(Served(req'[r], t))
    OBVIOUS
  <2>1. Bit(Served(req[r], t)) = 0 /\ Bit(Served(req'[r], t)) \in Nat
    BY DEF Bit
  <2> QED
    BY <1>2, <1>3, <2>1
<1>5. BalancedSamples(r)
  BY <1>2, <1>4, SamplesBalance
<1> QED
  BY <1>1, <1>5, BalanceKeeps

(* An arrival balances: it is one more, and one more to be counted.        *)
LEMMA ArriveBalances ==
    ASSUME IInv, IInv', Books, NEW r \in Requests, NEW caller \in Callers,
           NEW endpoint \in Endpoints, Arrive(r, caller, endpoint)
    PROVE  Books'
<1>1. PICK step : /\ step = IF caller = NoKey THEN "session" ELSE "limit"
                  /\ step \in {"session", "limit"}
  OBVIOUS
<1>2. PICK down : down = ~dbUp
  OBVIOUS
<1> DEFINE q == [Idle EXCEPT !.pc = step, !.caller = caller, !.endpoint = endpoint, !.down = down]
<1>3. /\ Become(r, q) /\ req[r].pc = "idle"
      /\ arrived' = [arrived EXCEPT ![<<caller, endpoint>>] = @ + 1]
      /\ UNCHANGED metricsVars /\ UNCHANGED <<raised, limited, refused>>
  BY <1>1, <1>2 DEF Arrive, At
<1>4. /\ q.pc = step /\ q.caller = caller /\ q.endpoint = endpoint /\ q.route = Unrouted
      /\ q.tenant = Anonymous /\ q.status = 200 /\ q.counted = FALSE
  BY DEF Idle
<1> HIDE DEF q
<1>5. req'[r] = q
  BY <1>3, Becomes DEF IInv
<1>6. Label(q)
  BY <1>1, <1>4, MetricsAssumption DEF Label
<1>7. \A x : ~Unrecorded(req[r], x) /\ (Unrecorded(q, x) <=> <<caller, endpoint>> = x)
  BY <1>1, <1>3, <1>4 DEF Unrecorded
<1>8. ~Refusal(req[r]) /\ ~Refusal(q) /\ \A t : ~Served(req[r], t)
  BY <1>3, <1>4 DEF Refusal, Served, Unrecorded
<1>9. BalancedSeries(r)
  <2> SUFFICES ASSUME NEW x \in Series
               PROVE  arrived'[x] + Bit(Unrecorded(req[r], x)) + requests[x] + raised[x] + limited[x] =
                          arrived[x] + Bit(Unrecorded(req'[r], x)) + requests'[x] + raised'[x] + limited'[x]
    BY DEF BalancedSeries
  <2>1. arrived'[x] = arrived[x] + Bit(<<caller, endpoint>> = x) /\ arrived[x] \in Nat
    <3>1. arrived \in [Traffic -> Nat] /\ x \in Traffic
      BY SeriesTypes DEF IInv, Counters
    <3> QED
      BY <1>3, <3>1 DEF Bit
  <2>2. requests'[x] = requests[x] /\ raised'[x] = raised[x] /\ limited'[x] = limited[x]
    BY <1>3 DEF metricsVars
  <2>3. requests[x] \in Nat /\ raised[x] \in Nat /\ limited[x] \in Nat
    BY SeriesTypes DEF IInv, Counters
  <2>4. /\ Bit(Unrecorded(req[r], x)) = 0
        /\ Bit(Unrecorded(req'[r], x)) = Bit(<<caller, endpoint>> = x)
        /\ Bit(<<caller, endpoint>> = x) \in Nat
    BY <1>5, <1>7 DEF Bit
  <2> QED
    BY <2>1, <2>2, <2>3, <2>4
<1>10. BalancedLimited(r)
  BY <1>3, <1>5, <1>8 DEF BalancedLimited, Bit, metricsVars
<1> QED
  BY <1>3, <1>6, <1>8, <1>9, <1>10, TallyStep

(* A 429 balances: it leaves the series of its caller and joins the 429s.  *)
LEMMA RateLimitedBalances ==
    ASSUME IInv, IInv', Books, NEW r \in Requests, RateLimited(r)
    PROVE  Books'
<1>1. Slot(req[r]) /\ req[r] \in Request /\ Label(req[r])
  BY DEF IInv, Slots, Books, Labelled
<1> DEFINE q == [req[r] EXCEPT !.pc = "answer", !.status = 429]
<1>2. /\ Become(r, q) /\ req[r].pc = "limit"
      /\ limited' = [limited EXCEPT ![Key(r)] = @ + 1] /\ refused' = refused + 1
      /\ UNCHANGED metricsVars /\ UNCHANGED <<arrived, raised>>
  BY DEF RateLimited, Answer, At
<1>3. /\ q.pc = "answer" /\ q.caller = req[r].caller /\ q.endpoint = req[r].endpoint
      /\ q.route = req[r].route /\ q.tenant = req[r].tenant
      /\ q.status = 429 /\ q.counted = req[r].counted
  BY <1>1 DEF Request
<1> HIDE DEF q
<1>4. req'[r] = q
  BY <1>2, Becomes DEF IInv
<1>5. Label(q)
  BY <1>1, <1>2, <1>3 DEF Label
<1>6. \A x : (Unrecorded(req[r], x) <=> Key(r) = x) /\ ~Unrecorded(q, x)
  BY <1>1, <1>2, <1>3 DEF Unrecorded, Label, Key
<1>7. ~Refusal(req[r]) /\ Refusal(q) /\ \A t : ~Served(req[r], t)
  BY <1>1, <1>2, <1>3 DEF Refusal, Served, Label
<1>8. BalancedSeries(r)
  <2> SUFFICES ASSUME NEW x \in Series
               PROVE  arrived'[x] + Bit(Unrecorded(req[r], x)) + requests[x] + raised[x] + limited[x] =
                          arrived[x] + Bit(Unrecorded(req'[r], x)) + requests'[x] + raised'[x] + limited'[x]
    BY DEF BalancedSeries
  <2>1. limited'[x] = limited[x] + Bit(Key(r) = x) /\ limited[x] \in Nat
    <3>1. limited \in [Traffic -> Nat] /\ x \in Traffic
      BY SeriesTypes DEF IInv, Counters
    <3> QED
      BY <1>2, <3>1 DEF Bit
  <2>2. requests'[x] = requests[x] /\ raised'[x] = raised[x] /\ arrived'[x] = arrived[x]
    BY <1>2 DEF metricsVars
  <2>3. requests[x] \in Nat /\ raised[x] \in Nat /\ arrived[x] \in Nat
    BY SeriesTypes DEF IInv, Counters
  <2>4. /\ Bit(Unrecorded(req'[r], x)) = 0
        /\ Bit(Unrecorded(req[r], x)) = Bit(Key(r) = x)
        /\ Bit(Key(r) = x) \in Nat
    BY <1>4, <1>6 DEF Bit
  <2> QED
    BY <2>1, <2>2, <2>3, <2>4
<1>9. BalancedLimited(r)
  <2>1. refused \in Nat /\ requests[Limited] \in Nat /\ requests' = requests
    BY <1>2, SeriesTypes DEF IInv, Counters, metricsVars
  <2> QED
    BY <1>2, <1>4, <1>7, <2>1 DEF BalancedLimited, Bit
<1> QED
  BY <1>2, <1>5, <1>7, <1>8, <1>9, TallyStep

(* An exception balances: readyz goes on, and elsewhere the request leaves *)
(* its series for those that raised.                                       *)
LEMMA RaiseBalances ==
    ASSUME IInv, IInv', Books, NEW r \in Requests, CheckOutFails(r) \/ StatementFails(r)
    PROVE  Books'
<1>1. Slot(req[r]) /\ req[r] \in Request /\ Label(req[r])
  BY DEF IInv, Slots, Books, Labelled
<1>2. Raise(r) /\ req[r].pc \in {"session", "refresh", "query", "load", "write", "reread"}
  BY DEF CheckOutFails, StatementFails, WantsConnection, At
<1>3. UNCHANGED metricsVars /\ UNCHANGED <<arrived, limited, refused>>
  BY <1>2 DEF Raise
<1>4. CASE req[r].endpoint = "readyz"
  <2> DEFINE q == Unready(r)
  <2>1. Become(r, q) /\ UNCHANGED raised
    BY <1>2, <1>4 DEF Raise
  <2>2. /\ q.pc = "ping" /\ q.caller = req[r].caller /\ q.endpoint = req[r].endpoint
        /\ q.route = req[r].endpoint /\ q.tenant = req[r].tenant
        /\ q.status = 503 /\ q.counted = req[r].counted
    BY <1>1 DEF Request, Unready
  <2> HIDE DEF q
  <2>3. Quiet(req[r], q)
    BY <1>1, <1>2, <2>2 DEF Quiet, Label
  <2>4. Label(q)
    BY <1>1, <1>2, <1>4, <2>2 DEF Label
  <2>5. UNCHANGED tallies
    BY <1>3, <2>1 DEF tallies
  <2> QED
    BY <1>3, <2>1, <2>3, <2>4, <2>5, QuietStep
<1>5. CASE req[r].endpoint # "readyz"
  <2>1. Become(r, Idle) /\ raised' = [raised EXCEPT ![Key(r)] = @ + 1]
    BY <1>2, <1>5 DEF Raise
  <2>2. req'[r] = Idle
    BY <2>1, Becomes DEF IInv
  <2>3. /\ \A x : Unrecorded(req[r], x) <=> Key(r) = x
        /\ ~Refusal(req[r]) /\ \A t : ~Served(req[r], t)
    BY <1>1, <1>2 DEF Unrecorded, Refusal, Served, Label, Key
  <2>4. BalancedSeries(r)
    <3> SUFFICES ASSUME NEW x \in Series
                 PROVE  arrived'[x] + Bit(Unrecorded(req[r], x)) + requests[x] + raised[x] + limited[x] =
                            arrived[x] + Bit(Unrecorded(req'[r], x)) + requests'[x] + raised'[x] + limited'[x]
      BY DEF BalancedSeries
    <3>1. raised'[x] = raised[x] + Bit(Key(r) = x) /\ raised[x] \in Nat
      <4>1. raised \in [Traffic -> Nat] /\ x \in Traffic
        BY SeriesTypes DEF IInv, Counters
      <4> QED
        BY <2>1, <4>1 DEF Bit
    <3>2. requests'[x] = requests[x] /\ limited'[x] = limited[x] /\ arrived'[x] = arrived[x]
      BY <1>3 DEF metricsVars
    <3>3. requests[x] \in Nat /\ limited[x] \in Nat /\ arrived[x] \in Nat
      BY SeriesTypes DEF IInv, Counters
    <3>4. /\ Bit(Unrecorded(req'[r], x)) = 0
          /\ Bit(Unrecorded(req[r], x)) = Bit(Key(r) = x)
          /\ Bit(Key(r) = x) \in Nat
      BY <2>2, <2>3, IdleIsQuiet DEF Bit
    <3> QED
      BY <3>1, <3>2, <3>3, <3>4
  <2>5. BalancedLimited(r)
    BY <1>3, <2>2, <2>3, IdleIsQuiet DEF BalancedLimited, Bit, metricsVars
  <2>6. Label(Idle)
    BY IdleIsQuiet
  <2> QED
    BY <1>3, <2>1, <2>3, <2>4, <2>5, <2>6, TallyStep
<1> QED
  BY <1>4, <1>5

(* An evaluation balances: one sample for one answer of its tenant.        *)
LEMMA EvaluateBalances ==
    ASSUME IInv, IInv', Books, NEW r \in Requests, NEW d \in Durations, Evaluate(r, d)
    PROVE  Books'
<1>1. Slot(req[r]) /\ req[r] \in Request /\ Label(req[r])
  BY DEF IInv, Slots, Books, Labelled
<1> DEFINE q == [req[r] EXCEPT !.pc = "answer", !.status = 200]
           Sample == [duration : Durations, tenant : Tenants]
           y == [duration |-> d, tenant |-> req[r].tenant]
<1>2. /\ Become(r, q) /\ req[r].pc = "evaluate" /\ samples' = Appended(samples, y)
      /\ UNCHANGED <<requests, errors>> /\ UNCHANGED <<arrived, raised, limited, refused>>
  BY DEF Evaluate, Answer, At, record_evaluation, tallies
<1>3. /\ q.pc = "answer" /\ q.caller = req[r].caller /\ q.endpoint = req[r].endpoint
      /\ q.route = req[r].route /\ q.tenant = req[r].tenant
      /\ q.status = 200 /\ q.counted = req[r].counted
  BY <1>1 DEF Request
<1>4. /\ req[r].tenant \in Tenants /\ req[r].tenant = req[r].caller
      /\ req[r].endpoint = "evaluate" /\ ~req[r].counted /\ req[r].status # 429
  BY <1>1, <1>2 DEF Slot, Label
<1>5. y \in Sample /\ samples \in Seq(Sample) /\ y.tenant = req[r].tenant
  BY <1>4 DEF IInv, Counters
<1> HIDE DEF q, y, Sample
<1>6. OnlyRequest(r) /\ req'[r] = q
  BY <1>2, Becomes DEF IInv
<1>7. Label(q)
  BY <1>1, <1>2, <1>3, <1>4 DEF Label
<1>8. BalancedSeries(r) /\ BalancedLimited(r)
  <2>1. \A x : Unrecorded(q, x) <=> Unrecorded(req[r], x)
    BY <1>2, <1>3, <1>4 DEF Unrecorded
  <2>2. Refusal(q) <=> Refusal(req[r])
    BY <1>2, <1>3, <1>4 DEF Refusal
  <2> QED
    BY <1>2, <1>6, <2>1, <2>2 DEF BalancedSeries, BalancedLimited, Bit
<1>9. BalancedSamples(r)
  <2> SUFFICES ASSUME NEW t \in Tenants
               PROVE  EvaluationsOf(t)' + requests[<<t, "evaluate">>] + Bit(Served(req[r], t)) <=
                          EvaluationsOf(t) + requests'[<<t, "evaluate">>] + Bit(Served(req'[r], t))
    BY DEF BalancedSamples
  <2>1. /\ EvaluationsOf(t) = Cardinality(SamplesOf(samples, t))
        /\ EvaluationsOf(t)' = Cardinality(SamplesOf(samples', t))
    BY DEF EvaluationsOf, SamplesOf
  <2>2. /\ Cardinality(SamplesOf(Appended(samples, y), t)) <=
               Cardinality(SamplesOf(samples, t)) + Bit(y.tenant = t)
        /\ Cardinality(SamplesOf(samples, t)) \in Nat
    BY <1>5, AppendedSamples, SamplesCounted
  <2>3. Cardinality(SamplesOf(samples', t)) \in Nat
    <3>1. PICK S : samples' \in Seq(S)
      BY DEF IInv, Counters
    <3> QED
      BY <3>1, SamplesCounted
  <2>4. /\ Bit(Served(req[r], t)) = 0
        /\ Bit(Served(req'[r], t)) = Bit(y.tenant = t)
        /\ Bit(y.tenant = t) \in Nat
    <3>1. ~Served(req[r], t)
      BY <1>2 DEF Served
    <3>2. Served(q, t) <=> y.tenant = t
      BY <1>3, <1>4, <1>5 DEF Served, Unrecorded
    <3> QED
      BY <1>6, <3>1, <3>2 DEF Bit
  <2>5. requests[<<t, "evaluate">>] \in Nat /\ requests' = requests
    BY <1>2, SeriesTypes DEF IInv, Counters
  <2>6. EvaluationsOf(t)' <= EvaluationsOf(t) + Bit(y.tenant = t)
    BY <1>2, <2>1, <2>2
  <2>7. EvaluationsOf(t)' \in Nat /\ EvaluationsOf(t) \in Nat
    BY <2>1, <2>2, <2>3
  <2> QED
    BY <2>4, <2>5, <2>6, <2>7
<1> QED
  BY <1>6, <1>7, <1>8, <1>9, BalanceKeeps

(* Closing the session balances: only a request that was counted leaves.   *)
LEMMA CloseSessionBalances ==
    ASSUME IInv, IInv', Books, NEW r \in Requests, CloseSession(r)
    PROVE  Books'
<1>1. Slot(req[r]) /\ req[r] \in Request /\ Label(req[r])
  BY DEF IInv, Slots, Books, Labelled
<1> DEFINE p == [req[r] EXCEPT !.conn = FALSE]
<1>2. /\ Become(r, Left(p)) /\ req[r].pc = "answer"
      /\ UNCHANGED metricsVars /\ UNCHANGED tallies
  BY DEF CloseSession, At
<1>3. /\ p.pc = req[r].pc /\ p.caller = req[r].caller /\ p.endpoint = req[r].endpoint
      /\ p.route = req[r].route /\ p.tenant = req[r].tenant
      /\ p.status = req[r].status /\ p.counted = req[r].counted /\ p.conn = FALSE
  BY <1>1 DEF Request
<1> HIDE DEF p
<1>4. CASE ~req[r].counted
  <2>1. Left(p) = p
    BY <1>3, <1>4 DEF Left
  <2>2. Quiet(req[r], p)
    BY <1>2, <1>3 DEF Quiet
  <2>3. Label(p)
    BY <1>1, <1>3 DEF Label
  <2> QED
    BY <1>2, <2>1, <2>2, <2>3, QuietStep
<1>5. CASE req[r].counted
  <2>1. Left(p) = Idle
    BY <1>3, <1>5 DEF Left
  <2>2. req'[r] = Idle
    BY <1>2, <2>1, Becomes DEF IInv
  <2>3. /\ \A x : ~Unrecorded(req[r], x)
        /\ ~Refusal(req[r]) /\ \A t : ~Served(req[r], t)
    BY <1>5 DEF Unrecorded, Refusal, Served
  <2>4. BalancedSeries(r)
    BY <1>2, <2>2, <2>3, IdleIsQuiet DEF BalancedSeries, Bit, metricsVars, tallies
  <2>5. BalancedLimited(r)
    BY <1>2, <2>2, <2>3, IdleIsQuiet DEF BalancedLimited, Bit, metricsVars, tallies
  <2>6. Label(Idle)
    BY IdleIsQuiet
  <2> QED
    BY <1>2, <2>1, <2>3, <2>4, <2>5, <2>6, TallyStep
<1> QED
  BY <1>4, <1>5

(* The label of a request says what it is to be counted for.               *)
LEMMA LabelMeans ==
    ASSUME NEW p \in Request, Label(p), p.pc = "answer", ~p.counted
    PROVE  /\ \A x \in Series : Unrecorded(p, x) <=> <<p.tenant, p.route>> = x
           /\ Refusal(p) <=> <<p.tenant, p.route>> = Limited
<1>1. /\ p.caller \in Callers /\ p.endpoint \in Endpoints
  BY DEF Request
<1>2. ASSUME NEW x \in Series
      PROVE  Unrecorded(p, x) <=> <<p.tenant, p.route>> = x
  <2>1. PICK t \in Tenants, e \in Endpoints : x = <<t, e>>
    BY DEF Series
  <2>2. CASE p.status = 429
    BY <2>1, <2>2, MetricsAssumption DEF Label, Unrecorded
  <2>3. CASE p.status # 429
    BY <2>1, <2>3 DEF Label, Unrecorded
  <2> QED
    BY <2>2, <2>3
<1>3. Refusal(p) <=> <<p.tenant, p.route>> = Limited
  <2>1. Unrouted \notin Endpoints
    BY DEF Unrouted, Endpoints
  <2>2. CASE p.status = 429
    BY <2>2 DEF Label, Refusal, Limited
  <2>3. CASE p.status # 429
    BY <1>1, <2>1, <2>3 DEF Label, Refusal, Limited
  <2> QED
    BY <2>2, <2>3
<1> QED
  BY <1>2, <1>3

(* Counting a request balances: its label is where it was to be counted.   *)
LEMMA RecordRequestBalances ==
    ASSUME IInv, IInv', Books, NEW r \in Requests, RecordRequest(r)
    PROVE  Books'
<1>1. Slot(req[r]) /\ req[r] \in Request /\ Label(req[r])
  BY DEF IInv, Slots, Books, Labelled
<1> DEFINE p == [req[r] EXCEPT !.counted = TRUE]
           q == Left(p)
           label == <<req[r].tenant, req[r].route>>
<1>2. /\ Become(r, q) /\ req[r].pc = "answer" /\ ~req[r].counted
      /\ requests' = [requests EXCEPT ![label] = @ + 1] /\ samples' = samples
      /\ UNCHANGED <<arrived, raised, limited, refused>>
  BY DEF RecordRequest, record_request, At, tallies
<1>3. /\ p.pc = req[r].pc /\ p.caller = req[r].caller /\ p.endpoint = req[r].endpoint
      /\ p.route = req[r].route /\ p.tenant = req[r].tenant
      /\ p.status = req[r].status /\ p.counted = TRUE
  BY <1>1 DEF Request
<1> HIDE DEF p
<1>4. q \in {p, Idle}
  BY DEF Left
<1>5. /\ Label(q) /\ ~Refusal(q)
      /\ \A x : ~Unrecorded(q, x)
      /\ \A t : ~Served(q, t)
  <2>1. Label(p)
    BY <1>1, <1>2, <1>3 DEF Label
  <2>2. ~Refusal(p) /\ (\A x : ~Unrecorded(p, x)) /\ \A t : ~Served(p, t)
    BY <1>3 DEF Refusal, Unrecorded, Served
  <2> QED
    BY <1>4, <2>1, <2>2, IdleIsQuiet
<1> HIDE DEF q
<1>6. OnlyRequest(r) /\ req'[r] = q
  BY <1>2, Becomes DEF IInv
<1>7. /\ \A x \in Series : Unrecorded(req[r], x) <=> label = x
      /\ Refusal(req[r]) <=> label = Limited
  BY <1>1, <1>2, LabelMeans
<1>8. \A l \in Labels : requests'[l] = requests[l] + Bit(label = l) /\ requests[l] \in Nat
  <2>1. requests \in [Labels -> Nat]
    BY DEF IInv, Counters
  <2> HIDE DEF label
  <2> QED
    BY <1>2, <2>1 DEF Bit
<1> HIDE DEF label
<1>9. BalancedSeries(r)
  <2> SUFFICES ASSUME NEW x \in Series
               PROVE  arrived'[x] + Bit(Unrecorded(req[r], x)) + requests[x] + raised[x] + limited[x] =
                          arrived[x] + Bit(Unrecorded(req'[r], x)) + requests'[x] + raised'[x] + limited'[x]
    BY DEF BalancedSeries
  <2>1. requests'[x] = requests[x] + Bit(label = x) /\ requests[x] \in Nat
    BY <1>8, SeriesTypes
  <2>2. raised'[x] = raised[x] /\ limited'[x] = limited[x] /\ arrived'[x] = arrived[x]
    BY <1>2
  <2>3. raised[x] \in Nat /\ limited[x] \in Nat /\ arrived[x] \in Nat
    BY SeriesTypes DEF IInv, Counters
  <2>4. /\ Bit(Unrecorded(req'[r], x)) = 0
        /\ Bit(Unrecorded(req[r], x)) = Bit(label = x)
        /\ Bit(label = x) \in Nat
    BY <1>5, <1>6, <1>7 DEF Bit
  <2> QED
    BY <2>1, <2>2, <2>3, <2>4
<1>10. BalancedLimited(r)
  <2>1. requests'[Limited] = requests[Limited] + Bit(label = Limited) /\ requests[Limited] \in Nat
    BY <1>8, SeriesTypes
  <2>2. /\ Bit(Refusal(req'[r])) = 0 /\ Bit(Refusal(req[r])) = Bit(label = Limited)
        /\ Bit(label = Limited) \in Nat
    BY <1>5, <1>6, <1>7 DEF Bit
  <2>3. refused' = refused /\ refused \in Nat
    BY <1>2 DEF IInv, Counters
  <2> QED
    BY <2>1, <2>2, <2>3 DEF BalancedLimited
<1>11. BalancedSamples(r)
  <2>1. ASSUME NEW t \in Tenants
        PROVE  requests[<<t, "evaluate">>] + Bit(Served(req[r], t)) <=
                   requests'[<<t, "evaluate">>] + Bit(Served(req'[r], t))
    <3>1. PICK x \in Series : x = <<t, "evaluate">>
      BY SeriesTypes
    <3>2. requests'[x] = requests[x] + Bit(label = x) /\ requests[x] \in Nat
      BY <1>8, SeriesTypes
    <3>3. Bit(Served(req[r], t)) = Bit(label = x) /\ Bit(Served(req'[r], t)) = 0
      BY <1>2, <1>5, <1>6, <1>7, <3>1 DEF Bit, Served
    <3>4. Bit(label = x) \in Nat
      BY DEF Bit
    <3> QED
      BY <3>1, <3>2, <3>3, <3>4
  <2> QED
    BY <1>2, <2>1, SamplesBalance
<1> QED
  BY <1>5, <1>6, <1>9, <1>10, <1>11, BalanceKeeps

(* Nothing the books are about changes.                                    *)
SameCounts ==
    /\ UNCHANGED metricsVars /\ UNCHANGED tallies
    /\ \A r \in Requests :
        /\ req'[r].pc = req[r].pc /\ req'[r].caller = req[r].caller
        /\ req'[r].endpoint = req[r].endpoint /\ req'[r].route = req[r].route
        /\ req'[r].tenant = req[r].tenant /\ req'[r].status = req[r].status
        /\ req'[r].counted = req[r].counted

(* The comings and goings of PostgreSQL leave the books alone.             *)
LEMMA BooksKept ==
    ASSUME Books, SameCounts
    PROVE  Books'
<1>1. Labelled'
  BY DEF Books, Labelled, Label, SameCounts
<1>2. /\ arrived' = arrived /\ requests' = requests /\ raised' = raised /\ limited' = limited
      /\ refused' = refused /\ samples' = samples
  BY DEF SameCounts, metricsVars, tallies
<1>3. SeriesComplete'
  <2>1. ASSUME NEW x
        PROVE  Uncounted(x)' = Uncounted(x)
    <3>1. {r \in InProgress' : Key(r)' = x /\ ~req'[r].counted /\ req'[r].status # 429}
              = {r \in InProgress : Key(r) = x /\ ~req[r].counted /\ req[r].status # 429}
      BY DEF SameCounts, InProgress, Key
    <3> QED
      BY <3>1 DEF Uncounted
  <2> QED
    BY <1>2, <2>1 DEF Books, SeriesComplete
<1>4. LimitedIsCounted'
  <2>1. {r \in InProgress' : req'[r].status = 429 /\ ~req'[r].counted}
            = {r \in InProgress : req[r].status = 429 /\ ~req[r].counted}
    BY DEF SameCounts, InProgress
  <2> QED
    BY <1>2, <2>1 DEF Books, LimitedIsCounted
<1>5. Evaluated'
  <2>1. ASSUME NEW t
        PROVE  {r \in Requests : Served(req'[r], t)} = {r \in Requests : Served(req[r], t)}
    BY DEF SameCounts, Served, Unrecorded
  <2>2. ASSUME NEW t
        PROVE  EvaluationsOf(t)' = EvaluationsOf(t)
    BY <1>2 DEF EvaluationsOf
  <2> QED
    BY <1>2, <2>1, <2>2 DEF Books, Evaluated
<1> QED
  BY <1>1, <1>3, <1>4, <1>5 DEF Books

(* An instance starts with empty books.                                    *)
LEMMA InitBooks == Init => Books
<1> SUFFICES ASSUME Init PROVE Books
  OBVIOUS
<1>1. \A r \in Requests : req[r] = Idle
  BY DEF Init
<1>2. Labelled
  BY <1>1, IdleIsQuiet DEF Labelled
<1>3. \A r \in Requests : req[r].pc = "idle"
  BY <1>1 DEF Idle
<1>4. InProgress = {}
  BY <1>3 DEF InProgress
<1>5. SeriesComplete
  <2>1. \A x : Uncounted(x) = 0
    BY <1>4, FS_EmptySet DEF Uncounted
  <2> QED
    BY <2>1, SeriesTypes DEF Init, MetricsInit, SeriesComplete, Series
<1>6. LimitedIsCounted
  <2>1. {r \in InProgress : req[r].status = 429 /\ ~req[r].counted} = {}
    BY <1>4
  <2>2. requests[Limited] = 0 /\ refused = 0
    BY SeriesTypes DEF Init, MetricsInit
  <2> QED
    BY <2>1, <2>2, FS_EmptySet DEF LimitedIsCounted, Limited
<1>7. Evaluated
  <2>1. \A t : EvaluationsOf(t) = 0
    <3>1. \A t : {i \in 1..Len(samples) : samples[i].tenant = t} = {}
      BY DEF Init, MetricsInit
    <3> QED
      BY <3>1, FS_EmptySet DEF EvaluationsOf
  <2>2. \A t : {r \in Requests : Served(req[r], t)} = {}
    BY <1>1, IdleIsQuiet
  <2>3. \A t \in Tenants : requests[<<t, "evaluate">>] = 0
    BY SeriesTypes DEF Init, MetricsInit
  <2>4. \A t : Cardinality({r \in Requests : Served(req[r], t)}) = 0
    BY <2>2, FS_EmptySet
  <2>5. \A t \in Tenants :
            EvaluationsOf(t) <= requests[<<t, "evaluate">>]
                                + Cardinality({r \in Requests : Served(req[r], t)})
    <3> SUFFICES ASSUME NEW t \in Tenants
                 PROVE  EvaluationsOf(t) <= requests[<<t, "evaluate">>]
                            + Cardinality({r \in Requests : Served(req[r], t)})
      OBVIOUS
    <3>1. /\ EvaluationsOf(t) = 0 /\ requests[<<t, "evaluate">>] = 0
          /\ Cardinality({r \in Requests : Served(req[r], t)}) = 0
      BY <2>1, <2>3, <2>4
    <3> QED
      BY <3>1
  <2> QED
    BY <2>5 DEF Evaluated
<1> QED
  BY <1>2, <1>5, <1>6, <1>7 DEF Books

(* Every step keeps the books.                                             *)
LEMMA NextBooks == IInv /\ IInv' /\ Books /\ [Next]_vars => Books'
<1> SUFFICES ASSUME IInv, IInv', Books, [Next]_vars PROVE Books'
  OBVIOUS
<1>1. ASSUME NEW r \in Requests, RequestStep(r)
      PROVE  Books'
  <2>1. CASE RateLimited(r)
    BY <2>1, RateLimitedBalances
  <2>2. CASE Unauthenticated(r)
    BY <2>2, UnauthenticatedQuiet
  <2>3. CASE CheckOut(r)
    BY <2>3, CheckOutQuiet
  <2>4. CASE CheckOutFails(r) \/ StatementFails(r)
    BY <2>4, RaiseBalances
  <2>5. CASE Authenticate(r)
    BY <2>5, AuthenticateQuiet
  <2>6. CASE PassLimiter(r) \/ LookupHit(r) \/ LookupMiss(r) \/ Load(r)
    BY <2>6, GotoQuiet
  <2>7. CASE Rejected(r) \/ Forbidden(r) \/ HandleFlags(r) \/ Refresh(r) \/ Ping(r)
    BY <2>7, AnswerQuiet
  <2>8. CASE \E d \in Durations : Evaluate(r, d)
    BY <2>8, EvaluateBalances
  <2>9. CASE SelectOne(r) \/ Conflict(r) \/ CommitFlags(r)
    BY <2>9, ReleaseQuiet
  <2>10. CASE CloseSession(r)
    BY <2>10, CloseSessionBalances
  <2>11. CASE RecordRequest(r)
    BY <2>11, RecordRequestBalances
  <2> QED
    BY <1>1, <2>1, <2>2, <2>3, <2>4, <2>5, <2>6, <2>7, <2>8, <2>9, <2>10, <2>11 DEF RequestStep
<1>2. ASSUME NEW r \in Requests, NEW caller \in Callers, NEW endpoint \in Endpoints,
             Arrive(r, caller, endpoint)
      PROVE  Books'
  BY <1>2, ArriveBalances
<1>3. CASE DatabaseFails
  <2>1. /\ req' = [r \in Requests |-> [req[r] EXCEPT !.down = r \in InProgress]]
        /\ UNCHANGED metricsVars /\ UNCHANGED tallies
    BY <1>3 DEF DatabaseFails
  <2>2. req \in [Requests -> Request]
    BY DEF IInv, Slots
  <2>3. SameCounts
    BY <2>1, <2>2 DEF SameCounts, Request
  <2> QED
    BY <2>3, BooksKept
<1>4. CASE DatabaseRecovers \/ UNCHANGED vars
  <2>1. SameCounts
    BY <1>4 DEF DatabaseRecovers, SameCounts, vars, metricsVars, tallies
  <2> QED
    BY <2>1, BooksKept
<1> QED
  BY <1>1, <1>2, <1>3, <1>4 DEF Next

(* What GET /metrics shows accounts for every request of the instance's    *)
(* life, for every number of tenants and overlapping requests: each is     *)
(* counted once where it belongs, as a 429, or raised, and no evaluation   *)
(* leaves a sample without an answer.                                      *)
THEOREM MetricsAddUp == Spec => []MetricsAccount
<1>1. IInv /\ Books => MetricsAccount
  <2> SUFFICES ASSUME IInv, Books PROVE SamplesAreServed
    BY DEF Books, MetricsAccount
  <2> DEFINE Answered(t) == {r \in InProgress : /\ Key(r) = <<t, "evaluate">> /\ At(r, "answer")
                                                 /\ ~req[r].counted}
             Open(t) == {r \in Requests : Served(req[r], t)}
  <2> SUFFICES ASSUME NEW t \in Tenants
               PROVE  EvaluationsOf(t) <= requests[<<t, "evaluate">>] + Cardinality(Answered(t))
    BY DEF SamplesAreServed
  <2>1. Open(t) \in SUBSET Answered(t) /\ Answered(t) \in SUBSET Requests
    BY DEF Served, Unrecorded, InProgress, Key, At
  <2>2. EvaluationsOf(t) <= requests[<<t, "evaluate">>] + Cardinality(Open(t))
    BY DEF Books, Evaluated
  <2> HIDE DEF Open, Answered
  <2>3. IsFiniteSet(Answered(t)) /\ IsFiniteSet(Open(t))
    BY <2>1, InstanceAssumption, FS_Subset
  <2>4. /\ Cardinality(Open(t)) <= Cardinality(Answered(t))
        /\ Cardinality(Open(t)) \in Nat /\ Cardinality(Answered(t)) \in Nat
    BY <2>1, <2>3, FS_Subset, FS_CardinalityType
  <2>5. requests[<<t, "evaluate">>] \in Nat
    BY SeriesTypes DEF IInv, Counters
  <2>6. EvaluationsOf(t) \in Nat
    <3>1. EvaluationsOf(t) = Cardinality(SamplesOf(samples, t))
      BY DEF EvaluationsOf, SamplesOf
    <3>2. PICK S : samples \in Seq(S)
      BY DEF IInv, Counters
    <3> QED
      BY <3>1, <3>2, SamplesCounted
  <2> QED
    BY <2>2, <2>4, <2>5, <2>6
<1>2. Spec => []Books
  BY Invariance, InitBooks, NextBooks, PTL DEF Spec
<1> QED
  BY <1>1, <1>2, Invariance, PTL

----------------------------------------------------------------------------
(* The percentiles of GET /metrics.                                        *)

(* Every list of numbers can be sorted: its places ordered by rank, the    *)
(* number of places that hold less, or the same and come no later.         *)
LEMMA SortExists ==
    ASSUME NEW n \in Nat, NEW v \in [1..n -> Nat]
    PROVE  \E p \in [1..n -> 1..n] : Sorts(p, v)
<1> DEFINE D == 1..n
           Less(i, j) == v[i] < v[j] \/ (v[i] = v[j] /\ i < j)
           Below(j) == {i \in D : i = j \/ Less(i, j)}
           rank == [i \in D |-> Cardinality(Below(i))]
<1>1. IsFiniteSet(D) /\ Cardinality(D) = n
  BY FS_Interval
<1>2. \A i \in D : i \in Nat /\ v[i] \in Nat
  OBVIOUS
<1>3. \A i \in D : Below(i) \in SUBSET D /\ i \in Below(i)
  OBVIOUS
<1>4. \A i, j \in D : i # j => Less(i, j) \/ Less(j, i)
  BY <1>2
<1>5. \A i, j \in D : Less(i, j) => Below(i) \in SUBSET Below(j) /\ j \notin Below(i)
  BY <1>2
<1>6. \A i, j \in D : v[i] < v[j] => Less(i, j)
  OBVIOUS
<1>7. D = 1..n
  OBVIOUS
<1> HIDE DEF D, Less, Below
<1>8. \A i \in D : /\ IsFiniteSet(Below(i)) /\ Cardinality(Below(i)) \in Nat
                   /\ Cardinality(Below(i)) <= n /\ Cardinality(Below(i)) # 0
  <2> SUFFICES ASSUME NEW i \in D
               PROVE  /\ IsFiniteSet(Below(i)) /\ Cardinality(Below(i)) \in Nat
                      /\ Cardinality(Below(i)) <= n /\ Cardinality(Below(i)) # 0
    OBVIOUS
  <2>1. Below(i) \in SUBSET D /\ Below(i) # {}
    BY <1>3
  <2>2. IsFiniteSet(Below(i)) /\ Cardinality(Below(i)) <= n
    BY <1>1, <2>1, FS_Subset
  <2>3. Cardinality(Below(i)) \in Nat /\ Cardinality(Below(i)) # 0
    BY <2>1, <2>2, FS_CardinalityType, FS_EmptySet
  <2> QED
    BY <2>2, <2>3
<1>9. rank \in [D -> D] /\ \A i \in D : rank[i] \in Nat
  BY <1>7, <1>8
<1>10. ASSUME NEW i \in D, NEW j \in D, Less(i, j) PROVE rank[i] < rank[j]
  <2>1. Below(i) \in SUBSET Below(j) /\ j \notin Below(i) /\ j \in Below(j)
    BY <1>3, <1>5, <1>10
  <2>2. Below(i) # Below(j)
    BY <2>1
  <2>3. Cardinality(Below(i)) <= Cardinality(Below(j)) /\ Cardinality(Below(j)) # Cardinality(Below(i))
    BY <1>8, <2>1, <2>2, FS_Subset
  <2> QED
    BY <1>8, <2>3
<1> HIDE DEF rank
<1>11. rank \in Injection(D, D)
  <2>1. \A i, j \in D : i # j => rank[i] # rank[j]
    BY <1>4, <1>9, <1>10
  <2> QED
    BY <1>9, <2>1 DEF Injection, IsInjective
<1>12. \A m \in D : \E i \in D : rank[i] = m
  <2>1. rank \in Surjection(D, D)
    BY <1>1, <1>11, FS_Injection
  <2> QED
    BY <2>1 DEF Surjection
<1> DEFINE p == [m \in D |-> CHOOSE i \in D : rank[i] = m]
<1>13. p \in [D -> D] /\ \A m \in D : rank[p[m]] = m
  BY <1>12
<1> HIDE DEF p
<1>14. ASSUME NEW m \in D, NEW l \in D, m < l
       PROVE  p[m] # p[l] /\ v[p[m]] <= v[p[l]]
  <2>1. m \in Nat /\ l \in Nat /\ v[p[m]] \in Nat /\ v[p[l]] \in Nat
    BY <1>2, <1>13
  <2>2. p[m] # p[l]
    BY <1>13, <1>14, <2>1
  <2>3. ~(v[p[l]] < v[p[m]])
    <3>1. v[p[l]] < v[p[m]] => rank[p[l]] < rank[p[m]]
      BY <1>6, <1>10, <1>13
    <3> QED
      BY <1>13, <1>14, <2>1, <3>1
  <2> QED
    BY <2>1, <2>2, <2>3
<1>15. DOMAIN v = D
  BY <1>7
<1> QED
  BY <1>7, <1>13, <1>14, <1>15 DEF Sorts

(* The places of a list that hold no more than x, and no less.             *)
NotAbove(n, v, x) == {i \in 1..n : v[i] <= x}
NotBelow(n, v, x) == {i \in 1..n : v[i] >= x}

(* Places a to b of an order are as many as the places they are of.        *)
LEMMA PlacesCounted ==
    ASSUME NEW n \in Nat, NEW v \in [1..n -> Nat], NEW p \in [1..n -> 1..n], Sorts(p, v),
           NEW T \in SUBSET (1..n), NEW a \in 1..n, NEW b \in 1..n, a <= b,
           \A i \in a..b : p[i] \in T
    PROVE  Cardinality(T) \in Nat /\ (b - a) + 1 <= Cardinality(T)
<1> DEFINE f == [i \in a..b |-> p[i]]
<1>1. DOMAIN v = 1..n
  OBVIOUS
<1>2. IsFiniteSet(T) /\ Cardinality(T) \in Nat
  <2>1. IsFiniteSet(1..n)
    BY FS_Interval
  <2> QED
    BY <2>1, FS_Subset, FS_CardinalityType
<1>3. \A i \in a..b : i \in 1..n
  OBVIOUS
<1>4. f \in Injection(a..b, T)
  <2>1. ASSUME NEW i \in a..b, NEW j \in a..b, i # j PROVE p[i] # p[j]
    <3>1. i \in 1..n /\ j \in 1..n /\ (i < j \/ j < i)
      BY <1>3, <2>1
    <3> QED
      BY <1>1, <3>1 DEF Sorts
  <2>2. f \in [a..b -> T]
    OBVIOUS
  <2> QED
    BY <2>1, <2>2 DEF Injection, IsInjective
<1> HIDE DEF f
<1>5. Cardinality(a..b) = (b - a) + 1
  BY FS_Interval
<1>6. Cardinality(a..b) <= Cardinality(T)
  BY <1>2, <1>4, FS_Injection
<1> QED
  BY <1>2, <1>5, <1>6

(* sorted() returns the list's own values; the value at place m is not     *)
(* below those of m places, and not above those of all but m - 1 places.   *)
LEMMA SortedCovers ==
    ASSUME NEW n \in Nat, NEW v \in [1..n -> Nat], NEW m \in 1..n
    PROVE  \E k \in 1..n :
               /\ Sorted(v)[m] = v[k]
               /\ m <= Cardinality(NotAbove(n, v, v[k]))
               /\ (n - m) + 1 <= Cardinality(NotBelow(n, v, v[k]))
<1> DEFINE p == CHOOSE x \in [DOMAIN v -> DOMAIN v] : Sorts(x, v)
<1>1. DOMAIN v = 1..n
  OBVIOUS
<1>2. p \in [1..n -> 1..n] /\ Sorts(p, v)
  BY <1>1, SortExists
<1>3. Sorted(v)[m] = v[p[m]]
  BY <1>1 DEF Sorted
<1> HIDE DEF p
<1>4. ASSUME NEW i \in 1..n, NEW j \in 1..n, i <= j
      PROVE  v[p[i]] <= v[p[j]] /\ p[i] \in 1..n /\ p[j] \in 1..n
  <2>1. p[i] \in 1..n /\ p[j] \in 1..n /\ v[p[i]] \in Nat
    BY <1>2
  <2>2. CASE i = j
    BY <2>1, <2>2
  <2>3. CASE i < j
    BY <1>1, <1>2, <2>1, <2>3 DEF Sorts
  <2> QED
    BY <1>4, <2>1, <2>2, <2>3
<1> DEFINE A == NotAbove(n, v, v[p[m]])
           B == NotBelow(n, v, v[p[m]])
<1>5. \A i \in 1..m : p[i] \in A
  BY <1>4 DEF NotAbove
<1>6. \A i \in m..n : p[i] \in B
  <2> SUFFICES ASSUME NEW i \in m..n PROVE p[i] \in B
    OBVIOUS
  <2>1. v[p[m]] <= v[p[i]] /\ p[i] \in 1..n /\ p[m] \in 1..n
    BY <1>4
  <2> QED
    BY <2>1 DEF NotBelow
<1>7. A \in SUBSET (1..n) /\ B \in SUBSET (1..n)
  BY DEF NotAbove, NotBelow
<1> HIDE DEF A, B
<1>8. m <= Cardinality(A)
  <2>1. 1 \in 1..n /\ 1 <= m
    OBVIOUS
  <2>2. PICK a \in 1..n : a = 1
    BY <2>1
  <2>3. Cardinality(A) \in Nat /\ (m - a) + 1 <= Cardinality(A)
    BY <1>2, <1>5, <1>7, <2>1, <2>2, PlacesCounted
  <2> QED
    BY <2>2, <2>3
<1>9. (n - m) + 1 <= Cardinality(B)
  <2>1. PICK b \in 1..n : b = n
    OBVIOUS
  <2>2. m <= b /\ \A i \in m..b : p[i] \in B
    BY <1>6, <2>1
  <2>3. (b - m) + 1 <= Cardinality(B)
    BY <1>2, <1>7, <2>2, PlacesCounted
  <2> QED
    BY <2>1, <2>3
<1>10. p[m] \in 1..n
  BY <1>2
<1> QED
  BY <1>3, <1>8, <1>9, <1>10 DEF A, B

(* The place of a percentile: within the list, not before its share, and   *)
(* with no more before it than its share.                                  *)
LEMMA PercentilePlace ==
    ASSUME NEW n \in Nat, n # 0, NEW pct \in {50, 95, 99}
    PROVE  LET index == IF (n * pct) \div 100 < n - 1 THEN (n * pct) \div 100 ELSE n - 1
           IN  /\ index + 1 \in 1..n
               /\ 100 * (index + 1) >= pct * n
               /\ 100 * (n - index) >= (100 - pct) * n
<1>1. CASE pct = 50
  BY <1>1
<1>2. CASE pct = 95
  BY <1>2
<1>3. CASE pct = 99
  BY <1>3
<1> QED
  BY <1>1, <1>2, <1>3

(* Division with rest.                                                     *)
LEMMA Divided ==
    ASSUME NEW x \in Nat
    PROVE  /\ x = (Grain * (x \div Grain)) + (x % Grain)
           /\ x % Grain \in Nat /\ x % Grain < Grain /\ x \div Grain \in Nat
BY MetricsAssumption

(* round() to the nearest number of thousandths.                           *)
LEMMA RoundNearest ==
    ASSUME NEW x \in Nat
    PROVE  round3(x) \in Nat /\ Nearest(x, round3(x))
<1>1. PICK q \in Nat, s \in Nat : /\ q = x \div Grain /\ s = x % Grain
                                  /\ x = (Grain * q) + s /\ s < Grain
  BY Divided
<1>2. Grain \in Nat /\ Grain * q \in Nat
  BY MetricsAssumption
<1>5. PICK m \in Nat : m = Grain * q
  BY <1>2
<1>6. /\ (2 * q + 1) * Grain = (2 * m) + Grain /\ (2 * q - 1) * Grain = (2 * m) - Grain
      /\ (2 * (q + 1) + 1) * Grain = (2 * m) + (3 * Grain)
      /\ (2 * (q + 1) - 1) * Grain = (2 * m) + Grain
  BY <1>2, <1>5
<1>3. CASE 2 * s < Grain \/ (2 * s = Grain /\ q % 2 = 0)
  <2>1. round3(x) = q
    BY <1>1, <1>3 DEF round3
  <2>2. 2 * x <= (2 * m) + Grain /\ 2 * x >= (2 * m) - Grain
    BY <1>1, <1>2, <1>3, <1>5
  <2> QED
    BY <1>6, <2>1, <2>2 DEF Nearest
<1>4. CASE ~(2 * s < Grain \/ (2 * s = Grain /\ q % 2 = 0))
  <2>1. round3(x) = q + 1
    BY <1>1, <1>4 DEF round3
  <2>2. 2 * x <= (2 * m) + (3 * Grain) /\ 2 * x >= (2 * m) + Grain
    BY <1>1, <1>2, <1>4, <1>5
  <2> QED
    BY <1>6, <2>1, <2>2 DEF Nearest
<1> QED
  BY <1>3, <1>4

(* Rounding keeps the order.                                               *)
LEMMA RoundMonotone ==
    ASSUME NEW x \in Nat, NEW y \in Nat, x <= y
    PROVE  round3(x) <= round3(y)
<1>1. PICK q \in Nat, s \in Nat : /\ q = x \div Grain /\ s = x % Grain
                                  /\ x = (Grain * q) + s /\ s < Grain
  BY Divided
<1>2. PICK p \in Nat, t \in Nat : /\ p = y \div Grain /\ t = y % Grain
                                  /\ y = (Grain * p) + t /\ t < Grain
  BY Divided
<1>3. q <= p
  BY <1>1, <1>2, MetricsAssumption
<1>4. /\ round3(x) \in {q, q + 1} /\ round3(y) \in {p, p + 1}
  BY <1>1, <1>2 DEF round3
<1>5. CASE q < p
  BY <1>4, <1>5
<1>6. CASE q = p
  <2>1. s <= t
    <3>1. PICK m \in Nat : m = Grain * q
      BY MetricsAssumption
    <3> QED
      BY <1>1, <1>2, <1>6, <3>1
  <2>2. round3(x) = q + 1 => round3(y) = q + 1
    BY <1>1, <1>2, <1>6, <2>1, MetricsAssumption DEF round3
  <2> QED
    BY <1>4, <1>6, <2>2
<1> QED
  BY <1>3, <1>5, <1>6

(* The places whose value rounds to no more than y, and to no less.        *)
RoundedAbove(n, v, y) == {i \in 1..n : round3(v[i]) <= y}
RoundedBelow(n, v, y) == {i \in 1..n : round3(v[i]) >= y}

(* The shares survive the rounding: what is not above a value is not above *)
(* it rounded, and likewise below.                                         *)
LEMMA RoundedShares ==
    ASSUME NEW n \in Nat, NEW v \in [1..n -> Nat], NEW x \in Nat
    PROVE  /\ Cardinality(RoundedAbove(n, v, round3(x))) \in Nat
           /\ Cardinality(RoundedBelow(n, v, round3(x))) \in Nat
           /\ Cardinality(NotAbove(n, v, x)) \in Nat
           /\ Cardinality(NotBelow(n, v, x)) \in Nat
           /\ Cardinality(NotAbove(n, v, x)) <= Cardinality(RoundedAbove(n, v, round3(x)))
           /\ Cardinality(NotBelow(n, v, x)) <= Cardinality(RoundedBelow(n, v, round3(x)))
<1> DEFINE above == RoundedAbove(n, v, round3(x))
           below == RoundedBelow(n, v, round3(x))
           A == NotAbove(n, v, x)
           B == NotBelow(n, v, x)
<1>1. A \in SUBSET above
  BY RoundMonotone DEF NotAbove, RoundedAbove
<1>2. B \in SUBSET below
  <2> SUFFICES ASSUME NEW i \in 1..n, v[i] >= x PROVE round3(v[i]) >= round3(x)
    BY DEF NotBelow, RoundedBelow
  <2>1. PICK y \in Nat : y = v[i] /\ x <= y
    OBVIOUS
  <2>2. round3(x) <= round3(y) /\ round3(x) \in Nat /\ round3(y) \in Nat
    BY <2>1, RoundMonotone, RoundNearest
  <2> QED
    BY <2>1, <2>2
<1>3. above \in SUBSET (1..n) /\ below \in SUBSET (1..n)
  BY DEF RoundedAbove, RoundedBelow
<1> HIDE DEF above, below, A, B
<1>4. IsFiniteSet(above) /\ IsFiniteSet(below)
  <2>1. IsFiniteSet(1..n)
    BY FS_Interval
  <2> QED
    BY <1>3, <2>1, FS_Subset
<1>5. /\ IsFiniteSet(A) /\ IsFiniteSet(B)
      /\ Cardinality(A) <= Cardinality(above) /\ Cardinality(B) <= Cardinality(below)
  BY <1>1, <1>2, <1>4, FS_Subset
<1>6. /\ Cardinality(A) \in Nat /\ Cardinality(B) \in Nat
      /\ Cardinality(above) \in Nat /\ Cardinality(below) \in Nat
  BY <1>4, <1>5, FS_CardinalityType
<1> QED
  BY <1>5, <1>6 DEF above, below, A, B

(* A p50, p95 or p99 of GET /metrics is a latency of a sample up to the     *)
(* rounding, at least that share of the samples is not above it and the    *)
(* rest not below it, for every size of the deque, every duration and      *)
(* every precision of the clock.                                           *)
THEOREM PercentilesHold == Spec => []PercentilesCover
<1>1. IInv => PercentilesCover
  <2> DEFINE Covers(x, pct) ==
                 LET n == Len(samples)
                 IN  /\ \E i \in 1..n : Nearest(samples[i].duration, x)
                     /\ 100 * Cardinality({i \in 1..n : round3(samples[i].duration) <= x}) >= pct * n
                     /\ 100 * Cardinality({i \in 1..n : round3(samples[i].duration) >= x})
                            >= (100 - pct) * n
  <2> SUFFICES ASSUME IInv, NEW pct \in {50, 95, 99}, samples # <<>>
               PROVE  Covers(percentile(SortedLatencies, pct), pct)
    BY Zenon DEF PercentilesCover
  <2> HIDE DEF Covers
  <2>1. samples \in Seq([duration : Durations, tenant : Tenants]) /\ Durations \subseteq Nat
    BY InstanceAssumption DEF IInv, Counters
  <2>2. PICK n \in Nat : n = Len(samples)
    BY <2>1
  <2>3. n # 0
    BY <2>1, <2>2
  <2>4. PICK v \in [1..n -> Nat] : v = Latencies /\ \A i \in 1..n : samples[i].duration = v[i]
    <3> DEFINE Sample == [duration : Durations, tenant : Tenants]
    <3>1. \A x \in Sample : x.duration \in Nat
      BY <2>1
    <3> HIDE DEF Sample
    <3>a. samples \in Seq(Sample)
      BY <2>1 DEF Sample
    <3>2. \A i \in 1..n : samples[i] \in Sample
      BY <2>2, <3>a
    <3>3. \A i \in 1..n : samples[i].duration \in Nat
      BY <3>1, <3>2
    <3>4. Latencies = [i \in 1..n |-> samples[i].duration]
      BY <2>2 DEF Latencies
    <3> QED
      BY <3>3, <3>4
  <2> DEFINE index == IF (n * pct) \div 100 < n - 1 THEN (n * pct) \div 100 ELSE n - 1
  <2>5. index + 1 \in 1..n /\ 100 * (index + 1) >= pct * n /\ 100 * (n - index) >= (100 - pct) * n
    BY <2>3, PercentilePlace
  <2>6. percentile(SortedLatencies, pct) = round3(Sorted(v)[index + 1])
    <3>1. Len(Sorted(v)) = n
      BY DEF Sorted
    <3> QED
      BY <2>3, <2>4, <3>1 DEF percentile, SortedLatencies
  <2>a. index \in Int
    BY <2>5
  <2> HIDE DEF index
  <2>7. PICK m \in 1..n : m = index + 1
    BY <2>5
  <2>8. PICK k \in 1..n : /\ Sorted(v)[m] = v[k]
                          /\ m <= Cardinality(NotAbove(n, v, v[k]))
                          /\ (n - m) + 1 <= Cardinality(NotBelow(n, v, v[k]))
    BY SortedCovers
  <2>9. PICK x \in Nat : x = v[k]
    OBVIOUS
  <2>10. Nearest(x, round3(x))
    BY RoundNearest
  <2> DEFINE above == RoundedAbove(n, v, round3(x))
             below == RoundedBelow(n, v, round3(x))
  <2>11. /\ Cardinality(above) \in Nat /\ Cardinality(below) \in Nat
         /\ m <= Cardinality(above) /\ (n - m) + 1 <= Cardinality(below)
    <3>1. /\ Cardinality(above) \in Nat /\ Cardinality(below) \in Nat
          /\ Cardinality(NotAbove(n, v, x)) \in Nat /\ Cardinality(NotBelow(n, v, x)) \in Nat
          /\ Cardinality(NotAbove(n, v, x)) <= Cardinality(above)
          /\ Cardinality(NotBelow(n, v, x)) <= Cardinality(below)
      BY RoundedShares
    <3> HIDE DEF above, below
    <3> QED
      BY <2>8, <2>9, <3>1
  <2>12. /\ above = {i \in 1..n : round3(samples[i].duration) <= round3(x)}
         /\ below = {i \in 1..n : round3(samples[i].duration) >= round3(x)}
    BY <2>4 DEF RoundedAbove, RoundedBelow
  <2> HIDE DEF above, below
  <2>13. 100 * Cardinality(above) >= pct * n /\ 100 * Cardinality(below) >= (100 - pct) * n
    <3>1. PICK a \in Nat, b \in Nat : a = Cardinality(above) /\ b = Cardinality(below)
      BY <2>11
    <3>2. m <= a /\ n - index <= b /\ 100 * m >= pct * n
      BY <2>a, <2>5, <2>7, <2>11, <3>1
    <3>3. PICK s \in Int, t \in Int : s = pct * n /\ t = (100 - pct) * n
      OBVIOUS
    <3>4. 100 * a >= s /\ 100 * b >= t
      BY <2>a, <2>5, <3>2, <3>3
    <3> QED
      BY <3>1, <3>3, <3>4
  <2>14. \E i \in 1..n : Nearest(samples[i].duration, round3(x))
    BY <2>4, <2>9, <2>10
  <2>15. Covers(round3(x), pct)
    BY <2>2, <2>12, <2>13, <2>14, Zenon DEF Covers
  <2> QED
    BY <2>6, <2>7, <2>8, <2>9, <2>15
<1> QED
  BY <1>1, Invariance, PTL
=============================================================================
