---------------------------- MODULE ServerProofs ----------------------------
(***************************************************************************)
(* ServerInvariant is inductive, for any number of requests, and the       *)
(* safety properties of Server follow from it.  The requests are dealt     *)
(* with one at a time: a step of one leaves the others, the phase and what *)
(* is open as they are.                                                    *)
(***************************************************************************)
EXTENDS Server, TLAPS

(* What a step of one request leaves alone. *)
LEMMA RequestFrame ==
  ASSUME ServerTypeOK, NEW r \in Requests, RequestStep(r)
  PROVE  /\ UNCHANGED <<env, phase, result, signalled, resources, wiring>>
         /\ phase # "exited"
         /\ request' \in [Requests -> RequestStates]
         /\ \A q \in Requests \ {r} : request'[q] = request[q]
<1>1. /\ UNCHANGED <<env, phase, result, signalled, resources, wiring>>
      /\ phase # "exited"
  BY DEF RequestStep
<1>2. \E s \in RequestStates : request' = [request EXCEPT ![r] = s]
  <2>1. request[r] \in RequestStates
    BY DEF ServerTypeOK
  <2>2. \A a \in {"none", "answered", "failed", "unsent"} \cup InProgress :
          Move(r, a) => \E s \in RequestStates : request' = [request EXCEPT ![r] = s]
    <3> SUFFICES ASSUME NEW a \in {"none", "answered", "failed", "unsent"} \cup InProgress,
                        Move(r, a)
                 PROVE  \E s \in RequestStates : request' = [request EXCEPT ![r] = s]
      OBVIOUS
    <3> DEFINE s == [request[r] EXCEPT !.at = a]
    <3>1. s \in RequestStates
      BY <2>1 DEF RequestStates
    <3>2. request' = [request EXCEPT ![r] = s]
      BY DEF Move
    <3> QED BY <3>1, <3>2
  <2>3. CASE \E route \in Routes : Accept(r, route)
    <3> PICK route \in Routes : Accept(r, route)
      BY <2>3
    <3> DEFINE s == [at |-> IF route = "subscription" THEN "authenticate" ELSE "handle",
                     route |-> route, late |-> FALSE]
    <3>1. s \in RequestStates
      BY DEF RequestStates, InProgress
    <3> QED BY <3>1 DEF Accept
  <2>4. CASE Authenticate(r)
    BY <2>2, <2>4 DEF Authenticate, InProgress
  <2>5. CASE Handle(r)
    BY <2>2, <2>5 DEF Handle, InProgress
  <2>6. CASE QueryEnds(r)
    BY <2>2, <2>6 DEF QueryEnds, InProgress
  <2>7. CASE RequestTimesOut(r)
    BY <2>2, <2>7 DEF RequestTimesOut, InProgress
  <2>8. CASE WriteTimeout(r)
    <3> DEFINE s == [request[r] EXCEPT !.late = TRUE]
    <3>1. s \in RequestStates
      BY <2>1 DEF RequestStates
    <3>2. request' = [request EXCEPT ![r] = s]
      BY <2>8 DEF WriteTimeout
    <3> QED BY <3>1, <3>2
  <2>9. CASE Reply(r)
    BY <2>2, <2>9 DEF Reply
  <2> QED BY <2>3, <2>4, <2>5, <2>6, <2>7, <2>8, <2>9 DEF RequestStep
<1> QED BY <1>1, <1>2 DEF ServerTypeOK

(* A request gets further only in a process that serves it, and none fails   *)
(* while the session store and the pool are open.                            *)
LEMMA RequestAdvances ==
  ASSUME ServerInvariant, NEW r \in Requests, RequestStep(r)
  PROVE  /\ phase \in {"serve", "drain", "unwind"}
         /\ result # "ok"
         /\ Using(r)' => database # "closed"
         /\ request'[r].at = "failed" => phase = "unwind"
<1> USE DEF ServerInvariant
<1>1. request \in [Requests -> RequestStates] /\ phase \in Phases
  BY DEF ServerTypeOK
<1>2. phase # "exited"
  BY DEF RequestStep
<1>3. Active(r) \/ \E route \in Routes : Accept(r, route)
  BY DEF RequestStep, Authenticate, Handle, QueryEnds, RequestTimesOut,
         WriteTimeout, Reply, Active, InProgress, Using
<1>4. phase \in {"serve", "drain", "unwind"} /\ result # "ok"
  <2>1. CASE \E route \in Routes : Accept(r, route)
    BY <2>1 DEF Accept, Returned
  <2>2. CASE Active(r)
    BY <2>2, <1>1, <1>2 DEF Served, Active, InProgress, Phases
  <2> QED BY <1>3, <2>1, <2>2
<1>5. /\ Using(r)' => database # "closed"
      /\ request'[r].at = "failed" => phase = "unwind"
  <2>0. phase # "unwind" => redis /\ database = "open"
    BY <1>4 DEF Opened
  <2>1. \A a : Move(r, a) => request'[r].at = a
    BY <1>1 DEF Move, RequestStates
  <2>2. CASE \E route \in Routes : Accept(r, route)
    BY <2>2, <1>1 DEF Accept, Using
  <2>3. CASE Authenticate(r)
    BY <2>3, <2>0, <2>1 DEF Authenticate, Using
  <2>4. CASE Handle(r)
    BY <2>4, <2>0, <2>1 DEF Handle, Using
  <2>5. CASE QueryEnds(r)
    BY <2>5, <2>1 DEF QueryEnds, Using
  <2>6. CASE RequestTimesOut(r)
    BY <2>6, <2>1 DEF RequestTimesOut, Using
  <2>7. CASE WriteTimeout(r)
    <3>1. request'[r].at = request[r].at
      BY <2>7, <1>1 DEF WriteTimeout, RequestStates
    <3>2. Active(r)
      BY <2>7 DEF WriteTimeout
    <3> QED BY <3>1, <3>2 DEF Using, Served, Active, InProgress
  <2>8. CASE Reply(r)
    BY <2>8, <2>1 DEF Reply, Using
  <2> QED BY <2>2, <2>3, <2>4, <2>5, <2>6, <2>7, <2>8 DEF RequestStep
<1> QED BY <1>4, <1>5

LEMMA RequestPreserves ==
  ASSUME ServerInvariant, NEW r \in Requests, RequestStep(r)
  PROVE  ServerInvariant'
<1>1. /\ UNCHANGED <<env, phase, result, signalled, resources, wiring>>
      /\ request' \in [Requests -> RequestStates]
      /\ \A q \in Requests \ {r} : request'[q] = request[q]
  BY RequestFrame DEF ServerInvariant
<1>2. ServerTypeOK'
  BY <1>1 DEF ServerInvariant, ServerTypeOK, resources, wiring
<1>3. Opened'
  BY <1>1 DEF ServerInvariant, Opened, Loads, parseUUIDAllowlist, NewAPIClientOK, resources, wiring
<1>4. Served'
  <2> SUFFICES ASSUME NEW q \in Requests
      PROVE  /\ Using(q)' => /\ phase' \in {"serve", "drain", "unwind"}
                             /\ database' # "closed"
             /\ phase' \in {"load", "database", "redis", "jwks", "wire"} =>
                  request'[q].at = "none"
             /\ phase' \in {"serve", "drain"} => request'[q].at # "failed"
             /\ result' = "ok" => ~Active(q)' /\ request'[q].at # "failed"
    BY DEF Served
  <2>1. CASE q = r
    BY <2>1, <1>1, RequestAdvances DEF resources
  <2>2. CASE q # r
    BY <2>2, <1>1 DEF ServerInvariant, Served, Using, Active, resources
  <2> QED BY <2>1, <2>2
<1>5. Returned'
  BY <1>1 DEF ServerInvariant, Returned
<1> QED BY <1>2, <1>3, <1>4, <1>5 DEF ServerInvariant

(* The steps of run() up to the listener. *)
LEMMA StartPreserves ==
  ASSUME ServerInvariant,
         Start \/ (\E at \in {"database", "redis", "jwks"} : ConnectFails(at))
  PROVE  ServerInvariant'
<1> USE DEF ServerInvariant, resources, wiring, Using, Active
<1>1. CASE LoadConfig
  BY <1>1 DEF LoadConfig, Return, ServerTypeOK, Phases, Opened, Served, Returned,
              Loads, parseUUIDAllowlist, NewAPIClientOK, InProgress
<1>2. CASE ConnectDatabase
  BY <1>2 DEF ConnectDatabase, ServerTypeOK, Phases, Opened, Served, Returned,
              Loads, parseUUIDAllowlist, NewAPIClientOK, InProgress
<1>3. CASE ConnectRedis
  BY <1>3 DEF ConnectRedis, ServerTypeOK, Phases, Opened, Served, Returned,
              Loads, parseUUIDAllowlist, NewAPIClientOK, InProgress
<1>4. CASE FetchJWKS
  BY <1>4 DEF FetchJWKS, ServerTypeOK, Phases, Opened, Served, Returned,
              Loads, parseUUIDAllowlist, NewAPIClientOK, InProgress
<1>5. CASE Wire
  <2>1. env.keys # "none" => NewAPIClientOK \/ phase' = "unwind"
    BY <1>5 DEF Wire, Return
  <2>2. env.googleCredentialsLoad \in BOOLEAN
    BY DEF ServerTypeOK, Environments
  <2> QED BY <1>5, <2>1, <2>2 DEF Wire, Return, ServerTypeOK, Phases, Opened, Served,
             Returned, Loads, parseUUIDAllowlist, NewAPIClientOK, InProgress
<1>6. CASE \E at \in {"database", "redis", "jwks"} : ConnectFails(at)
  BY <1>6 DEF ConnectFails, Return, ServerTypeOK, Phases, Opened, Served, Returned,
              Loads, parseUUIDAllowlist, NewAPIClientOK, InProgress
<1> QED BY <1>1, <1>2, <1>3, <1>4, <1>5, <1>6 DEF Start

(* From the signal to the exit. *)
LEMMA StopPreserves ==
  ASSUME ServerInvariant,
         Signal \/ RunFails \/ BeginShutdown \/ Shutdown \/ Unwind
  PROVE  ServerInvariant'
<1> USE DEF ServerInvariant, resources, wiring, Using, Active
<1>1. CASE Signal
  BY <1>1 DEF Signal, ServerTypeOK, Phases, Opened, Served, Returned,
              Loads, parseUUIDAllowlist, NewAPIClientOK, InProgress
<1>2. CASE RunFails
  BY <1>2 DEF RunFails, Return, ServerTypeOK, Phases, Opened, Served, Returned,
              Loads, parseUUIDAllowlist, NewAPIClientOK, InProgress
<1>3. CASE BeginShutdown
  BY <1>3 DEF BeginShutdown, ServerTypeOK, Phases, Opened, Served, Returned,
              Loads, parseUUIDAllowlist, NewAPIClientOK, InProgress
<1>4. CASE Shutdown
  BY <1>4 DEF Shutdown, Return, ServerTypeOK, Phases, Opened, Served, Returned,
              Loads, parseUUIDAllowlist, NewAPIClientOK, InProgress
<1>5. CASE CloseRedis
  BY <1>5 DEF CloseRedis, ServerTypeOK, Phases, Opened, Served, Returned,
              Loads, parseUUIDAllowlist, NewAPIClientOK, InProgress
<1>6. CASE BeginCloseDatabase
  BY <1>6 DEF BeginCloseDatabase, ServerTypeOK, Phases, Opened, Served, Returned,
              Loads, parseUUIDAllowlist, NewAPIClientOK, InProgress
<1>7. CASE EndCloseDatabase
  BY <1>7 DEF EndCloseDatabase, ServerTypeOK, Phases, Opened, Served, Returned,
              Loads, parseUUIDAllowlist, NewAPIClientOK, InProgress
<1>8. CASE Exit
  BY <1>8 DEF Exit, ServerTypeOK, Phases, Opened, Served, Returned,
              Loads, parseUUIDAllowlist, NewAPIClientOK, InProgress
<1> QED BY <1>1, <1>2, <1>3, <1>4, <1>5, <1>6, <1>7, <1>8 DEF Unwind

LEMMA ServerInitial == ServerInit => ServerInvariant
<1> SUFFICES ASSUME ServerInit PROVE ServerInvariant
  OBVIOUS
<1>1. [at |-> "none", route |-> "subscription", late |-> FALSE] \in RequestStates
  BY DEF RequestStates, Routes
<1>2. ServerTypeOK
  BY <1>1 DEF ServerInit, ServerTypeOK, Phases
<1>3. Opened /\ Returned
  BY DEF ServerInit, Opened, Returned
<1>4. \A r \in Requests : request[r].at = "none"
  BY DEF ServerInit
<1>5. Served
  BY <1>4 DEF ServerInit, Served, Using, Active, InProgress
<1> QED BY <1>2, <1>3, <1>5 DEF ServerInvariant

(* What run() has opened and checked holds at every phase. *)
THEOREM ServerCorrect == ServerSpec => []ServerInvariant
<1>1. ServerInvariant /\ [ServerNext]_serverVars => ServerInvariant'
  <2> SUFFICES ASSUME ServerInvariant, [ServerNext]_serverVars
               PROVE  ServerInvariant'
    OBVIOUS
  <2>1. CASE UNCHANGED serverVars
    BY <2>1 DEF serverVars, resources, wiring, ServerInvariant, ServerTypeOK, Opened,
                Served, Returned, Loads, parseUUIDAllowlist, NewAPIClientOK, Using, Active
  <2>2. CASE ServerNext
    BY <2>2, RequestPreserves, StartPreserves, StopPreserves DEF ServerNext
  <2> QED BY <2>1, <2>2
<1> QED BY <1>1, ServerInitial, PTL DEF ServerSpec

(* A process that serves has passed every check of config.Load and run(). *)
THEOREM ServerConfigured == ServerSpec => []ServesOnlyConfigured
<1>1. ServerInvariant => ServesOnlyConfigured
  BY DEF ServerInvariant, Opened, Loads, parseUUIDAllowlist, ServesOnlyConfigured
<1> QED BY <1>1, ServerCorrect, PTL

(* No query outlives the pool, and so none is cut off by the exit. *)
THEOREM ServerQueriesEnd == ServerSpec => []NoQueryOutlivesThePool
<1>1. ServerInvariant => NoQueryOutlivesThePool
  BY DEF ServerInvariant, Served, NoQueryOutlivesThePool
<1> QED BY <1>1, ServerCorrect, PTL

(* A clean stop has finished every request that was accepted. *)
THEOREM ServerStopsCleanly == ServerSpec => []CleanStopFinishesRequests
<1>1. ServerInvariant => CleanStopFinishesRequests
  BY DEF ServerInvariant, Served, CleanStopFinishesRequests
<1> QED BY <1>1, ServerCorrect, PTL
=============================================================================
