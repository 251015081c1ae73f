------------------------------- MODULE Server -------------------------------
(***************************************************************************)
(* The process around the service: what run() opens in which order, what   *)
(* it refuses to start with, and how it stops while requests are still     *)
(* being processed.                                                        *)
(*                                                                         *)
(* A request is what the middleware and the pool make of it: the session   *)
(* lookup, the use of a connection, the two timeouts.  What a handler does *)
(* with its connection is SubscriptionService's.  A process that dies      *)
(* without unwinding is SubscriptionRepository's Rollback.                 *)
(***************************************************************************)
CONSTANT Requests

VARIABLES
  env,            \* the environment variables the process is started with
  phase,          \* how far run() has come
  result,         \* what it returns, Nil until it is known
  signalled,      \* SIGINT or SIGTERM has been received
  redis,          \* the client of the session store is open
  database,       \* the pool
  apple,          \* the App Store Server API client is configured
  google,         \* the Play client and the handler of its notifications are
  request         \* the requests, and where each of them is

resources == <<redis, database>>
wiring == <<apple, google>>
serverVars ==
  <<env, phase, result, signalled, redis, database, apple, google, request>>

Environments ==
  [production : BOOLEAN,
   addresses : BOOLEAN,                           \* all three are given
   allowlist : SUBSET {"user", "malformed"},      \* its entries, {} when unset
   keys : {"none", "some", "all"},                \* of the API's key settings
   privateKeyParses : BOOLEAN,
   googleCredentialsLoad : BOOLEAN]               \* none at all do

Phases == {"load", "database", "redis", "jwks", "wire", "serve", "drain",
           "unwind", "exited"}

Routes == {"subscription", "apple", "google", "internal"}

(* late: the server's write timeout is over before the handler is.           *)
InProgress == {"authenticate", "handle", "query", "reply"}
RequestStates ==
  [at : {"none"} \cup InProgress \cup {"answered", "failed", "unsent"},
   route : Routes, late : BOOLEAN]

Using(r) == request[r].at = "query"
Active(r) == request[r].at \in InProgress

ServerTypeOK ==
  /\ env \in Environments
  /\ phase \in Phases
  /\ result \in {"none", "ok", "error"}
  /\ signalled \in BOOLEAN
  /\ redis \in BOOLEAN
  /\ database \in {"closed", "open", "closing"}
  /\ apple \in BOOLEAN
  /\ google \in BOOLEAN
  /\ request \in [Requests -> RequestStates]

ServerInit ==
  /\ env \in Environments
  /\ phase = "load"
  /\ result = "none"
  /\ signalled = FALSE
  /\ redis = FALSE
  /\ database = "closed"
  /\ apple = FALSE
  /\ google = FALSE
  /\ request = [r \in Requests |->
                  [at |-> "none", route |-> "subscription", late |-> FALSE]]
-----------------------------------------------------------------------------
(* Starting. *)

(* One entry that is not a user id is an error, whatever the others are. *)
parseUUIDAllowlist == "malformed" \notin env.allowlist

(* Variant of Loads: the requirement of production forgotten. *)
LoadsWithoutKeys == parseUUIDAllowlist /\ env.addresses

Loads ==
  /\ parseUUIDAllowlist
  /\ env.addresses
  /\ env.production => env.keys = "all"

Return(outcome) == phase' = "unwind" /\ result' = outcome

LoadConfig ==
  /\ phase = "load"
  /\ IF Loads THEN phase' = "database" /\ UNCHANGED result ELSE Return("error")
  /\ UNCHANGED <<env, signalled, resources, wiring, request>>

ConnectDatabase ==
  /\ phase = "database"
  /\ phase' = "redis"
  /\ database' = "open"
  /\ UNCHANGED <<env, result, signalled, redis, wiring, request>>

ConnectRedis ==
  /\ phase = "redis"
  /\ phase' = "jwks"
  /\ redis' = TRUE
  /\ UNCHANGED <<env, result, signalled, database, wiring, request>>

FetchJWKS ==
  /\ phase = "jwks"
  /\ phase' = "wire"
  /\ UNCHANGED <<env, result, signalled, resources, wiring, request>>

(* No connection, or a failed ping, within the timeout or before the signal; *)
(* the pool closes itself when the ping fails.                               *)
ConnectFails(at) ==
  /\ phase = at
  /\ Return("error")
  /\ UNCHANGED <<env, signalled, resources, wiring, request>>

NewAPIClientOK == env.keys = "all" /\ env.privateKeyParses

(* Settings for the App Store Server API must be complete if there are any;  *)
(* Google's may be unusable.                                                 *)
Wire ==
  /\ phase = "wire"
  /\ IF env.keys # "none" /\ ~NewAPIClientOK
     THEN Return("error") /\ UNCHANGED wiring
     ELSE /\ phase' = "serve"
          /\ apple' = (env.keys # "none")
          /\ google' = env.googleCredentialsLoad
          /\ UNCHANGED result
  /\ UNCHANGED <<env, signalled, resources, request>>
-----------------------------------------------------------------------------
(* Serving. *)

Move(r, state) == request' = [request EXCEPT ![r].at = state]

(* Every route is mounted: NewRouter looks for a nil handler, but without    *)
(* Google it is given an interface that holds a nil pointer.                 *)
Accept(r, route) ==
  /\ phase = "serve"
  /\ request[r].at = "none"
  /\ request' = [request EXCEPT ![r] =
       [at |-> IF route = "subscription" THEN "authenticate" ELSE "handle",
        route |-> route, late |-> FALSE]]

(* RequireAuth looks the session up. *)
Authenticate(r) ==
  /\ request[r].at = "authenticate"
  /\ IF redis THEN Move(r, "handle") \/ Move(r, "reply") ELSE Move(r, "failed")

(* The handler comes to its first query, or is done before; without a Google *)
(* handler the call panics, and Recoverer answers.                           *)
Handle(r) ==
  /\ request[r].at = "handle"
  /\ IF request[r].route = "google" /\ ~google
     THEN Move(r, "reply")
     ELSE \/ Move(r, "reply")
          \/ database = "open" /\ Move(r, "query")
          \/ database # "open" /\ Move(r, "failed")

(* No handler needs a connection twice: one statement, or one transaction.   *)
QueryEnds(r) == Using(r) /\ Move(r, "reply")

(* Variant of RequestTimesOut: a query that is not given the request's context. *)
TimesOutButForQueries(r) ==
  /\ Active(r) /\ request[r].at # "reply"
  /\ ~Using(r)
  /\ Move(r, "reply")

(* Everything a handler waits for ends with the request's context. *)
RequestTimesOut(r) ==
  /\ Active(r) /\ request[r].at # "reply"
  /\ Move(r, "reply")

WriteTimeout(r) ==
  /\ Active(r) /\ ~request[r].late
  /\ request' = [request EXCEPT ![r].late = TRUE]

Reply(r) ==
  /\ request[r].at = "reply"
  /\ Move(r, IF request[r].late THEN "unsent" ELSE "answered")

RequestStep(r) ==
  /\ phase # "exited"
  /\ \/ \E route \in Routes : Accept(r, route)
     \/ Authenticate(r)
     \/ Handle(r)
     \/ QueryEnds(r)
     \/ RequestTimesOut(r)
     \/ WriteTimeout(r)
     \/ Reply(r)
  /\ UNCHANGED <<env, phase, result, signalled, resources, wiring>>
-----------------------------------------------------------------------------
(* Stopping. *)

(* Before NotifyContext the signal ends the process; then its context.       *)
Signal ==
  /\ ~signalled
  /\ phase # "exited"
  /\ signalled' = TRUE
  /\ IF phase = "load" THEN phase' = "exited" /\ result' = "error"
     ELSE UNCHANGED <<phase, result>>
  /\ UNCHANGED <<env, resources, wiring, request>>

(* The port is taken, or the listener fails. *)
RunFails ==
  /\ phase = "serve"
  /\ Return("error")
  /\ UNCHANGED <<env, signalled, resources, wiring, request>>

BeginShutdown ==
  /\ phase = "serve"
  /\ signalled
  /\ phase' = "drain"
  /\ UNCHANGED <<env, result, signalled, resources, wiring, request>>

(* Variant of Shutdown: Close in place of Shutdown. *)
ShutdownAtOnce ==
  /\ phase = "drain"
  /\ Return("ok")
  /\ UNCHANGED <<env, signalled, resources, wiring, request>>

(* Shutdown returns when nothing is active, or at its deadline. *)
Shutdown ==
  /\ phase = "drain"
  /\ IF \E r \in Requests : Active(r) THEN Return("error") ELSE Return("ok")
  /\ UNCHANGED <<env, signalled, resources, wiring, request>>

(* The deferred calls, the last one first. *)
CloseRedis ==
  /\ phase = "unwind" /\ redis
  /\ redis' = FALSE
  /\ UNCHANGED <<env, phase, result, signalled, database, wiring, request>>

(* db.Close refuses connections from its call on. *)
BeginCloseDatabase ==
  /\ phase = "unwind" /\ ~redis
  /\ database = "open"
  /\ database' = "closing"
  /\ UNCHANGED <<env, phase, result, signalled, redis, wiring, request>>

(* Variant of EndCloseDatabase: those in use are not waited for. *)
EndCloseAtOnce ==
  /\ database = "closing"
  /\ database' = "closed"
  /\ UNCHANGED <<env, phase, result, signalled, redis, wiring, request>>

EndCloseDatabase ==
  /\ database = "closing"
  /\ \A r \in Requests : ~Using(r)
  /\ database' = "closed"
  /\ UNCHANGED <<env, phase, result, signalled, redis, wiring, request>>

Exit ==
  /\ phase = "unwind" /\ ~redis /\ database = "closed"
  /\ phase' = "exited"
  /\ UNCHANGED <<env, result, signalled, resources, wiring, request>>

Start == LoadConfig \/ ConnectDatabase \/ ConnectRedis \/ FetchJWKS \/ Wire
Unwind == CloseRedis \/ BeginCloseDatabase \/ EndCloseDatabase \/ Exit

ServerNext ==
  \/ Start
  \/ \E at \in {"database", "redis", "jwks"} : ConnectFails(at)
  \/ \E r \in Requests : RequestStep(r)
  \/ Signal
  \/ RunFails
  \/ BeginShutdown
  \/ Shutdown
  \/ Unwind

ServerSpec == ServerInit /\ [][ServerNext]_serverVars

(* What ends by itself: the dial and ping timeouts, the fetch of the keys    *)
(* when the signal cancels its context, a request at its timeout.  Nothing   *)
(* is assumed of what the database, the session store and the stores do.     *)
ServerFairness ==
  /\ WF_serverVars(LoadConfig \/ Wire \/ BeginShutdown \/ Shutdown \/ Unwind)
  /\ WF_serverVars(ConnectFails("database") \/ ConnectFails("redis"))
  /\ WF_serverVars(signalled /\ ConnectFails("jwks"))
  /\ \A r \in Requests :
       /\ WF_serverVars(RequestTimesOut(r) /\ RequestStep(r))
       /\ WF_serverVars(Reply(r) /\ RequestStep(r))

FairServerSpec == ServerSpec /\ ServerFairness
-----------------------------------------------------------------------------
(* Nothing is served by a process that config.Load or run() should have      *)
(* refused: in production every Apple purchase is checked against the App    *)
(* Store Server API, and a typo in the allowlist changes nobody's access.    *)
ServesOnlyConfigured ==
  phase \in {"serve", "drain"} =>
    /\ env.addresses /\ "malformed" \notin env.allowlist
    /\ redis /\ database = "open"
    /\ apple <=> (env.production \/ env.keys # "none")

(* What run() has opened and checked at each phase, and what has become of   *)
(* the requests: the inductive invariant the others follow from.             *)
Opened ==
  /\ phase \in {"load", "database"} => ~redis /\ database = "closed"
  /\ phase = "redis" => ~redis /\ database = "open"
  /\ phase \in {"jwks", "wire", "serve", "drain"} => redis /\ database = "open"
  /\ phase = "exited" => database = "closed"
  /\ phase \notin {"load", "unwind", "exited"} => Loads
  /\ phase \in {"serve", "drain"} =>
       IF env.keys = "none" THEN ~apple ELSE apple /\ NewAPIClientOK

Served ==
  \A r \in Requests :
    /\ Using(r) => phase \in {"serve", "drain", "unwind"} /\ database # "closed"
    /\ phase \in {"load", "database", "redis", "jwks", "wire"} =>
         request[r].at = "none"
    /\ phase \in {"serve", "drain"} => request[r].at # "failed"
    /\ result = "ok" => ~Active(r) /\ request[r].at # "failed"

Returned == result = "ok" => phase \in {"unwind", "exited"}

ServerInvariant == ServerTypeOK /\ Opened /\ Served /\ Returned

(* No transaction is cut off by the exit, whatever makes run() return, and   *)
(* no request gets a connection after the pool refuses them.                 *)
NoQueryOutlivesThePool ==
  \A r \in Requests : Using(r) => phase # "exited" /\ database # "closed"

(* "server stopped cleanly": every request that was accepted has run to its  *)
(* end, and none of them found the session store or the pool closed.         *)
CleanStopFinishesRequests ==
  phase = "exited" /\ result = "ok" =>
    \A r \in Requests : ~Active(r) /\ request[r].at # "failed"

(* The process ends after a signal, wherever the signal finds it and however *)
(* long the database, the session store and the stores take.                 *)
SignalStops == signalled ~> phase = "exited"
-----------------------------------------------------------------------------
(* A statement of the code that it does not keep. *)

(* "google webhook disabled": without Google there is no route to it.        *)
GoogleWebhookDisabled ==
  \A r \in Requests : request[r].route = "google" => google
=============================================================================
