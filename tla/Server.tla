-------------------------------- MODULE Server --------------------------------
(***************************************************************************)
(* The process of cmd/server from configuration to exit, with the requests *)
(* it serves: the gates before it listens, the goroutine that listens, one *)
(* goroutine per request with its deadline and at most one connection of   *)
(* the pool, and the end: signal, Shutdown, pool.Close, exit code.         *)
(*                                                                         *)
(* Durations are an order of events: a timer may fire at any moment while  *)
(* it runs.  Requests run for 30 s at most, Shutdown waits for 15 s.       *)
(***************************************************************************)
EXTENDS Responses, Configuration

CONSTANTS
    Environments,   \* process environment and .env files, as found at start
    Requests,       \* HTTP requests, each sent once at most
    Calls,          \* the methods and paths clients use
    MaxConns        \* size of the pool

ASSUME ServerAssumption == MaxConns \in Nat \ {0}

VARIABLES
    env,
    at, code,       \* where main is, and with which error it will return
    signalled,      \* SIGINT or SIGTERM has come
    listener,       \* of the goroutine that runs ListenAndServe
    database,       \* PostgreSQL answers
    ping,           \* what pool.Ping has said
    held,           \* requests that hold a connection of the pool
    req             \* the goroutines that serve requests

vars == <<env, at, code, signalled, listener, database, ping, held, req>>
process == <<env, at, code, signalled, listener, database, ping>>

cfg == Config(env)

-----------------------------------------------------------------------------
(* Routes: which handler answers a method on a path. *)

RouteTable ==
    {<<"/healthz", "GET", "health">>, <<"/ping", "GET", "ping">>,
     <<"/departments", "GET", "listDepartments">>,
     <<"/departments", "POST", "createDepartment">>,
     <<"/departments/{id}", "DELETE", "deleteDepartment">>,
     <<"/employees", "GET", "listEmployees">>,
     <<"/employees", "POST", "createEmployee">>,
     <<"/employees/{id}", "GET", "getEmployee">>,
     <<"/employees/{id}", "PATCH", "updateEmployee">>,
     <<"/employees/{id}", "DELETE", "deleteEmployee">>}

(* cors answers a preflight (OPTIONS that asks for a method) unrouted. *)
Handler(call) ==
    LET path == {t \in RouteTable : t[1] = call.path}
        route == {t \in path : t[2] = call.method}
    IN IF call.method = "PREFLIGHT" THEN "preflight"
       ELSE IF path = {} THEN "NotFound"
       ELSE IF route = {} THEN "MethodNotAllowed"
       ELSE (CHOOSE t \in route : TRUE)[3]

Bodied == {"createDepartment", "createEmployee", "updateEmployee"}
Identified == {"listEmployees", "deleteDepartment", "getEmployee", "updateEmployee",
               "deleteEmployee"}    \* have an id or a status to parse
InTransaction == {"listEmployees"}
OfTenants == {t[3] : t \in RouteTable} \ {"health", "ping"}

(* Handlers that answer without the database, and what they answer. *)
Static == {"ping", "preflight", "NotFound", "MethodNotAllowed"}

StaticAnswer(h) ==
    CASE h = "ping" -> Write(200)
      [] h = "preflight" -> {WriteHeader(Nothing, 200)}
      [] h = "NotFound" -> {Fail(Typed("not_found"))}
      [] h = "MethodNotAllowed" -> {Fail(Typed("method_not_allowed"))}

(* What a statement that succeeds makes a handler answer. *)
Refusals ==
    [health |-> {}, listDepartments |-> {}, listEmployees |-> {},
     createDepartment |-> {"conflict"}, deleteDepartment |-> {"not_found"},
     getEmployee |-> {"not_found"}, createEmployee |-> {"conflict", "validation"},
     updateEmployee |-> {"not_found", "conflict", "validation"},
     deleteEmployee |-> {"not_found"}]

Answers(h) ==
    {Fail(Typed(kind)) : kind \in Refusals[h]}
    \cup CASE h \in {"createDepartment", "createEmployee"} -> Write(201)
           [] h \in {"deleteDepartment", "deleteEmployee"} -> {NoContent}
           [] OTHER -> Write(200)

(* And one that fails, or finds no connection; health reports it itself.   *)
Failure(h) == IF h = "health" THEN Write(503) ELSE {Fail(Internal("cause"))}

-----------------------------------------------------------------------------
Working == {"decode", "acquire", "query", "rollback"}
Begun == Working \cup {"unwind"}
Settled == {"done", "lost", "closed"}
Unlogged == [status |-> 0, level |-> "none"]

Init ==
    /\ env \in Environments
    /\ at = "load" /\ code = "none"
    /\ signalled = FALSE
    /\ listener = "none"
    /\ database \in {"up", "down"}
    /\ ping = "none"
    /\ held = {}
    /\ req = [r \in Requests |->
                [at |-> "none", handler |-> "none", ctx |-> "live",
                 resp |-> Nothing, panics |-> FALSE, log |-> Unlogged]]

(* main returns: what is not finished is cut off. *)
Ends(c) ==
    /\ at' = "exited" /\ code' = c
    /\ req' = [r \in Requests |->
                 [req[r] EXCEPT !.at = IF @ \in Begun THEN "lost"
                                       ELSE IF @ = "open" THEN "closed" ELSE @]]

(* The deferred pool.Close begins. *)
Closes(c) == at' = "close" /\ code' = c

-----------------------------------------------------------------------------
(* main, run. *)

Loads ==
    /\ at = "load"
    /\ IF validate(cfg)
       THEN at' = "connect" /\ UNCHANGED <<code, req>>
       ELSE Ends("error")
    /\ UNCHANGED <<env, signalled, listener, database, ping, held>>

(* pgxpool.New only parses: connections are made when asked for. *)
Connects ==
    /\ at = "connect"
    /\ IF cfg.DatabaseURL \in Parses
       THEN at' = "ping" /\ UNCHANGED <<code, req>>
       ELSE Ends("error")
    /\ UNCHANGED <<env, signalled, listener, database, ping, held>>

(* MUTANT: the error of Ping is logged and otherwise ignored. *)
PingsAndGoesOn ==
    /\ at = "ping"
    /\ ping' \in IF database = "up" THEN {"ok", "failed"} ELSE {"failed"}
    /\ at' = "serve" /\ listener' = "starting"
    /\ UNCHANGED <<env, code, signalled, database, held, req>>

(* The deadline of 5 s, the signal or a database that is down fails it. *)
Pings ==
    /\ at = "ping"
    /\ \/ /\ database = "up" /\ ping' = "ok"
          /\ at' = "serve" /\ listener' = "starting"
          /\ UNCHANGED code
       \/ /\ ping' = "failed"
          /\ Closes("error")
          /\ UNCHANGED listener
    /\ UNCHANGED <<env, signalled, database, held, req>>

(* The goroutine, which may get to run after Shutdown has been called. *)
Listens ==
    /\ listener = "starting"
    /\ listener' \in IF at = "serve" THEN {"open", "failed"} ELSE {"closed"}
    /\ UNCHANGED <<env, at, code, signalled, database, ping, held, req>>

Breaks ==
    /\ listener = "open"
    /\ listener' = "failed"
    /\ UNCHANGED <<env, at, code, signalled, database, ping, held, req>>

(* select: an error of the listener, or the signal; if both, either. *)
ServeFails ==
    /\ at = "serve" /\ listener = "failed"
    /\ Closes("error")
    /\ UNCHANGED <<env, signalled, listener, database, ping, held, req>>

Shutdown ==
    /\ at = "serve" /\ signalled
    /\ at' = "drain"
    /\ listener' = IF listener = "open" THEN "closed" ELSE listener
    /\ UNCHANGED <<env, code, signalled, database, ping, held, req>>

Idle == \A r \in Requests : req[r].at \notin Begun \cup {"open"}

Drained ==
    /\ at = "drain" /\ Idle
    /\ Closes("ok")
    /\ UNCHANGED <<env, signalled, listener, database, ping, held, req>>

(* MUTANT: what Shutdown returns is ignored. *)
DrainEndsWell ==
    /\ at = "drain" /\ ~ Idle
    /\ Closes("ok")
    /\ UNCHANGED <<env, signalled, listener, database, ping, held, req>>

(* After 15 s Shutdown gives up; nothing is interrupted yet. *)
DrainEnds ==
    /\ at = "drain" /\ ~ Idle
    /\ Closes("error")
    /\ UNCHANGED <<env, signalled, listener, database, ping, held, req>>

(* MUTANT: os.Exit where run returns, so that nothing deferred runs. *)
ExitsAtOnce ==
    /\ at = "close"
    /\ Ends(code)
    /\ UNCHANGED <<env, signalled, listener, database, ping, held>>

(* pool.Close waits for every connection, then main returns. *)
Exits ==
    /\ at = "close" /\ held = {}
    /\ Ends(code)
    /\ UNCHANGED <<env, signalled, listener, database, ping, held>>

(* Before NotifyContext a signal kills; later ones than the first are      *)
(* swallowed until run has returned.                                       *)
Signal ==
    /\ at # "exited" /\ ~ signalled
    /\ signalled' = TRUE
    /\ IF at = "load" THEN Ends("killed") ELSE UNCHANGED <<at, code, req>>
    /\ UNCHANGED <<env, listener, database, ping, held>>

DatabaseChanges ==
    /\ at # "exited"
    /\ database' = IF database = "up" THEN "down" ELSE "up"
    /\ UNCHANGED <<env, at, code, signalled, listener, ping, held, req>>

-----------------------------------------------------------------------------
(* A request and its goroutine. *)

Becomes(r, new) == req' = [req EXCEPT ![r] = new]

(* The handler has returned, or panicked; deferred code comes next. *)
Returns(r, answers) ==
    \E w \in answers : Becomes(r, [req[r] EXCEPT !.at = "unwind", !.resp = w])

(* A client connects; what it asks for is read later. *)
Opens(r) ==
    /\ listener = "open" /\ at = "serve" /\ req[r].at = "none"
    /\ Becomes(r, [req[r] EXCEPT !.at = "open"])
    /\ UNCHANGED <<process, held>>

(* The client goes, or sends no header for 10 s; for 5 s during Shutdown.  *)
HangsUp(r) ==
    /\ at # "exited" /\ req[r].at = "open"
    /\ Becomes(r, [req[r] EXCEPT !.at = "closed"])
    /\ UNCHANGED <<process, held>>

(* The request is read and routed; the handlers of tenants check it. *)
Begins(r) ==
    /\ at # "exited" /\ req[r].at = "open"
    /\ \E call \in Calls :
         LET h == Handler(call)
             new == [req[r] EXCEPT !.handler = h]
         IN \/ /\ h \in Static
               /\ \E w \in StaticAnswer(h) :
                      Becomes(r, [new EXCEPT !.at = "unwind", !.resp = w])
            \/ /\ h \in OfTenants
               /\ \E kind \in {"unauthenticated"}
                        \cup (IF h \in Identified THEN {"validation"} ELSE {}) :
                      Becomes(r, [new EXCEPT !.at = "unwind", !.resp = Fail(Typed(kind))])
            \/ /\ h \notin Static
               /\ Becomes(r, [new EXCEPT !.at = IF h \in Bodied THEN "decode" ELSE "acquire"])
    /\ UNCHANGED <<process, held>>

(* Decode waits for the body for as long as the client takes: no deadline  *)
(* applies to reading it.                                                  *)
Decodes(r) ==
    /\ at # "exited" /\ req[r].at = "decode"
    /\ \/ Becomes(r, [req[r] EXCEPT !.at = "acquire"])
       \/ Returns(r, {Fail(Typed("validation"))})
    /\ UNCHANGED <<process, held>>

(* MUTANT: a pool without a bound. *)
AcquiresAnyway(r) ==
    /\ at \notin {"close", "exited"} /\ req[r].at = "acquire"
    /\ Becomes(r, [req[r] EXCEPT !.at = "query"])
    /\ held' = held \cup {r}
    /\ UNCHANGED process

Acquires(r) ==
    /\ at \notin {"close", "exited"} /\ req[r].at = "acquire"
    /\ Cardinality(held) < MaxConns
    /\ Becomes(r, [req[r] EXCEPT !.at = "query"])
    /\ held' = held \cup {r}
    /\ UNCHANGED process

(* The context is done, health's after 2 s already; the pool is closed; or *)
(* a new connection cannot be made.                                        *)
AcquireFails(r) ==
    /\ at # "exited" /\ req[r].at = "acquire"
    /\ \/ req[r].ctx # "live" \/ req[r].handler = "health"
       \/ Cardinality(held) < MaxConns /\ (at = "close" \/ database = "down")
    /\ Returns(r, Failure(req[r].handler))
    /\ UNCHANGED <<process, held>>

Releases(r) == held' = held \ {r}

(* The statements of the handler succeed, COMMIT included. *)
Works(r) ==
    /\ at # "exited" /\ req[r].at = "query" /\ database = "up"
    /\ Returns(r, Answers(req[r].handler))
    /\ Releases(r)
    /\ UNCHANGED process

(* One fails; inside a transaction a ROLLBACK may have to be sent. *)
WorkFails(r) ==
    /\ at # "exited" /\ req[r].at = "query"
    /\ \/ Returns(r, Failure(req[r].handler)) /\ Releases(r)
       \/ /\ req[r].handler \in InTransaction
          /\ Becomes(r, [req[r] EXCEPT !.at = "rollback"])
          /\ UNCHANGED held
    /\ UNCHANGED process

(* MUTANT: a panic leaves the connection behind. *)
PanicsHolding(r) ==
    /\ at # "exited" /\ req[r].at \in {"decode", "query"}
    /\ Becomes(r, [req[r] EXCEPT !.at = "unwind", !.panics = TRUE])
    /\ UNCHANGED <<process, held>>

Panics(r) ==
    /\ at # "exited" /\ req[r].at \in {"decode", "query"}
    /\ LET panicked == [req[r] EXCEPT !.panics = TRUE]
       IN IF req[r].handler \in InTransaction
          THEN Becomes(r, [panicked EXCEPT !.at = "rollback"]) /\ UNCHANGED held
          ELSE Becomes(r, [panicked EXCEPT !.at = "unwind"]) /\ Releases(r)
    /\ UNCHANGED process

(* ROLLBACK has no deadline; it returns, or the connection breaks. *)
RollsBack(r) ==
    /\ at # "exited" /\ req[r].at = "rollback"
    /\ Returns(r, IF req[r].panics THEN {Nothing} ELSE Failure(req[r].handler))
    /\ Releases(r)
    /\ UNCHANGED process

(* MUTANT: no middleware.Timeout. *)
NeverExpires(r) == FALSE /\ UNCHANGED vars

Expires(r) ==
    /\ at # "exited" /\ req[r].at \in Begun /\ req[r].ctx = "live"
    /\ Becomes(r, [req[r] EXCEPT !.ctx = "deadline"])
    /\ UNCHANGED <<process, held>>

Leaves(r) ==
    /\ at # "exited" /\ req[r].at \in {"acquire", "query"} /\ req[r].ctx = "live"
    /\ Becomes(r, [req[r] EXCEPT !.ctx = "gone"])
    /\ UNCHANGED <<process, held>>

(* The call returns through the middleware and the response is sent. *)
Finishes(r) ==
    /\ at # "exited" /\ req[r].at = "unwind"
    /\ LET end == Routes(req[r].ctx, req[r].panics, req[r].resp)
       IN Becomes(r, [req[r] EXCEPT !.at = "done", !.ctx = "live", !.panics = FALSE,
                                    !.resp = end.resp, !.log = end.log])
    /\ UNCHANGED <<process, held>>

-----------------------------------------------------------------------------
Main == Loads \/ Connects \/ Pings \/ ServeFails \/ Shutdown \/ Drained \/ DrainEnds \/ Exits

Client(r) == Opens(r) \/ Leaves(r)

Serves(r) ==
    \/ HangsUp(r) \/ Begins(r) \/ Decodes(r)
    \/ Acquires(r) \/ AcquireFails(r)
    \/ Works(r) \/ WorkFails(r) \/ Panics(r) \/ RollsBack(r)
    \/ Expires(r) \/ Finishes(r)

Next ==
    \/ Main \/ Listens \/ Breaks \/ Signal \/ DatabaseChanges
    \/ \E r \in Requests : Client(r) \/ Serves(r)

Spec == Init /\ [][Next]_vars

(* main and every goroutine are scheduled, and timers fire.  A client need *)
(* not send its body, and PostgreSQL need not answer, to a ROLLBACK least: *)
(* what has a context ends with it.                                        *)
Fairness ==
    /\ WF_vars(Main) /\ WF_vars(Listens)
    /\ \A r \in Requests :
          /\ WF_vars(Expires(r))
          /\ WF_vars(req[r].ctx # "live" /\ (AcquireFails(r) \/ WorkFails(r)))
          /\ WF_vars(Finishes(r))

FairSpec == Spec /\ Fairness

-----------------------------------------------------------------------------
(* Properties. *)

Handlers == {t[3] : t \in RouteTable} \cup Static

ResponseType ==
    [status : Nat, body : {"data", "cut", "error", "none"},
     kind : Kinds \cup {"none"}, message : {"wording", "generic", "cause", "none"}]

RequestStates ==
    [at : Begun \cup Settled \cup {"none", "open"},
     handler : Handlers \cup {"none"},
     ctx : {"live", "deadline", "gone"},
     resp : ResponseType,
     panics : BOOLEAN,
     log : [status : Nat, level : {"info", "warn", "error", "none"}]]

(* Types; a request has a handler once it has begun; the requests inside a *)
(* statement or transaction, and they only, hold connections, MaxConns at  *)
(* most.                                                                   *)
TypeOK ==
    /\ env \in Environments
    /\ at \in {"load", "connect", "ping", "serve", "drain", "close", "exited"}
    /\ code \in {"none", "ok", "error", "killed"}
    /\ signalled \in BOOLEAN
    /\ listener \in {"none", "starting", "open", "failed", "closed"}
    /\ database \in {"up", "down"}
    /\ ping \in {"none", "ok", "failed"}
    /\ req \in [Requests -> RequestStates]
    /\ \A r \in Requests : req[r].at \in Begun => req[r].handler # "none"
    /\ held = {r \in Requests : req[r].at \in {"query", "rollback"}}
    /\ Cardinality(held) <= MaxConns

(* A client is served, or queued, only by a process whose signing secret   *)
(* is long enough and whose database answered when it started, whichever   *)
(* of the environment and the .env files the values came from.             *)
ServesOnlyReady ==
    (listener = "open" \/ \E r \in Requests : req[r].at # "none")
        => /\ Length[cfg.JWTSecret] >= MinJWTSecretLen
           /\ cfg.DatabaseURL \in Parses
           /\ ping = "ok"

(* An error envelope has 5xx exactly for kind internal, whose cause it     *)
(* does not show; data has 2xx, but for health's 503; and a response       *)
(* without a body is 204, a preflight's 200, or made of a panic.           *)
Agrees(w, handler) ==
    CASE w.body = "error" -> /\ w.status >= 400
                             /\ w.status >= 500 <=> w.kind = "internal"
                             /\ w.kind = "internal" => w.message = "generic"
      [] w.body = "none" -> w.status \in {200, 204, 500, 504}
      [] OTHER -> \/ w.status \in {200, 201}
                  \/ w.status = 503 /\ handler = "health"

(* What is sent agrees with what happened, whether the handler answered,   *)
(* failed, panicked or was overtaken by its deadline.                      *)
AnswersAgree ==
    \A r \in Requests : req[r].at = "done" => Agrees(req[r].resp, req[r].handler)

(* The line in the log of a request has the status its client got, and a   *)
(* 5xx is an error there, also when the handler panicked or timed out.     *)
Logged ==
    \A r \in Requests : req[r].at = "done" =>
        /\ req[r].log.status = req[r].resp.status
        /\ req[r].log.level = "error" <=> req[r].resp.status >= 500

(* main never returns while a handler is inside a statement or a           *)
(* transaction, not even after Shutdown gave up on it: pool.Close waits.   *)
NothingCutInside == at = "exited" => held = {}

(* A signal ends the process, whatever the requests do, unless a ROLLBACK  *)
(* that has no deadline waits for ever.                                    *)
SignalEnds ==
    \/ signalled ~> at = "exited"
    \/ <>[](\E r \in Requests : req[r].at = "rollback")

(* Every request that has begun is answered or cut off, unless it waits    *)
(* for ever for its body or for a ROLLBACK: two waits without a deadline.  *)
RequestsEnd ==
    \A r \in Requests :
        \/ req[r].at \in Begun ~> req[r].at \in Settled
        \/ <>[](req[r].at \in {"decode", "rollback"})

(* The promise to a client and to whoever runs the process. *)
Called(label) ==
    CASE label \in {"none", "open", "closed"} -> "none"
      [] label \in Begun -> "asked"
      [] label = "done" -> "answered"
      [] label = "lost" -> "lost"

Service == INSTANCE Service WITH
    phase <- CASE at \in {"load", "connect", "ping"} -> "starting"
               [] at = "serve" -> "serving"
               [] at \in {"drain", "close"} -> "stopping"
               [] at = "exited" -> "stopped",
    exit <- IF at = "exited" THEN code ELSE "none",
    call <- [r \in Requests |-> Called(req[r].at)]

(* The process keeps the promise of Service. *)
ImplementsService == Service!Spec
=============================================================================
