----------------------------- MODULE ServerProofs -----------------------------
(***************************************************************************)
(* The safety of the process, for any number of requests, any pool and any *)
(* environment: types, who holds connections, what is sent and logged, the *)
(* gates before the listener, and that the process implements Service.     *)
(***************************************************************************)
EXTENDS Server, FiniteSetTheorems, TLAPS

DatabaseHandlers == DOMAIN Refusals
Holding == {"query", "rollback"}

(* A request on its way: what it has and owes at each label. *)
RequestOK(q) ==
    /\ q.at \in Working \cup {"none", "open"} => q.resp = Nothing
    /\ q.at \in Working => q.handler \in DatabaseHandlers
    /\ q.at = "decode" => q.handler \in Bodied
    /\ q.at \in {"none", "open", "decode", "acquire", "query"} => ~ q.panics
    /\ q.at = "unwind" /\ q.panics => q.resp = Nothing
    /\ q.at = "unwind" /\ ~ q.panics => Agrees(q.resp, q.handler)
    /\ q.at = "done" => /\ Agrees(q.resp, q.handler)
                        /\ q.log.status = q.resp.status
                        /\ q.log.level = "error" <=> q.resp.status >= 500

Starting == {"load", "connect", "ping"}
Ready == validate(cfg) /\ cfg.DatabaseURL \in Parses /\ ping = "ok"

Gates ==
    /\ at \notin {"load", "exited"} => validate(cfg)
    /\ at \notin {"load", "connect", "exited"} => cfg.DatabaseURL \in Parses
    /\ at \in Starting => listener = "none" /\ \A r \in Requests : req[r].at = "none"
    /\ listener # "none" => Ready
    /\ \A r \in Requests : req[r].at # "none" => Ready

Ending ==
    /\ at = "close" => code \in {"ok", "error"}
    /\ at = "close" /\ code = "ok" => Idle
    /\ at = "exited" => held = {}

Inv ==
    /\ TypeOK
    /\ IsFiniteSet(held)
    /\ \A r \in Requests : RequestOK(req[r])
    /\ Gates
    /\ Ending

-----------------------------------------------------------------------------
(* Responses. *)

LEMMA KindStatus ==
    ASSUME NEW kind \in Kinds
    PROVE  /\ Status(kind) \in Nat /\ Status(kind) >= 400
           /\ Status(kind) >= 500 <=> kind = "internal"
  BY DEF Kinds, Status, statusByKind

LEMMA HeaderSent ==
    ASSUME NEW status
    PROVE  WriteHeader(Nothing, status)
             = [status |-> status, body |-> "none", kind |-> "none", message |-> "none"]
  BY DEF WriteHeader, Nothing

LEMMA Encoded ==
    ASSUME NEW status, NEW body, NEW kind, NEW message
    PROVE  encode(Nothing, status, body, kind, message)
             = [status |-> status, body |-> body, kind |-> kind, message |-> message]
  BY HeaderSent DEF encode

LEMMA FailAgrees ==
    ASSUME NEW kind \in Kinds, kind # "internal", NEW h
    PROVE  Fail(Typed(kind)) \in ResponseType /\ Agrees(Fail(Typed(kind)), h)
<1>1. Fail(Typed(kind)) = [status |-> Status(kind), body |-> "error",
                           kind |-> kind, message |-> "wording"]
  BY Encoded DEF Fail, Typed, AsError, Kinds
<1> QED
  BY <1>1, KindStatus DEF ResponseType, Agrees

LEMMA InternalAgrees ==
    ASSUME NEW h
    PROVE  Fail(Internal("cause")) \in ResponseType /\ Agrees(Fail(Internal("cause")), h)
<1>1. Status("internal") = 500
  BY DEF Status, Kinds, statusByKind
<1>2. Fail(Internal("cause")) = [status |-> 500, body |-> "error",
                                 kind |-> "internal", message |-> "generic"]
  BY <1>1, Encoded DEF Fail, Internal, AsError
<1> QED
  BY <1>2 DEF ResponseType, Agrees, Kinds

LEMMA WriteAgrees ==
    ASSUME NEW status \in {200, 201, 503}, NEW w \in Write(status), NEW h,
           status = 503 => h = "health"
    PROVE  w \in ResponseType /\ Agrees(w, h)
<1>1. PICK b \in {"data", "cut"} :
          w = [status |-> status, body |-> b, kind |-> "none", message |-> "none"]
  BY Encoded DEF Write
<1> QED
  BY <1>1 DEF ResponseType, Agrees

LEMMA NothingTyped == Nothing \in ResponseType
  BY DEF Nothing, ResponseType

LEMMA HeaderAgrees ==
    ASSUME NEW status \in {200, 204, 500, 504}, NEW h
    PROVE  /\ WriteHeader(Nothing, status) \in ResponseType
           /\ Agrees(WriteHeader(Nothing, status), h)
           /\ WriteHeader(Nothing, status).status = status
  BY DEF Nothing, ResponseType, WriteHeader, Agrees

LEMMA AnswersTyped ==
    ASSUME NEW h \in DatabaseHandlers, NEW w \in Answers(h)
    PROVE  w \in ResponseType /\ Agrees(w, h)
<1>1. ASSUME NEW kind \in Refusals[h], w = Fail(Typed(kind))
      PROVE  w \in ResponseType /\ Agrees(w, h)
  <2>1. kind \in Kinds /\ kind # "internal"
    BY DEF DatabaseHandlers, Refusals, Kinds
  <2> QED
    BY <1>1, <2>1, FailAgrees
<1>2. CASE w \in Write(200) \/ w \in Write(201)
  BY <1>2, WriteAgrees
<1>3. CASE w = NoContent
  BY <1>3, HeaderAgrees DEF NoContent
<1> QED
  BY <1>1, <1>2, <1>3 DEF Answers

LEMMA FailureTyped ==
    ASSUME NEW h, NEW w \in Failure(h)
    PROVE  w \in ResponseType /\ Agrees(w, h)
  BY WriteAgrees, InternalAgrees DEF Failure

LEMMA StaticTyped ==
    ASSUME NEW h \in Static, NEW w \in StaticAnswer(h)
    PROVE  w \in ResponseType /\ Agrees(w, h)
<1>1. CASE h = "ping"
  BY <1>1, WriteAgrees DEF StaticAnswer
<1>2. CASE h = "preflight"
  BY <1>2, HeaderAgrees DEF StaticAnswer
<1>3. CASE h = "NotFound"
  BY <1>3, FailAgrees DEF StaticAnswer, Kinds
<1>4. CASE h = "MethodNotAllowed"
  BY <1>4, FailAgrees DEF StaticAnswer, Kinds
<1> QED
  BY <1>1, <1>2, <1>3, <1>4 DEF Static

(* A path and a method lead to a handler. *)
LEMMA HandlerTyped ==
    ASSUME NEW call
    PROVE  /\ Handler(call) \in Handlers /\ Handler(call) # "none"
           /\ Handler(call) \notin Static => Handler(call) \in DatabaseHandlers
<1>1. \A t \in RouteTable : /\ t[3] # "none"
                            /\ t[3] \notin Static => t[3] \in DatabaseHandlers
  <2>1. DatabaseHandlers = {"health", "listDepartments", "listEmployees", "createDepartment",
                            "deleteDepartment", "getEmployee", "createEmployee",
                            "updateEmployee", "deleteEmployee"}
    BY DEF DatabaseHandlers, Refusals
  <2>2. \A t \in RouteTable :
           \E a, b : \E h \in DatabaseHandlers \cup {"ping"} : t = <<a, b, h>>
    BY <2>1, Zenon DEF RouteTable
  <2> QED
    BY <2>1, <2>2 DEF Static
<1>2. Handler(call) \in Static \/ \E t \in RouteTable : Handler(call) = t[3]
  BY DEF Handler, Static
<1>3. "none" \notin Static
  BY DEF Static
<1> QED
  BY <1>1, <1>2, <1>3 DEF Handlers

(* What the middleware makes of what a handler has left. *)
LEMMA RoutesAgree ==
    ASSUME NEW ctx, NEW h, NEW resp \in ResponseType, NEW panics \in BOOLEAN,
           panics => resp = Nothing, ~ panics => Agrees(resp, h)
    PROVE  LET end == Routes(ctx, panics, resp)
           IN /\ end.resp \in ResponseType
              /\ Agrees(end.resp, h)
              /\ end.log \in [status : Nat, level : {"info", "warn", "error", "none"}]
              /\ end.log.status = end.resp.status
              /\ end.log.level = "error" <=> end.resp.status >= 500
<1> DEFINE sent == Recoverer(panics, Timeout(ctx, resp))
<1>1. sent \in ResponseType /\ Agrees(sent, h)
  <2>1. CASE panics
    <3>1. WriteHeader(WriteHeader(Nothing, 504), 500) = WriteHeader(Nothing, 504)
      BY HeaderAgrees DEF WriteHeader
    <3>2. \E status \in {500, 504} : sent = WriteHeader(Nothing, status)
      BY <2>1, <3>1 DEF Recoverer, Timeout
    <3> QED
      BY <3>2, HeaderAgrees
  <2>2. CASE ~ panics
    <3>1. resp.status # 0
      BY <2>2 DEF Agrees, ResponseType
    <3>2. sent = resp
      BY <2>2, <3>1 DEF Recoverer, Timeout, WriteHeader
    <3> QED
      BY <2>2, <3>2
  <2> QED
    BY <2>1, <2>2
<1> HIDE DEF sent
<1>2. sent.status \in Nat
  BY <1>1 DEF ResponseType
<1>3. /\ levelFor(sent.status) \in {"info", "warn", "error"}
      /\ levelFor(sent.status) = "error" <=> sent.status >= 500
  BY <1>2 DEF levelFor
<1>4. Routes(ctx, panics, resp)
        = [resp |-> sent, log |-> [status |-> sent.status, level |-> levelFor(sent.status)]]
  BY DEF Routes, RequestLogger, sent
<1> QED
  BY <1>1, <1>2, <1>3, <1>4

-----------------------------------------------------------------------------
(* The invariant: main, the listener and the world outside. *)

LEMMA InitInv == Init => Inv
<1> SUFFICES ASSUME Init PROVE Inv
  OBVIOUS
<1>1. \A r \in Requests : req[r] = [at |-> "none", handler |-> "none", ctx |-> "live",
                                   resp |-> Nothing, panics |-> FALSE, log |-> Unlogged]
  BY DEF Init
<1>2. req \in [Requests -> RequestStates]
  BY NothingTyped DEF Init, RequestStates, Unlogged
<1>3. IsFiniteSet(held) /\ Cardinality(held) = 0
  BY FS_EmptySet DEF Init
<1>4. \A r \in Requests : req[r].at = "none"
  BY <1>1
<1>5. held = {r \in Requests : req[r].at \in {"query", "rollback"}}
  BY <1>4 DEF Init
<1>6. TypeOK
  <2>1. signalled \in BOOLEAN
    BY Zenon DEF Init
  <2>2. Cardinality(held) <= MaxConns
    BY <1>3, ServerAssumption
  <2>3. \A r \in Requests : req[r].at \in Begun => req[r].handler # "none"
    BY <1>4 DEF Begun, Working
  <2> QED
    BY <1>2, <1>5, <2>1, <2>2, <2>3 DEF TypeOK, Init
<1> QED
  BY <1>4, <1>6, <1>3, <1>4 DEF Init, Inv, RequestOK, Working, Gates, Starting, Ending

(* Steps that leave the requests alone. *)
LEMMA ProcessStep ==
    ASSUME Inv, UNCHANGED <<env, held, req>>,
           at' \in {"load", "connect", "ping", "serve", "drain", "close", "exited"},
           code' \in {"none", "ok", "error", "killed"}, signalled' \in BOOLEAN,
           listener' \in {"none", "starting", "open", "failed", "closed"},
           database' \in {"up", "down"}, ping' \in {"none", "ok", "failed"}, Gates', Ending'
    PROVE  Inv'
  BY DEF Inv, TypeOK, RequestOK, Agrees

LEMMA SignalBoolean == ASSUME Inv PROVE signalled \in BOOLEAN
  BY Zenon DEF Inv, TypeOK

LEMMA Relabelled ==
    ASSUME NEW q \in RequestStates, NEW l \in Begun \cup Settled \cup {"none", "open"}
    PROVE  [q EXCEPT !.at = l] \in RequestStates
  BY DEF RequestStates

(* main returns with nothing inside a statement. *)
LEMMA EndStep ==
    ASSUME Inv, NEW c \in {"ok", "error", "killed"}, held = {}, Ends(c),
           UNCHANGED <<env, listener, database, ping, held>>, signalled' \in BOOLEAN
    PROVE  Inv'
<1> DEFINE Cut(l) == IF l \in Begun THEN "lost" ELSE IF l = "open" THEN "closed" ELSE l
<1>1. \A r \in Requests : req'[r] = [req[r] EXCEPT !.at = Cut(req[r].at)]
  BY DEF Ends
<1>2. \A r \in Requests : req[r] \in RequestStates
  BY DEF Inv, TypeOK
<1>3. ASSUME NEW r \in Requests
      PROVE  /\ req'[r] \in RequestStates
             /\ req'[r].at \notin Begun
             /\ req'[r].at # "none" => req[r].at # "none"
             /\ RequestOK(req'[r])
  <2>1. req[r] \in RequestStates /\ RequestOK(req[r])
    BY <1>2 DEF Inv
  <2>2. /\ Cut(req[r].at) \notin Begun
        /\ Cut(req[r].at) # "none" => req[r].at # "none"
        /\ Cut(req[r].at) \in {"none", "done"} => req[r].at = Cut(req[r].at)
        /\ Cut(req[r].at) # "open"
        /\ Cut(req[r].at) \in Begun \cup Settled \cup {"none", "open"}
    BY <2>1 DEF RequestStates, Begun, Working, Settled
  <2> HIDE DEF Cut
  <2>3. /\ req'[r].at = Cut(req[r].at) /\ req'[r].resp = req[r].resp
        /\ req'[r].handler = req[r].handler /\ req'[r].log = req[r].log
        /\ req'[r].panics = req[r].panics
    BY <1>1, <2>1 DEF RequestStates
  <2>4. req'[r] \in RequestStates
    BY <1>1, <2>1, <2>2, Relabelled
  <2>5. RequestOK(req'[r])
    BY <2>1, <2>2, <2>3 DEF RequestOK, Begun, Working
  <2> QED
    BY <2>2, <2>3, <2>4, <2>5
<1>4. TypeOK'
  <2>1. req' \in [Requests -> RequestStates]
    BY <1>3 DEF Ends
  <2>2. held' = {r \in Requests : req'[r].at \in {"query", "rollback"}}
    BY <1>3 DEF Begun, Working
  <2> QED
    BY <1>3, <2>1, <2>2 DEF TypeOK, Inv, Ends
<1>5. Gates'
  BY <1>3 DEF Gates, Inv, Ends, Starting, Ready, cfg
<1>6. Ending'
  BY DEF Ending, Ends
<1> QED
  BY <1>3, <1>4, <1>5, <1>6 DEF Inv

LEMMA MainInv == Inv /\ Main => Inv'
<1> SUFFICES ASSUME Inv, Main PROVE Inv'
  OBVIOUS
<1> USE SignalBoolean
<1>0. at \in Starting => held = {}
  BY DEF Inv, Gates, TypeOK
<1>1. CASE Loads
  <2>1. CASE validate(cfg)
    BY <1>1, <2>1, ProcessStep DEF Loads, Inv, TypeOK, Gates, Ending, Starting, Ready, cfg
  <2>2. CASE ~ validate(cfg)
    <3>1. Ends("error") /\ held = {} /\ UNCHANGED <<env, signalled, listener, database, ping, held>>
      BY <1>0, <1>1, <2>2 DEF Loads, Starting
    <3> QED
      BY <3>1, EndStep
  <2> QED
    BY <2>1, <2>2
<1>2. CASE Connects
  <2>1. CASE cfg.DatabaseURL \in Parses
    BY <1>2, <2>1, ProcessStep DEF Connects, Inv, TypeOK, Gates, Ending, Starting, Ready, cfg
  <2>2. CASE cfg.DatabaseURL \notin Parses
    <3>1. Ends("error") /\ held = {} /\ UNCHANGED <<env, signalled, listener, database, ping, held>>
      BY <1>0, <1>2, <2>2 DEF Connects, Starting
    <3> QED
      BY <3>1, EndStep
  <2> QED
    BY <2>1, <2>2
<1>3. CASE Pings
  BY <1>3, ProcessStep
     DEF Pings, Closes, Inv, TypeOK, Gates, Ending, Starting, Ready, cfg
<1>4. CASE ServeFails \/ Shutdown \/ Drained \/ DrainEnds
  BY <1>4, ProcessStep
     DEF ServeFails, Shutdown, Drained, DrainEnds, Closes, Idle, Inv, TypeOK, Gates, Ending,
         Starting, Ready, cfg
<1>5. CASE Exits
  BY <1>5, EndStep DEF Exits, Inv, Ending
<1> QED
  BY <1>1, <1>2, <1>3, <1>4, <1>5 DEF Main

LEMMA OutsideInv == Inv /\ (Listens \/ Breaks \/ Signal \/ DatabaseChanges) => Inv'
<1> SUFFICES ASSUME Inv, Listens \/ Breaks \/ Signal \/ DatabaseChanges PROVE Inv'
  OBVIOUS
<1> USE SignalBoolean
<1>1. CASE Listens \/ Breaks \/ DatabaseChanges
  BY <1>1, ProcessStep
     DEF Listens, Breaks, DatabaseChanges, Idle, Inv, TypeOK, Gates, Ending, Starting, Ready, cfg
<1>2. CASE Signal
  <2>1. CASE at = "load"
    <3>1. held = {}
      BY <2>1 DEF Inv, Gates, TypeOK, Starting
    <3> QED
      BY <1>2, <2>1, <3>1, EndStep DEF Signal
  <2>2. CASE at # "load"
    BY <1>2, <2>2, ProcessStep DEF Signal, Idle, Inv, TypeOK, Gates, Ending, Starting, Ready, cfg
  <2> QED
    BY <2>1, <2>2
<1> QED
  BY <1>1, <1>2

-----------------------------------------------------------------------------
(* The invariant: requests.  One of them takes a step from and to labels   *)
(* that have begun, or opens while the process serves.                     *)

LEMMA RequestStep ==
    ASSUME Inv, NEW r \in Requests, NEW new \in RequestStates,
           RequestOK(new), new.at \in Begun => new.handler # "none",
           Becomes(r, new), UNCHANGED process,
           held' = IF new.at \in Holding THEN held \cup {r} ELSE held \ {r},
           new.at \in Holding /\ req[r].at \notin Holding => Cardinality(held) < MaxConns,
           \/ at # "exited" /\ req[r].at \in Begun \cup {"open"}
           \/ at = "serve" /\ listener = "open"
    PROVE  Inv'
<1>1. req' \in [Requests -> RequestStates]
  BY DEF Inv, TypeOK, Becomes
<1>2. req'[r] = new /\ \A x \in Requests \ {r} : req'[x] = req[x]
  BY DEF Inv, TypeOK, Becomes
<1>3. held = {x \in Requests : req[x].at \in Holding}
  BY DEF Inv, TypeOK, Holding
<1>4. held' = {x \in Requests : req'[x].at \in Holding}
  BY <1>2, <1>3
<1>5. IsFiniteSet(held') /\ Cardinality(held') <= MaxConns
  <2>1. IsFiniteSet(held) /\ Cardinality(held) \in Nat /\ Cardinality(held) <= MaxConns
    BY FS_CardinalityType DEF Inv, TypeOK
  <2>2. CASE new.at \in Holding
    <3>1. held' = held \cup {r} /\ (r \notin held => Cardinality(held) < MaxConns)
      BY <1>3, <2>2
    <3>2. /\ IsFiniteSet(held \cup {r})
          /\ Cardinality(held \cup {r})
               = IF r \in held THEN Cardinality(held) ELSE Cardinality(held) + 1
      BY <2>1, FS_AddElement
    <3>3. Cardinality(held \cup {r}) <= MaxConns
      BY <2>1, <3>1, <3>2, ServerAssumption
    <3> QED
      BY <3>1, <3>2, <3>3
  <2>3. CASE new.at \notin Holding
    <3>1. held' = held \ {r}
      BY <2>3
    <3>2. /\ IsFiniteSet(held \ {r})
          /\ Cardinality(held \ {r})
               = IF r \in held THEN Cardinality(held) - 1 ELSE Cardinality(held)
      BY <2>1, FS_RemoveElement
    <3>3. Cardinality(held \ {r}) <= MaxConns
      BY <2>1, <3>2, ServerAssumption
    <3> QED
      BY <3>1, <3>2, <3>3
  <2> QED
    BY <2>2, <2>3
<1>6. TypeOK'
  <2>1. \A x \in Requests : req'[x].at \in Begun => req'[x].handler # "none"
    BY <1>2 DEF Inv, TypeOK
  <2>2. signalled' \in BOOLEAN
    BY SignalBoolean, Zenon DEF process
  <2> QED
    BY <1>1, <1>4, <1>5, <2>1, <2>2 DEF Inv, TypeOK, process, Holding
<1>7. \A x \in Requests : RequestOK(req'[x])
  BY <1>2 DEF Inv
<1>8. at \notin Starting /\ Ready
  BY DEF Inv, Gates, Starting, Begun, Working
<1>9. Gates'
  <2>1. Ready' /\ cfg' = cfg
    BY <1>8 DEF process, Ready, cfg
  <2> QED
    BY <1>8, <2>1 DEF Inv, Gates, Starting, Ready, process
<1>10. Ending'
  <2>1. at # "exited"
    OBVIOUS
  <2>2. at = "close" => ~ Idle
    BY DEF Idle
  <2> QED
    BY <2>1, <2>2 DEF Inv, Ending, process
<1> QED
  BY <1>5, <1>6, <1>7, <1>9, <1>10 DEF Inv

(* What a handler hands to the middleware. *)
LEMMA Returned ==
    ASSUME NEW q \in RequestStates, NEW w \in ResponseType, q.handler # "none",
           IF q.panics THEN w = Nothing ELSE Agrees(w, q.handler)
    PROVE  LET new == [q EXCEPT !.at = "unwind", !.resp = w]
           IN /\ new \in RequestStates /\ RequestOK(new)
              /\ new.at = "unwind" /\ new.handler = q.handler
<1> DEFINE new == [q EXCEPT !.at = "unwind", !.resp = w]
<1>1. /\ new.at = "unwind" /\ new.resp = w
      /\ new.handler = q.handler /\ new.panics = q.panics
  BY DEF RequestStates
<1>2. new \in RequestStates
  BY DEF RequestStates, Begun
<1> HIDE DEF new
<1>3. RequestOK(new)
  BY <1>1 DEF RequestOK, Working
<1> QED
  BY <1>1, <1>2, <1>3 DEF new

LEMMA BecomesType ==
    ASSUME Inv, NEW r \in Requests
    PROVE  /\ req[r] \in RequestStates /\ RequestOK(req[r])
           /\ req[r].at \in Begun => req[r].handler # "none"
           /\ r \in held <=> req[r].at \in Holding
  BY DEF Inv, TypeOK, Holding

(* A handler returns from a label at which it has answers to give. *)
LEMMA ReturnsStep ==
    ASSUME Inv, NEW r \in Requests, NEW answers, Returns(r, answers),
           at # "exited", req[r].at \in Begun, UNCHANGED process,
           held' = held \ {r},
           \A w \in answers :
               /\ w \in ResponseType
               /\ IF req[r].panics THEN w = Nothing ELSE Agrees(w, req[r].handler)
    PROVE  Inv'
<1>1. PICK w \in answers : Becomes(r, [req[r] EXCEPT !.at = "unwind", !.resp = w])
  BY DEF Returns
<1> DEFINE new == [req[r] EXCEPT !.at = "unwind", !.resp = w]
<1>2. /\ new \in RequestStates /\ RequestOK(new)
      /\ new.at = "unwind" /\ new.handler # "none"
  BY BecomesType, Returned
<1> HIDE DEF new
<1>3. Becomes(r, new)
  BY <1>1 DEF new
<1> QED
  BY <1>2, <1>3, RequestStep DEF Holding

(* A request that begins holds nothing yet. *)
LEMMA BeginsInv ==
    ASSUME Inv, NEW r \in Requests, Begins(r)
    PROVE  Inv'
<1>1. PICK call \in Calls :
         LET h == Handler(call)
             new == [req[r] EXCEPT !.handler = h]
         IN \/ /\ h \in Static
               /\ \E w \in StaticAnswer(h) :
                      Becomes(r, [new EXCEPT !.at = "unwind", !.resp = w])
            \/ /\ h \in OfTenants
               /\ \E kind \in {"unauthenticated"}
                        \cup (IF h \in Identified THEN {"validation"} ELSE {}) :
                      Becomes(r, [new EXCEPT !.at = "unwind", !.resp = Fail(Typed(kind))])
            \/ /\ h \notin Static
               /\ Becomes(r, [new EXCEPT !.at = IF h \in Bodied THEN "decode" ELSE "acquire"])
  BY DEF Begins
<1> DEFINE h == Handler(call)
           q == [req[r] EXCEPT !.handler = h]
           started == IF h \in Bodied THEN "decode" ELSE "acquire"
<1>2. /\ at # "exited" /\ req[r].at = "open" /\ UNCHANGED process /\ held' = held
      /\ held = held \ {r} /\ req[r] \in RequestStates
      /\ ~ req[r].panics /\ req[r].resp = Nothing
  BY BecomesType DEF Begins, Holding, RequestOK
<1>routed.
      \/ h \in Static /\ \E w \in StaticAnswer(h) :
                              Becomes(r, [q EXCEPT !.at = "unwind", !.resp = w])
      \/ \E kind \in {"unauthenticated", "validation"} :
              Becomes(r, [q EXCEPT !.at = "unwind", !.resp = Fail(Typed(kind))])
      \/ h \notin Static /\ Becomes(r, [q EXCEPT !.at = started])
  BY <1>1
<1>3. h \in Handlers /\ h # "none" /\ (h \notin Static => h \in DatabaseHandlers)
  BY HandlerTyped
<1> HIDE DEF h
<1>4. q \in RequestStates /\ ~ q.panics /\ q.handler = h /\ q.resp = Nothing
  BY <1>2, <1>3 DEF RequestStates
<1>5. ASSUME NEW w \in ResponseType, Agrees(w, h),
             Becomes(r, [q EXCEPT !.at = "unwind", !.resp = w])
      PROVE  Inv'
  <2> DEFINE new == [q EXCEPT !.at = "unwind", !.resp = w]
  <2> HIDE DEF q
  <2>1. /\ new \in RequestStates /\ RequestOK(new)
        /\ new.at = "unwind" /\ new.handler # "none"
    BY <1>3, <1>4, <1>5, Returned
  <2>2. Becomes(r, new)
    BY <1>5
  <2> HIDE DEF new
  <2> QED
    BY <1>2, <2>1, <2>2, RequestStep DEF Holding
<1>6. CASE h \in Static /\ \E w \in StaticAnswer(h) :
                                Becomes(r, [q EXCEPT !.at = "unwind", !.resp = w])
  BY <1>5, <1>6, StaticTyped
<1>7. CASE \E kind \in {"unauthenticated", "validation"} :
              Becomes(r, [q EXCEPT !.at = "unwind", !.resp = Fail(Typed(kind))])
  <2>1. PICK kind \in {"unauthenticated", "validation"} :
              Becomes(r, [q EXCEPT !.at = "unwind", !.resp = Fail(Typed(kind))])
    BY <1>7
  <2>2. Fail(Typed(kind)) \in ResponseType /\ Agrees(Fail(Typed(kind)), h)
    BY FailAgrees DEF Kinds
  <2> HIDE DEF q
  <2> QED
    BY <1>5, <2>1, <2>2
<1>8. CASE h \notin Static /\ Becomes(r, [q EXCEPT !.at = started])
  <2> DEFINE new == [q EXCEPT !.at = started]
  <2>1. /\ new.at = started /\ new.resp = Nothing /\ new.handler = h
        /\ new.panics = q.panics
    BY <1>4 DEF RequestStates
  <2>2. new \in RequestStates
    BY <1>4, Relabelled DEF Begun, Working
  <2>3. Becomes(r, new)
    BY <1>8
  <2>4. started \in {"decode", "acquire"} /\ (started = "decode" => h \in Bodied)
    OBVIOUS
  <2> HIDE DEF new, started
  <2>5. RequestOK(new)
    BY <1>3, <1>4, <1>8, <2>1, <2>4 DEF RequestOK
  <2> QED
    BY <1>2, <1>3, <2>1, <2>2, <2>3, <2>4, <2>5, RequestStep DEF Holding
<1> QED
  BY <1>routed, <1>6, <1>7, <1>8

(* A request that goes on: a new label, a context that is done, a panic.   *)
LEMMA MovesStep ==
    ASSUME Inv, NEW r \in Requests, NEW l \in {"open", "closed", "acquire", "query", "rollback"},
           Becomes(r, [req[r] EXCEPT !.at = l]), UNCHANGED process,
           held' = IF l \in Holding THEN held \cup {r} ELSE held \ {r},
           l \in Holding /\ req[r].at \notin Holding => Cardinality(held) < MaxConns,
           \/ at # "exited" /\ req[r].at \in Begun \cup {"open"}
           \/ at = "serve" /\ listener = "open",
           l = "open" => req[r].at = "none",
           l \in Working => req[r].at \in {"decode", "acquire", "query"}
    PROVE  Inv'
<1> DEFINE new == [req[r] EXCEPT !.at = l]
<1>1. /\ req[r] \in RequestStates /\ RequestOK(req[r])
      /\ req[r].at \in Begun => req[r].handler # "none"
  BY BecomesType
<1>2. /\ new.at = l /\ new.resp = req[r].resp /\ new.handler = req[r].handler
      /\ ~ req[r].panics => ~ new.panics
  BY <1>1 DEF RequestStates
<1>3. new \in RequestStates
  BY <1>1, Relabelled DEF Begun, Working, Settled
<1>4. Becomes(r, new)
  OBVIOUS
<1> HIDE DEF new
<1>5. RequestOK(new) /\ (new.at \in Begun => new.handler # "none")
  BY <1>1, <1>2 DEF RequestOK, Begun, Working
<1> QED
  BY <1>2, <1>3, <1>4, <1>5, RequestStep

LEMMA ContextStep ==
    ASSUME Inv, NEW r \in Requests, NEW ctx \in {"live", "deadline", "gone"},
           Becomes(r, [req[r] EXCEPT !.ctx = ctx]), UNCHANGED <<process, held>>,
           at # "exited", req[r].at \in Begun
    PROVE  Inv'
<1> DEFINE new == [req[r] EXCEPT !.ctx = ctx]
<1>1. /\ req[r] \in RequestStates /\ RequestOK(req[r])
      /\ req[r].at \in Begun => req[r].handler # "none"
      /\ r \in held <=> req[r].at \in Holding
  BY BecomesType
<1>2. /\ new \in RequestStates
      /\ new.at = req[r].at /\ new.resp = req[r].resp /\ new.handler = req[r].handler
      /\ new.panics <=> req[r].panics
  BY <1>1 DEF RequestStates
<1>3. Becomes(r, new)
  OBVIOUS
<1> HIDE DEF new
<1>4. RequestOK(new)
  BY <1>1, <1>2 DEF RequestOK, Begun, Working
<1>5. held' = IF new.at \in Holding THEN held \cup {r} ELSE held \ {r}
  BY <1>1, <1>2
<1> QED
  BY <1>1, <1>2, <1>3, <1>4, <1>5, RequestStep

LEMMA PanicsStep ==
    ASSUME Inv, NEW r \in Requests, NEW l \in {"unwind", "rollback"},
           Becomes(r, [[req[r] EXCEPT !.panics = TRUE] EXCEPT !.at = l]), UNCHANGED process,
           held' = IF l = "rollback" THEN held \cup {r} ELSE held \ {r},
           l = "rollback" => r \in held,
           at # "exited", req[r].at \in {"decode", "query"}
    PROVE  Inv'
<1> DEFINE new == [[req[r] EXCEPT !.panics = TRUE] EXCEPT !.at = l]
<1>1. /\ req[r] \in RequestStates /\ RequestOK(req[r])
      /\ req[r].at \in Begun /\ req[r].handler # "none"
      /\ r \in held <=> req[r].at \in Holding
  BY BecomesType DEF Begun, Working
<1>2. /\ new \in RequestStates
      /\ new.at = l /\ new.resp = req[r].resp /\ new.handler = req[r].handler
      /\ new.panics
  BY <1>1 DEF RequestStates, Begun, Working
<1>3. Becomes(r, new)
  OBVIOUS
<1> HIDE DEF new
<1>4. RequestOK(new)
  BY <1>1, <1>2 DEF RequestOK, Begun, Working
<1> QED
  BY <1>1, <1>2, <1>3, <1>4, RequestStep DEF Holding

LEMMA RequestInv ==
    ASSUME Inv, NEW r \in Requests, Client(r) \/ Serves(r)
    PROVE  Inv'
<1> DEFINE q == req[r]
<1>1. /\ q \in RequestStates /\ RequestOK(q)
      /\ q.at \in Begun => q.handler # "none"
      /\ r \in held <=> q.at \in Holding
  BY BecomesType
<1>2. CASE Opens(r)
  BY <1>1, <1>2, MovesStep DEF Opens, Begun, Working, Holding
<1>3. CASE HangsUp(r)
  BY <1>1, <1>3, MovesStep DEF HangsUp, Begun, Working, Holding
<1>4. CASE Begins(r)
  BY <1>4, BeginsInv
<1>5. CASE Decodes(r)
  <2>1. CASE Becomes(r, [q EXCEPT !.at = "acquire"])
    BY <1>1, <1>5, <2>1, MovesStep DEF Decodes, Begun, Working, Holding
  <2>2. CASE Returns(r, {Fail(Typed("validation"))})
    <3>1. \A w \in {Fail(Typed("validation"))} :
             w \in ResponseType /\ Agrees(w, q.handler)
      BY FailAgrees DEF Kinds
    <3>2. ~ q.panics /\ r \notin held
      BY <1>1, <1>5 DEF Decodes, RequestOK, Holding
    <3> QED
      BY <1>5, <2>2, <3>1, <3>2, ReturnsStep DEF Decodes, Begun, Working
  <2> QED
    BY <1>5, <2>1, <2>2 DEF Decodes
<1>6. CASE Acquires(r)
  BY <1>1, <1>6, MovesStep DEF Acquires, Begun, Working, Holding
<1>7. CASE AcquireFails(r)
  <2>1. ~ q.panics /\ r \notin held
    BY <1>1, <1>7 DEF AcquireFails, RequestOK, Holding
  <2> QED
    BY <1>7, <2>1, FailureTyped, ReturnsStep DEF AcquireFails, Begun, Working
<1>8. CASE Works(r)
  <2>1. ~ q.panics /\ q.handler \in DatabaseHandlers
    BY <1>1, <1>8 DEF Works, RequestOK, Working
  <2> QED
    BY <1>8, <2>1, AnswersTyped, ReturnsStep DEF Works, Releases, Begun, Working
<1>9. CASE WorkFails(r)
  <2>1. CASE Returns(r, Failure(q.handler)) /\ Releases(r)
    <3>1. ~ q.panics
      BY <1>1, <1>9 DEF WorkFails, RequestOK
    <3> QED
      BY <1>9, <2>1, <3>1, FailureTyped, ReturnsStep DEF WorkFails, Releases, Begun, Working
  <2>2. CASE Becomes(r, [q EXCEPT !.at = "rollback"]) /\ held' = held
    BY <1>1, <1>9, <2>2, MovesStep DEF WorkFails, Begun, Working, Holding
  <2> QED
    BY <1>9, <2>1, <2>2 DEF WorkFails
<1>10. CASE Panics(r)
  <2>1. q.handler \in InTransaction => q.at = "query"
    BY <1>1, <1>10 DEF Panics, RequestOK, InTransaction, Bodied
  <2>2. CASE q.handler \in InTransaction
    BY <1>1, <1>10, <2>1, <2>2, PanicsStep DEF Panics, Holding
  <2>3. CASE q.handler \notin InTransaction
    BY <1>10, <2>3, PanicsStep DEF Panics, Releases
  <2> QED
    BY <2>2, <2>3
<1>11. CASE RollsBack(r)
  <2>1. CASE q.panics
    BY <1>11, <2>1, NothingTyped, ReturnsStep DEF RollsBack, Releases, Begun, Working
  <2>2. CASE ~ q.panics
    BY <1>11, <2>2, FailureTyped, ReturnsStep DEF RollsBack, Releases, Begun, Working
  <2> QED
    BY <2>1, <2>2
<1>12. CASE Expires(r)
  BY <1>12, ContextStep DEF Expires
<1>13. CASE Leaves(r)
  BY <1>13, ContextStep DEF Leaves, Begun, Working
<1>14. CASE Finishes(r)
  <2> DEFINE end == Routes(q.ctx, q.panics, q.resp)
             new == [q EXCEPT !.at = "done", !.ctx = "live", !.panics = FALSE,
                              !.resp = end.resp, !.log = end.log]
  <2>1. /\ at # "exited" /\ q.at = "unwind" /\ Becomes(r, new)
        /\ UNCHANGED process /\ held' = held
    BY <1>14 DEF Finishes
  <2>2. /\ q.resp \in ResponseType /\ q.panics \in BOOLEAN
        /\ q.panics => q.resp = Nothing
        /\ ~ q.panics => Agrees(q.resp, q.handler)
    BY <1>1, <2>1, Zenon DEF RequestStates, RequestOK
  <2>3. /\ end.resp \in ResponseType
        /\ Agrees(end.resp, q.handler)
        /\ end.log \in [status : Nat, level : {"info", "warn", "error", "none"}]
        /\ end.log.status = end.resp.status
        /\ end.log.level = "error" <=> end.resp.status >= 500
    BY <2>2, RoutesAgree
  <2> HIDE DEF end
  <2>4. /\ new.at = "done" /\ new.handler = q.handler
        /\ new.resp = end.resp /\ new.log = end.log
    BY <1>1 DEF RequestStates
  <2>5. new \in RequestStates
    BY <1>1, <2>3 DEF RequestStates, Settled
  <2> HIDE DEF new
  <2>6. RequestOK(new)
    BY <2>3, <2>4 DEF RequestOK, Working
  <2> QED
    BY <1>1, <2>1, <2>4, <2>5, <2>6, RequestStep DEF Begun, Working, Holding
<1> QED
  BY <1>2, <1>3, <1>4, <1>5, <1>6, <1>7, <1>8, <1>9, <1>10, <1>11, <1>12, <1>13, <1>14
     DEF Client, Serves

-----------------------------------------------------------------------------
(* The invariant along behaviours, and the safety properties.              *)

LEMMA NextInv == Inv /\ [Next]_vars => Inv'
<1> SUFFICES ASSUME Inv, [Next]_vars PROVE Inv'
  OBVIOUS
<1>1. CASE UNCHANGED vars
  BY <1>1, ProcessStep, SignalBoolean
     DEF vars, Inv, TypeOK, Gates, Ending, Idle, Starting, Ready, cfg
<1> QED
  BY <1>1, MainInv, OutsideInv, RequestInv DEF Next

THEOREM InvAlways == Spec => []Inv
<1>1. Init => Inv
  BY InitInv
<1>2. Inv /\ [Next]_vars => Inv'
  BY NextInv
<1> QED
  BY <1>1, <1>2, PTL DEF Spec

(* In every reachable state the variables have their types and MaxConns    *)
(* requests at most, those inside a statement, hold a connection.          *)
THEOREM TypeAlways == Spec => []TypeOK
<1>1. Inv => TypeOK
  BY DEF Inv
<1> QED
  BY <1>1, InvAlways, PTL

(* A process whose secret is too short, or whose database did not answer   *)
(* or could not be addressed, never serves.                                *)
THEOREM GatesHold == Spec => []ServesOnlyReady
<1>1. Inv => ServesOnlyReady
  BY DEF Inv, Gates, Ready, validate, ServesOnlyReady
<1> QED
  BY <1>1, InvAlways, PTL

(* What clients get agrees with what happened, whatever path the call took *)
(* back through the middleware.                                            *)
THEOREM AnswersAlwaysAgree == Spec => []AnswersAgree
<1>1. Inv => AnswersAgree
  BY DEF Inv, RequestOK, AnswersAgree
<1> QED
  BY <1>1, InvAlways, PTL

(* The log tells the status that was sent, and 5xx as errors.              *)
THEOREM AlwaysLogged == Spec => []Logged
<1>1. Inv => Logged
  BY DEF Inv, RequestOK, Logged
<1> QED
  BY <1>1, InvAlways, PTL

(* main does not return before every connection is back in the pool.       *)
THEOREM NeverCutInside == Spec => []NothingCutInside
<1>1. Inv => NothingCutInside
  BY DEF Inv, Ending, NothingCutInside
<1> QED
  BY <1>1, InvAlways, PTL

-----------------------------------------------------------------------------
(* The process implements Service. *)

Phase ==
    CASE at \in {"load", "connect", "ping"} -> "starting"
      [] at = "serve" -> "serving"
      [] at \in {"drain", "close"} -> "stopping"
      [] at = "exited" -> "stopped"
Exit == IF at = "exited" THEN code ELSE "none"
Call == [r \in Requests |-> Called(req[r].at)]

(* A step of one request is a step of its call, or hides it. *)
Alone(r) == \A x \in Requests \ {r} : req'[x] = req[x]

LEMMA BecomesAlone ==
    ASSUME Inv, NEW r \in Requests, NEW new, Becomes(r, new)
    PROVE  req'[r] = new /\ Alone(r)
  BY DEF Inv, TypeOK, Becomes, Alone

LEMMA CallStep ==
    ASSUME Inv, NEW r \in Requests, Alone(r)
    PROVE  /\ Call' = [Call EXCEPT ![r] = Called(req'[r].at)]
           /\ Call[r] = Called(req[r].at)
           /\ Called(req'[r].at) = Called(req[r].at) => Call' = Call
<1>1. Call' = [x \in Requests |-> Called(req'[x].at)]
  BY DEF Call, Called
<1> HIDE DEF Called
<1> QED
  BY <1>1 DEF Call, Alone

LEMMA Labels ==
    /\ \A l \in Begun : Called(l) = "asked"
    /\ \A l \in {"none", "open", "closed"} : Called(l) = "none"
    /\ Called("done") = "answered" /\ Called("lost") = "lost"
  BY DEF Called, Begun, Working

(* A call begins, goes on or is answered. *)
LEMMA RequestRefines ==
    ASSUME Inv, NEW r \in Requests, Client(r) \/ Serves(r)
    PROVE  /\ at # "exited" /\ UNCHANGED <<at, code>>
           /\ \/ at \in {"serve", "drain", "close"} /\ Call[r] = "none"
                 /\ Call' = [Call EXCEPT ![r] = "asked"]
              \/ Call[r] = "asked" /\ Call' = [Call EXCEPT ![r] = "answered"]
              \/ Call' = Call
<1> DEFINE q == req[r]
<1> USE Labels, CallStep
<1>1. q \in RequestStates
  BY BecomesType
<1>2. CASE Opens(r) \/ HangsUp(r)
  BY <1>1, <1>2, BecomesAlone DEF Opens, HangsUp, process, RequestStates
<1>3. CASE Begins(r)
  <2>1. at # "exited" /\ UNCHANGED process /\ q.at = "open"
    BY <1>3 DEF Begins
  <2>2. Alone(r) /\ req'[r].at \in Begun
    <3>1. \E h : \/ \E w : Becomes(r, [[q EXCEPT !.handler = h] EXCEPT !.at = "unwind", !.resp = w])
                \/ \E l \in Begun : Becomes(r, [[q EXCEPT !.handler = h] EXCEPT !.at = l])
      BY <1>3 DEF Begins, Begun, Working
    <3>2. PICK h : \/ \E w : Becomes(r, [[q EXCEPT !.handler = h] EXCEPT !.at = "unwind", !.resp = w])
                   \/ \E l \in Begun : Becomes(r, [[q EXCEPT !.handler = h] EXCEPT !.at = l])
      BY <3>1
    <3>3. ASSUME NEW w, Becomes(r, [[q EXCEPT !.handler = h] EXCEPT !.at = "unwind", !.resp = w])
          PROVE  Alone(r) /\ req'[r].at = "unwind"
      <4>1. Alone(r) /\ req'[r] = [[q EXCEPT !.handler = h] EXCEPT !.at = "unwind", !.resp = w]
        BY <3>3, BecomesAlone
      <4> QED
        BY <1>1, <4>1 DEF RequestStates
    <3>4. ASSUME NEW l \in Begun, Becomes(r, [[q EXCEPT !.handler = h] EXCEPT !.at = l])
          PROVE  Alone(r) /\ req'[r].at = l
      <4>1. Alone(r) /\ req'[r] = [[q EXCEPT !.handler = h] EXCEPT !.at = l]
        BY <3>4, BecomesAlone
      <4> QED
        BY <1>1, <4>1 DEF RequestStates
    <3> QED
      BY <3>2, <3>3, <3>4 DEF Begun
  <2>3. at \in {"serve", "drain", "close"}
    BY <2>1 DEF Inv, TypeOK, Gates, Starting
  <2> QED
    BY <2>1, <2>2, <2>3 DEF process
<1>4. CASE \/ Decodes(r) \/ Acquires(r) \/ AcquireFails(r) \/ Works(r) \/ WorkFails(r)
           \/ Panics(r) \/ RollsBack(r) \/ Expires(r) \/ Leaves(r)
  <2>1. at # "exited" /\ UNCHANGED process /\ q.at \in Begun
    BY <1>4 DEF Decodes, Acquires, AcquireFails, Works, WorkFails, Panics, RollsBack,
                Expires, Leaves, Begun, Working
  <2>2. \/ \E l \in Begun : Becomes(r, [q EXCEPT !.at = l])
        \/ \E l \in Begun : Becomes(r, [[q EXCEPT !.panics = TRUE] EXCEPT !.at = l])
        \/ \E w : Becomes(r, [q EXCEPT !.at = "unwind", !.resp = w])
        \/ \E ctx : Becomes(r, [q EXCEPT !.ctx = ctx])
    BY <1>4 DEF Decodes, Acquires, AcquireFails, Works, WorkFails, Panics, RollsBack,
                Expires, Leaves, Returns, Begun, Working
  <2>3. ASSUME NEW l \in Begun, NEW new, Becomes(r, new),
               \/ new = [q EXCEPT !.at = l]
               \/ new = [[q EXCEPT !.panics = TRUE] EXCEPT !.at = l]
        PROVE  Alone(r) /\ req'[r].at \in Begun
    <3>1. new.at = l
      BY <1>1, <2>3 DEF RequestStates
    <3> QED
      BY <2>3, <3>1, BecomesAlone
  <2>4. ASSUME NEW w, NEW new, Becomes(r, new),
               new = [q EXCEPT !.at = "unwind", !.resp = w]
        PROVE  Alone(r) /\ req'[r].at \in Begun
    <3>1. new.at \in Begun
      BY <1>1, <2>4 DEF RequestStates, Begun
    <3> QED
      BY <2>4, <3>1, BecomesAlone
  <2>5. ASSUME NEW ctx, NEW new, Becomes(r, new), new = [q EXCEPT !.ctx = ctx]
        PROVE  Alone(r) /\ req'[r].at \in Begun
    <3>1. new.at \in Begun
      BY <1>1, <2>1, <2>5 DEF RequestStates
    <3> QED
      BY <2>5, <3>1, BecomesAlone
  <2>6. Alone(r) /\ req'[r].at \in Begun
    BY <2>2, <2>3, <2>4, <2>5
  <2> QED
    BY <2>1, <2>6 DEF process
<1>5. CASE Finishes(r)
  <2>1. at # "exited" /\ UNCHANGED process /\ q.at \in Begun
    BY <1>5 DEF Finishes, Begun
  <2>2. PICK resp, log :
            Becomes(r, [q EXCEPT !.at = "done", !.ctx = "live", !.panics = FALSE,
                                 !.resp = resp, !.log = log])
    BY <1>5 DEF Finishes
  <2> DEFINE new == [q EXCEPT !.at = "done", !.ctx = "live", !.panics = FALSE,
                              !.resp = resp, !.log = log]
  <2>3. new.at = "done"
    BY <1>1 DEF RequestStates
  <2>4. Becomes(r, new)
    BY <2>2
  <2> HIDE DEF new
  <2>5. Alone(r) /\ req'[r].at = "done"
    BY <2>3, <2>4, BecomesAlone
  <2> QED
    BY <2>1, <2>5 DEF process
<1> QED
  BY <1>2, <1>3, <1>4, <1>5 DEF Client, Serves

(* main ends: what is asked is lost. *)
LEMMA EndRefines ==
    ASSUME Inv, NEW c, Ends(c)
    PROVE  /\ at' = "exited" /\ code' = c
           /\ Call' = [r \in Requests |-> IF Call[r] = "asked" THEN "lost" ELSE Call[r]]
<1>1. \A r \in Requests : req[r] \in RequestStates
  BY DEF Inv, TypeOK
<1>2. \A r \in Requests :
         req'[r].at = IF req[r].at \in Begun THEN "lost"
                      ELSE IF req[r].at = "open" THEN "closed" ELSE req[r].at
  BY <1>1 DEF Ends, RequestStates
<1>3. \A r \in Requests : req[r].at \in Begun \cup {"none", "open", "closed", "done", "lost"}
  BY <1>1 DEF RequestStates, Settled
<1>4. \A r \in Requests :
         Called(req'[r].at) = IF Called(req[r].at) = "asked" THEN "lost" ELSE Called(req[r].at)
  BY <1>2, <1>3, Labels
<1>5. Call' = [r \in Requests |-> Called(req'[r].at)]
  BY DEF Call, Called
<1> QED
  BY <1>4, <1>5 DEF Ends, Call

LEMMA StepRefines == Inv /\ [Next]_vars => [Service!Next]_<<Phase, Exit, Call>>
<1> SUFFICES ASSUME Inv, [Next]_vars PROVE [Service!Next]_<<Phase, Exit, Call>>
  OBVIOUS
<1>1. CASE UNCHANGED <<at, code, req>>
  BY <1>1 DEF Phase, Exit, Call, Called
<1>2. CASE \E r \in Requests : Client(r) \/ Serves(r)
  <2>1. PICK r \in Requests : Client(r) \/ Serves(r)
    BY <1>2
  <2>2. Phase' = Phase /\ Exit' = Exit
    BY <2>1, RequestRefines DEF Phase, Exit
  <2>3. at \in {"serve", "drain", "close"} => Phase \in {"serving", "stopping"}
    BY DEF Phase
  <2>4. Phase # "stopped"
    BY <2>1, RequestRefines DEF Phase, Inv, TypeOK
  <2>5. CASE Call[r] = "none" /\ Call' = [Call EXCEPT ![r] = "asked"]
              /\ at \in {"serve", "drain", "close"}
    <3>1. Service!Ask(r)
      BY <2>2, <2>3, <2>5 DEF Service!Ask, Phase, Exit, Call
    <3> QED
      BY <3>1 DEF Service!Next
  <2>6. CASE Call[r] = "asked" /\ Call' = [Call EXCEPT ![r] = "answered"]
    <3>1. Service!Answer(r)
      BY <2>2, <2>4, <2>6 DEF Service!Answer, Phase, Exit, Call
    <3> QED
      BY <3>1 DEF Service!Next
  <2> QED
    BY <2>1, <2>2, <2>5, <2>6, RequestRefines
<1>3. ASSUME NEW c \in {"ok", "error", "killed"}, Ends(c), at # "exited",
             c = "ok" => at = "close" /\ Idle
      PROVE  \E d \in {"ok", "error", "killed"} : Service!End(d)
  <2>1. Phase # "stopped" /\ (c = "ok" => Phase = "stopping")
    BY <1>3 DEF Phase, Inv, TypeOK
  <2>2. Phase' = "stopped" /\ Exit' = c
    BY <1>3 DEF Ends, Phase, Exit
  <2>3. c = "ok" => \A r \in Requests : Call[r] # "asked"
    <3>1. \A r \in Requests :
             req[r].at \in Begun \cup {"none", "open", "closed", "done", "lost"}
      BY DEF Inv, TypeOK, RequestStates, Settled
    <3> QED
      BY <1>3, <3>1, Labels DEF Idle, Call
  <2>4. Call' = [r \in Requests |-> IF Call[r] = "asked" THEN "lost" ELSE Call[r]]
    BY <1>3, EndRefines
  <2>5. Service!End(c)
    BY <2>1, <2>2, <2>3, <2>4 DEF Service!End, Phase, Exit, Call
  <2> QED
    BY <2>5
<1>4. CASE Loads \/ Connects \/ Exits \/ Signal
  <2>1. CASE \E c \in {"ok", "error", "killed"} :
                Ends(c) /\ at # "exited" /\ (c = "ok" => at = "close" /\ Idle)
    <3>1. \E d \in {"ok", "error", "killed"} : Service!End(d)
      BY <1>3, <2>1
    <3> QED
      BY <3>1 DEF Service!Next
  <2>2. CASE \/ at = "load" /\ at' = "connect" /\ UNCHANGED <<code, req>>
             \/ at = "connect" /\ at' = "ping" /\ UNCHANGED <<code, req>>
    <3>1. req' = req
      BY <2>2
    <3>2. Call' = Call
      BY <3>1 DEF Call, Called
    <3> QED
      BY <2>2, <3>2 DEF Phase, Exit
  <2>3. CASE UNCHANGED <<at, code, req>>
    BY <1>1, <2>3
  <2>4. at = "close" => code \in {"ok", "error"} /\ (code = "ok" => Idle)
    BY DEF Inv, Ending
  <2> QED
    BY <1>4, <2>1, <2>2, <2>3, <2>4 DEF Loads, Connects, Exits, Signal
<1>5. CASE Pings \/ ServeFails \/ Shutdown \/ Drained \/ DrainEnds
  <2>1. Call' = Call
    <3>1. req' = req
      BY <1>5 DEF Pings, ServeFails, Shutdown, Drained, DrainEnds
    <3> QED
      BY <3>1 DEF Call, Called
  <2>2. \/ at = "ping" /\ at' \in {"serve", "close"}
        \/ at = "serve" /\ at' \in {"drain", "close"}
        \/ at = "drain" /\ at' = "close"
    BY <1>5 DEF Pings, ServeFails, Shutdown, Drained, DrainEnds, Closes
  <2>3. Exit' = Exit
    BY <2>2 DEF Exit
  <2>4. CASE at = "ping" /\ at' = "serve"
    <3>1. Service!Start
      BY <2>1, <2>3, <2>4 DEF Service!Start, Phase, Exit, Call
    <3> QED
      BY <3>1 DEF Service!Next
  <2>5. CASE at \in {"ping", "serve"} /\ at' \in {"drain", "close"}
    <3>1. Service!Stop
      BY <2>1, <2>3, <2>5 DEF Service!Stop, Phase, Exit, Call
    <3> QED
      BY <3>1 DEF Service!Next
  <2>6. CASE at = "drain" /\ at' = "close"
    BY <2>1, <2>3, <2>6 DEF Phase
  <2> QED
    BY <2>2, <2>4, <2>5, <2>6
<1> QED
  BY <1>1, <1>2, <1>4, <1>5 DEF Next, Main, Listens, Breaks, DatabaseChanges, vars

LEMMA InitRefines == Init => Service!Init
<1> SUFFICES ASSUME Init PROVE Service!Init
  OBVIOUS
<1>1. \A r \in Requests : req[r].at = "none"
  BY DEF Init
<1> QED
  BY <1>1, Labels DEF Init, Service!Init, Phase, Exit, Call

(* The process keeps the promise of Service: what it was asked it answers, *)
(* or loses at its end, and a successful end loses nothing.                *)
THEOREM Implements == Spec => ImplementsService
<1>1. Init => Service!Init
  BY InitRefines
<1>2. Inv /\ [Next]_vars => [Service!Next]_(Service!vars)
  BY StepRefines DEF Service!vars, Phase, Exit, Call
<1> QED
  BY <1>1, <1>2, InvAlways, PTL DEF Spec, Service!Spec, ImplementsService
=============================================================================
