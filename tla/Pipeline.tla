------------------------------- MODULE Pipeline -------------------------------
(* What happens to a request inside a running process: body parser,         *)
(* middleware, guards, interceptors around pipes and handler, and the       *)
(* exception filters, in the order Nest runs them.  What a handler does is  *)
(* the other modules' matter: here it only ends in one of the statuses its  *)
(* code, its pipes and what they call can produce.                          *)
EXTENDS Bootstrap, Sequences

CONSTANTS
  Slots,      \* requests in flight at once
  MaxTokens   \* bound: logins

VARIABLES
  req,        \* the request in each slot
  tokens      \* the access tokens issued, oldest first

pvars == <<bvars, req, tokens>>

-----------------------------------------------------------------------------
(* The routes: HTTP verb, guards, the statuses a call that passed them may   *)
(* end in, and where an exception goes: "rest" to AllExceptionsFilter,       *)
(* "learning" to that controller's own filter, "graphql" to Apollo.          *)
Route(name, verb, guards, ends, via) ==
  [name |-> name, verb |-> verb, guards |-> guards, ends |-> ends, via |-> via]

\* What the Zod contract and the GraphQL input type refuse, and what the
\* database check can find.
ContractEnds == {400}
InputEnds == {400}
HealthEnds == {200, 503}

HelloRoutes == {Route("hello", "GET", {}, {200}, "rest")}

PostsRoutes == {
  Route("findAll", "GET", {}, {200, 400, 500}, "rest"),
  Route("findOne", "GET", {}, {200, 400, 404, 500}, "rest"),
  Route("create", "POST", {}, {201, 500} \union ContractEnds, "rest"),
  Route("update", "PATCH", {}, {200, 400, 404, 500} \union ContractEnds, "rest"),
  Route("remove", "DELETE", {}, {200, 400, 404, 500}, "rest"),
  Route("restore", "POST", {}, {201, 400, 500}, "rest")}

AuthRoutes == {
  Route("login", "POST", {}, {201, 401, 500}, "rest"),
  Route("me", "GET", {"jwt"}, {200}, "rest"),
  Route("admin", "GET", {"jwt", "roles"}, {200}, "rest")}

OrderRoutes == {
  Route("place", "POST", {}, {201, 500}, "rest"),
  Route("order", "GET", {}, {200, 404, 500}, "rest")}

FeatureRoutes == {
  Route("user", "GET", {}, {200}, "rest"),
  Route("upload", "POST", {}, {201, 400}, "rest"),
  Route("version", "GET", {}, {200}, "rest")}

HealthRoutes == {Route("health", "GET", {}, HealthEnds, "rest")}

MetricsRoutes == {Route("metrics", "GET", {}, {200}, "rest")}

LearningRoutes == {
  Route("ping", "GET", {"key"}, {200}, "learning"),
  Route("whoami", "GET", {"key"}, {200}, "learning"),
  Route("echo", "POST", {"key"}, {201}, "learning"),
  Route("boom", "GET", {"key"}, {404}, "learning")}

GraphqlRoutes == {Route("graphql", "POST", {}, {200, 500} \union InputEnds, "graphql")}

\* No route of the application: the body does not parse, the path is unknown.
Unparsed == Route("unparsed", "POST", {}, {400}, "rest")
Unmatched == Route("unmatched", "GET", {}, {404}, "rest")

Routes == HelloRoutes \union PostsRoutes \union AuthRoutes \union OrderRoutes
          \union FeatureRoutes \union HealthRoutes \union MetricsRoutes
          \union LearningRoutes \union GraphqlRoutes

\* Their handlers wait for a Redis that is down until it is back: the client
\* of jobs.module.ts repeats a command for ever (maxRetriesPerRequest null),
\* and the cache's keeps it until it is connected again.
RedisRoutes == {"findOne", "create", "update", "remove", "restore"}

\* Nest sets it once the guards have passed.
SuccessStatus(route) ==
  IF route.verb = "POST" /\ route.via # "graphql" THEN 201 ELSE 200

-----------------------------------------------------------------------------
NoToken == 0
Stages == {"idle", "guards", "handler", "failed", "done", "cut"}

\* cut: the process ended of its own accord before the answer.
\* key: the x-api-key header is right; token: which token is presented;
\* id: the request has a correlation id; measured: the statuses the metrics
\* counted for it; logged: its log lines, those that name the id and those
\* that do not; body: what the handler returned, as it is or wrapped, or an
\* error in one of three shapes.
Idle == [at |-> "idle", route |-> Unmatched, key |-> FALSE, token |-> NoToken,
         status |-> 0, id |-> FALSE, measured |-> <<>>, logged |-> {}, body |-> "none"]

InFlight(q) == q.at \in {"guards", "handler", "failed"}
WaitsForRedis(q) == q.at = "handler" /\ q.route.name \in RedisRoutes

PInit == BInit /\ req = [r \in Slots |-> Idle] /\ tokens = <<>>

\* A process that ends takes its requests along.
Step(action, lost) ==
  /\ action
  /\ UNCHANGED tokens
  /\ req' = IF phase' # "off" THEN req
            ELSE [r \in Slots |-> IF InFlight(req[r]) THEN lost ELSE Idle]

Cut == [Idle EXCEPT !.at = "cut"]
Steps(action) == Step(action, Cut)
Crashes == Step(Crash, Idle)

Set(r, q) == req' = [req EXCEPT ![r] = q] /\ UNCHANGED bvars

Accepting == phase = "up" /\ term # "draining"
Arrives(r, q) == Accepting /\ ~InFlight(req[r]) /\ Set(r, q) /\ UNCHANGED tokens

\* RequestLoggerMiddleware, on /learning.
RequestLogger(route) == IF route.via = "learning" THEN {"plain"} ELSE {}

\* RequestIdMiddleware is the first.
Receive(r, route, key, token) ==
  Arrives(r, [Idle EXCEPT !.at = "guards", !.route = route, !.key = key,
                          !.token = token, !.id = TRUE,
                          !.logged = RequestLogger(route)])

\* The body parser stands before every middleware of the application.
ReceiveUnparsed(r) ==
  Arrives(r, [Idle EXCEPT !.at = "failed", !.route = Unparsed, !.status = 400])
ReceiveUnmatched(r) ==
  Arrives(r, [Idle EXCEPT !.at = "failed", !.route = Unmatched, !.status = 404, !.id = TRUE])

Send(r) ==
  \/ \E route \in Routes :
       \E key \in IF "key" \in route.guards THEN BOOLEAN ELSE {FALSE} :
         \E token \in IF "jwt" \in route.guards THEN 0..Len(tokens) ELSE {NoToken} :
           Receive(r, route, key, token)
  \/ ReceiveUnparsed(r)
  \/ ReceiveUnmatched(r)

-----------------------------------------------------------------------------
\* JwtStrategy: a token of this secret that has not expired.
Verified(n) == n # NoToken /\ tokens[n].fresh /\ tokens[n].key = used["JwtStrategy"]

ApiKeyRefuses(q) == "key" \in q.route.guards /\ ~q.key
JwtRefuses(q) == "jwt" \in q.route.guards /\ ~Verified(q.token)
\* Mutants: no @Roles metadata is found; the test for the role is inverted.
RolesUnset(q) == FALSE
RolesInverted(q) == "roles" \in q.route.guards /\ tokens[q.token].role = "admin"
RolesRefuse(q) == "roles" \in q.route.guards /\ tokens[q.token].role # "admin"

Fail(r, status) ==
  /\ Set(r, [req[r] EXCEPT !.at = "failed", !.status = status])
  /\ UNCHANGED tokens

\* The throttler's counters are the library's: it may refuse any request.
Throttle(r) == req[r].at = "guards" /\ Fail(r, 429)

Refuse(r) ==
  /\ req[r].at = "guards"
  /\ \/ (ApiKeyRefuses(req[r]) \/ JwtRefuses(req[r])) /\ Fail(r, 401)
     \/ ~JwtRefuses(req[r]) /\ RolesRefuse(req[r]) /\ Fail(r, 403)

Admit(r) ==
  /\ req[r].at = "guards"
  /\ ~ApiKeyRefuses(req[r]) /\ ~JwtRefuses(req[r]) /\ ~RolesRefuse(req[r])
  /\ Set(r, [req[r] EXCEPT !.at = "handler"])
  /\ UNCHANGED tokens

\* Mutant: the interceptor is bound globally and once more on the controllers.
MeasuredTwice(q) ==
  IF q.route.via = "graphql" THEN q.measured
  ELSE q.measured \o <<SuccessStatus(q.route), SuccessStatus(q.route)>>

\* MetricsService.record increments the counter of that status.
Increment(counts, status) == Append(counts, status)

\* MetricsInterceptor: nothing for GraphQL, otherwise the status the response
\* has when the handler ends.
Measured(q) ==
  IF q.route.via = "graphql" THEN q.measured
  ELSE Increment(q.measured, SuccessStatus(q.route))

\* LoggingInterceptor names the id, except for GraphQL; TransformInterceptor
\* wraps what a handler of /learning returned.
LogLine(q) == IF q.route.via = "graphql" THEN "plain" ELSE "named"
Transformed(q) == IF q.route.via = "learning" THEN "wrapped" ELSE "data"

\* AuthController.login signs with the secret JwtModule read.
Issued(role) ==
  [key |-> used["JwtModule"], role |-> role, fresh |-> TRUE, secret |-> Parsed["JWT_SECRET"]]

Login(r) ==
  IF req[r].route.name = "login"
  THEN Len(tokens) < MaxTokens /\ \E role \in {"admin", "user"} : tokens' = Append(tokens, Issued(role))
  ELSE UNCHANGED tokens

Return(r) ==
  LET q == req[r] IN
  /\ q.at = "handler"
  /\ SuccessStatus(q.route) \in q.route.ends
  /\ Login(r)
  /\ Set(r, [q EXCEPT !.at = "done", !.status = SuccessStatus(q.route),
                      !.measured = Measured(q), !.logged = @ \union {LogLine(q)},
                      !.body = Transformed(q)])

\* A pipe, the handler or what it called throws: the interceptors see it
\* before any filter does.
Throw(r) ==
  LET q == req[r] IN
  /\ q.at = "handler"
  /\ \E s \in q.route.ends \ {SuccessStatus(q.route)} :
       Set(r, [q EXCEPT !.at = "failed", !.status = s, !.measured = Measured(q)])
  /\ UNCHANGED tokens

\* AllExceptionsFilter logs and answers with the error contract; what came
\* from GraphQL it passes on, and Apollo answers 200 with an errors array.
\* The learning controller's HttpExceptionFilter logs nothing and leaves the
\* id out.
ErrorContract(q) == [q EXCEPT !.at = "done", !.logged = @ \union {"plain"}, !.body = "contract"]
ErrorsArray(q) == [q EXCEPT !.at = "done", !.status = 200, !.body = "errors"]
HttpError(q) == [q EXCEPT !.at = "done", !.body = "bare"]

Filter(r) ==
  /\ req[r].at = "failed"
  /\ Set(r, CASE req[r].route.via = "graphql" -> ErrorsArray(req[r])
              [] req[r].route.via = "learning" -> HttpError(req[r])
              [] OTHER -> ErrorContract(req[r]))
  /\ UNCHANGED tokens

Handle(r) == Throttle(r) \/ Refuse(r) \/ Admit(r) \/ Return(r) \/ Throw(r) \/ Filter(r)

\* What is bound to go on: Postgres answers or rejects, Redis may never.
Proceeds(r) == ~WaitsForRedis(req[r]) /\ Handle(r)

\* The 15 minutes of a token are over.
Expire ==
  /\ \E n \in 1..Len(tokens) : tokens[n].fresh /\ tokens' = [tokens EXCEPT ![n].fresh = FALSE]
  /\ UNCHANGED <<bvars, req>>

\* Mutant: the server is made with forceCloseConnections.
DrainForced == Drained

\* The server is closed when it has answered what it accepted.
Drain == Drained /\ \A r \in Slots : ~InFlight(req[r])

Process == Configure \/ Booting \/ Ending \/ Drain

PNext == Steps(Process) \/ Crashes \/ Expire \/ \E r \in Slots : Send(r) \/ Handle(r)

PSpec ==
  /\ PInit /\ [][PNext]_pvars
  /\ WF_pvars(Steps(LoadEnv \/ RefuseEnv \/ Create \/ Connect \/ Listen \/ BootFails))
  /\ WF_pvars(Steps(CloseServer)) /\ WF_pvars(Steps(Drain))
  /\ \A r \in Slots : WF_pvars(Proceeds(r))

-----------------------------------------------------------------------------
Tokens == [key : Values, role : {"admin", "user"}, fresh : BOOLEAN, secret : Values]
Statuses == {0, 200, 201, 400, 401, 403, 404, 429, 500, 503}
Bodies == {"none", "data", "wrapped", "contract", "bare", "errors"}
Requests == [at : Stages, route : Routes \union {Unparsed, Unmatched}, key : BOOLEAN,
             token : Nat, status : Statuses, id : BOOLEAN, measured : Seq({200, 201}),
             logged : SUBSET {"plain", "named"}, body : Bodies]

PTypeOK ==
  /\ BTypeOK
  /\ tokens \in Seq(Tokens)
  /\ req \in [Slots -> Requests]
  /\ \A r \in Slots : req[r].token \in 0..Len(tokens)

Succeeded(q) == q.at = "done" /\ q.status \in {200, 201}

\* Whoever got past a guard had what it asks for: the api key; a token signed
\* with the secret the operator configured; for the admin route, an admin's.
\* It stays so over restarts with other secrets, as long as the answer stands.
AdmittedRightly ==
  \A r \in Slots : LET q == req[r] IN
    q.at = "handler" \/ Succeeded(q) =>
      /\ "key" \in q.route.guards => q.key
      /\ "jwt" \in q.route.guards => /\ q.token # NoToken
                                     /\ tokens[q.token].key = Parsed["JWT_SECRET"]
      /\ "roles" \in q.route.guards => tokens[q.token].role = "admin"

\* Whoever was refused with a token that has not expired meets one of two
\* reasons: the operator has changed the secret since, or the token was signed
\* with the default although another secret stood in .env; and 403 is for users.
RefusalExplained ==
  \A r \in Slots : LET q == req[r] IN
    q.at \in {"failed", "done"} /\ q.route.guards # {} =>
      /\ q.status = 401 /\ q.token # NoToken /\ tokens[q.token].fresh =>
           \/ tokens[q.token].secret # Parsed["JWT_SECRET"]
           \/ tokens[q.token].key = Default["JWT_SECRET"] /\ tokens[q.token].secret # Default["JWT_SECRET"]
      /\ q.status = 403 => tokens[q.token].role = "user"

\* A request no interceptor saw: the throttler or a guard refused it, or there
\* was nothing to route it to.
Unreached(q) ==
  \/ q.status = 429 \/ q.route \in {Unparsed, Unmatched}
  \/ q.route.guards # {} /\ q.status \in {401, 403}

\* The metrics count an answer once, or not at all, and that exactly for what
\* no interceptor saw and for GraphQL; a success of the other routes is counted
\* with its own status and logged with its id, and nothing else is; the one
\* answer that leaves no line is a failure of GraphQL.  Every answer is told in
\* its route's shape: plain data or the error contract; on /learning the
\* wrapped data or the bare error; from Apollo always 200.  And it has an id,
\* unless the body of the request could not be parsed.
AnswersRecorded ==
  \A r \in Slots : LET q == req[r] IN
    q.at = "done" =>
      /\ Len(q.measured) <= 1
      /\ q.measured = <<>> <=> q.route.via = "graphql" \/ Unreached(q)
      /\ Succeeded(q) /\ q.route.via # "graphql" => q.measured = <<q.status>>
      /\ "named" \in q.logged <=> Succeeded(q) /\ q.route.via # "graphql"
      /\ q.logged = {} <=> q.body = "errors"
      /\ q.route.via = "rest" => q.body = IF Succeeded(q) THEN "data" ELSE "contract"
      /\ q.route.via = "learning" => q.body = IF Succeeded(q) THEN "wrapped" ELSE "bare"
      /\ q.route.via = "graphql" => q.status = 200 /\ q.body \in {"data", "errors"}
      /\ q.id \/ q.route = Unparsed

\* A request is answered by the process that accepted it, whatever shutdown
\* begins meanwhile: only a crash takes an answer away, and only a handler that
\* waits for Redis can owe it for ever.
EveryRequestAnswered ==
  \A r \in Slots : InFlight(req[r]) ~> req[r].at \in {"done", "idle"} \/ WaitsForRedis(req[r])

\* Without tracing, a SIGTERM ends the process in whatever phase it arrives,
\* unless a request waits for Redis: the server is not closed before it is
\* answered.
Held == \E r \in Slots : WaitsForRedis(req[r])
SigtermEnds == term # "no" /\ ~HandlerOfTracing ~> phase = "off" \/ Held

\* metrics.service.ts, "Errors (http_requests_total by status)": what the
\* metrics count for an answered request is the status it was answered with.
ErrorsMeasured ==
  \A r \in Slots : LET q == req[r] IN
    q.at = "done" /\ q.measured # <<>> => q.measured = <<q.status>>

\* auth.controller.ts, "GET /auth/me (JwtAuthGuard) -> the current user (any
\* role)": in a process that never restarts, the tokens login hands out are
\* accepted until they expire.
OwnTokensAccepted ==
  \A r \in Slots : LET q == req[r] IN
    q.at = "done" /\ q.route.name = "me" /\ q.token # NoToken /\ tokens[q.token].fresh =>
      q.status # 401
===============================================================================
