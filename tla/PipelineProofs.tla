---------------------------- MODULE PipelineProofs ----------------------------
(***************************************************************************)
(* Proofs about Pipeline and the process under it, for any environments,   *)
(* any schema that accepts its own defaults, any requests and logins.      *)
(***************************************************************************)
EXTENDS Pipeline, TLAPS

-----------------------------------------------------------------------------
(* The inductive invariant.                                                *)

Serving == {"up", "lingering"}
Gone(q) == q.at \in {"idle", "cut"}
Secret == Parsed["JWT_SECRET"]

\* What process.env and the readers hold in each phase of a life.
EnvOK ==
  /\ phase \in {"off", "imported"} => env = shell
  /\ phase # "off" => used["JwtModule"] = OrDefault(shell, "JWT_SECRET")
  /\ phase \notin {"off", "imported"} => Accepted /\ env = Loaded
  /\ Constructed => \A r \in Late : used[r] = Parsed[Var[r]]
  /\ term \in {"closing", "draining"} => Constructed

\* A token is signed with the secret of its day, or with the default instead.
Signed(t) ==
  t.key # t.secret => t.key = Default["JWT_SECRET"] /\ t.secret # Default["JWT_SECRET"]

\* The guards' promises about one request, for given tokens and a secret.
Entitled(q, tks, secret) ==
  /\ "key" \in q.route.guards => q.key
  /\ "jwt" \in q.route.guards => q.token # NoToken /\ tks[q.token].key = secret
  /\ "roles" \in q.route.guards => tks[q.token].role = "admin"

Explained(q, tks, secret) ==
  /\ q.status = 401 /\ q.token # NoToken /\ tks[q.token].fresh =>
       \/ tks[q.token].secret # secret
       \/ tks[q.token].key = Default["JWT_SECRET"] /\ tks[q.token].secret # Default["JWT_SECRET"]
  /\ q.status = 403 => q.token # NoToken /\ tks[q.token].role = "user"

\* Before it is answered: what RequestLogger logged, and the id.
OnItsWay(q) ==
  /\ q.logged = RequestLogger(q.route)
  /\ q.id \/ q.route = Unparsed

\* The one count of an answer, or why there is none.
Counted(q) ==
  /\ Len(q.measured) <= 1
  /\ q.measured = <<>> <=> q.route.via = "graphql" \/ Unreached(q)

\* The log lines, the body and the id of an answer.
Told(q) ==
  /\ Succeeded(q) /\ q.route.via # "graphql" => q.measured = <<q.status>>
  /\ "named" \in q.logged <=> Succeeded(q) /\ q.route.via # "graphql"
  /\ q.logged = {} <=> q.body = "errors"
  /\ q.route.via = "rest" => q.body = IF Succeeded(q) THEN "data" ELSE "contract"
  /\ q.route.via = "learning" => q.body = IF Succeeded(q) THEN "wrapped" ELSE "bare"
  /\ q.route.via = "graphql" => q.status = 200 /\ q.body \in {"data", "errors"}
  /\ q.id \/ q.route = Unparsed

\* What holds of a request at every stage of its way.
Good(q, tks, secret) ==
  /\ q.at \in {"guards", "handler"} => q.route \in Routes /\ q.measured = <<>>
  /\ "jwt" \notin q.route.guards => q.token = NoToken
  /\ q.at = "failed" => q.status \notin {200, 201}
  /\ q.at = "handler" \/ Succeeded(q) => Entitled(q, tks, secret)
  /\ q.at \in {"failed", "done"} /\ q.route.guards # {} => Explained(q, tks, secret)
  /\ InFlight(q) => OnItsWay(q)
  /\ q.at \in {"failed", "done"} => Counted(q)
  /\ q.at = "done" => Told(q)

IInv ==
  /\ PTypeOK
  /\ EnvOK
  /\ \A n \in 1 .. Len(tokens) : Signed(tokens[n])
  /\ \A r \in Slots : ~Gone(req[r]) => phase \in Serving
  /\ \A r \in Slots : Good(req[r], tokens, Secret)

-----------------------------------------------------------------------------
(* The environment and the life of a process.                              *)

LEMMA DefaultFacts ==
  /\ DOMAIN Default = {"NODE_ENV", "REDIS_URL", "JWT_SECRET", "PORT"}
  /\ \A v \in DOMAIN Default : Default[v] \in Values /\ Default[v] # Unset
  /\ \A r \in Late : Var[r] \in Schema
  /\ \A r \in Early \union Late : Var[r] \in Names
<1>1. DOMAIN Default = {"NODE_ENV", "REDIS_URL", "JWT_SECRET", "PORT"}
  BY DEF Default
<1>2. \A v \in DOMAIN Default : Default[v] \in Values /\ Default[v] # Unset
  BY ValuesAssumption
<1>3. \A r \in Early \union Late : Var[r] \in Names
  BY DEF Early, Late, Var, Names, Schema
<1>4. \A r \in Late : Var[r] \in Schema
  BY DEF Late, Var, Schema
<1>. QED BY <1>1, <1>2, <1>3, <1>4

LEMMA OrDefaultTyped ==
  ASSUME NEW e, NEW v, e[v] \in Values \union {Unset}
  PROVE  /\ OrDefault(e, v) \in Values \union {Unset}
         /\ e[v] # Unset => OrDefault(e, v) = e[v]
         /\ v = "JWT_SECRET" => OrDefault(e, v) \in Values
         /\ v = "JWT_SECRET" /\ e[v] = Unset => OrDefault(e, v) = Default["JWT_SECRET"]
BY DefaultFacts DEF OrDefault

LEMMA EnvTyped ==
  ASSUME BTypeOK
  PROVE  /\ shell \in [Names -> Values \union {Unset}]
         /\ file \in [Names -> Values \union {Unset}]
         /\ \A v \in Names : Merged[v] \in Values \union {Unset}
         /\ Parsed \in [Schema -> Values \union {Unset}]
         /\ Loaded \in [Names -> Values \union {Unset}]
         /\ Parsed["JWT_SECRET"] \in Values
<1>1. /\ shell \in [Names -> Values \union {Unset}]
      /\ file \in [Names -> Values \union {Unset}]
  BY OperatorsAssumption DEF BTypeOK
<1>2. \A v \in Names : Merged[v] \in Values \union {Unset}
  BY <1>1 DEF Merged
<1>3. \A v \in Schema : v \in Names
  BY DEF Names
<1>4. \A v \in Schema : OrDefault(Merged, v) \in Values \union {Unset}
  BY <1>2, <1>3, OrDefaultTyped
<1>5. Parsed \in [Schema -> Values \union {Unset}]
  BY <1>4 DEF Parsed
<1>6. Loaded \in [Names -> Values \union {Unset}]
  BY <1>1, <1>5 DEF Loaded
<1>7. "JWT_SECRET" \in Schema
  BY DEF Schema
<1>8. Parsed["JWT_SECRET"] \in Values
  BY <1>2, <1>3, <1>7, OrDefaultTyped DEF Parsed
<1>. QED BY <1>1, <1>2, <1>5, <1>6, <1>8

\* A reader that comes after .env was loaded and accepted gets what was
\* configured, with or without its own default.
LEMMA LateReads ==
  ASSUME BTypeOK, Accepted, env = Loaded, NEW r \in Late
  PROVE  Reads(r) = Parsed[Var[r]]
<1>1. Var[r] \in Schema /\ Var[r] \in Names
  BY DefaultFacts DEF Names
<1> DEFINE v == Var[r]
<1>2. Parsed[v] = OrDefault(Merged, v) /\ Parsed[v] # Unset /\ Parsed[v] \in Values
  BY <1>1, EnvTyped DEF Parsed, Accepted
<1>3. Loaded[v] = IF shell[v] = Unset THEN Parsed[v] ELSE shell[v]
  BY <1>1 DEF Loaded
<1>4. shell[v] # Unset => Merged[v] = shell[v]
  BY <1>1 DEF Merged
<1>5. Merged[v] \in Values \union {Unset}
  BY <1>1, EnvTyped
<1>6. shell[v] # Unset => Parsed[v] = shell[v]
  BY <1>2, <1>4, <1>5, OrDefaultTyped
<1>7. Loaded[v] = Parsed[v]
  BY <1>3, <1>6
<1>8. Loaded[v] \in Values \union {Unset} /\ Loaded[v] # Unset
  BY <1>2, <1>7
<1>9. OrDefault(Loaded, v) = Loaded[v]
  BY <1>8, OrDefaultTyped
<1>. QED BY <1>7, <1>9 DEF Reads

LEMMA ConfigurationStays ==
  ASSUME shell' = shell, file' = file
  PROVE  Parsed' = Parsed /\ Loaded' = Loaded /\ (Accepted' <=> Accepted)
<1>1. Merged' = Merged
  BY DEF Merged
<1>2. Parsed' = Parsed
  BY <1>1 DEF Parsed, OrDefault
<1>. QED BY <1>2 DEF Loaded, Accepted

\* A secret in the shell is the one everybody reads; without one, whoever
\* reads the shell alone takes the default.
LEMMA EarlySecret ==
  ASSUME BTypeOK
  PROVE  /\ OrDefault(shell, "JWT_SECRET") \in Values
         /\ OrDefault(shell, "JWT_SECRET") # Parsed["JWT_SECRET"] =>
              /\ shell["JWT_SECRET"] = Unset
              /\ file["JWT_SECRET"] \notin {Unset, Default["JWT_SECRET"]}
              /\ OrDefault(shell, "JWT_SECRET") = Default["JWT_SECRET"]
              /\ Parsed["JWT_SECRET"] # Default["JWT_SECRET"]
<1> DEFINE j == "JWT_SECRET"
<1>1. j \in Schema /\ j \in Names
  BY DEF Schema, Names
<1>2. /\ shell[j] \in Values \union {Unset} /\ file[j] \in Values \union {Unset}
      /\ Merged[j] = IF shell[j] # Unset THEN shell[j] ELSE file[j]
      /\ Parsed[j] = OrDefault(Merged, j)
  BY <1>1, EnvTyped DEF Merged, Parsed
<1>3. OrDefault(shell, j) \in Values
  BY <1>2, OrDefaultTyped
<1>4. CASE shell[j] # Unset
  BY <1>2, <1>3, <1>4, OrDefaultTyped
<1>5. CASE shell[j] = Unset
  <2>1. OrDefault(shell, j) = Default[j]
    BY <1>2, <1>5, OrDefaultTyped
  <2>2. Merged[j] = file[j]
    BY <1>2, <1>5
  <2>3. file[j] \in {Unset, Default[j]} => Parsed[j] = Default[j]
    BY <1>2, <2>2, OrDefaultTyped
  <2>. QED BY <1>3, <1>5, <2>1, <2>3
<1>. QED BY <1>4, <1>5

\* No step of the process changes what is configured while it runs.
LEMMA ProcessStep ==
  ASSUME BTypeOK, EnvOK, Process \/ Crash
  PROVE  /\ BTypeOK' /\ EnvOK'
         /\ phase' # "off" => /\ shell' = shell /\ file' = file
                              /\ phase \in Serving => phase' \in Serving
<1> USE DEF EnvOK, BTypeOK, Constructed, Phases, Terms, Serving
<1>0. /\ BTypeOK /\ shell \in [Names -> Values \union {Unset}]
      /\ \A r \in Early \union Late : Var[r] \in Names
      /\ "JwtModule" \in Early
  BY EnvTyped, DefaultFacts DEF Early
<1>r. ASSUME NEW r \in Early \union Late PROVE Reads(r) \in Values \union {Unset}
  BY <1>0, OrDefaultTyped DEF Reads
<1>c. ASSUME shell' = shell, file' = file
      PROVE  Parsed' = Parsed /\ Loaded' = Loaded /\ (Accepted' <=> Accepted)
  BY <1>c, ConfigurationStays
<1>1. CASE Configure
  BY <1>1, OperatorsAssumption DEF Configure
<1>2. CASE ImportModules
  <2>1. /\ phase = "off" /\ phase' = "imported" /\ boots' = boots + 1 /\ term' = term
        /\ shell' = shell /\ file' = file /\ env' = env /\ env = shell
    BY <1>2 DEF ImportModules
  <2>2. used' \in [Early \union Late -> Values \union {Unset}]
    BY <1>2, <1>r DEF ImportModules
  <2>3. used'["JwtModule"] = Reads("JwtModule")
    BY <1>0, <1>2 DEF ImportModules
  <2>4. Reads("JwtModule") = OrDefault(shell, "JWT_SECRET")
    BY <2>1 DEF Reads, Var
  <2>5. OrDefault(shell, "JWT_SECRET")' = OrDefault(shell, "JWT_SECRET")
    BY <2>1 DEF OrDefault
  <2>. QED BY <2>1, <2>2, <2>3, <2>4, <2>5
<1>3. CASE LoadEnv
  <2>1. /\ phase = "imported" /\ phase' = "configured" /\ boots' = boots /\ term' = term /\ Accepted
        /\ shell' = shell /\ file' = file /\ env' = Loaded /\ used' = used
    BY <1>3 DEF LoadEnv
  <2>2. Accepted' /\ env' = Loaded' /\ Loaded \in [Names -> Values \union {Unset}]
    BY <1>c, <2>1, EnvTyped
  <2>3. OrDefault(shell, "JWT_SECRET")' = OrDefault(shell, "JWT_SECRET")
    BY <2>1 DEF OrDefault
  <2>. QED BY <2>1, <2>2, <2>3
<1>4. CASE Create
  <2>1. /\ phase = "configured" /\ phase' = "created" /\ boots' = boots /\ term' = term
        /\ shell' = shell /\ file' = file /\ env' = env
        /\ Accepted /\ env = Loaded
    BY <1>4 DEF Create
  <2>2. used' \in [Early \union Late -> Values \union {Unset}]
    BY <1>4, <1>r DEF Create
  <2>3. \A r \in Late : used'[r] = Parsed[Var[r]]
    BY <1>4, <2>1, LateReads DEF Create
  <2>4. used'["JwtModule"] = used["JwtModule"]
    BY <1>0, <1>4 DEF Create, Early, Late
  <2>5. OrDefault(shell, "JWT_SECRET")' = OrDefault(shell, "JWT_SECRET")
    BY <2>1 DEF OrDefault
  <2>6. Accepted' /\ env' = Loaded' /\ Parsed' = Parsed
    BY <1>c, <2>1
  <2>. QED BY <2>1, <2>2, <2>3, <2>4, <2>5, <2>6
<1>5. CASE Exit
  BY <1>0, <1>5 DEF Exit
<1>6. ASSUME NEW p \in Phases \ {"off", "imported", "configured"}, NEW t \in Terms,
             Become(p, t), Constructed, phase \in Serving => p \in Serving
      PROVE  /\ BTypeOK' /\ EnvOK'
             /\ phase' # "off" => /\ shell' = shell /\ file' = file
                                  /\ phase \in Serving => phase' \in Serving
  <2>1. /\ phase' = p /\ term' = t /\ boots' = boots /\ shell' = shell /\ file' = file
        /\ env' = env /\ used' = used
    BY <1>6 DEF Become
  <2>2. OrDefault(shell, "JWT_SECRET")' = OrDefault(shell, "JWT_SECRET")
    BY <2>1 DEF OrDefault
  <2>3. Accepted' /\ env' = Loaded' /\ Parsed' = Parsed
    BY <1>c, <1>6, <2>1
  <2>. QED BY <1>6, <2>1, <2>2, <2>3
<1>7. CASE Connect
  BY <1>6, <1>7 DEF Connect
<1>8. CASE Listen
  BY <1>6, <1>8 DEF Listen
<1>9. CASE Swallowed
  <2>1. phase \in {"imported", "configured"} /\ Become(phase, "missed")
    BY <1>9 DEF Swallowed, BeforeHooks
  <2>2. /\ phase' = phase /\ term' = "missed" /\ boots' = boots /\ shell' = shell
        /\ file' = file /\ env' = env /\ used' = used
    BY <2>1 DEF Become
  <2>3. OrDefault(shell, "JWT_SECRET")' = OrDefault(shell, "JWT_SECRET")
    BY <2>2 DEF OrDefault
  <2>4. Parsed' = Parsed /\ Loaded' = Loaded /\ (Accepted' <=> Accepted)
    BY <1>c, <2>2
  <2>. QED BY <2>1, <2>2, <2>3, <2>4
<1>10. CASE Terminate
  BY <1>6, <1>10 DEF Terminate
<1>11. ASSUME Resent, term \in {"closing", "draining"}, Constructed
       PROVE  /\ BTypeOK' /\ EnvOK'
              /\ phase' # "off" => /\ shell' = shell /\ file' = file
                                   /\ phase \in Serving => phase' \in Serving
  <2>1. CASE Exit
    BY <1>5, <2>1
  <2>2. CASE Become(IF phase = "up" THEN "lingering" ELSE phase, "over")
    BY <1>6, <1>11, <2>2
  <2>. QED BY <1>11, <2>1, <2>2 DEF Resent
<1>12. CASE CloseServer
  <2>1. CASE phase = "up" /\ Become("up", "draining")
    BY <1>6, <2>1
  <2>2. CASE Resent
    BY <1>11, <1>12, <2>2 DEF CloseServer
  <2>. QED BY <1>12, <2>1, <2>2 DEF CloseServer
<1>13. CASE Drain
  BY <1>11, <1>13 DEF Drain, Drained
<1>14. CASE RefuseEnv \/ BootFails \/ Killed \/ Crash
  BY <1>5, <1>14 DEF RefuseEnv, BootFails, Killed, Crash
<1>. QED
  BY <1>1, <1>2, <1>3, <1>4, <1>7, <1>8, <1>9, <1>10, <1>12, <1>13, <1>14
  DEF Process, Booting, Ending

-----------------------------------------------------------------------------
(* The routes and the requests.                                            *)

\* What the routes of every controller have in common.
Plain(rt) ==
  /\ rt.via \in {"rest", "learning", "graphql"}
  /\ rt.ends \subseteq Statuses
  /\ \A s \in rt.ends \ {SuccessStatus(rt)} : s \notin {200, 201, 429}
  /\ rt.guards # {} => rt.via # "graphql" /\ \A s \in rt.ends : s \notin {401, 403}
  /\ "roles" \in rt.guards => "jwt" \in rt.guards
  /\ "key" \in rt.guards => "jwt" \notin rt.guards

LEMMA RouteFields ==
  ASSUME NEW n, NEW v, NEW g, NEW e, NEW w
  PROVE  LET rt == Route(n, v, g, e, w)
         IN rt.name = n /\ rt.verb = v /\ rt.guards = g /\ rt.ends = e /\ rt.via = w
BY DEF Route

LEMMA RouteFacts == \A rt \in Routes : Plain(rt)
<1> USE RouteFields DEF Plain, SuccessStatus, Statuses, ContractEnds, InputEnds, HealthEnds
<1>1. \A rt \in PostsRoutes : Plain(rt)
  BY DEF PostsRoutes
<1>2. \A rt \in AuthRoutes : Plain(rt)
  BY DEF AuthRoutes
<1>3. \A rt \in OrderRoutes : Plain(rt)
  BY DEF OrderRoutes
<1>4. \A rt \in FeatureRoutes : Plain(rt)
  BY DEF FeatureRoutes
<1>5. \A rt \in LearningRoutes : Plain(rt)
  BY DEF LearningRoutes
<1>6. \A rt \in HelloRoutes \union HealthRoutes \union MetricsRoutes \union GraphqlRoutes : Plain(rt)
  BY DEF HelloRoutes, HealthRoutes, MetricsRoutes, GraphqlRoutes
<1>. QED BY <1>1, <1>2, <1>3, <1>4, <1>5, <1>6 DEF Routes

LEMMA NoRouteFacts ==
  /\ Unparsed.guards = {} /\ Unparsed.via = "rest" /\ Unparsed.name = "unparsed"
  /\ Unmatched.guards = {} /\ Unmatched.via = "rest" /\ Unmatched.name = "unmatched"
BY RouteFields DEF Unparsed, Unmatched

LEMMA RoutesMatched == \A rt \in Routes : rt \notin {Unparsed, Unmatched}
<1> DEFINE Named(rt) == rt.name \notin {"unparsed", "unmatched"}
<1> USE RouteFields
<1>1. \A rt \in PostsRoutes \union AuthRoutes \union OrderRoutes : Named(rt)
  BY DEF PostsRoutes, AuthRoutes, OrderRoutes
<1>2. \A rt \in FeatureRoutes \union LearningRoutes : Named(rt)
  BY DEF FeatureRoutes, LearningRoutes
<1>3. \A rt \in HelloRoutes \union HealthRoutes \union MetricsRoutes \union GraphqlRoutes : Named(rt)
  BY DEF HelloRoutes, HealthRoutes, MetricsRoutes, GraphqlRoutes
<1>4. \A rt \in Routes : Named(rt)
  BY <1>1, <1>2, <1>3 DEF Routes
<1>. QED BY <1>4, NoRouteFacts

LEMMA EveryRoutePlain ==
  ASSUME NEW q \in Requests
  PROVE  Plain(q.route)
<1>1. q.route \in Routes \union {Unparsed, Unmatched}
  BY DEF Requests
<1>2. Plain(Unparsed) /\ Plain(Unmatched)
  BY RouteFields DEF Plain, Unparsed, Unmatched, SuccessStatus, Statuses
<1>. QED BY <1>1, <1>2, RouteFacts

\* More tokens, and older ones: what was promised about a request still holds.
Grows(t, u) ==
  /\ Len(t) <= Len(u)
  /\ \A n \in 1 .. Len(t) : /\ u[n].key = t[n].key /\ u[n].role = t[n].role
                            /\ u[n].secret = t[n].secret
                            /\ u[n].fresh => t[n].fresh

LEMMA GoodGrows ==
  ASSUME NEW t \in Seq(Tokens), NEW u \in Seq(Tokens), Grows(t, u), NEW secret,
         NEW q \in Requests, q.token \in 0 .. Len(t), Good(q, t, secret)
  PROVE  Good(q, u, secret) /\ q.token \in 0 .. Len(u)
<1>1. Len(t) \in Nat /\ Len(u) \in Nat /\ Len(t) <= Len(u) /\ Plain(q.route)
  BY EveryRoutePlain DEF Grows
<1>2. q.token # NoToken => q.token \in 1 .. Len(t)
  BY <1>1 DEF NoToken
<1>3. Entitled(q, t, secret) => Entitled(q, u, secret)
  BY <1>1, <1>2 DEF Entitled, Grows, Plain
<1>4. Explained(q, t, secret) => Explained(q, u, secret)
  BY <1>1, <1>2 DEF Explained, Grows
<1>. QED BY <1>1, <1>3, <1>4 DEF Good

\* An empty slot promises nothing, and no token is needed to read it.
LEMMA GoneGood ==
  ASSUME NEW q \in {Idle, Cut}
  PROVE  /\ q \in Requests /\ Gone(q) /\ q.token = NoToken
         /\ \A t, secret : Good(q, t, secret)
<1>1. Idle \in Requests /\ "cut" \in Stages
  BY DEF Idle, Requests, Stages, Statuses, Bodies, NoToken
<1>2. Cut \in Requests
  BY <1>1 DEF Cut, Requests
<1>3. /\ q.at \in {"idle", "cut"} /\ q.token = NoToken /\ q.route = Unmatched
  BY DEF Idle, Cut
<1>4. \A t, secret : Good(q, t, secret)
  BY <1>3, NoRouteFacts DEF Good, Succeeded, InFlight
<1>. QED BY <1>1, <1>2, <1>3, <1>4 DEF Gone

LEMMA IdleFields ==
  /\ Idle \in Requests /\ Idle.token = NoToken /\ Idle.route = Unmatched
  /\ Idle.logged = {} /\ Idle.measured = <<>> /\ Idle.at = "idle"
BY GoneGood DEF Idle

-----------------------------------------------------------------------------
(* Steps.                                                                  *)

LEMMA EnvFrame ==
  ASSUME BTypeOK, EnvOK, UNCHANGED bvars
  PROVE  BTypeOK' /\ EnvOK' /\ Secret' = Secret
<1>1. Parsed' = Parsed /\ Loaded' = Loaded /\ (Accepted' <=> Accepted)
  BY ConfigurationStays DEF bvars
<1>2. OrDefault(shell, "JWT_SECRET")' = OrDefault(shell, "JWT_SECRET")
  BY DEF OrDefault, bvars
<1>. QED BY <1>1, <1>2 DEF BTypeOK, EnvOK, Constructed, Secret, bvars

\* What a step that leaves the process alone must see to: the request it
\* serves, and the tokens.
LEMMA RequestStep ==
  ASSUME IInv, NEW r \in Slots, NEW p \in Requests, Set(r, p),
         tokens' \in Seq(Tokens), Grows(tokens, tokens'),
         \A n \in 1 .. Len(tokens') : Signed(tokens'[n]),
         phase \in Serving, p.token \in 0 .. Len(tokens'), Good(p, tokens', Secret)
  PROVE  IInv'
<1>1. /\ req' = [req EXCEPT ![r] = p] /\ UNCHANGED bvars /\ phase' = phase
      /\ req \in [Slots -> Requests] /\ tokens \in Seq(Tokens) /\ BTypeOK /\ EnvOK
  BY DEF Set, IInv, PTypeOK, bvars
<1>2. BTypeOK' /\ EnvOK' /\ Secret' = Secret
  BY <1>1, EnvFrame
<1>3. req' \in [Slots -> Requests] /\ req'[r] = p /\ \A x \in Slots : x # r => req'[x] = req[x]
  BY <1>1
<1>4. ASSUME NEW x \in Slots
      PROVE  req'[x].token \in 0 .. Len(tokens') /\ Good(req'[x], tokens', Secret)
  <2>1. CASE x = r
    BY <1>3, <2>1
  <2>2. CASE x # r
    <3>1. req[x] \in Requests /\ req[x].token \in 0 .. Len(tokens) /\ Good(req[x], tokens, Secret)
      BY <1>1 DEF IInv, PTypeOK
    <3>. QED BY <1>1, <1>3, <2>2, <3>1, GoodGrows
  <2>. QED BY <2>1, <2>2
<1>5. PTypeOK'
  BY <1>2, <1>3, <1>4 DEF PTypeOK
<1>6. \A x \in Slots : Good(req[x], tokens, Secret)'
  BY <1>2, <1>4
<1>. QED BY <1>1, <1>2, <1>5, <1>6 DEF IInv

LEMMA GrowsReflexive == ASSUME NEW t \in Seq(Tokens) PROVE Grows(t, t)
BY DEF Grows

\* The same when no token is issued or expires.
LEMMA RequestOnly ==
  ASSUME IInv, NEW r \in Slots, NEW p \in Requests, Set(r, p), tokens' = tokens,
         phase \in Serving, p.token \in 0 .. Len(tokens), Good(p, tokens, Secret)
  PROVE  IInv'
<1>1. tokens \in Seq(Tokens) /\ \A n \in 1 .. Len(tokens) : Signed(tokens[n])
  BY DEF IInv, PTypeOK
<1>. QED BY <1>1, GrowsReflexive, RequestStep

LEMMA ProcessGood ==
  ASSUME IInv, Steps(Process) \/ Crashes
  PROVE  IInv'
<1>0. PICK lost \in {Idle, Cut} :
        /\ Process \/ Crash
        /\ tokens' = tokens
        /\ req' = IF phase' # "off" THEN req
                  ELSE [r \in Slots |-> IF InFlight(req[r]) THEN lost ELSE Idle]
  BY DEF Steps, Crashes, Step
<1>1. /\ BTypeOK /\ EnvOK /\ req \in [Slots -> Requests] /\ tokens \in Seq(Tokens)
      /\ (Process \/ Crash) /\ tokens' = tokens
  BY <1>0 DEF IInv, PTypeOK
<1>2. /\ BTypeOK' /\ EnvOK'
      /\ phase' # "off" => /\ shell' = shell /\ file' = file
                           /\ phase \in Serving => phase' \in Serving
  BY <1>1, ProcessStep
<1>3. CASE phase' = "off"
  <2>1. \A r \in Slots : req'[r] \in {Idle, Cut}
    BY <1>0, <1>3
  <2>2. DOMAIN req' = Slots /\ req' = [r \in Slots |-> req'[r]]
    BY <1>0, <1>3
  <2>3. \A r \in Slots : req'[r] \in Requests /\ Gone(req'[r]) /\ req'[r].token = NoToken
    BY <2>1, GoneGood
  <2>4. req' \in [Slots -> Requests]
    BY <2>2, <2>3
  <2>5. Len(tokens) \in Nat
    BY <1>1
  <2>6. \A r \in Slots : req'[r].token \in 0 .. Len(tokens')
    BY <1>1, <2>3, <2>5 DEF NoToken
  <2>7. \A r \in Slots : Good(req[r], tokens, Secret)'
    BY <2>1, GoneGood
  <2>8. PTypeOK'
    BY <1>1, <1>2, <2>4, <2>6 DEF PTypeOK
  <2>9. (\A n \in 1 .. Len(tokens) : Signed(tokens[n]))'
    BY <1>1 DEF IInv
  <2>. QED BY <1>2, <2>3, <2>7, <2>8, <2>9 DEF IInv
<1>4. CASE phase' # "off"
  <2>1. Secret' = Secret /\ req' = req
    BY <1>0, <1>2, <1>4, ConfigurationStays DEF Secret
  <2>2. PTypeOK'
    BY <1>1, <1>2, <2>1 DEF PTypeOK, IInv
  <2>. QED BY <1>1, <1>2, <1>4, <2>1, <2>2 DEF IInv
<1>. QED BY <1>3, <1>4

LEMMA ExpireGood ==
  ASSUME IInv, Expire
  PROVE  IInv'
<1>1. /\ BTypeOK /\ EnvOK /\ req \in [Slots -> Requests] /\ tokens \in Seq(Tokens)
      /\ req' = req /\ UNCHANGED bvars /\ phase' = phase
  BY DEF IInv, PTypeOK, Expire, bvars
<1>2. BTypeOK' /\ EnvOK' /\ Secret' = Secret
  BY <1>1, EnvFrame
<1>3. PICK n \in 1 .. Len(tokens) : tokens' = [tokens EXCEPT ![n].fresh = FALSE]
  BY DEF Expire
<1>4. tokens[n] \in Tokens
  BY <1>1
<1> DEFINE old == [tokens[n] EXCEPT !.fresh = FALSE]
<1>5. /\ old \in Tokens /\ old.fresh = FALSE
      /\ old.key = tokens[n].key /\ old.role = tokens[n].role /\ old.secret = tokens[n].secret
  BY <1>4 DEF Tokens
<1>7. tokens' = [tokens EXCEPT ![n] = old]
  BY <1>3
<1> HIDE DEF old
<1>8. tokens' \in Seq(Tokens) /\ Len(tokens') = Len(tokens)
  BY <1>1, <1>5, <1>7
<1>9. Grows(tokens, tokens')
  BY <1>1, <1>5, <1>7, <1>8 DEF Grows
<1>10. \A m \in 1 .. Len(tokens') : Signed(tokens'[m])
  BY <1>8, <1>9 DEF Grows, Signed, IInv
<1>11. \A r \in Slots : req[r].token \in 0 .. Len(tokens') /\ Good(req[r], tokens', Secret)
  BY <1>1, <1>8, <1>9, GoodGrows DEF IInv, PTypeOK
<1>12. PTypeOK'
  BY <1>1, <1>2, <1>8, <1>11 DEF PTypeOK
<1>. QED BY <1>1, <1>2, <1>10, <1>11, <1>12 DEF IInv

LEMMA StageNames ==
  /\ "guards" \in Stages /\ "handler" \in Stages /\ "failed" \in Stages /\ "done" \in Stages
  /\ {200, 201, 400, 401, 403, 404, 429} \subseteq Statuses
  /\ {"data", "wrapped", "contract", "bare", "errors"} \subseteq Bodies
BY DEF Stages, Statuses, Bodies

\* A request after a step of its own, field by field.
Later(p, q, at, status, measured, logged, body) ==
  /\ p \in Requests /\ p.route = q.route /\ p.key = q.key /\ p.token = q.token /\ p.id = q.id
  /\ p.at = at /\ p.status = status /\ p.measured = measured /\ p.logged = logged
  /\ p.body = body

LEMMA SendGood ==
  ASSUME IInv, NEW r \in Slots, Send(r)
  PROVE  IInv'
<1>0. /\ tokens \in Seq(Tokens) /\ Len(tokens) \in Nat
      /\ \A q : Arrives(r, q) => Set(r, q) /\ tokens' = tokens /\ phase \in Serving
  BY DEF IInv, PTypeOK, Arrives, Accepting, Serving
<1>1. ASSUME NEW route \in Routes, NEW key \in BOOLEAN, NEW token \in 0 .. Len(tokens),
             "jwt" \notin route.guards => token = NoToken, Receive(r, route, key, token)
      PROVE  IInv'
  <2> DEFINE p == [Idle EXCEPT !.at = "guards", !.route = route, !.key = key,
                               !.token = token, !.id = TRUE,
                               !.logged = RequestLogger(route)]
  <2>1. Arrives(r, p)
    BY <1>1 DEF Receive
  <2>2. p \in Requests
    <3>1. token \in Nat /\ RequestLogger(route) \in SUBSET {"plain", "named"}
      BY <1>0 DEF RequestLogger
    <3>2. route \in Routes \union {Unparsed, Unmatched}
      OBVIOUS
    <3>3. Idle \in Requests
      BY IdleFields
    <3>4. "guards" \in Stages
      BY StageNames
    <3>. QED BY <3>1, <3>2, <3>3, <3>4 DEF Requests
  <2>3. /\ p.at = "guards" /\ p.route = route /\ p.token = token /\ p.measured = <<>>
        /\ p.id = TRUE /\ p.logged = RequestLogger(route)
    BY DEF Idle
  <2> HIDE DEF p
  <2>4. Good(p, tokens, Secret)
    BY <1>1, <2>3 DEF Good, Succeeded, InFlight, OnItsWay
  <2>. QED BY <1>0, <1>1, <2>1, <2>2, <2>3, <2>4, RequestOnly
<1>2. ASSUME ReceiveUnparsed(r) PROVE IInv'
  <2> DEFINE p == [Idle EXCEPT !.at = "failed", !.route = Unparsed, !.status = 400]
  <2>1. Arrives(r, p)
    BY <1>2 DEF ReceiveUnparsed
  <2>2. p \in Requests
    <3>1. Idle \in Requests
      BY IdleFields
    <3>2. "failed" \in Stages /\ 400 \in Statuses /\ 404 \in Statuses
      BY StageNames
    <3>. QED BY <3>1, <3>2 DEF Requests
  <2>3. /\ p.at = "failed" /\ p.route = Unparsed /\ p.token = NoToken /\ p.status = 400
        /\ p.measured = <<>> /\ p.logged = {}
    BY DEF Idle
  <2> HIDE DEF p
  <2>4. Good(p, tokens, Secret)
    BY <2>3, NoRouteFacts DEF Good, Succeeded, InFlight, OnItsWay, RequestLogger, Counted, Unreached
  <2>. QED BY <1>0, <2>1, <2>2, <2>3, <2>4, RequestOnly DEF NoToken
<1>3. ASSUME ReceiveUnmatched(r) PROVE IInv'
  <2> DEFINE p == [Idle EXCEPT !.at = "failed", !.route = Unmatched, !.status = 404, !.id = TRUE]
  <2>1. Arrives(r, p)
    BY <1>3 DEF ReceiveUnmatched
  <2>2. p \in Requests
    <3>1. Idle \in Requests
      BY IdleFields
    <3>2. "failed" \in Stages /\ 400 \in Statuses /\ 404 \in Statuses
      BY StageNames
    <3>3. ASSUME NEW a \in Stages, NEW s \in Statuses
          PROVE  [Idle EXCEPT !.at = a, !.route = Unmatched, !.status = s, !.id = TRUE] \in Requests
      BY <3>1 DEF Requests
    <3>. QED BY <3>2, <3>3
  <2>3. /\ p.at = "failed" /\ p.route = Unmatched /\ p.token = NoToken /\ p.status = 404
        /\ p.measured = <<>> /\ p.logged = {} /\ p.id = TRUE
    BY DEF Idle
  <2> HIDE DEF p
  <2>4. Good(p, tokens, Secret)
    BY <2>3, NoRouteFacts DEF Good, Succeeded, InFlight, OnItsWay, RequestLogger, Counted, Unreached
  <2>. QED BY <1>0, <2>1, <2>2, <2>3, <2>4, RequestOnly DEF NoToken
<1>4. CASE ReceiveUnparsed(r) \/ ReceiveUnmatched(r)
  BY <1>2, <1>3, <1>4
<1>5. ASSUME NEW route \in Routes,
             NEW key \in IF "key" \in route.guards THEN BOOLEAN ELSE {FALSE},
             NEW token \in IF "jwt" \in route.guards THEN 0 .. Len(tokens) ELSE {NoToken},
             Receive(r, route, key, token)
      PROVE  IInv'
  <2>1. key \in BOOLEAN
    BY <1>5
  <2>2. token \in 0 .. Len(tokens) /\ ("jwt" \notin route.guards => token = NoToken)
    BY <1>0, <1>5 DEF NoToken
  <2>. QED BY <1>1, <1>5, <2>1, <2>2
<1>. QED BY <1>4, <1>5 DEF Send

\* What is known of a request that is being served.
LEMMA Served ==
  ASSUME IInv, NEW r \in Slots, InFlight(req[r])
  PROVE  /\ req[r] \in Requests /\ Good(req[r], tokens, Secret) /\ Plain(req[r].route)
         /\ req[r].token \in 0 .. Len(tokens) /\ tokens \in Seq(Tokens)
         /\ phase \in Serving /\ used["JwtStrategy"] = Secret
         /\ \A n \in 1 .. Len(tokens) : Signed(tokens[n]) /\ tokens[n] \in Tokens
<1>1. /\ req[r] \in Requests /\ Good(req[r], tokens, Secret) /\ phase \in Serving
      /\ req[r].token \in 0 .. Len(tokens) /\ tokens \in Seq(Tokens) /\ EnvOK
      /\ \A n \in 1 .. Len(tokens) : Signed(tokens[n]) /\ tokens[n] \in Tokens
  BY DEF IInv, PTypeOK, InFlight, Gone
<1>2. Constructed
  BY <1>1 DEF Constructed, Phases, Serving
<1>3. "JwtStrategy" \in Late /\ Var["JwtStrategy"] = "JWT_SECRET"
  BY DEF Late, Var
<1>4. used["JwtStrategy"] = Secret
  BY <1>1, <1>2, <1>3 DEF EnvOK, Secret
<1>. QED BY <1>1, <1>4, EveryRoutePlain

\* A refusal: an error status with an explanation, and nothing counted.
LEMMA FailGood ==
  ASSUME IInv, NEW r \in Slots, NEW s \in {401, 403, 429}, req[r].at = "guards", Fail(r, s),
         s \in {401, 403} => req[r].route.guards # {},
         s \in {401, 403} => Explained([req[r] EXCEPT !.at = "failed", !.status = s], tokens, Secret)
  PROVE  IInv'
<1> DEFINE q == req[r]
           p == [q EXCEPT !.at = "failed", !.status = s]
<1>1. q \in Requests /\ Good(q, tokens, Secret) /\ phase \in Serving /\ q.token \in 0 .. Len(tokens)
      /\ q.measured = <<>> /\ OnItsWay(q)
  BY Served DEF Good, InFlight
<1>2. Set(r, p) /\ tokens' = tokens
  BY DEF Fail
<1>3. Later(p, q, "failed", s, q.measured, q.logged, q.body)
  <2>1. s \in Statuses /\ "failed" \in Stages
    BY StageNames
  <2>2. q \in Requests
    BY <1>1
  <2> HIDE DEF q
  <2>. QED BY <2>1, <2>2 DEF Requests, Later
<1>4. /\ p \in Requests /\ p.at = "failed" /\ p.status = s /\ p.route = q.route
      /\ p.token = q.token /\ p.measured = q.measured /\ p.logged = q.logged /\ p.id = q.id
  BY <1>3 DEF Later
<1>5. s \in {401, 403} => Explained(p, tokens, Secret)
  OBVIOUS
<1>6. s = 429 => Explained(p, tokens, Secret)
  BY <1>4 DEF Explained
<1> HIDE DEF p
<1>7. Good(p, tokens, Secret)
  BY <1>1, <1>4, <1>5, <1>6 DEF Good, Succeeded, InFlight, OnItsWay, Counted, Unreached
<1>. QED BY <1>1, <1>2, <1>4, <1>7, RequestOnly

LEMMA ThrottleGood ==
  ASSUME IInv, NEW r \in Slots, Throttle(r)
  PROVE  IInv'
<1>1. Fail(r, 429) /\ req[r].at = "guards"
  BY DEF Throttle
<1>2. /\ 429 \in {401, 403, 429}
      /\ 429 \in {401, 403} => req[r].route.guards # {}
      /\ 429 \in {401, 403} =>
           Explained([req[r] EXCEPT !.at = "failed", !.status = 429], tokens, Secret)
  OBVIOUS
<1>. QED BY <1>1, <1>2, FailGood

LEMMA RefuseGood ==
  ASSUME IInv, NEW r \in Slots, Refuse(r)
  PROVE  IInv'
<1> DEFINE q == req[r]
<1>1. q.at = "guards" /\ InFlight(q)
  BY DEF Refuse, InFlight
<1>2. /\ q \in Requests /\ Good(q, tokens, Secret) /\ Plain(q.route)
      /\ q.token \in 0 .. Len(tokens) /\ tokens \in Seq(Tokens)
      /\ used["JwtStrategy"] = Secret
      /\ \A n \in 1 .. Len(tokens) : Signed(tokens[n]) /\ tokens[n] \in Tokens
  BY <1>1, Served
<1>3. q.token # NoToken => q.token \in 1 .. Len(tokens)
  BY <1>2 DEF NoToken
<1>4. ASSUME NEW s \in {401, 403}
      PROVE  LET p == [q EXCEPT !.at = "failed", !.status = s] IN p.status = s /\ p.token = q.token
  <2> HIDE DEF q
  <2>. QED BY <1>2 DEF Requests
<1>5. CASE (ApiKeyRefuses(q) \/ JwtRefuses(q)) /\ Fail(r, 401)
  <2>1. q.route.guards # {}
    BY <1>5 DEF ApiKeyRefuses, JwtRefuses
  <2>2. q.token # NoToken /\ tokens[q.token].fresh => tokens[q.token].key # Secret
    BY <1>2, <1>5 DEF Good, Plain, ApiKeyRefuses, JwtRefuses, Verified
  <2>3. Explained([q EXCEPT !.at = "failed", !.status = 401], tokens, Secret)
    BY <1>2, <1>3, <1>4, <2>2 DEF Explained, Signed
  <2>. QED BY <1>1, <1>5, <2>1, <2>3, FailGood
<1>6. CASE ~JwtRefuses(q) /\ RolesRefuse(q) /\ Fail(r, 403)
  <2>1. q.route.guards # {} /\ "jwt" \in q.route.guards
    BY <1>2, <1>6 DEF RolesRefuse, Plain
  <2>2. q.token # NoToken /\ tokens[q.token].role # "admin"
    BY <1>6, <2>1 DEF JwtRefuses, RolesRefuse, Verified
  <2>3. tokens[q.token].role = "user"
    BY <1>2, <1>3, <2>2 DEF Tokens
  <2>4. Explained([q EXCEPT !.at = "failed", !.status = 403], tokens, Secret)
    BY <1>4, <2>2, <2>3 DEF Explained
  <2>. QED BY <1>1, <1>6, <2>1, <2>4, FailGood
<1>. QED BY <1>5, <1>6 DEF Refuse

\* Past the guards: the request is entitled to what they protect.
LEMMA AdmitGood ==
  ASSUME IInv, NEW r \in Slots, Admit(r)
  PROVE  IInv'
<1> DEFINE q == req[r]
           p == [q EXCEPT !.at = "handler"]
<1>1. q.at = "guards" /\ InFlight(q) /\ Set(r, p) /\ tokens' = tokens
  BY DEF Admit, InFlight
<1>2. /\ q \in Requests /\ Good(q, tokens, Secret) /\ Plain(q.route)
      /\ q.token \in 0 .. Len(tokens) /\ phase \in Serving /\ used["JwtStrategy"] = Secret
  BY <1>1, Served
<1>3. Later(p, q, "handler", q.status, q.measured, q.logged, q.body)
  <2>1. "handler" \in Stages /\ q \in Requests
    BY <1>2, StageNames
  <2> HIDE DEF q
  <2>. QED BY <2>1 DEF Requests, Later
<1>4. ~ApiKeyRefuses(q) /\ ~JwtRefuses(q) /\ ~RolesRefuse(q)
  BY DEF Admit
<1>5. Entitled(q, tokens, Secret)
  BY <1>2, <1>4 DEF Entitled, ApiKeyRefuses, JwtRefuses, RolesRefuse, Verified
<1> HIDE DEF p, q
<1>6. Entitled(p, tokens, Secret)
  BY <1>3, <1>5 DEF Entitled, Later
<1>7. Good(p, tokens, Secret)
  BY <1>1, <1>2, <1>3, <1>6 DEF Good, Later, Succeeded, InFlight, OnItsWay
<1>. QED BY <1>1, <1>2, <1>3, <1>7, RequestOnly DEF Later

\* The token that login hands out is signed with what JwtModule read.
LEMMA LoginGood ==
  ASSUME IInv, NEW r \in Slots, Login(r), phase \in Serving, UNCHANGED bvars
  PROVE  /\ tokens' \in Seq(Tokens) /\ Grows(tokens, tokens')
         /\ \A n \in 1 .. Len(tokens') : Signed(tokens'[n])
<1>1. /\ tokens \in Seq(Tokens) /\ BTypeOK /\ EnvOK
      /\ \A n \in 1 .. Len(tokens) : Signed(tokens[n])
  BY DEF IInv, PTypeOK
<1>2. CASE tokens' = tokens
  BY <1>1, <1>2, GrowsReflexive
<1>3. CASE \E role \in {"admin", "user"} : tokens' = Append(tokens, Issued(role))
  <2>1. PICK role \in {"admin", "user"} : tokens' = Append(tokens, Issued(role))
    BY <1>3
  <2> DEFINE t == Issued(role)
  <2>2. /\ t.key = used["JwtModule"] /\ t.secret = Secret /\ t.role = role /\ t.fresh = TRUE
    BY DEF Issued, Secret
  <2>3. used["JwtModule"] = OrDefault(shell, "JWT_SECRET")
    BY <1>1 DEF EnvOK, Serving
  <2>4. used["JwtModule"] \in Values /\ Secret \in Values
    BY <1>1, <2>3, EarlySecret, EnvTyped DEF Secret
  <2>5. t \in Tokens
    BY <2>4 DEF Issued, Tokens, Secret
  <2>6. Signed(t)
    BY <1>1, <2>2, <2>3, EarlySecret DEF Signed, Secret
  <2> HIDE DEF t
  <2>7. /\ tokens' \in Seq(Tokens) /\ Len(tokens') = Len(tokens) + 1
        /\ tokens'[Len(tokens')] = t /\ \A n \in 1 .. Len(tokens) : tokens'[n] = tokens[n]
    BY <1>1, <2>1, <2>5 DEF t
  <2>8. Len(tokens) \in Nat
    BY <1>1
  <2>9. Grows(tokens, tokens')
    BY <2>7, <2>8 DEF Grows
  <2>10. \A n \in 1 .. Len(tokens') : Signed(tokens'[n])
    BY <1>1, <2>6, <2>7, <2>8
  <2>. QED BY <2>7, <2>9, <2>10
<1>. QED BY <1>2, <1>3 DEF Login

\* What the interceptor counts, seen from the sequence it leaves.
LEMMA MeasuredOnce ==
  ASSUME NEW q \in Requests, q.measured = <<>>
  PROVE  /\ Measured(q) \in Seq({200, 201}) /\ Len(Measured(q)) <= 1
         /\ q.route.via # "graphql" => /\ Measured(q) = <<SuccessStatus(q.route)>>
                                       /\ Measured(q) # <<>>
         /\ q.route.via = "graphql" => Measured(q) = <<>>
<1> DEFINE s == SuccessStatus(q.route)
<1>1. s \in {200, 201}
  BY DEF SuccessStatus
<1>2. Measured(q) = IF q.route.via = "graphql" THEN <<>> ELSE Append(<<>>, s)
  BY DEF Measured, Increment
<1> HIDE DEF s
<1>3. /\ Append(<<>>, s) = <<s>> /\ Len(<<s>>) = 1 /\ <<s>> # <<>> /\ <<s>> \in Seq({200, 201})
      /\ <<>> \in Seq({200, 201}) /\ Len(<<>>) = 0
  BY <1>1
<1>4. CASE q.route.via = "graphql"
  <2>1. Measured(q) = <<>>
    BY <1>2, <1>4
  <2>. QED BY <1>3, <1>4, <2>1
<1>5. CASE q.route.via # "graphql"
  <2>1. Measured(q) = <<s>>
    BY <1>2, <1>3, <1>5
  <2>2. Measured(q) \in Seq({200, 201}) /\ Len(Measured(q)) <= 1 /\ Measured(q) # <<>>
    BY <1>3, <2>1
  <2>. QED BY <1>5, <2>1, <2>2 DEF s
<1>. QED BY <1>4, <1>5

LEMMA ReturnGood ==
  ASSUME IInv, NEW r \in Slots, Return(r)
  PROVE  IInv'
<1> DEFINE q == req[r]
           s == SuccessStatus(q.route)
           l == q.logged \union {LogLine(q)}
           b == Transformed(q)
           p == [q EXCEPT !.at = "done", !.status = s, !.measured = Measured(q),
                          !.logged = @ \union {LogLine(q)}, !.body = Transformed(q)]
<1>1. q.at = "handler" /\ InFlight(q) /\ Set(r, p) /\ Login(r)
  BY DEF Return, InFlight
<1>2. /\ q \in Requests /\ Good(q, tokens, Secret) /\ Plain(q.route)
      /\ q.token \in 0 .. Len(tokens) /\ phase \in Serving /\ UNCHANGED bvars
  BY <1>1, Served DEF Set
<1>3. s \in {200, 201} /\ s \in Statuses
  BY DEF SuccessStatus, Statuses
<1>4. /\ q.measured = <<>> /\ Entitled(q, tokens, Secret) /\ OnItsWay(q)
      /\ q.route \notin {Unparsed, Unmatched}
  BY <1>1, <1>2, RoutesMatched DEF Good
<1>5. /\ Measured(q) \in Seq({200, 201}) /\ Len(Measured(q)) <= 1
      /\ q.route.via # "graphql" => Measured(q) = <<s>> /\ Measured(q) # <<>>
      /\ q.route.via = "graphql" => Measured(q) = <<>>
  BY <1>2, <1>4, MeasuredOnce
<1>6. Later(p, q, "done", s, Measured(q), l, b)
  <2>1. "done" \in Stages /\ q \in Requests
    BY <1>2, StageNames
  <2>2. l \in SUBSET {"plain", "named"} /\ b \in Bodies
    BY <1>2 DEF Requests, LogLine, Transformed, Bodies
  <2>3. p = [q EXCEPT !.at = "done", !.status = s, !.measured = Measured(q), !.logged = l,
                      !.body = b]
    OBVIOUS
  <2>4. s \in Statuses /\ Measured(q) \in Seq({200, 201})
    BY <1>3, <1>5
  <2> HIDE DEF p, s, l, b, q
  <2>. QED BY <2>1, <2>2, <2>3, <2>4 DEF Requests, Later
<1>7. /\ "named" \in l <=> q.route.via # "graphql"
      /\ l # {}
      /\ b = IF q.route.via = "learning" THEN "wrapped" ELSE "data"
      /\ q.route.via = "graphql" => s = 200
  BY <1>4 DEF OnItsWay, RequestLogger, LogLine, Transformed, SuccessStatus
<1> HIDE DEF p, q, s, l, b
<1>9. Entitled(p, tokens, Secret)
  BY <1>4, <1>6 DEF Entitled, Later
<1>10. Counted(p)
  BY <1>3, <1>4, <1>5, <1>6, MeasuredOnce DEF Counted, Unreached, Later
<1>11. Told(p)
  BY <1>3, <1>4, <1>5, <1>6, <1>7 DEF Told, OnItsWay, Succeeded, Later
<1>12. Explained(p, tokens, Secret)
  BY <1>3, <1>6 DEF Explained, Later
<1>13. Good(p, tokens, Secret)
  BY <1>2, <1>6, <1>9, <1>10, <1>11, <1>12 DEF Good, Later, Succeeded, InFlight
<1>14. /\ tokens' \in Seq(Tokens) /\ Grows(tokens, tokens') /\ tokens \in Seq(Tokens)
       /\ \A n \in 1 .. Len(tokens') : Signed(tokens'[n])
  BY <1>1, <1>2, LoginGood DEF IInv, PTypeOK
<1>15. p \in Requests /\ p.token \in 0 .. Len(tokens)
  BY <1>2, <1>6 DEF Later
<1>16. Good(p, tokens', Secret) /\ p.token \in 0 .. Len(tokens')
  BY <1>13, <1>14, <1>15, GoodGrows
<1>. QED BY <1>1, <1>2, <1>14, <1>15, <1>16, RequestStep

LEMMA ThrowGood ==
  ASSUME IInv, NEW r \in Slots, Throw(r)
  PROVE  IInv'
<1> DEFINE q == req[r]
<1>1. q.at = "handler" /\ InFlight(q) /\ tokens' = tokens
  BY DEF Throw, InFlight
<1>2. PICK s \in q.route.ends \ {SuccessStatus(q.route)} :
        Set(r, [q EXCEPT !.at = "failed", !.status = s, !.measured = Measured(q)])
  BY DEF Throw
<1> DEFINE p == [q EXCEPT !.at = "failed", !.status = s, !.measured = Measured(q)]
<1>3. /\ q \in Requests /\ Good(q, tokens, Secret) /\ Plain(q.route)
      /\ q.token \in 0 .. Len(tokens) /\ phase \in Serving
  BY <1>1, Served
<1>4. /\ s \in Statuses /\ s \notin {200, 201, 429}
      /\ q.route.guards # {} => s \notin {401, 403}
  BY <1>3 DEF Plain
<1>5. q.measured = <<>> /\ OnItsWay(q) /\ q.route \notin {Unparsed, Unmatched}
  BY <1>1, <1>3, RoutesMatched DEF Good
<1>6. /\ Measured(q) \in Seq({200, 201}) /\ Len(Measured(q)) <= 1
      /\ Measured(q) = <<>> <=> q.route.via = "graphql"
  BY <1>3, <1>5, MeasuredOnce
<1>7. Later(p, q, "failed", s, Measured(q), q.logged, q.body)
  <2>1. "failed" \in Stages /\ q \in Requests /\ s \in Statuses /\ Measured(q) \in Seq({200, 201})
    BY <1>3, <1>4, <1>6, StageNames
  <2> HIDE DEF q
  <2>. QED BY <2>1 DEF Requests, Later
<1>8. Set(r, p)
  BY <1>2
<1> HIDE DEF p, q
<1>9. Counted(p)
  BY <1>4, <1>5, <1>6, <1>7 DEF Counted, Unreached, Later
<1>10. q.route.guards # {} => Explained(p, tokens, Secret)
  BY <1>4, <1>7 DEF Explained, Later
<1>11. OnItsWay(p)
  BY <1>5, <1>7 DEF OnItsWay, Later
<1>12. Good(p, tokens, Secret)
  BY <1>3, <1>4, <1>7, <1>9, <1>10, <1>11 DEF Good, Later, Succeeded, InFlight
<1>. QED BY <1>1, <1>3, <1>7, <1>8, <1>12, RequestOnly DEF Later

\* The filter ends a request with the status it failed with, except that
\* Apollo answers 200.
LEMMA FilterGood ==
  ASSUME IInv, NEW r \in Slots, Filter(r)
  PROVE  IInv'
<1> DEFINE q == req[r]
<1>1. q.at = "failed" /\ InFlight(q) /\ tokens' = tokens
  BY DEF Filter, InFlight
<1>2. /\ q \in Requests /\ Good(q, tokens, Secret) /\ Plain(q.route)
      /\ q.token \in 0 .. Len(tokens) /\ phase \in Serving
  BY <1>1, Served
<1>3. /\ q.status \notin {200, 201} /\ Counted(q) /\ OnItsWay(q)
      /\ q.route.guards # {} => Explained(q, tokens, Secret)
      /\ "jwt" \notin q.route.guards => q.token = NoToken
  BY <1>1, <1>2 DEF Good
<1>r. RequestLogger(q.route) = IF q.route.via = "learning" THEN {"plain"} ELSE {}
  BY DEF RequestLogger
<1>4. "done" \in Stages /\ 200 \in Statuses /\ q \in Requests
      /\ "errors" \in Bodies /\ "bare" \in Bodies /\ "contract" \in Bodies
  BY <1>2, StageNames
<1>5. CASE q.route.via = "graphql"
  <2> DEFINE p == [q EXCEPT !.at = "done", !.status = 200, !.body = "errors"]
  <2>1. Set(r, p)
    BY <1>5 DEF Filter, ErrorsArray
  <2>2. Later(p, q, "done", 200, q.measured, q.logged, "errors")
    <3> HIDE DEF q
    <3>. QED BY <1>4 DEF Requests, Later
  <2> HIDE DEF p, q
  <2>3. p.route.guards = {} /\ q.route.guards = {}
    BY <1>2, <1>5, <2>2 DEF Plain, Later
  <2>4. Counted(p) /\ Entitled(p, tokens, Secret)
    BY <1>3, <1>5, <2>2, <2>3 DEF Counted, Entitled, Later
  <2>5. Told(p)
    BY <1>3, <1>r, <1>5, <2>2 DEF Told, OnItsWay, Succeeded, Later
  <2>6. Good(p, tokens, Secret)
    BY <1>3, <2>2, <2>3, <2>4, <2>5 DEF Good, Later, Succeeded, InFlight
  <2>. QED BY <1>1, <1>2, <2>1, <2>2, <2>6, RequestOnly DEF Later
<1>6. ASSUME NEW p, NEW l \in SUBSET {"plain", "named"}, NEW b, Set(r, p),
             Later(p, q, "done", q.status, q.measured, l, b), l = {"plain"},
             q.route.via # "graphql",
             b = IF q.route.via = "learning" THEN "bare" ELSE "contract"
      PROVE  IInv'
  <2> HIDE DEF q
  <2>1. Counted(p)
    BY <1>3, <1>6 DEF Counted, Unreached, Later
  <2>2. Told(p)
    BY <1>2, <1>3, <1>6 DEF Told, OnItsWay, Succeeded, Later, Plain
  <2>3. q.route.guards # {} => Explained(p, tokens, Secret)
    BY <1>3, <1>6 DEF Explained, Later
  <2>4. Good(p, tokens, Secret)
    BY <1>3, <1>6, <2>1, <2>2, <2>3 DEF Good, Later, Succeeded, InFlight
  <2>. QED BY <1>1, <1>2, <1>6, <2>4, RequestOnly DEF Later
<1>7. CASE q.route.via = "learning"
  <2> DEFINE p == [q EXCEPT !.at = "done", !.body = "bare"]
  <2>1. Set(r, p)
    BY <1>7 DEF Filter, HttpError
  <2>2. Later(p, q, "done", q.status, q.measured, q.logged, "bare")
    <3> HIDE DEF q
    <3>. QED BY <1>4 DEF Requests, Later
  <2>3. q.logged = {"plain"}
    BY <1>3, <1>r, <1>7 DEF OnItsWay
  <2> HIDE DEF p
  <2>. QED BY <1>6, <1>7, <2>1, <2>2, <2>3
<1>8. CASE q.route.via \notin {"graphql", "learning"}
  <2> DEFINE l == q.logged \union {"plain"}
             p == [q EXCEPT !.at = "done", !.logged = @ \union {"plain"}, !.body = "contract"]
  <2>1. Set(r, p)
    BY <1>8 DEF Filter, ErrorContract
  <2>2. p = [q EXCEPT !.at = "done", !.logged = l, !.body = "contract"]
    OBVIOUS
  <2>3. l = {"plain"}
    BY <1>3, <1>r, <1>8 DEF OnItsWay
  <2>4. Later(p, q, "done", q.status, q.measured, l, "contract")
    <3> HIDE DEF q, l, p
    <3>. QED BY <1>4, <2>2, <2>3 DEF Requests, Later
  <2> HIDE DEF p, l
  <2>. QED BY <1>6, <1>8, <2>1, <2>3, <2>4
<1>. QED BY <1>5, <1>7, <1>8

LEMMA InitGood == PInit => IInv
<1> SUFFICES ASSUME PInit PROVE IInv
  OBVIOUS
<1>1. /\ shell \in Shells /\ file \in Files /\ env = shell /\ phase = "off" /\ term = "no" /\ boots = 0
      /\ used = Unread /\ req = [r \in Slots |-> Idle] /\ tokens = <<>>
  BY DEF PInit, BInit
<1>2. BTypeOK /\ EnvOK
  BY <1>1, OperatorsAssumption DEF BTypeOK, EnvOK, Constructed, Phases, Terms, Unread
<1>3. tokens \in Seq(Tokens) /\ Len(tokens) = 0
  BY <1>1
<1>4. req \in [Slots -> Requests] /\ \A r \in Slots : req[r] = Idle
  BY <1>1, IdleFields
<1>5. \A r \in Slots : req[r].token \in 0 .. Len(tokens) /\ Gone(req[r])
  BY <1>3, <1>4, IdleFields DEF NoToken, Gone
<1>6. \A r \in Slots : Good(req[r], tokens, Secret)
  BY <1>4, GoneGood
<1>. QED BY <1>2, <1>3, <1>4, <1>5, <1>6 DEF IInv, PTypeOK

LEMMA StepGood == IInv /\ [PNext]_pvars => IInv'
<1> SUFFICES ASSUME IInv, [PNext]_pvars PROVE IInv'
  OBVIOUS
<1>1. CASE Steps(Process) \/ Crashes
  BY <1>1, ProcessGood
<1>2. CASE Expire
  BY <1>2, ExpireGood
<1>3. ASSUME NEW r \in Slots, Send(r) PROVE IInv'
  BY <1>3, SendGood
<1>4. ASSUME NEW r \in Slots, Handle(r) PROVE IInv'
  BY <1>4, ThrottleGood, RefuseGood, AdmitGood, ReturnGood, ThrowGood, FilterGood DEF Handle
<1>5. CASE UNCHANGED pvars
  <2>1. BTypeOK' /\ EnvOK' /\ Secret' = Secret /\ req' = req /\ tokens' = tokens /\ phase' = phase
    BY <1>5, EnvFrame DEF IInv, PTypeOK, pvars, bvars
  <2>2. PTypeOK'
    BY <2>1 DEF IInv, PTypeOK
  <2>. QED BY <2>1, <2>2 DEF IInv
<1>. QED BY <1>1, <1>2, <1>3, <1>4, <1>5 DEF PNext

LEMMA Invariant == PSpec => []IInv
BY InitGood, StepGood, PTL DEF PSpec

-----------------------------------------------------------------------------
\* The process, its requests and its tokens are always of their types, and a
\* request only ever names a token that was issued.
THEOREM PipelineTyped == PSpec => []PTypeOK
<1>1. IInv => PTypeOK
  BY DEF IInv
<1>. QED BY <1>1, Invariant, PTL

\* Whatever the shell and .env hold: a process with providers passed the
\* validation, and each of them has the value of shell over .env over default.
THEOREM RunsAsConfigured == PSpec => []UpMeansConfigured
<1>1. IInv => UpMeansConfigured
  BY DEF IInv, EnvOK, UpMeansConfigured, Constructed
<1>. QED BY <1>1, Invariant, PTL

\* The signing and the verifying secret differ only when a secret other than
\* the default stands in .env alone, and then login signs with the default.
THEOREM OneSecret == PSpec => []KeysAgree
<1>1. IInv => KeysAgree
  <2> SUFFICES ASSUME IInv, Constructed, used["JwtModule"] # used["JwtStrategy"]
               PROVE  /\ shell["JWT_SECRET"] = Unset
                      /\ file["JWT_SECRET"] \notin {Unset, Default["JWT_SECRET"]}
                      /\ used["JwtModule"] = Default["JWT_SECRET"]
    BY DEF KeysAgree
  <2>1. "JwtStrategy" \in Late /\ Var["JwtStrategy"] = "JWT_SECRET"
    BY DEF Late, Var
  <2>2. /\ used["JwtStrategy"] = Parsed["JWT_SECRET"]
        /\ used["JwtModule"] = OrDefault(shell, "JWT_SECRET")
    BY <2>1 DEF IInv, EnvOK, Constructed
  <2>3. BTypeOK
    BY DEF IInv, PTypeOK
  <2>. QED BY <2>2, <2>3, EarlySecret
<1>. QED BY <1>1, Invariant, PTL

\* Nobody gets past a guard without what it asks for, over all restarts and
\* changes of the secret.
THEOREM GuardsHold == PSpec => []AdmittedRightly
<1>1. IInv => AdmittedRightly
  BY DEF IInv, Good, Entitled, AdmittedRightly, Secret
<1>. QED BY <1>1, Invariant, PTL

\* A token that has not expired is refused for one of the two reasons only.
THEOREM RefusalsExplained == PSpec => []RefusalExplained
<1>1. IInv => RefusalExplained
  BY DEF IInv, Good, Explained, RefusalExplained, Secret
<1>. QED BY <1>1, Invariant, PTL

\* On every route and in every order of requests, which answers are counted,
\* with what, which log lines they leave and in which shape they are told.
THEOREM Recorded == PSpec => []AnswersRecorded
<1>1. IInv => AnswersRecorded
  BY DEF IInv, Good, Counted, Told, AnswersRecorded
<1>. QED BY <1>1, Invariant, PTL
===============================================================================
