------------------------------ MODULE Bootstrap ------------------------------
(* One API process: what main.ts does from its first import to listening,  *)
(* who reads which environment variable at which moment, and how the       *)
(* process ends.  Shell is the environment the process is started with,    *)
(* file the .env next to it; both change only between two lives of the     *)
(* process, because each is read once in a life: an edit at any other time *)
(* is one before or after that reading.                                    *)
EXTENDS Naturals

CONSTANTS
  Values,     \* what variables can be set to
  Unset,      \* a variable that is not set
  Rejected,   \* for each variable of the schema, the values Zod refuses
  Shells,     \* environments operators start the process with
  Files,      \* .env files
  MaxBoots    \* bound: lives of the process

VARIABLES
  shell, file,
  env,        \* process.env
  phase,      \* how far it got
  term,       \* what became of the SIGTERM sent to it, if any
  used,       \* the value each reader got in this life
  boots       \* lives so far

bvars == <<shell, file, env, phase, term, used, boots>>

Schema == {"NODE_ENV", "DATABASE_URL", "REDIS_URL", "JWT_SECRET", "PORT"}
Names == Schema \union {"OTEL_ENABLED"}
Default == [NODE_ENV |-> "development", REDIS_URL |-> "redis://localhost:6379",
            JWT_SECRET |-> "dev-secret-change-me", PORT |-> "3000"]

\* Modules that read a variable while they are imported, and those that read
\* it when they are constructed or called.
Early == {"tracing", "JwtModule"}
Late == {"JwtStrategy", "PrismaService", "AppCacheModule", "JobsModule", "listen"}
Var == [tracing |-> "OTEL_ENABLED", JwtModule |-> "JWT_SECRET",
        JwtStrategy |-> "JWT_SECRET", PrismaService |-> "DATABASE_URL",
        AppCacheModule |-> "REDIS_URL", JobsModule |-> "REDIS_URL", listen |-> "PORT"]
Phases == {"off", "imported", "configured", "created", "connected", "up", "lingering"}

\* missed: it came before the shutdown hooks stood and did nothing; closing:
\* the hooks run; draining: the server answers what it accepted; over: the
\* shutdown is through and the process has not ended.
Terms == {"no", "missed", "closing", "draining", "over"}

ASSUME ValuesAssumption ==
  /\ Unset \notin Values
  /\ {Default[v] : v \in DOMAIN Default} \subseteq Values
ASSUME SchemaAssumption ==
  /\ Rejected \in [Schema -> SUBSET Values]
  /\ \A v \in DOMAIN Default : Default[v] \notin Rejected[v]
ASSUME OperatorsAssumption ==
  /\ Shells \subseteq [Names -> Values \union {Unset}]
  /\ Files \subseteq [Names -> Values \union {Unset}]

Unread == [r \in Early \union Late |-> Unset]

BInit ==
  /\ shell \in Shells /\ file \in Files
  /\ env = shell
  /\ phase = "off" /\ term = "no"
  /\ used = Unread
  /\ boots = 0

\* The operator, while the process is down.
Configure ==
  /\ phase = "off"
  /\ shell' \in Shells /\ file' \in Files
  /\ env' = shell'
  /\ UNCHANGED <<phase, term, used, boots>>

-----------------------------------------------------------------------------
OrDefault(e, v) == IF e[v] = Unset /\ v \in DOMAIN Default THEN Default[v] ELSE e[v]

\* Mutant: the "?? default" is left out.
ReadsBare(r) == env[Var[r]]

\* What a reader that is written "process.env.X ?? default" gets now.
Reads(r) == OrDefault(env, Var[r])

\* Importing main.ts: tracing.ts first, then app.module.ts and with it
\* auth.module.ts, whose decorator calls JwtModule.register.
ImportModules ==
  /\ phase = "off" /\ boots < MaxBoots
  /\ phase' = "imported"
  /\ used' = [r \in Early \union Late |-> IF r \in Early THEN Reads(r) ELSE Unset]
  /\ boots' = boots + 1
  /\ UNCHANGED <<shell, file, env, term>>

Exit ==
  /\ phase' = "off" /\ term' = "no"
  /\ env' = shell
  /\ UNCHANGED <<shell, file, used, boots>>

\* The file under the shell, and then the schema's defaults; process.env
\* gets what the schema knows and the shell has not set.
Merged == [v \in Names |-> IF shell[v] # Unset THEN shell[v] ELSE file[v]]
Parsed == [v \in Schema |-> OrDefault(Merged, v)]
Loaded == [v \in Names |-> IF shell[v] = Unset /\ v \in Schema THEN Parsed[v] ELSE shell[v]]
Accepted == \A v \in Schema : Parsed[v] # Unset /\ Parsed[v] \notin Rejected[v]

\* Mutants: nothing is validated; .env overrides the shell; the error of the
\* validation is swallowed.
LoadEnvUnchecked ==
  /\ phase = "imported"
  /\ phase' = "configured"
  /\ env' = Loaded
  /\ UNCHANGED <<shell, file, term, used, boots>>
LoadEnvOverrides ==
  /\ phase = "imported"
  /\ Accepted
  /\ phase' = "configured"
  /\ env' = [v \in Names |-> IF v \notin Schema THEN shell[v]
                             ELSE IF file[v] # Unset THEN file[v] ELSE Parsed[v]]
  /\ UNCHANGED <<shell, file, term, used, boots>>
RefuseEnvSilently == phase = "imported" /\ ~Accepted /\ UNCHANGED bvars

\* The decorator of AppModule runs after its imports: ConfigModule.forRoot.
LoadEnv ==
  /\ phase = "imported"
  /\ Accepted
  /\ phase' = "configured"
  /\ env' = Loaded
  /\ UNCHANGED <<shell, file, term, used, boots>>

RefuseEnv == phase = "imported" /\ ~Accepted /\ Exit

\* NestFactory.create constructs every provider; shutdown hooks, CORS,
\* versioning and pipes follow without an await.
Create ==
  /\ phase = "configured"
  /\ phase' = "created"
  /\ used' = [r \in Early \union Late |-> IF r \in Late THEN Reads(r) ELSE used[r]]
  /\ UNCHANGED <<shell, file, env, term, boots>>

Become(p, t) == phase' = p /\ term' = t /\ UNCHANGED <<shell, file, env, used, boots>>

\* app.listen: onModuleInit connects Prisma, then the port is bound.
\* A shutdown under way does not stop it.
Connect == phase = "created" /\ Become("connected", term)
Listen == phase = "connected" /\ Become("up", term)

\* No database, or a port in use: bootstrap() rejects.
BootFails == phase \in {"created", "connected"} /\ Exit

-----------------------------------------------------------------------------
\* tracing.ts has put a handler of its own in the place of the default one.
HandlerOfTracing == used["tracing"] = "1"

\* SIGTERM before the shutdown hooks stand kills the process, unless that
\* handler is there: then nothing ends.
BeforeHooks == phase \in {"imported", "configured"}
Killed == BeforeHooks /\ ~HandlerOfTracing /\ Exit
Swallowed == BeforeHooks /\ HandlerOfTracing /\ Become(phase, "missed")

\* With the hooks: onModuleDestroy disconnects Prisma, while the server, or
\* the boot, goes on.
Terminate ==
  /\ phase \in {"created", "connected", "up"} /\ term \in {"no", "missed"}
  /\ Become(phase, "closing")

\* Mutant: main.ts calls app.close() by hand, and no signal is sent again.
ResentNever == Become(IF phase = "up" THEN "lingering" ELSE phase, "over")

\* After the hooks Nest takes its listeners off and sends the process the
\* signal again.  Where tracing.ts listens still, nothing ends: the Redis
\* connection of jobs.module.ts, which nobody closes, keeps the process
\* alive without a server, and a boot that was under way goes on to listen.
Resent ==
  IF HandlerOfTracing
  THEN Become(IF phase = "up" THEN "lingering" ELSE phase, "over")
  ELSE Exit

\* The hooks are through: the server stops accepting, if it listens.
CloseServer ==
  /\ term = "closing"
  /\ IF phase = "up" THEN Become("up", "draining") ELSE Resent

Drained == term = "draining" /\ Resent

\* The process is killed, or fails, at any moment.
Crash == phase # "off" /\ Exit

Booting == ImportModules \/ LoadEnv \/ RefuseEnv \/ Create \/ Connect \/ Listen \/ BootFails
Ending == Killed \/ Swallowed \/ Terminate \/ CloseServer

-----------------------------------------------------------------------------
BTypeOK ==
  /\ shell \in Shells /\ file \in Files
  /\ env \in [Names -> Values \union {Unset}]
  /\ phase \in Phases /\ term \in Terms
  /\ used \in [Early \union Late -> Values \union {Unset}]
  /\ boots \in Nat

Constructed == phase \in Phases \ {"off", "imported", "configured"}

\* A process that got as far as its providers runs with what the operator
\* configured, shell over .env over default, and with nothing the schema
\* refuses: no reader that comes late sees an unset or a half-loaded value.
UpMeansConfigured ==
  Constructed => /\ Accepted
                 /\ \A r \in Late : used[r] = Parsed[Var[r]]

\* Tokens are signed and verified with one secret, unless the secret stands
\* in .env alone: JwtModule has then read the default before the file.
KeysAgree ==
  Constructed /\ used["JwtModule"] # used["JwtStrategy"] =>
    /\ shell["JWT_SECRET"] = Unset
    /\ file["JWT_SECRET"] \notin {Unset, Default["JWT_SECRET"]}
    /\ used["JwtModule"] = Default["JWT_SECRET"]

\* A boot that has begun comes to an end, whatever signals arrive during it:
\* the process listens or is gone.
BootSettles ==
  phase \in {"imported", "configured", "created", "connected"} ~> phase \in {"up", "off"}
==============================================================================
