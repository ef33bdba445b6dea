------------------------------ MODULE MCPipeline ------------------------------
(* Pipeline for TLC: an operator who sets a few variables in a few ways, in  *)
(* the shell, in .env, or in neither.                                        *)
EXTENDS Pipeline

Strings == {"development", "redis://localhost:6379", "dev-secret-change-me",
            "3000", "postgresql://app", "s3cret-of-ours", "short", "1"}

Refused == [v \in Schema |-> IF v = "JWT_SECRET" THEN {"short"} ELSE {}]

Settings(db, secrets, toggles) ==
  {[v \in Names |-> CASE v = "DATABASE_URL" -> d
                      [] v = "JWT_SECRET" -> s
                      [] v = "OTEL_ENABLED" -> t
                      [] OTHER -> Unset] : d \in db, s \in secrets, t \in toggles}

ShellsOfOps == Settings({Unset}, {Unset, "s3cret-of-ours"}, {Unset, "1"})
FilesOfOps == Settings({Unset}, {Unset}, {Unset})
              \union Settings({"postgresql://app"}, {Unset, "s3cret-of-ours", "short"}, {Unset})

===============================================================================
