---------------------------- MODULE Configuration ----------------------------
(***************************************************************************)
(* packages/config: the environment loaders of the processes and of the    *)
(* capabilities.  A loader reads its keys in a fixed order, throws a       *)
(* ConfigurationError that names the first one it refuses, and returns     *)
(* nothing unless all of them pass.  A raw value is a representative of    *)
(* what its parser tells apart.                                            *)
(*                                                                         *)
(* The behaviour is that of an operator who edits the variables a process  *)
(* reads, starts it, and repairs whatever the error names.                 *)
(***************************************************************************)
EXTENDS Naturals, Sequences, FiniteSets, SequencesExt

CONSTANTS MaxEdits    \* bound on the variables that differ from a good set

VARIABLES source,    \* the environment variables
          target,    \* the environment the operator means to run
          process,   \* the loader of the process that is to run
          started    \* editing is over

vars == <<source, target, process, started>>

\* The parser of every key.
KindOf ==
    [APP_ENVIRONMENT |-> "environment", LOG_LEVEL |-> "logLevel", API_HOST |-> "host",
     API_PORT |-> "port", CORS_ORIGIN |-> "origins", DATABASE_URL |-> "databaseUrl",
     REDIS_URL |-> "redisUrl", JWT_ACCESS_SECRET |-> "jwtSecret",
     JWT_REFRESH_SECRET |-> "jwtSecret", ENCRYPTION_KEY |-> "secret",
     S3_BUCKET |-> "bucket", S3_REGION |-> "bucket", S3_ENDPOINT |-> "publicUrl",
     S3_ACCESS_KEY |-> "secret", S3_SECRET_KEY |-> "secret", SMTP_HOST |-> "host",
     SMTP_PORT |-> "port", SMTP_SECURE |-> "boolean", SMTP_USER |-> "text",
     SMTP_PASSWORD |-> "secret", SMTP_FROM |-> "email",
     VITE_APP_ENVIRONMENT |-> "environment", VITE_API_URL |-> "publicUrl",
     EXPO_PUBLIC_APP_ENVIRONMENT |-> "environment", EXPO_PUBLIC_API_URL |-> "publicUrl"]
Keys == DOMAIN KindOf

\* Besides these, any key may be absent or blank.
ValuesOf ==
    [environment |-> {"DEV", "PROD", "unknown"},
     logLevel |-> {"good", "unknown"}, boolean |-> {"good", "yes"}, text |-> {"good"},
     email |-> {"good", "noDomain"},
     host |-> {"good", "withPath", "emptyLabel"},
     port |-> {"good", "zero", "65536", "fraction"},
     origins |-> {"good", "emptyItem", "withPath"},
     databaseUrl |-> {"good", "wrongScheme", "noDatabase", "unsafe", "unsafeEncoded", "badEncoding"},
     redisUrl |-> {"good", "wrongScheme", "withQuery", "unsafe", "unsafeEncoded", "badEncoding"},
     publicUrl |-> {"good", "wrongScheme", "withCredentials"},
     bucket |-> {"good", "badName"},
     secret |-> {"good", "padded", "unsafe"},
     jwtSecret |-> {"good", "another", "short", "padded", "unsafe"}]

Values(k) == ValuesOf[KindOf[k]] \cup {"absent", "blank"}

Good(k, environment) ==
    CASE KindOf[k] = "environment" -> environment
      [] k = "JWT_REFRESH_SECRET" -> "another"
      [] OTHER -> "good"

-----------------------------------------------------------------------------
(* The parsers: what each does with a value, where prod is whether the     *)
(* loader runs for PROD.                                                   *)

Given(v) == v \notin {"absent", "blank"}

Only(v, refused) == IF v \in refused THEN "INVALID" ELSE "ok"

Required(v, outcome) == IF Given(v) THEN outcome ELSE "MISSING"

WithNonProductionDefault(v, prod, outcome) ==
    IF Given(v) THEN outcome ELSE IF prod THEN "MISSING" ELSE "ok"

\* The password of a URL is compared after decodeURIComponent, which may fail.
UrlPassword(v, prod) ==
    CASE prod /\ v \in {"unsafe", "unsafeEncoded"} -> "INSECURE"
      [] prod /\ v = "badEncoding" -> "INVALID"
      [] OTHER -> "ok"

DatabaseUrl(v, prod) ==
    IF v \in {"wrongScheme", "noDatabase"} THEN "INVALID" ELSE UrlPassword(v, prod)
RedisUrl(v, prod) ==
    IF v \in {"wrongScheme", "withQuery"} THEN "INVALID" ELSE UrlPassword(v, prod)

Secret(v, prod) ==
    CASE v = "padded" -> "INVALID" [] prod /\ v = "unsafe" -> "INSECURE" [] OTHER -> "ok"
JwtHmacSecret(v, prod) == IF v = "short" THEN "INVALID" ELSE Secret(v, prod)

Host(v) == Only(v, {"withPath", "emptyLabel"})
Port(v) == Only(v, {"zero", "65536", "fraction"})

\* Three keys of the API and the worker have a default outside PROD.
HasDefault == {"API_HOST", "API_PORT", "LOG_LEVEL"}

Parse(k, v, prod) ==
    LET kind == KindOf[k]
        outcome ==
            CASE kind = "environment" -> Only(v, {"unknown"})
              [] kind = "logLevel" -> Only(v, {"unknown"})
              [] kind = "boolean" -> Only(v, {"yes"})
              [] kind = "email" -> Only(v, {"noDomain"})
              [] kind = "bucket" -> Only(v, {"badName"})
              [] kind = "host" -> Host(v)
              [] kind = "port" -> Port(v)
              [] kind = "origins" -> Only(v, {"emptyItem", "withPath"})
              [] kind = "publicUrl" -> Only(v, {"wrongScheme", "withCredentials"})
              [] kind = "databaseUrl" -> DatabaseUrl(v, prod)
              [] kind = "redisUrl" -> RedisUrl(v, prod)
              [] kind = "secret" -> Secret(v, prod)
              [] kind = "jwtSecret" -> JwtHmacSecret(v, prod)
              [] OTHER -> "ok"
    IN IF k \in HasDefault THEN WithNonProductionDefault(v, prod, outcome)
                           ELSE Required(v, outcome)

-----------------------------------------------------------------------------
(* The loaders: the keys of each in the order it reads them *)

ManagerApi ==
    <<"APP_ENVIRONMENT", "API_HOST", "API_PORT", "CORS_ORIGIN", "DATABASE_URL",
      "JWT_ACCESS_SECRET", "JWT_REFRESH_SECRET", "REDIS_URL", "LOG_LEVEL">>
Worker == <<"APP_ENVIRONMENT", "REDIS_URL", "LOG_LEVEL">>
Web == <<"VITE_APP_ENVIRONMENT", "VITE_API_URL">>
Mobile == <<"EXPO_PUBLIC_APP_ENVIRONMENT", "EXPO_PUBLIC_API_URL">>
Database == <<"APP_ENVIRONMENT", "DATABASE_URL">>
Redis == <<"APP_ENVIRONMENT", "REDIS_URL">>
Jwt == <<"APP_ENVIRONMENT", "JWT_ACCESS_SECRET", "JWT_REFRESH_SECRET">>
Encryption == <<"APP_ENVIRONMENT", "ENCRYPTION_KEY">>
S3 == <<"APP_ENVIRONMENT", "S3_BUCKET", "S3_REGION", "S3_ENDPOINT", "S3_ACCESS_KEY",
        "S3_SECRET_KEY">>
Smtp == <<"APP_ENVIRONMENT", "SMTP_HOST", "SMTP_PORT", "SMTP_SECURE", "SMTP_USER",
          "SMTP_PASSWORD", "SMTP_FROM">>

Loaders == {ManagerApi, Worker, Web, Mobile, Database, Redis, Jwt, Encryption, S3, Smtp}

Production(loader) == source[loader[1]] = "PROD"
Outcome(loader, k) == Parse(k, source[k], Production(loader))

\* The two JWT secrets are compared last, by the loaders that read both.
Secrets == {"JWT_ACCESS_SECRET", "JWT_REFRESH_SECRET"}
SecretsClashUnnoticed(loader) == loader = Jwt /\ source["JWT_ACCESS_SECRET"] = source["JWT_REFRESH_SECRET"]    \* Slip: the API forgot it
SecretsClash(loader) ==
    Secrets \subseteq Range(loader) /\ source["JWT_ACCESS_SECRET"] = source["JWT_REFRESH_SECRET"]

\* The keys of the ConfigurationError, none if there is no error.
FirstRefused(loader) == SelectInSeq(loader, LAMBDA k : Outcome(loader, k) # "ok")
ErrorKeysShifted(loader) ==    \* Slip: a key is reported under the name of its neighbour
    LET i == FirstRefused(loader)
    IN IF i > 0 THEN {loader[IF i > 1 THEN i - 1 ELSE 1]}
       ELSE IF SecretsClash(loader) THEN Secrets ELSE {}
ErrorKeys(loader) ==
    LET i == FirstRefused(loader)
    IN IF i > 0 THEN {loader[i]} ELSE IF SecretsClash(loader) THEN Secrets ELSE {}

Accepts(loader) == FirstRefused(loader) = 0 /\ ~SecretsClash(loader)

-----------------------------------------------------------------------------

Init ==
    /\ target \in {"DEV", "PROD"} /\ process \in Loaders /\ started = FALSE
    /\ source = [k \in Keys |-> Good(k, target)]

Edited == {k \in Range(process) : source[k] # Good(k, target)}

Edit(k, v) ==
    /\ ~started /\ Cardinality(Edited \cup {k}) <= MaxEdits
    /\ source' = [source EXCEPT ![k] = v]
    /\ UNCHANGED <<target, process, started>>

Start ==
    /\ ~started /\ started' = TRUE
    /\ UNCHANGED <<source, target, process>>

\* The operator repairs the keys the error names and starts again.
Repair ==
    /\ started
    /\ \E wrong \in {ErrorKeys(process)} :
         /\ wrong # {}
         /\ source' = [k \in Keys |-> IF k \in wrong THEN Good(k, target) ELSE source[k]]
    /\ UNCHANGED <<target, process, started>>

Next ==
    \/ \E k \in Range(process) : \E v \in Values(k) : Edit(k, v)
    \/ Start
    \/ Repair

Fairness == WF_vars(Repair)

Spec == Init /\ [][Next]_vars /\ Fairness

-----------------------------------------------------------------------------
(* Properties *)

\* A process that runs for PROD was given every variable it uses, none of them
\* a placeholder, neither in a secret nor, however encoded, in a URL.
ProductionIsExplicit ==
    Accepts(process) /\ Production(process) =>
        \A k \in Range(process) :
            Given(source[k]) /\ source[k] \notin {"unsafe", "unsafeEncoded"}

\* No process signs access and refresh tokens with the same secret, not even
\* with one that differs in surrounding white space only.
SecretsDiffer ==
    Secrets \subseteq Range(process) /\ Accepts(process) =>
        /\ source["JWT_ACCESS_SECRET"] # source["JWT_REFRESH_SECRET"]
        /\ "padded" \notin {source[k] : k \in Secrets}

\* The loaders of one deployment agree: variables that the API runs with are
\* not refused by the worker, nor by the scripts for database, Redis and JWT.
LoadersAgree ==
    process = ManagerApi /\ Accepts(ManagerApi) =>
        \A loader \in {Worker, Database, Redis, Jwt} : Accepts(loader)

\* Repairing what the error names, one start after the other, gets any process
\* running: no error sends the operator to a variable that is not at fault.
RepairsEnd == started ~> started /\ Accepts(process)
=============================================================================
