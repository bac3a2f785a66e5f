---------------------------- MODULE Configuration ----------------------------
(* internal/config: what Load makes of the environment and the .env files. *)
EXTENDS Naturals, Sequences, FiniteSets

CONSTANTS
    Length,           \* of the values a variable can have
    Parses,           \* values pgxpool.New accepts as a connection string
    MinJWTSecretLen   \* 32

(* os.Getenv after Load: the process environment comes first, then .env,   *)
(* ../.env and ../../.env.  godotenv never replaces a variable that is     *)
(* set, be it to "".                                                       *)
Getenv(sources, key) ==
    LET set == {i \in DOMAIN sources : key \in DOMAIN sources[i]}
    IN IF set = {} THEN ""
       ELSE sources[CHOOSE i \in set : \A j \in set : i <= j][key]

envOr(sources, key, fallback) ==
    IF Getenv(sources, key) # "" THEN Getenv(sources, key) ELSE fallback

Config(sources) ==
    [DatabaseURL |-> Getenv(sources, "DATABASE_URL"),
     JWTSecret |-> Getenv(sources, "JWT_SECRET"),
     Port |-> envOr(sources, "API_PORT", "8080")]

validate(cfg) ==
    /\ cfg.DatabaseURL # ""
    /\ cfg.JWTSecret # ""
    /\ Length[cfg.JWTSecret] >= MinJWTSecretLen
=============================================================================
