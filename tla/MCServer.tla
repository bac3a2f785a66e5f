------------------------------ MODULE MCServer ------------------------------
(* The process from four environments, with two requests and a pool of one. *)
EXTENDS Server, TLC

(* Secrets by name; the .env files of a developer, and of a deployment     *)
(* whose empty variable hides the secret of a .env.                        *)
Secrets == [i \in {"", "short", "long"} |->
              CASE i = "" -> 0 [] i = "short" -> 31 [] i = "long" -> 32]

Url == [DATABASE_URL |-> "postgres://"]
BadUrl == [DATABASE_URL |-> "nonsense"]
Secret(s) == [JWT_SECRET |-> s]
Unset == <<>>

SomeEnvironments ==
    {<<Url, Secret("long")>>,
     <<Url, Secret("short")>>,
     <<Secret(""), Url @@ Secret("long")>>,
     <<Secret("long"), BadUrl, Url>>}

SomeCalls ==
    {[method |-> "GET", path |-> "/healthz"],
     [method |-> "GET", path |-> "/employees"],
     [method |-> "POST", path |-> "/departments"],
     [method |-> "PUT", path |-> "/employees"],
     [method |-> "PREFLIGHT", path |-> "/employees"]}
=============================================================================
