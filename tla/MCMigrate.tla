------------------------------ MODULE MCMigrate ------------------------------
(* Migrate for TLC: the first four migrations of the repository.            *)
EXTENDS Migrate

CONSTANTS behind, current

(* Tables need the id function (1) and the enums (2); people (4) also the  *)
(* organizations of 3.  000001.up replaces its function; 000004.down       *)
(* alters teams, which must be there.                                      *)
FourFiles == <<{}, {}, {1, 2}, {1, 2, 3}>>
CreatesOrReplaces == {1}
DropsIfExists == {1, 2, 3}

(* One checkout is a migration behind the other. *)
TwoCheckouts == [o \in {behind, current} |-> IF o = behind THEN 3 ELSE 4]
OneCheckout == [o \in {current} |-> 4]

CommandLines ==
    {[name |-> "up", n |-> 0], [name |-> "version", n |-> 0]}
        \cup [name : {"down"}, n : {-2, 0, 1, 2}]
        \cup [name : {"force"}, n : {-1, 0, 1, 3}]
=============================================================================
