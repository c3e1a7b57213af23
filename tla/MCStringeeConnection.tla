------------------------ MODULE MCStringeeConnection ------------------------
(* Instances of StringeeConnection: two accounts, one whose token is renewed. *)
EXTENDS StringeeConnection

CONSTANTS a, b, ta1, ta2, tb

MCAccountOf == [t \in AccessTokens |-> IF t = tb THEN b ELSE a]
=============================================================================
