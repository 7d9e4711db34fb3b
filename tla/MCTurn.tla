------------------------------- MODULE MCTurn -------------------------------
(***************************************************************************)
(* Instances of Turn: one session that relays, and one of which one end    *)
(* only comes to register while it does.                                   *)
(***************************************************************************)
EXTENDS Turn

CONSTANTS p1, p2

MCRequests == [p \in Pairs |-> IF p = p1 THEN 4 ELSE 0]
MCComing == ({p1} \X Roles) \cup {<<p2, "seeder">>}
=============================================================================
