---------------------------- MODULE MCCarTopics ----------------------------
(***************************************************************************)
(* Small instance of CarTopics: one car, configured as the primary one or  *)
(* not. The verdict about a car depends on no other car's messages.        *)
(***************************************************************************)
EXTENDS CarTopics

CONSTANT c1

MCCars == {c1}

MCPrimaries == {c1, NoCar}
=============================================================================
