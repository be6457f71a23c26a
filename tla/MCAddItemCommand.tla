-------------------------- MODULE MCAddItemCommand --------------------------
(***************************************************************************)
(* Three items, a game master and a player. The game master asks for two   *)
(* suffixes and a number that no store knows, or for none; hooks roll two  *)
(* suffixes, one of them the same; the core hands items out with another.  *)
(***************************************************************************)
EXTENDS AddItemCommand

MCNumber == {-1001, -1002, -5000, 0}
MCKnown  == {-1001, -1002}
MCNatural == {0, 7}
MCRolled == {-1002, -1003}

\* Nothing, more than there can be, and what lies between.
MCCount == {-3, -2, 0, 2, 3}
=============================================================================
