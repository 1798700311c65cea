------------------------------- MODULE MCHost -------------------------------
(***************************************************************************)
(* Two daemons with a game each, in two scenarios.  The first piece of a   *)
(* document holds the scenario and the hero, the rest what he has.  Two    *)
(* documents may differ in either, so the beginning of one with the rest   *)
(* of another is the document of a third state.                            *)
(***************************************************************************)
EXTENDS Host

MCDoc == [poorC |-> <<"crypt hp 4", "gold 1">>,
          richC |-> <<"crypt hp 4", "gold 7", "sword">>,
          richT |-> <<"tower hp 9", "gold 7", "sword">>,
          poorT |-> <<"tower hp 9", "gold 1">>]
MCPieces == {"crypt hp 4", "tower hp 9", "gold 1", "gold 7", "sword"}
MCScenario == [poorC |-> "crypt", richC |-> "crypt", richT |-> "tower", poorT |-> "tower"]
MCEngineScenario == [g1 |-> "crypt", g2 |-> "tower"]
MCOwnerOf == [g1 |-> "d1", g2 |-> "d2"]
=============================================================================
