---------------------------- MODULE MCDiscovery ----------------------------
(* TLC instances of Discovery: a ground station and a server board on one  *)
(* of two networks, or only the server board.                              *)
EXTENDS Discovery

CONSTANTS lan, wan

Host(id, party, net) == [id |-> id, party |-> party, net |-> net]
MCBoard == Host(4, "pico", lan)
MCHosts == {Host(1, "ground", lan), MCBoard}
MCLate == {Self}
MCNone == {}
MCBoards == {MCBoard}
=============================================================================
