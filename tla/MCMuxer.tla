------------------------------- MODULE MCMuxer -------------------------------
(***************************************************************************)
(* Muxer for TLC: codec configs put together from every sequence of up to  *)
(* MCPieces start codes, parameter sets, zero and one-byte units.          *)
(***************************************************************************)
EXTENDS Muxer

CONSTANT MCPieces

MCPiece == {<<0, 0, 1>>, <<0, 0, 0, 1>>, <<0>>, <<66>>, <<64, 1>>, <<66, 1>>, <<68, 1>>}
MCConfigs == {FlattenSeq(s) : s \in UNION {[1..n -> MCPiece] : n \in 0..MCPieces}}

(* Two units, a picture with a zero inside, no start code.                 *)
MCAccessUnits == {<<0, 0, 0, 1, 2, 0, 0, 0, 1, 5>>, <<7, 0, 0>>}
MCTimes == {0, 1, 4, 5, 9, 10}
==============================================================================
