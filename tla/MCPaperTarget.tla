---------------------------- MODULE MCPaperTarget ----------------------------
(* Instances of PaperTarget for TLC: a target of three actions. *)
EXTENDS PaperTarget, TLC

CONSTANTS x, y, z

ThreeActions == <<x, y, z>>
Tickers == {x, y, z}
TickerSides == Tickers \X Side
=============================================================================
