--------------------------- MODULE MCOutcomeLedger ---------------------------
(* Instances of OutcomeLedger for TLC. *)
EXTENDS OutcomeLedger, TLC

CONSTANTS sector, alpha, macro

\* The sector agent is due on day 1; alpha waits for events.
SectorDue == {<<sector, 1>>}
BothEvents == {{1, 2}}
OneEvent == {{1}}
AlphaOnly == {alpha}
SectorOnly == {sector}

\* Only a macro agent, due on day 1.
MacroDue == {<<macro, 1>>}
MacroOnly == {macro}
===============================================================================
