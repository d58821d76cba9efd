---------------------------- MODULE MCExecFiles ----------------------------
(* Small instances of ExecFiles for TLC.                                   *)
EXTENDS ExecFiles

CONSTANTS c1, c2, rebuild, text, empty

TwoChans == {c1, c2}
=============================================================================
