--------------------------- MODULE MCEngineMode ---------------------------
(* EngineMode for TLC: the driver's own counts, and a race that spoils no   *)
(* more measurements in a row than engine_executing allows for.             *)
EXTENDS EngineMode
===========================================================================
