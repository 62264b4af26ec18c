---------------------------- MODULE MCRecorder ----------------------------
(* Recorder for TLC, with a ring of four blocks instead of sixteen: enough  *)
(* for a block beside the one at rest, a slip and the wrap.                 *)
EXTENDS Recorder
===========================================================================
