--------------------------- MODULE MCTraceContext ---------------------------
(***************************************************************************)
(* TraceContext on small instances.  With PartialFlushMinSpans = 2, three  *)
(* spans are enough for a partial flush with or without the root, and for  *)
(* a trace that starts again after all of its spans were handed over.      *)
(***************************************************************************)
EXTENDS TraceContext

CONSTANTS s1, s2, s3
=============================================================================
