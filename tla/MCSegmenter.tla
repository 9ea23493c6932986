----------------------------- MODULE MCSegmenter -----------------------------
(* The segmenter with the small constants the runs use.                     *)
EXTENDS Segmenter

MCIntervals == {1, 2}
==============================================================================
