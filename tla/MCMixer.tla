------------------------------- MODULE MCMixer -------------------------------
(* The mixer with frames shorter and longer than a chunk.                   *)
EXTENDS Mixer

MCSizes == {1, 3}
==============================================================================
