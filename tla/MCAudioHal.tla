----------------------------- MODULE MCAudioHal -----------------------------
(***************************************************************************)
(* Two threads; the output goes to the speaker, to HDMI or to SCO, the     *)
(* input comes from the microphone or from SCO.  The sizes of the buffers  *)
(* are scaled down to periods of 4 frames.                                 *)
(***************************************************************************)
EXTENDS AudioHal, TLC

MCRoutes == [s \in Streams |-> IF s = "out" THEN {{"speaker"}, {"hdmi"}, {"speaker", "sco"}}
                               ELSE {{"mic"}, {"sco"}}]
MCInRates == {44100}
MCKernelFrames == {0, 3, 4, 8}
MCGarbage == {-5}

Symmetry == Permutations(Threads)
=============================================================================
