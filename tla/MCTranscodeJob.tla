--------------------------- MODULE MCTranscodeJob ---------------------------
(* Small instances of TranscodeJob for TLC.                                *)
EXTENDS TranscodeJob

CONSTANTS j1, j2, w1, w2, r1, r2
=============================================================================
