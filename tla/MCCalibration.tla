--------------------------- MODULE MCCalibration ---------------------------
(* Two runs of the tool and two requests that may overlap.                   *)
EXTENDS Calibration, TLC

CONSTANTS t1, t2, h1, h2, legacy, default

MCSymmetry == Permutations({t1, t2}) \cup Permutations({h1, h2})
=============================================================================
