------------------------- MODULE MCProcessingInputs -------------------------
(* ProcessingInputs on small sets, for TLC: two values of each setting.    *)
EXTENDS ProcessingInputs

MCLimits == 1..2

MCNames == {"graph", "temporal"}
=============================================================================
