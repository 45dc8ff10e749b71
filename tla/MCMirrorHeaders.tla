--------------------------- MODULE MCMirrorHeaders ---------------------------
(***************************************************************************)
(* MirrorHeaders for every value of up to four segments, of two tokens and *)
(* a text that is none.                                                    *)
(***************************************************************************)
EXTENDS MirrorHeaders

MCTokens == {"*", "true", "Origin", "ACRM", "ACRH", "x", "y", "bad x"}
===============================================================================
