----------------------- MODULE MCIsSubSequenceLoop -----------------------
(* isSubSequence over every pair of groups of up to three fields drawn    *)
(* from two names and the empty string.                                    *)
EXTENDS IsSubSequenceLoop

MCFields == {"x", "y"}
==========================================================================
