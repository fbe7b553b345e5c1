-------------------------- MODULE MCRspReformat --------------------------
(* Response files of up to six tokens over the two markers, two import   *)
(* libraries and one object file.                                            *)
EXTENDS RspReformat

CONSTANTS W, N, lib1, lib2, obj
MCImplibs == {lib1, lib2}
MCOtherArgs == {obj}
==========================================================================
