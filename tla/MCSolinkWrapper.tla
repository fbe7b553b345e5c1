------------------------- MODULE MCSolinkWrapper -------------------------
(* Two exported surfaces and two implementations, so that a change may    *)
(* alter the surface, only the implementation, or both.  Response files   *)
(* over the two markers, two import libraries and one object file.        *)
EXTENDS SolinkWrapper

CONSTANTS s1, s2, i1, i2, W, N, lib1, lib2, obj
MCSurfaces == {s1, s2}
MCImpls == {i1, i2}
MCImplibs == {lib1, lib2}
MCOtherArgs == {obj}
\* The rule's response file: with no section, with a section holding an
\* import library between two other tokens, and with one holding both
\* libraries, whose order must be kept.
MCRspContents == {<<lib1, obj>>, <<W, obj, lib1, obj, N, lib2>>, <<W, lib2, lib1, N>>}
==========================================================================
