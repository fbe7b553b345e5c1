-------------------------- MODULE MCLinkWrapper --------------------------
(* Link commands of up to four tokens: "-static", two different dynamic   *)
(* CRT paths, their static counterparts, and an object file.              *)
EXTENDS LinkWrapper

CONSTANTS static, dyn1, dyn2, stat1, stat2, obj
MCDynCrts == {dyn1, dyn2}
MCStaticOf == [t \in MCDynCrts |-> IF t = dyn1 THEN stat1 ELSE stat2]
MCOtherArgs == {obj}
==========================================================================
