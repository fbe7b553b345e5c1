------------------------ MODULE MCConcurrentLinks ------------------------
(* Hosts with no reported memory, just under 8 GiB, exactly 8 GiB (the    *)
(* example of spec 8) and 16 GiB, in quarters of a GiB.                    *)
EXTENDS ConcurrentLinks
==========================================================================
