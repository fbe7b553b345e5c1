--------------------------- MODULE MCArkHarnesses ---------------------------
(* One harness invocation per initial state, for both variants and every  *)
(* expectation mode each knows.                                            *)
EXTENDS ArkHarnesses, SequencesExt

MCFields == {"x"}
MCOutLines == {"o1", "o2"}
\* A 13-line license header followed by a body of at most one line.
MCExpectFiles ==
    { [k \in 1..13 |-> "license"] \o body : body \in BoundedSeq(MCOutLines, 1) }
\* Every list of at most two groups of at most two expected names.
\* Script!ExpectedGroups for MaxGroup = 2, written out.
MCGroups == UNION {[1..n -> MCFields \cup {""}] : n \in 1..2}
MCExpectLists == UNION {[1..n -> MCGroups] : n \in 1..2}
==========================================================================
