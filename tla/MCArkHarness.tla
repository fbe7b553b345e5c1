--------------------------- MODULE MCArkHarness ---------------------------
(* One harness invocation per initial state, for every expectation mode.  *)
EXTENDS ArkHarness

MCFields == {"x"}
MCOutLines == {"o1", "o2"}
\* A 13-line license header followed by a body of at most one line.
MCExpectFiles ==
    { [k \in 1..13 |-> "license"] \o body : body \in BoundedSeq(MCOutLines, 1) }
\* Every list of at most two groups of at most two expected names.
MCExpectLists == BoundedSeq(ExpectedGroups, 2) \ {<<>>}
==========================================================================
