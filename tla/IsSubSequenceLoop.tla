------------------------- MODULE IsSubSequenceLoop -------------------------
(***************************************************************************)
(* isSubSequence (src/script/run_ark_executable.py, lines 44-53) as a      *)
(* state machine, one step per iteration of its for loop, called with     *)
(* every actual and expected group within the bounds.  Its result is      *)
(* checked against the reference definition of an ordered subsequence.   *)
(***************************************************************************)
EXTENDS Integers, Sequences, GateTypeCompare

VARIABLES
    total,    \* the actual group (obj1)
    subList,  \* the expected group (obj2)
    i,        \* position of the for loop over total, 1-based
    idx,      \* number of names of subList matched so far
    returned, \* whether isSubSequence has returned
    result    \* the value it returned

loopVars == <<total, subList, i, idx, returned, result>>

TypeOK ==
    /\ total \in ActualGroups
    /\ subList \in ExpectedGroups
    /\ i \in 1..(MaxGroup + 1)
    /\ idx \in 0..MaxGroup
    /\ returned \in BOOLEAN
    /\ result \in BOOLEAN

\* Called with any actual and any expected group; idx = 0 (line 45).
LoopInit ==
    /\ total \in ActualGroups
    /\ subList \in ExpectedGroups
    /\ i = 1
    /\ idx = 0
    /\ returned = FALSE
    /\ result = FALSE

\* Lines 46-47: a lone empty name matches anything.
EmptyGroup ==
    /\ ~returned /\ i = 1
    /\ Len(subList) = 1 /\ subList[1] = ""
    /\ returned' = TRUE
    /\ result' = TRUE
    /\ UNCHANGED <<total, subList, i, idx>>

\* Mutant of LoopStep: a matched field also skips the next one.
LoopStepSkipAfterMatch ==
    /\ ~returned
    /\ ~(Len(subList) = 1 /\ subList[1] = "")
    /\ i <= Len(total)
    /\ idx # Len(subList)
    /\ idx' = IF total[i] = subList[idx + 1] THEN idx + 1 ELSE idx
    /\ i' = IF total[i] = subList[idx + 1] THEN i + 2 ELSE i + 1
    /\ UNCHANGED <<total, subList, returned, result>>

\* Lines 48-52: one iteration of the for loop, when it does not return.
LoopStep ==
    /\ ~returned
    /\ ~(Len(subList) = 1 /\ subList[1] = "")
    /\ i <= Len(total)
    /\ idx # Len(subList)
    /\ idx' = IF total[i] = subList[idx + 1] THEN idx + 1 ELSE idx
    /\ i' = i + 1
    /\ UNCHANGED <<total, subList, returned, result>>

\* Lines 49-50: every name matched before the loop ends.
ReturnEarly ==
    /\ ~returned
    /\ ~(Len(subList) = 1 /\ subList[1] = "")
    /\ i <= Len(total)
    /\ idx = Len(subList)
    /\ returned' = TRUE
    /\ result' = TRUE
    /\ UNCHANGED <<total, subList, i, idx>>

\* Line 53: the loop ran out of actual fields.
ReturnAtEnd ==
    /\ ~returned
    /\ ~(Len(subList) = 1 /\ subList[1] = "")
    /\ i > Len(total)
    /\ returned' = TRUE
    /\ result' = (idx = Len(subList))
    /\ UNCHANGED <<total, subList, i, idx>>

LoopNext == EmptyGroup \/ LoopStep \/ ReturnEarly \/ ReturnAtEnd

LoopSpec == LoopInit /\ [][LoopNext]_loopVars

\* The loop operator the harness uses agrees with the reference too.
OperatorIsOrderedSubsequence ==
    IsSubSequence(total, subList) = IsOrderedSubsequence(total, subList)

=============================================================================
