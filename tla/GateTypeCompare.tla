-------------------------- MODULE GateTypeCompare --------------------------
(***************************************************************************)
(* The gate-type comparison of src/script/run_ark_executable.py:           *)
(* isSubSequence(total, subList) and the way judge_output pairs the        *)
(* "TestInfer:" lines of the target's stderr with the groups of the        *)
(* expectation file.                                                       *)
(*                                                                         *)
(* A field or expected name is a model value (or "", the empty string the  *)
(* splits produce between adjacent delimiters); a group is a sequence of   *)
(* them.  IsSubSequence is the operator the harness module uses;            *)
(* IsSubSequenceLoop runs the same loop one iteration per step.           *)
(***************************************************************************)
EXTENDS Integers, Sequences, SequencesExt

CONSTANTS
    Fields,     \* names that may appear in an inferred-type line
    MaxGroup    \* longest group (actual or expected) enumerated

\* The strings a field can be: a name, or "" between adjacent delimiters.
FieldValues == Fields \cup {""}

\* item.split("&")[1:] may be empty; elements.split(",") never is.
ActualGroups == BoundedSeq(FieldValues, MaxGroup)
ExpectedGroups == ActualGroups \ {<<>>}

\* Mutant of IsSubSequence: any one-name group is taken as matched.
IsSubSequenceAnySingleName(total, subList) ==
    LET RECURSIVE Loop(_, _)
        Loop(i, idx) ==
            IF i > Len(total) THEN idx = Len(subList)
            ELSE IF idx = Len(subList) THEN TRUE
            ELSE Loop(i + 1, IF total[i] = subList[idx + 1] THEN idx + 1 ELSE idx)
    IN  \/ Len(subList) = 1
        \/ Loop(1, 0)

(***************************************************************************)
(* isSubSequence, lines 44-53.  Python's 0-based subList[idx] is           *)
(* subList[idx + 1] here.                                                  *)
(***************************************************************************)
IsSubSequence(total, subList) ==
    LET RECURSIVE Loop(_, _)
        Loop(i, idx) ==
            IF i > Len(total) THEN idx = Len(subList)
            ELSE IF idx = Len(subList) THEN TRUE
            ELSE Loop(i + 1, IF total[i] = subList[idx + 1] THEN idx + 1 ELSE idx)
    IN  \/ Len(subList) = 1 /\ subList[1] = ""
        \/ Loop(1, 0)

(***************************************************************************)
(* The stderr lines judge_output keeps, lines 111-114: every line that    *)
(* contains "TestInfer:" contributes the fields after its first "&".  A   *)
(* line is a record whose infer flag says whether it contains the marker   *)
(* and whose fields are item.split("&")[1:].                               *)
(***************************************************************************)
ErrList(err) ==
    LET inferLines == SelectSeq(err, LAMBDA l : l.infer)
    IN  [i \in DOMAIN inferLines |-> inferLines[i].fields]

(***************************************************************************)
(* The loop of lines 117-123: zip stops at the shorter list, and the first *)
(* pair that is not a subsequence raises.                                  *)
(***************************************************************************)
GateTypePasses(errList, expectList) ==
    LET pairs == Zip(errList, expectList)
    IN  \A i \in DOMAIN pairs : IsSubSequence(pairs[i][1], pairs[i][2])

(***************************************************************************)
(* Reference: an expected group is matched when its names occur in the     *)
(* actual group in the same order, not necessarily adjacent.  A group that *)
(* is the empty string alone (an empty line between "----" separators)     *)
(* names nothing and is always matched.                                    *)
(***************************************************************************)
Names(g) == IF g = <<"">> THEN <<>> ELSE g

IsOrderedSubsequence(total, sub) ==
    LET n == Names(sub)
    IN  \E pos \in [1..Len(n) -> 1..Len(total)] :
            /\ \A k \in 1..Len(n) : total[pos[k]] = n[k]
            /\ \A k \in 1..(Len(n) - 1) : pos[k] < pos[k + 1]

=============================================================================
