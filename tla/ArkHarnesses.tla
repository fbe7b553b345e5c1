---------------------------- MODULE ArkHarnesses ----------------------------
(***************************************************************************)
(* The two harness variants side by side: a run of the tests uses either   *)
(* src/script/run_ark_executable.py or src/test/run_ark_executable.py,     *)
(* chosen in the initial state, on the same kind of target.  Both are      *)
(* checked against the one abstract harness of spec 4.6 under the same     *)
(* refinement mapping.                                                     *)
(***************************************************************************)
EXTENDS Integers, Sequences

CONSTANTS
    Fields, MaxGroup, Modes, TestModes, Codes, ExpectCodes, OutLines,
    ExpectFiles, ExpectLists, HeaderLines, TimeoutLimit, MaxWrites

VARIABLES
    variant,    \* "script" or "test": which harness runs
    mode, expect, pc, clock, child, childOut, childErr, childCode,
    out, err, returncode

harnessVars == <<mode, expect, pc, clock, child, childOut, childErr, childCode,
                 out, err, returncode>>
allVars == <<variant, harnessVars>>

Script == INSTANCE ArkHarness
Test == INSTANCE TestArkHarness

TypeOK == variant \in {"script", "test"} /\ Script!TypeOK

\* The test variant knows only TestModes.
Init ==
    /\ variant \in {"script", "test"}
    /\ Script!Init
    /\ variant = "test" => mode \in TestModes

Next ==
    /\ \/ variant = "script" /\ Script!Next
       \/ variant = "test" /\ Test!Next
    /\ UNCHANGED variant

\* A step of one variant's harness; the variant never changes.
Step(v, A) == variant = v /\ A /\ UNCHANGED variant

\* Each harness is one sequential Python process whose timeout always
\* fires; the target is given no fairness.
Spec ==
    /\ Init /\ [][Next]_allVars
    /\ WF_allVars(Step(variant, Script!Tick))
    /\ WF_allVars(Step("script", Script!Popen \/ Script!CommunicateReturns
                                 \/ Script!TimeoutExpires \/ Script!Kill \/ Script!Drain))
    /\ WF_allVars(Step("script", Script!Judge))
    /\ WF_allVars(Step("test", Test!Run))
    /\ WF_allVars(Step("test", Test!Judge))

Abstract == INSTANCE HarnessAbstract
    WITH ErrLineSet <- Script!ErrLines, Killed <- Script!KilledCode,
         Unset <- Script!NotWaited, phase <- Script!AbsPhase,
         out <- childOut, err <- childErr, code <- childCode

\* Both judge_output functions implement the harness of spec 4.6: however
\* the target's exit, the timeout, kill() and the second communicate()
\* interleave, the verdict is the selected mode's expectation of everything
\* the target wrote and of the status it ended with, and it is always
\* reached, even when the target would never exit on its own.
HarnessesRefineAbstract == Abstract!AbsSpec

=============================================================================
