--------------------------- MODULE TestArkHarness ---------------------------
(***************************************************************************)
(* judge_output of src/test/run_ark_executable.py, the older variant of    *)
(* the harness.  It starts the target the same way but pipes only stdout   *)
(* (stderr goes to the terminal), waits a fixed 300 s, kills and drains in *)
(* the same order, and knows only the exit-code and file modes.  The       *)
(* target and the steps both variants share are those of ArkHarness.       *)
(***************************************************************************)
EXTENDS Integers, Sequences

CONSTANTS
    Fields, MaxGroup, Modes, Codes, ExpectCodes, OutLines, ExpectFiles,
    ExpectLists, HeaderLines, TimeoutLimit, MaxWrites

VARIABLES
    mode, expect, pc, clock, child, childOut, childErr, childCode,
    out, err, returncode

vars == <<mode, expect, pc, clock, child, childOut, childErr, childCode,
          out, err, returncode>>

H == INSTANCE ArkHarness

\* Line 50: communicate returns stdout only; err is None.
CommunicateReturns ==
    /\ pc = "communicate" /\ child = "exited"
    /\ out' = childOut /\ returncode' = childCode
    /\ pc' = "judging"
    /\ UNCHANGED <<mode, expect, clock, child, childOut, childErr, childCode, err>>

\* Line 53: the second communicate after the kill.
Drain ==
    /\ pc = "draining" /\ H!PipesClosed
    /\ out' = childOut /\ returncode' = childCode
    /\ pc' = "judging"
    /\ UNCHANGED <<mode, expect, clock, child, childOut, childErr, childCode, err>>

\* Lines 47-53: Popen, communicate(timeout=300), kill() and the drain.
Run == H!Popen \/ CommunicateReturns \/ H!TimeoutExpires \/ H!Kill \/ Drain

\* Lines 55-60.
JudgeOutput ==
    /\ pc = "judging" /\ mode = "output"
    /\ H!Verdict(returncode = expect)
    /\ H!JudgeUnchanged

\* Mutant of JudgeFile: the license header is not skipped.
JudgeFileWholeFile ==
    /\ pc = "judging" /\ mode = "file"
    /\ H!Verdict(out = expect)
    /\ H!JudgeUnchanged

\* Lines 61-69: stdout must equal the file after its 13-line header.
JudgeFile ==
    /\ pc = "judging" /\ mode = "file"
    /\ H!Verdict(out = H!SkipHeader(expect))
    /\ H!JudgeUnchanged

\* Lines 70-71.
JudgeNoExpect ==
    /\ pc = "judging" /\ mode = "none"
    /\ H!Verdict(FALSE)
    /\ H!JudgeUnchanged

Judge == JudgeOutput \/ JudgeFile \/ JudgeNoExpect

Next == H!ChildStep \/ H!Tick \/ Run \/ Judge

=============================================================================
