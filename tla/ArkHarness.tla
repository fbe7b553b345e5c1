----------------------------- MODULE ArkHarness -----------------------------
(***************************************************************************)
(* judge_output of src/script/run_ark_executable.py: the test harness that *)
(* starts the target (shell=True, stdout and stderr piped), waits for it   *)
(* with a timeout, kills and drains it on expiry, and then judges the      *)
(* collected output under the first expectation mode given on the command *)
(* line.                                                                   *)
(*                                                                         *)
(* The target runs concurrently with the harness: it writes lines to its   *)
(* two pipes, and exits, or hangs until it is killed.  Time is a counter   *)
(* that advances while the harness waits in communicate(timeout).          *)
(***************************************************************************)
EXTENDS Integers, Sequences, SequencesExt, GateTypeCompare

CONSTANTS
    Modes,          \* expectation modes a harness invocation may be given
    Codes,          \* exit codes the target may return on its own
    ExpectCodes,    \* values of --expect-output
    OutLines,       \* lines the target may write to stdout
    ExpectFiles,    \* contents of --expect-file, license header included
    ExpectLists,    \* --expect-gatetype files, as the list of groups they parse to
    HeaderLines,    \* license header lines skipped in expectation files (13)
    TimeoutLimit,   \* --timeout-limit, in clock ticks
    MaxWrites       \* bound on the lines the target writes

\* Python reports a child killed by SIGKILL with returncode -9.
KilledCode == -9
\* subp.returncode before the child is waited for (None in Python).
NotWaited == 256

ASSUME KilledCode \notin Codes

(***************************************************************************)
(* A stderr line: whether it contains "TestInfer:", whether it contains    *)
(* the --expect-sub-output string, and item.split("&")[1:].                *)
(***************************************************************************)
ErrLines ==
    [infer : {FALSE}, sub : BOOLEAN, fields : {<<>>}]
        \cup [infer : {TRUE}, sub : {FALSE}, fields : ActualGroups]

\* file.readlines()[13:]
SkipHeader(file) == SubSeq(file, HeaderLines + 1, Len(file))

\* The expectations each mode may be given with.
ExpectFor(m) ==
    CASE m = "output"     -> ExpectCodes
      [] m = "sub_output" -> {"sub"}
      [] m = "file"       -> ExpectFiles
      [] m = "gatetype"   -> ExpectLists
      [] m = "none"       -> {"none"}

VARIABLES
    mode, expect,           \* the parsed arguments
    pc,                     \* where judge_output is
    clock,                  \* ticks spent in communicate(timeout)
    child,                  \* "none", "running", "exited", "killed" or "orphaned"
    childOut, childErr,     \* what the target has written to its pipes
    childCode,              \* its exit status
    out, err, returncode    \* what communicate() handed back, subp.returncode

vars == <<mode, expect, pc, clock, child, childOut, childErr, childCode,
          out, err, returncode>>

Done == {"success", "raised"}

TypeOK ==
    /\ mode \in Modes
    /\ expect \in ExpectFor(mode)
    /\ pc \in {"start", "communicate", "timedout", "draining", "judging"} \cup Done
    /\ clock \in 0..TimeoutLimit
    /\ child \in {"none", "running", "exited", "killed", "orphaned"}
    /\ childOut \in Seq(OutLines) /\ childErr \in Seq(ErrLines)
    /\ Len(childOut) + Len(childErr) <= MaxWrites
    /\ childCode \in Codes \cup {KilledCode, NotWaited}
    /\ out \in Seq(OutLines) /\ err \in Seq(ErrLines)
    /\ returncode \in Codes \cup {KilledCode, NotWaited}

Init ==
    /\ mode \in Modes
    /\ expect \in ExpectFor(mode)
    /\ pc = "start"
    /\ clock = 0
    /\ child = "none"
    /\ childOut = <<>> /\ childErr = <<>>
    /\ childCode = NotWaited
    /\ out = <<>> /\ err = <<>>
    /\ returncode = NotWaited

-----------------------------------------------------------------------------
(* The target process.  "orphaned": the process Popen started was killed, *)
(* but a process it had forked (the command under /bin/sh -c, or a program *)
(* a --script-file runs) still holds the write ends of both pipes.        *)

\* The pipes are closed: every process that held them has ended.
PipesClosed == child \in {"exited", "killed"}

ChildWriteOut(l) ==
    /\ child \in {"running", "orphaned"}
    /\ Len(childOut) + Len(childErr) < MaxWrites
    /\ childOut' = Append(childOut, l)
    /\ UNCHANGED <<mode, expect, pc, clock, child, childErr, childCode,
                   out, err, returncode>>

ChildWriteErr(l) ==
    /\ child \in {"running", "orphaned"}
    /\ Len(childOut) + Len(childErr) < MaxWrites
    /\ childErr' = Append(childErr, l)
    /\ UNCHANGED <<mode, expect, pc, clock, child, childOut, childCode,
                   out, err, returncode>>

ChildExit(c) ==
    /\ child = "running"
    /\ child' = "exited"
    /\ childCode' = c
    /\ UNCHANGED <<mode, expect, pc, clock, childOut, childErr,
                   out, err, returncode>>

\* The forked process ends, closing the pipes; the status communicate()
\* reports stays that of the killed process.
OrphanExit ==
    /\ child = "orphaned"
    /\ child' = "killed"
    /\ UNCHANGED <<mode, expect, pc, clock, childOut, childErr, childCode,
                   out, err, returncode>>

\* Time passes while the harness blocks in communicate(timeout=...).
Tick ==
    /\ pc = "communicate" /\ child = "running"
    /\ clock < TimeoutLimit
    /\ clock' = clock + 1
    /\ UNCHANGED <<mode, expect, pc, child, childOut, childErr, childCode,
                   out, err, returncode>>

-----------------------------------------------------------------------------
(* The harness, lines 57-128.                                              *)

\* Lines 57-68: build the command and start it.
Popen ==
    /\ pc = "start"
    /\ pc' = "communicate"
    /\ child' = "running"
    /\ UNCHANGED <<mode, expect, clock, childOut, childErr, childCode,
                   out, err, returncode>>

\* Line 70: communicate returns once the child has exited and closed its pipes.
CommunicateReturns ==
    /\ pc = "communicate"
    /\ child = "exited"
    /\ out' = childOut /\ err' = childErr
    /\ returncode' = childCode
    /\ pc' = "judging"
    /\ UNCHANGED <<mode, expect, clock, child, childOut, childErr, childCode>>

\* Lines 70-71: the timeout expires with the child still running.
TimeoutExpires ==
    /\ pc = "communicate"
    /\ child = "running"
    /\ clock = TimeoutLimit
    /\ pc' = "timedout"
    /\ UNCHANGED <<mode, expect, clock, child, childOut, childErr, childCode,
                   out, err, returncode>>

\* Mutant of Kill: terminate() instead of kill(), the status is -SIGTERM.
KillByTerminate ==
    /\ pc = "timedout"
    /\ IF child = "running"
          THEN /\ child' = "killed"
               /\ childCode' = -15
          ELSE UNCHANGED <<child, childCode>>
    /\ pc' = "draining"
    /\ UNCHANGED <<mode, expect, clock, childOut, childErr, out, err, returncode>>

\* Line 72: subp.kill().  Popen.send_signal polls first, so a child that
\* exited after the timeout fired keeps its own exit status.
Kill ==
    /\ pc = "timedout"
    /\ IF child = "running"
          THEN /\ child' = "killed"
               /\ childCode' = KilledCode
          ELSE UNCHANGED <<child, childCode>>
    /\ pc' = "draining"
    /\ UNCHANGED <<mode, expect, clock, childOut, childErr, out, err, returncode>>

\* Line 72 when the process Popen started had forked the target: kill()
\* ends that process only, and the target keeps running with the pipes.
KillStartedProcessOnly ==
    /\ pc = "timedout" /\ child = "running"
    /\ child' = "orphaned" /\ childCode' = KilledCode
    /\ pc' = "draining"
    /\ UNCHANGED <<mode, expect, clock, childOut, childErr, out, err, returncode>>

\* Mutant of Drain: the output read before the timeout is dropped.
DrainLosingOutput ==
    /\ pc = "draining"
    /\ PipesClosed
    /\ out' = <<>> /\ err' = <<>>
    /\ returncode' = childCode
    /\ pc' = "judging"
    /\ UNCHANGED <<mode, expect, clock, child, childOut, childErr, childCode>>

\* Line 73: the second communicate() returns everything the child wrote,
\* the part read before the timeout included.
Drain ==
    /\ pc = "draining"
    /\ PipesClosed
    /\ out' = childOut /\ err' = childErr
    /\ returncode' = childCode
    /\ pc' = "judging"
    /\ UNCHANGED <<mode, expect, clock, child, childOut, childErr, childCode>>

Verdict(ok) == pc' = IF ok THEN "success" ELSE "raised"

JudgeUnchanged == UNCHANGED <<mode, expect, clock, child, childOut, childErr,
                              childCode, out, err, returncode>>

\* Lines 75-84: str(subp.returncode) != args.expect_output.
JudgeOutput ==
    /\ pc = "judging" /\ mode = "output"
    /\ Verdict(returncode = expect)
    /\ JudgeUnchanged

\* Lines 85-92: the substring is searched in stderr only.
JudgeSubOutput ==
    /\ pc = "judging" /\ mode = "sub_output"
    /\ Verdict(\E k \in DOMAIN err : err[k].sub)
    /\ JudgeUnchanged

\* Lines 93-104: stdout must equal the file after its license header.
JudgeFile ==
    /\ pc = "judging" /\ mode = "file"
    /\ Verdict(out = SkipHeader(expect))
    /\ JudgeUnchanged

\* Lines 105-123.
JudgeGateType ==
    /\ pc = "judging" /\ mode = "gatetype"
    /\ Verdict(GateTypePasses(ErrList(err), expect))
    /\ JudgeUnchanged

\* Lines 124-125.
JudgeNoExpect ==
    /\ pc = "judging" /\ mode = "none"
    /\ Verdict(FALSE)
    /\ JudgeUnchanged

Judge == JudgeOutput \/ JudgeSubOutput \/ JudgeFile \/ JudgeGateType \/ JudgeNoExpect

ChildStep ==
    \/ \E l \in OutLines : ChildWriteOut(l)
    \/ \E l \in ErrLines : ChildWriteErr(l)
    \/ \E c \in Codes : ChildExit(c)

Next ==
    \/ ChildStep
    \/ Tick
    \/ Popen \/ CommunicateReturns \/ TimeoutExpires \/ Kill \/ Drain
    \/ Judge

\* The harness and the clock always progress; the target may hang forever.
Fairness ==
    /\ WF_vars(Tick)
    /\ WF_vars(Popen) /\ WF_vars(CommunicateReturns) /\ WF_vars(TimeoutExpires)
    /\ WF_vars(Kill) /\ WF_vars(Drain) /\ WF_vars(Judge)

Spec == Init /\ [][Next]_vars /\ Fairness

\* The target may also be a process that the started one forked.  It is
\* given no fairness: like any target, it may hang.
ForkedNext == Next \/ KillStartedProcessOnly \/ OrphanExit

ForkedSpec == Init /\ [][ForkedNext]_vars /\ Fairness /\ WF_vars(KillStartedProcessOnly)

-----------------------------------------------------------------------------
(***************************************************************************)
(* The refinement mapping: the abstract harness sees the target's own      *)
(* writes and status, and its phase follows the target until the verdict. *)
(***************************************************************************)
AbsPhase ==
    CASE pc \in Done          -> pc
      [] child = "none"       -> "start"
      [] child \in {"running", "orphaned"} -> "running"
      [] OTHER                -> "ended"

\* Every group of the --expect-gatetype file is compared with an inferred-
\* type line of the target before success is reported (spec 4.6: the
\* TestInfer lines are compared against the groups of the reference file).
GateTypeComparesEveryGroup ==
    (pc = "success" /\ mode = "gatetype") => Len(ErrList(childErr)) >= Len(expect)

\* judge_output always returns: the timeout of communicate() followed by
\* kill() bounds the wait for the target (spec 4.6, 5: the harness enforces
\* a wall-clock timeout on the child, killing it on expiry).
HarnessTerminates == <>(pc \in Done)

=============================================================================
