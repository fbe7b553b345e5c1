--------------------------- MODULE HarnessAbstract ---------------------------
(***************************************************************************)
(* What the test harness of src/script/run_ark_executable.py promises      *)
(* (spec 4.6), with no pipes, clock or kill: the target is started, writes *)
(* lines to stdout and stderr, and ends, on its own or killed because it   *)
(* ran too long; the harness then reports success exactly when the         *)
(* expectation of the selected mode holds of everything the target wrote   *)
(* and of the status it ended with.  A running target always ends, and an  *)
(* ended one is always judged.                                             *)
(***************************************************************************)
EXTENDS Integers, Sequences, SequencesExt, GateTypeCompare

CONSTANTS
    Modes, Codes, OutLines, ErrLineSet,
    ExpectCodes, ExpectFiles, ExpectLists, HeaderLines, MaxWrites,
    Killed,     \* the status of a target that was killed
    Unset       \* the status before the target ended

VARIABLES
    mode, expect,
    phase,      \* "start", "running", "ended", "success" or "raised"
    out, err,   \* what the target wrote to stdout and stderr
    code        \* the status it ended with

absVars == <<mode, expect, phase, out, err, code>>

Expects(m) ==
    CASE m = "output"     -> ExpectCodes
      [] m = "sub_output" -> {"sub"}
      [] m = "file"       -> ExpectFiles
      [] m = "gatetype"   -> ExpectLists
      [] m = "none"       -> {"none"}

\* Each mode's expectation, as spec 4.6 states it.
Holds ==
    CASE mode = "output"     -> code = expect
      [] mode = "sub_output" -> \E k \in DOMAIN err : err[k].sub
      [] mode = "file"       -> out = SubSeq(expect, HeaderLines + 1, Len(expect))
      [] mode = "gatetype"   ->
            \A k \in 1..Len(Zip(ErrList(err), expect)) :
                IsOrderedSubsequence(ErrList(err)[k], expect[k])
      [] mode = "none"       -> FALSE

AbsInit ==
    /\ mode \in Modes /\ expect \in Expects(mode)
    /\ phase = "start" /\ out = <<>> /\ err = <<>> /\ code = Unset

Start == phase = "start" /\ phase' = "running" /\ UNCHANGED <<mode, expect, out, err, code>>

Write ==
    /\ phase = "running" /\ Len(out) + Len(err) < MaxWrites
    /\ \/ \E l \in OutLines : out' = Append(out, l) /\ UNCHANGED err
       \/ \E l \in ErrLineSet : err' = Append(err, l) /\ UNCHANGED out
    /\ UNCHANGED <<mode, expect, phase, code>>

End ==
    /\ phase = "running"
    /\ \E c \in Codes \cup {Killed} : code' = c
    /\ phase' = "ended"
    /\ UNCHANGED <<mode, expect, out, err>>

Verdict ==
    /\ phase = "ended"
    /\ phase' = IF Holds THEN "success" ELSE "raised"
    /\ UNCHANGED <<mode, expect, out, err, code>>

AbsNext == Start \/ Write \/ End \/ Verdict

AbsSpec ==
    AbsInit /\ [][AbsNext]_absVars
    /\ WF_absVars(Start) /\ WF_absVars(End) /\ WF_absVars(Verdict)

=============================================================================
