---------------------------- MODULE RspReformat ----------------------------
(***************************************************************************)
(* reformat_rsp_file of src/build/toolchain/gcc_solink_wrapper.py, lines   *)
(* 80-100: when a .dll is linked, every import library (a token ending in  *)
(* ".lib") found between "-Wl,--whole-archive" and "-Wl,--no-whole-archive"*)
(* is moved to just after the closing marker.  The response file is a      *)
(* sequence of space-separated tokens; a token is a model value: one of    *)
(* the two markers, an import library, or any other argument.             *)
(***************************************************************************)
EXTENDS Integers, Sequences, SequencesExt

CONSTANTS
    WholeArchive,     \* "-Wl,--whole-archive"
    NoWholeArchive,   \* "-Wl,--no-whole-archive"
    Implibs,          \* tokens ending in ".lib"
    OtherArgs,        \* every other token
    MaxTokens,        \* longest response file enumerated
    MaxSections       \* most whole-archive sections in one response file

Tokens == {WholeArchive, NoWholeArchive} \cup Implibs \cup OtherArgs

\* Mutant of ReformatStep: result.append(implibs) instead of extend.
ReformatStepAppendList(st, arg) ==
    IF st.naflag /\ arg \in Implibs
        THEN [st EXCEPT !.implibs = Append(@, arg)]
    ELSE IF arg = WholeArchive
        THEN [st EXCEPT !.result = Append(@, arg), !.naflag = TRUE]
    ELSE IF arg = NoWholeArchive
        THEN [st EXCEPT !.result = Append(Append(@, arg), st.implibs), !.naflag = FALSE]
    ELSE [st EXCEPT !.result = Append(@, arg)]

\* Mutant of ReformatStep: the libraries are put back before the marker.
ReformatStepLibsFirst(st, arg) ==
    IF st.naflag /\ arg \in Implibs
        THEN [st EXCEPT !.implibs = Append(@, arg)]
    ELSE IF arg = WholeArchive
        THEN [st EXCEPT !.result = Append(@, arg), !.naflag = TRUE]
    ELSE IF arg = NoWholeArchive
        THEN [st EXCEPT !.result = Append(@ \o st.implibs, arg), !.naflag = FALSE]
    ELSE [st EXCEPT !.result = Append(@, arg)]

(***************************************************************************)
(* Lines 84-97: the for loop over rspcontent.split(" "), with its state    *)
(* (result, implibs, naflag) as a record.                                  *)
(***************************************************************************)
ReformatStep(st, arg) ==
    IF st.naflag /\ arg \in Implibs
        THEN [st EXCEPT !.implibs = Append(@, arg)]
    ELSE IF arg = WholeArchive
        THEN [st EXCEPT !.result = Append(@, arg), !.naflag = TRUE]
    ELSE IF arg = NoWholeArchive
        THEN [st EXCEPT !.result = Append(@, arg) \o st.implibs, !.naflag = FALSE]
    ELSE [st EXCEPT !.result = Append(@, arg)]

\* Lines 80-100: the response file is read, rewritten and written back.
ReformatRsp(rsp) ==
    FoldLeft(ReformatStep, [result |-> <<>>, implibs |-> <<>>, naflag |-> FALSE], rsp).result

(***************************************************************************)
(* Reference: each whole-archive section keeps its other arguments in      *)
(* place, and its own import libraries follow its closing marker in their  *)
(* original order.  Defined for response files whose sections are closed.  *)
(***************************************************************************)
RECURSIVE Relocated(_)
Relocated(rsp) ==
    IF \A k \in DOMAIN rsp : rsp[k] # WholeArchive THEN rsp
    ELSE
      LET s == CHOOSE k \in DOMAIN rsp :
                   rsp[k] = WholeArchive /\ \A j \in 1..(k - 1) : rsp[j] # WholeArchive
          e == CHOOSE k \in (s + 1)..Len(rsp) :
                   rsp[k] = NoWholeArchive /\ \A j \in (s + 1)..(k - 1) : rsp[j] # NoWholeArchive
          inside == SubSeq(rsp, s + 1, e - 1)
          IsLib(t) == t \in Implibs
          IsNotLib(t) == t \notin Implibs
      IN  SubSeq(rsp, 1, s) \o SelectSeq(inside, IsNotLib) \o <<NoWholeArchive>>
            \o SelectSeq(inside, IsLib) \o Relocated(SubSeq(rsp, e + 1, Len(rsp)))

\* Markers alternate, starting with whole-archive and ending closed.
Markers(rsp) == SelectSeq(rsp, LAMBDA t : t \in {WholeArchive, NoWholeArchive})

WellFormed(rsp) ==
    /\ Len(Markers(rsp)) % 2 = 0
    /\ Len(Markers(rsp)) <= 2 * MaxSections
    /\ \A k \in DOMAIN Markers(rsp) :
           Markers(rsp)[k] = IF k % 2 = 1 THEN WholeArchive ELSE NoWholeArchive

\* The response files a GN solink rule may hand over.
RspFiles == { r \in BoundedSeq(Tokens, MaxTokens) : WellFormed(r) }

VARIABLES
    original,   \* the response file as GN wrote it
    rsp,        \* its current content
    rewritten   \* whether reformat_rsp_file has run

vars == <<original, rsp, rewritten>>

TypeOK ==
    /\ original \in RspFiles
    /\ rsp \in Seq(Tokens)
    /\ rewritten \in BOOLEAN

Init ==
    /\ original \in RspFiles
    /\ rsp = original
    /\ rewritten = FALSE

Reformat ==
    /\ ~rewritten
    /\ rsp' = ReformatRsp(rsp)
    /\ rewritten' = TRUE
    /\ UNCHANGED original

Spec == Init /\ [][Reformat]_vars

\* The rewrite moves every import library of a section to after that
\* section's closing marker, and changes nothing else.
ImplibsRelocated == rewritten => rsp = Relocated(original)

\* The rewrite neither drops nor duplicates a token of the response file.
TokensPreserved == rewritten => ToBag(rsp) = ToBag(original)

=============================================================================
