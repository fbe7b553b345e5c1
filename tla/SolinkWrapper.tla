---------------------------- MODULE SolinkWrapper ----------------------------
(***************************************************************************)
(* main() of src/build/toolchain/gcc_solink_wrapper.py, run again and      *)
(* again by the build as the sources of a shared library change.  One      *)
(* invocation links the library, collects its table of contents (the       *)
(* SONAME line of readelf -d and the first two columns of nm's output,     *)
(* which are name and type for an ELF library and address and type for a  *)
(* .dll), rewrites the .TOC file only when that text changed, strips the  *)
(* library and copies the unstripped file.  Every external tool may fail,  *)
(* and the build may be interrupted between any two steps.                *)
(*                                                                         *)
(* The build tool around it is modelled only as far as the TOC contract    *)
(* needs: a failed or interrupted step is run again, and the libraries     *)
(* linked against this one depend on the .TOC file, so they are relinked   *)
(* when its modification time is newer than theirs.  Before each run it   *)
(* writes the response file afresh (the rule's rspfile_content), which     *)
(* main() rewrites for a .dll before linking.                              *)
(***************************************************************************)
EXTENDS Integers, Sequences

CONSTANTS
    Surfaces,     \* exported symbol surfaces (names and types) the sources may have
    Impls,        \* implementations, what nm's address and size columns reflect
    HasStrip,     \* --strip given
    HasLibfile,   \* --libfile given
    MaxEdits,     \* bound on source changes
    MaxRuns,      \* bound on invocations of the wrapper
    DllKinds,     \* whether --sofile may end with ".dll" (with an @rspfile)
    RspContents,  \* response files the rule may write
    WholeArchive, NoWholeArchive, Implibs, OtherArgs, MaxTokens, MaxSections

NoFile == [syms |-> "none", impl |-> "none"]
Library == [syms : Surfaces, impl : Impls]

(***************************************************************************)
(* collect_toc, lines 31-66: readelf keeps the SONAME line, and nm's       *)
(* output is cut to its first two columns.  For an ELF library nm runs     *)
(* with --format=posix ("name type value size"), so the text is the        *)
(* exported surface.  For a .dll it runs with --extern-only, whose BSD     *)
(* lines are "address type name": the text keeps the addresses, which      *)
(* follow the implementation, and drops the names.                         *)
(***************************************************************************)
Toc(dll, so) == IF dll THEN so.impl ELSE so.syms

\* The values the TOC's nm columns take for one kind of library.
TocTexts(dll) == IF dll THEN Impls ELSE Surfaces

R == INSTANCE RspReformat WITH original <- <<>>, rsp <- <<>>, rewritten <- FALSE

VARIABLES
    src,        \* what linking the current sources produces
    edits,      \* source changes so far
    sofile,     \* the linked, unstripped library (--sofile)
    toc,        \* the .TOC file's content, "none" when absent
    tocMtime,   \* its modification time, 0 when absent
    output,     \* the stripped library (--output)
    libcopy,    \* the copy made of the unstripped file (--libfile)
    pc,         \* where main() is, "idle" between invocations
    tocText,    \* the text collect_toc returned
    result,     \* main()'s result variable
    runs,       \* invocations so far
    dirty,      \* the build must run the wrapper again
    downSyms,   \* surface the dependent library was last linked against
    downAt,     \* when it was linked, 0 for never
    now,        \* the clock that stamps file writes
    rspContent, \* what the build writes to the response file
    rsp,        \* the response file's content
    isDll       \* --sofile ends with ".dll", fixed for the build

vars == <<isDll, src, edits, sofile, toc, tocMtime, output, libcopy, pc, tocText,
          result, runs, dirty, downSyms, downAt, now, rspContent, rsp>>

rspVars == <<isDll, rspContent, rsp>>

Clock == 1..(2 * MaxRuns + 2)

TypeOK ==
    /\ src \in Library /\ edits \in 0..MaxEdits
    /\ sofile \in Library \cup {NoFile}
    /\ toc \in TocTexts(isDll) \cup {"none"} /\ tocMtime \in {0} \cup Clock
    /\ output \in Library \cup {NoFile} /\ libcopy \in Library \cup {NoFile}
    /\ pc \in {"idle", "rsp", "link", "soname", "dynsym", "toc", "strip", "libfile", "exit"}
    /\ tocText \in TocTexts(isDll) \cup {"none"}
    /\ result \in {0, 1}
    /\ runs \in 0..MaxRuns /\ dirty \in BOOLEAN
    /\ downSyms \in Surfaces \cup {"none"} /\ downAt \in {0} \cup Clock
    /\ now \in Clock
    /\ rspContent \in RspContents /\ rsp \in Seq(R!Tokens)
    /\ isDll \in BOOLEAN

\* A fresh checkout: sources exist, nothing is built yet.
Init ==
    /\ src \in Library /\ edits = 0
    /\ sofile = NoFile /\ toc = "none" /\ tocMtime = 0
    /\ output = NoFile /\ libcopy = NoFile
    /\ pc = "idle" /\ tocText = "none" /\ result = 0
    /\ runs = 0 /\ dirty = TRUE
    /\ downSyms = "none" /\ downAt = 0
    /\ now = 1
    /\ rspContent \in RspContents /\ rsp = <<>>
    /\ isDll \in DllKinds

-----------------------------------------------------------------------------
(* The developer and the build tool.                                       *)

Edit ==
    /\ pc = "idle" /\ edits < MaxEdits
    /\ \E s \in Library \ {src} : src' = s
    /\ edits' = edits + 1
    /\ dirty' = TRUE
    /\ UNCHANGED <<sofile, toc, tocMtime, output, libcopy, pc, tocText, result,
                   runs, downSyms, downAt, now>>
    /\ UNCHANGED rspVars

\* The build runs the wrapper when its step is out of date.
Invoke ==
    /\ pc = "idle" /\ dirty /\ runs < MaxRuns
    /\ pc' = "rsp" /\ runs' = runs + 1
    /\ rsp' = rspContent
    /\ UNCHANGED <<src, edits, sofile, toc, tocMtime, output, libcopy, tocText,
                   result, dirty, downSyms, downAt, now, rspContent, isDll>>

\* The build is stopped while the wrapper runs; the step stays out of date.
Interrupt ==
    /\ pc \notin {"idle", "exit"}
    /\ pc' = "idle"
    /\ UNCHANGED <<src, edits, sofile, toc, tocMtime, output, libcopy, tocText,
                   result, runs, dirty, downSyms, downAt, now>>
    /\ UNCHANGED rspVars

\* A dependent library links against the current .so once the wrapper's
\* step succeeded and the .TOC is newer than the dependent.
RelinkDependent ==
    /\ pc = "idle" /\ ~dirty
    /\ tocMtime > downAt
    /\ downSyms' = sofile.syms
    /\ downAt' = now /\ now' = now + 1
    /\ UNCHANGED <<src, edits, sofile, toc, tocMtime, output, libcopy, pc,
                   tocText, result, runs, dirty>>
    /\ UNCHANGED rspVars

-----------------------------------------------------------------------------
(* main(), lines 144-177.                                                  *)

\* Mutant of RewriteRsp: the ".dll" test is inverted.
RewriteRspInverted ==
    /\ pc = "rsp"
    /\ rsp' = IF ~isDll THEN R!ReformatRsp(rsp) ELSE rsp
    /\ pc' = "link"
    /\ UNCHANGED <<src, edits, sofile, toc, tocMtime, output, libcopy, tocText,
                   result, runs, dirty, downSyms, downAt, now, rspContent, isDll>>

\* Lines 136-143: for a .dll the response file is read, rewritten and
\* written back before the link.
RewriteRsp ==
    /\ pc = "rsp"
    /\ rsp' = IF isDll THEN R!ReformatRsp(rsp) ELSE rsp
    /\ pc' = "link"
    /\ UNCHANGED <<src, edits, sofile, toc, tocMtime, output, libcopy, tocText,
                   result, runs, dirty, downSyms, downAt, now, rspContent, isDll>>

\* Lines 99-100: the build is stopped after open(rspfile, "w") truncated the
\* file and before the rewritten tokens were written.
RewriteRspInterrupted ==
    /\ pc = "rsp" /\ isDll
    /\ rsp' = <<>> /\ pc' = "idle"
    /\ UNCHANGED <<src, edits, sofile, toc, tocMtime, output, libcopy, tocText,
                   result, runs, dirty, downSyms, downAt, now, rspContent, isDll>>

\* Lines 148-154: run the link; a failed link returns its status.
Link(ok) ==
    /\ pc = "link"
    /\ IF ok THEN /\ sofile' = src /\ pc' = "soname" /\ UNCHANGED result
             ELSE /\ result' = 1 /\ pc' = "exit" /\ UNCHANGED sofile
    /\ UNCHANGED <<src, edits, toc, tocMtime, output, libcopy, tocText, runs,
                   dirty, downSyms, downAt, now>>
    /\ UNCHANGED rspVars

\* Lines 31-41, 62-63: readelf -d; nm runs only when readelf succeeded.
CollectSoname(ok) ==
    /\ pc = "soname"
    /\ IF ok THEN pc' = "dynsym" /\ UNCHANGED result
             ELSE pc' = "exit" /\ result' = 1
    /\ UNCHANGED <<src, edits, sofile, toc, tocMtime, output, libcopy, tocText,
                   runs, dirty, downSyms, downAt, now>>
    /\ UNCHANGED rspVars

\* Mutant of CollectDynSym: the .dll branch of lines 48-51 is missing, so
\* nm always runs with --format=posix.
CollectDynSymNoDllBranch(ok) ==
    /\ pc = "dynsym"
    /\ IF ok THEN pc' = "toc" /\ tocText' = Toc(FALSE, sofile) /\ UNCHANGED result
             ELSE pc' = "exit" /\ result' = 1 /\ UNCHANGED tocText
    /\ UNCHANGED <<src, edits, sofile, toc, tocMtime, output, libcopy, runs,
                   dirty, downSyms, downAt, now>>
    /\ UNCHANGED rspVars

\* Lines 44-58, 64-66, 157-159: nm; its status decides whether main goes on.
CollectDynSym(ok) ==
    /\ pc = "dynsym"
    /\ IF ok THEN pc' = "toc" /\ tocText' = Toc(isDll, sofile) /\ UNCHANGED result
             ELSE pc' = "exit" /\ result' = 1 /\ UNCHANGED tocText
    /\ UNCHANGED <<src, edits, sofile, toc, tocMtime, output, libcopy, runs,
                   dirty, downSyms, downAt, now>>
    /\ UNCHANGED rspVars

\* Mutant of UpdateToc: the .TOC is written every time.
UpdateTocAlways ==
    /\ pc = "toc"
    /\ toc' = tocText /\ tocMtime' = now /\ now' = now + 1
    /\ pc' = "strip"
    /\ UNCHANGED <<src, edits, sofile, output, libcopy, tocText, result, runs,
                   dirty, downSyms, downAt>>
    /\ UNCHANGED rspVars

\* Lines 69-77, 161-164: the .TOC is written only when its text changed.
UpdateToc ==
    /\ pc = "toc"
    /\ IF tocText # toc
          THEN /\ toc' = tocText /\ tocMtime' = now /\ now' = now + 1
          ELSE UNCHANGED <<toc, tocMtime, now>>
    /\ pc' = "strip"
    /\ UNCHANGED <<src, edits, sofile, output, libcopy, tocText, result, runs,
                   dirty, downSyms, downAt>>
    /\ UNCHANGED rspVars

\* Mutant of Strip: strip's status is not kept.
StripStatusIgnored(ok) ==
    /\ pc = "strip"
    /\ IF HasStrip /\ ok THEN output' = sofile ELSE UNCHANGED output
    /\ pc' = "libfile"
    /\ UNCHANGED <<src, edits, sofile, toc, tocMtime, libcopy, tocText, result,
                   runs, dirty, downSyms, downAt, now>>
    /\ UNCHANGED rspVars

\* Lines 166-170: result becomes strip's status.
Strip(ok) ==
    /\ pc = "strip"
    /\ IF HasStrip
          THEN IF ok THEN output' = sofile /\ result' = 0
                     ELSE result' = 1 /\ UNCHANGED output
          ELSE UNCHANGED <<output, result>>
    /\ pc' = "libfile"
    /\ UNCHANGED <<src, edits, sofile, toc, tocMtime, libcopy, tocText, runs,
                   dirty, downSyms, downAt, now>>
    /\ UNCHANGED rspVars

\* Lines 171-175: shutil.copy2 raises when the copy fails.
CopyLibfile(ok) ==
    /\ pc = "libfile"
    /\ IF HasLibfile
          THEN IF ok THEN libcopy' = sofile /\ UNCHANGED result
                     ELSE result' = 1 /\ UNCHANGED libcopy
          ELSE UNCHANGED <<libcopy, result>>
    /\ pc' = "exit"
    /\ UNCHANGED <<src, edits, sofile, toc, tocMtime, output, tocText, runs,
                   dirty, downSyms, downAt, now>>
    /\ UNCHANGED rspVars

\* Line 177: the exit status tells the build whether the step is done.
Exit ==
    /\ pc = "exit"
    /\ dirty' = (result # 0)
    /\ pc' = "idle" /\ result' = 0 /\ tocText' = "none"
    /\ UNCHANGED <<src, edits, sofile, toc, tocMtime, output, libcopy, runs,
                   downSyms, downAt, now>>
    /\ UNCHANGED rspVars

Next ==
    \/ Edit \/ Invoke \/ Interrupt \/ RelinkDependent
    \/ RewriteRsp \/ RewriteRspInterrupted
    \/ \E ok \in BOOLEAN : Link(ok) \/ CollectSoname(ok) \/ CollectDynSym(ok)
                           \/ Strip(ok) \/ CopyLibfile(ok)
    \/ UpdateToc \/ Exit

Spec == Init /\ [][Next]_vars

-----------------------------------------------------------------------------
\* Nothing is left for the build to do: the wrapper's step succeeded since
\* the last change and no dependent is older than the .TOC.
UpToDate == pc = "idle" /\ ~dirty /\ tocMtime <= downAt

\* A finished build has every product current, however earlier runs failed
\* or were interrupted between the link, the TOC write, the strip and the
\* copy: the dependent was linked against the current exported surface, the
\* .TOC describes the library, and the stripped output is the library.
UpToDateMeansCurrent ==
    UpToDate =>
        /\ downSyms = src.syms
        /\ toc = Toc(isDll, sofile) /\ sofile = src
        /\ HasStrip => output = sofile

\* The same for an ELF library, whose .TOC holds the exported names: the
\* TOC-based relink skipping never leaves a dependent on an old surface.
ElfUpToDateMeansCurrent == ~isDll => UpToDateMeansCurrent

\* Whenever the link runs, it reads the rule's response file rewritten
\* exactly once, however earlier runs failed or were stopped in the middle
\* of the rewrite.
LinkReadsRewrittenRsp ==
    pc = "link" => rsp = IF isDll THEN R!Relocated(rspContent) ELSE rspContent

=============================================================================
