---------------------------- MODULE CopyResource ----------------------------
(***************************************************************************)
(* copy_xml of src/test/copy_resource.py, run by several build steps at    *)
(* once, each copying one test resource into the same destination          *)
(* directory.  Each invocation checks its source, creates the destination  *)
(* when os.path.exists says it is missing, and copies the file.  The       *)
(* filesystem is shared, so the exists check and makedirs of one copier   *)
(* interleave with those of the others.                                    *)
(***************************************************************************)
EXTENDS Naturals

CONSTANTS
    Copiers,    \* concurrent invocations of copy_resource.py
    Files,      \* values of --src-xml
    Contents    \* what a source file may hold

NoFile == "none"
\* The content of a file shutil.copyfile has opened and not yet written.
Empty == "empty"

\* One invocation's arguments and its source file as found on disk.
Args == [file : Files, srcExists : BOOLEAN, content : Contents]

VARIABLES
    arg,        \* arg[p]: copier p's arguments
    pc,         \* pc[p]: where copier p is
    dirExists,  \* the --dst-path directory exists
    dst         \* dst[f]: the content of dst_path/f, NoFile if absent

vars == <<arg, pc, dirExists, dst>>

Ended == {"done", "raised"}

TypeOK ==
    /\ arg \in [Copiers -> Args]
    /\ pc \in [Copiers -> {"start", "exists", "mkdir", "copy", "write"} \cup Ended]
    /\ dirExists \in BOOLEAN
    /\ dst \in [Files -> Contents \cup {NoFile, Empty}]

\* A clean output tree: the destination does not exist yet.
Init ==
    /\ arg \in [Copiers -> Args]
    /\ pc = [p \in Copiers |-> "start"]
    /\ dirExists = FALSE
    /\ dst = [f \in Files |-> NoFile]

\* Lines 40-45: a missing source is reported and copy_xml returns.
CheckSource(p) ==
    /\ pc[p] = "start"
    /\ pc' = [pc EXCEPT ![p] = IF arg[p].srcExists THEN "exists" ELSE "done"]
    /\ UNCHANGED <<arg, dirExists, dst>>

\* Line 47: os.path.exists(args.dst_path).
CheckDst(p) ==
    /\ pc[p] = "exists"
    /\ pc' = [pc EXCEPT ![p] = IF dirExists THEN "copy" ELSE "mkdir"]
    /\ UNCHANGED <<arg, dirExists, dst>>

\* Line 48: os.makedirs raises FileExistsError when the directory was
\* created after the check.
MakeDirs(p) ==
    /\ pc[p] = "mkdir"
    /\ IF dirExists
          THEN pc' = [pc EXCEPT ![p] = "raised"] /\ UNCHANGED dirExists
          ELSE pc' = [pc EXCEPT ![p] = "copy"] /\ dirExists' = TRUE
    /\ UNCHANGED <<arg, dst>>

\* Line 50: shutil.copyfile opens the destination for writing, which
\* truncates it ...
CopyFile(p) ==
    /\ pc[p] = "copy"
    /\ dst' = [dst EXCEPT ![arg[p].file] = Empty]
    /\ pc' = [pc EXCEPT ![p] = "write"]
    /\ UNCHANGED <<arg, dirExists>>

\* ... and then writes the source's bytes and returns.
CopyWrite(p) ==
    /\ pc[p] = "write"
    /\ dst' = [dst EXCEPT ![arg[p].file] = arg[p].content]
    /\ pc' = [pc EXCEPT ![p] = "done"]
    /\ UNCHANGED <<arg, dirExists>>

Next ==
    \E p \in Copiers :
        CheckSource(p) \/ CheckDst(p) \/ MakeDirs(p) \/ CopyFile(p) \/ CopyWrite(p)

Spec == Init /\ [][Next]_vars

-----------------------------------------------------------------------------
\* No copier fails with the destination directory missing or present: the
\* copies are independent one-shot processes that need no locking (spec 5).
NoCopierRaises == \A p \in Copiers : pc[p] # "raised"

=============================================================================
