----------------------------- MODULE LinkWrapper -----------------------------
(***************************************************************************)
(* main() of src/build/toolchain/gcc_link_wrapper.py: when the link        *)
(* command holds "-static", every token naming crtbegin_dynamic.o is       *)
(* rewritten to crtbegin_static.o by update_crt, whose loop looks each     *)
(* token up again with list.index() while it writes into the same list;   *)
(* then the link runs and, when --strip is given, the strip.  A static     *)
(* link with --clang_rt_dso_path returns 0 before linking.                 *)
(*                                                                         *)
(* A token is a model value: "-static", a path containing                  *)
(* crtbegin_dynamic.o, a path containing crtbegin_static.o, or another     *)
(* argument.                                                               *)
(***************************************************************************)
EXTENDS Integers, Sequences, SequencesExt

CONSTANTS
    Static,       \* the "-static" token
    DynCrts,      \* tokens containing "crtbegin_dynamic.o"
    StaticOf,     \* StaticOf[t]: t with crtbegin_dynamic.o replaced
    OtherArgs,    \* every other token
    MaxTokens     \* longest link command enumerated

Tokens == {Static} \cup DynCrts \cup OtherArgs \cup {StaticOf[t] : t \in DynCrts}

\* Lines 45-49.
IsStaticLink(command) == \E k \in DOMAIN command : command[k] = Static

\* str(item).replace("crtbegin_dynamic.o", "crtbegin_static.o")
ReplaceCrt(t) == IF t \in DynCrts THEN StaticOf[t] ELSE t

\* command.index(item): the first position holding item.
IndexOf(command, item) == CHOOSE j \in DOMAIN command :
                              command[j] = item /\ \A m \in 1..(j - 1) : command[m] # item

VARIABLES
    cmd,        \* args.command as parsed
    asan,       \* --clang_rt_dso_path given
    hasStrip,   \* --strip given
    command,    \* the list update_crt rewrites in place
    i,          \* position of update_crt's for loop
    pc,         \* "start", "crt", "link", "strip", "exit" or "done"
    linked,     \* the command the linker ran, <<>> if none
    stripped,   \* the strip produced --output
    result      \* main()'s result

vars == <<cmd, asan, hasStrip, command, i, pc, linked, stripped, result>>

TypeOK ==
    /\ cmd \in BoundedSeq(Tokens, MaxTokens) /\ command \in Seq(Tokens)
    /\ asan \in BOOLEAN /\ hasStrip \in BOOLEAN
    /\ i \in 1..(MaxTokens + 1)
    /\ pc \in {"start", "crt", "link", "strip", "exit", "done"}
    /\ linked \in Seq(Tokens) /\ stripped \in BOOLEAN
    /\ result \in {0, 1}

Init ==
    /\ cmd \in BoundedSeq(Tokens, MaxTokens) \ {<<>>}
    /\ asan \in BOOLEAN /\ hasStrip \in BOOLEAN
    /\ command = cmd /\ i = 1
    /\ pc = "start" /\ linked = <<>> /\ stripped = FALSE /\ result = 0

\* Lines 92-97: is_static_link decides whether update_crt runs.
CheckStatic ==
    /\ pc = "start"
    /\ pc' = IF IsStaticLink(command) THEN "crt" ELSE "link"
    /\ UNCHANGED <<cmd, asan, hasStrip, command, i, linked, stripped, result>>

\* Mutant of CrtStep: the replacement is appended instead of assigned.
CrtStepAppend ==
    /\ pc = "crt" /\ i <= Len(command)
    /\ LET item == command[i]
       IN  command' = IF item \in DynCrts THEN Append(command, ReplaceCrt(item))
                                         ELSE command
    /\ i' = i + 1
    /\ UNCHANGED <<cmd, asan, hasStrip, pc, linked, stripped, result>>

\* Mutant of CrtStep: the loop stops after the first replacement.
CrtStepFirstOnly ==
    /\ pc = "crt" /\ i <= Len(command)
    /\ LET item == command[i]
       IN  /\ command' = IF item \in DynCrts
                            THEN [command EXCEPT ![IndexOf(command, item)] = ReplaceCrt(item)]
                            ELSE command
           /\ i' = IF item \in DynCrts THEN Len(command) + 1 ELSE i + 1
    /\ UNCHANGED <<cmd, asan, hasStrip, pc, linked, stripped, result>>

\* Lines 59-64: one iteration of update_crt's loop over the live list.
CrtStep ==
    /\ pc = "crt" /\ i <= Len(command)
    /\ LET item == command[i]
       IN  command' = IF item \in DynCrts
                         THEN [command EXCEPT ![IndexOf(command, item)] = ReplaceCrt(item)]
                         ELSE command
    /\ i' = i + 1
    /\ UNCHANGED <<cmd, asan, hasStrip, pc, linked, stripped, result>>

\* Lines 65, 93-95: after update_crt, an ASan static link returns 0 at once.
CrtDone ==
    /\ pc = "crt" /\ i > Len(command)
    /\ IF asan THEN pc' = "done" /\ result' = 0
               ELSE pc' = "link" /\ UNCHANGED result
    /\ UNCHANGED <<cmd, asan, hasStrip, command, i, linked, stripped>>

\* Lines 98-101: run_link_with_optional_map_file with LC_ALL=C.
Link(ok) ==
    /\ pc = "link"
    /\ IF ok THEN linked' = command /\ pc' = "strip" /\ result' = 0
             ELSE pc' = "exit" /\ result' = 1 /\ UNCHANGED linked
    /\ UNCHANGED <<cmd, asan, hasStrip, command, i, stripped>>

\* Lines 103-109: result becomes strip's status.
Strip(ok) ==
    /\ pc = "strip"
    /\ IF hasStrip THEN stripped' = ok /\ result' = IF ok THEN 0 ELSE 1
                   ELSE UNCHANGED <<stripped, result>>
    /\ pc' = "exit"
    /\ UNCHANGED <<cmd, asan, hasStrip, command, i, linked>>

\* Line 113: sys.exit(main()).
Exit ==
    /\ pc = "exit"
    /\ pc' = "done"
    /\ UNCHANGED <<cmd, asan, hasStrip, command, i, linked, stripped, result>>

Next ==
    \/ CheckStatic \/ CrtStep \/ CrtDone \/ Exit
    \/ \E ok \in BOOLEAN : Link(ok) \/ Strip(ok)

Spec == Init /\ [][Next]_vars

-----------------------------------------------------------------------------
\* A static link runs with every dynamic CRT token replaced by its static
\* counterpart and every other token, duplicates included, left where it was
\* (spec 8); a dynamic link runs the command as given.
LinkedCommandIsRewritten ==
    linked # <<>> =>
        linked = IF IsStaticLink(cmd) THEN [k \in DOMAIN cmd |-> ReplaceCrt(cmd[k])]
                                      ELSE cmd

=============================================================================
