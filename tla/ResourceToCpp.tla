---------------------------- MODULE ResourceToCpp ----------------------------
(***************************************************************************)
(* resource_file_to_cpp of src/script/build_resource_to_cpp.py: a resource *)
(* file is read as bytes, every byte is rendered with str(hex(b)), the     *)
(* renderings are joined with ",", and three templates are filled in with  *)
(* str.replace to declare the byte array and its length under a symbol     *)
(* named after the file.  The output file, opened for appending, is        *)
(* truncated and the fragment written.                                     *)
(*                                                                         *)
(* Text is a sequence of tokens.  A hexadecimal or decimal digit, "0x",    *)
(* ",", each fixed piece of a template and each placeholder "$1", "$2",    *)
(* "$3" is one token; a file name is a sequence of name tokens, in which   *)
(* "$2" and "$3" stand for a dollar sign followed by that digit.  Since    *)
(* every pattern str.replace is given is one token, replacing a substring  *)
(* is replacing a token.                                                   *)
(***************************************************************************)
EXTENDS Integers, Sequences, SequencesExt, TLC

CONSTANTS
    Bytes,        \* byte values a resource may hold
    MaxLen,       \* longest resource enumerated
    NameTokens,   \* tokens a resource file name is made of ("." included)
    MaxName,      \* longest file name enumerated
    OldOutputs    \* contents the output file may have from an earlier build

HexDigit == <<"0", "1", "2", "3", "4", "5", "6", "7", "8", "9",
              "a", "b", "c", "d", "e", "f">>

\* hex(b) without its prefix: the digits of b, most significant first, no
\* leading zeros, "0" for zero.
RECURSIVE HexDigits(_)
HexDigits(n) ==
    IF n < 16 THEN <<HexDigit[n + 1]>>
    ELSE HexDigits(n \div 16) \o <<HexDigit[(n % 16) + 1]>>

\* Mutant of Hex: format(b, 'x'), the "0x" prefix missing.
HexNoPrefix(b) == HexDigits(b)

\* Line 42: str(hex(content)).
Hex(b) == <<"0x">> \o HexDigits(b)

\* Line 44: formats.join(seq).
Join(seqs, sep) ==
    FlattenSeq([k \in DOMAIN seqs |-> IF k = 1 THEN seqs[k] ELSE <<sep>> \o seqs[k]])

\* Lines 46-50: s.replace(pattern, text) for a one-token pattern.
Replace(s, pattern, text) ==
    FlattenSeq([k \in DOMAIN s |-> IF s[k] = pattern THEN text ELSE <<s[k]>>])

Template0 == <<"#include <cstdint>\n">>
Template1 == <<"extern const uint8_t  _binary_", "$1", "_start[", "$2", "] = {", "$3", "};\n">>
Template2 == <<"extern const uint32_t _binary_", "$1", "_length = ", "$2", ";">>

\* Line 45: input_file.replace(".", "_").
Sanitize(name) == Replace(name, ".", <<"_">>)

Names == BoundedSeq(NameTokens, MaxName) \ {<<>>}

VARIABLES
    resource,   \* the bytes of the resource file
    name,       \* the resource file's name
    outFile,    \* the output file's content
    length,     \* the length the code counted
    done        \* resource_file_to_cpp has returned

vars == <<resource, name, outFile, length, done>>

TypeOK ==
    /\ resource \in BoundedSeq(Bytes, MaxLen) /\ name \in Names
    /\ outFile \in Seq(STRING)
    /\ length \in 0..MaxLen /\ done \in BOOLEAN

Init ==
    /\ resource \in BoundedSeq(Bytes, MaxLen) /\ name \in Names
    /\ outFile \in OldOutputs /\ length = 0 /\ done = FALSE

\* The fragment the code writes, given the counted length and the rendering.
Fragment(n, len, code) ==
    Template0
      \o Replace(Replace(Replace(Template1, "$1", Sanitize(n)), "$2", <<ToString(len)>>), "$3", code)
      \o Replace(Replace(Template2, "$1", Sanitize(n)), "$2", <<ToString(len)>>)

\* Mutant of ResourceFileToCpp: the length counter starts at one.
ResourceFileToCppCountFromOne ==
    /\ ~done
    /\ LET len == Len(resource) + 1
           code == Join([k \in DOMAIN resource |-> Hex(resource[k])], ",")
       IN  /\ length' = len
           /\ outFile' = Fragment(name, len, code)
    /\ done' = TRUE
    /\ UNCHANGED <<resource, name>>

\* Mutant of ResourceFileToCpp: no seek(0) and truncate(), the append mode wins.
ResourceFileToCppNoTruncate ==
    /\ ~done
    /\ LET len == Len(resource)
           code == Join([k \in DOMAIN resource |-> Hex(resource[k])], ",")
       IN  /\ length' = len
           /\ outFile' = outFile \o Fragment(name, len, code)
    /\ done' = TRUE
    /\ UNCHANGED <<resource, name>>

\* Lines 28-53: the loop renders and counts every byte, the templates are
\* filled in, and the output file is truncated and written.
ResourceFileToCpp ==
    /\ ~done
    /\ LET len == Len(resource)
           code == Join([k \in DOMAIN resource |-> Hex(resource[k])], ",")
       IN  /\ length' = len
           /\ outFile' = Fragment(name, len, code)
    /\ done' = TRUE
    /\ UNCHANGED <<resource, name>>

Spec == Init /\ [][ResourceFileToCpp]_vars

-----------------------------------------------------------------------------
(***************************************************************************)
(* Reading the fragment back, as the C++ compiler does.                    *)
(***************************************************************************)
DigitValue(d) == CHOOSE v \in 0..15 : HexDigit[v + 1] = d

\* One array element: "0x" and hexadecimal digits, -1 for anything else.
ParseHex(item) ==
    IF Len(item) >= 2 /\ item[1] = "0x" /\ \A k \in 2..Len(item) : item[k] \in ToSet(HexDigit)
        THEN FoldLeft(LAMBDA acc, d : 16 * acc + DigitValue(d), 0, Tail(item))
        ELSE -1

\* The elements of an initializer list, split at its commas.
RECURSIVE SplitAtComma(_)
SplitAtComma(s) ==
    LET c == SelectInSeq(s, LAMBDA t : t = ",")
    IN  IF c = 0 THEN <<s>>
        ELSE <<SubSeq(s, 1, c - 1)>> \o SplitAtComma(SubSeq(s, c + 1, Len(s)))

Decode(code) ==
    IF code = <<>> THEN <<>>
    ELSE LET items == SplitAtComma(code) IN [k \in DOMAIN items |-> ParseHex(items[k])]

\* The declaration the spec describes: the array named after the sanitized
\* file name, sized and initialized with the given text, and its length.
Declaration(n, len, code) ==
    Template0
      \o <<"extern const uint8_t  _binary_">> \o Sanitize(n) \o <<"_start[", ToString(len), "] = {">>
      \o code \o <<"};\n", "extern const uint32_t _binary_">> \o Sanitize(n)
      \o <<"_length = ", ToString(len), ";">>

\* The initializer text as written in the output: what lies between the
\* first "] = {" and the last "};\n".
Initializer(text) ==
    LET open == SelectInSeq(text, LAMBDA t : t = "] = {")
        close == SelectLastInSeq(text, LAMBDA t : t = "};\n")
    IN  SubSeq(text, open + 1, close - 1)

(***************************************************************************)
(* Spec 8: for every resource, the output declares, under the sanitized    *)
(* file name, an array whose declared length is the byte count and whose   *)
(* initializer decodes back to exactly the resource's bytes; the output    *)
(* file holds this fragment and nothing left from an earlier build (spec   *)
(* 4.5: truncate-then-write despite the append mode).                      *)
(***************************************************************************)
FragmentRoundTrips ==
    done =>
        /\ Decode(Initializer(outFile)) = resource
        /\ outFile = Declaration(name, Len(resource), Initializer(outFile))

=============================================================================
