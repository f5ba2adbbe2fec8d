---------------------------- MODULE Utf8Sanitizer ----------------------------
(***************************************************************************)
(* Text::ToUtf8: every string that goes into a protobuf message is kept when *)
(* it is UTF-8, and otherwise each byte that starts no valid sequence is     *)
(* taken for Windows-1252.  Bytes are numbers.                               *)
(***************************************************************************)
EXTENDS Integers, Sequences, FiniteSets

CONSTANTS Bytes,      \* bytes that occur in a text
          MaxBytes    \* bound: length of a text
ASSUME TextAssumption == Bytes \subseteq 0..255 /\ MaxBytes \in Nat

VARIABLE text  \* one ToUtf8: input, position from 1, result

TextInit == \E n \in 0..MaxBytes : \E input \in [1..n -> Bytes] :
               text = [input |-> input, i |-> 1, result |-> <<>>, pc |-> "validate"]
-----------------------------------------------------------------------------
Continuation(b) == b \div 64 = 2
Low6(b) == b % 64

(* Utf8SequenceLengthAt: 0 when no valid sequence starts at i.               *)
Sequence2(s, i) ==
    /\ i + 1 <= Len(s) /\ Continuation(s[i + 1])
    /\ (s[i] % 32) * 64 + Low6(s[i + 1]) >= 128

Sequence3AnySurrogate(s, i) ==
    /\ i + 2 <= Len(s) /\ Continuation(s[i + 1]) /\ Continuation(s[i + 2])
    /\ (s[i] % 16) * 4096 + Low6(s[i + 1]) * 64 + Low6(s[i + 2]) >= 2048
Sequence3(s, i) ==
    /\ i + 2 <= Len(s) /\ Continuation(s[i + 1]) /\ Continuation(s[i + 2])
    /\ LET codepoint == (s[i] % 16) * 4096 + Low6(s[i + 1]) * 64 + Low6(s[i + 2])
       IN  codepoint >= 2048 /\ (codepoint < 55296 \/ codepoint > 57343)

Sequence4(s, i) ==
    /\ i + 3 <= Len(s) /\ \A k \in 1..3 : Continuation(s[i + k])
    /\ LET codepoint == (s[i] % 8) * 262144 + Low6(s[i + 1]) * 4096
                        + Low6(s[i + 2]) * 64 + Low6(s[i + 3])
       IN  codepoint >= 65536 /\ codepoint <= 1114111

Utf8SequenceLengthAt(s, i) ==
    CASE s[i] <= 127 -> 1
      [] s[i] \div 32 = 6 -> IF Sequence2(s, i) THEN 2 ELSE 0
      [] s[i] \div 16 = 14 -> IF Sequence3(s, i) THEN 3 ELSE 0
      [] s[i] \div 8 = 30 -> IF Sequence4(s, i) THEN 4 ELSE 0
      [] OTHER -> 0

(* IsValidUtf8: from the start, sequence by sequence.                        *)
IsValidUtf8(s) ==
    LET from[i \in 1..(Len(s) + 4)] ==
            IF i > Len(s) THEN TRUE
            ELSE LET n == Utf8SequenceLengthAt(s, i) IN n # 0 /\ from[i + n]
    IN  from[1]

(* kCp1252ToUnicode: ASCII and the upper half are themselves, 80 to 9F the   *)
(* special characters, undefined ones the replacement character.             *)
Cp1252Special ==
    <<8364, 65533, 8218, 402, 8222, 8230, 8224, 8225, 710, 8240, 352, 8249, 338, 65533, 381, 65533,
      65533, 8216, 8217, 8220, 8221, 8226, 8211, 8212, 732, 8482, 353, 8250, 339, 65533, 382, 376>>
Cp1252ToUnicode(b) == IF b \in 128..159 THEN Cp1252Special[b - 127] ELSE b

(* EncodeUtf8Codepoint                                                       *)
EncodeUtf8Codepoint(c) ==
    CASE c <= 127 -> <<c>>
      [] c > 127 /\ c <= 2047 -> <<192 + c \div 64, 128 + Low6(c)>>
      [] c > 2047 /\ c <= 65535 -> <<224 + c \div 4096, 128 + Low6(c \div 64), 128 + Low6(c)>>
      [] c > 65535 -> <<240 + c \div 262144, 128 + Low6(c \div 4096),
                         128 + Low6(c \div 64), 128 + Low6(c)>>
-----------------------------------------------------------------------------
(* ToUtf8: valid text is returned as it is.                                  *)
Validate ==
    /\ text.pc = "validate"
    /\ text' = IF IsValidUtf8(text.input)
               THEN [text EXCEPT !.result = text.input, !.pc = "done"]
               ELSE [text EXCEPT !.pc = "repair"]

CopySequence ==
    /\ text.pc = "repair" /\ text.i <= Len(text.input)
    /\ LET n == Utf8SequenceLengthAt(text.input, text.i)
       IN  /\ n > 0
           /\ text' = [text EXCEPT !.result = @ \o SubSeq(text.input, text.i, text.i + n - 1),
                                   !.i = @ + n]

ConvertByte ==
    /\ text.pc = "repair" /\ text.i <= Len(text.input)
    /\ Utf8SequenceLengthAt(text.input, text.i) = 0
    /\ text' = [text EXCEPT !.result = @ \o EncodeUtf8Codepoint(Cp1252ToUnicode(text.input[text.i])),
                            !.i = @ + 1]

ReturnText ==
    /\ text.pc = "repair" /\ text.i > Len(text.input)
    /\ text' = [text EXCEPT !.pc = "done"]

TextNext == \/ Validate
            \/ CopySequence
            \/ ConvertByte
            \/ ReturnText
-----------------------------------------------------------------------------
(* The reference: the well-formed byte sequences of the Unicode standard, as *)
(* ranges for each position.                                                 *)
Cont == 128..191
WellFormed == {<<0..127>>, <<194..223, Cont>>,
               <<{224}, 160..191, Cont>>, <<225..236, Cont, Cont>>,
               <<{237}, 128..159, Cont>>, <<238..239, Cont, Cont>>,
               <<{240}, 144..191, Cont, Cont>>, <<241..243, Cont, Cont, Cont>>,
               <<{244}, 128..143, Cont, Cont>>}

IsUtf8(s) ==
    LET upTo[n \in 0..Len(s)] ==
            \/ n = 0
            \/ \E w \in WellFormed :
                  /\ Len(w) <= n /\ upTo[n - Len(w)]
                  /\ \A k \in 1..Len(w) : s[n - Len(w) + k] \in w[k]
    IN  upTo[Len(s)]

(* What goes into a message is UTF-8 whatever the text was, and a text that  *)
(* was UTF-8 already is not touched.                                         *)
SanitizedIsUtf8 ==
    text.pc = "done" => /\ IsUtf8(text.result)
                        /\ IsUtf8(text.input) => text.result = text.input
=============================================================================
