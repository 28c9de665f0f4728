---------------------------- MODULE TextDocument ----------------------------
(***************************************************************************)
(* An open buffer as the language server keeps it: UTF-8 bytes, the line   *)
(* index over them, and the changes a client sends in lines and UTF-16     *)
(* units.  A byte is a member of Bytes, by what the code asks of it: "c"   *)
(* is a continuation byte, "e" and "f" lead a sequence of two and of four, *)
(* "n" and "r" are the newline and the carriage return, "a" anything else. *)
(***************************************************************************)
EXTENDS Naturals, Sequences, SequencesExt

Bytes == {"a", "n", "r", "e", "f", "c"}

utf8_length(byte) == CASE byte = "e" -> 2 [] byte = "f" -> 4 [] OTHER -> 1

utf16_units(byte) == IF byte = "f" THEN 2 ELSE 1

is_line_break(byte) == byte \in {"n", "r"}

Position(line, character) == [line |-> line, character |-> character]

\* PositionIndex::reset: the offsets at which lines start, as the bytes are gone
\* over.  A carriage return in front of a newline starts none.
LineStarts(text) ==
  LET Ends(i) == \/ text[i] = "n"
                 \/ text[i] = "r" /\ (i = Len(text) \/ text[i + 1] # "n")
      starts[i \in 0 .. Len(text)] ==
        IF i = 0 THEN <<0>>
        ELSE IF Ends(i) THEN Append(starts[i - 1], i) ELSE starts[i - 1]
  IN  starts[Len(text)]

\* Fault: a character counts one unit whatever its length.
ByteOffsetByCharacter(text, starts, position) ==
  IF position.line >= Len(starts) THEN Len(text)
  ELSE
    LET limit == IF position.line + 1 < Len(starts) THEN starts[position.line + 2]
                                                    ELSE Len(text)
        walk[at \in Nat \X Nat] ==
          LET byte == text[at[1] + 1]
          IN  IF at[1] < limit /\ at[2] < position.character /\ ~is_line_break(byte)
                THEN walk[<<at[1] + utf8_length(byte), at[2] + 1>>]
                ELSE at[1]
        reached == walk[<<starts[position.line + 1], 0>>]
    IN  IF reached < limit THEN reached ELSE limit

\* PositionIndex::byte_offset: along the line until enough units are passed,
\* clamped to the line and to the text.
ByteOffset(text, starts, position) ==
  IF position.line >= Len(starts) THEN Len(text)
  ELSE
    LET limit == IF position.line + 1 < Len(starts) THEN starts[position.line + 2]
                                                    ELSE Len(text)
        walk[at \in Nat \X Nat] ==     \* the offset, and the units passed
          LET byte == text[at[1] + 1]
          IN  IF at[1] < limit /\ at[2] < position.character /\ ~is_line_break(byte)
                THEN walk[<<at[1] + utf8_length(byte), at[2] + utf16_units(byte)>>]
                ELSE at[1]
        reached == walk[<<starts[position.line + 1], 0>>]
    IN  IF reached < limit THEN reached ELSE limit

\* One content change.  Without a range it replaces the whole text; a range that
\* runs backwards changes nothing.
Changed(text, starts, change) ==
  IF ~change.hasRange THEN change.text
  ELSE LET from == ByteOffset(text, starts, change.start)
           to == ByteOffset(text, starts, change.end)
       IN  IF from <= to /\ to <= Len(text)
             THEN SubSeq(text, 1, from) \o change.text \o SubSeq(text, to + 1, Len(text))
             ELSE text

\* Document::apply: each change addresses the text the one before it left, which
\* is bound once.
Apply(text, changes) ==
  LET After(t, c) == CHOOSE u \in {Changed(v, LineStarts(v), c) : v \in {t}} : TRUE
  IN  FoldLeft(After, text, changes)
=============================================================================
