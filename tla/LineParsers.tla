----------------------------- MODULE LineParsers -----------------------------
(***************************************************************************)
(* The functions of parser.h that read a part of a line: parse_obis its    *)
(* OBIS id and parse_string a value in brackets; and the two kinds of      *)
(* fields of fields.h that hold text.  A text is a sequence of characters, *)
(* each a string of length one.                                            *)
(***************************************************************************)
EXTENDS Integers, Sequences, FiniteSetsExt, TLC

DigitValues == [c \in {"0", "1", "2", "3", "4", "5", "6", "7", "8", "9"} |->
                  CASE c = "0" -> 0 [] c = "1" -> 1 [] c = "2" -> 2
                    [] c = "3" -> 3 [] c = "4" -> 4 [] c = "5" -> 5
                    [] c = "6" -> 6 [] c = "7" -> 7 [] c = "8" -> 8
                    [] c = "9" -> 9]
IsDigit(c) == c \in DOMAIN DigitValues

From(text, i) == SubSeq(text, i, Len(text))

-----------------------------------------------------------------------------
(* parse_obis                                                              *)

(* Whether c ends the part of this number (from 0) and begins the next.    *)
Separates(c, part) == \/ part = 0 /\ c = "-"
                      \/ part = 1 /\ c = ":"
                      \/ part \in 2..4 /\ c = "."

(* A part is a byte: another digit may not make it more than 255.          *)
Overflows(v, c) == v * 10 + DigitValues[c] > 255

(* The parts, the one the loop is at, how many characters it has read, and *)
(* whether it stopped at a part that is too large.                         *)
HasRead(v, part, n) == [v |-> v, part |-> part, read |-> n, over |-> FALSE]

NothingRead == HasRead([i \in 0..5 |-> 0], 0, 0)

(* The n-th character, unless one before it has ended the loop. *)
Turn(r, n, c) ==
  IF r.read < n - 1 \/ r.over THEN r
  ELSE IF IsDigit(c)
  THEN IF Overflows(r.v[r.part], c) THEN [r EXCEPT !.over = TRUE]
       ELSE HasRead([r.v EXCEPT ![r.part] = @ * 10 + DigitValues[c]], r.part, n)
  ELSE IF Separates(c, r.part) THEN HasRead(r.v, r.part + 1, n)
  ELSE r

Scan(text) ==
  LET s[n \in 0..Len(text)] == IF n = 0 THEN NothingRead
                               ELSE Turn(s[n - 1], n, text[n])
  IN  s[Len(text)]

(* The parts that are not given are 255, which is also what a part that is *)
(* given as 255 is.                                                        *)
parse_obis(text) ==
  LET r == Scan(text)
  IN  [ok   |-> ~r.over /\ r.read > 0,
       id   |-> [i \in 0..5 |-> IF i <= r.part THEN r.v[i] ELSE 255],
       rest |-> From(text, r.read + 1)]

-----------------------------------------------------------------------------
(* parse_string: from '(' to the first ')', or to the second of two in a   *)
(* row.                                                                    *)
parse_string(min, max, text) ==
  LET closing == {i \in 2..Len(text) : text[i] = ")"}
      first   == Min(closing)
      last    == IF first < Len(text) /\ text[first + 1] = ")"
                 THEN first + 1 ELSE first
  IN  IF /\ Len(text) > 0 /\ text[1] = "("
         /\ closing # {}
         /\ last - 2 \in min..max
      THEN [ok |-> TRUE, val |-> SubSeq(text, 2, last - 1),
            rest |-> From(text, last + 1)]
      ELSE [ok |-> FALSE, val |-> <<>>, rest |-> <<>>]

(* StringField<T, min, max>::parse and RawField<T>::parse. *)
StringField(min, max, text) == parse_string(min, max, text)
RawField(text) == [ok |-> TRUE, val |-> text, rest |-> <<>>]
=============================================================================
