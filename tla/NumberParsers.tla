---------------------------- MODULE NumberParsers ----------------------------
(***************************************************************************)
(* parse_num and parse_float_or_int (parser.h): a number in brackets, with *)
(* its unit, is read into an int32_t as a whole number of 10^-max_decimals *)
(* units.  A sum or product that does not fit is undefined behaviour: here *)
(* it wraps around and `over' says that it happened.                       *)
(***************************************************************************)
EXTENDS LineParsers

CONSTANT IntBits   \* the bits of int32_t

IntMax == 2^(IntBits - 1) - 1

ASSUME IntBitsAssumption == IntBits \in Nat \ {0} /\ IntMax \in Nat

Fits(n) == n \in (-IntMax - 1)..IntMax
Wrapped(n) == ((n + IntMax + 1) % (2 * IntMax + 2)) - IntMax - 1

(* The lower case of the letters that occur in units, for std::tolower. *)
LowerCase == [c \in {"A", "D", "G", "H", "J", "K", "M", "R", "S", "V", "W", "Z"} |->
                CASE c = "A" -> "a" [] c = "D" -> "d" [] c = "G" -> "g"
                  [] c = "H" -> "h" [] c = "J" -> "j" [] c = "K" -> "k"
                  [] c = "M" -> "m" [] c = "R" -> "r" [] c = "S" -> "s"
                  [] c = "V" -> "v" [] c = "W" -> "w" [] c = "Z" -> "z"]
Lower(c) == IF c \in DOMAIN LowerCase THEN LowerCase[c] ELSE c

CharAt(text, p) == IF p \in DOMAIN text THEN text[p] ELSE ""

(* The first position from p on with one of the characters, or the end. *)
Find(text, p, characters) ==
  Min({i \in p..Len(text) : text[i] \in characters} \cup {Len(text) + 1})

AddDigit(n, d) == [value |-> Wrapped(n.value * 10 + d),
                   over  |-> n.over \/ ~Fits(n.value * 10 + d)]

Accumulate(digits) ==
  LET n[i \in 0..Len(digits)] ==
        IF i = 0 THEN [value |-> 0, over |-> FALSE]
        ELSE AddDigit(n[i - 1], DigitValues[digits[i]])
  IN  n[Len(digits)]

(* The characters before the first one that is not a digit. *)
LeadingDigits(text) ==
  SubSeq(text, 1, Min({i \in DOMAIN text : ~IsDigit(text[i])} \cup {Len(text) + 1}) - 1)

(* Case does not count. *)
UnitAt(text, p, unit) == /\ p + Len(unit) - 1 <= Len(text)
                         /\ \A i \in DOMAIN unit :
                              Lower(text[p + i - 1]) = Lower(unit[i])

Refused(over) == [ok |-> FALSE, val |-> 0, rest |-> <<>>, over |-> over]

EndOfUnitWithoutPoint(text, p, unit, zero) ==
  IF unit = <<>> THEN p
  ELSE IF zero /\ CharAt(text, p) # "*" THEN Find(text, p, {")"})
  ELSE IF CharAt(text, p) = "*" /\ UnitAt(text, p + 1, unit)
  THEN p + 1 + Len(unit)
  ELSE Len(text) + 1

(* A value of 0 needs no unit: whatever stands there up to ')' is skipped. *)
EndOfUnit(text, p, unit, zero) ==
  IF unit = <<>> THEN p
  ELSE IF zero /\ CharAt(text, p) \notin {"*", "."} THEN Find(text, p, {")"})
  ELSE IF CharAt(text, p) = "*" /\ UnitAt(text, p + 1, unit)
  THEN p + 1 + Len(unit)
  ELSE Len(text) + 1

PaddingWithoutCount(max_decimals, decimals) == [i \in 1..max_decimals |-> "0"]
Padding(max_decimals, decimals) ==
  [i \in 1..(max_decimals - Len(decimals)) |-> "0"]

(* The digits before the point, and the position behind them. *)
FirstDigit(text) == IF CharAt(text, 2) = "-" THEN 3 ELSE 2
Stop(text) == Find(text, FirstDigit(text), {".", "*", ")"})
Whole(text) == SubSeq(text, FirstDigit(text), Stop(text) - 1)

(* Those after the point, when the number may have decimals.               *)
HasPoint(max_decimals, text) == max_decimals > 0 /\ CharAt(text, Stop(text)) = "."
Fraction(max_decimals, text) ==
  IF HasPoint(max_decimals, text)
  THEN SubSeq(text, Stop(text) + 1,
              Min({Stop(text) + max_decimals,
                   Find(text, Stop(text) + 1, {"*", ")"}) - 1}))
  ELSE <<>>
NumberEnd(max_decimals, text) ==
  IF HasPoint(max_decimals, text)
  THEN Stop(text) + 1 + Len(Fraction(max_decimals, text)) ELSE Stop(text)

parse_num(max_decimals, unit, text) ==
  LET characters == Whole(text) \o Fraction(max_decimals, text)
      digits     == LeadingDigits(characters)
      bad        == Len(digits) < Len(characters)
      number     == Accumulate(IF bad THEN digits
                               ELSE digits \o Padding(max_decimals,
                                                      Fraction(max_decimals, text)))
      close      == EndOfUnit(text, NumberEnd(max_decimals, text), unit,
                              number.value = 0)
  IN  IF CharAt(text, 1) # "(" THEN Refused(FALSE)
      ELSE IF bad \/ CharAt(text, close) # ")" THEN Refused(number.over)
      ELSE [ok   |-> TRUE,
            val  |-> IF text[2] = "-" THEN Wrapped(-number.value)
                     ELSE number.value,
            rest |-> From(text, close + 1),
            over |-> number.over]

(* An integer in its own unit is read by a second attempt. *)
parse_float_or_int(max_decimals, float_unit, int_unit, text) ==
  LET float   == parse_num(max_decimals, float_unit, text)
      integer == parse_num(0, int_unit, text)
  IN  IF float.ok THEN float
      ELSE [integer EXCEPT !.over = @ \/ float.over]
=============================================================================
