-------------------------- MODULE MCNumericFields --------------------------
(***************************************************************************)
(* The kinds of numeric fields with the units of the catalogue, an int32_t *)
(* of sixteen bits, and lines of every shape the parsers tell apart, with  *)
(* numbers on both sides of each limit.                                    *)
(***************************************************************************)
EXTENDS PrintedNumbers

C == INSTANCE FieldCatalogue

MCBits == [uint8_t |-> 8, uint16_t |-> 10, uint32_t |-> 16]

Decimal(kind, unit, int_unit) == [kind |-> kind, unit |-> unit, int_unit |-> int_unit]
Integer(value_t, unit) == [kind |-> "IntField", value_t |-> value_t, unit |-> unit]

MCFields ==
  {Decimal("FixedField", C!kWh, C!Wh), Decimal("FixedField", C!V, C!mV),
   Decimal("FixedField", C!none, C!none),
   Decimal("TimestampedFixedField", C!m3, C!dm3),
   Decimal("LastFixedField", C!kW, C!W), Decimal("AveragedFixedField", C!kW, C!W),
   Integer("uint8_t", C!none), Integer("uint16_t", C!none), Integer("uint32_t", C!s)}

-----------------------------------------------------------------------------
Value(sign, whole, point, fraction, tail) ==
  [sign |-> sign, whole |-> whole, point |-> point, fraction |-> fraction,
   tail |-> tail]
String(text) == Value(<<>>, <<>>, FALSE, <<>>, text)
Simple(whole, tail) == Value(<<>>, whole, FALSE, <<>>, tail)

(* On both sides of 2^15 / 1000, of 2^8 and 2^10, of 2^15 and of 2^16. *)
Wholes == {<<>>, <<"0">>, <<"0", "0", "7">>, <<"3", "2">>, <<"3", "3">>,
           <<"2", "5", "6">>, <<"1", "0", "2", "4">>,
           <<"3", "2", "7", "6", "7">>, <<"3", "2", "7", "6", "8">>,
           <<"6", "5", "5", "3", "6">>, <<"x">>, <<"7", "x">>, <<"7", "-">>}
Fractions == {<<>>, <<"7">>, <<"7", "6", "7">>, <<"7", "6", "8">>,
              <<"7", "6", "7", "5">>, <<"0", "0", "0", "5">>,
              <<"0", "0", "0", ".">>, <<"0", "x">>, <<"0", "0", "0", "x">>}
Points == [point : {TRUE}, fraction : Fractions] \cup [point : {FALSE}, fraction : {<<>>}]

Units(f) == {f.unit} \cup (IF f.kind = "IntField" THEN {} ELSE {f.int_unit})
Upper(u) == [i \in DOMAIN u |-> IF \E c \in DOMAIN LowerCase : LowerCase[c] = u[i]
                                THEN CHOOSE c \in DOMAIN LowerCase : LowerCase[c] = u[i]
                                ELSE u[i]]
Tails(f) == {<<>>, <<"*">>, <<"x">>, <<"*", "x">>}
            \cup {<<"*">> \o u : u \in Units(f)}
            \cup {<<"*">> \o Upper(u) : u \in Units(f)}
            \cup {<<"*">> \o u \o <<"x">> : u \in Units(f)}
            \cup {<<"*">> \o SubSeq(u, 1, Len(u) - 1) : u \in Units(f) \ {<<>>}}

Values(f) == {Value(s, w, p.point, p.fraction, t) :
                s \in {<<>>, <<"-">>}, w \in Wholes, p \in Points, t \in Tails(f)}

(* Fewer values for the lines of several. *)
Good(f) == {Value(s, <<"3">>, TRUE, d, <<"*">> \o f.unit) :
              s \in {<<>>, <<"-">>}, d \in {<<"5">>, <<"0", "0", "1">>}}
           \cup {Simple(<<"7">>, <<"*">> \o f.int_unit), Simple(<<"0">>, <<>>)}
Few(f) == Good(f) \cup {Simple(<<"7">>, <<>>), Simple(<<"3", "2">>, <<"*">> \o f.unit)}

(* Strings of digits, as a meter prints timestamps, and of letters.        *)
Stamp(n) == Simple([i \in 1..(n - 1) |-> IF i % 2 = 1 THEN "2" ELSE "3"], <<"W">>)
Word(n) == String([i \in 1..n |-> "t"])
Timestamps == {Stamp(n) : n \in {12, 13, 14}} \cup {Word(13)}
Words == {Word(n) : n \in {0, 1, 20, 21}}
Stamps == {Stamp(n) : n \in {1, 13, 20, 21}} \cup {Word(0)}
ObisText == Value(<<>>, <<"1", "-", "0", ":", "1">>, TRUE, <<"6", ".", "0">>, <<>>)

Counts == {Value(<<>>, c, FALSE, <<>>, <<>>) :
                      c \in {<<>>, <<"0">>, <<"1">>, <<"2">>, <<"3">>,
                             <<"6", "5", "5", "3", "7">>, <<"x">>}}
                   \cup {Value(<<"-">>, <<"1">>, FALSE, <<>>, <<>>),
                         Value(<<>>, <<"2">>, FALSE, <<>>, <<"*">>),
                         Value(<<>>, <<"2">>, TRUE, <<"0">>, <<>>)}

Entry(v) == <<Stamp(13), Stamp(13), v>>

MCLines(f) ==
  CASE f.kind \in {"FixedField", "IntField"} ->
         {<<>>} \cup {<<v>> : v \in Values(f)} \cup {<<Simple(<<"7">>, <<"*">> \o f.unit), Word(1)>>}
    [] f.kind = "TimestampedFixedField" ->
         {<<t, v>> : t \in Timestamps, v \in Few(f)}
         \cup {<<Stamp(13), v>> : v \in Values(f)}
         \cup {<<>>, <<Stamp(13)>>} \cup {<<Stamp(13), v, Word(1)>> : v \in Few(f)}
    [] f.kind = "LastFixedField" ->
         {<<>>} \cup {<<v>> : v \in Few(f)}
         \cup {<<w, v>> : w \in Stamps, v \in Few(f)}
         \cup {<<ObisText, w, v>> : w \in Words \cup Stamps, v \in Few(f)}
         \cup {<<v, w>> : w \in Words \cup {Stamp(3)}, v \in Few(f)}
    [] f.kind = "AveragedFixedField" ->
         {<<>>} \cup {<<c>> : c \in Counts}
         \cup {<<c, ObisText>> : c \in Counts}
         \cup {<<c, w, x>> : c \in Counts, w \in Stamps, x \in Stamps}
         \cup {<<c, ObisText, ObisText>> \o Entry(v) : c \in Counts, v \in Few(f)}
         \cup {<<c, ObisText, ObisText>> \o Entry(u) \o Entry(v) :
                 c \in Counts, u \in Few(f), v \in Few(f)}
         \cup {<<c, ObisText, ObisText>> \o Entry(v) \o <<w, Stamp(13), v>> :
                 c \in Counts, v \in Good(f), w \in Stamps}
=============================================================================
