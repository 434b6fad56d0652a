--------------------------- MODULE PrintedNumbers ---------------------------
(***************************************************************************)
(* What a line of numbers says, read off the parts it is printed from, and *)
(* what the fields must make of it.                                        *)
(***************************************************************************)
EXTENDS NumericFields

AllDigits(s) == \A i \in DOMAIN s : IsDigit(s[i])

(* The sum of a sequence of numbers, and 10^0 to 10^n. *)
Total(numbers) == LET sum[i \in 0..Len(numbers)] ==
                        IF i = 0 THEN 0 ELSE sum[i - 1] + numbers[i]
                  IN  sum[Len(numbers)]
PowersOfTen(n) == LET power[i \in 0..n] == IF i = 0 THEN 1 ELSE 10 * power[i - 1]
                  IN  power

Number(s) ==
  Total([i \in 1..Len(s) |-> DigitValues[s[i]] * PowersOfTen(Len(s))[Len(s) - i]])

(* The digits that count when a value may have d decimals, and the text    *)
(* they leave.                                                             *)
Decimals(v, d) == SubSeq(v.fraction, 1, Min({d, Len(v.fraction)}))
Counted(v, d) == v.whole \o Decimals(v, d)
Left(v, d) == IF d = 0 /\ v.point THEN <<".">> \o v.fraction \o v.tail
              ELSE SubSeq(v.fraction, d + 1, Len(v.fraction)) \o v.tail

LowerText(s) == [i \in DOMAIN s |-> Lower(s[i])]
IsUnit(text, unit) ==
  IF unit = <<>> THEN text = <<>>
  ELSE Begins(text, {"*"}) /\ LowerText(Tail(text)) = LowerText(unit)

(* Without all its decimals a value ends with its unit.  A value of zero   *)
(* needs none.                                                             *)
Prints(v, d, unit) ==
  /\ AllDigits(Counted(v, d))
  /\ ~v.point \/ Len(v.fraction) < d => Left(v, d) = <<>> \/ Begins(Left(v, d), {"*"})
  /\ \/ IsUnit(Left(v, d), unit)
     \/ /\ unit # <<>>
        /\ Number(Counted(v, d)) = 0
        /\ ~Begins(Left(v, d), {"*", "."})

Sign(v) == IF v.sign = <<>> THEN 1 ELSE -1
Amount(v, d) == Sign(v) * Number(Counted(v, d)) * 10^(d - Len(Decimals(v, d)))

(* What a FixedField is to read: thousandths of the unit, or a whole       *)
(* number of the integer unit.                                             *)
IsReading(f, v) == Prints(v, 3, f.unit) \/ Prints(v, 0, f.int_unit)
Reading(f, v) == IF Prints(v, 3, f.unit) THEN Amount(v, 3) ELSE Amount(v, 0)

IsString(v, lengths) == Len(Body(v)) \in lengths

-----------------------------------------------------------------------------
(* The values of the line l that the field reads as numbers, and those it  *)
(* takes as strings.                                                       *)
Count(l) == Amount(l[1], 0)
Entries(l) == {3 + 3 * i : i \in 1..Count(l)}

Numbers(f, l) == CASE f.kind = "TimestampedFixedField" -> {2}
                   [] f.kind = "LastFixedField"        -> {Len(l)}
                   [] f.kind = "AveragedFixedField"    -> Entries(l)
                   [] OTHER                            -> {1}

Strings(f, l) ==
  CASE f.kind = "TimestampedFixedField" -> {1}
    [] f.kind = "LastFixedField"        -> DOMAIN l
    [] f.kind = "AveragedFixedField"    ->
         IF Count(l) = 0 THEN {}
         ELSE {2, 3} \cup UNION {{i - 2, i - 1} : i \in Entries(l)}
    [] OTHER                            -> {}

Lengths(f) == IF f.kind = "TimestampedFixedField" THEN {13} ELSE 1..20

HasCount(f, l) ==
  f.kind = "AveragedFixedField" => l # <<>> /\ Prints(l[1], 0, <<>>)

(* The line is one the field can be read from, and how much of it is. *)
Says(f, l) ==
  /\ HasCount(f, l)
  /\ Numbers(f, l) \cup Strings(f, l) \subseteq DOMAIN l
  /\ \A i \in Strings(f, l) : IsString(l[i], Lengths(f))
  /\ \A i \in Numbers(f, l) : IF f.kind = "IntField"
                              THEN Prints(l[i], 0, f.unit)
                              ELSE IsReading(f, l[i])

End(f, l) == IF f.kind = "AveragedFixedField" /\ Count(l) = 0 THEN Len(l)
             ELSE Max(Numbers(f, l) \cup Strings(f, l))

(* q is n / d rounded towards 0. *)
Rounds(q, n, d) == /\ q * n >= 0
                   /\ q * q * d * d <= n * n
                   /\ LET away == IF n < 0 THEN q - 1 ELSE q + 1
                      IN  away * away * d * d > n * n

(* The value n is what the line says. *)
IsValue(n, f, l) ==
  CASE f.kind = "IntField" ->
         /\ n \in 0..(2^Bits[f.value_t] - 1)
         /\ (Amount(l[1], 0) - n) % 2^Bits[f.value_t] = 0
    [] f.kind = "AveragedFixedField" ->
         IF Count(l) <= 0 THEN n = 0
         ELSE Rounds(n, Total([i \in 1..Count(l) |-> Reading(f, l[3 + 3 * i])]),
                     Count(l))
    [] OTHER -> \A i \in Numbers(f, l) : n = Reading(f, l[i])

-----------------------------------------------------------------------------
(* What the digits of a value come to for parse_num, in its last decimal.  *)
Magnitude(v, d) ==
  Number(LeadingDigits(Counted(v, d))) * 10^(d - Len(Decimals(v, d)))

MaxDecimals(f) == IF f.kind = "IntField" THEN 0 ELSE 3
Summands(f, l) == [i \in 1..Len(l) |-> IF i \in Numbers(f, l)
                                       THEN Magnitude(l[i], MaxDecimals(f)) ELSE 0]

(* The numbers of the line fit into an int32_t, one by one and together,   *)
(* and so does the count of an average.  What is taken as a string may     *)
(* have any digits: those of a timestamp never fit.                        *)
Small(f, l) ==
  /\ f.kind = "AveragedFixedField" /\ l # <<>> => Fits(Magnitude(l[1], 0))
  /\ HasCount(f, l) => Fits(Total(Summands(f, l)))

(* A line is read exactly when it has the form of its field, and then the  *)
(* field holds what it says and what follows is left for the caller: a     *)
(* missing unit, a decimal too many or a wrong count never yields a value  *)
(* that the meter did not print.                                           *)
FieldHoldsTheLine ==
  status = "returned" /\ Small(field, line) =>
    /\ ok <=> Says(field, line)
    /\ ok => /\ IsValue(value, field, line)
             /\ rest = TextAfter(line, End(field, line))
             /\ field.kind = "TimestampedFixedField"
                  => timestamp = Body(line[1])

(* A line of numbers that fit is read without an overflow, whichever of    *)
(* its values are refused on the way.                                      *)
SmallNumbersDoNotOverflow == status = "trapped" => ~Small(field, line)
=============================================================================
