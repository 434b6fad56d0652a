---------------------------- MODULE NumericFields ----------------------------
(***************************************************************************)
(* The kinds of fields of fields.h that hold a number: one call of parse   *)
(* for the values of one line.  A line is given as the values it prints,   *)
(* so that what it says is known before it is read.                        *)
(***************************************************************************)
EXTENDS NumberParsers

CONSTANTS Fields,      \* [kind, unit, int_unit, value_t]
          Lines(_),    \* the lines a field may be given
          Bits         \* of the types of integer fields

VARIABLES field, line,
          status,      \* "called", "returned", or "trapped": a build with
                       \* UBSan stops at an overflow
          ok, rest,    \* the result
          value,       \* FixedValue::_value or the integer of the field
          timestamp

vars == <<field, line, status, ok, rest, value, timestamp>>

(* Not yet assigned; both are outside what can be read. *)
NoValue == IntMax + 1
NoTimestamp == <<>>

-----------------------------------------------------------------------------
(* A value in brackets is a record of the parts it is printed from.        *)
Body(v) == v.sign \o v.whole \o (IF v.point THEN <<".">> ELSE <<>>)
           \o v.fraction \o v.tail

(* The text of the values after the first n. *)
TextAfter(values, n) ==
  LET text[i \in 0..Len(values)] ==
        IF i = Len(values) THEN <<>>
        ELSE <<"(">> \o Body(values[i + 1]) \o <<")">> \o text[i + 1]
  IN  text[n]
Text(values) == TextAfter(values, 0)

Begins(text, characters) == text # <<>> /\ text[1] \in characters
Lacks(text, characters) == \A i \in DOMAIN text : text[i] \notin characters

PrintedValues == [sign : {<<>>, <<"-">>}, whole : Seq(STRING), point : BOOLEAN,
                  fraction : Seq(STRING), tail : Seq(STRING)]

(* Every text without brackets is the body of such a record: the whole     *)
(* part ends before a '.', a '*' or whatever else is not a digit.          *)
IsPrintedValue(v) ==
  /\ v \in PrintedValues
  /\ Lacks(v.whole, {".", "*", "(", ")"})
  /\ Lacks(v.fraction, {"*", "(", ")"})
  /\ Lacks(v.tail, {"(", ")"})
  /\ v.sign = <<>> => ~Begins(Body(v), {"-"})
  /\ ~Begins(v.tail, DOMAIN DigitValues)
  /\ ~v.point => v.fraction = <<>> /\ ~Begins(v.tail, {"."})

ASSUME LinesAssumption ==
  \A f \in Fields : \A l \in Lines(f) :
    l \in Seq(PrintedValues) /\ \A i \in DOMAIN l : IsPrintedValue(l[i])

(* A unit stands between a '*' and the ')'. *)
IsUnitText(unit) == unit \in Seq(STRING) /\ Lacks(unit, {")"})

ASSUME FieldsAssumption ==
  \A f \in Fields :
    /\ f.kind \in {"FixedField", "TimestampedFixedField", "LastFixedField",
                   "AveragedFixedField", "IntField"}
    /\ IsUnitText(f.unit)
    /\ IF f.kind = "IntField" THEN f.value_t \in DOMAIN Bits
       ELSE IsUnitText(f.int_unit)

ASSUME BitsAssumption ==
  \A t \in DOMAIN Bits : Bits[t] \in Nat \ {0} /\ 2^Bits[t] \in Nat \ {0}

-----------------------------------------------------------------------------
FixedField(f, text) == parse_float_or_int(3, f.unit, f.int_unit, text)

(* The values of the line are skipped up to the last one. *)
LastFixedField(f, text) ==
  LET after[n \in 0..Len(text)] ==
        IF n = 0 THEN text ELSE parse_string(1, 20, after[n - 1]).rest
      ends  == {n \in 0..Len(text) : after[n] = <<>>}
      count == Min(ends)
  IN  IF text = <<>> \/ ~parse_string(1, 20, after[count - 1]).ok
      THEN Refused(FALSE)
      ELSE FixedField(f, after[count - 1])

Narrow(n, type) == n % 2^Bits[type]

IntField(f, text) == LET r == parse_num(0, f.unit, text)
                     IN  [r EXCEPT !.val = Narrow(@, f.value_t)]

AfterTwoStrings(text) == parse_string(1, 20, parse_string(1, 20, text).rest)

(* The division of C++ rounds towards 0. *)
Quotient(n, d) == IF n >= 0 THEN n \div d ELSE -((-n) \div d)

(* One turn of the loop: two timestamps and a value are taken from what is *)
(* left.                                                                   *)
Add(f, total) ==
  LET r   == FixedField(f, AfterTwoStrings(total.rest).rest)
      sum == total.val + r.val
  IN  [ok |-> r.ok, val |-> Wrapped(sum), rest |-> r.rest,
       over |-> total.over \/ r.over \/ ~Fits(sum)]

AveragedFixedField(f, text) ==
  LET count  == parse_num(0, <<>>, text)
      header == AfterTwoStrings(count.rest)
      total[i \in 0..count.val] ==
        IF i = 0
        THEN [ok |-> TRUE, val |-> 0, rest |-> header.rest, over |-> count.over]
        ELSE Add(f, total[i - 1])
  IN  IF ~count.ok THEN count
      ELSE IF count.val = 0 THEN [count EXCEPT !.rest = <<>>]
      ELSE IF ~header.ok THEN Refused(count.over)
      ELSE IF count.val < 0 THEN [count EXCEPT !.val = 0, !.rest = header.rest]
      ELSE [total[count.val] EXCEPT !.val = Quotient(@, count.val)]

-----------------------------------------------------------------------------
Init == /\ field \in Fields
        /\ line \in Lines(field)
        /\ status = "called"
        /\ ok = FALSE
        /\ rest = <<>>
        /\ value = NoValue
        /\ timestamp = NoTimestamp

(* An overflow is undefined: the build either wraps around or stops.       *)
Return(r) ==
  /\ status = "called"
  /\ \/ /\ status' = "returned"
        /\ ok' = r.ok
        /\ rest' = r.rest
        /\ value' = IF r.ok THEN r.val ELSE value
     \/ /\ r.over
        /\ status' = "trapped"
        /\ UNCHANGED <<ok, rest, value>>
  /\ UNCHANGED <<field, line>>

parse_fixed == /\ field.kind = "FixedField"
               /\ Return(FixedField(field, Text(line)))
               /\ UNCHANGED timestamp

parse_last == /\ field.kind = "LastFixedField"
              /\ Return(LastFixedField(field, Text(line)))
              /\ UNCHANGED timestamp

parse_int == /\ field.kind = "IntField"
             /\ Return(IntField(field, Text(line)))
             /\ UNCHANGED timestamp

parse_averaged == /\ field.kind = "AveragedFixedField"
                  /\ Return(AveragedFixedField(field, Text(line)))
                  /\ UNCHANGED timestamp

(* The timestamp is stored before the number is read. *)
parse_timestamped ==
  LET ts == parse_string(13, 13, Text(line))
  IN  /\ field.kind = "TimestampedFixedField"
      /\ timestamp' = IF ts.ok THEN ts.val ELSE timestamp
      /\ Return(FixedField(field, ts.rest))

Next == \/ parse_fixed \/ parse_last \/ parse_int \/ parse_averaged
        \/ parse_timestamped

Spec == Init /\ [][Next]_vars
=============================================================================
