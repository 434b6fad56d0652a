--------------------------- MODULE FieldDispatch ---------------------------
(***************************************************************************)
(* ParsedData::parse_line (parser.h) with fields of the catalogue: which   *)
(* field a line of a telegram fills, from its printed id to the field.     *)
(***************************************************************************)
EXTENDS FieldCatalogue

P == INSTANCE LineParsers

CONSTANTS Channels,     \* how the M-Bus channels may be chosen
          Arguments(_)  \* the template arguments of ParsedData: sequences
                        \* of fields of the catalogue

(* The identification has a line of its own at the head of the telegram. *)
DataFields(c) == Catalogue(c) \ Raw({<<255, 255, 255, 255, 255, 255>>})

(* Every meter of the M-Bus has a channel to itself; 0 is the main meter.  *)
ASSUME ChannelsAssumption ==
  \A c \in Channels : /\ c \in [{"gas", "water", "thermal", "sub"} -> 1..255]
                      /\ \A i, j \in DOMAIN c : i # j => c[i] # c[j]

(* No class is a base of ParsedData twice. *)
ASSUME ArgumentsAssumption ==
  \A c \in Channels :
    LET data == DataFields(c)
    IN  \A q \in Arguments(c) : /\ q \in Seq(data)
                                /\ \A i, j \in DOMAIN q : i # j => q[i] # q[j]

VARIABLES mbus, fields, line,
          filled   \* the positions of the fields that are present

vars == <<mbus, fields, line, filled>>

-----------------------------------------------------------------------------
Digit(n) == CHOOSE c \in DOMAIN P!DigitValues : P!DigitValues[c] = n
Printed(n) == IF n < 10 THEN <<Digit(n)>>
              ELSE IF n < 100 THEN <<Digit(n \div 10), Digit(n % 10)>>
              ELSE <<Digit(n \div 100), Digit((n \div 10) % 10), Digit(n % 10)>>

(* A meter prints the parts of an id up to the fifth. *)
Line(id) == Printed(id[0]) \o <<"-">> \o Printed(id[1]) \o <<":">>
            \o Printed(id[2]) \o <<".">> \o Printed(id[3]) \o <<".">>
            \o Printed(id[4]) \o <<"(">>

(* One line for each of the fields. *)
Init == /\ mbus \in Channels
        /\ fields \in Arguments(mbus)
        /\ line = 1
        /\ filled = {}

TryFieldsUpToFive(id) == {f \in DOMAIN fields :
                            \A i \in 0..3 : fields[f].id[i] = id[i]}
TryFields(id) == {f \in DOMAIN fields : fields[f].id = id}
FirstField(id) == {f \in TryFields(id) : \A g \in TryFields(id) : f <= g}

all_present == filled = DOMAIN fields

parse_line == /\ line <= Len(fields)
              /\ filled' = filled \cup FirstField(P!parse_obis(Line(fields[line].id)).id)
              /\ line' = line + 1
              /\ UNCHANGED <<mbus, fields>>

Spec == Init /\ [][parse_line]_vars

-----------------------------------------------------------------------------
(* The two fields for the gas meter, in m3 and in GJ, are alternatives.    *)
Alternatives(f, g) == /\ {f.kind, g.kind} = {"TimestampedFixedField"}
                      /\ {f.unit, g.unit} = {m3, GJ}
                      /\ f.id = ObisId(<<0, mbus.gas, 24, 2, 1>>)
HasAlternatives == \E f, g \in DOMAIN fields : Alternatives(fields[f], fields[g])

(* The line of a field fills that field and no other, so that a telegram   *)
(* with all the lines fills all the fields: no two ids of the catalogue    *)
(* are the same, on whichever channels the meters of the M-Bus are, and    *)
(* each of them is read from its printed form.                             *)
EachLineFillsItsField ==
  ~HasAlternatives => /\ filled = 1..(line - 1)
                      /\ line > Len(fields) => all_present

(* fields.h says that unit() and int_unit() "return the corresponding      *)
(* units for these values", val() and int_val(), the latter a thousand     *)
(* times the former: the units of a value that has one differ by as much.  *)
ThousandTimes == {<<kWh, Wh>>, <<kvarh, varh>>, <<kW, W>>, <<kvar, var>>,
                  <<kVA, VA>>, <<V, mV>>, <<A, mA>>, <<kHz, Hz>>, <<m3, dm3>>,
                  <<GJ, MJ>>}
HasUnit(f) == "int_unit" \in DOMAIN f /\ f.unit # none
IntUnitBelongsToIntValue ==
  \A i \in filled : HasUnit(fields[i])
    => <<fields[i].unit, fields[i].int_unit>> \in ThousandTimes
=============================================================================
