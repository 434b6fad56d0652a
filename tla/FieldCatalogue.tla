--------------------------- MODULE FieldCatalogue ---------------------------
(***************************************************************************)
(* The fields of fields.h: the OBIS id, the kind and the units of each.  A *)
(* field is told from the others by what it is made of; its name is left   *)
(* out.  The channels of the meters on the M-Bus, DSMR_GAS_MBUS_ID and the *)
(* others, are chosen when the program is built.                           *)
(***************************************************************************)
EXTENDS Integers, Sequences

none == <<>>
kWh == <<"k", "W", "h">>
Wh == <<"W", "h">>
kW == <<"k", "W">>
W == <<"W">>
V == <<"V">>
mV == <<"m", "V">>
A == <<"A">>
mA == <<"m", "A">>
m3 == <<"m", "3">>
dm3 == <<"d", "m", "3">>
GJ == <<"G", "J">>
MJ == <<"M", "J">>
kvar == <<"k", "v", "a", "r">>
var == <<"v", "a", "r">>
kvarh == <<"k", "v", "a", "r", "h">>
varh == <<"v", "a", "r", "h">>
kVA == <<"k", "V", "A">>
VA == <<"V", "A">>
s == <<"s">>
Hz == <<"H", "z">>
kHz == <<"k", "H", "z">>

-----------------------------------------------------------------------------
(* A part of an id that is left out is 255. *)
ObisId(parts) == [i \in 0..5 |-> IF i < Len(parts) THEN parts[i + 1] ELSE 255]

(* DEFINE_FIELD for one id, by its parts, and for several ids at once.     *)
RawField(i) == [kind |-> "RawField", id |-> ObisId(i)]
StringField(min, max, i) ==
  [kind |-> "StringField", id |-> ObisId(i), min |-> min, max |-> max]
IntField(value_t, unit, i) ==
  [kind |-> "IntField", id |-> ObisId(i), value_t |-> value_t, unit |-> unit]
DecimalField(kind, unit, int_unit, i) ==
  [kind |-> kind, id |-> ObisId(i), unit |-> unit, int_unit |-> int_unit]

Raw(ids) == {RawField(i) : i \in ids}
Strings(min, max, ids) == {StringField(min, max, i) : i \in ids}
Timestamps(ids) == Strings(13, 13, ids)
Ints(value_t, unit, ids) == {IntField(value_t, unit, i) : i \in ids}
Decimal(kind, unit, int_unit, ids) ==
  {DecimalField(kind, unit, int_unit, i) : i \in ids}
Fixed(unit, int_unit, ids) == Decimal("FixedField", unit, int_unit, ids)
TimestampedFixed(unit, int_unit, ids) ==
  Decimal("TimestampedFixedField", unit, int_unit, ids)
AveragedFixed(unit, int_unit, ids) ==
  Decimal("AveragedFixedField", unit, int_unit, ids)

(* The ids a-b:c.d.e for c of C and e of E. *)
Ids(a, b, C, d, E) == {<<a, b, c, d, e>> : c \in C, e \in E}

-----------------------------------------------------------------------------
GeneralFields == Raw({<<255, 255, 255, 255, 255, 255>>})
                 \cup Strings(2, 2, {<<1, 3, 0, 2, 8>>})
                 \cup Strings(2, 96, {<<0, 0, 96, 1, 4>>})
                 \cup Timestamps({<<0, 0, 1, 0, 0>>})
                 \cup Strings(0, 96, {<<0, 0, 96, 1, 1>>})

EnergyFields == Fixed(kWh, Wh, Ids(1, 0, {1, 2}, 8, 0..4)
                               \cup Ids(1, 1, {1, 2}, 8, {1, 2})
                               \cup Ids(1, 0, {1, 2}, 8, 11..13))
                \cup Fixed(kvarh, varh, Ids(1, 0, {3, 4}, 8, 0..4))
                \cup Strings(2, 2, {<<0, 0, 96, 14, 1>>})
                \cup Raw({<<1, 0, 99, 1, 0>>})

(* Sags or swells of the voltage: how many, how long and how far.          *)
VoltageEvents(d) == Ints("uint32_t", none, Ids(1, 0, {32, 52, 72}, d, {0}))
                    \cup Ints("uint32_t", s, Ids(1, 0, {32, 52, 72}, d + 1, {0}))
                    \cup Ints("uint32_t", V, Ids(1, 0, {32, 52, 72}, d + 2, {0}))

MessageFields == Strings(0, 16, {<<0, 0, 96, 13, 1>>})
                 \cup Strings(0, 2048, {<<0, 0, 96, 13, 0>>})

(* The fields of the grid: power, switches, failures, sags and swells.     *)
GridFields ==
  Strings(4, 4, {<<0, 0, 96, 14, 0>>})
  \cup Fixed(kW, W, Ids(1, 0, {1, 2}, 7, {0}) \cup Ids(1, 1, {1, 2}, 7, {0})
                    \cup {<<0, 0, 17, 0, 0>>})
  \cup Fixed(kvar, var, Ids(1, 0, {3, 4}, 7, {0}))
  \cup Ints("uint8_t", none, {<<0, 0, 96, 3, 10>>})
  \cup Ints("uint32_t", none, Ids(0, 0, {96}, 7, {21, 9}))
  \cup Raw({<<1, 0, 99, 97, 0>>})
  \cup VoltageEvents(32) \cup VoltageEvents(36)
  \cup MessageFields

(* Instantaneous values: voltage, current, active, reactive and apparent   *)
(* power, for each phase and in all.                                       *)
InstantaneousFields ==
  Fixed(V, mV, Ids(1, 0, {32, 52, 72}, 7, {0}) \cup Ids(1, 0, {32, 52, 72}, 24, {0})
               \cup Ids(1, 0, {12}, 7, {0}))
  \cup Fixed(kHz, Hz, Ids(1, 0, {14}, 7, {0}))
  \cup Fixed(kW, W, Ids(1, 0, {15, 21, 41, 61, 22, 42, 62}, 7, {0}))
  \cup Fixed(A, mA, Ids(1, 0, {31, 51, 71, 11, 91, 90}, 7, {0})
                    \cup Ids(1, 0, {31, 51, 71}, 4, {0}))
  \cup Fixed(kvar, var, Ids(1, 0, {23, 43, 63, 24, 44, 64}, 7, {0}))
  \cup Fixed(kVA, VA, Ids(1, 0, {9, 29, 49, 69, 10, 30, 50, 70}, 7, {0}))
  \cup Fixed(kW, W, Ids(1, 0, {1, 16, 15}, 24, {0}))

(* The meters on the M-Bus, each on its channel. *)
MBusMeter(channel) == Ints("uint16_t", none, {<<0, channel, 24, 1, 0>>})
                      \cup Strings(0, 96, {<<0, channel, 96, 1, 0>>})
                      \cup Ints("uint8_t", none, {<<0, channel, 24, 4, 0>>})

MBusMeters(mbus) ==
  UNION {MBusMeter(mbus[m]) : m \in {"gas", "thermal", "water", "sub"}}

MBusFields(mbus) ==
  MBusMeters(mbus)
  \cup Strings(0, 96, {<<0, mbus.gas, 96, 1, 1>>})
  \cup TimestampedFixed(m3, dm3, Ids(0, mbus.gas, {24}, 2, {1, 3}))
  \cup TimestampedFixed(GJ, MJ, Ids(0, mbus.gas, {24}, 2, {1}))
  \cup Raw({<<0, mbus.gas, 24, 3, 0>>})
  \cup TimestampedFixed(GJ, MJ, Ids(0, mbus.thermal, {24}, 2, {1}))
  \cup TimestampedFixed(m3, dm3, {<<0, mbus[m], 24, 2, 1>> : m \in {"water", "sub"}})

(* Averages, maxima, firmware and power factors. *)
DemandFields ==
  Fixed(kW, W, Ids(1, 0, {1, 2}, 4, {0}) \cup Ids(1, 0, {1, 2}, 5, {0}))
  \cup Fixed(kvar, kvar, Ids(1, 0, {3, 4}, 4, {0}) \cup Ids(1, 0, {3, 4}, 5, {0}))
  \cup Fixed(kVA, VA, Ids(1, 0, {9, 10}, 4, {0}) \cup Ids(1, 0, {9, 10}, 5, {0}))
  \cup TimestampedFixed(kW, W, {<<1, 0, 1, 6, 0>>})
  \cup AveragedFixed(kW, W, {<<0, 0, 98, 1, 0>>})
  \cup Strings(0, 96, Ids(1, 0, {0}, 2, {0, 8}) \cup Ids(1, 1, {0}, 2, {0, 8}))
  \cup Fixed(none, none, Ids(1, 0, {13, 33, 53, 73}, 7, {0}) \cup {<<1, 0, 13, 3, 0>>})
  \cup Ints("uint32_t", s, {<<1, 0, 0, 8, 2>>})

Catalogue(mbus) == GeneralFields \cup EnergyFields \cup GridFields
                   \cup InstantaneousFields \cup MBusFields(mbus) \cup DemandFields
=============================================================================
