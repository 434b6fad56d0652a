--------------------------- MODULE TelegramFormat ---------------------------
(***************************************************************************)
(* Which telegrams DsmrParser accepts and what they contain, said without  *)
(* a scan: a telegram is cut at the ends of line that lie outside brackets *)
(* and are not followed by a bracket, each piece belongs to one field, and *)
(* no field has two.                                                       *)
(***************************************************************************)
EXTENDS Integers, Sequences, FiniteSets, FiniteSetsExt

CONSTANTS FieldIds, IdentificationId, ReadObis(_), ReadField(_, _),
          Consumes(_, _)

IsNewLine(c) == c \in {"\r", "\n"}

(* The end of the identification line; 0 when there is none. *)
IdEnd(s) == LET ends == {i \in DOMAIN s : IsNewLine(s[i])}
            IN  IF ends = {} THEN 0 ELSE Min(ends)

Body(s) == (IdEnd(s) + 1)..Len(s)

(* Two brackets of a kind in a row are one, written twice. *)
Count(s, c, i) == Cardinality({j \in Body(s) : /\ j < i
                                               /\ s[j] = c
                                               /\ s[j - 1] # c})
Open(s, i) == Count(s, "(", i) - Count(s, ")", i)

WellBracketed(s) ==
  /\ \A i \in Body(s) \cup {Len(s) + 1} : Open(s, i) \in {0, 1}
  /\ \A i \in Body(s) : i + 2 <= Len(s) /\ s[i] \in {"(", ")"}
                          => \E j \in {i + 1, i + 2} : s[j] # s[i]

Breaks(s) == {i \in Body(s) : /\ IsNewLine(s[i])
                              /\ Open(s, i) = 0
                              /\ i + 2 <= Len(s)
                                   => "(" \notin {s[i + 1], s[i + 2]}}

(* The line that ends at the break b. *)
LineAt(s, b) ==
  SubSeq(s, 1 + Max({IdEnd(s)} \cup {i \in Breaks(s) : i < b}), b - 1)

DataLines(s) == {b \in Breaks(s) : LineAt(s, b) # <<>>}

(* What the line that ends at b says: an id and the text behind it. *)
Entry(s, b) == IF b = IdEnd(s)
               THEN [ok |-> TRUE, id |-> IdentificationId,
                     rest |-> SubSeq(s, 1, b - 1)]
               ELSE ReadObis(LineAt(s, b))

(* Of two fields with the same id only the first one is ever filled. *)
Owner(id) == {f \in DOMAIN FieldIds : /\ FieldIds[f] = id
                                      /\ \A g \in 1..(f - 1) : FieldIds[g] # id}

(* The lines that belong to the field f. *)
Sources(s, f) == {b \in DataLines(s) \cup {IdEnd(s)} :
                    f \in Owner(Entry(s, b).id)}

(* A field that takes nothing of a line fills itself and leaves the line   *)
(* to nobody; one that takes a part of it must take the whole.             *)
Takers(s, b) == {f \in Owner(Entry(s, b).id) : Consumes(f, Entry(s, b).rest)}

GoodLine(s, b, strict) ==
  /\ Entry(s, b).ok
  /\ \A f \in Owner(Entry(s, b).id) : ReadField(f, Entry(s, b).rest).ok
  /\ b # IdEnd(s) =>
       /\ strict => Takers(s, b) # {}
       /\ \A f \in Takers(s, b) : ReadField(f, Entry(s, b).rest).rest = <<>>

Accepted(s, strict) ==
  \/ s = <<>>
  \/ /\ IdEnd(s) # 0
     /\ WellBracketed(s)
     /\ Len(s) \in Breaks(s) \cup {IdEnd(s)}
     /\ \A b \in DataLines(s) \cup {IdEnd(s)} : GoodLine(s, b, strict)
     /\ \A f \in DOMAIN FieldIds : Cardinality(Sources(s, f)) <= 1

(* The fields a telegram fills, and with what. *)
Filled(s) == IF s = <<>> THEN {}
             ELSE {f \in DOMAIN FieldIds : Sources(s, f) # {}}

Value(s, f) == LET b == CHOOSE b \in Sources(s, f) : TRUE
               IN  ReadField(f, Entry(s, b).rest).val
=============================================================================
