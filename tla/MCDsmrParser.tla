---------------------------- MODULE MCDsmrParser ----------------------------
(***************************************************************************)
(* DsmrParser with the functions of LineParsers, on telegrams made of up   *)
(* to three lines of every shape parse tells apart.                        *)
(***************************************************************************)
EXTENDS DsmrParser

L == INSTANCE LineParsers

\* The beginnings of lines: the ids 1-0 to 4-0.
A == <<"1", "-">>
B == <<"2", "-">>
C == <<"3", "-">>
D == <<"4", "-">>

MCIdentificationId == [i \in 0..5 |-> 255]
Id(n) == [i \in 0..5 |-> CASE i = 0 -> n [] i = 1 -> 0 [] OTHER -> 255]

(* Two fields have the same id, as two of the gas meter in fields.h have.  *)
MCFieldIds == <<MCIdentificationId, Id(1), Id(2), Id(1), Id(4)>>

(* The first is a field of the caller's own that can refuse its value, the *)
(* third a RawField, and the last one a field of the caller's own that     *)
(* only notes that it has a line.  The others are StringFields.            *)
MCReadObis(text) == L!parse_obis(text)
MCReadField(f, text) == CASE f = 1 -> L!StringField(0, 1, text)
                          [] f = 3 -> L!RawField(text)
                          [] f = 5 -> [ok |-> TRUE, val |-> <<"x">>, rest |-> text]
                          [] OTHER -> L!StringField(1, 3, text)

MCConsumes(f, text) == f # 5

Good == {A \o <<"(", "x", ")">>, B \o <<"(", "x", ")">>, C \o <<"(", "x", ")">>,
         <<>>}
Odd  == {A \o <<"(", "(", "x", ")", ")">>,            \* a doubled bracket
         A \o <<"(", "\n">> \o A \o <<")">>,          \* a value of two lines
         B \o <<"(", "x", ")", "\n", "(", "y", ")">>, \* a continued line
         A \o <<"(", "x", "\r", "\n", "(", ")">>,
        D \o <<"(", ")">>}                            \* nothing is taken of it
Bad  == {D, A \o <<"(", "x">>, A \o <<"x", ")">>, A \o <<"(", ")">>, A, <<"x">>,
         A \o <<"(", "x", ")", "y">>, <<"(", "x", ")">>,
         B \o <<"(", "(", "(", "x", ")">>,
         <<"2", "5", "6", "-", "(", "x", ")">>}

Ends == {<<"\n">>, <<"\r", "\n">>}
IdLines == {<<"(", ")", "\n">>, <<"(", ")", "\r", "\n">>, <<"x", "\n">>,
            <<"(", ")">>, <<>>}

Ended(lines) == {l \o e : l \in lines, e \in Ends}
Pairs(S, T) == {s \o t : s \in S, t \in T}

Bodies == LET all == Ended(Good \cup Odd \cup Bad)
              few == Ended(Good \cup Odd)
          IN  {<<>>} \cup all \cup Pairs(all, all)
              \cup Pairs(few, Pairs(few, few))
              \cup Good \cup Pairs(few, Good)     \* without the last end

MCTelegrams ==
  LET id == <<"(", ")", "\n">>
  IN  {<<"/">> \o i \o b \o <<"!">> : i \in {id}, b \in Bodies}
      \cup {<<"/">> \o i \o b \o <<"!">> : i \in IdLines,
                                           b \in Ended(Good) \cup {<<>>}}

(* Telegrams that fill some of the fields, all that have a line of their   *)
(* own, none, and some before they are refused.                            *)
MCLaterTelegrams ==
  {<<"/">> \o l \o <<"!">> :
     l \in {A \o <<"(", "x", ")", "\n">>,
           <<"(", "y", ")", "\n">> \o A \o <<"(", "y", ")", "\n">>
              \o B \o <<"(", "y", ")", "\n">>,
           <<"x", "\n">>,
           <<"(", "\n">> \o B \o <<"(", "z", ")", "\n">>,
           <<"\n">> \o B \o <<"(", "z", ")", "\n">> \o A \o <<"(", ")", "\n">>,
           <<>>}}
=============================================================================
