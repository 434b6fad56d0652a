------------------------ MODULE FieldDispatchProofs ------------------------
(***************************************************************************)
(* The line of a field fills that field and no other, for every choice of  *)
(* fields of the catalogue, in every order, and for every channel of every *)
(* meter on the M-Bus: parse_obis reads every id back from its printed     *)
(* form, and no two fields of the catalogue have one id, but for the two   *)
(* alternatives for the gas meter.                                         *)
(***************************************************************************)
EXTENDS FieldDispatch, SequenceTheorems, WellFoundedInduction, TLAPS

-----------------------------------------------------------------------------
(* parse_obis.                                                             *)

(* The digits, each with a value of its own.                               *)
LEMMA DigitsAre ==
  /\ DOMAIN P!DigitValues = {"0","1","2","3","4","5","6","7","8","9"}
  /\ \A c \in DOMAIN P!DigitValues : P!DigitValues[c] \in 0..9
  /\ \A n \in 0..9 : \E c \in DOMAIN P!DigitValues : P!DigitValues[c] = n
<1>1. DOMAIN P!DigitValues = {"0","1","2","3","4","5","6","7","8","9"}
  BY DEF P!DigitValues
<1>2. /\ P!DigitValues["0"] = 0 /\ P!DigitValues["1"] = 1
      /\ P!DigitValues["2"] = 2 /\ P!DigitValues["3"] = 3
      /\ P!DigitValues["4"] = 4 /\ P!DigitValues["5"] = 5
      /\ P!DigitValues["6"] = 6 /\ P!DigitValues["7"] = 7
      /\ P!DigitValues["8"] = 8 /\ P!DigitValues["9"] = 9
  BY DEF P!DigitValues
<1>3. \A c \in DOMAIN P!DigitValues : P!DigitValues[c] \in 0..9
  BY <1>1, <1>2
<1>4. \A n \in 0..9 : \E c \in DOMAIN P!DigitValues : P!DigitValues[c] = n
  <2> SUFFICES ASSUME NEW n \in 0..9
               PROVE  \E c \in DOMAIN P!DigitValues : P!DigitValues[c] = n
    OBVIOUS
  <2>1. \/ n = 0 \/ n = 1 \/ n = 2 \/ n = 3 \/ n = 4
        \/ n = 5 \/ n = 6 \/ n = 7 \/ n = 8 \/ n = 9
    OBVIOUS
  <2> QED BY <1>1, <1>2, <2>1
<1> QED BY <1>1, <1>3, <1>4


(* The characters of an id and the one that follows it. *)
Characters == DOMAIN P!DigitValues \cup {"-", ":", ".", "("}

(* What the loop of parse_obis has after each of k characters. *)
IsScan(sc, text, k) ==
  sc = [n \in 0..k |-> IF n = 0 THEN P!NothingRead
                      ELSE P!Turn(sc[n - 1], n, text[n])]

(* A set of naturals has a least element. *)
LEMMA LeastNatural ==
  ASSUME NEW T, T \subseteq Nat, T # {}
  PROVE  \E x \in T : \A y \in T : x <= y
<1>1. IsWellFoundedOn(OpToRel(<, Nat), Nat)
  BY NatLessThanWellFounded
<1>2. PICK x \in T : \A y \in T : <<y, x>> \notin OpToRel(<, Nat)
  BY <1>1, WFMin
<1>3. \A y \in T : ~(y < x) BY <1>2 DEF OpToRel
<1> QED BY <1>3

(* The recursion of Scan is one: there is no shortest text without a scan. *)
LEMMA ScanExists ==
  ASSUME NEW text, NEW k \in Nat PROVE \E sc : IsScan(sc, text, k)
<1> DEFINE T == {n \in Nat : ~\E sc : IsScan(sc, text, n)}
<1>1. T = {}
  <2> SUFFICES ASSUME T # {} PROVE FALSE
    OBVIOUS
  <2>1. PICK n \in T : \A m \in T : n <= m BY LeastNatural
  <2>2. n \in Nat /\ ~\E sc : IsScan(sc, text, n) OBVIOUS
  <2> DEFINE zero == [m \in 0..0 |-> P!NothingRead]
  <2>3. CASE n = 0
    <3>1. zero = [m \in 0..n |-> IF m = 0 THEN P!NothingRead
                                 ELSE P!Turn(zero[m - 1], m, text[m])]
      BY <2>3
    <3> QED BY <2>2, <3>1 DEF IsScan
  <2>4. CASE n # 0
    <3>1. n - 1 \in Nat /\ n - 1 \notin T BY <2>1, <2>2, <2>4
    <3>2. PICK sc : IsScan(sc, text, n - 1) BY <3>1
    <3> DEFINE longer == [m \in 0..n |-> IF m < n THEN sc[m]
                                         ELSE P!Turn(sc[n - 1], n, text[n])]
    <3>3. \A m \in 0..(n - 1) :
            sc[m] = IF m = 0 THEN P!NothingRead
                   ELSE P!Turn(sc[m - 1], m, text[m])
      BY <3>2, Zenon DEF IsScan
    <3>4. \A m \in 0..n :
            longer[m] = IF m = 0 THEN P!NothingRead
                        ELSE P!Turn(longer[m - 1], m, text[m])
      <4> SUFFICES ASSUME NEW m \in 0..n
                   PROVE  longer[m] = IF m = 0 THEN P!NothingRead
                                      ELSE P!Turn(longer[m - 1], m, text[m])
        OBVIOUS
      <4>1. CASE m < n
        <5>1. m \in 0..(n - 1) /\ longer[m] = sc[m] BY <2>2, <4>1
        <5>2. m # 0 => longer[m - 1] = sc[m - 1] BY <2>2, <4>1
        <5> QED BY <3>3, <5>1, <5>2
      <4>2. CASE m = n
        <5>1. longer[m] = P!Turn(sc[n - 1], n, text[n]) BY <2>2, <4>2
        <5>2. longer[m - 1] = sc[n - 1] BY <2>2, <2>4, <4>2
        <5> QED BY <2>4, <4>2, <5>1, <5>2
      <4> QED BY <2>2, <4>1, <4>2
    <3>5. longer = [m \in 0..n |-> longer[m]] OBVIOUS
    <3> HIDE DEF longer
    <3>6. longer = [m \in 0..n |-> IF m = 0 THEN P!NothingRead
                                   ELSE P!Turn(longer[m - 1], m, text[m])]
      BY <3>4, <3>5
    <3> QED BY <2>2, <3>6, Zenon DEF IsScan
  <2> QED BY <2>3, <2>4
<1> QED BY <1>1

(* What parse_obis works with is such a scan. *)
LEMMA ScanIs ==
  ASSUME NEW text, Len(text) \in Nat
  PROVE  \E sc : IsScan(sc, text, Len(text)) /\ P!Scan(text) = sc[Len(text)]
<1>1. P!Scan(text) = (CHOOSE sc : IsScan(sc, text, Len(text)))[Len(text)]
  BY DEF P!Scan, IsScan
<1>2. IsScan(CHOOSE sc : IsScan(sc, text, Len(text)), text, Len(text))
  BY ScanExists
<1> QED BY <1>1, <1>2

-----------------------------------------------------------------------------
(* What has been read of an id, whatever follows it. *)
ReadTo(w, p, v) ==
  \A u \in Seq(Characters) : \A sc :
    IsScan(sc, w \o u, Len(w \o u)) => sc[Len(w)] = P!HasRead(v, p, Len(w))

(* At first nothing. *)
LEMMA ReadNothing == ReadTo(<<>>, 0, [i \in 0..5 |-> 0])
<1> SUFFICES ASSUME NEW u \in Seq(Characters), NEW sc,
                    IsScan(sc, <<>> \o u, Len(<<>> \o u))
             PROVE  sc[0] = P!HasRead([i \in 0..5 |-> 0], 0, 0)
  BY Zenon, EmptySeq DEF ReadTo
<1>1. Len(<<>> \o u) \in Nat BY ConcatProperties, EmptySeq, LenProperties
<1>2. sc[0] = P!NothingRead BY <1>1 DEF IsScan
<1> QED BY <1>2, Zenon DEF P!NothingRead

(* One more character. *)
LEMMA ReadMore ==
  ASSUME NEW w \in Seq(Characters), NEW c \in Characters,
         NEW p, NEW v, NEW q, NEW x,
         ReadTo(w, p, v),
         P!Turn(P!HasRead(v, p, Len(w)), Len(w) + 1, c)
           = P!HasRead(x, q, Len(w) + 1)
  PROVE  ReadTo(w \o <<c>>, q, x) /\ w \o <<c>> \in Seq(Characters)
<1>1. /\ <<c>> \in Seq(Characters) /\ Len(<<c>>) = 1 /\ <<c>>[1] = c
      /\ Len(w) \in Nat
  <2>1. <<c>> \in Seq(Characters) /\ Len(<<c>>) = 1 /\ <<c>>[1] = c
    OBVIOUS
  <2> QED BY <2>1, LenProperties
<1>2. w \o <<c>> \in Seq(Characters) /\ Len(w \o <<c>>) = Len(w) + 1
  BY <1>1, ConcatProperties
<1>3. ASSUME NEW u \in Seq(Characters), NEW sc,
             IsScan(sc, (w \o <<c>>) \o u, Len((w \o <<c>>) \o u))
      PROVE  sc[Len(w) + 1] = P!HasRead(x, q, Len(w) + 1)
  <2> DEFINE t == w \o (<<c>> \o u)
  <2>1. (w \o <<c>>) \o u = t BY <1>1, ConcatAssociative
  <2>2. /\ <<c>> \o u \in Seq(Characters) /\ (<<c>> \o u)[1] = c
        /\ Len(<<c>> \o u) = 1 + Len(u) /\ Len(u) \in Nat
    <3>1. /\ <<c>> \o u \in Seq(Characters)
          /\ Len(<<c>> \o u) = Len(<<c>>) + Len(u)
          /\ \A i \in 1..(Len(<<c>>) + Len(u)) :
               (<<c>> \o u)[i] = IF i <= Len(<<c>>) THEN <<c>>[i]
                                 ELSE u[i - Len(<<c>>)]
      BY <1>1, ConcatProperties, Zenon
    <3>2. Len(u) \in Nat BY LenProperties
    <3>3. 1 \in 1..(Len(<<c>>) + Len(u)) BY <1>1, <3>2
    <3> QED BY <1>1, <3>1, <3>2, <3>3
  <2>3. Len(t) = Len(w) + (1 + Len(u)) /\ t[Len(w) + 1] = c
    <3> DEFINE z == <<c>> \o u
    <3>1. z \in Seq(Characters) /\ z[1] = c /\ Len(z) = 1 + Len(u) BY <2>2
    <3> HIDE DEF z
    <3>2. /\ Len(w \o z) = Len(w) + Len(z)
          /\ \A i \in 1..(Len(w) + Len(z)) :
               (w \o z)[i] = IF i <= Len(w) THEN w[i] ELSE z[i - Len(w)]
      <4>1. z \in Seq(Characters) BY <3>1
      <4> QED BY <4>1, ConcatProperties
    <3>3. /\ Len(w) + 1 \in 1..(Len(w) + Len(z))
          /\ ~(Len(w) + 1 <= Len(w)) /\ (Len(w) + 1) - Len(w) = 1
      BY <1>1, <2>2, <3>1
    <3>4. (w \o z)[Len(w) + 1] = c BY <3>1, <3>2, <3>3
    <3> QED BY <3>1, <3>2, <3>4 DEF z
  <2>4. sc[Len(w)] = P!HasRead(v, p, Len(w)) BY <1>3, <2>1, <2>2 DEF ReadTo
  <2> HIDE DEF t
  <2>5. IsScan(sc, t, Len(t)) BY <1>3, <2>1
  <2>6. Len(w) + 1 \in 0..Len(t) /\ Len(w) + 1 # 0 /\ (Len(w) + 1) - 1 = Len(w)
    BY <1>1, <2>2, <2>3
  <2>7. sc[Len(w) + 1] = P!Turn(sc[Len(w)], Len(w) + 1, t[Len(w) + 1])
    BY <2>5, <2>6 DEF IsScan
  <2> QED BY <2>3, <2>4, <2>7
<1> QED BY <1>2, <1>3 DEF ReadTo

(* A digit belongs to the part.                                            *)
LEMMA ReadDigit ==
  ASSUME NEW w \in Seq(Characters), NEW c \in DOMAIN P!DigitValues,
         NEW p \in 0..5, NEW v \in [0..5 -> Nat], ReadTo(w, p, v),
         v[p] * 10 + P!DigitValues[c] <= 255
  PROVE  /\ ReadTo(w \o <<c>>, p,
                   [v EXCEPT ![p] = v[p] * 10 + P!DigitValues[c]])
         /\ w \o <<c>> \in Seq(Characters)
<1>1. c \in Characters /\ Len(w) \in Nat /\ P!DigitValues[c] \in 0..9
  <2>1. c \in Characters BY DEF Characters
  <2>2. P!DigitValues[c] \in 0..9 BY DigitsAre
  <2>3. Len(w) \in Nat BY LenProperties
  <2> QED BY <2>1, <2>2, <2>3
<1>2. P!IsDigit(c) /\ ~P!Overflows(v[p], c)
  <2>1. v[p] \in Nat OBVIOUS
  <2>2. P!IsDigit(c) BY DEF P!IsDigit
  <2>3. \A a \in Nat, d \in 0..9 : a * 10 + d <= 255 => ~(a * 10 + d > 255)
    OBVIOUS
  <2>4. ~(v[p] * 10 + P!DigitValues[c] > 255) BY <1>1, <2>1, <2>3, Zenon
  <2> QED BY <2>2, <2>4 DEF P!Overflows
<1>3. P!Turn(P!HasRead(v, p, Len(w)), Len(w) + 1, c)
        = P!HasRead([v EXCEPT ![p] = v[p] * 10 + P!DigitValues[c]], p, Len(w) + 1)
  <2> DEFINE r == P!HasRead(v, p, Len(w))
             n == Len(w) + 1
  <2>1. r.v = v /\ r.part = p /\ r.over = FALSE /\ ~(r.read < n - 1)
    BY <1>1 DEF P!HasRead
  <2> HIDE DEF r, n
  <2>2. P!Turn(r, n, c) =
          P!HasRead([r.v EXCEPT ![r.part] = @ * 10 + P!DigitValues[c]],
                    r.part, n)
    BY <1>2, <2>1 DEF P!Turn
  <2> QED BY <2>1, <2>2, Zenon DEF r, n
<1> QED BY <1>1, <1>3, ReadMore

(* A separator ends the part.                                              *)
LEMMA ReadSeparator ==
  ASSUME NEW w \in Seq(Characters), NEW c \in {"-", ":", "."},
         NEW p \in 0..4, NEW v, ReadTo(w, p, v), P!Separates(c, p)
  PROVE  ReadTo(w \o <<c>>, p + 1, v) /\ w \o <<c>> \in Seq(Characters)
<1>1. c \in Characters /\ Len(w) \in Nat
  BY LenProperties DEF Characters
<1>2. ~P!IsDigit(c) BY DigitsAre DEF P!IsDigit
<1>3. P!Turn(P!HasRead(v, p, Len(w)), Len(w) + 1, c)
        = P!HasRead(v, p + 1, Len(w) + 1)
  <2> DEFINE r == P!HasRead(v, p, Len(w))
             n == Len(w) + 1
  <2>1. r.v = v /\ r.part = p /\ r.over = FALSE /\ ~(r.read < n - 1)
    BY <1>1 DEF P!HasRead
  <2> HIDE DEF r, n
  <2>2. P!Turn(r, n, c) = P!HasRead(r.v, r.part + 1, n)
    BY <1>2, <2>1 DEF P!Turn
  <2> QED BY <2>1, <2>2, Zenon DEF r, n
<1> QED BY <1>1, <1>3, ReadMore

(* A sequence is its front and its last element. *)
LEMMA FrontAndLast ==
  ASSUME NEW S, NEW x \in Seq(S), NEW y \in Seq(S), NEW b \in S,
         Len(y) = Len(x) + 1, y[Len(x) + 1] = b,
         \A i \in 1..Len(x) : y[i] = x[i]
  PROVE  x \o <<b>> = y
<1>1. x \o <<b>> = Append(x, b) BY AppendIsConcat
<1>2. /\ Append(x, b) \in Seq(S) /\ Len(Append(x, b)) = Len(x) + 1
      /\ \A i \in 1..Len(x) : Append(x, b)[i] = x[i]
      /\ Append(x, b)[Len(x) + 1] = b
  BY AppendProperties
<1>3. Len(x) \in Nat BY LenProperties
<1>4. \A i \in 1..(Len(x) + 1) : i \in 1..Len(x) \/ i = Len(x) + 1 BY <1>3
<1>5. \A i \in 1..Len(y) : y[i] = Append(x, b)[i] BY <1>2, <1>4
<1>6. y = Append(x, b) BY <1>2, <1>5, SeqEqual
<1> QED BY <1>1, <1>6

(* What is appended one by one, and what is appended at once. *)
LEMMA Pieces ==
  ASSUME NEW w \in Seq(Characters), NEW a \in Characters,
         NEW b \in Characters, NEW c \in Characters
  PROVE  /\ w \o <<a>> \o <<b>> = w \o <<a, b>>
         /\ w \o <<a>> \o <<b>> \o <<c>> = w \o <<a, b, c>>
<1>1. /\ <<a>> \in Seq(Characters) /\ <<b>> \in Seq(Characters) /\ <<c>> \in Seq(Characters)
      /\ <<a, b>> \in Seq(Characters) /\ <<a, b, c>> \in Seq(Characters)
  OBVIOUS
<1>2. <<a>> \o <<b>> = <<a, b>>
  <2> DEFINE x == <<a>>
             y == <<a, b>>
  <2>1. /\ x \in Seq(Characters) /\ y \in Seq(Characters)
        /\ Len(y) = Len(x) + 1 /\ y[Len(x) + 1] = b
        /\ \A i \in 1..Len(x) : y[i] = x[i]
    OBVIOUS
  <2> HIDE DEF x, y
  <2>2. x \o <<b>> = y BY <2>1, FrontAndLast
  <2> QED BY <2>2 DEF x, y
<1>3. <<a, b>> \o <<c>> = <<a, b, c>>
  <2> DEFINE x == <<a, b>>
             y == <<a, b, c>>
  <2>1. /\ x \in Seq(Characters) /\ y \in Seq(Characters)
        /\ Len(y) = Len(x) + 1 /\ y[Len(x) + 1] = c
        /\ \A i \in 1..Len(x) : y[i] = x[i]
    OBVIOUS
  <2> HIDE DEF x, y
  <2>2. x \o <<c>> = y BY <2>1, FrontAndLast
  <2> QED BY <2>2 DEF x, y
<1>4. w \o <<a>> \o <<b>> = w \o <<a, b>>
  <2>1. w \o <<a>> \o <<b>> = w \o (<<a>> \o <<b>>)
    <3> DEFINE x == <<a>>
               y == <<b>>
    <3>1. x \in Seq(Characters) /\ y \in Seq(Characters) BY <1>1
    <3> HIDE DEF x, y
    <3>2. w \o x \o y = w \o (x \o y) BY <3>1, ConcatAssociative, SMTT(60)
    <3> QED BY <3>2 DEF x, y
  <2> QED BY <1>2, <2>1
<1>5. w \o <<a, b>> \o <<c>> = w \o <<a, b, c>>
  <2>1. w \o <<a, b>> \o <<c>> = w \o (<<a, b>> \o <<c>>)
    <3> DEFINE x == <<a, b>>
               y == <<c>>
    <3>1. x \in Seq(Characters) /\ y \in Seq(Characters) BY <1>1
    <3> HIDE DEF x, y
    <3>2. w \o x \o y = w \o (x \o y) BY <3>1, ConcatAssociative, SMTT(60)
    <3> QED BY <3>2 DEF x, y
  <2> QED BY <1>3, <2>1
<1> QED BY <1>4, <1>5

(* A number of up to three digits sets the part.                           *)
LEMMA ReadNumber ==
  ASSUME NEW w \in Seq(Characters), NEW x \in 0..255,
         NEW p \in 0..5, NEW v \in [0..5 -> Nat], ReadTo(w, p, v), v[p] = 0
  PROVE  /\ ReadTo(w \o Printed(x), p, [v EXCEPT ![p] = x])
         /\ w \o Printed(x) \in Seq(Characters)
<1>1. \A n \in 0..9 : /\ Digit(n) \in DOMAIN P!DigitValues
                      /\ P!DigitValues[Digit(n)] = n
  BY DigitsAre, Zenon DEF Digit
<1>2. \A n \in 0..9 : Digit(n) \in Characters
  BY <1>1, Zenon DEF Characters
<1>3. ASSUME NEW u \in Seq(Characters), NEW n \in 0..9, NEW y \in Nat,
             ReadTo(u, p, [v EXCEPT ![p] = y]), y * 10 + n <= 255
      PROVE  /\ ReadTo(u \o <<Digit(n)>>, p, [v EXCEPT ![p] = y * 10 + n])
             /\ u \o <<Digit(n)>> \in Seq(Characters)
  <2> DEFINE vy == [v EXCEPT ![p] = y]
  <2>1. vy \in [0..5 -> Nat] /\ vy[p] = y OBVIOUS
  <2>2. [vy EXCEPT ![p] = y * 10 + n] = [v EXCEPT ![p] = y * 10 + n] OBVIOUS
  <2>3. ReadTo(u, p, vy) BY <1>3
  <2> HIDE DEF vy
  <2>4. /\ ReadTo(u \o <<Digit(n)>>, p,
                 [vy EXCEPT ![p] = vy[p] * 10 + P!DigitValues[Digit(n)]])
        /\ u \o <<Digit(n)>> \in Seq(Characters)
    <3>1. Digit(n) \in DOMAIN P!DigitValues /\ P!DigitValues[Digit(n)] = n
      BY <1>1
    <3>2. vy[p] * 10 + P!DigitValues[Digit(n)] <= 255 BY <1>3, <2>1, <3>1
    <3> QED BY <2>1, <2>3, <3>1, <3>2, ReadDigit, Zenon
  <2> QED BY <1>1, <2>1, <2>2, <2>4, Zenon
<1>4. ReadTo(w, p, [v EXCEPT ![p] = 0])
  <2>1. [v EXCEPT ![p] = 0] = v OBVIOUS
  <2> QED BY <2>1
<1>5. CASE x < 10
  <2>1. x \in 0..9 /\ 0 * 10 + x = x /\ 0 * 10 + x <= 255 BY <1>5
  <2>2. Printed(x) = <<Digit(x)>> BY <1>5, Zenon DEF Printed
  <2>3. /\ ReadTo(w \o <<Digit(x)>>, p, [v EXCEPT ![p] = 0 * 10 + x])
        /\ w \o <<Digit(x)>> \in Seq(Characters)
    BY <1>3, <1>4, <2>1, ZenonT(60)
  <2> QED BY <2>1, <2>2, <2>3, Zenon
<1>6. CASE ~(x < 10) /\ x < 100
  <2> DEFINE a == x \div 10
             b == x % 10
  <2>1. /\ a \in 0..9 /\ b \in 0..9 /\ 0 * 10 + a = a /\ 0 * 10 + a <= 255
        /\ a * 10 + b = x /\ a * 10 + b <= 255 /\ a \in Nat
    BY <1>6
  <2>2. Printed(x) = <<Digit(a), Digit(b)>> BY <1>6, Zenon DEF Printed
  <2> HIDE DEF a, b
  <2>3. /\ ReadTo(w \o <<Digit(a)>>, p, [v EXCEPT ![p] = 0 * 10 + a])
        /\ w \o <<Digit(a)>> \in Seq(Characters)
    BY <1>3, <1>4, <2>1, ZenonT(60)
  <2>4. /\ ReadTo(w \o <<Digit(a)>> \o <<Digit(b)>>, p,
                 [v EXCEPT ![p] = a * 10 + b])
        /\ w \o <<Digit(a)>> \o <<Digit(b)>> \in Seq(Characters)
    <3>1. ReadTo(w \o <<Digit(a)>>, p, [v EXCEPT ![p] = a])
      BY <2>1, <2>3, Zenon
    <3> QED BY <1>3, <2>1, <2>3, <3>1
  <2>5. w \o <<Digit(a)>> \o <<Digit(b)>> = w \o <<Digit(a), Digit(b)>>
    <3>1. \A d, e \in Characters : w \o <<d>> \o <<e>> = w \o <<d, e>>
      BY Pieces
    <3> QED BY <1>2, <2>1, <3>1, ZenonT(60)
  <2> QED BY <2>1, <2>2, <2>4, <2>5, Zenon
<1>7. CASE ~(x < 100)
  <2> DEFINE a == x \div 100
             b == (x \div 10) % 10
             c == x % 10
             y == a * 10 + b
  <2>1. /\ a \in 0..9 /\ b \in 0..9 /\ c \in 0..9
        /\ 0 * 10 + a = a /\ 0 * 10 + a <= 255
        /\ y \in Nat /\ y <= 255 /\ y * 10 + c = x /\ y * 10 + c <= 255
        /\ a \in Nat
    <3> DEFINE q == x \div 10
    <3>1. q \in 0..25 /\ c \in 0..9 /\ x = q * 10 + c OBVIOUS
    <3>2. a = q \div 10 OBVIOUS
    <3>3. b = q % 10 /\ y = a * 10 + b OBVIOUS
    <3> HIDE DEF a, b, c, q, y
    <3>4. a \in 0..2 /\ b \in 0..9 /\ q = a * 10 + b BY <3>1, <3>2, <3>3
    <3> QED BY <3>1, <3>3, <3>4
  <2>2. Printed(x) = <<Digit(a), Digit(b), Digit(c)>>
    <3>1. ~(x < 10) /\ ~(x < 100) BY <1>7
    <3> QED BY <3>1, Zenon DEF Printed
  <2>3. y = a * 10 + b OBVIOUS
  <2> HIDE DEF a, b, c, y
  <2>4. /\ ReadTo(w \o <<Digit(a)>>, p, [v EXCEPT ![p] = 0 * 10 + a])
        /\ w \o <<Digit(a)>> \in Seq(Characters)
    BY <1>3, <1>4, <2>1, ZenonT(60)
  <2>5. /\ ReadTo(w \o <<Digit(a)>> \o <<Digit(b)>>, p,
                 [v EXCEPT ![p] = a * 10 + b])
        /\ w \o <<Digit(a)>> \o <<Digit(b)>> \in Seq(Characters)
    <3>1. ReadTo(w \o <<Digit(a)>>, p, [v EXCEPT ![p] = a])
      BY <2>1, <2>4, Zenon
    <3>2. a * 10 + b <= 255 BY <2>1, <2>3
    <3> QED BY <1>3, <2>1, <2>4, <3>1, <3>2, ZenonT(60)
  <2>6. /\ ReadTo(w \o <<Digit(a)>> \o <<Digit(b)>> \o <<Digit(c)>>, p,
                 [v EXCEPT ![p] = y * 10 + c])
        /\ w \o <<Digit(a)>> \o <<Digit(b)>> \o <<Digit(c)>> \in Seq(Characters)
    <3>1. ReadTo(w \o <<Digit(a)>> \o <<Digit(b)>>, p, [v EXCEPT ![p] = y])
      BY <2>3, <2>5, Zenon
    <3> QED BY <1>3, <2>1, <2>5, <3>1, ZenonT(60)
  <2>7. w \o <<Digit(a)>> \o <<Digit(b)>> \o <<Digit(c)>>
          = w \o <<Digit(a), Digit(b), Digit(c)>>
    <3>1. \A d, e, f \in Characters :
            w \o <<d>> \o <<e>> \o <<f>> = w \o <<d, e, f>>
      BY Pieces, ZenonT(60)
    <3> QED BY <1>2, <2>1, <3>1, ZenonT(60)
  <2> QED BY <2>1, <2>2, <2>6, <2>7, ZenonT(60)
<1> QED BY <1>5, <1>6, <1>7

(* The ids that a line can carry: its sixth part is never printed.         *)
PrintableIds == {id \in [0..5 -> 0..255] : id[5] = 255}

(* parse_obis reads an id of a line back, whatever its parts are.          *)
LEMMA IdIsReadBack ==
  ASSUME NEW id \in PrintableIds PROVE P!parse_obis(Line(id)).id = id
<1> DEFINE v0 == [i \in 0..5 |-> 0]
           v1 == [v0 EXCEPT ![0] = id[0]]
           v2 == [v1 EXCEPT ![1] = id[1]]
           v3 == [v2 EXCEPT ![2] = id[2]]
           v4 == [v3 EXCEPT ![3] = id[3]]
           v5 == [v4 EXCEPT ![4] = id[4]]
           w1 == Printed(id[0]) \o <<"-">>
           w2 == w1 \o Printed(id[1]) \o <<":">>
           w3 == w2 \o Printed(id[2]) \o <<".">>
           w4 == w3 \o Printed(id[3]) \o <<".">>
           w5 == w4 \o Printed(id[4])
<1>1. \A i \in 0..4 : id[i] \in 0..255 BY DEF PrintableIds
<1>2. /\ id[0] \in 0..255 /\ id[1] \in 0..255 /\ id[2] \in 0..255
      /\ id[3] \in 0..255 /\ id[4] \in 0..255
  BY <1>1
<1>3. v0 \in [0..5 -> Nat] /\ v0[0] = 0 OBVIOUS
<1>4. v1 \in [0..5 -> Nat] /\ v1[1] = 0 BY <1>2
<1>5. v2 \in [0..5 -> Nat] /\ v2[2] = 0 BY <1>2, SMTT(60)
<1>6. v3 \in [0..5 -> Nat] /\ v3[3] = 0 BY <1>2, SMTT(60)
<1>7. v4 \in [0..5 -> Nat] /\ v4[4] = 0 BY <1>2, SMTT(60)
<1>8. v5 \in [0..5 -> Nat] /\ \A i \in 0..4 : v5[i] = id[i]
  <2>1. \A i \in 0..4 : i = 0 \/ i = 1 \/ i = 2 \/ i = 3 \/ i = 4 OBVIOUS
  <2> QED BY <1>2, <2>1, SMTT(60)
<1>9. w5 \o <<"(">> = Line(id) BY Zenon DEF Line
<1>10. ReadTo(<<>>, 0, v0) BY ReadNothing
<1> HIDE DEF v0
<1>11. /\ ReadTo(Printed(id[0]), 0, v1) /\ Printed(id[0]) \in Seq(Characters)
  <2>1. <<>> \in Seq(Characters) /\ Printed(id[0]) \in Seq(Characters)
        /\ <<>> \o Printed(id[0]) = Printed(id[0])
    <3>1. <<>> \in Seq(Characters) BY EmptySeq
    <3>2. \A n \in 0..9 : Digit(n) \in Characters
      BY DigitsAre, Zenon DEF Digit, Characters
    <3>3. /\ \A a \in Characters : <<a>> \in Seq(Characters)
          /\ \A a, b \in Characters : <<a, b>> \in Seq(Characters)
          /\ \A a, b, c \in Characters : <<a, b, c>> \in Seq(Characters)
      OBVIOUS
    <3>4. /\ id[0] < 10 => id[0] \in 0..9
          /\ id[0] < 100 => id[0] \div 10 \in 0..9
          /\ id[0] % 10 \in 0..9 /\ id[0] \div 100 \in 0..9
          /\ (id[0] \div 10) % 10 \in 0..9
      BY <1>2
    <3>5. Printed(id[0]) \in Seq(Characters)
      BY <3>2, <3>3, <3>4, Zenon DEF Printed
    <3> QED BY <3>1, <3>5, ConcatEmptySeq
  <2>2. ReadTo(<<>> \o Printed(id[0]), 0, v1)
    <3>1. 0 \in 0..5 OBVIOUS
    <3> QED BY <1>2, <1>3, <1>10, <2>1, <3>1, ReadNumber, Zenon
  <2> QED BY <2>1, <2>2, Zenon
<1> HIDE DEF v1
<1>12. ReadTo(w1, 1, v1) /\ w1 \in Seq(Characters)
  <2>1. /\ 0 \in 0..4 /\ 0 + 1 = 1 /\ "-" \in {"-", ":", "."}
        /\ P!Separates("-", 0)
    BY DEF P!Separates
  <2>2. /\ ReadTo(Printed(id[0]) \o <<"-">>, 0 + 1, v1)
        /\ Printed(id[0]) \o <<"-">> \in Seq(Characters)
    BY <1>11, <2>1, ReadSeparator, Zenon
  <2> QED BY <2>1, <2>2, Zenon
<1> HIDE DEF w1
<1>13. ASSUME NEW w \in Seq(Characters), NEW v \in [0..5 -> Nat], NEW p \in 1..4,
              v[p] = 0, ReadTo(w, p, v)
       PROVE  /\ ReadTo(w \o Printed(id[p]), p, [v EXCEPT ![p] = id[p]])
              /\ w \o Printed(id[p]) \in Seq(Characters)
  <2>1. p \in 0..5 /\ id[p] \in 0..255
    <3>1. p \in 0..5 /\ p \in 0..4 OBVIOUS
    <3> QED BY <1>1, <3>1, Zenon
  <2> QED BY <1>13, <2>1, ReadNumber, Zenon
<1>14. ASSUME NEW w \in Seq(Characters), NEW v \in [0..5 -> Nat], NEW p \in 1..3,
              NEW c \in {"-", ":", "."}, P!Separates(c, p),
              v[p] = 0, ReadTo(w, p, v)
       PROVE  /\ ReadTo(w \o Printed(id[p]) \o <<c>>, p + 1,
                        [v EXCEPT ![p] = id[p]])
              /\ w \o Printed(id[p]) \o <<c>> \in Seq(Characters)
  <2>1. p \in 1..4 /\ p \in 0..4 OBVIOUS
  <2>2. /\ ReadTo(w \o Printed(id[p]), p, [v EXCEPT ![p] = id[p]])
        /\ w \o Printed(id[p]) \in Seq(Characters)
    BY <1>13, <1>14, <2>1
  <2> QED BY <1>14, <2>1, <2>2, ReadSeparator, Zenon
<1>15. /\ P!Separates(":", 1) /\ P!Separates(".", 2) /\ P!Separates(".", 3)
       /\ ":" \in {"-", ":", "."} /\ "." \in {"-", ":", "."}
       /\ 1 \in 1..3 /\ 2 \in 1..3 /\ 3 \in 1..3 /\ 4 \in 1..4
       /\ 1 + 1 = 2 /\ 2 + 1 = 3 /\ 3 + 1 = 4
  BY DEF P!Separates
<1>16. ReadTo(w2, 2, v2) /\ w2 \in Seq(Characters)
  <2>1. /\ ReadTo(w1 \o Printed(id[1]) \o <<":">>, 1 + 1,
                 [v1 EXCEPT ![1] = id[1]])
        /\ w1 \o Printed(id[1]) \o <<":">> \in Seq(Characters)
    BY <1>4, <1>12, <1>14, <1>15, Zenon
  <2> QED BY <1>15, <2>1, Zenon
<1> HIDE DEF v2, w2
<1>17. ReadTo(w3, 3, v3) /\ w3 \in Seq(Characters)
  <2>1. /\ ReadTo(w2 \o Printed(id[2]) \o <<".">>, 2 + 1,
                 [v2 EXCEPT ![2] = id[2]])
        /\ w2 \o Printed(id[2]) \o <<".">> \in Seq(Characters)
    BY <1>5, <1>14, <1>15, <1>16, Zenon
  <2> QED BY <1>15, <2>1, Zenon
<1> HIDE DEF v3, w3
<1>18. ReadTo(w4, 4, v4) /\ w4 \in Seq(Characters)
  <2>1. /\ ReadTo(w3 \o Printed(id[3]) \o <<".">>, 3 + 1,
                 [v3 EXCEPT ![3] = id[3]])
        /\ w3 \o Printed(id[3]) \o <<".">> \in Seq(Characters)
    BY <1>6, <1>14, <1>15, <1>17, Zenon
  <2> QED BY <1>15, <2>1, Zenon
<1> HIDE DEF v4, w4
<1>19. ReadTo(w5, 4, v5) /\ w5 \in Seq(Characters)
  BY <1>7, <1>13, <1>15, <1>18, Zenon
<1> HIDE DEF v5, w5
<1>20. P!Turn(P!HasRead(v5, 4, Len(w5)), Len(w5) + 1, "(")
         = P!HasRead(v5, 4, Len(w5))
  <2> DEFINE r == P!HasRead(v5, 4, Len(w5))
  <2>1. r.part = 4 /\ r.over = FALSE /\ r.read = Len(w5) BY DEF P!HasRead
  <2>2. Len(w5) \in Nat BY <1>19, LenProperties
  <2>3. ~P!IsDigit("(") BY DigitsAre DEF P!IsDigit
  <2>4. ~P!Separates("(", 4) BY DEF P!Separates
  <2> HIDE DEF r
  <2>5. ~(r.read < (Len(w5) + 1) - 1) BY <2>1, <2>2
  <2>6. P!Turn(r, Len(w5) + 1, "(") = r
    BY <2>1, <2>3, <2>4, <2>5, Zenon DEF P!Turn
  <2> QED BY <2>6 DEF r
<1>21. P!Scan(Line(id)) = P!HasRead(v5, 4, Len(w5))
  <2> DEFINE t == Line(id)
             u == <<"(">>
  <2>1. u \in Seq(Characters) /\ Len(u) = 1 /\ u[1] = "(" BY DEF Characters
  <2>2. t = w5 \o u BY <1>9
  <2>3. Len(w5) \in Nat BY <1>19, LenProperties
  <2> HIDE DEF t, u
  <2>4. Len(t) = Len(w5) + 1 /\ t[Len(w5) + 1] = "("
    <3>1. /\ Len(w5 \o u) = Len(w5) + Len(u)
          /\ \A i \in 1..(Len(w5) + Len(u)) :
               (w5 \o u)[i] = IF i <= Len(w5) THEN w5[i] ELSE u[i - Len(w5)]
      BY <1>19, <2>1, ConcatProperties
    <3>2. /\ Len(w5) + 1 \in 1..(Len(w5) + Len(u)) /\ (Len(w5) + 1) - Len(w5) = 1
          /\ ~(Len(w5) + 1 <= Len(w5))
      BY <2>1, <2>3
    <3> QED BY <2>1, <2>2, <3>1, <3>2
  <2>5. PICK sc : IsScan(sc, t, Len(t)) /\ P!Scan(t) = sc[Len(t)]
    <3>1. Len(t) \in Nat BY <2>3, <2>4
    <3> QED BY <3>1, ScanIs, Zenon
  <2>6. sc[Len(w5)] = P!HasRead(v5, 4, Len(w5))
    BY <1>19, <2>1, <2>2, <2>5, Zenon DEF ReadTo
  <2>7. Len(w5) + 1 \in 0..Len(t) /\ Len(w5) + 1 # 0 /\ (Len(w5) + 1) - 1 = Len(w5)
    BY <2>3, <2>4
  <2>8. sc[Len(w5) + 1] = P!Turn(sc[Len(w5)], Len(w5) + 1, t[Len(w5) + 1])
    BY <2>5, <2>7 DEF IsScan
  <2>9. P!Scan(t) = P!HasRead(v5, 4, Len(w5))
    BY <1>20, <2>4, <2>5, <2>6, <2>8, Zenon
  <2> QED BY <2>9 DEF t
<1>22. P!parse_obis(Line(id)).id = [i \in 0..5 |-> IF i <= 4 THEN v5[i] ELSE 255]
  <2> DEFINE r == P!HasRead(v5, 4, Len(w5))
  <2>1. r.v = v5 /\ r.part = 4 BY DEF P!HasRead
  <2> HIDE DEF r
  <2>2. P!Scan(Line(id)) = r BY <1>21 DEF r
  <2>3. P!parse_obis(Line(id)).id =
          [i \in 0..5 |-> IF i <= r.part THEN r.v[i] ELSE 255]
    BY <2>2 DEF P!parse_obis
  <2> QED BY <2>1, <2>3, ZenonT(60)
<1>23. \A i \in 0..5 : (IF i <= 4 THEN v5[i] ELSE 255) = id[i]
  <2>1. id[5] = 255 BY DEF PrintableIds
  <2>2. \A i \in 0..5 : (i \in 0..4 /\ i <= 4) \/ (i = 5 /\ ~(i <= 4)) OBVIOUS
  <2> QED BY <1>8, <2>1, <2>2
<1>24. id = [i \in 0..5 |-> id[i]] BY DEF PrintableIds
<1> QED BY <1>22, <1>23, <1>24

-----------------------------------------------------------------------------
Parts(a, b, c, d, e) == <<a, b, c, d, e>>
FixedField(unit, int_unit, i) == DecimalField("FixedField", unit, int_unit, i)
TimestampedFixedField(unit, int_unit, i) ==
  DecimalField("TimestampedFixedField", unit, int_unit, i)

(* The field with the id a-b:c.d.e, when the meters of the M-Bus are on    *)
(* the channels m; one of the two alternatives for the gas meter is left   *)
(* out.                                                                    *)
MBusField(m, b, c, d, e) ==
  LET i == Parts(0, b, c, d, e) IN
  IF c = 96 THEN StringField(0, 96, i)
  ELSE IF d = 1 THEN IntField("uint16_t", none, i)
  ELSE IF d = 4 THEN IntField("uint8_t", none, i)
  ELSE IF d = 3 THEN RawField(i)
  ELSE IF b = m.thermal THEN TimestampedFixedField(GJ, MJ, i)
  ELSE TimestampedFixedField(m3, dm3, i)

MainField(c, d, e) ==
  LET i == Parts(0, 0, c, d, e) IN
  IF c = 1 THEN StringField(13, 13, i)
  ELSE IF c = 17 THEN FixedField(kW, W, i)
  ELSE IF c = 98 THEN DecimalField("AveragedFixedField", kW, W, i)
  ELSE IF d = 1 THEN IF e = 1 THEN StringField(0, 96, i)
                     ELSE StringField(2, 96, i)
  ELSE IF d = 3 THEN IntField("uint8_t", none, i)
  ELSE IF d = 7 THEN IntField("uint32_t", none, i)
  ELSE IF d = 13 THEN IF e = 1 THEN StringField(0, 16, i)
                      ELSE StringField(0, 2048, i)
  ELSE IF e = 1 THEN StringField(2, 2, i) ELSE StringField(4, 4, i)

(* The quantities of 1-0, by their fourth part. *)
InstantaneousField(c, i) ==
  IF c \in {1, 2, 15, 21, 41, 61, 22, 42, 62} THEN FixedField(kW, W, i)
  ELSE IF c \in {3, 4, 23, 43, 63, 24, 44, 64} THEN FixedField(kvar, var, i)
  ELSE IF c \in {32, 52, 72, 12} THEN FixedField(V, mV, i)
  ELSE IF c = 14 THEN FixedField(kHz, Hz, i)
  ELSE IF c \in {13, 33, 53, 73} THEN FixedField(none, none, i)
  ELSE IF c \in {31, 51, 71, 11, 91, 90} THEN FixedField(A, mA, i)
  ELSE FixedField(kVA, VA, i)

AverageField(c, i) ==
  IF c \in {1, 2} THEN FixedField(kW, W, i)
  ELSE IF c \in {3, 4} THEN FixedField(kvar, kvar, i)
  ELSE IF c \in {9, 10} THEN FixedField(kVA, VA, i)
  ELSE FixedField(A, mA, i)

PowerField(c, d, e) ==
  LET i == Parts(1, 0, c, d, e) IN
  IF c = 0 THEN IF d = 2 THEN StringField(0, 96, i)
                ELSE IntField("uint32_t", s, i)
  ELSE IF c = 99 THEN RawField(i)
  ELSE IF d = 8 THEN IF c \in {1, 2} THEN FixedField(kWh, Wh, i)
                     ELSE FixedField(kvarh, varh, i)
  ELSE IF d = 7 THEN InstantaneousField(c, i)
  ELSE IF d \in {4, 5} THEN AverageField(c, i)
  ELSE IF d = 24 THEN IF c \in {1, 16, 15} THEN FixedField(kW, W, i)
                      ELSE FixedField(V, mV, i)
  ELSE IF d \in {32, 36} THEN IntField("uint32_t", none, i)
  ELSE IF d \in {33, 37} THEN IntField("uint32_t", s, i)
  ELSE IF d \in {34, 38} THEN IntField("uint32_t", V, i)
  ELSE IF d = 6 THEN TimestampedFixedField(kW, W, i)
  ELSE FixedField(none, none, i)

OtherField(b, c, d, e) ==
  LET i == Parts(1, b, c, d, e) IN
  IF b = 3 THEN StringField(2, 2, i)
  ELSE IF c = 0 THEN StringField(0, 96, i)
  ELSE IF d = 8 THEN FixedField(kWh, Wh, i)
  ELSE FixedField(kW, W, i)

FieldAt(m, a, b, c, d, e) ==
  IF a = 0 THEN IF b = 0 THEN MainField(c, d, e) ELSE MBusField(m, b, c, d, e)
  ELSE IF b = 0 THEN PowerField(c, d, e) ELSE OtherField(b, c, d, e)

At(m, a, b, c, d, e, f) == /\ {a, b, c, d, e} \subseteq 0..255
                           /\ FieldAt(m, a, b, c, d, e) = f

(* f is the field that its id determines. *)
IsFieldAt(m, f) ==
  \E a, b, c, d, e : /\ f.id = ObisId(Parts(a, b, c, d, e))
                     /\ At(m, a, b, c, d, e, f)
Found(m, S) == \A f \in S : IsFieldAt(m, f)

-----------------------------------------------------------------------------
(* The id of a field is the one it is defined with. *)
LEMMA FieldIds ==
  /\ \A i : RawField(i).id = ObisId(i)
  /\ \A min, max, i : StringField(min, max, i).id = ObisId(i)
  /\ \A t, u, i : IntField(t, u, i).id = ObisId(i)
  /\ \A k, u, v, i : DecimalField(k, u, v, i).id = ObisId(i)
BY DEF RawField, StringField, IntField, DecimalField

(* The ids of a rectangle, one by one; the fields with them are found when *)
(* each of them is.                                                        *)
LEMMA PartsOfIds ==
  ASSUME NEW a, NEW b, NEW C, NEW d, NEW E, NEW i \in Ids(a, b, C, d, E)
  PROVE  \E c \in C, e \in E : i = Parts(a, b, c, d, e)
BY DEF Ids, Parts

(* Texts.                                                                  *)
LEMMA StringsFound ==
  ASSUME NEW m, NEW a, NEW b, NEW C, NEW d, NEW E, NEW min, NEW max,
         \A c \in C, e \in E :
           At(m, a, b, c, d, e, StringField(min, max, Parts(a, b, c, d, e)))
  PROVE  Found(m, Strings(min, max, Ids(a, b, C, d, E)))
<1> SUFFICES ASSUME NEW f \in Strings(min, max, Ids(a, b, C, d, E))
             PROVE  IsFieldAt(m, f)
  BY DEF Found
<1>1. PICK i \in Ids(a, b, C, d, E) : f = StringField(min, max, i) BY DEF Strings
<1>2. PICK c \in C, e \in E : i = Parts(a, b, c, d, e) BY PartsOfIds
<1> QED BY <1>1, <1>2, FieldIds, Zenon DEF IsFieldAt

(* Whole numbers.                                                          *)
LEMMA IntsFound ==
  ASSUME NEW m, NEW a, NEW b, NEW C, NEW d, NEW E, NEW t, NEW u,
         \A c \in C, e \in E :
           At(m, a, b, c, d, e, IntField(t, u, Parts(a, b, c, d, e)))
  PROVE  Found(m, Ints(t, u, Ids(a, b, C, d, E)))
<1> SUFFICES ASSUME NEW f \in Ints(t, u, Ids(a, b, C, d, E))
             PROVE  IsFieldAt(m, f)
  BY DEF Found
<1>1. PICK i \in Ids(a, b, C, d, E) : f = IntField(t, u, i) BY DEF Ints
<1>2. PICK c \in C, e \in E : i = Parts(a, b, c, d, e) BY PartsOfIds
<1> QED BY <1>1, <1>2, FieldIds, Zenon DEF IsFieldAt

(* Decimal numbers, of each of their kinds.                                *)
LEMMA DecimalFound ==
  ASSUME NEW m, NEW a, NEW b, NEW C, NEW d, NEW E, NEW k, NEW u, NEW v,
         \A c \in C, e \in E :
           At(m, a, b, c, d, e, DecimalField(k, u, v, Parts(a, b, c, d, e)))
  PROVE  Found(m, Decimal(k, u, v, Ids(a, b, C, d, E)))
<1> SUFFICES ASSUME NEW f \in Decimal(k, u, v, Ids(a, b, C, d, E))
             PROVE  IsFieldAt(m, f)
  BY DEF Found
<1>1. PICK i \in Ids(a, b, C, d, E) : f = DecimalField(k, u, v, i) BY DEF Decimal
<1>2. PICK c \in C, e \in E : i = Parts(a, b, c, d, e) BY PartsOfIds
<1> QED BY <1>1, <1>2, FieldIds, ZenonT(60) DEF IsFieldAt

(* The same of a single id. *)
LEMMA OneFound ==
  ASSUME NEW m, NEW a, NEW b, NEW c, NEW d, NEW e
  PROVE  /\ \A min, max :
              At(m, a, b, c, d, e, StringField(min, max, Parts(a, b, c, d, e)))
              => Found(m, Strings(min, max, {<<a, b, c, d, e>>}))
         /\ \A t, u :
              At(m, a, b, c, d, e, IntField(t, u, Parts(a, b, c, d, e)))
              => Found(m, Ints(t, u, {<<a, b, c, d, e>>}))
         /\ \A k, u, v :
              At(m, a, b, c, d, e, DecimalField(k, u, v, Parts(a, b, c, d, e)))
              => Found(m, Decimal(k, u, v, {<<a, b, c, d, e>>}))
         /\ At(m, a, b, c, d, e, RawField(Parts(a, b, c, d, e)))
              => Found(m, Raw({<<a, b, c, d, e>>}))
<1>1. ASSUME NEW f, NEW g, At(m, a, b, c, d, e, g),
             g.id = ObisId(Parts(a, b, c, d, e)), f = g
      PROVE  IsFieldAt(m, f)
  BY <1>1, Zenon DEF IsFieldAt
<1> DEFINE i == <<a, b, c, d, e>>
<1>2. i = Parts(a, b, c, d, e) BY DEF Parts
<1> HIDE DEF i
<1>3. /\ \A min, max : \A f \in Strings(min, max, {i}) :
           f = StringField(min, max, i)
      /\ \A t, u : \A f \in Ints(t, u, {i}) : f = IntField(t, u, i)
      /\ \A k, u, v : \A f \in Decimal(k, u, v, {i}) :
           f = DecimalField(k, u, v, i)
      /\ \A f \in Raw({i}) : f = RawField(i)
  BY Zenon DEF Strings, Ints, Decimal, Raw
<1> DEFINE p == Parts(a, b, c, d, e)
<1>4. \A min, max : At(m, a, b, c, d, e, StringField(min, max, p))
                    => \A f \in Strings(min, max, {i}) : IsFieldAt(m, f)
  <2> SUFFICES ASSUME NEW min, NEW max, At(m, a, b, c, d, e, StringField(min, max, p)),
                      NEW f \in Strings(min, max, {i})
               PROVE  IsFieldAt(m, f)
    BY Zenon
  <2>1. f = StringField(min, max, p) BY <1>2, <1>3, Zenon
  <2>2. StringField(min, max, p).id = ObisId(p) BY FieldIds, Zenon
  <2> QED BY <1>1, <2>1, <2>2, Zenon
<1>5. \A t, u : At(m, a, b, c, d, e, IntField(t, u, p))
                => \A f \in Ints(t, u, {i}) : IsFieldAt(m, f)
  <2> SUFFICES ASSUME NEW t, NEW u, At(m, a, b, c, d, e, IntField(t, u, p)),
                      NEW f \in Ints(t, u, {i})
               PROVE  IsFieldAt(m, f)
    BY Zenon
  <2>1. f = IntField(t, u, p) BY <1>2, <1>3, Zenon
  <2>2. IntField(t, u, p).id = ObisId(p) BY FieldIds, Zenon
  <2> QED BY <1>1, <2>1, <2>2, Zenon
<1>6. \A k, u, v : At(m, a, b, c, d, e, DecimalField(k, u, v, p))
                   => \A f \in Decimal(k, u, v, {i}) : IsFieldAt(m, f)
  <2> SUFFICES ASSUME NEW k, NEW u, NEW v, At(m, a, b, c, d, e, DecimalField(k, u, v, p)),
                      NEW f \in Decimal(k, u, v, {i})
               PROVE  IsFieldAt(m, f)
    BY Zenon
  <2>1. f = DecimalField(k, u, v, p) BY <1>2, <1>3, Zenon
  <2>2. DecimalField(k, u, v, p).id = ObisId(p) BY FieldIds, ZenonT(60)
  <2> QED BY <1>1, <2>1, <2>2, Zenon
<1>7. At(m, a, b, c, d, e, RawField(p))
      => \A f \in Raw({i}) : IsFieldAt(m, f)
  <2> SUFFICES ASSUME At(m, a, b, c, d, e, RawField(p)),
                      NEW f \in Raw({i})
               PROVE  IsFieldAt(m, f)
    BY Zenon
  <2>1. f = RawField(p) BY <1>2, <1>3, Zenon
  <2>2. RawField(p).id = ObisId(p) BY FieldIds, Zenon
  <2> QED BY <1>1, <2>1, <2>2, Zenon
<1> QED BY <1>4, <1>5, <1>6, <1>7, Zenon DEF Found, i

(* DEFINE_FIELD takes each of its ids by itself. *)
LEMMA DecimalUnion ==
  ASSUME NEW m, NEW k, NEW u, NEW v, NEW X, NEW Y,
         Found(m, Decimal(k, u, v, X)), Found(m, Decimal(k, u, v, Y))
  PROVE  Found(m, Decimal(k, u, v, X \cup Y))
<1>1. \A f \in Decimal(k, u, v, X \cup Y) :
        f \in Decimal(k, u, v, X) \/ f \in Decimal(k, u, v, Y)
  BY DEF Decimal
<1> QED BY <1>1, Zenon DEF Found

(* The same of texts.                                                      *)
LEMMA StringsUnion ==
  ASSUME NEW m, NEW min, NEW max, NEW X, NEW Y,
         Found(m, Strings(min, max, X)), Found(m, Strings(min, max, Y))
  PROVE  Found(m, Strings(min, max, X \cup Y))
<1>1. \A f \in Strings(min, max, X \cup Y) :
        f \in Strings(min, max, X) \/ f \in Strings(min, max, Y)
  BY DEF Strings
<1> QED BY <1>1, Zenon DEF Found

(* The fields of the meter itself, but for the identification.             *)
LEMMA GeneralFieldsFound ==
  ASSUME NEW m
  PROVE  Found(m, GeneralFields \ Raw({<<255, 255, 255, 255, 255, 255>>}))
<1>1. Found(m, Strings(2, 2, {<<1, 3, 0, 2, 8>>}))
  <2>1. At(m, 1, 3, 0, 2, 8, StringField(2, 2, Parts(1, 3, 0, 2, 8)))
    BY DEF At, FieldAt, OtherField
  <2> QED BY <2>1, OneFound, Zenon
<1>2. Found(m, Strings(2, 96, {<<0, 0, 96, 1, 4>>}))
  <2>1. At(m, 0, 0, 96, 1, 4, StringField(2, 96, Parts(0, 0, 96, 1, 4)))
    BY DEF At, FieldAt, MainField
  <2> QED BY <2>1, OneFound, ZenonT(60)
<1>3. Found(m, Timestamps({<<0, 0, 1, 0, 0>>}))
  <2>1. At(m, 0, 0, 1, 0, 0, StringField(13, 13, Parts(0, 0, 1, 0, 0)))
    BY DEF At, FieldAt, MainField
  <2> QED BY <2>1, OneFound, Zenon DEF Timestamps
<1>4. Found(m, Strings(0, 96, {<<0, 0, 96, 1, 1>>}))
  <2>1. At(m, 0, 0, 96, 1, 1, StringField(0, 96, Parts(0, 0, 96, 1, 1)))
    BY DEF At, FieldAt, MainField
  <2> QED BY <2>1, OneFound, ZenonT(60)
<1> QED BY <1>1, <1>2, <1>3, <1>4, ZenonT(60) DEF GeneralFields, Found

(* Energy.                                                                 *)
LEMMA EnergyFieldsFound == ASSUME NEW m PROVE Found(m, EnergyFields)
<1>1. Found(m, Fixed(kWh, Wh, Ids(1, 0, {1, 2}, 8, 0..4)
                              \cup Ids(1, 1, {1, 2}, 8, {1, 2})
                              \cup Ids(1, 0, {1, 2}, 8, 11..13)))
  <2>1. \A c \in {1, 2}, e \in 0..4 :
          At(m, 1, 0, c, 8, e, FixedField(kWh, Wh, Parts(1, 0, c, 8, e)))
    BY DEF At, FieldAt, PowerField
  <2>2. \A c \in {1, 2}, e \in {1, 2} :
          At(m, 1, 1, c, 8, e, FixedField(kWh, Wh, Parts(1, 1, c, 8, e)))
    BY DEF At, FieldAt, OtherField
  <2>3. \A c \in {1, 2}, e \in 11..13 :
          At(m, 1, 0, c, 8, e, FixedField(kWh, Wh, Parts(1, 0, c, 8, e)))
    BY DEF At, FieldAt, PowerField
  <2>4. Found(m, Decimal("FixedField", kWh, Wh, Ids(1, 0, {1, 2}, 8, 0..4)))
    BY <2>1, DecimalFound, Zenon DEF FixedField
  <2>5. Found(m, Decimal("FixedField", kWh, Wh, Ids(1, 1, {1, 2}, 8, {1, 2})))
    BY <2>2, DecimalFound, Zenon DEF FixedField
  <2>6. Found(m, Decimal("FixedField", kWh, Wh, Ids(1, 0, {1, 2}, 8, 11..13)))
    BY <2>3, DecimalFound, Zenon DEF FixedField
  <2> QED BY <2>4, <2>5, <2>6, DecimalUnion, Zenon DEF Fixed
<1>2. Found(m, Fixed(kvarh, varh, Ids(1, 0, {3, 4}, 8, 0..4)))
  <2>1. \A c \in {3, 4}, e \in 0..4 :
          At(m, 1, 0, c, 8, e, FixedField(kvarh, varh, Parts(1, 0, c, 8, e)))
    BY DEF At, FieldAt, PowerField
  <2> QED BY <2>1, DecimalFound, Zenon DEF Fixed, FixedField
<1>3. Found(m, Strings(2, 2, {<<0, 0, 96, 14, 1>>}))
  <2>1. At(m, 0, 0, 96, 14, 1, StringField(2, 2, Parts(0, 0, 96, 14, 1)))
    BY DEF At, FieldAt, MainField
  <2> QED BY <2>1, OneFound, ZenonT(60)
<1>4. Found(m, Raw({<<1, 0, 99, 1, 0>>}))
  <2>1. At(m, 1, 0, 99, 1, 0, RawField(Parts(1, 0, 99, 1, 0)))
    BY DEF At, FieldAt, PowerField
  <2> QED BY <2>1, OneFound, ZenonT(60)
<1> QED BY <1>1, <1>2, <1>3, <1>4, ZenonT(60) DEF EnergyFields, Found

(* Sags or swells.                                                         *)
LEMMA VoltageEventsFound ==
  ASSUME NEW m, NEW d \in {32, 36} PROVE Found(m, VoltageEvents(d))
<1>1. d + 1 \in {33, 37} /\ d + 2 \in {34, 38} OBVIOUS
<1>2. ASSUME NEW q \in {32, 36}, NEW c \in {32, 52, 72}, NEW e \in {0}
      PROVE  At(m, 1, 0, c, q, e, IntField("uint32_t", none, Parts(1, 0, c, q, e)))
  BY DEF At, FieldAt, PowerField
<1>3. ASSUME NEW q \in {33, 37}, NEW c \in {32, 52, 72}, NEW e \in {0}
      PROVE  At(m, 1, 0, c, q, e, IntField("uint32_t", s, Parts(1, 0, c, q, e)))
  BY DEF At, FieldAt, PowerField
<1>4. ASSUME NEW q \in {34, 38}, NEW c \in {32, 52, 72}, NEW e \in {0}
      PROVE  At(m, 1, 0, c, q, e, IntField("uint32_t", V, Parts(1, 0, c, q, e)))
  BY DEF At, FieldAt, PowerField
<1>5. Found(m, Ints("uint32_t", none, Ids(1, 0, {32, 52, 72}, d, {0})))
  BY <1>2, IntsFound, ZenonT(60)
<1>6. Found(m, Ints("uint32_t", s, Ids(1, 0, {32, 52, 72}, d + 1, {0})))
  BY <1>1, <1>3, IntsFound, ZenonT(60)
<1>7. Found(m, Ints("uint32_t", V, Ids(1, 0, {32, 52, 72}, d + 2, {0})))
  BY <1>1, <1>4, IntsFound, ZenonT(60)
<1> QED BY <1>5, <1>6, <1>7, Zenon DEF VoltageEvents, Found

(* The messages of the grid operator.                                      *)
LEMMA MessageFieldsFound == ASSUME NEW m PROVE Found(m, MessageFields)
<1>1. At(m, 0, 0, 96, 13, 1, StringField(0, 16, Parts(0, 0, 96, 13, 1)))
  BY DEF At, FieldAt, MainField
<1>2. At(m, 0, 0, 96, 13, 0, StringField(0, 2048, Parts(0, 0, 96, 13, 0)))
  BY DEF At, FieldAt, MainField
<1>3. Found(m, Strings(0, 16, {<<0, 0, 96, 13, 1>>})) BY <1>1, OneFound
<1>4. Found(m, Strings(0, 2048, {<<0, 0, 96, 13, 0>>})) BY <1>2, OneFound
<1> QED BY <1>3, <1>4 DEF MessageFields, Found

(* Power, switches, failures, sags and swells.                             *)
LEMMA GridFieldsFound == ASSUME NEW m PROVE Found(m, GridFields)
<1>1. Found(m, Strings(4, 4, {<<0, 0, 96, 14, 0>>}))
  <2>1. At(m, 0, 0, 96, 14, 0, StringField(4, 4, Parts(0, 0, 96, 14, 0)))
    BY DEF At, FieldAt, MainField
  <2> QED BY <2>1, OneFound, ZenonT(60)
<1>2. Found(m, Fixed(kW, W, Ids(1, 0, {1, 2}, 7, {0})
                            \cup Ids(1, 1, {1, 2}, 7, {0})
                            \cup {<<0, 0, 17, 0, 0>>}))
  <2>1. \A c \in {1, 2}, e \in {0} :
          At(m, 1, 0, c, 7, e, FixedField(kW, W, Parts(1, 0, c, 7, e)))
    BY DEF At, FieldAt, PowerField, InstantaneousField
  <2>2. \A c \in {1, 2}, e \in {0} :
          At(m, 1, 1, c, 7, e, FixedField(kW, W, Parts(1, 1, c, 7, e)))
    BY DEF At, FieldAt, OtherField
  <2>3. At(m, 0, 0, 17, 0, 0, FixedField(kW, W, Parts(0, 0, 17, 0, 0)))
    BY DEF At, FieldAt, MainField
  <2>4. Found(m, Decimal("FixedField", kW, W, Ids(1, 0, {1, 2}, 7, {0})))
    BY <2>1, DecimalFound, Zenon DEF FixedField
  <2>5. Found(m, Decimal("FixedField", kW, W, Ids(1, 1, {1, 2}, 7, {0})))
    BY <2>2, DecimalFound, Zenon DEF FixedField
  <2>6. Found(m, Decimal("FixedField", kW, W, {<<0, 0, 17, 0, 0>>}))
    BY <2>3, OneFound, Zenon DEF FixedField
  <2> QED BY <2>4, <2>5, <2>6, DecimalUnion, Zenon DEF Fixed
<1>3. Found(m, Fixed(kvar, var, Ids(1, 0, {3, 4}, 7, {0})))
  <2>1. \A c \in {3, 4}, e \in {0} :
          At(m, 1, 0, c, 7, e, FixedField(kvar, var, Parts(1, 0, c, 7, e)))
    BY DEF At, FieldAt, PowerField, InstantaneousField
  <2> QED BY <2>1, DecimalFound, Zenon DEF Fixed, FixedField
<1>4. Found(m, Ints("uint8_t", none, {<<0, 0, 96, 3, 10>>}))
  <2>1. At(m, 0, 0, 96, 3, 10, IntField("uint8_t", none, Parts(0, 0, 96, 3, 10)))
    BY DEF At, FieldAt, MainField
  <2> QED BY <2>1, OneFound, ZenonT(60)
<1>5. Found(m, Ints("uint32_t", none, Ids(0, 0, {96}, 7, {21, 9})))
  <2>1. \A c \in {96}, e \in {21, 9} :
          At(m, 0, 0, c, 7, e, IntField("uint32_t", none, Parts(0, 0, c, 7, e)))
    BY DEF At, FieldAt, MainField
  <2> QED BY <2>1, IntsFound, ZenonT(60)
<1>6. Found(m, Raw({<<1, 0, 99, 97, 0>>}))
  <2>1. At(m, 1, 0, 99, 97, 0, RawField(Parts(1, 0, 99, 97, 0)))
    BY DEF At, FieldAt, PowerField
  <2> QED BY <2>1, OneFound, ZenonT(60)
<1>7. Found(m, VoltageEvents(32)) /\ Found(m, VoltageEvents(36))
  BY VoltageEventsFound
<1> QED BY <1>1, <1>2, <1>3, <1>4, <1>5, <1>6, <1>7, MessageFieldsFound, ZenonT(60)
       DEF GridFields, Found

(* Voltage, current and power.                                             *)
LEMMA InstantaneousFieldsFound == ASSUME NEW m PROVE Found(m, InstantaneousFields)
<1>1. Found(m, Fixed(V, mV, Ids(1, 0, {32, 52, 72}, 7, {0})
                            \cup Ids(1, 0, {32, 52, 72}, 24, {0})
                            \cup Ids(1, 0, {12}, 7, {0})))
  <2>1. \A c \in {32, 52, 72}, e \in {0} :
          At(m, 1, 0, c, 7, e, FixedField(V, mV, Parts(1, 0, c, 7, e)))
    BY DEF At, FieldAt, PowerField, InstantaneousField
  <2>2. \A c \in {32, 52, 72}, e \in {0} :
          At(m, 1, 0, c, 24, e, FixedField(V, mV, Parts(1, 0, c, 24, e)))
    BY DEF At, FieldAt, PowerField
  <2>3. \A c \in {12}, e \in {0} :
          At(m, 1, 0, c, 7, e, FixedField(V, mV, Parts(1, 0, c, 7, e)))
    BY DEF At, FieldAt, PowerField, InstantaneousField
  <2>4. Found(m, Decimal("FixedField", V, mV, Ids(1, 0, {32, 52, 72}, 7, {0})))
    BY <2>1, DecimalFound, ZenonT(60) DEF FixedField
  <2>5. Found(m, Decimal("FixedField", V, mV, Ids(1, 0, {32, 52, 72}, 24, {0})))
    BY <2>2, DecimalFound, ZenonT(60) DEF FixedField
  <2>6. Found(m, Decimal("FixedField", V, mV, Ids(1, 0, {12}, 7, {0})))
    BY <2>3, DecimalFound, Zenon DEF FixedField
  <2> QED BY <2>4, <2>5, <2>6, DecimalUnion, ZenonT(60) DEF Fixed
<1>2. Found(m, Fixed(kHz, Hz, Ids(1, 0, {14}, 7, {0})))
  <2>1. \A c \in {14}, e \in {0} :
          At(m, 1, 0, c, 7, e, FixedField(kHz, Hz, Parts(1, 0, c, 7, e)))
    BY DEF At, FieldAt, PowerField, InstantaneousField
  <2> QED BY <2>1, DecimalFound, Zenon DEF Fixed, FixedField
<1>3. Found(m, Fixed(kW, W, Ids(1, 0, {15, 21, 41, 61, 22, 42, 62}, 7, {0})))
  <2>1. \A c \in {15, 21, 41, 61, 22, 42, 62}, e \in {0} :
          At(m, 1, 0, c, 7, e, FixedField(kW, W, Parts(1, 0, c, 7, e)))
    BY DEF At, FieldAt, PowerField, InstantaneousField
  <2> QED BY <2>1, DecimalFound, ZenonT(60) DEF Fixed, FixedField
<1>4. Found(m, Fixed(A, mA, Ids(1, 0, {31, 51, 71, 11, 91, 90}, 7, {0})
                            \cup Ids(1, 0, {31, 51, 71}, 4, {0})))
  <2>1. \A c \in {31, 51, 71, 11, 91, 90}, e \in {0} :
          At(m, 1, 0, c, 7, e, FixedField(A, mA, Parts(1, 0, c, 7, e)))
    BY DEF At, FieldAt, PowerField, InstantaneousField
  <2>2. \A c \in {31, 51, 71}, e \in {0} :
          At(m, 1, 0, c, 4, e, FixedField(A, mA, Parts(1, 0, c, 4, e)))
    BY DEF At, FieldAt, PowerField, AverageField
  <2>3. Found(m, Decimal("FixedField", A, mA, Ids(1, 0, {31, 51, 71, 11, 91, 90}, 7, {0})))
    BY <2>1, DecimalFound, ZenonT(60) DEF FixedField
  <2>4. Found(m, Decimal("FixedField", A, mA, Ids(1, 0, {31, 51, 71}, 4, {0})))
    BY <2>2, DecimalFound, ZenonT(60) DEF FixedField
  <2> QED BY <2>3, <2>4, DecimalUnion, ZenonT(60) DEF Fixed
<1>5. Found(m, Fixed(kvar, var, Ids(1, 0, {23, 43, 63, 24, 44, 64}, 7, {0})))
  <2>1. \A c \in {23, 43, 63, 24, 44, 64}, e \in {0} :
          At(m, 1, 0, c, 7, e, FixedField(kvar, var, Parts(1, 0, c, 7, e)))
    BY DEF At, FieldAt, PowerField, InstantaneousField
  <2> QED BY <2>1, DecimalFound, ZenonT(60) DEF Fixed, FixedField
<1>6. Found(m, Fixed(kVA, VA, Ids(1, 0, {9, 29, 49, 69, 10, 30, 50, 70}, 7, {0})))
  <2>1. \A c \in {9, 29, 49, 69, 10, 30, 50, 70}, e \in {0} :
          At(m, 1, 0, c, 7, e, FixedField(kVA, VA, Parts(1, 0, c, 7, e)))
    BY DEF At, FieldAt, PowerField, InstantaneousField
  <2> QED BY <2>1, DecimalFound, ZenonT(60) DEF Fixed, FixedField
<1>7. Found(m, Fixed(kW, W, Ids(1, 0, {1, 16, 15}, 24, {0})))
  <2>1. \A c \in {1, 16, 15}, e \in {0} :
          At(m, 1, 0, c, 24, e, FixedField(kW, W, Parts(1, 0, c, 24, e)))
    BY DEF At, FieldAt, PowerField
  <2> QED BY <2>1, DecimalFound, Zenon DEF Fixed, FixedField
<1> QED BY <1>1, <1>2, <1>3, <1>4, <1>5, <1>6, <1>7, ZenonT(60)
   DEF InstantaneousFields, Found

(* Averages, maxima, firmware and power factors.                           *)
LEMMA DemandFieldsFound == ASSUME NEW m PROVE Found(m, DemandFields)
<1>1. Found(m, Fixed(kW, W, Ids(1, 0, {1, 2}, 4, {0})
                           \cup Ids(1, 0, {1, 2}, 5, {0})))
  <2>1. \A c \in {1, 2}, e \in {0} :
          At(m, 1, 0, c, 4, e, FixedField(kW, W, Parts(1, 0, c, 4, e)))
    BY DEF At, FieldAt, PowerField, AverageField
  <2>2. \A c \in {1, 2}, e \in {0} :
          At(m, 1, 0, c, 5, e, FixedField(kW, W, Parts(1, 0, c, 5, e)))
    BY DEF At, FieldAt, PowerField, AverageField
  <2>3. Found(m, Decimal("FixedField", kW, W, Ids(1, 0, {1, 2}, 4, {0})))
    BY <2>1, DecimalFound, Zenon DEF FixedField
  <2>4. Found(m, Decimal("FixedField", kW, W, Ids(1, 0, {1, 2}, 5, {0})))
    BY <2>2, DecimalFound, Zenon DEF FixedField
  <2> QED BY <2>3, <2>4, DecimalUnion, Zenon DEF Fixed
<1>2. Found(m, Fixed(kvar, kvar, Ids(1, 0, {3, 4}, 4, {0})
                                \cup Ids(1, 0, {3, 4}, 5, {0})))
  <2>1. \A c \in {3, 4}, e \in {0} :
          At(m, 1, 0, c, 4, e, FixedField(kvar, kvar, Parts(1, 0, c, 4, e)))
    BY DEF At, FieldAt, PowerField, AverageField
  <2>2. \A c \in {3, 4}, e \in {0} :
          At(m, 1, 0, c, 5, e, FixedField(kvar, kvar, Parts(1, 0, c, 5, e)))
    BY DEF At, FieldAt, PowerField, AverageField
  <2>3. Found(m, Decimal("FixedField", kvar, kvar, Ids(1, 0, {3, 4}, 4, {0})))
    BY <2>1, DecimalFound, Zenon DEF FixedField
  <2>4. Found(m, Decimal("FixedField", kvar, kvar, Ids(1, 0, {3, 4}, 5, {0})))
    BY <2>2, DecimalFound, Zenon DEF FixedField
  <2> QED BY <2>3, <2>4, DecimalUnion, Zenon DEF Fixed
<1>3. Found(m, Fixed(kVA, VA, Ids(1, 0, {9, 10}, 4, {0})
                             \cup Ids(1, 0, {9, 10}, 5, {0})))
  <2>1. \A c \in {9, 10}, e \in {0} :
          At(m, 1, 0, c, 4, e, FixedField(kVA, VA, Parts(1, 0, c, 4, e)))
    BY DEF At, FieldAt, PowerField, AverageField
  <2>2. \A c \in {9, 10}, e \in {0} :
          At(m, 1, 0, c, 5, e, FixedField(kVA, VA, Parts(1, 0, c, 5, e)))
    BY DEF At, FieldAt, PowerField, AverageField
  <2>3. Found(m, Decimal("FixedField", kVA, VA, Ids(1, 0, {9, 10}, 4, {0})))
    BY <2>1, DecimalFound, Zenon DEF FixedField
  <2>4. Found(m, Decimal("FixedField", kVA, VA, Ids(1, 0, {9, 10}, 5, {0})))
    BY <2>2, DecimalFound, Zenon DEF FixedField
  <2> QED BY <2>3, <2>4, DecimalUnion, Zenon DEF Fixed
<1>4. Found(m, TimestampedFixed(kW, W, {<<1, 0, 1, 6, 0>>}))
  <2>1. At(m, 1, 0, 1, 6, 0, TimestampedFixedField(kW, W, Parts(1, 0, 1, 6, 0)))
    BY DEF At, FieldAt, PowerField
  <2> QED BY <2>1, OneFound, Zenon DEF TimestampedFixed, TimestampedFixedField
<1>5. Found(m, AveragedFixed(kW, W, {<<0, 0, 98, 1, 0>>}))
  <2>1. At(m, 0, 0, 98, 1, 0, DecimalField("AveragedFixedField", kW, W, Parts(0, 0, 98, 1, 0)))
    BY DEF At, FieldAt, MainField
  <2> QED BY <2>1, OneFound, ZenonT(60) DEF AveragedFixed
<1>6. Found(m, Strings(0, 96, Ids(1, 0, {0}, 2, {0, 8})
                             \cup Ids(1, 1, {0}, 2, {0, 8})))
  <2>1. \A c \in {0}, e \in {0, 8} :
          At(m, 1, 0, c, 2, e, StringField(0, 96, Parts(1, 0, c, 2, e)))
    BY DEF At, FieldAt, PowerField
  <2>2. \A c \in {0}, e \in {0, 8} :
          At(m, 1, 1, c, 2, e, StringField(0, 96, Parts(1, 1, c, 2, e)))
    BY DEF At, FieldAt, OtherField
  <2>3. Found(m, Strings(0, 96, Ids(1, 0, {0}, 2, {0, 8})))
    BY <2>1, StringsFound, Zenon
  <2>4. Found(m, Strings(0, 96, Ids(1, 1, {0}, 2, {0, 8})))
    BY <2>2, StringsFound, Zenon
  <2> QED BY <2>3, <2>4, StringsUnion, Zenon
<1>7. Found(m, Fixed(none, none, Ids(1, 0, {13, 33, 53, 73}, 7, {0})
                                 \cup {<<1, 0, 13, 3, 0>>}))
  <2>1. \A c \in {13, 33, 53, 73}, e \in {0} :
          At(m, 1, 0, c, 7, e, FixedField(none, none, Parts(1, 0, c, 7, e)))
    BY DEF At, FieldAt, PowerField, InstantaneousField
  <2>2. At(m, 1, 0, 13, 3, 0, FixedField(none, none, Parts(1, 0, 13, 3, 0)))
    BY DEF At, FieldAt, PowerField
  <2>3. Found(m, Decimal("FixedField", none, none, Ids(1, 0, {13, 33, 53, 73}, 7, {0})))
    BY <2>1, DecimalFound, ZenonT(60) DEF FixedField
  <2>4. Found(m, Decimal("FixedField", none, none, {<<1, 0, 13, 3, 0>>}))
    BY <2>2, OneFound, Zenon DEF FixedField
  <2> QED BY <2>3, <2>4, DecimalUnion, ZenonT(60) DEF Fixed
<1>8. Found(m, Ints("uint32_t", s, {<<1, 0, 0, 8, 2>>}))
  <2>1. At(m, 1, 0, 0, 8, 2, IntField("uint32_t", s, Parts(1, 0, 0, 8, 2)))
    BY DEF At, FieldAt, PowerField
  <2> QED BY <2>1, OneFound, Zenon
<1> QED BY <1>1, <1>2, <1>3, <1>4, <1>5, <1>6, <1>7, <1>8, ZenonT(60)
   DEF DemandFields, Found

(* The field for the gas meter that shares its id with another.            *)
GasInGJ(m) == TimestampedFixedField(GJ, MJ, Parts(0, m.gas, 24, 2, 1))

(* The meters of the M-Bus, each on a channel of its own.                  *)
LEMMA MBusFieldsFound ==
  ASSUME NEW m \in Channels
  PROVE  Found(m, MBusFields(m) \ {GasInGJ(m)})
<1> DEFINE meters == {"gas", "thermal", "water", "sub"}
<1>1. /\ \A n \in meters : m[n] \in 1..255
      /\ m.thermal # m.gas /\ m.thermal # m.water /\ m.thermal # m.sub
      /\ m.gas \in 1..255 /\ m.thermal \in 1..255
  BY ChannelsAssumption
<1>2. ASSUME NEW b \in 1..255
      PROVE  Found(m, MBusMeter(b))
  <2>1. /\ At(m, 0, b, 24, 1, 0, IntField("uint16_t", none, Parts(0, b, 24, 1, 0)))
        /\ At(m, 0, b, 96, 1, 0, StringField(0, 96, Parts(0, b, 96, 1, 0)))
        /\ At(m, 0, b, 24, 4, 0, IntField("uint8_t", none, Parts(0, b, 24, 4, 0)))
    BY DEF At, FieldAt, MBusField
  <2>2. /\ Found(m, Ints("uint16_t", none, {<<0, b, 24, 1, 0>>}))
        /\ Found(m, Strings(0, 96, {<<0, b, 96, 1, 0>>}))
        /\ Found(m, Ints("uint8_t", none, {<<0, b, 24, 4, 0>>}))
    BY <2>1, OneFound, ZenonT(60)
  <2> QED BY <2>2, Zenon DEF MBusMeter, Found
<1>3. \A f \in MBusMeters(m) : IsFieldAt(m, f)
  BY <1>1, <1>2, ZenonT(60) DEF Found, MBusMeters
<1>4. Found(m, Strings(0, 96, {<<0, m.gas, 96, 1, 1>>}))
  <2>1. At(m, 0, m.gas, 96, 1, 1, StringField(0, 96, Parts(0, m.gas, 96, 1, 1)))
    BY <1>1 DEF At, FieldAt, MBusField
  <2> QED BY <2>1, OneFound, ZenonT(60)
<1>5. Found(m, TimestampedFixed(m3, dm3, Ids(0, m.gas, {24}, 2, {1, 3})))
  <2>1. \A c \in {24}, e \in {1, 3} :
          At(m, 0, m.gas, c, 2, e,
             TimestampedFixedField(m3, dm3, Parts(0, m.gas, c, 2, e)))
    BY <1>1 DEF At, FieldAt, MBusField
  <2> QED BY <2>1, DecimalFound, Zenon DEF TimestampedFixed, TimestampedFixedField
<1>6. \A f \in TimestampedFixed(GJ, MJ, Ids(0, m.gas, {24}, 2, {1})) :
        f = GasInGJ(m)
  BY DEF TimestampedFixed, Decimal, Ids, GasInGJ, TimestampedFixedField, Parts
<1>7. Found(m, Raw({<<0, m.gas, 24, 3, 0>>}))
  <2>1. At(m, 0, m.gas, 24, 3, 0, RawField(Parts(0, m.gas, 24, 3, 0)))
    BY <1>1 DEF At, FieldAt, MBusField
  <2> QED BY <2>1, OneFound, Zenon
<1>8. Found(m, TimestampedFixed(GJ, MJ, Ids(0, m.thermal, {24}, 2, {1})))
  <2>1. \A c \in {24}, e \in {1} :
          At(m, 0, m.thermal, c, 2, e,
             TimestampedFixedField(GJ, MJ, Parts(0, m.thermal, c, 2, e)))
    BY <1>1 DEF At, FieldAt, MBusField
  <2> QED BY <2>1, DecimalFound, Zenon DEF TimestampedFixed, TimestampedFixedField
<1> DEFINE volumes == {<<0, m[n], 24, 2, 1>> : n \in {"water", "sub"}}
<1>9. \A f \in TimestampedFixed(m3, dm3, volumes) : IsFieldAt(m, f)
  <2>1. ASSUME NEW n \in {"water", "sub"}
        PROVE  At(m, 0, m[n], 24, 2, 1,
                  TimestampedFixedField(m3, dm3, Parts(0, m[n], 24, 2, 1)))
    BY <1>1 DEF At, FieldAt, MBusField
  <2>2. \A n \in {"water", "sub"} :
          Found(m, TimestampedFixed(m3, dm3, {<<0, m[n], 24, 2, 1>>}))
    BY <2>1, OneFound, Zenon DEF TimestampedFixed, TimestampedFixedField
  <2>3. \A f \in TimestampedFixed(m3, dm3, volumes) :
          \E n \in {"water", "sub"} :
            f \in TimestampedFixed(m3, dm3, {<<0, m[n], 24, 2, 1>>})
    BY DEF TimestampedFixed, Decimal
  <2> QED BY <2>2, <2>3, Zenon DEF Found
<1>10. \A f \in MBusFields(m) :
         \/ f \in MBusMeters(m)
         \/ f \in Strings(0, 96, {<<0, m.gas, 96, 1, 1>>})
         \/ f \in TimestampedFixed(m3, dm3, Ids(0, m.gas, {24}, 2, {1, 3}))
         \/ f \in TimestampedFixed(GJ, MJ, Ids(0, m.gas, {24}, 2, {1}))
         \/ f \in Raw({<<0, m.gas, 24, 3, 0>>})
         \/ f \in TimestampedFixed(GJ, MJ, Ids(0, m.thermal, {24}, 2, {1}))
         \/ f \in TimestampedFixed(m3, dm3, volumes)
  BY Zenon DEF MBusFields
<1> QED BY <1>3, <1>4, <1>5, <1>6, <1>7, <1>8, <1>9, <1>10, Zenon DEF Found

(* Every field is found by its id, but for one of the two alternatives.    *)
LEMMA DataFieldsFound ==
  ASSUME NEW m \in Channels
  PROVE  Found(m, DataFields(m) \ {GasInGJ(m)})
<1> DEFINE Identification == Raw({<<255, 255, 255, 255, 255, 255>>})
<1>1. DataFields(m) = Catalogue(m) \ Identification BY DEF DataFields
<1>2. Found(m, GeneralFields \ Identification) BY GeneralFieldsFound
<1> HIDE DEF Identification
<1> QED BY <1>1, <1>2, EnergyFieldsFound, GridFieldsFound, InstantaneousFieldsFound,
           MBusFieldsFound, DemandFieldsFound, Zenon DEF Catalogue, Found

(* An id tells its parts. *)
LEMMA IdTellsParts ==
  ASSUME NEW a, NEW b, NEW c, NEW d, NEW e
  PROVE  LET id == ObisId(Parts(a, b, c, d, e))
         IN  /\ id[0] = a /\ id[1] = b /\ id[2] = c /\ id[3] = d /\ id[4] = e
             /\ id[5] = 255
             /\ id = [i \in 0..5 |-> id[i]]
BY DEF ObisId, Parts

(* The ids of the catalogue can be printed.                                *)
LEMMA IdsArePrintable ==
  ASSUME NEW m \in Channels, NEW f \in DataFields(m)
  PROVE  f.id \in PrintableIds
<1> DEFINE Byte == 0..255
<1>1. ASSUME NEW a \in Byte, NEW b \in Byte, NEW c \in Byte,
             NEW d \in Byte, NEW e \in Byte
      PROVE  ObisId(Parts(a, b, c, d, e)) \in PrintableIds
  <2> DEFINE id == ObisId(Parts(a, b, c, d, e))
  <2>1. /\ id[0] = a /\ id[1] = b /\ id[2] = c /\ id[3] = d /\ id[4] = e
        /\ id[5] = 255 /\ id = [i \in 0..5 |-> id[i]]
    BY IdTellsParts
  <2> HIDE DEF id
  <2>2. \A i \in 0..5 : i = 0 \/ i = 1 \/ i = 2 \/ i = 3 \/ i = 4 \/ i = 5 OBVIOUS
  <2>3. \A i \in 0..5 : id[i] \in 0..255 BY <2>1, <2>2, SMTT(60)
  <2>4. id \in [0..5 -> 0..255] BY <2>1, <2>3
  <2> QED BY <2>1, <2>4, SMTT(60) DEF PrintableIds, id
<1> HIDE DEF Byte
<1>2. CASE f = GasInGJ(m)
  <2>1. m.gas \in Byte BY ChannelsAssumption DEF Byte
  <2>2. f.id = ObisId(Parts(0, m.gas, 24, 2, 1))
    BY <1>2, FieldIds DEF GasInGJ, TimestampedFixedField
  <2>3. 0 \in Byte /\ 24 \in Byte /\ 2 \in Byte /\ 1 \in Byte BY DEF Byte
  <2>4. ObisId(Parts(0, m.gas, 24, 2, 1)) \in PrintableIds
    BY <1>1, <2>1, <2>3, Zenon
  <2> QED BY <2>2, <2>4
<1>3. CASE f # GasInGJ(m)
  <2>1. IsFieldAt(m, f) BY <1>3, DataFieldsFound, Zenon DEF Found
  <2>2. PICK a, b, c, d, e : /\ f.id = ObisId(Parts(a, b, c, d, e))
                             /\ At(m, a, b, c, d, e, f)
    BY <2>1, Zenon DEF IsFieldAt
  <2>3. a \in Byte /\ b \in Byte /\ c \in Byte /\ d \in Byte /\ e \in Byte
    BY <2>2 DEF At, Byte
  <2>4. ObisId(Parts(a, b, c, d, e)) \in PrintableIds
    BY <1>1, <2>3, Zenon
  <2> QED BY <2>2, <2>4
<1> QED BY <1>2, <1>3

(* Two fields with one id are the two alternatives for the gas meter.      *)
LEMMA IdsDiffer ==
  ASSUME NEW m \in Channels, NEW f \in DataFields(m), NEW g \in DataFields(m),
         f.id = g.id, f # g
  PROVE  /\ {f.kind, g.kind} = {"TimestampedFixedField"}
         /\ {f.unit, g.unit} = {m3, GJ}
         /\ f.id = ObisId(<<0, m.gas, 24, 2, 1>>)
<1>1. ASSUME NEW h \in DataFields(m), h # GasInGJ(m)
      PROVE  h = FieldAt(m, h.id[0], h.id[1], h.id[2], h.id[3], h.id[4])
  <2>1. IsFieldAt(m, h) BY <1>1, DataFieldsFound, Zenon DEF Found
  <2>2. PICK a, b, c, d, e : /\ h.id = ObisId(Parts(a, b, c, d, e))
                             /\ FieldAt(m, a, b, c, d, e) = h
    BY <2>1, ZenonT(60) DEF IsFieldAt, At
  <2>3. h.id[0] = a /\ h.id[1] = b /\ h.id[2] = c /\ h.id[3] = d /\ h.id[4] = e
    BY <2>2, IdTellsParts
  <2> QED BY <2>2, <2>3
<1>2. f = GasInGJ(m) \/ g = GasInGJ(m) BY <1>1, Zenon
<1> DEFINE GasInM3 == TimestampedFixedField(m3, dm3, Parts(0, m.gas, 24, 2, 1))
<1>3. ASSUME NEW h \in DataFields(m), h # GasInGJ(m), h.id = GasInGJ(m).id
      PROVE  h = GasInM3
  <2>1. GasInGJ(m).id = ObisId(Parts(0, m.gas, 24, 2, 1))
    BY FieldIds DEF GasInGJ, TimestampedFixedField
  <2>2. h.id[0] = 0 /\ h.id[1] = m.gas /\ h.id[2] = 24 /\ h.id[3] = 2 /\ h.id[4] = 1
    BY <1>3, <2>1, IdTellsParts
  <2>3. h = FieldAt(m, 0, m.gas, 24, 2, 1) BY <1>1, <1>3, <2>2
  <2>4. m.gas # 0 /\ m.gas # m.thermal BY ChannelsAssumption
  <2> QED BY <2>3, <2>4 DEF FieldAt, MBusField
<1>4. /\ GasInGJ(m).kind = "TimestampedFixedField"
      /\ GasInM3.kind = "TimestampedFixedField"
      /\ GasInGJ(m).unit = GJ /\ GasInM3.unit = m3
      /\ GasInGJ(m).id = ObisId(<<0, m.gas, 24, 2, 1>>)
      /\ GasInM3.id = ObisId(<<0, m.gas, 24, 2, 1>>)
  BY DEF GasInGJ, TimestampedFixedField, DecimalField, Parts
<1> HIDE DEF GasInM3
<1>5. \/ f = GasInGJ(m) /\ g = GasInM3
      \/ f = GasInM3 /\ g = GasInGJ(m)
  BY <1>2, <1>3, Zenon
<1> QED BY <1>4, <1>5

-----------------------------------------------------------------------------
(* Without the alternatives, the lines so far have each filled their field *)
(* and nothing else.                                                       *)
DispatchInv == /\ mbus \in Channels
               /\ fields \in Arguments(mbus)
               /\ line \in 1..(Len(fields) + 1)
               /\ ~HasAlternatives => filled = 1..(line - 1)

(* No field is filled at first.                                            *)
LEMMA DispatchInit == Init => DispatchInv
<1> SUFFICES ASSUME Init PROVE DispatchInv
  OBVIOUS
<1>1. Len(fields) \in Nat
  BY ArgumentsAssumption, LenProperties DEF Init
<1> QED BY <1>1 DEF Init, DispatchInv

(* Where a field is by its id: only at its own place.                      *)
LEMMA FoundAtItsPlace ==
  ASSUME DispatchInv, ~HasAlternatives, NEW n \in DOMAIN fields
  PROVE  FirstField(fields[n].id) = {n}
<1>1. /\ mbus \in Channels
      /\ \A i \in DOMAIN fields : fields[i] \in DataFields(mbus)
      /\ \A i, j \in DOMAIN fields : i # j => fields[i] # fields[j]
      /\ DOMAIN fields \subseteq Nat
  BY ArgumentsAssumption, ElementOfSeq, LenProperties DEF DispatchInv
<1>2. ASSUME NEW i \in DOMAIN fields, fields[i].id = fields[n].id, i # n
      PROVE  FALSE
  <2>1. fields[i] # fields[n] BY <1>1, <1>2
  <2>2. Alternatives(fields[i], fields[n])
    BY <1>1, <1>2, <2>1, IdsDiffer, Zenon DEF Alternatives
  <2> QED BY <2>2 DEF HasAlternatives
<1>3. TryFields(fields[n].id) = {n} BY <1>2 DEF TryFields
<1> QED BY <1>1, <1>3 DEF FirstField

(* A line fills the field whose id it carries, wherever that field is.     *)
LEMMA DispatchStep == DispatchInv /\ [parse_line]_vars => DispatchInv'
<1> SUFFICES ASSUME DispatchInv, [parse_line]_vars PROVE DispatchInv'
  OBVIOUS
<1>1. CASE parse_line
  <2>1. /\ line <= Len(fields) /\ line' = line + 1
        /\ mbus' = mbus /\ fields' = fields
        /\ filled' = filled \cup FirstField(P!parse_obis(Line(fields[line].id)).id)
    BY <1>1 DEF parse_line
  <2>2. /\ fields \in Seq(DataFields(mbus)) /\ Len(fields) \in Nat
        /\ DOMAIN fields = 1..Len(fields) /\ line \in 1..Len(fields)
    BY <2>1, ArgumentsAssumption, LenProperties DEF DispatchInv
  <2>3. fields[line].id \in PrintableIds
    BY <2>2, ElementOfSeq, IdsArePrintable DEF DispatchInv
  <2>4. P!parse_obis(Line(fields[line].id)).id = fields[line].id
    BY <2>3, IdIsReadBack
  <2>5. HasAlternatives' = HasAlternatives
    BY <2>1 DEF HasAlternatives, Alternatives
  <2>6. ASSUME ~HasAlternatives
        PROVE  filled' = 1..(line' - 1)
    <3>1. FirstField(fields[line].id) = {line}
      BY <2>2, <2>6, FoundAtItsPlace
    <3>2. filled' = 1..(line - 1) \cup {line}
      BY <2>1, <2>4, <2>6, <3>1 DEF DispatchInv
    <3> QED BY <2>1, <2>2, <3>2
  <2> QED BY <2>1, <2>2, <2>5, <2>6 DEF DispatchInv
<1>2. CASE UNCHANGED vars
  BY <1>2 DEF vars, DispatchInv, HasAlternatives, Alternatives
<1> QED BY <1>1, <1>2

(* In every reachable state the lines so far have filled their fields.     *)
LEMMA DispatchCorrect == Spec => []DispatchInv
BY DispatchInit, DispatchStep, PTL DEF Spec

(* Whichever fields of the catalogue a program asks for, in whichever      *)
(* order and on whichever channels the meters of the M-Bus are, the line   *)
(* of a field is read back to its id and fills that field and no other.    *)
THEOREM LinesFillTheirFields == Spec => []EachLineFillsItsField
<1>1. DispatchInv => EachLineFillsItsField
  <2> SUFFICES ASSUME DispatchInv, ~HasAlternatives
               PROVE  /\ filled = 1..(line - 1)
                      /\ line > Len(fields) => all_present
    BY DEF EachLineFillsItsField
  <2>1. Len(fields) \in Nat /\ DOMAIN fields = 1..Len(fields)
    BY ArgumentsAssumption, LenProperties DEF DispatchInv
  <2> QED BY <2>1 DEF DispatchInv, all_present
<1> QED BY <1>1, DispatchCorrect, PTL
=============================================================================
