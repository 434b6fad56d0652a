------------------------ MODULE NumericFieldsProofs ------------------------
(***************************************************************************)
(* The numeric fields hold what their lines say, for every set of fields   *)
(* and units, all lines of printed values and every width of int32_t:      *)
(* proofs of the invariants of PrintedNumbers. The lemmas follow the text  *)
(* of a line through the parsers: what Find, SubSeq and the digits of a    *)
(* printed value come to, how parse_num takes a value apart, and what the  *)
(* loops over the values of a line leave behind after each turn.           *)
(***************************************************************************)
EXTENDS PrintedNumbers, SequenceTheorems, WellFoundedInduction, TLAPS

-----------------------------------------------------------------------------
(* Naturals, and recursions over them. The provers know no induction, so   *)
(* that each of these rests on a least counterexample.                     *)

(* A set of naturals has a least element. *)
LEMMA LeastNatural ==
  ASSUME NEW T, T \subseteq Nat, T # {}
  PROVE  \E x \in T : \A y \in T : x <= y
<1>1. IsWellFoundedOn(OpToRel(<, Nat), Nat)
  BY NatLessThanWellFounded
<1>2. PICK x \in T : \A y \in T : <<y, x>> \notin OpToRel(<, Nat)
  BY <1>1, WFMin
<1>3. \A y \in T : ~(y < x) BY <1>2 DEF OpToRel
<1> QED BY <1>3

(* The least element is what Min takes. *)
LEMMA MinIs ==
  ASSUME NEW T, NEW x \in T, T \subseteq Int, \A y \in T : x <= y
  PROVE  Min(T) = x
<1>1. \A y \in T : (\A z \in T : y <= z) => y = x OBVIOUS
<1> QED BY <1>1 DEF Min

(* A set of naturals without 0 that holds with each number the one below   *)
(* it is empty.                                                            *)
LEMMA NoLeast ==
  ASSUME NEW T, T \subseteq Nat,
         0 \notin T, \A n \in T : n # 0 => n - 1 \in T
  PROVE  T = {}
<1> SUFFICES ASSUME T # {} PROVE FALSE
  OBVIOUS
<1>1. PICK x \in T : \A y \in T : x <= y BY LeastNatural
<1>2. x # 0 /\ x - 1 \in T /\ x \in Nat BY <1>1
<1> QED BY <1>1, <1>2

(* f solves a recursion that goes down by one. *)
Recursion(f, V, first, k, step) ==
  /\ f \in [0..k -> V]
  /\ f = [i \in 0..k |-> IF i = 0 THEN first ELSE step[i][f[i - 1]]]

(* It has a solution, which is built up to each length in turn, and a      *)
(* least length without one cannot be.                                     *)
LEMMA RecursionExists ==
  ASSUME NEW V, NEW first \in V, NEW k \in Nat, NEW step,
         step \in [1..k -> [V -> V]]
  PROVE  \E f : Recursion(f, V, first, k, step)
<1> DEFINE Solves(f, n) ==
             /\ f \in [0..n -> V]
             /\ \A i \in 0..n : f[i] = IF i = 0 THEN first ELSE step[i][f[i - 1]]
           T == {n \in Nat : n <= k /\ ~\E f : Solves(f, n)}
<1>1. 0 \notin T
  <2> DEFINE f == [i \in 0..0 |-> first]
  <2>1. Solves(f, 0) OBVIOUS
  <2> HIDE DEF Solves
  <2> QED BY <2>1
<1>2. ASSUME NEW n \in T, n # 0 PROVE n - 1 \in T
  <2> SUFFICES ASSUME n - 1 \notin T PROVE FALSE
    OBVIOUS
  <2>1. n \in 1..k /\ n - 1 \in Nat /\ n \in Nat BY <1>2
  <2>2. PICK f : Solves(f, n - 1) BY <2>1
  <2> DEFINE g == [i \in 0..n |-> IF i < n THEN f[i] ELSE step[n][f[n - 1]]]
  <2>3. f[n - 1] \in V /\ step[n] \in [V -> V] BY <2>1, <2>2
  <2>4. g \in [0..n -> V]
    <3>1. \A i \in 0..n : i < n => f[i] \in V BY <2>1, <2>2
    <3> QED BY <2>3, <3>1
  <2>5. \A i \in 0..n : g[i] = IF i = 0 THEN first ELSE step[i][g[i - 1]]
    <3> SUFFICES ASSUME NEW i \in 0..n
                 PROVE  g[i] = IF i = 0 THEN first ELSE step[i][g[i - 1]]
      OBVIOUS
    <3>1. CASE i < n
      <4>1. i \in 0..(n - 1) /\ g[i] = f[i] BY <2>1, <3>1
      <4>2. i # 0 => g[i - 1] = f[i - 1] BY <2>1, <3>1
      <4>3. f[i] = IF i = 0 THEN first ELSE step[i][f[i - 1]] BY <2>2, <4>1
      <4> QED BY <4>1, <4>2, <4>3
    <3>2. CASE i = n
      <4>1. g[i] = step[n][f[n - 1]] /\ g[i - 1] = f[n - 1] BY <2>1, <3>2
      <4> QED BY <2>1, <3>2, <4>1
    <3> QED BY <2>1, <3>1, <3>2
  <2> HIDE DEF g
  <2>6. Solves(g, n) BY <2>4, <2>5
  <2> QED BY <2>6
<1>3. T = {} 
  <2> HIDE DEF T
  <2>1. T \subseteq Nat BY DEF T
  <2> QED BY <1>1, <1>2, <2>1, NoLeast
<1>4. PICK f : Solves(f, k) BY <1>3
<1>5. f = [i \in 0..k |-> IF i = 0 THEN first ELSE step[i][f[i - 1]]] BY <1>4
<1> QED BY <1>4, <1>5 DEF Recursion

(* Recursions that go down by one agree when they begin alike and take the *)
(* same steps.                                                             *)
SameSteps(f, g, k) ==
  /\ f[0] = g[0]
  /\ \A i \in 1..k : f[i - 1] = g[i - 1] => f[i] = g[i]

(* Such recursions agree throughout. *)
LEMMA SameRecursion ==
  ASSUME NEW k \in Nat, NEW f, NEW g, SameSteps(f, g, k)
  PROVE  \A i \in 0..k : f[i] = g[i]
<1> DEFINE T == {i \in 0..k : f[i] # g[i]}
<1>1. 0 \notin T BY DEF SameSteps
<1>2. ASSUME NEW n \in T, n # 0 PROVE n - 1 \in T
  <2>1. n \in 1..k /\ n - 1 \in 0..k /\ f[n] # g[n] BY <1>2
  <2> QED BY <2>1 DEF SameSteps
<1>3. T = {}
  <2>1. T \subseteq Nat OBVIOUS
  <2> HIDE DEF T
  <2> QED BY <1>1, <1>2, <2>1, NoLeast
<1> QED BY <1>3

(* The sum of a sequence is the last of its partial sums. *)
PartialSums(sum, s) == /\ sum \in [0..Len(s) -> Int]
                       /\ sum[0] = 0
                       /\ \A i \in 1..Len(s) : sum[i] = sum[i - 1] + s[i]

(* The sum of a sequence is its last partial sum. *)
LEMMA TotalIs ==
  ASSUME NEW s, s \in Seq(Int)
  PROVE  \E sum : PartialSums(sum, s) /\ Total(s) = sum[Len(s)]
<1> DEFINE k == Len(s)
           step == [i \in 1..k |-> [x \in Int |-> x + s[i]]]
           Sums(g) == g = [i \in 0..k |-> IF i = 0 THEN 0 ELSE g[i - 1] + s[i]]
           g == CHOOSE x : Sums(x)
<1>1. k \in Nat /\ 0 \in Int /\ \A i \in 1..k : s[i] \in Int BY LenProperties
<1> HIDE DEF k
<1>2. step \in [1..k -> [Int -> Int]] BY <1>1
<1>3. \A i \in 1..k : \A x \in Int : step[i][x] = x + s[i] OBVIOUS
<1> HIDE DEF step
<1>4. PICK f : Recursion(f, Int, 0, k, step)
  BY <1>1, <1>2, RecursionExists
<1>5. Sums(f)
  <2>1. \A i \in 0..k : i # 0 => i \in 1..k /\ i - 1 \in 0..k BY <1>1
  <2>2. \A i \in 0..k : i # 0 => f[i - 1] \in Int BY <1>4, <2>1 DEF Recursion
  <2>3. \A i \in 0..k : i # 0 => step[i][f[i - 1]] = f[i - 1] + s[i]
    BY <2>1, <2>2, <1>3
  <2>4. [i \in 0..k |-> IF i = 0 THEN 0 ELSE step[i][f[i - 1]]]
          = [i \in 0..k |-> IF i = 0 THEN 0 ELSE f[i - 1] + s[i]]
    BY <2>3
  <2> QED BY <1>4, <2>4 DEF Recursion
<1>6. Sums(g) BY <1>5
<1>7. Total(s) = g[k] BY DEF Total, k
<1> HIDE DEF g
<1>8. \A i \in 0..k : f[i] = g[i]
  <2>1. f[0] = 0 /\ g[0] = 0 BY <1>1, <1>5, <1>6
  <2>2. \A i \in 1..k : f[i] = f[i - 1] + s[i] BY <1>1, <1>5
  <2>3. \A i \in 1..k : g[i] = g[i - 1] + s[i] BY <1>1, <1>6
  <2>4. SameSteps(f, g, k) BY <2>1, <2>2, <2>3 DEF SameSteps
  <2> QED BY <1>1, <2>4, SameRecursion
<1>9. f[0] = 0 /\ \A i \in 1..k : f[i] = f[i - 1] + s[i] BY <1>1, <1>5
<1>10. f \in [0..k -> Int] BY <1>4 DEF Recursion
<1>11. f[k] = g[k] BY <1>1, <1>8
<1> QED BY <1>7, <1>9, <1>10, <1>11 DEF k, PartialSums

(* Whatever the partial sums are called, the last of them is the sum. *)
LEMMA TotalOfSums ==
  ASSUME NEW s, s \in Seq(Int), NEW sum, PartialSums(sum, s)
  PROVE  Total(s) = sum[Len(s)]
<1>1. Len(s) \in Nat BY LenProperties
<1>2. PICK t : PartialSums(t, s) /\ Total(s) = t[Len(s)] BY TotalIs
<1>3. SameSteps(t, sum, Len(s)) BY <1>2 DEF PartialSums, SameSteps
<1>4. \A i \in 0..Len(s) : t[i] = sum[i] BY <1>1, <1>3, SameRecursion
<1> QED BY <1>1, <1>2, <1>4

(* What never falls from one index to the next never falls. *)
LEMMA Nondecreasing ==
  ASSUME NEW k \in Nat, NEW g, \A i \in 0..k : g[i] \in Int,
         \A i \in 1..k : g[i - 1] <= g[i]
  PROVE  \A j \in 0..k : \A i \in 0..j : g[i] <= g[j]
<1> DEFINE T == {n \in 0..k : ~\A i \in 0..n : g[i] <= g[n]}
<1>1. 0 \notin T
  <2>1. \A i \in 0..0 : i = 0 OBVIOUS
  <2> QED BY <2>1
<1>2. ASSUME NEW n \in T, n # 0 PROVE n - 1 \in T
  <2> SUFFICES ASSUME n - 1 \notin T PROVE FALSE
    OBVIOUS
  <2>1. n \in 1..k /\ n - 1 \in 0..k /\ n \in 0..k BY <1>2
  <2>2. \A i \in 0..(n - 1) : g[i] <= g[n - 1] BY <2>1
  <2>3. g[n - 1] <= g[n] /\ g[n] \in Int /\ g[n - 1] \in Int BY <2>1
  <2>4. \A i \in 0..n : g[i] <= g[n]
    <3> SUFFICES ASSUME NEW i \in 0..n PROVE g[i] <= g[n]
      OBVIOUS
    <3>1. CASE i = n BY <2>3, <3>1
    <3>2. CASE i # n
      <4>1. i \in 0..(n - 1) /\ i \in 0..k BY <2>1, <3>2
      <4>2. g[i] <= g[n - 1] /\ g[i] \in Int BY <2>2, <4>1
      <4> QED BY <2>3, <4>2
    <3> QED BY <3>1, <3>2
  <2> QED BY <2>1, <2>4, <1>2
<1>3. T = {}
  <2>1. T \subseteq Nat OBVIOUS
  <2> HIDE DEF T
  <2> QED BY <1>1, <1>2, <2>1, NoLeast
<1> QED BY <1>3

(* No number of a sum of naturals is larger than the sum. *)
LEMMA TotalBounds ==
  ASSUME NEW s, s \in Seq(Nat), NEW sum, PartialSums(sum, s)
  PROVE  /\ \A j \in 0..Len(s) : \A i \in 0..j : 0 <= sum[i] /\ sum[i] <= sum[j]
         /\ \A i \in 1..Len(s) : s[i] <= sum[Len(s)]
<1> DEFINE k == Len(s)
<1>1. k \in Nat /\ \A i \in 1..k : s[i] \in Nat BY LenProperties
<1>2. sum[0] = 0 /\ \A i \in 1..k : sum[i] = sum[i - 1] + s[i] BY DEF PartialSums
<1>3. \A i \in 0..k : sum[i] \in Int BY DEF PartialSums
<1> HIDE DEF k
<1>4. \A i \in 1..k : sum[i - 1] <= sum[i]
  <2>1. \A i \in 1..k : i \in 0..k /\ i - 1 \in 0..k BY <1>1
  <2>2. \A i \in 1..k : sum[i - 1] \in Int /\ s[i] \in Nat BY <1>1, <1>3, <2>1
  <2> QED BY <1>2, <2>2
<1>5. \A j \in 0..k : \A i \in 0..j : sum[i] <= sum[j]
  BY <1>1, <1>3, <1>4, Nondecreasing
<1>6. \A i \in 0..k : 0 <= sum[i]
  <2>1. \A j \in 0..k : sum[0] <= sum[j] BY <1>1, <1>5
  <2> QED BY <1>2, <2>1
<1>7. \A i \in 1..k : s[i] <= sum[k]
  <2> SUFFICES ASSUME NEW i \in 1..k PROVE s[i] <= sum[k]
    OBVIOUS
  <2>1. i - 1 \in 0..k /\ i \in 0..k /\ k \in 0..k BY <1>1
  <2>2. 0 <= sum[i - 1] /\ sum[i] <= sum[k] BY <1>1, <1>5, <1>6, <2>1
  <2>3. sum[i] = sum[i - 1] + s[i] BY <1>2
  <2>4. sum[i - 1] \in Int /\ s[i] \in Int /\ sum[k] \in Int BY <1>1, <1>3, <2>1
  <2> QED BY <2>2, <2>3, <2>4
<1>8. \A j \in 0..k : \A i \in 0..j : i \in 0..k BY <1>1
<1> QED BY <1>5, <1>6, <1>7, <1>8 DEF k

-----------------------------------------------------------------------------
Digits == DOMAIN DigitValues

(* The table of digits holds the ten of them with their values. *)
LEMMA DigitFacts ==
  /\ Digits = {"0", "1", "2", "3", "4", "5", "6", "7", "8", "9"}
  /\ \A c \in Digits : DigitValues[c] \in 0..9
  /\ "0" \in Digits /\ DigitValues["0"] = 0
<1>1. Digits = {"0", "1", "2", "3", "4", "5", "6", "7", "8", "9"}
  BY DEF Digits, DigitValues
<1>2. \A c \in Digits : DigitValues[c] \in 0..9 BY DEF Digits, DigitValues
<1>3. DigitValues["0"] = 0 BY DEF DigitValues
<1> QED BY <1>1, <1>2, <1>3

(* The value of a digit is a natural. *)
LEMMA DigitsHaveValues == \A c \in Digits : DigitValues[c] \in Nat
<1>1. \A c \in Digits : DigitValues[c] \in 0..9 BY DigitFacts
<1> QED BY <1>1

(* The powers of ten, each ten times the one before. *)
LEMMA PowersOfTenIs ==
  ASSUME NEW n \in Nat
  PROVE  /\ PowersOfTen(n) \in [0..n -> Nat]
         /\ PowersOfTen(n)[0] = 1
         /\ \A i \in 1..n : PowersOfTen(n)[i] = 10 * PowersOfTen(n)[i - 1]
<1> DEFINE step == [i \in 1..n |-> [x \in Nat |-> 10 * x]]
           Powers(g) == g = [i \in 0..n |-> IF i = 0 THEN 1 ELSE 10 * g[i - 1]]
           g == CHOOSE x : Powers(x)
<1>1. 1 \in Nat OBVIOUS
<1>2. step \in [1..n -> [Nat -> Nat]] OBVIOUS
<1>3. \A i \in 1..n : \A x \in Nat : step[i][x] = 10 * x OBVIOUS
<1> HIDE DEF step
<1>4. PICK f : Recursion(f, Nat, 1, n, step)
  BY <1>1, <1>2, RecursionExists
<1>5. Powers(f)
  <2>1. \A i \in 0..n : i # 0 => i \in 1..n /\ i - 1 \in 0..n OBVIOUS
  <2>2. \A i \in 0..n : i # 0 => f[i - 1] \in Nat BY <1>4, <2>1 DEF Recursion
  <2>3. \A i \in 0..n : i # 0 => step[i][f[i - 1]] = 10 * f[i - 1]
    BY <2>1, <2>2, <1>3
  <2>4. [i \in 0..n |-> IF i = 0 THEN 1 ELSE step[i][f[i - 1]]]
          = [i \in 0..n |-> IF i = 0 THEN 1 ELSE 10 * f[i - 1]]
    BY <2>3
  <2> QED BY <1>4, <2>4 DEF Recursion
<1>6. Powers(g) BY <1>5
<1>7. PowersOfTen(n) = g BY DEF PowersOfTen
<1> HIDE DEF g
<1>8. \A i \in 0..n : f[i] = g[i]
  <2>1. f[0] = 1 /\ g[0] = 1 BY <1>5, <1>6
  <2>2. \A i \in 1..n : f[i] = 10 * f[i - 1] BY <1>5
  <2>3. \A i \in 1..n : g[i] = 10 * g[i - 1] BY <1>6
  <2>4. SameSteps(f, g, n) BY <2>1, <2>2, <2>3 DEF SameSteps
  <2> QED BY <2>4, SameRecursion
<1>9. g = [i \in 0..n |-> g[i]] BY <1>6
<1>10. g \in [0..n -> Nat]
  <2>1. \A i \in 0..n : g[i] \in Nat BY <1>4, <1>8 DEF Recursion
  <2> QED BY <1>9, <2>1
<1>11. g[0] = 1 /\ \A i \in 1..n : g[i] = 10 * g[i - 1] BY <1>6
<1> QED BY <1>7, <1>10, <1>11

-----------------------------------------------------------------------------
(* Digits: what Accumulate reads digit by digit is the number in the       *)
(* positional system.                                                      *)

(* Reading digit after digit comes to the same as the positional system. *)
Horner(h, s) == /\ h \in [0..Len(s) -> Nat]
                /\ h[0] = 0
                /\ \A i \in 1..Len(s) : h[i] = 10 * h[i - 1] + DigitValues[s[i]]

(* A sequence of digits can be read so. *)
LEMMA HornerExists ==
  ASSUME NEW s, s \in Seq(Digits)
  PROVE  \E h : Horner(h, s)
<1> DEFINE k == Len(s)
           step == [i \in 1..k |-> [x \in Nat |-> 10 * x + DigitValues[s[i]]]]
<1>1. k \in Nat /\ \A i \in 1..k : s[i] \in Digits BY LenProperties
<1>2. \A i \in 1..k : DigitValues[s[i]] \in Nat BY <1>1, DigitsHaveValues
<1>3. 0 \in Nat OBVIOUS
<1> HIDE DEF k
<1>4. step \in [1..k -> [Nat -> Nat]] BY <1>2
<1>5. \A i \in 1..k : \A x \in Nat : step[i][x] = 10 * x + DigitValues[s[i]] OBVIOUS
<1> HIDE DEF step
<1>6. PICK h : Recursion(h, Nat, 0, k, step) BY <1>1, <1>3, <1>4, RecursionExists
<1>7. h \in [0..k -> Nat] BY <1>6 DEF Recursion
<1>8. h[0] = 0 BY <1>1, <1>6 DEF Recursion
<1>9. \A i \in 1..k : h[i] = 10 * h[i - 1] + DigitValues[s[i]]
  <2>1. \A i \in 1..k : i \in 0..k /\ i # 0 /\ i - 1 \in 0..k BY <1>1
  <2>2. \A i \in 1..k : h[i] = step[i][h[i - 1]] BY <1>6, <2>1 DEF Recursion
  <2>3. \A i \in 1..k : h[i - 1] \in Nat BY <1>7, <2>1
  <2> QED BY <1>5, <2>2, <2>3
<1> QED BY <1>7, <1>8, <1>9 DEF Horner, k

(* One digit more shifts those before it by a place. *)
LEMMA ShiftDigits ==
  ASSUME NEW a \in Nat, NEW d \in Nat, NEW x \in Nat
  PROVE  (10 * a + d) * x = a * (10 * x) + d * x
OBVIOUS

(* What is read so is the number that the digits stand for. *)
LEMMA HornerIsNumber ==
  ASSUME NEW s, s \in Seq(Digits), NEW h, Horner(h, s)
  PROVE  Number(s) = h[Len(s)]
<1> DEFINE k == Len(s)
           w == PowersOfTen(k)
           terms == [i \in 1..k |-> DigitValues[s[i]] * w[k - i]]
           sum == [i \in 0..k |-> h[i] * w[k - i]]
<1>1. k \in Nat /\ \A i \in 1..k : s[i] \in Digits BY LenProperties
<1>2. \A i \in 1..k : DigitValues[s[i]] \in Nat BY <1>1, DigitsHaveValues
<1>3. Number(s) = Total(terms) BY DEF Number
<1>4. /\ h \in [0..k -> Nat] /\ h[0] = 0
      /\ \A i \in 1..k : h[i] = 10 * h[i - 1] + DigitValues[s[i]]
  BY DEF Horner
<1> HIDE DEF k
<1>5. /\ w \in [0..k -> Nat] /\ w[0] = 1
      /\ \A i \in 1..k : w[i] = 10 * w[i - 1]
  BY <1>1, PowersOfTenIs
<1> HIDE DEF w
<1>6. \A i \in 1..k : k - i \in 0..k /\ k - i + 1 \in 1..k /\ i - 1 \in 0..k
                     /\ k - (i - 1) = k - i + 1 /\ (k - i + 1) - 1 = k - i
                     /\ i \in 0..k
  BY <1>1
<1>7. \A i \in 1..k : w[k - i] \in Nat BY <1>5, <1>6
<1>8. terms \in Seq(Int) /\ Len(terms) = k
  <2>1. \A i \in 1..k : DigitValues[s[i]] * w[k - i] \in Int BY <1>2, <1>7
  <2>2. terms \in [1..k -> Int] BY <2>1
  <2>3. terms \in Seq(Int) BY <1>1, <2>2, IsASeq
  <2>4. DOMAIN terms = 1..k /\ Len(terms) \in Nat /\ DOMAIN terms = 1..Len(terms)
    BY <2>3, LenProperties
  <2> QED BY <1>1, <2>3
<1>9. sum[0] = 0
  <2>1. 0 \in 0..k /\ k - 0 \in 0..k BY <1>1
  <2>2. sum[0] = h[0] * w[k - 0] BY <2>1
  <2>3. w[k - 0] \in Nat BY <1>5, <2>1
  <2> QED BY <1>4, <2>2, <2>3
<1>10. \A i \in 1..k : sum[i] = sum[i - 1] + terms[i]
  <2> SUFFICES ASSUME NEW i \in 1..k PROVE sum[i] = sum[i - 1] + terms[i]
    OBVIOUS
  <2>1. PICK a : a = h[i - 1] /\ a \in Nat BY <1>4, <1>6
  <2>2. PICK d : d = DigitValues[s[i]] /\ d \in Nat BY <1>2
  <2>3. PICK x : x = w[k - i] /\ x \in Nat BY <1>7
  <2>4. h[i] = 10 * a + d BY <1>4, <2>1, <2>2
  <2>5. w[k - (i - 1)] = 10 * x BY <1>5, <1>6, <2>3
  <2>6. (10 * a + d) * x = a * (10 * x) + d * x
    <3>1. a \in Nat /\ d \in Nat /\ x \in Nat BY <2>1, <2>2, <2>3
    <3> QED BY <3>1, ShiftDigits
  <2>7. sum[i] = h[i] * w[k - i] BY <1>6
  <2>8. sum[i - 1] = h[i - 1] * w[k - (i - 1)] BY <1>6
  <2>9. terms[i] = DigitValues[s[i]] * w[k - i] OBVIOUS
  <2> HIDE DEF sum, terms
  <2> QED BY <2>1, <2>2, <2>3, <2>4, <2>5, <2>6, <2>7, <2>8, <2>9
<1>11. sum[k] = h[k]
  <2>1. k \in 0..k /\ k - k = 0 BY <1>1
  <2>2. sum[k] = h[k] * w[k - k] BY <2>1
  <2>3. h[k] \in Nat BY <1>4, <2>1
  <2> QED BY <1>5, <2>1, <2>2, <2>3
<1> HIDE DEF sum, terms
<1>12. \A i \in 1..Len(terms) : sum[i] = sum[i - 1] + terms[i] BY <1>8, <1>10
<1>13. PartialSums(sum, terms)
  <2>1. \A i \in 0..k : h[i] * w[k - i] \in Int
    <3>1. \A i \in 0..k : k - i \in 0..k BY <1>1
    <3>2. \A i \in 0..k : h[i] \in Nat /\ w[k - i] \in Nat BY <1>4, <1>5, <3>1
    <3> QED BY <3>2
  <2>2. sum \in [0..k -> Int] BY <2>1 DEF sum
  <2> QED BY <1>8, <1>9, <1>12, <2>2 DEF PartialSums
<1>14. Total(terms) = sum[Len(terms)] BY <1>8, <1>13, TotalOfSums
<1> QED BY <1>3, <1>8, <1>11, <1>14 DEF k

(* What is read after each digit is the number of the digits so far. *)
LEMMA HornerOfPrefix ==
  ASSUME NEW s, s \in Seq(Digits), NEW h, Horner(h, s), NEW n, n \in 0..Len(s)
  PROVE  /\ SubSeq(s, 1, n) \in Seq(Digits)
         /\ Len(SubSeq(s, 1, n)) = n
         /\ Number(SubSeq(s, 1, n)) = h[n]
<1> DEFINE t == SubSeq(s, 1, n)
           g == [i \in 0..n |-> h[i]]
<1>1. Len(s) \in Nat /\ \A i \in 1..Len(s) : s[i] \in Digits BY LenProperties
<1>2. t \in Seq(Digits) /\ Len(t) = n /\ \A i \in 1..n : t[i] = s[i]
  <2>1. \A i \in 1..n : s[i] \in Digits BY <1>1
  <2> QED BY <1>1, <2>1, SubSeqProperties
<1> HIDE DEF t
<1>3. Horner(g, t)
  <2>1. \A i \in 0..n : h[i] \in Nat BY <1>1 DEF Horner
  <2>2. g \in [0..n -> Nat] BY <2>1
  <2>3. g[0] = 0 BY <1>1 DEF Horner
  <2>4. \A i \in 1..n : i \in 1..Len(s) /\ i \in 0..n /\ i - 1 \in 0..n BY <1>1
  <2>5. \A i \in 1..n : g[i] = 10 * g[i - 1] + DigitValues[t[i]]
    BY <1>2, <2>4 DEF Horner
  <2> QED BY <1>2, <2>2, <2>3, <2>5 DEF Horner
<1>4. g[n] = h[n] BY <1>1
<1> HIDE DEF g
<1>5. Number(t) = g[Len(t)] BY <1>2, <1>3, HornerIsNumber
<1> QED BY <1>2, <1>4, <1>5 DEF t

(* The first digits of a number stand for no more than all of them. *)
LEMMA NumberOfPrefix ==
  ASSUME NEW s, s \in Seq(Digits), NEW n, n \in 0..Len(s)
  PROVE  /\ Number(SubSeq(s, 1, n)) \in Nat
         /\ Number(s) \in Nat
         /\ Number(SubSeq(s, 1, n)) <= Number(s)
<1> DEFINE k == Len(s)
<1>1. k \in Nat /\ \A i \in 1..k : s[i] \in Digits BY LenProperties
<1>2. PICK h : Horner(h, s) BY HornerExists
<1>3. Number(s) = h[k] BY <1>2, HornerIsNumber
<1>4. Number(SubSeq(s, 1, n)) = h[n] BY <1>2, HornerOfPrefix
<1>5. \A i \in 0..k : h[i] \in Nat BY <1>2 DEF Horner
<1>6. \A i \in 1..k : h[i - 1] <= h[i]
  <2> SUFFICES ASSUME NEW i \in 1..k PROVE h[i - 1] <= h[i]
    OBVIOUS
  <2>1. DigitValues[s[i]] \in Nat BY <1>1, DigitsHaveValues
  <2>2. i - 1 \in 0..k BY <1>1
  <2>3. PICK a, d : a = h[i - 1] /\ d = DigitValues[s[i]] OBVIOUS
  <2>4. a \in Nat /\ d \in Nat BY <1>5, <2>1, <2>2, <2>3
  <2>5. h[i] = 10 * a + d BY <1>2, <2>3 DEF Horner
  <2>6. a <= 10 * a + d BY <2>4
  <2> QED BY <2>3, <2>5, <2>6
<1> HIDE DEF k
<1>7. \A i \in 0..k : h[i] \in Int BY <1>5
<1>8. \A j \in 0..k : \A i \in 0..j : h[i] <= h[j] BY <1>1, <1>6, <1>7, Nondecreasing
<1>9. n \in 0..k BY DEF k
<1>10. k \in 0..k BY <1>1
<1> QED BY <1>3, <1>4, <1>5, <1>8, <1>9, <1>10

(* The number with one digit more. *)
LEMMA NumberOfAppend ==
  ASSUME NEW s, s \in Seq(Digits), NEW c, c \in Digits
  PROVE  Number(Append(s, c)) = 10 * Number(s) + DigitValues[c]
<1> DEFINE t == Append(s, c)
           k == Len(s)
<1>1. k \in Nat BY LenProperties
<1>2. /\ t \in Seq(Digits) /\ Len(t) = k + 1 /\ t[k + 1] = c
      /\ \A i \in 1..k : t[i] = s[i]
  BY AppendProperties
<1>3. SubSeq(t, 1, k) = s
  <2>1. \A i \in 1..k : t[i] \in Digits BY <1>2, LenProperties
  <2>2. /\ SubSeq(t, 1, k) \in Seq(Digits) /\ Len(SubSeq(t, 1, k)) = k
        /\ \A i \in 1..k : SubSeq(t, 1, k)[i] = t[i]
    BY <1>1, <2>1, SubSeqProperties
  <2>3. \A i \in 1..k : SubSeq(t, 1, k)[i] = s[i] BY <1>2, <2>2
  <2> QED BY <2>2, <2>3, SeqEqual
<1> HIDE DEF t, k
<1>4. PICK h : Horner(h, t) BY <1>2, HornerExists
<1>5. k \in 0..Len(t) BY <1>1, <1>2
<1>6. Number(SubSeq(t, 1, k)) = h[k] BY <1>2, <1>4, <1>5, HornerOfPrefix
<1>7. Number(t) = h[k + 1] BY <1>2, <1>4, HornerIsNumber
<1>8. k + 1 \in 1..Len(t) /\ (k + 1) - 1 = k BY <1>1, <1>2
<1>9. h[k + 1] = 10 * h[k] + DigitValues[c] BY <1>2, <1>4, <1>8 DEF Horner
<1> QED BY <1>3, <1>6, <1>7, <1>9 DEF t

(* The powers of ten that decimals are scaled by. *)
LEMMA Tens == 10^0 = 1 /\ 10^1 = 10 /\ 10^2 = 100 /\ 10^3 = 1000
OBVIOUS

Zeros(n) == [i \in 1..n |-> "0"]

(* Zeros are digits of the value 0. *)
LEMMA ZerosAre ==
  ASSUME NEW n \in Nat
  PROVE  /\ Zeros(n) \in Seq(Digits) /\ Len(Zeros(n)) = n
         /\ \A i \in 1..n : Zeros(n)[i] = "0"
<1>1. Zeros(n) \in [1..n -> Digits] BY DigitFacts DEF Zeros
<1>2. Zeros(n) \in Seq(Digits) BY <1>1, IsASeq DEF Zeros
<1>3. DOMAIN Zeros(n) = 1..n /\ \A i \in 1..n : Zeros(n)[i] = "0" BY DEF Zeros
<1> QED BY <1>2, <1>3, LenProperties

(* One zero more is appended to the zeros before it. *)
LEMMA AnotherZero ==
  ASSUME NEW s, s \in Seq(Digits), NEW n \in Nat
  PROVE  s \o Zeros(n + 1) = Append(s \o Zeros(n), "0")
<1> DEFINE l == s \o Zeros(n + 1)
           m == s \o Zeros(n)
           r == Append(m, "0")
           k == Len(s)
<1>1. k \in Nat /\ n + 1 \in Nat BY LenProperties
<1>2. /\ l \in Seq(Digits) /\ Len(l) = k + n + 1
      /\ \A i \in 1..(k + n + 1) : l[i] = IF i <= k THEN s[i] ELSE "0"
  <2>1. /\ l \in Seq(Digits) /\ Len(l) = k + (n + 1)
        /\ \A i \in 1..(k + (n + 1)) :
             l[i] = IF i <= k THEN s[i] ELSE Zeros(n + 1)[i - k]
    <3>1. Zeros(n + 1) \in Seq(Digits) /\ Len(Zeros(n + 1)) = n + 1
      BY <1>1, ZerosAre
    <3>2. /\ l \in Seq(Digits) /\ Len(l) = k + Len(Zeros(n + 1))
          /\ \A i \in 1..(k + Len(Zeros(n + 1))) :
               l[i] = IF i <= k THEN s[i] ELSE Zeros(n + 1)[i - k]
      BY <3>1, ConcatProperties
    <3> QED BY <3>1, <3>2
  <2>2. \A i \in 1..(k + n + 1) : ~(i <= k) => i - k \in 1..(n + 1) BY <1>1
  <2>3. \A i \in 1..(n + 1) : Zeros(n + 1)[i] = "0" BY <1>1, ZerosAre
  <2> HIDE DEF l, k
  <2>4. k + (n + 1) = k + n + 1 BY <1>1
  <2> QED BY <2>1, <2>2, <2>3, <2>4
<1>3. /\ m \in Seq(Digits) /\ Len(m) = k + n
      /\ \A i \in 1..(k + n) : m[i] = IF i <= k THEN s[i] ELSE "0"
  <2>1. /\ m \in Seq(Digits) /\ Len(m) = k + n
        /\ \A i \in 1..(k + n) : m[i] = IF i <= k THEN s[i] ELSE Zeros(n)[i - k]
    <3>1. Zeros(n) \in Seq(Digits) /\ Len(Zeros(n)) = n
      BY <1>1, ZerosAre
    <3>2. /\ m \in Seq(Digits) /\ Len(m) = k + Len(Zeros(n))
          /\ \A i \in 1..(k + Len(Zeros(n))) :
               m[i] = IF i <= k THEN s[i] ELSE Zeros(n)[i - k]
      BY <3>1, ConcatProperties
    <3> QED BY <3>1, <3>2
  <2>2. \A i \in 1..(k + n) : ~(i <= k) => i - k \in 1..n BY <1>1
  <2>3. \A i \in 1..n : Zeros(n)[i] = "0" BY ZerosAre
  <2> HIDE DEF m, k
  <2> QED BY <2>1, <2>2, <2>3
<1>4. /\ r \in Seq(Digits) /\ Len(r) = k + n + 1 /\ r[k + n + 1] = "0"
      /\ \A i \in 1..(k + n) : r[i] = m[i]
  BY <1>3, DigitFacts, AppendProperties
<1> HIDE DEF l, m, r, k
<1>5. \A i \in 1..(k + n + 1) : l[i] = r[i]
  <2> SUFFICES ASSUME NEW i \in 1..(k + n + 1) PROVE l[i] = r[i]
    OBVIOUS
  <2>1. CASE i = k + n + 1 BY <1>1, <1>2, <1>4, <2>1
  <2>2. CASE i # k + n + 1
    <3>1. i \in 1..(k + n) BY <1>1, <2>2
    <3> QED BY <1>2, <1>3, <1>4, <3>1
  <2> QED BY <2>1, <2>2
<1>6. Len(l) = Len(r) /\ Len(l) = k + n + 1 BY <1>2, <1>4
<1>7. l = r BY <1>2, <1>4, <1>5, <1>6, SeqEqual
<1> QED BY <1>7 DEF l, m, r

(* Padding with zeros multiplies by a power of ten. *)
LEMMA NumberOfPadded ==
  ASSUME NEW s, s \in Seq(Digits), NEW n, n \in 0..3
  PROVE  /\ s \o Zeros(n) \in Seq(Digits)
         /\ Number(s \o Zeros(n)) = Number(s) * 10^n
<1>1. \A m \in Nat : s \o Zeros(m) \in Seq(Digits) BY ZerosAre, ConcatProperties
<1>2. Number(s) \in Nat
  <2>1. 0 \in 0..Len(s) BY LenProperties
  <2> QED BY <2>1, NumberOfPrefix
<1>3. s \o Zeros(0) = s
  <2>1. Len(Zeros(0)) = 0 /\ Zeros(0) \in Seq(Digits) BY ZerosAre
  <2>2. Zeros(0) = <<>> BY <2>1, EmptySeq
  <2> QED BY <2>2, ConcatEmptySeq
<1>4. \A m \in Nat : Number(s \o Zeros(m + 1)) = 10 * Number(s \o Zeros(m)) + 0
  <2> SUFFICES ASSUME NEW m \in Nat
               PROVE  Number(s \o Zeros(m + 1)) = 10 * Number(s \o Zeros(m)) + 0
    OBVIOUS
  <2>1. s \o Zeros(m + 1) = Append(s \o Zeros(m), "0") BY AnotherZero
  <2>2. Number(Append(s \o Zeros(m), "0"))
          = 10 * Number(s \o Zeros(m)) + DigitValues["0"]
    BY <1>1, DigitFacts, NumberOfAppend
  <2> QED BY <2>1, <2>2, DigitFacts
<1>5. Number(s \o Zeros(0)) = Number(s) BY <1>3
<1>6. Number(s \o Zeros(1)) = 10 * Number(s) + 0
  <2>1. 0 \in Nat /\ 0 + 1 = 1 OBVIOUS
  <2> QED BY <1>4, <1>5, <2>1
<1>7. Number(s \o Zeros(2)) = 10 * (10 * Number(s) + 0) + 0
  <2>1. 1 \in Nat /\ 1 + 1 = 2 OBVIOUS
  <2> QED BY <1>4, <1>6, <2>1
<1>8. Number(s \o Zeros(3)) = 10 * (10 * (10 * Number(s) + 0) + 0) + 0
  <2>1. 2 \in Nat /\ 2 + 1 = 3 OBVIOUS
  <2> QED BY <1>4, <1>7, <2>1
<1>9. n = 0 \/ n = 1 \/ n = 2 \/ n = 3 OBVIOUS
<1>10. CASE n = 0 BY <1>1, <1>2, <1>5, <1>10, Tens
<1>11. CASE n = 1 BY <1>1, <1>2, <1>6, <1>11, Tens
<1>12. CASE n = 2 BY <1>1, <1>2, <1>7, <1>12, Tens
<1>13. CASE n = 3
  <2>1. PICK x \in Nat : x = Number(s) BY <1>2
  <2>2. 10 * (10 * (10 * x + 0) + 0) + 0 = x * 1000 OBVIOUS
  <2> QED BY <1>1, <1>8, <1>13, <2>1, <2>2, Tens
<1> QED BY <1>9, <1>10, <1>11, <1>12, <1>13

-----------------------------------------------------------------------------
(* A number that fits is its own remainder. *)
LEMMA WrappedFits ==
  ASSUME NEW n \in Int, Fits(n)
  PROVE  Wrapped(n) = n
<1>1. IntMax \in Nat BY IntBitsAssumption
<1> DEFINE m == IntMax
<1>2. Wrapped(n) = ((n + m + 1) % (2 * m + 2)) - m - 1 BY DEF Wrapped
<1>3. n \in (-m - 1)..m BY DEF Fits
<1>4. m \in Nat BY <1>1
<1> HIDE DEF m
<1>5. n + m + 1 \in Int /\ 2 * m + 2 \in Int /\ 0 <= n + m + 1 /\ n + m + 1 < 2 * m + 2
  BY <1>3, <1>4
<1>6. \A x, y \in Int : 0 <= x /\ x < y => x % y = x OBVIOUS
<1>7. (n + m + 1) % (2 * m + 2) = n + m + 1 BY <1>5, <1>6
<1> QED BY <1>2, <1>3, <1>4, <1>7

(* What std::from_chars-like accumulation makes of digits that fit.  *)
LEMMA AccumulateReads ==
  ASSUME NEW s, s \in Seq(Digits), Number(s) <= IntMax
  PROVE  Accumulate(s) = [value |-> Number(s), over |-> FALSE]
<1> DEFINE k == Len(s)
           Reads(n) == n = [i \in 0..k |->
                              IF i = 0 THEN [value |-> 0, over |-> FALSE]
                              ELSE AddDigit(n[i - 1], DigitValues[s[i]])]
           g == CHOOSE n : Reads(n)
<1>1. k \in Nat /\ \A i \in 1..k : s[i] \in Digits BY LenProperties
<1>2. PICK h : Horner(h, s) BY HornerExists
<1>3. \A i \in 0..k : h[i] \in Nat BY <1>2 DEF Horner
<1>4. h[0] = 0 /\ \A i \in 1..k : h[i] = 10 * h[i - 1] + DigitValues[s[i]]
  BY <1>2 DEF Horner
<1>5. \A i \in 1..k : DigitValues[s[i]] \in Nat BY <1>1, DigitsHaveValues
<1>6. Number(s) = h[k] BY <1>2, HornerIsNumber
<1>7. Accumulate(s) = g[k] BY DEF Accumulate
<1>8. IntMax \in Nat BY IntBitsAssumption
<1>9. \A i \in 0..k : Fits(h[i])
  <2> SUFFICES ASSUME NEW i \in 0..k PROVE Fits(h[i])
    OBVIOUS
  <2>1. Number(SubSeq(s, 1, i)) = h[i] BY <1>2, HornerOfPrefix
  <2>2. Number(SubSeq(s, 1, i)) <= Number(s) BY NumberOfPrefix
  <2>3. h[i] \in Nat /\ h[k] \in Nat BY <1>1, <1>3
  <2>4. h[i] <= IntMax BY <1>6, <1>8, <2>1, <2>2, <2>3
  <2> QED BY <1>8, <2>3, <2>4 DEF Fits
<1> DEFINE f == [i \in 0..k |-> [value |-> h[i], over |-> FALSE]]
<1> HIDE DEF k
<1>10. \A i \in 1..k : AddDigit(f[i - 1], DigitValues[s[i]]) = f[i]
  <2> SUFFICES ASSUME NEW i \in 1..k
               PROVE  AddDigit(f[i - 1], DigitValues[s[i]]) = f[i]
    OBVIOUS
  <2>1. i - 1 \in 0..k /\ i \in 0..k BY <1>1
  <2>2. f[i - 1] = [value |-> h[i - 1], over |-> FALSE]
        /\ f[i] = [value |-> h[i], over |-> FALSE]
    BY <2>1
  <2>3. h[i - 1] * 10 + DigitValues[s[i]] = h[i] BY <1>3, <1>4, <1>5, <2>1
  <2>4. Fits(h[i]) /\ h[i] \in Int BY <1>3, <1>9, <2>1
  <2>5. Wrapped(h[i]) = h[i] BY <2>4, WrappedFits
  <2> HIDE DEF f
  <2>6. AddDigit(f[i - 1], DigitValues[s[i]])
          = [value |-> Wrapped(h[i]), over |-> FALSE \/ ~Fits(h[i])]
    BY <2>2, <2>3 DEF AddDigit
  <2> QED BY <2>2, <2>4, <2>5, <2>6
<1>11. Reads(f)
  <2>1. \A i \in 0..k : i # 0 => i \in 1..k BY <1>1
  <2>2. f[0] = [value |-> 0, over |-> FALSE]
    <3>1. 0 \in 0..k BY <1>1
    <3>2. f[0] = [value |-> h[0], over |-> FALSE] BY <3>1
    <3> QED BY <1>4, <3>2
  <2>3. \A i \in 0..k : f[i] = IF i = 0 THEN [value |-> 0, over |-> FALSE]
                               ELSE AddDigit(f[i - 1], DigitValues[s[i]])
    BY <1>10, <2>1, <2>2
  <2>4. f = [i \in 0..k |-> f[i]] OBVIOUS
  <2> HIDE DEF f
  <2> QED BY <2>3, <2>4
<1>12. Reads(g) BY <1>11
<1>13. f[k] = [value |-> h[k], over |-> FALSE] BY <1>1
<1> HIDE DEF f, g
<1>14. SameSteps(f, g, k)
  <2>1. \A i \in 1..k : i # 0 /\ i \in 0..k BY <1>1
  <2>2. f[0] = [value |-> 0, over |-> FALSE] /\ g[0] = [value |-> 0, over |-> FALSE]
    BY <1>1, <1>11, <1>12
  <2>3. \A i \in 1..k : f[i] = AddDigit(f[i - 1], DigitValues[s[i]])
    BY <1>11, <2>1
  <2>4. \A i \in 1..k : g[i] = AddDigit(g[i - 1], DigitValues[s[i]])
    BY <1>12, <2>1
  <2> QED BY <2>2, <2>3, <2>4 DEF SameSteps
<1>15. f[k] = g[k]
  <2>1. k \in 0..k BY <1>1
  <2> QED BY <1>1, <1>14, <2>1, SameRecursion
<1> QED BY <1>6, <1>7, <1>13, <1>15

-----------------------------------------------------------------------------
(* Texts: their parts, and what Find finds in them. *)

(* The provers know of no literal that it is a string, so the characters   *)
(* that the proofs name are listed.                                        *)
Characters == STRING \cup {"(", ")", ".", "-", "*"}
Texts == Seq(Characters)

(* What a meter prints is such a text. *)
LEMMA StringsAreTexts == \A s \in Seq(STRING) : s \in Texts
<1>1. STRING \subseteq Characters BY DEF Characters
<1> QED BY <1>1, SeqMonotonic DEF Texts

(* The characters of two texts in a row. *)
LEMMA ConcatAt ==
  ASSUME NEW a, a \in Texts, NEW b, b \in Texts
  PROVE  /\ Len(a) \in Nat /\ Len(b) \in Nat
         /\ a \o b \in Texts /\ Len(a \o b) = Len(a) + Len(b)
         /\ \A i \in 1..Len(a) : (a \o b)[i] = a[i]
         /\ \A i \in 1..Len(b) : (a \o b)[Len(a) + i] = b[i]
<1> DEFINE c == a \o b
<1>1. Len(a) \in Nat /\ Len(b) \in Nat BY LenProperties DEF Texts
<1>2. /\ c \in Texts /\ Len(c) = Len(a) + Len(b)
      /\ \A i \in 1..Len(a) + Len(b) :
           c[i] = IF i <= Len(a) THEN a[i] ELSE b[i - Len(a)]
  BY ConcatProperties DEF Texts
<1> HIDE DEF c
<1>3. \A i \in 1..Len(a) : c[i] = a[i]
  <2>1. \A i \in 1..Len(a) : i \in 1..Len(a) + Len(b) /\ i <= Len(a) BY <1>1
  <2> QED BY <1>2, <2>1
<1>4. \A i \in 1..Len(b) : c[Len(a) + i] = b[i]
  <2>1. \A i \in 1..Len(b) : /\ Len(a) + i \in 1..Len(a) + Len(b)
                             /\ ~(Len(a) + i <= Len(a)) /\ Len(a) + i - Len(a) = i
    BY <1>1
  <2> QED BY <1>2, <2>1
<1> QED BY <1>1, <1>2, <1>3, <1>4 DEF c

(* The same, where the provers do not see how to apply it. *)
Joins(a, b, c) ==
  /\ Len(a) \in Nat /\ Len(b) \in Nat
  /\ c \in Texts /\ Len(c) = Len(a) + Len(b)
  /\ \A i \in 1..Len(a) : c[i] = a[i]
  /\ \A i \in 1..Len(b) : c[Len(a) + i] = b[i]

(* Two texts in a row are joined in this sense. *)
LEMMA Joined ==
  ASSUME NEW a, a \in Texts, NEW b, b \in Texts
  PROVE  Joins(a, b, a \o b)
BY ConcatAt DEF Joins

(* A part of a text. *)
LEMMA PartOf ==
  ASSUME NEW s, s \in Texts, NEW m \in Nat \ {0}, NEW n \in Nat, n <= Len(s)
  PROVE  /\ SubSeq(s, m, n) \in Texts
         /\ Len(SubSeq(s, m, n)) = IF m <= n THEN n - m + 1 ELSE 0
         /\ \A i \in 1..(n - m + 1) : SubSeq(s, m, n)[i] = s[m + i - 1]
<1>1. Len(s) \in Nat /\ \A i \in 1..Len(s) : s[i] \in Characters BY LenProperties DEF Texts
<1>2. \A i \in m..n : s[i] \in Characters BY <1>1
<1>3. m \in Int /\ n \in Int OBVIOUS
<1> QED BY <1>2, <1>3, SubSeqProperties DEF Texts

(* Texts with the same characters are the same. *)
LEMMA SameText ==
  ASSUME NEW s, s \in Texts, NEW t, t \in Texts,
         Len(s) = Len(t), \A i \in 1..Len(s) : s[i] = t[i]
  PROVE  s = t
BY SeqEqual DEF Texts

(* A part of a text behind another is where that one ends. *)
LEMMA PartBehind ==
  ASSUME NEW a, a \in Texts, NEW b, b \in Texts,
         NEW q \in Nat \ {0}, NEW n \in Nat, n <= Len(b)
  PROVE  SubSeq(a \o b, Len(a) + q, Len(a) + n) = SubSeq(b, q, n)
<1> DEFINE c == a \o b
           l == SubSeq(c, Len(a) + q, Len(a) + n)
           r == SubSeq(b, q, n)
<1>1. /\ Len(a) \in Nat /\ Len(b) \in Nat
      /\ c \in Texts /\ Len(c) = Len(a) + Len(b)
      /\ \A i \in 1..Len(b) : c[Len(a) + i] = b[i]
  BY ConcatAt
<1> HIDE DEF c
<1>2. Len(a) + q \in Nat \ {0} /\ Len(a) + n \in Nat /\ Len(a) + n <= Len(c) BY <1>1
<1>3. /\ l \in Texts
      /\ Len(l) = IF Len(a) + q <= Len(a) + n
                  THEN (Len(a) + n) - (Len(a) + q) + 1 ELSE 0
      /\ \A i \in 1..((Len(a) + n) - (Len(a) + q) + 1) :
           l[i] = c[Len(a) + q + i - 1]
  BY <1>1, <1>2, PartOf
<1>4. /\ r \in Texts /\ Len(r) = IF q <= n THEN n - q + 1 ELSE 0
      /\ \A i \in 1..(n - q + 1) : r[i] = b[q + i - 1]
  BY PartOf
<1> HIDE DEF l, r
<1>5. Len(l) = Len(r) BY <1>1, <1>3, <1>4
<1>6. \A i \in 1..Len(l) : l[i] = r[i]
  <2> SUFFICES ASSUME NEW i \in 1..Len(l) PROVE l[i] = r[i]
    OBVIOUS
  <2>1. i \in 1..(n - q + 1) /\ q + i - 1 \in 1..Len(b)
        /\ Len(a) + q + i - 1 = Len(a) + (q + i - 1)
        /\ (Len(a) + n) - (Len(a) + q) + 1 = n - q + 1
    BY <1>1, <1>4, <1>5
  <2> QED BY <1>1, <1>3, <1>4, <2>1
<1>7. l = r BY <1>3, <1>4, <1>5, <1>6, SameText
<1> QED BY <1>7 DEF l, r, c

(* A part that reaches over the first of two texts into the second. *)
LEMMA PartOver ==
  ASSUME NEW a, a \in Texts, NEW b, b \in Texts, NEW n \in Nat, n <= Len(b)
  PROVE  SubSeq(a \o b, 1, Len(a) + n) = a \o SubSeq(b, 1, n)
<1> DEFINE c == a \o b
           r == SubSeq(b, 1, n)
           l == SubSeq(c, 1, Len(a) + n)
           d == a \o r
<1>1. /\ Len(a) \in Nat /\ Len(b) \in Nat
      /\ c \in Texts /\ Len(c) = Len(a) + Len(b)
      /\ \A i \in 1..Len(a) : c[i] = a[i]
      /\ \A i \in 1..Len(b) : c[Len(a) + i] = b[i]
  BY ConcatAt
<1>2. 1 \in Nat \ {0} OBVIOUS
<1>3. r \in Texts /\ Len(r) = n /\ \A i \in 1..n : r[i] = b[i]
  <2>1. /\ r \in Texts /\ Len(r) = IF 1 <= n THEN n - 1 + 1 ELSE 0
        /\ \A i \in 1..(n - 1 + 1) : r[i] = b[1 + i - 1]
    BY <1>2, PartOf
  <2> HIDE DEF r
  <2>2. n - 1 + 1 = n /\ \A i \in 1..n : 1 + i - 1 = i OBVIOUS
  <2> QED BY <2>1, <2>2
<1> HIDE DEF r
<1>4. /\ d \in Texts /\ Len(d) = Len(a) + n
      /\ \A i \in 1..Len(a) : d[i] = a[i]
      /\ \A i \in 1..n : d[Len(a) + i] = r[i]
  <2>1. /\ d \in Texts /\ Len(d) = Len(a) + Len(r)
        /\ \A i \in 1..Len(a) : d[i] = a[i]
        /\ \A i \in 1..Len(r) : d[Len(a) + i] = r[i]
    <3>1. r \in Texts BY <1>3
    <3> QED BY <3>1, ConcatAt
  <2> QED BY <1>3, <2>1
<1> HIDE DEF c, d
<1>5. Len(a) + n \in Nat /\ Len(a) + n <= Len(c) BY <1>1
<1>6. l \in Texts /\ Len(l) = Len(a) + n /\ \A i \in 1..(Len(a) + n) : l[i] = c[i]
  <2>1. /\ l \in Texts
        /\ Len(l) = IF 1 <= Len(a) + n THEN Len(a) + n - 1 + 1 ELSE 0
        /\ \A i \in 1..(Len(a) + n - 1 + 1) : l[i] = c[1 + i - 1]
    BY <1>1, <1>2, <1>5, PartOf
  <2> HIDE DEF l
  <2>2. Len(a) + n - 1 + 1 = Len(a) + n /\ \A i \in 1..(Len(a) + n) : 1 + i - 1 = i
    BY <1>1
  <2> QED BY <1>5, <2>1, <2>2
<1> HIDE DEF l
<1>7. \A i \in 1..Len(l) : l[i] = d[i]
  <2> SUFFICES ASSUME NEW i \in 1..Len(l) PROVE l[i] = d[i]
    OBVIOUS
  <2>1. CASE i <= Len(a)
    <3>1. i \in 1..Len(a) /\ i \in 1..(Len(a) + n) BY <1>1, <1>6, <2>1
    <3> QED BY <1>1, <1>4, <1>6, <3>1
  <2>2. CASE ~(i <= Len(a))
    <3>0. i - Len(a) \in 1..n /\ i = Len(a) + (i - Len(a)) BY <1>1, <1>6, <2>2
    <3>1. PICK j \in 1..n : i = Len(a) + j BY <3>0
    <3>2. j \in 1..Len(b) /\ i \in 1..(Len(a) + n) BY <1>1, <1>6, <3>1
    <3> QED BY <1>1, <1>3, <1>4, <1>6, <3>1, <3>2
  <2> QED BY <2>1, <2>2
<1>8. l = d BY <1>4, <1>6, <1>7, SameText
<1> QED BY <1>8 DEF l, d, r, c

(* The part from the first character to the last is the text. *)
LEMMA WholePart ==
  ASSUME NEW a, a \in Texts
  PROVE  SubSeq(a, 1, Len(a)) = a
BY SubSeqFull DEF Texts

(* A part that ends before it begins is empty. *)
LEMMA NoPart ==
  ASSUME NEW s, NEW m \in Int, NEW n \in Int, n < m
  PROVE  SubSeq(s, m, n) = <<>>
BY SubSeqEmpty

(* The empty text, and how it is told from the others. *)
LEMMA NoText ==
  /\ <<>> \in Texts /\ Len(<<>>) = 0
  /\ \A s \in Texts : s # <<>> <=> 1 <= Len(s)
  /\ \A s \in Texts : s \o <<>> = s /\ <<>> \o s = s
<1>1. <<>> \in Texts /\ Len(<<>>) = 0 BY EmptySeq DEF Texts
<1>2. \A s \in Texts : s # <<>> => Len(s) \in Nat \ {0} BY EmptySeq DEF Texts
<1>3. \A s \in Texts : s \o <<>> = s /\ <<>> \o s = s BY ConcatEmptySeq DEF Texts
<1>4. \A s \in Texts : s # <<>> => 1 <= Len(s) BY <1>2
<1>5. \A s \in Texts : 1 <= Len(s) => s # <<>> BY <1>1
<1> QED BY <1>1, <1>3, <1>4, <1>5

(* Texts in a row need no brackets. *)
LEMMA Associative ==
  ASSUME NEW a, a \in Texts, NEW b, b \in Texts, NEW c, c \in Texts
  PROVE  (a \o b) \o c = a \o (b \o c)
BY ConcatAssociative DEF Texts

(* The first of two texts in a row. *)
LEMMA PrefixOf ==
  ASSUME NEW a, a \in Texts, NEW b, b \in Texts
  PROVE  SubSeq(a \o b, 1, Len(a)) = a
<1>1. Len(a) \in Nat /\ Len(b) \in Nat BY ConcatAt
<1>2. 0 \in Nat /\ 0 <= Len(b) /\ Len(a) + 0 = Len(a) BY <1>1
<1>3. SubSeq(a \o b, 1, Len(a) + 0) = a \o SubSeq(b, 1, 0) BY <1>2, PartOver
<1>4. SubSeq(b, 1, 0) = <<>> BY NoPart
<1> QED BY <1>2, <1>3, <1>4, NoText

(* What follows a position in the second of two texts. *)
LEMMA RestBehind ==
  ASSUME NEW a, a \in Texts, NEW b, b \in Texts, NEW q \in Nat \ {0}
  PROVE  From(a \o b, Len(a) + q) = From(b, q)
<1>1. Len(b) \in Nat /\ Len(b) <= Len(b) /\ Len(a \o b) = Len(a) + Len(b) BY ConcatAt
<1>2. SubSeq(a \o b, Len(a) + q, Len(a) + Len(b)) = SubSeq(b, q, Len(b))
  BY <1>1, PartBehind
<1> QED BY <1>1, <1>2 DEF From

(* What follows the first of two texts is the second. *)
LEMMA RestOf ==
  ASSUME NEW a, a \in Texts, NEW b, b \in Texts
  PROVE  From(a \o b, Len(a) + 1) = b
<1>1. From(a \o b, Len(a) + 1) = From(b, 1) BY RestBehind
<1> QED BY <1>1, WholePart DEF From

-----------------------------------------------------------------------------
(* A character of the second of two texts, or none when it ends before. *)
LEMMA CharBehind ==
  ASSUME NEW a, a \in Texts, NEW b, b \in Texts, NEW q \in Nat \ {0}
  PROVE  CharAt(a \o b, Len(a) + q) = CharAt(b, q)
<1> DEFINE c == a \o b
<1>1. /\ Len(a) \in Nat /\ Len(b) \in Nat
      /\ c \in Texts /\ Len(c) = Len(a) + Len(b)
      /\ \A i \in 1..Len(b) : c[Len(a) + i] = b[i]
  BY ConcatAt
<1> HIDE DEF c
<1>2. DOMAIN c = 1..Len(c) /\ DOMAIN b = 1..Len(b) BY <1>1, LenProperties DEF Texts
<1>3. Len(a) + q \in 1..Len(c) <=> q \in 1..Len(b) BY <1>1
<1>4. q \in 1..Len(b) => c[Len(a) + q] = b[q] BY <1>1
<1> QED BY <1>2, <1>3, <1>4 DEF c, CharAt

(* A character of the first of two texts. *)
LEMMA CharWithin ==
  ASSUME NEW a, a \in Texts, NEW b, b \in Texts, NEW i, i \in 1..Len(a)
  PROVE  CharAt(a \o b, i) = a[i]
<1> DEFINE c == a \o b
<1>1. /\ Len(a) \in Nat /\ Len(b) \in Nat
      /\ c \in Texts /\ Len(c) = Len(a) + Len(b)
      /\ \A j \in 1..Len(a) : c[j] = a[j]
  BY ConcatAt
<1> HIDE DEF c
<1>2. DOMAIN c = 1..Len(c) BY <1>1, LenProperties DEF Texts
<1>3. i \in 1..Len(c) BY <1>1
<1> QED BY <1>1, <1>2, <1>3 DEF c, CharAt

(* The first character of a text, or "". *)
LEMMA FirstChar ==
  ASSUME NEW b, b \in Texts
  PROVE  /\ b = <<>> => CharAt(b, 1) = ""
         /\ b # <<>> => 1 \in 1..Len(b) /\ CharAt(b, 1) = b[1]
<1>1. DOMAIN b = 1..Len(b) /\ Len(b) \in Nat BY LenProperties DEF Texts
<1>2. b = <<>> => 1 \notin 1..Len(b) BY NoText
<1>3. b # <<>> => 1 \in 1..Len(b) BY <1>1, NoText
<1> QED BY <1>1, <1>2, <1>3 DEF CharAt

(* The position that Find returns. *)
IsFound(text, p, characters, n) ==
  /\ n \in p..(Len(text) + 1)
  /\ \A i \in p..(n - 1) : text[i] \notin characters
  /\ n <= Len(text) => text[n] \in characters

(* A position that is found in this sense is the one that Find gives. *)
LEMMA FindIs ==
  ASSUME NEW text, text \in Texts, NEW p \in Nat \ {0}, NEW characters,
         NEW n, IsFound(text, p, characters, n)
  PROVE  Find(text, p, characters) = n
<1> DEFINE T == {i \in p..Len(text) : text[i] \in characters} \cup {Len(text) + 1}
<1>1. Len(text) \in Nat BY LenProperties DEF Texts
<1>2. T \subseteq Int BY <1>1
<1>3. n \in Int /\ n >= p /\ n <= Len(text) + 1 BY <1>1 DEF IsFound
<1>4. n \in T
  <2>1. CASE n = Len(text) + 1 BY <2>1
  <2>2. CASE n # Len(text) + 1
    <3>1. n <= Len(text) /\ n \in p..Len(text) BY <1>1, <1>3, <2>2
    <3> QED BY <3>1 DEF IsFound
  <2> QED BY <2>1, <2>2
<1>5. \A y \in T : n <= y
  <2> SUFFICES ASSUME NEW y \in T, y < n PROVE FALSE
    BY <1>2, <1>3
  <2>1. y # Len(text) + 1 BY <1>1, <1>3
  <2>2. y \in p..Len(text) /\ text[y] \in characters BY <2>1
  <2>3. y \in p..(n - 1) BY <1>1, <1>3, <2>2
  <2> QED BY <2>2, <2>3 DEF IsFound
<1> HIDE DEF T
<1>6. Min(T) = n BY <1>2, <1>4, <1>5, MinIs
<1> QED BY <1>6 DEF Find, T

(* Find finds a position from every start within the text. *)
LEMMA FindFinds ==
  ASSUME NEW text, text \in Texts, NEW p \in Nat \ {0}, p <= Len(text) + 1,
         NEW characters
  PROVE  IsFound(text, p, characters, Find(text, p, characters))
<1> DEFINE T == {i \in p..Len(text) : text[i] \in characters} \cup {Len(text) + 1}
<1>1. Len(text) \in Nat BY LenProperties DEF Texts
<1>2. T \subseteq Nat /\ Len(text) + 1 \in T BY <1>1
<1>3. \A i \in T : i \in p..(Len(text) + 1) BY <1>1
<1>4. \A i \in p..Len(text) : i \in T <=> text[i] \in characters BY <1>1
<1> HIDE DEF T
<1>5. PICK n \in T : \A y \in T : n <= y
  <2>1. T # {} BY <1>2
  <2> QED BY <1>2, <2>1, LeastNatural
<1>6. n \in p..(Len(text) + 1) BY <1>3, <1>5
<1>7. \A i \in p..(n - 1) : text[i] \notin characters
  <2> SUFFICES ASSUME NEW i \in p..(n - 1), text[i] \in characters PROVE FALSE
    OBVIOUS
  <2>1. i \in p..Len(text) /\ i < n BY <1>1, <1>6
  <2>2. i \in T BY <1>4, <2>1
  <2>3. n <= i BY <1>5, <2>2
  <2> QED BY <1>1, <1>6, <2>1, <2>3
<1>8. n <= Len(text) => text[n] \in characters
  <2>1. n <= Len(text) => n \in p..Len(text) BY <1>1, <1>6
  <2> QED BY <1>4, <1>5, <2>1
<1>9. IsFound(text, p, characters, n) BY <1>6, <1>7, <1>8 DEF IsFound
<1> QED BY <1>9, FindIs

(* What is looked for in the second of two texts is found there. *)
LEMMA FindBehind ==
  ASSUME NEW a, a \in Texts, NEW b, b \in Texts, NEW characters
  PROVE  Find(a \o b, Len(a) + 1, characters) = Len(a) + Find(b, 1, characters)
<1> DEFINE c == a \o b
           n == Find(b, 1, characters)
<1>1. /\ Len(a) \in Nat /\ Len(b) \in Nat
      /\ c \in Texts /\ Len(c) = Len(a) + Len(b)
      /\ \A i \in 1..Len(b) : c[Len(a) + i] = b[i]
  BY ConcatAt
<1>2. IsFound(b, 1, characters, n)
  <2>1. 1 \in Nat \ {0} /\ 1 <= Len(b) + 1 BY <1>1
  <2> QED BY <2>1, FindFinds
<1> HIDE DEF c, n
<1>3. IsFound(c, Len(a) + 1, characters, Len(a) + n)
  <2>1. n \in 1..(Len(b) + 1) BY <1>2 DEF IsFound
  <2>2. Len(a) + n \in (Len(a) + 1)..(Len(c) + 1) BY <1>1, <2>1
  <2>3. \A i \in (Len(a) + 1)..(Len(a) + n - 1) : c[i] \notin characters
    <3> SUFFICES ASSUME NEW i \in (Len(a) + 1)..(Len(a) + n - 1)
                 PROVE  c[i] \notin characters
      OBVIOUS
    <3>1. PICK j : j = i - Len(a) OBVIOUS
    <3>2. j \in 1..(n - 1) /\ i = Len(a) + j /\ j \in 1..Len(b) BY <1>1, <2>1, <3>1
    <3>3. b[j] \notin characters BY <1>2, <3>2 DEF IsFound
    <3> QED BY <1>1, <3>2, <3>3
  <2>4. Len(a) + n <= Len(c) => c[Len(a) + n] \in characters
    <3>1. Len(a) + n <= Len(c) => n <= Len(b) /\ n \in 1..Len(b) BY <1>1, <2>1
    <3>2. n <= Len(b) => b[n] \in characters BY <1>2 DEF IsFound
    <3> QED BY <1>1, <3>1, <3>2
  <2>5. PICK m : m = Len(a) + n OBVIOUS
  <2>6. m \in (Len(a) + 1)..(Len(c) + 1) BY <2>2, <2>5
  <2>7. \A i \in (Len(a) + 1)..(m - 1) : c[i] \notin characters
    <3>1. n \in Nat BY <1>1, <2>1
    <3>2. m - 1 = Len(a) + n - 1 BY <1>1, <2>5, <3>1
    <3> QED BY <2>3, <3>2
  <2>8. m <= Len(c) => c[m] \in characters BY <2>4, <2>5
  <2>9. IsFound(c, (Len(a) + 1), characters, m) BY <2>6, <2>7, <2>8 DEF IsFound
  <2> QED BY <2>5, <2>9
<1>4. Len(a) + 1 \in Nat \ {0} BY <1>1
<1> QED BY <1>1, <1>3, <1>4, FindIs DEF c, n

(* A text without the characters is skipped when they are looked for. *)
LEMMA FindSkips ==
  ASSUME NEW a, a \in Texts, NEW b, b \in Texts, NEW characters,
         Lacks(a, characters)
  PROVE  Find(a \o b, 1, characters) = Len(a) + Find(b, 1, characters)
<1> DEFINE c == a \o b
           n == Find(b, 1, characters)
<1>1. /\ Len(a) \in Nat /\ Len(b) \in Nat
      /\ c \in Texts /\ Len(c) = Len(a) + Len(b)
      /\ \A i \in 1..Len(a) : c[i] = a[i]
      /\ \A i \in 1..Len(b) : c[Len(a) + i] = b[i]
  BY ConcatAt
<1>2. 1 \in Nat \ {0} /\ 1 <= Len(b) + 1 BY <1>1
<1>3. IsFound(b, 1, characters, n) BY <1>2, FindFinds
<1>4. \A i \in 1..Len(a) : a[i] \notin characters
  <2>1. DOMAIN a = 1..Len(a) BY LenProperties DEF Texts
  <2> QED BY <2>1 DEF Lacks
<1> HIDE DEF c, n
<1>5. IsFound(c, 1, characters, Len(a) + n)
  <2>1. n \in 1..(Len(b) + 1) BY <1>3 DEF IsFound
  <2>2. Len(a) + n \in 1..(Len(c) + 1) BY <1>1, <2>1
  <2>3. \A i \in 1..(Len(a) + n - 1) : c[i] \notin characters
    <3> SUFFICES ASSUME NEW i \in 1..(Len(a) + n - 1)
                 PROVE  c[i] \notin characters
      OBVIOUS
    <3>1. CASE i <= Len(a)
      <4>1. i \in 1..Len(a) BY <1>1, <3>1
      <4> QED BY <1>1, <1>4, <4>1
    <3>2. CASE ~(i <= Len(a))
      <4>0. i - Len(a) \in 1..(n - 1) /\ i = Len(a) + (i - Len(a))
            /\ i - Len(a) \in 1..Len(b)
        BY <1>1, <2>1, <3>2
      <4>1. PICK j \in 1..(n - 1) : i = Len(a) + j /\ j \in 1..Len(b)
        BY <4>0
      <4>2. b[j] \notin characters BY <1>3, <4>1 DEF IsFound
      <4> QED BY <1>1, <4>1, <4>2
    <3> QED BY <3>1, <3>2
  <2>4. Len(a) + n <= Len(c) => c[Len(a) + n] \in characters
    <3>1. Len(a) + n <= Len(c) => n <= Len(b) /\ n \in 1..Len(b) BY <1>1, <2>1
    <3>2. n <= Len(b) => b[n] \in characters BY <1>3 DEF IsFound
    <3> QED BY <1>1, <3>1, <3>2
  <2>5. PICK m : m = Len(a) + n OBVIOUS
  <2>6. m \in 1..(Len(c) + 1) BY <2>2, <2>5
  <2>7. \A i \in 1..(m - 1) : c[i] \notin characters
    <3>1. n \in Nat BY <1>1, <2>1
    <3>2. m - 1 = Len(a) + n - 1 BY <1>1, <2>5, <3>1
    <3> QED BY <2>3, <3>2
  <2>8. m <= Len(c) => c[m] \in characters BY <2>4, <2>5
  <2>9. IsFound(c, 1, characters, m) BY <2>6, <2>7, <2>8 DEF IsFound
  <2> QED BY <2>5, <2>9
<1> QED BY <1>1, <1>2, <1>5, FindIs DEF c, n

(* A text that begins with one of the characters has it at its first       *)
(* position.                                                               *)
LEMMA FindAtOnce ==
  ASSUME NEW b, b \in Texts, NEW characters, Begins(b, characters)
  PROVE  Find(b, 1, characters) = 1
<1>1. Len(b) \in Nat /\ 1 <= Len(b) BY NoText, LenProperties DEF Begins, Texts
<1>2. b[1] \in characters BY DEF Begins
<1>3. IsFound(b, 1, characters, 1) BY <1>1, <1>2 DEF IsFound
<1> QED BY <1>3, FindIs

(* A part of the first of two texts. *)
LEMMA PartWithin ==
  ASSUME NEW a, a \in Texts, NEW b, b \in Texts, NEW n \in Nat, n <= Len(a)
  PROVE  SubSeq(a \o b, 1, n) = SubSeq(a, 1, n)
<1> DEFINE c == a \o b
           l == SubSeq(c, 1, n)
           r == SubSeq(a, 1, n)
<1>1. /\ Len(a) \in Nat /\ Len(b) \in Nat
      /\ c \in Texts /\ Len(c) = Len(a) + Len(b)
      /\ \A i \in 1..Len(a) : c[i] = a[i]
  BY ConcatAt
<1> HIDE DEF c
<1>2. 1 \in Nat \ {0} /\ n <= Len(c) BY <1>1
<1>3. /\ l \in Texts /\ Len(l) = IF 1 <= n THEN n - 1 + 1 ELSE 0
      /\ \A i \in 1..(n - 1 + 1) : l[i] = c[1 + i - 1]
  BY <1>1, <1>2, PartOf
<1>4. /\ r \in Texts /\ Len(r) = IF 1 <= n THEN n - 1 + 1 ELSE 0
      /\ \A i \in 1..(n - 1 + 1) : r[i] = a[1 + i - 1]
  BY <1>2, PartOf
<1> HIDE DEF l, r
<1>5. \A i \in 1..Len(l) : l[i] = r[i]
  <2> SUFFICES ASSUME NEW i \in 1..Len(l) PROVE l[i] = r[i]
    OBVIOUS
  <2>1. i \in 1..(n - 1 + 1) /\ 1 + i - 1 = i /\ i \in 1..Len(a) BY <1>1, <1>3
  <2> QED BY <1>1, <1>3, <1>4, <2>1
<1>6. l = r BY <1>3, <1>4, <1>5, SameText
<1> QED BY <1>6 DEF l, r, c

(* A text is what comes up to a position and what comes behind it. *)
LEMMA TwoParts ==
  ASSUME NEW a, a \in Texts, NEW n \in Nat, n <= Len(a)
  PROVE  /\ SubSeq(a, 1, n) \in Texts /\ Len(SubSeq(a, 1, n)) = n
         /\ SubSeq(a, n + 1, Len(a)) \in Texts
         /\ a = SubSeq(a, 1, n) \o SubSeq(a, n + 1, Len(a))
<1> DEFINE l == SubSeq(a, 1, n)
           r == SubSeq(a, n + 1, Len(a))
<1>1. Len(a) \in Nat /\ Len(a) <= Len(a) BY LenProperties DEF Texts
<1>2. 1 \in Nat \ {0} /\ n + 1 \in Nat \ {0} OBVIOUS
<1>3. /\ l \in Texts /\ Len(l) = n
      /\ \A i \in 1..n : l[i] = a[i]
  <2>1. /\ l \in Texts /\ Len(l) = IF 1 <= n THEN n - 1 + 1 ELSE 0
        /\ \A i \in 1..(n - 1 + 1) : l[i] = a[1 + i - 1]
    BY <1>2, PartOf
  <2> HIDE DEF l
  <2>2. n - 1 + 1 = n /\ \A i \in 1..n : 1 + i - 1 = i OBVIOUS
  <2> QED BY <2>1, <2>2
<1>4. /\ r \in Texts /\ Len(r) = Len(a) - n
      /\ \A i \in 1..(Len(a) - n) : r[i] = a[n + i]
  <2>1. /\ r \in Texts /\ Len(r) = IF n + 1 <= Len(a) THEN Len(a) - (n + 1) + 1 ELSE 0
        /\ \A i \in 1..(Len(a) - (n + 1) + 1) : r[i] = a[(n + 1) + i - 1]
    BY <1>1, <1>2, PartOf
  <2> HIDE DEF r
  <2>4. Len(r) = Len(a) - n BY <1>1, <2>1
  <2>5. \A i \in 1..(Len(a) - n) : r[i] = a[n + i]
    <3> TAKE i \in 1..(Len(a) - n)
    <3>1. i \in 1..(Len(a) - (n + 1) + 1) /\ (n + 1) + i - 1 = n + i BY <1>1
    <3> QED BY <2>1, <3>1
  <2> QED BY <2>1, <2>4, <2>5
<1> HIDE DEF l, r
<1>5. PICK c : /\ c = l \o r /\ c \in Texts /\ Len(c) = Len(l) + Len(r)
               /\ \A i \in 1..Len(l) : c[i] = l[i]
               /\ \A i \in 1..Len(r) : c[Len(l) + i] = r[i]
  <2>1. l \in Texts /\ r \in Texts BY <1>3, <1>4
  <2>2. Joins(l, r, l \o r) BY <2>1, Joined
  <2> QED BY <2>2 DEF Joins
<1>6. \A i \in 1..Len(a) : a[i] = c[i]
  <2> SUFFICES ASSUME NEW i \in 1..Len(a) PROVE a[i] = c[i]
    OBVIOUS
  <2>1. CASE i <= n
    <3>1. i \in 1..n BY <1>1, <2>1
    <3> QED BY <1>3, <1>5, <3>1
  <2>2. CASE ~(i <= n)
    <3>1. i - n \in 1..(Len(a) - n) /\ n + (i - n) = i BY <1>1, <2>2
    <3>2. i - n \in 1..Len(r) BY <1>4, <3>1
    <3>3. r[i - n] = a[n + (i - n)] BY <1>4, <3>1
    <3>4. c[Len(l) + (i - n)] = r[i - n] BY <1>5, <3>2
    <3> QED BY <1>3, <3>1, <3>3, <3>4
  <2> QED BY <2>1, <2>2
<1>7. Len(a) = Len(c) BY <1>1, <1>3, <1>4, <1>5
<1>8. a = c BY <1>5, <1>6, <1>7, SameText
<1> QED BY <1>3, <1>4, <1>5, <1>8 DEF l, r

(* The smaller of two numbers. *)
LEMMA MinOfTwo ==
  ASSUME NEW a \in Int, NEW b \in Int
  PROVE  Min({a, b}) = IF a <= b THEN a ELSE b
<1> DEFINE T == {a, b}
           x == IF a <= b THEN a ELSE b
<1>1. T \subseteq Int /\ x \in T /\ \A y \in T : x <= y OBVIOUS
<1> HIDE DEF T, x
<1>2. Min(T) = x BY <1>1, MinIs
<1> QED BY <1>2 DEF T, x

-----------------------------------------------------------------------------
Leads(s, n) == /\ n \in 0..Len(s)
               /\ \A i \in 1..n : s[i] \in Digits
               /\ n < Len(s) => s[n + 1] \notin Digits

(* The leading digits are these. *)
LEMMA LeadingIs ==
  ASSUME NEW s, s \in Texts, NEW n, Leads(s, n)
  PROVE  /\ LeadingDigits(s) = SubSeq(s, 1, n)
         /\ LeadingDigits(s) \in Seq(Digits)
         /\ Len(LeadingDigits(s)) = n
<1> DEFINE T == {i \in DOMAIN s : ~IsDigit(s[i])} \cup {Len(s) + 1}
<1>1. Len(s) \in Nat /\ DOMAIN s = 1..Len(s) BY LenProperties DEF Texts
<1>2. n \in 0..Len(s) BY DEF Leads
<1>3. \A c : IsDigit(c) <=> c \in Digits BY DEF IsDigit, Digits
<1>4. T \subseteq Int BY <1>1
<1>5. n + 1 \in T
  <2>1. CASE n < Len(s)
    <3>1. n + 1 \in DOMAIN s BY <1>1, <1>2, <2>1
    <3> QED BY <1>3, <2>1, <3>1 DEF Leads
  <2>2. CASE ~(n < Len(s))
    <3>1. n + 1 = Len(s) + 1 BY <1>1, <1>2, <2>2
    <3> QED BY <3>1
  <2> QED BY <2>1, <2>2
<1>6. \A y \in T : n + 1 <= y
  <2> SUFFICES ASSUME NEW y \in T, y < n + 1 PROVE FALSE
    BY <1>2, <1>4
  <2>1. y # Len(s) + 1 BY <1>1, <1>2
  <2>2. y \in 1..Len(s) /\ s[y] \notin Digits BY <1>1, <1>3, <2>1
  <2>3. y \in 1..n BY <1>1, <1>2, <2>2
  <2> QED BY <2>2, <2>3 DEF Leads
<1> HIDE DEF T
<1>7. Min(T) = n + 1 BY <1>4, <1>5, <1>6, MinIs
<1>8. (n + 1) - 1 = n BY <1>2
<1>9. LeadingDigits(s) = SubSeq(s, 1, n) BY <1>7, <1>8 DEF LeadingDigits, T
<1>10. /\ SubSeq(s, 1, n) \in Seq(Digits)
       /\ Len(SubSeq(s, 1, n)) = IF 1 <= n THEN n - 1 + 1 ELSE 0
  <2>1. \A i \in 1..n : s[i] \in Digits BY DEF Leads
  <2>2. 1 \in Int /\ n \in Int BY <1>2
  <2> QED BY <2>1, <2>2, SubSeqProperties
<1> QED BY <1>2, <1>9, <1>10

(* Every text has leading digits, be they none. *)
LEMMA LeadingExists ==
  ASSUME NEW s, s \in Texts
  PROVE  \E n : Leads(s, n)
<1> DEFINE T == {i \in 0..Len(s) : i < Len(s) => s[i + 1] \notin Digits}
<1>1. Len(s) \in Nat BY LenProperties DEF Texts
<1>2. T \subseteq Nat BY <1>1
<1>3. T # {}
  <2>1. Len(s) \in T BY <1>1
  <2> QED BY <2>1
<1>4. PICK n \in T : \A y \in T : n <= y BY <1>2, <1>3, LeastNatural
<1>5. \A i \in 1..n : s[i] \in Digits
  <2> SUFFICES ASSUME NEW i \in 1..n, s[i] \notin Digits PROVE FALSE
    OBVIOUS
  <2>1. i - 1 \in 0..Len(s) /\ (i - 1) + 1 = i /\ i - 1 < n BY <1>1, <1>4
  <2>2. i - 1 \in T BY <2>1
  <2>3. n <= i - 1 BY <1>4, <2>2
  <2> QED BY <1>2, <1>4, <2>1, <2>3
<1> QED BY <1>4, <1>5 DEF Leads

(* The leading digits of a text are digits, and stand for a number. *)
LEMMA NumberOfLeading ==
  ASSUME NEW s, s \in Texts
  PROVE  /\ LeadingDigits(s) \in Seq(Digits)
         /\ Len(LeadingDigits(s)) \in 0..Len(s)
         /\ Number(LeadingDigits(s)) \in Nat
<1>1. PICK n : Leads(s, n) BY LeadingExists
<1>2. LeadingDigits(s) \in Seq(Digits) /\ Len(LeadingDigits(s)) = n BY <1>1, LeadingIs
<1>3. 0 \in 0..Len(LeadingDigits(s)) BY <1>2, LenProperties
<1>4. Number(LeadingDigits(s)) \in Nat BY <1>2, <1>3, NumberOfPrefix
<1> QED BY <1>1, <1>2, <1>4 DEF Leads

(* What follows a text and begins with no digit adds none to its leading   *)
(* ones.                                                                   *)
LEMMA LeadingOfConcat ==
  ASSUME NEW s, s \in Texts, NEW x, x \in Texts,
         x # <<>> => x[1] \notin Digits
  PROVE  LeadingDigits(s \o x) = LeadingDigits(s)
<1> DEFINE c == s \o x
<1>1. PICK n : Leads(s, n) BY LeadingExists
<1>2. /\ Len(s) \in Nat /\ Len(x) \in Nat /\ c \in Texts /\ Len(c) = Len(s) + Len(x)
      /\ \A i \in 1..Len(s) : c[i] = s[i]
      /\ \A i \in 1..Len(x) : c[Len(s) + i] = x[i]
  BY ConcatAt
<1>3. n \in Nat /\ n <= Len(s) BY <1>2, <1>1 DEF Leads
<1> HIDE DEF c
<1>4. Leads(c, n)
  <2>1. n \in 0..Len(c) BY <1>2, <1>3
  <2>2. \A i \in 1..n : c[i] \in Digits
    <3>1. \A i \in 1..n : i \in 1..Len(s) BY <1>2, <1>3
    <3> QED BY <1>1, <1>2, <3>1 DEF Leads
  <2>3. n < Len(c) => c[n + 1] \notin Digits
    <3>1. CASE n < Len(s)
      <4>1. n + 1 \in 1..Len(s) BY <1>2, <1>3, <3>1
      <4> QED BY <1>1, <1>2, <3>1, <4>1 DEF Leads
    <3>2. CASE n = Len(s) /\ n < Len(c)
      <4>1. 1 \in 1..Len(x) BY <1>2, <3>2
      <4>2. x # <<>> BY <4>1, NoText
      <4>3. c[Len(s) + 1] = x[1] BY <1>2, <4>1
      <4> QED BY <3>2, <4>2, <4>3
    <3> QED BY <1>2, <1>3, <3>1, <3>2
  <2> QED BY <2>1, <2>2, <2>3 DEF Leads
<1>5. LeadingDigits(s) = SubSeq(s, 1, n) BY <1>1, LeadingIs
<1>6. LeadingDigits(c) = SubSeq(c, 1, n) BY <1>2, <1>4, LeadingIs
<1>7. SubSeq(c, 1, n) = SubSeq(s, 1, n) BY <1>3, PartWithin DEF c
<1> QED BY <1>5, <1>6, <1>7 DEF c

(* A text is all digits when its leading digits are all of it. *)
LEMMA LeadingOfDigits ==
  ASSUME NEW s, s \in Texts
  PROVE  /\ AllDigits(s) <=> Len(LeadingDigits(s)) = Len(s)
         /\ AllDigits(s) => LeadingDigits(s) = s
<1>1. PICK n : Leads(s, n) BY LeadingExists
<1>2. LeadingDigits(s) = SubSeq(s, 1, n) /\ Len(LeadingDigits(s)) = n BY <1>1, LeadingIs
<1>3. Len(s) \in Nat /\ DOMAIN s = 1..Len(s) BY LenProperties DEF Texts
<1>4. AllDigits(s) <=> \A i \in 1..Len(s) : s[i] \in Digits
  BY <1>3 DEF AllDigits, IsDigit, Digits
<1>5. n \in 0..Len(s) BY <1>1 DEF Leads
<1>6. ASSUME AllDigits(s) PROVE n = Len(s)
  <2>1. n < Len(s) => n + 1 \in 1..Len(s) BY <1>3, <1>5
  <2>2. ~(n < Len(s)) BY <1>1, <1>4, <1>6, <2>1 DEF Leads
  <2>3. n \in Nat /\ n <= Len(s) BY <1>3, <1>5
  <2>4. Len(s) \in Nat BY <1>3
  <2> QED BY <2>2, <2>3, <2>4
<1>7. n = Len(s) => AllDigits(s) BY <1>1, <1>4 DEF Leads
<1>8. SubSeq(s, 1, Len(s)) = s BY WholePart
<1> QED BY <1>2, <1>6, <1>7, <1>8

(* The leading digits of a longer text stand for no smaller number. *)
LEMMA LeadingGrows ==
  ASSUME NEW a, a \in Texts, NEW b, b \in Texts
  PROVE  Number(LeadingDigits(a)) <= Number(LeadingDigits(a \o b))
<1> DEFINE c == a \o b
           e == LeadingDigits(c)
<1>1. PICK n : Leads(a, n) BY LeadingExists
<1>2. /\ Len(a) \in Nat /\ Len(b) \in Nat /\ c \in Texts /\ Len(c) = Len(a) + Len(b)
      /\ \A i \in 1..Len(a) : c[i] = a[i]
  BY ConcatAt
<1>3. PICK m : Leads(c, m) BY <1>2, LeadingExists
<1>4. n \in Nat /\ n <= Len(a) /\ m \in Nat /\ m <= Len(c) BY <1>1, <1>2, <1>3 DEF Leads
<1> HIDE DEF c
<1>5. n <= m
  <2> SUFFICES ASSUME m < n PROVE FALSE
    BY <1>4
  <2>1. m < Len(c) /\ m + 1 \in 1..n /\ m + 1 \in 1..Len(a) BY <1>2, <1>4
  <2>2. a[m + 1] \in Digits BY <1>1, <2>1 DEF Leads
  <2>3. c[m + 1] \notin Digits BY <1>3, <2>1 DEF Leads
  <2> QED BY <1>2, <2>1, <2>2, <2>3
<1>6. e = SubSeq(c, 1, m) /\ e \in Seq(Digits) /\ Len(e) = m BY <1>2, <1>3, LeadingIs
<1>7. LeadingDigits(a) = SubSeq(a, 1, n) BY <1>1, LeadingIs
<1>8. SubSeq(a, 1, n) = SubSeq(c, 1, n) BY <1>4, PartWithin DEF c
<1>9. SubSeq(c, 1, n) = SubSeq(e, 1, n)
  <2>1. c = SubSeq(c, 1, m) \o SubSeq(c, m + 1, Len(c))
        /\ SubSeq(c, 1, m) \in Texts /\ SubSeq(c, m + 1, Len(c)) \in Texts
        /\ Len(SubSeq(c, 1, m)) = m
    BY <1>2, <1>4, TwoParts
  <2>2. SubSeq(SubSeq(c, 1, m) \o SubSeq(c, m + 1, Len(c)), 1, n)
          = SubSeq(SubSeq(c, 1, m), 1, n)
    BY <1>4, <1>5, <2>1, PartWithin
  <2> QED BY <1>6, <2>1, <2>2
<1> HIDE DEF e
<1>10. n \in 0..Len(e) BY <1>4, <1>5, <1>6
<1>11. Number(SubSeq(e, 1, n)) <= Number(e) BY <1>6, <1>10, NumberOfPrefix
<1> QED BY <1>7, <1>8, <1>9, <1>11 DEF e, c

-----------------------------------------------------------------------------
(* A printed value, taken apart the way parse_num goes through it. *)

Opening(v) == <<"(">> \o v.sign
Closing(T) == <<")">> \o T
Point(v) == IF v.point THEN <<".">> ELSE <<>>
Printed(v, T) == <<"(">> \o Body(v) \o <<")">> \o T
Fractional(v, T) == v.fraction \o (v.tail \o Closing(T))

(* A single character as a text, alone and before another text. *)
LEMMA OneCharacter ==
  ASSUME NEW c, c \in Characters
  PROVE  /\ <<c>> \in Texts /\ Len(<<c>>) = 1 /\ <<c>>[1] = c
         /\ \A b \in Texts : (<<c>> \o b)[1] = c /\ <<c>> \o b # <<>>
<1>1. <<c>> \in Texts /\ Len(<<c>>) = 1 /\ <<c>>[1] = c
  <2>1. <<>> \in Texts BY NoText
  <2>2. Append(<<>>, c) \in Texts BY <2>1, AppendProperties DEF Texts
  <2>3. Append(<<>>, c) = <<c>> OBVIOUS
  <2>4. Len(<<c>>) = 1 /\ <<c>>[1] = c OBVIOUS
  <2> QED BY <2>2, <2>3, <2>4
<1>2. ASSUME NEW b \in Texts PROVE (<<c>> \o b)[1] = c /\ <<c>> \o b # <<>>
  <2>1. /\ Len(b) \in Nat /\ <<c>> \o b \in Texts
        /\ Len(<<c>> \o b) = Len(<<c>>) + Len(b)
        /\ \A i \in 1..Len(<<c>>) : (<<c>> \o b)[i] = <<c>>[i]
    BY <1>1, ConcatAt
  <2>2. 1 \in 1..Len(<<c>>) BY <1>1
  <2>3. 1 <= Len(<<c>> \o b) BY <1>1, <2>1
  <2> QED BY <1>1, <2>1, <2>2, <2>3, NoText
<1> QED BY <1>1, <1>2

(* The characters that the format gives a meaning are among those listed. *)
LEMMA NamedCharacters == {"(", ")", ".", "-", "*"} \subseteq Characters
BY DEF Characters

(* The parts of a printed value are texts. *)
LEMMA PrintedParts ==
  ASSUME NEW v, IsPrintedValue(v), NEW T, T \in Texts
  PROVE  /\ v.whole \in Texts /\ v.fraction \in Texts /\ v.tail \in Texts
         /\ v.sign \in Texts /\ v.sign \in {<<>>, <<"-">>} /\ v.point \in BOOLEAN
         /\ Point(v) \in Texts /\ Opening(v) \in Texts /\ Closing(T) \in Texts
         /\ Closing(T)[1] = ")" /\ Closing(T) # <<>>
         /\ Len(Closing(T)) = 1 + Len(T)
<1>1. v \in PrintedValues BY DEF IsPrintedValue
<1>2. v.whole \in Texts /\ v.fraction \in Texts /\ v.tail \in Texts
      /\ v.sign \in {<<>>, <<"-">>} /\ v.point \in BOOLEAN
  BY <1>1, StringsAreTexts DEF PrintedValues
<1>3. "(" \in Characters /\ ")" \in Characters /\ "." \in Characters
      /\ "-" \in Characters
  BY NamedCharacters
<1>4. <<"(">> \in Texts /\ <<")">> \in Texts /\ <<".">> \in Texts /\ <<"-">> \in Texts
      /\ Len(<<")">>) = 1
  BY <1>3, OneCharacter
<1>5. v.sign \in Texts BY <1>2, <1>4, NoText
<1>6. Point(v) \in Texts BY <1>4, NoText DEF Point
<1>7. Opening(v) \in Texts BY <1>4, <1>5, ConcatAt DEF Opening
<1>8. Closing(T) \in Texts /\ Len(Closing(T)) = 1 + Len(T)
  BY <1>4, ConcatAt DEF Closing
<1>9. Closing(T)[1] = ")" /\ Closing(T) # <<>> BY <1>3, OneCharacter DEF Closing
<1> QED BY <1>2, <1>5, <1>6, <1>7, <1>8, <1>9

(* What stands within the brackets of a value is a text. *)
LEMMA BodyIs ==
  ASSUME NEW v, IsPrintedValue(v)
  PROVE  /\ Body(v) \in Texts
         /\ v.sign \o v.whole \in Texts
         /\ v.sign \o v.whole \o Point(v) \in Texts
         /\ v.sign \o v.whole \o Point(v) \o v.fraction \in Texts
         /\ Body(v) = v.sign \o v.whole \o Point(v) \o v.fraction \o v.tail
<1>1. v.whole \in Texts /\ v.fraction \in Texts /\ v.tail \in Texts
      /\ v.sign \in Texts /\ Point(v) \in Texts
  BY NoText, PrintedParts
<1>2. v.sign \o v.whole \in Texts BY <1>1, ConcatAt
<1>3. v.sign \o v.whole \o Point(v) \in Texts BY <1>1, <1>2, ConcatAt
<1>4. v.sign \o v.whole \o Point(v) \o v.fraction \in Texts BY <1>1, <1>3, ConcatAt
<1>5. v.sign \o v.whole \o Point(v) \o v.fraction \o v.tail \in Texts
  BY <1>1, <1>4, ConcatAt
<1> QED BY <1>2, <1>3, <1>4, <1>5 DEF Body, Point

(* Where the provers do not see that it is associative. *)
Regroups(a, b, c, ab, bc) == ab \o c = a \o bc

(* Three texts in a row are grouped from either side. *)
LEMMA Regroup ==
  ASSUME NEW a, a \in Texts, NEW b, b \in Texts, NEW c, c \in Texts,
         NEW ab, ab = a \o b, NEW bc, bc = b \o c
  PROVE  Regroups(a, b, c, ab, bc)
BY Associative DEF Regroups

(* A printed value, with what follows it, begins with the bracket and the  *)
(* sign; the whole part, the point, the decimals and the tail follow.      *)
LEMMA Layout ==
  ASSUME NEW v, IsPrintedValue(v), NEW T, T \in Texts
  PROVE  /\ Printed(v, T) \in Texts /\ Fractional(v, T) \in Texts
         /\ v.tail \o Closing(T) \in Texts
         /\ Point(v) \o Fractional(v, T) \in Texts
         /\ v.whole \o (Point(v) \o Fractional(v, T)) \in Texts
         /\ Body(v) \o Closing(T) = v.sign \o (v.whole \o (Point(v) \o Fractional(v, T)))
         /\ Printed(v, T) = <<"(">> \o (Body(v) \o Closing(T))
         /\ Printed(v, T) = Opening(v) \o (v.whole \o (Point(v) \o Fractional(v, T)))
<1>1. PICK w, f, t, s, p, C :
        /\ w = v.whole /\ f = v.fraction /\ t = v.tail /\ s = v.sign
        /\ p = Point(v) /\ C = Closing(T)
  OBVIOUS
<1>2. w \in Texts /\ f \in Texts /\ t \in Texts /\ s \in Texts /\ p \in Texts
      /\ C \in Texts
  BY <1>1, PrintedParts
<1>3. PICK a, c : a = <<"(">> /\ c = <<")">> OBVIOUS
<1>4. a \in Texts /\ c \in Texts
  <2>1. "(" \in Characters /\ ")" \in Characters BY NamedCharacters
  <2> QED BY <1>3, <2>1, OneCharacter
<1>5. PICK sw, swp, swpf, B :
        sw = s \o w /\ swp = sw \o p /\ swpf = swp \o f /\ B = swpf \o t
  OBVIOUS
<1>6. sw \in Texts /\ swp \in Texts /\ swpf \in Texts /\ B \in Texts /\ Body(v) = B
  BY <1>1, <1>5, BodyIs
<1>7. PICK tC, ftC, pftC, wpftC :
        tC = t \o C /\ ftC = f \o tC /\ pftC = p \o ftC /\ wpftC = w \o pftC
  OBVIOUS
<1>8. tC \in Texts BY <1>2, <1>7, ConcatAt
<1>9. ftC \in Texts BY <1>2, <1>7, <1>8, ConcatAt
<1>10. pftC \in Texts BY <1>2, <1>7, <1>9, ConcatAt
<1>11. wpftC \in Texts BY <1>2, <1>7, <1>10, ConcatAt
<1>12. B \o C = s \o wpftC
  <2>1. Regroups(swpf, t, C, B, tC) BY <1>2, <1>5, <1>6, <1>7, Regroup
  <2>2. Regroups(swp, f, tC, swpf, ftC) BY <1>2, <1>5, <1>6, <1>7, <1>8, Regroup
  <2>3. Regroups(sw, p, ftC, swp, pftC) BY <1>2, <1>5, <1>6, <1>7, <1>9, Regroup
  <2>4. Regroups(s, w, pftC, sw, wpftC) BY <1>2, <1>5, <1>6, <1>7, <1>10, Regroup
  <2> QED BY <2>1, <2>2, <2>3, <2>4 DEF Regroups
<1>13. Printed(v, T) = a \o (B \o C)
  <2>1. PICK aB : aB = a \o B OBVIOUS
  <2>2. aB \in Texts BY <1>4, <1>6, <2>1, ConcatAt
  <2>3. C = c \o T BY <1>1, <1>3 DEF Closing
  <2>4. Printed(v, T) = (aB \o c) \o T BY <1>3, <1>6, <2>1 DEF Printed
  <2>5. (aB \o c) \o T = aB \o (c \o T)
    <3>1. aB \in Texts /\ c \in Texts /\ T \in Texts BY <1>4, <2>2
    <3> QED BY <3>1, Associative
  <2>6. PICK BC : BC = B \o C OBVIOUS
  <2>7. Regroups(a, B, C, aB, BC) BY <1>2, <1>4, <1>6, <2>1, <2>6, Regroup
  <2> QED BY <2>3, <2>4, <2>5, <2>6, <2>7 DEF Regroups
<1>14. a \o (s \o wpftC) = (a \o s) \o wpftC
  <2>1. PICK as, swpftC : as = a \o s /\ swpftC = s \o wpftC OBVIOUS
  <2>2. Regroups(a, s, wpftC, as, swpftC) BY <1>2, <1>4, <1>11, <2>1, Regroup
  <2> QED BY <2>1, <2>2 DEF Regroups
<1>15. Opening(v) = a \o s BY <1>1, <1>3 DEF Opening
<1>16. Fractional(v, T) = ftC BY <1>1, <1>7 DEF Fractional
<1>17. B \o C \in Texts BY <1>2, <1>6, ConcatAt
<1>18. Printed(v, T) \in Texts
  <2>1. PICK D : D = B \o C OBVIOUS
  <2> QED BY <1>4, <1>13, <1>17, <2>1, ConcatAt
<1>19. Printed(v, T) = Opening(v) \o wpftC BY <1>12, <1>13, <1>14, <1>15
<1>20. pftC = Point(v) \o Fractional(v, T) /\ tC = v.tail \o Closing(T)
       /\ wpftC = v.whole \o (Point(v) \o Fractional(v, T))
  BY <1>1, <1>7, <1>16
<1>21. Body(v) \o Closing(T) = v.sign \o wpftC BY <1>1, <1>6, <1>12
<1>22. Printed(v, T) = <<"(">> \o (Body(v) \o Closing(T)) BY <1>1, <1>3, <1>6, <1>13
<1> QED
  BY <1>8, <1>9, <1>10, <1>11, <1>16, <1>18, <1>19, <1>20, <1>21, <1>22

(* A '-' after the bracket is the sign. *)
LEMMA SignStands ==
  ASSUME NEW v, IsPrintedValue(v), NEW T, T \in Texts
  PROVE  /\ CharAt(Printed(v, T), 1) = "("
         /\ CharAt(Printed(v, T), 2) = "-" <=> v.sign = <<"-">>
         /\ Printed(v, T)[2] = CharAt(Printed(v, T), 2)
         /\ FirstDigit(Printed(v, T)) = Len(Opening(v)) + 1
<1> DEFINE B == Body(v)
           D == B \o Closing(T)
<1>1. B \in Texts /\ Closing(T) \in Texts /\ Printed(v, T) = <<"(">> \o D
      /\ Closing(T)[1] = ")" /\ Closing(T) # <<>>
      /\ v.sign \in {<<>>, <<"-">>}
  BY BodyIs, Layout, PrintedParts
<1>2. D \in Texts BY <1>1, ConcatAt
<1>3. "(" \in Characters /\ "-" \in Characters BY NamedCharacters
<1>4. <<"(">> \in Texts /\ Len(<<"(">>) = 1 /\ <<"(">>[1] = "(" BY <1>3, OneCharacter
<1>5. CharAt(Printed(v, T), 1) = "("
  <2>1. 1 \in 1..Len(<<"(">>) BY <1>4
  <2>2. CharAt(<<"(">> \o D, 1) = <<"(">>[1] BY <1>2, <1>4, <2>1, CharWithin
  <2> QED BY <1>1, <1>4, <2>2
<1>6. CharAt(Printed(v, T), 2) = CharAt(D, 1)
  <2>1. 1 \in Nat \ {0} OBVIOUS
  <2>2. CharAt(<<"(">> \o D, Len(<<"(">>) + 1) = CharAt(D, 1)
    BY <1>2, <1>4, <2>1, CharBehind
  <2>3. Len(<<"(">>) + 1 = 2 BY <1>4
  <2> QED BY <1>1, <2>2, <2>3
<1>7. /\ B = <<>> => CharAt(D, 1) = ")"
      /\ B # <<>> => CharAt(D, 1) = B[1]
  <2>1. ASSUME B = <<>> PROVE CharAt(D, 1) = ")"
    <3>1. D = Closing(T) BY <1>1, <2>1, NoText
    <3> QED BY <1>1, <3>1, FirstChar
  <2>2. ASSUME B # <<>> PROVE CharAt(D, 1) = B[1]
    <3>1. 1 \in 1..Len(B) BY <1>1, <2>2, FirstChar
    <3> QED BY <1>1, <3>1, CharWithin
  <2> QED BY <2>1, <2>2
<1>8. ASSUME v.sign = <<"-">> PROVE B # <<>> /\ B[1] = "-"
  <2>1. v.whole \o (Point(v) \o Fractional(v, T)) \in Texts
        /\ D = <<"-">> \o (v.whole \o (Point(v) \o Fractional(v, T)))
    BY <1>8, Layout
  <2>2. D # <<>> /\ D[1] = "-" BY <1>3, <2>1, OneCharacter
  <2>3. CharAt(D, 1) = "-" BY <1>2, <2>2, FirstChar
  <2> QED BY <1>7, <2>3
<1>9. ASSUME v.sign = <<>>, B # <<>> PROVE B[1] # "-"
  BY <1>9 DEF IsPrintedValue, Begins
<1>10. CharAt(Printed(v, T), 2) = "-" <=> v.sign = <<"-">>
  <2>1. CASE v.sign = <<"-">> BY <1>6, <1>7, <1>8, <2>1
  <2>2. CASE v.sign = <<>>
    <3>1. <<>> # <<"-">> OBVIOUS
    <3> QED BY <1>6, <1>7, <1>9, <2>2, <3>1
  <2> QED BY <1>1, <2>1, <2>2
<1>11. Printed(v, T)[2] = CharAt(Printed(v, T), 2)
  <2> DEFINE P == Printed(v, T)
  <2>1. P \in Texts BY Layout
  <2>2. DOMAIN P = 1..Len(P) BY <2>1, LenProperties DEF Texts
  <2>3. Len(P) = Len(<<"(">>) + Len(D) /\ Len(D) = Len(B) + Len(Closing(T))
        /\ Len(B) \in Nat
    BY <1>1, <1>2, <1>4, ConcatAt
  <2>4. Len(Closing(T)) >= 1 /\ Len(Closing(T)) \in Nat
    BY <1>1, NoText, LenProperties DEF Texts
  <2>5. 2 \in 1..Len(P) BY <1>4, <2>3, <2>4
  <2> QED BY <2>2, <2>5 DEF CharAt
<1>12. FirstDigit(Printed(v, T)) = Len(Opening(v)) + 1
  <2>1. CASE v.sign = <<"-">>
    <3>1. <<"-">> \in Texts /\ Len(<<"-">>) = 1 BY <1>3, OneCharacter
    <3>2. Len(Opening(v)) = Len(<<"(">>) + Len(<<"-">>)
      BY <1>4, <2>1, <3>1, ConcatAt DEF Opening
    <3>3. Len(Opening(v)) + 1 = 3 BY <1>4, <3>1, <3>2
    <3> QED BY <1>10, <2>1, <3>3 DEF FirstDigit
  <2>2. CASE v.sign = <<>>
    <3>1. Opening(v) = <<"(">> BY <1>4, <2>2, NoText DEF Opening
    <3>2. <<>> # <<"-">> /\ Len(Opening(v)) + 1 = 2 BY <1>4, <3>1
    <3> QED BY <1>10, <2>2, <3>2 DEF FirstDigit
  <2> QED BY <1>1, <2>1, <2>2
<1> QED BY <1>5, <1>10, <1>11, <1>12

(* The value ends with its unit where the number ends. *)
EndsNumber(v, d) ==
  ~v.point \/ Len(v.fraction) < d => Left(v, d) = <<>> \/ Begins(Left(v, d), {"*"})

(* How parse_num takes a printed value apart: either into the digits that  *)
(* count and what is left behind them, or there is something else than a   *)
(* digit among the characters that it takes for digits.                    *)
Characterised(v, d, T) ==
  LET text == Printed(v, T)
  IN  /\ EndsNumber(v, d) =>
           /\ Whole(text) \o Fraction(d, text) = Counted(v, d)
           /\ Fraction(d, text) = Decimals(v, d)
           /\ \E a \in Texts : /\ text = a \o (Left(v, d) \o Closing(T))
                               /\ NumberEnd(d, text) = Len(a) + 1
      /\ ~EndsNumber(v, d) =>
           \E x \in Texts : /\ x # <<>> /\ x[1] \notin Digits
                            /\ Whole(text) \o Fraction(d, text) = Counted(v, d) \o x

(* The decimals that count are the first d of them. *)
LEMMA DecimalsAre ==
  ASSUME NEW v, IsPrintedValue(v), NEW d \in Nat
  PROVE  /\ Decimals(v, d) \in Texts /\ Len(Decimals(v, d)) <= d
         /\ Len(Decimals(v, d)) \in Nat
         /\ Counted(v, d) \in Texts
         /\ d <= Len(v.fraction) => Decimals(v, d) = SubSeq(v.fraction, 1, d)
         /\ Len(v.fraction) <= d => Decimals(v, d) = v.fraction
<1> DEFINE f == v.fraction
<1>1. f \in Texts /\ v.whole \in Texts
  <2>1. <<>> \in Texts BY NoText
  <2> QED BY <2>1, PrintedParts
<1>2. Len(f) \in Nat BY <1>1, LenProperties DEF Texts
<1>3. Min({d, Len(f)}) = IF d <= Len(f) THEN d ELSE Len(f)
  <2>1. d \in Int /\ Len(f) \in Int BY <1>2
  <2> QED BY <2>1, MinOfTwo
<1>4. SubSeq(f, 1, Len(f)) = f BY <1>1, WholePart
<1>5. ASSUME d <= Len(f)
      PROVE  /\ Decimals(v, d) = SubSeq(f, 1, d) /\ Decimals(v, d) \in Texts
             /\ Len(Decimals(v, d)) = d
  BY <1>1, <1>3, <1>5, TwoParts DEF Decimals
<1>6. ASSUME Len(f) <= d PROVE Decimals(v, d) = f
  <2>1. Min({d, Len(f)}) = Len(f) BY <1>2, <1>3, <1>6
  <2> QED BY <1>4, <2>1 DEF Decimals
<1>7. /\ Decimals(v, d) \in Texts /\ Len(Decimals(v, d)) <= d
      /\ Len(Decimals(v, d)) \in Nat
  <2>1. CASE d <= Len(f) BY <1>5, <2>1
  <2>2. CASE Len(f) <= d BY <1>1, <1>2, <1>6, <2>2
  <2> QED BY <1>2, <2>1, <2>2
<1>8. Counted(v, d) \in Texts BY <1>1, <1>7, ConcatAt DEF Counted
<1> QED BY <1>5, <1>6, <1>7, <1>8

(* Up to the whole part, and from there on. *)
Before(v) == Opening(v) \o v.whole
After(v, T) == Point(v) \o Fractional(v, T)
Ending(v, T) == Find(After(v, T), 1, {".", "*", ")"})

(* The digits before the point end behind the whole part or within what    *)
(* follows it.                                                             *)
LEMMA StopStands ==
  ASSUME NEW v, IsPrintedValue(v), NEW T, T \in Texts
  PROVE  /\ After(v, T) \in Texts /\ Before(v) \in Texts /\ v.whole \in Texts
         /\ Ending(v, T) \in 1..(Len(After(v, T)) + 1)
         /\ Printed(v, T) = Before(v) \o After(v, T)
         /\ Stop(Printed(v, T)) = Len(Before(v)) + Ending(v, T)
         /\ Whole(Printed(v, T)) = v.whole \o SubSeq(After(v, T), 1, Ending(v, T) - 1)
         /\ CharAt(Printed(v, T), Len(Before(v)) + Ending(v, T))
              = CharAt(After(v, T), Ending(v, T))
<1> DEFINE S == {".", "*", ")"}
<1>0. PICK a, b, n : a = Before(v) /\ b = After(v, T) /\ n = Ending(v, T) OBVIOUS
<1>20. b = Point(v) \o Fractional(v, T) BY <1>0 DEF After
<1>1. PICK o, w, t : o = Opening(v) /\ w = v.whole /\ t = Printed(v, T) OBVIOUS
<1>2. o \in Texts /\ w \in Texts BY <1>1, PrintedParts
<1>3. PICK wb : wb = w \o b OBVIOUS
<1>4. b \in Texts /\ wb \in Texts /\ t = o \o wb
  <2>1. Point(v) \o Fractional(v, T) \in Texts
        /\ v.whole \o (Point(v) \o Fractional(v, T)) \in Texts
        /\ Printed(v, T) = Opening(v) \o (v.whole \o (Point(v) \o Fractional(v, T)))
    BY Layout
  <2> QED BY <1>1, <1>3, <1>20, <2>1
<1>5. a = o \o w BY <1>0, <1>1 DEF Before
<1>6. a \in Texts /\ Len(a) = Len(o) + Len(w) /\ Len(o) \in Nat /\ Len(w) \in Nat
  BY <1>2, <1>5, ConcatAt
<1>7. t = a \o b
  <2>1. Regroups(o, w, b, a, wb) BY <1>2, <1>3, <1>4, <1>5, Regroup
  <2> QED BY <1>4, <2>1 DEF Regroups
<1>8. n \in 1..(Len(b) + 1) /\ Len(b) \in Nat
  <2>1. Len(b) \in Nat BY <1>4, LenProperties DEF Texts
  <2>2. 1 \in Nat \ {0} /\ 1 <= Len(b) + 1 BY <2>1
  <2>3. n = Find(b, 1, S) BY <1>0 DEF Ending
  <2>4. IsFound(b, 1, S, n) BY <1>4, <2>2, <2>3, FindFinds
  <2> QED BY <2>1, <2>4 DEF IsFound
<1>9. Stop(t) = Len(a) + n
  <2>1. Lacks(w, S) BY <1>1 DEF IsPrintedValue, Lacks
  <2>2. Find(wb, 1, S) = Len(w) + n
    <3>1. n = Find(b, 1, S) BY <1>0 DEF Ending
    <3> QED BY <1>2, <1>3, <1>4, <2>1, <3>1, FindSkips
  <2>3. Find(t, Len(o) + 1, S) = Len(o) + Find(wb, 1, S) BY <1>2, <1>4, FindBehind
  <2>4. FirstDigit(t) = Len(o) + 1 BY <1>1, SignStands
  <2>5. Stop(t) = Len(o) + (Len(w) + n) BY <2>2, <2>3, <2>4 DEF Stop
  <2> QED BY <1>6, <1>8, <2>5
<1>10. Whole(t) = w \o SubSeq(b, 1, n - 1)
  <2>1. FirstDigit(t) = Len(o) + 1 BY <1>1, SignStands
  <2>2. PICK m : m = n - 1 /\ m \in Nat /\ m <= Len(b) BY <1>8
  <2>3. Stop(t) - 1 = Len(o) + (Len(w) + m) BY <1>6, <1>8, <1>9, <2>2
  <2>4. Whole(t) = SubSeq(o \o wb, Len(o) + 1, Len(o) + (Len(w) + m))
    BY <1>4, <2>1, <2>3 DEF Whole
  <2>5. 1 \in Nat \ {0} /\ Len(w) + m \in Nat BY <1>6, <2>2
  <2>6. Len(wb) = Len(w) + Len(b) BY <1>2, <1>3, <1>4, ConcatAt
  <2>7. Len(w) + m <= Len(wb) BY <1>6, <1>8, <2>2, <2>6
  <2>8. SubSeq(o \o wb, Len(o) + 1, Len(o) + (Len(w) + m)) = SubSeq(wb, 1, Len(w) + m)
    <3>1. PICK q : q = Len(w) + m OBVIOUS
    <3>2. SubSeq(o \o wb, Len(o) + 1, Len(o) + q) = SubSeq(wb, 1, q)
      BY <1>2, <1>4, <2>5, <2>7, <3>1, PartBehind
    <3> QED BY <3>1, <3>2
  <2>9. SubSeq(w \o b, 1, Len(w) + m) = w \o SubSeq(b, 1, m)
    BY <1>2, <1>4, <2>2, PartOver
  <2> QED BY <1>3, <2>2, <2>4, <2>8, <2>9
<1>11. CharAt(t, Len(a) + n) = CharAt(b, n)
  <2>1. n \in Nat \ {0} BY <1>8
  <2>2. CharAt(a \o b, Len(a) + n) = CharAt(b, n) BY <1>4, <1>6, <2>1, CharBehind
  <2> QED BY <1>7, <2>2
<1> QED BY <1>0, <1>1, <1>2, <1>4, <1>6, <1>7, <1>8, <1>9, <1>10, <1>11

EndsTail(v, b, n) ==
  /\ b \in Texts /\ n \in 1..(Len(b) + 1)
  /\ v.tail = <<>> \/ Begins(v.tail, {"*"}) => n = 1 /\ CharAt(b, 1) \in {"*", ")"}
  /\ ~(v.tail = <<>> \/ Begins(v.tail, {"*"})) => n >= 2 /\ b[1] \notin Digits

(* What follows the digits of a value ends them at once, or something that *)
(* is no digit does not.                                                   *)
LEMMA TailEnds ==
  ASSUME NEW v, IsPrintedValue(v), NEW T, T \in Texts, NEW C,
         C \subseteq {".", "*", ")"}, {"*", ")"} \subseteq C,
         "." \in C => ~Begins(v.tail, {"."}),
         NEW b, b = v.tail \o Closing(T), NEW n, n = Find(b, 1, C)
  PROVE  EndsTail(v, b, n)
<1>1. PICK t, c : t = v.tail /\ c = Closing(T) OBVIOUS
<1>2. t \in Texts /\ c \in Texts /\ c[1] = ")" /\ c # <<>> BY <1>1, PrintedParts
<1>3. b \in Texts /\ b = t \o c BY <1>1, <1>2, ConcatAt
<1>4. Len(b) \in Nat BY <1>3, LenProperties DEF Texts
<1>5. IsFound(b, 1, C, n)
  <2>1. 1 \in Nat \ {0} /\ 1 <= Len(b) + 1 BY <1>4
  <2> QED BY <1>3, <2>1, FindFinds
<1>6. t = <<>> => b[1] = ")" /\ b # <<>>
  BY <1>2, <1>3, NoText
<1>7. t # <<>> => b[1] = t[1] /\ b # <<>>
  <2>1. ASSUME t # <<>> PROVE b[1] = t[1] /\ b # <<>>
    <3>1. 1 \in 1..Len(t) BY <1>2, <2>1, FirstChar
    <3>2. b[1] = t[1] /\ Len(b) = Len(t) + Len(c) /\ Len(t) \in Nat /\ Len(c) \in Nat
      BY <1>2, <1>3, <3>1, ConcatAt
    <3>3. 1 <= Len(b) BY <3>1, <3>2
    <3> QED BY <1>3, <3>2, <3>3, NoText
  <2> QED BY <2>1
<1>8. CharAt(b, 1) = b[1] BY <1>3, <1>6, <1>7, FirstChar
<1>9. n \in 1..(Len(b) + 1) BY <1>5 DEF IsFound
<1>10. ASSUME t = <<>> \/ Begins(t, {"*"})
       PROVE  n = 1 /\ CharAt(b, 1) \in {"*", ")"}
  <2>1. b # <<>> /\ b[1] \in {"*", ")"} BY <1>6, <1>7, <1>10 DEF Begins
  <2>2. Begins(b, C) BY <2>1 DEF Begins
  <2> QED BY <1>3, <1>8, <2>1, <2>2, FindAtOnce
<1>11. ASSUME ~(t = <<>> \/ Begins(t, {"*"}))
       PROVE  n >= 2 /\ b[1] \notin Digits
  <2>1. t # <<>> /\ t[1] # "*" /\ b[1] = t[1] /\ b # <<>> BY <1>7, <1>11 DEF Begins
  <2>2. t[1] \notin Digits BY <1>1, <2>1 DEF IsPrintedValue, Begins, Digits
  <2>3. t[1] # ")"
    <3>1. 1 \in DOMAIN t BY <1>2, <2>1, FirstChar, LenProperties DEF Texts
    <3> QED BY <1>1, <3>1 DEF IsPrintedValue, Lacks
  <2>4. t[1] \notin C BY <1>1, <2>1, <2>3 DEF Begins
  <2>5. n # 1
    <3>1. 1 <= Len(b) BY <1>3, <2>1, NoText
    <3> QED BY <1>5, <2>1, <2>4, <3>1 DEF IsFound
  <2> QED BY <1>4, <1>9, <2>1, <2>2, <2>5
<1> QED BY <1>1, <1>3, <1>9, <1>10, <1>11 DEF EndsTail

(* The characters taken for decimals are a text. *)
LEMMA FractionIsText ==
  ASSUME NEW text, text \in Texts, NEW d \in Nat, Stop(text) \in Nat \ {0}
  PROVE  Fraction(d, text) \in Texts
<1>1. CASE ~HasPoint(d, text) BY <1>1, NoText DEF Fraction
<1>2. CASE HasPoint(d, text)
  <2> DEFINE s == Stop(text)
             e == Find(text, s + 1, {"*", ")"})
             m == Min({s + d, e - 1})
  <2>1. Len(text) \in Nat /\ DOMAIN text = 1..Len(text) BY LenProperties DEF Texts
  <2>2. s \in 1..Len(text) BY <1>2, <2>1 DEF HasPoint, CharAt
  <2>3. s + 1 \in Nat \ {0} /\ s + 1 <= Len(text) + 1 BY <2>1, <2>2
  <2> HIDE DEF s
  <2>4. IsFound(text, s + 1, {"*", ")"}, e) BY <2>3, FindFinds
  <2>5. e \in (s + 1)..(Len(text) + 1) BY <2>4 DEF IsFound
  <2> HIDE DEF e
  <2>6. s + d \in Int /\ e - 1 \in Int BY <2>1, <2>2, <2>5
  <2>7. m = IF s + d <= e - 1 THEN s + d ELSE e - 1 BY <2>6, MinOfTwo
  <2>8. m \in Nat /\ m <= Len(text) BY <2>1, <2>2, <2>5, <2>7
  <2> HIDE DEF m
  <2>9. SubSeq(text, s + 1, m) \in Texts BY <2>3, <2>8, PartOf
  <2> QED BY <1>2, <2>9 DEF Fraction, m, e, s
<1> QED BY <1>1, <1>2

(* Without a point, the number is what comes before its tail. *)
LEMMA WholeCharacterised ==
  ASSUME NEW v, IsPrintedValue(v), NEW T, T \in Texts, NEW d \in Nat, ~v.point
  PROVE  Characterised(v, d, T)
<1>1. PICK a, b, n, w, t, x :
        /\ a = Before(v) /\ b = After(v, T) /\ n = Ending(v, T) /\ w = v.whole
        /\ t = Printed(v, T) /\ x = Fraction(d, t)
  OBVIOUS
<1>2. /\ b \in Texts /\ a \in Texts /\ w \in Texts
      /\ n \in 1..(Len(b) + 1) /\ t = a \o b /\ Stop(t) = Len(a) + n
      /\ Whole(t) = w \o SubSeq(b, 1, n - 1)
      /\ CharAt(t, Len(a) + n) = CharAt(b, n)
  BY <1>1, StopStands
<1>3. v.fraction = <<>> /\ ~Begins(v.tail, {"."}) BY DEF IsPrintedValue
<1>4. v.tail \o Closing(T) \in Texts /\ v.tail \in Texts /\ Closing(T) \in Texts
  BY Layout, PrintedParts
<1>5. b = v.tail \o Closing(T)
  <2>1. PICK y : y = v.tail \o Closing(T) OBVIOUS
  <2>2. y \in Texts BY <1>4, <2>1
  <2>3. <<>> \o y = y BY <2>2, NoText
  <2>4. Fractional(v, T) = <<>> \o y /\ Point(v) = <<>>
    BY <1>3, <2>1 DEF Fractional, Point
  <2> QED BY <1>1, <2>1, <2>3, <2>4 DEF After
<1>6. Decimals(v, d) = <<>> /\ Counted(v, d) = w
  <2>1. Len(v.fraction) <= d BY <1>3, NoText
  <2>2. Decimals(v, d) = <<>> BY <1>3, <2>1, DecimalsAre
  <2>3. w \o <<>> = w BY <1>2, NoText
  <2> QED BY <1>1, <2>2, <2>3 DEF Counted
<1>7. Left(v, d) = v.tail
  <2>1. SubSeq(v.fraction, d + 1, Len(v.fraction)) = <<>>
    <3>1. d + 1 \in Int /\ Len(v.fraction) \in Int /\ Len(v.fraction) < d + 1
      BY <1>3, NoText
    <3> QED BY <3>1, NoPart
  <2>2. <<>> \o v.tail = v.tail BY <1>4, NoText
  <2> QED BY <2>1, <2>2 DEF Left
<1>8. /\ n = Find(b, 1, {".", "*", ")"})
      /\ {".", "*", ")"} \subseteq {".", "*", ")"} /\ {"*", ")"} \subseteq {".", "*", ")"}
  BY <1>1 DEF Ending
<1>9. /\ v.tail = <<>> \/ Begins(v.tail, {"*"}) => n = 1 /\ CharAt(b, 1) \in {"*", ")"}
      /\ ~(v.tail = <<>> \/ Begins(v.tail, {"*"})) => n >= 2 /\ b[1] \notin Digits
  <2>1. PICK C : C = {".", "*", ")"} OBVIOUS
  <2>2. C \subseteq {".", "*", ")"} /\ {"*", ")"} \subseteq C BY <1>8, <2>1
  <2>3. n = Find(b, 1, C) BY <1>8, <2>1
  <2>4. "." \in C => ~Begins(v.tail, {"."}) BY <1>3
  <2>5. EndsTail(v, b, n) BY <1>5, <2>2, <2>3, <2>4, TailEnds
  <2> QED BY <2>5 DEF EndsTail
<1>10. EndsNumber(v, d) <=> v.tail = <<>> \/ Begins(v.tail, {"*"})
  BY <1>7 DEF EndsNumber
<1>11. ASSUME EndsNumber(v, d)
       PROVE  /\ Whole(t) \o x = Counted(v, d) /\ x = Decimals(v, d)
              /\ t = a \o (Left(v, d) \o Closing(T)) /\ NumberEnd(d, t) = Len(a) + 1
  <2>1. n = 1 /\ CharAt(b, 1) # "." BY <1>9, <1>10, <1>11
  <2>2. Stop(t) = Len(a) + 1 /\ CharAt(t, Stop(t)) # "." BY <1>2, <2>1
  <2>3. ~HasPoint(d, t) BY <2>2 DEF HasPoint
  <2>4. x = <<>> BY <1>1, <2>3 DEF Fraction
  <2>5. NumberEnd(d, t) = Len(a) + 1 BY <2>2, <2>3 DEF NumberEnd
  <2>6. SubSeq(b, 1, n - 1) = <<>>
    <3>1. n - 1 < 1 /\ n - 1 \in Int /\ 1 \in Int BY <2>1
    <3> QED BY <3>1, NoPart
  <2>7. Whole(t) \o x = w BY <1>2, <2>4, <2>6, NoText
  <2>8. t = a \o (Left(v, d) \o Closing(T)) BY <1>2, <1>5, <1>7
  <2> QED BY <1>6, <2>4, <2>5, <2>7, <2>8
<1>12. ASSUME ~EndsNumber(v, d)
       PROVE  \E y \in Texts : /\ y # <<>> /\ y[1] \notin Digits
                               /\ Whole(t) \o x = Counted(v, d) \o y
  <2>1. n >= 2 /\ b[1] \notin Digits BY <1>9, <1>10, <1>12
  <2>2. Len(b) \in Nat /\ Len(a) \in Nat BY <1>2, LenProperties DEF Texts
  <2>3. PICK z : z = SubSeq(b, 1, n - 1) OBVIOUS
  <2>4. z \in Texts /\ z # <<>> /\ z[1] = b[1] /\ 1 \in 1..Len(z)
    <3>1. 1 \in Nat \ {0} /\ n - 1 \in Nat /\ n - 1 <= Len(b) BY <1>2, <2>1, <2>2
    <3>2. /\ z \in Texts /\ Len(z) = IF 1 <= n - 1 THEN (n - 1) - 1 + 1 ELSE 0
          /\ \A i \in 1..((n - 1) - 1 + 1) : z[i] = b[1 + i - 1]
      BY <1>2, <2>3, <3>1, PartOf
    <3>3. n \in Nat /\ 1 \in 1..((n - 1) - 1 + 1) /\ 1 + 1 - 1 = 1 BY <1>2, <2>1, <2>2
    <3>4. z[1] = b[1] BY <3>2, <3>3
    <3>5. 1 <= Len(z) /\ 1 \in 1..Len(z) BY <2>1, <3>2, <3>3
    <3> QED BY <3>2, <3>4, <3>5, NoText
  <2>5. x \in Texts
    <3>1. Stop(t) \in Nat \ {0} BY <1>2, <2>2
    <3>2. t \in Texts BY <1>1, Layout
    <3> QED BY <1>1, <3>1, <3>2, FractionIsText
  <2>6. PICK y : y = z \o x OBVIOUS
  <2>7. y \in Texts /\ y[1] = z[1] /\ Len(y) = Len(z) + Len(x) /\ Len(x) \in Nat
        /\ Len(z) \in Nat
    BY <2>4, <2>5, <2>6, ConcatAt
  <2>8. y # <<>>
    <3>1. 1 <= Len(y) BY <2>4, <2>7
    <3> QED BY <2>7, <3>1, NoText
  <2>9. PICK wz : wz = w \o z OBVIOUS
  <2>10. Regroups(w, z, x, wz, y) BY <1>2, <2>4, <2>5, <2>6, <2>9, Regroup
  <2>11. Whole(t) \o x = Counted(v, d) \o y
    BY <1>2, <1>6, <2>3, <2>9, <2>10 DEF Regroups
  <2> QED BY <2>1, <2>4, <2>7, <2>8, <2>11
<1>13. EndsNumber(v, d) =>
         \E A \in Texts : /\ t = A \o (Left(v, d) \o Closing(T))
                          /\ NumberEnd(d, t) = Len(A) + 1
  BY <1>2, <1>11
<1> QED BY <1>1, <1>11, <1>12, <1>13 DEF Characterised

(* With a point but no decimals wanted, it ends there. *)
LEMMA PointCharacterised ==
  ASSUME NEW v, IsPrintedValue(v), NEW T, T \in Texts, v.point
  PROVE  Characterised(v, 0, T)
<1>1. PICK a, b, n, w, t, x :
        /\ a = Before(v) /\ b = After(v, T) /\ n = Ending(v, T) /\ w = v.whole
        /\ t = Printed(v, T) /\ x = Fraction(0, t)
  OBVIOUS
<1>2. /\ b \in Texts /\ a \in Texts /\ w \in Texts
      /\ n \in 1..(Len(b) + 1) /\ t = a \o b /\ Stop(t) = Len(a) + n
      /\ Whole(t) = w \o SubSeq(b, 1, n - 1)
  BY <1>1, StopStands
<1>3. b = <<".">> \o Fractional(v, T) BY <1>1 DEF After, Point
<1>4. "." \in Characters BY NamedCharacters
<1>5. n = 1
  <2>1. Fractional(v, T) \in Texts BY Layout
  <2>2. b # <<>> /\ b[1] = "." BY <1>3, <1>4, <2>1, OneCharacter
  <2>3. Begins(b, {".", "*", ")"}) BY <2>2 DEF Begins
  <2> QED BY <1>1, <1>2, <2>3, FindAtOnce DEF Ending
<1>6. Decimals(v, 0) = <<>> /\ Counted(v, 0) = w
  <2>1. v.fraction \in Texts BY PrintedParts
  <2>2. 0 \in Nat /\ 0 <= Len(v.fraction) BY <2>1, LenProperties DEF Texts
  <2>3. Decimals(v, 0) = SubSeq(v.fraction, 1, 0) BY <2>2, DecimalsAre
  <2>4. SubSeq(v.fraction, 1, 0) = <<>> BY NoPart
  <2>5. w \o <<>> = w BY <1>2, NoText
  <2> QED BY <1>1, <2>3, <2>4, <2>5 DEF Counted
<1>7. ~HasPoint(0, t) BY DEF HasPoint
<1>8. x = <<>> /\ NumberEnd(0, t) = Len(a) + 1
  BY <1>1, <1>2, <1>5, <1>7 DEF Fraction, NumberEnd
<1>9. Whole(t) \o x = w
  <2>1. SubSeq(b, 1, n - 1) = <<>>
    <3>1. n - 1 < 1 /\ n - 1 \in Int /\ 1 \in Int BY <1>5
    <3> QED BY <3>1, NoPart
  <2> QED BY <1>2, <1>8, <2>1, NoText
<1>10. t = a \o (Left(v, 0) \o Closing(T))
  <2>1. PICK p, f, l, c, pf, lc : /\ p = <<".">> /\ f = v.fraction /\ l = v.tail
                                  /\ c = Closing(T) /\ pf = p \o f /\ lc = l \o c
    OBVIOUS
  <2>2. p \in Texts BY <1>4, <2>1, OneCharacter
  <2>3. f \in Texts /\ l \in Texts /\ c \in Texts BY <2>1, PrintedParts
  <2>4. lc \in Texts /\ pf \in Texts BY <2>1, <2>2, <2>3, ConcatAt
  <2>5. PICK flc, pfl : flc = f \o lc /\ pfl = pf \o l OBVIOUS
  <2>6. flc = Fractional(v, T) BY <2>1, <2>5 DEF Fractional
  <2>7. pfl = Left(v, 0) BY <2>1, <2>5 DEF Left
  <2>8. Regroups(p, f, lc, pf, flc) BY <2>1, <2>2, <2>3, <2>4, <2>5, Regroup
  <2>9. Regroups(pf, l, c, pfl, lc) BY <2>1, <2>3, <2>4, <2>5, Regroup
  <2>10. b = pfl \o c BY <1>3, <2>1, <2>6, <2>8, <2>9 DEF Regroups
  <2> QED BY <1>2, <2>1, <2>7, <2>10
<1>11. EndsNumber(v, 0)
  <2>1. v.fraction \in Texts BY PrintedParts
  <2>2. ~(Len(v.fraction) < 0) BY <2>1, LenProperties DEF Texts
  <2> QED BY <2>2 DEF EndsNumber
<1>12. \E A \in Texts : /\ t = A \o (Left(v, 0) \o Closing(T))
                        /\ NumberEnd(0, t) = Len(A) + 1
  BY <1>2, <1>8, <1>10
<1> QED BY <1>1, <1>6, <1>8, <1>9, <1>11, <1>12 DEF Characterised

(* The text up to and with the point, and the position behind it. *)
LEMMA PointStands ==
  ASSUME NEW v, IsPrintedValue(v), NEW T, T \in Texts, v.point,
         NEW d \in Nat \ {0}
  PROVE  \E a \in Texts :
           /\ Printed(v, T) = a \o Fractional(v, T)
           /\ Stop(Printed(v, T)) = Len(a)
           /\ Whole(Printed(v, T)) = v.whole
           /\ HasPoint(d, Printed(v, T))
<1>1. PICK a, b, n, w, t, p, r :
        /\ a = Before(v) /\ b = After(v, T) /\ n = Ending(v, T) /\ w = v.whole
        /\ t = Printed(v, T) /\ p = <<".">> /\ r = Fractional(v, T)
  OBVIOUS
<1>2. /\ b \in Texts /\ a \in Texts /\ w \in Texts
      /\ n \in 1..(Len(b) + 1) /\ t = a \o b /\ Stop(t) = Len(a) + n
      /\ Whole(t) = w \o SubSeq(b, 1, n - 1)
      /\ CharAt(t, Len(a) + n) = CharAt(b, n)
  BY <1>1, StopStands
<1>3. b = p \o r BY <1>1 DEF After, Point
<1>4. "." \in Characters BY NamedCharacters
<1>5. r \in Texts BY <1>1, Layout
<1>6. p \in Texts /\ Len(p) = 1 BY <1>1, <1>4, OneCharacter
<1>7. b # <<>> /\ b[1] = "." BY <1>1, <1>3, <1>4, <1>5, OneCharacter
<1>8. n = 1
  <2>1. Begins(b, {".", "*", ")"}) BY <1>7 DEF Begins
  <2> QED BY <1>1, <1>2, <2>1, FindAtOnce DEF Ending
<1>9. PICK ap : ap = a \o p OBVIOUS
<1>10. ap \in Texts /\ Len(ap) = Len(a) + 1
  <2>1. ap \in Texts /\ Len(ap) = Len(a) + Len(p) BY <1>2, <1>6, <1>9, ConcatAt
  <2> QED BY <1>6, <2>1
<1>11. t = ap \o r
  <2>1. Regroups(a, p, r, ap, b) BY <1>2, <1>3, <1>5, <1>6, <1>9, Regroup
  <2> QED BY <1>2, <2>1 DEF Regroups
<1>12. Whole(t) = w
  <2>1. SubSeq(b, 1, n - 1) = <<>>
    <3>1. n - 1 < 1 /\ n - 1 \in Int /\ 1 \in Int BY <1>8
    <3> QED BY <3>1, NoPart
  <2> QED BY <1>2, <2>1, NoText
<1>13. HasPoint(d, t)
  <2>1. CharAt(b, 1) = "." BY <1>2, <1>7, FirstChar
  <2>2. CharAt(t, Stop(t)) = "." BY <1>2, <1>8, <2>1
  <2> QED BY <2>2 DEF HasPoint
<1> QED BY <1>1, <1>2, <1>8, <1>10, <1>11, <1>12, <1>13

(* Where the characters behind the point end, and how many of them are     *)
(* taken: at most d.                                                       *)
TailEnd(v, T) == Find(v.tail \o Closing(T), 1, {"*", ")"})
Taken(v, d, T) ==
  IF d <= Len(v.fraction) + (TailEnd(v, T) - 1) THEN d
  ELSE Len(v.fraction) + (TailEnd(v, T) - 1)

(* What is taken for the decimals begins behind the point and ends within  *)
(* the decimals or what follows them.                                      *)
LEMMA FractionStands ==
  ASSUME NEW v, IsPrintedValue(v), NEW T, T \in Texts, v.point,
         NEW d \in Nat \ {0}
  PROVE  /\ TailEnd(v, T) \in 1..(Len(v.tail \o Closing(T)) + 1)
         /\ Fraction(d, Printed(v, T)) = SubSeq(Fractional(v, T), 1, Taken(v, d, T))
<1> DEFINE S == {"*", ")"}
<1>1. PICK f, b, r, t, m :
        /\ f = v.fraction /\ b = v.tail \o Closing(T) /\ r = Fractional(v, T)
        /\ t = Printed(v, T) /\ m = TailEnd(v, T)
  OBVIOUS
<1>2. f \in Texts /\ b \in Texts /\ r \in Texts /\ r = f \o b
  BY <1>1, Layout, PrintedParts DEF Fractional
<1>3. PICK a : a \in Texts /\ t = a \o r /\ Stop(t) = Len(a) /\ HasPoint(d, t)
  BY <1>1, PointStands
<1>4. Len(f) \in Nat /\ Len(b) \in Nat /\ Len(r) = Len(f) + Len(b) /\ Len(a) \in Nat
  <2>1. Len(f) \in Nat /\ Len(b) \in Nat /\ Len(r) = Len(f) + Len(b)
    BY <1>2, ConcatAt
  <2> QED BY <1>3, <2>1, LenProperties DEF Texts
<1>5. m \in 1..(Len(b) + 1)
  <2>1. 1 \in Nat \ {0} /\ 1 <= Len(b) + 1 BY <1>4
  <2>2. IsFound(b, 1, S, Find(b, 1, S)) BY <1>2, <2>1, FindFinds
  <2> QED BY <1>1, <2>2 DEF IsFound, TailEnd
<1>6. Find(r, 1, S) = Len(f) + m
  <2>1. Lacks(f, S) BY <1>1 DEF IsPrintedValue, Lacks
  <2>2. Find(f \o b, 1, S) = Len(f) + Find(b, 1, S) BY <1>2, <2>1, FindSkips
  <2> QED BY <1>1, <1>2, <2>2 DEF TailEnd
<1>7. Find(t, Stop(t) + 1, S) = Len(a) + (Len(f) + m)
  <2>1. Find(a \o r, Len(a) + 1, S) = Len(a) + Find(r, 1, S)
    BY <1>2, <1>3, FindBehind
  <2> QED BY <1>3, <1>6, <2>1
<1>8. PICK k : k = Len(f) + (m - 1) OBVIOUS
<1>9. k \in Nat /\ k <= Len(r) BY <1>4, <1>5, <1>8
<1>10. PICK e : e = (IF d <= k THEN d ELSE k) OBVIOUS
<1>11. e \in Nat /\ e <= Len(r) /\ e = Taken(v, d, T)
  <2>1. e \in Nat /\ e <= Len(r) BY <1>9, <1>10
  <2> QED BY <1>1, <1>8, <1>10, <2>1 DEF Taken
<1>12. Min({Stop(t) + d, Find(t, Stop(t) + 1, S) - 1}) = Len(a) + e
  <2>1. PICK p, q : p = Len(a) + d /\ q = Len(a) + k OBVIOUS
  <2>2. p \in Int /\ q \in Int BY <1>4, <1>9, <2>1
  <2>3. Min({p, q}) = IF p <= q THEN p ELSE q BY <2>2, MinOfTwo
  <2>4. (Len(a) + (Len(f) + m)) - 1 = q BY <1>4, <1>5, <1>8, <2>1
  <2>5. (IF p <= q THEN p ELSE q) = Len(a) + e BY <1>4, <1>9, <1>10, <2>1
  <2>6. Stop(t) + d = p /\ Find(t, Stop(t) + 1, S) - 1 = q
    BY <1>3, <1>7, <2>1, <2>4
  <2> QED BY <2>3, <2>5, <2>6
<1>13. Fraction(d, t) = SubSeq(a \o r, Len(a) + 1, Len(a) + e)
  BY <1>3, <1>12 DEF Fraction
<1>14. SubSeq(a \o r, Len(a) + 1, Len(a) + e) = SubSeq(r, 1, e)
  <2>1. 1 \in Nat \ {0} OBVIOUS
  <2>2. a \in Texts /\ r \in Texts /\ e \in Nat /\ e <= Len(r)
    BY <1>2, <1>3, <1>11
  <2> HIDE DEF S
  <2> QED BY <2>1, <2>2, PartBehind
<1> QED BY <1>1, <1>5, <1>11, <1>13, <1>14

(* With d decimals or more, the first d are read and the rest is left. *)
LEMMA FullCharacterised ==
  ASSUME NEW v, IsPrintedValue(v), NEW T, T \in Texts, v.point,
         NEW d \in Nat \ {0}, d <= Len(v.fraction)
  PROVE  Characterised(v, d, T)
<1>1. PICK f, l, c, b, r, w, t, x :
        /\ f = v.fraction /\ l = v.tail /\ c = Closing(T) /\ b = l \o c
        /\ r = Fractional(v, T) /\ w = v.whole
        /\ t = Printed(v, T) /\ x = Fraction(d, t)
  OBVIOUS
<1>2. f \in Texts /\ l \in Texts /\ c \in Texts /\ b \in Texts /\ r \in Texts
      /\ t \in Texts /\ w \in Texts
  BY <1>1, Layout, PrintedParts
<1>3. r = f \o b BY <1>1 DEF Fractional
<1>4. PICK a : /\ a \in Texts /\ t = a \o r /\ Stop(t) = Len(a) /\ Whole(t) = w
               /\ HasPoint(d, t)
  BY <1>1, PointStands
<1>5. PICK m : m = TailEnd(v, T) OBVIOUS
<1>6. /\ m \in 1..(Len(b) + 1)
      /\ x = SubSeq(r, 1, Taken(v, d, T))
  BY <1>1, <1>5, FractionStands
<1>7. Len(f) \in Nat /\ d <= Len(f) /\ d \in Nat BY <1>1, <1>2, LenProperties DEF Texts
<1>8. Decimals(v, d) = SubSeq(f, 1, d) BY <1>1, <1>7, DecimalsAre
<1>9. x = Decimals(v, d)
  <2>1. m \in Nat \ {0}
    <3>1. Len(b) \in Nat BY <1>2, LenProperties DEF Texts
    <3> QED BY <1>6, <3>1
  <2>2. Taken(v, d, T) = d
    <3>1. d <= Len(f) + (m - 1) BY <1>7, <2>1
    <3> QED BY <1>1, <1>5, <3>1 DEF Taken
  <2>3. SubSeq(f \o b, 1, d) = SubSeq(f, 1, d) BY <1>2, <1>7, PartWithin
  <2> QED BY <1>3, <1>6, <1>8, <2>2, <2>3
<1>10. EndsNumber(v, d)
  <2>1. ~(Len(f) < d) BY <1>7
  <2> QED BY <1>1, <2>1 DEF EndsNumber
<1>11. PICK y : y = SubSeq(f, d + 1, Len(f)) OBVIOUS
<1>12. x \in Texts /\ Len(x) = d /\ y \in Texts /\ f = x \o y
  BY <1>2, <1>7, <1>8, <1>9, <1>11, TwoParts
<1>13. PICK yl, yb, ax : yl = y \o l /\ yb = y \o b /\ ax = a \o x OBVIOUS
<1>14. yl \in Texts /\ yb \in Texts BY <1>2, <1>12, <1>13, ConcatAt
<1>15. ax \in Texts /\ Len(ax) = Len(a) + d BY <1>4, <1>12, <1>13, ConcatAt
<1>16. Left(v, d) = yl
  <2>1. d # 0 OBVIOUS
  <2> QED BY <1>1, <1>11, <1>13, <2>1 DEF Left
<1>17. t = ax \o (yl \o c)
  <2>1. Regroups(x, y, b, f, yb) BY <1>2, <1>12, <1>13, Regroup
  <2>2. r = x \o yb BY <1>3, <2>1 DEF Regroups
  <2>3. Regroups(a, x, yb, ax, r) BY <1>4, <1>12, <1>13, <1>14, <2>2, Regroup
  <2>4. Regroups(y, l, c, yl, b) BY <1>1, <1>2, <1>12, <1>13, <1>14, Regroup
  <2>5. t = ax \o yb BY <1>4, <2>3 DEF Regroups
  <2>6. yl \o c = yb BY <1>13, <2>4 DEF Regroups
  <2> QED BY <2>5, <2>6
<1>18. NumberEnd(d, t) = Len(ax) + 1
  <2>1. NumberEnd(d, t) = Len(a) + 1 + Len(x) BY <1>1, <1>4 DEF NumberEnd
  <2>2. Len(a) \in Nat BY <1>4, LenProperties DEF Texts
  <2> QED BY <1>7, <1>12, <1>15, <2>1, <2>2
<1>19. Whole(t) \o x = Counted(v, d) BY <1>1, <1>4, <1>9 DEF Counted
<1>20. \E A \in Texts : /\ t = A \o (Left(v, d) \o Closing(T))
                        /\ NumberEnd(d, t) = Len(A) + 1
  BY <1>1, <1>15, <1>16, <1>17, <1>18
<1> QED BY <1>1, <1>9, <1>10, <1>19, <1>20 DEF Characterised

(* With fewer than d decimals, all of them are read and the tail must end  *)
(* the number.                                                             *)
LEMMA ShortCharacterised ==
  ASSUME NEW v, IsPrintedValue(v), NEW T, T \in Texts, v.point,
         NEW d \in Nat \ {0}, Len(v.fraction) < d
  PROVE  Characterised(v, d, T)
<1>1. PICK f, l, c, b, r, w, t, x :
        /\ f = v.fraction /\ l = v.tail /\ c = Closing(T) /\ b = l \o c
        /\ r = Fractional(v, T) /\ w = v.whole
        /\ t = Printed(v, T) /\ x = Fraction(d, t)
  OBVIOUS
<1>2. f \in Texts /\ l \in Texts /\ c \in Texts /\ b \in Texts /\ r \in Texts
      /\ t \in Texts /\ w \in Texts
  BY <1>1, Layout, PrintedParts
<1>3. r = f \o b BY <1>1 DEF Fractional
<1>4. PICK a : /\ a \in Texts /\ t = a \o r /\ Stop(t) = Len(a) /\ Whole(t) = w
               /\ HasPoint(d, t)
  BY <1>1, PointStands
<1>5. PICK m : m = TailEnd(v, T) OBVIOUS
<1>6. /\ m \in 1..(Len(b) + 1)
      /\ x = SubSeq(r, 1, Taken(v, d, T))
  BY <1>1, <1>5, FractionStands
<1>7. Len(f) \in Nat /\ Len(f) < d /\ d \in Nat /\ Len(b) \in Nat /\ Len(a) \in Nat
  BY <1>1, <1>2, <1>4, LenProperties DEF Texts
<1>8. Decimals(v, d) = f
  <2>1. Len(v.fraction) <= d BY <1>1, <1>7
  <2> QED BY <1>1, <1>7, <2>1, DecimalsAre
<1>9. Left(v, d) = l
  <2>1. SubSeq(f, d + 1, Len(f)) = <<>>
    <3>1. d + 1 \in Int /\ Len(f) \in Int /\ Len(f) < d + 1 BY <1>7
    <3> QED BY <3>1, NoPart
  <2>2. <<>> \o l = l BY <1>2, NoText
  <2> QED BY <1>1, <2>1, <2>2 DEF Left
<1>10. EndsNumber(v, d) <=> l = <<>> \/ Begins(l, {"*"})
  BY <1>1, <1>7, <1>9 DEF EndsNumber
<1>11. /\ l = <<>> \/ Begins(l, {"*"}) => m = 1
       /\ ~(l = <<>> \/ Begins(l, {"*"})) => m >= 2 /\ b[1] \notin Digits
  <2>1. {"*", ")"} \subseteq {".", "*", ")"} /\ {"*", ")"} \subseteq {"*", ")"}
        /\ "." \notin {"*", ")"}
    OBVIOUS
  <2>2. m = Find(b, 1, {"*", ")"}) BY <1>1, <1>5 DEF TailEnd
  <2>3. EndsTail(v, b, m) BY <1>1, <2>1, <2>2, TailEnds
  <2> QED BY <1>1, <2>3 DEF EndsTail
<1>12. PICK e : e = (IF d <= Len(f) + (m - 1) THEN d - Len(f) ELSE m - 1) OBVIOUS
<1>13. e \in Nat /\ e <= Len(b) /\ (e = 0 <=> m = 1)
       /\ Taken(v, d, T) = Len(f) + e
  <2>1. e \in Nat /\ e <= Len(b) /\ (e = 0 <=> m = 1) BY <1>6, <1>7, <1>12
  <2>2. Taken(v, d, T) = IF d <= Len(f) + (m - 1) THEN d ELSE Len(f) + (m - 1)
    BY <1>1, <1>5 DEF Taken
  <2>3. Taken(v, d, T) = Len(f) + e BY <1>6, <1>7, <1>12, <2>2
  <2> QED BY <2>1, <2>3
<1>14. x = f \o SubSeq(b, 1, e)
  <2>1. x = SubSeq(f \o b, 1, Len(f) + e) BY <1>3, <1>6, <1>13
  <2>2. SubSeq(f \o b, 1, Len(f) + e) = f \o SubSeq(b, 1, e)
    BY <1>2, <1>13, PartOver
  <2> QED BY <2>1, <2>2
<1>15. ASSUME EndsNumber(v, d)
       PROVE  /\ x = Decimals(v, d) /\ Whole(t) \o x = Counted(v, d)
              /\ \E A \in Texts : /\ t = A \o (Left(v, d) \o Closing(T))
                                  /\ NumberEnd(d, t) = Len(A) + 1
  <2>1. e = 0 BY <1>10, <1>11, <1>13, <1>15
  <2>2. SubSeq(b, 1, e) = <<>> BY <2>1, NoPart
  <2>3. x = f BY <1>2, <1>14, <2>2, NoText
  <2>4. Whole(t) \o x = Counted(v, d) BY <1>1, <1>4, <1>8, <2>3 DEF Counted
  <2>5. PICK af : af = a \o f OBVIOUS
  <2>6. af \in Texts /\ Len(af) = Len(a) + Len(f) BY <1>2, <1>4, <2>5, ConcatAt
  <2>7. Regroups(a, f, b, af, r) BY <1>2, <1>3, <1>4, <2>5, Regroup
  <2>8. t = af \o b BY <1>4, <2>7 DEF Regroups
  <2>9. NumberEnd(d, t) = Len(a) + 1 + Len(f) BY <1>1, <1>4, <2>3 DEF NumberEnd
  <2>10. NumberEnd(d, t) = Len(af) + 1 BY <1>7, <2>6, <2>9
  <2> QED BY <1>1, <1>8, <1>9, <2>3, <2>4, <2>6, <2>8, <2>10
<1>16. ASSUME ~EndsNumber(v, d)
       PROVE  \E y \in Texts : /\ y # <<>> /\ y[1] \notin Digits
                               /\ Whole(t) \o x = Counted(v, d) \o y
  <2>1. b[1] \notin Digits /\ e # 0 BY <1>10, <1>11, <1>13, <1>16
  <2>2. PICK y : y = SubSeq(b, 1, e) OBVIOUS
  <2>3. y \in Texts /\ y # <<>> /\ y[1] = b[1]
    <3>1. 1 \in Nat \ {0} OBVIOUS
    <3>2. /\ y \in Texts /\ Len(y) = IF 1 <= e THEN e - 1 + 1 ELSE 0
          /\ \A i \in 1..(e - 1 + 1) : y[i] = b[1 + i - 1]
      BY <1>2, <1>13, <2>2, <3>1, PartOf
    <3>3. e \in Nat /\ e # 0 BY <1>13, <2>1
    <3>4. 1 \in 1..(e - 1 + 1) /\ 1 + 1 - 1 = 1 /\ 1 <= e /\ e - 1 + 1 = e BY <3>3
    <3>5. y[1] = b[1] BY <3>2, <3>4
    <3>6. 1 <= Len(y) BY <3>2, <3>4
    <3> QED BY <3>2, <3>5, <3>6, NoText
  <2>4. PICK wf : wf = w \o f OBVIOUS
  <2>5. Regroups(w, f, y, wf, x) BY <1>2, <1>14, <2>2, <2>3, <2>4, Regroup
  <2>6. Counted(v, d) = wf BY <1>1, <1>8, <2>4 DEF Counted
  <2>7. Whole(t) \o x = Counted(v, d) \o y BY <1>4, <2>5, <2>6 DEF Regroups
  <2> QED BY <2>1, <2>3, <2>7
<1> QED BY <1>1, <1>15, <1>16 DEF Characterised

(* Every printed value is taken apart in one of these ways. *)
LEMMA AllCharacterised ==
  ASSUME NEW v, IsPrintedValue(v), NEW T, T \in Texts, NEW d \in Nat
  PROVE  Characterised(v, d, T)
<1>1. CASE ~v.point BY <1>1, WholeCharacterised
<1>2. CASE v.point /\ d = 0 BY <1>2, PointCharacterised
<1>3. CASE v.point /\ d # 0 /\ d <= Len(v.fraction)
  <2>1. d \in Nat \ {0} BY <1>3
  <2> QED BY <1>3, <2>1, FullCharacterised
<1>4. CASE v.point /\ d # 0 /\ ~(d <= Len(v.fraction))
  <2>1. v.fraction \in Texts BY PrintedParts
  <2>2. Len(v.fraction) \in Nat BY <2>1, LenProperties DEF Texts
  <2>3. d \in Nat \ {0} /\ Len(v.fraction) < d BY <1>4, <2>2
  <2> QED BY <1>4, <2>3, ShortCharacterised
<1> QED BY <1>1, <1>2, <1>3, <1>4

-----------------------------------------------------------------------------
(* The unit and the bracket behind a number. *)

(* No letter is lowered to a bracket. *)
LEMMA LowerBracket == \A c : Lower(c) = ")" => c = ")"
<1>1. ASSUME NEW c \in DOMAIN LowerCase PROVE LowerCase[c] # ")"
  BY <1>1 DEF LowerCase
<1> QED BY <1>1 DEF Lower

(* A unit is a text without a bracket. *)
LEMMA UnitTexts ==
  ASSUME NEW unit, IsUnitText(unit)
  PROVE  /\ unit \in Texts /\ DOMAIN unit = 1..Len(unit) /\ Len(unit) \in Nat
         /\ \A i \in 1..Len(unit) : Lower(unit[i]) # ")"
<1>1. unit \in Texts BY StringsAreTexts DEF IsUnitText
<1>2. DOMAIN unit = 1..Len(unit) /\ Len(unit) \in Nat
  BY <1>1, LenProperties DEF Texts
<1>3. \A i \in 1..Len(unit) : unit[i] # ")" BY <1>2 DEF IsUnitText, Lacks
<1> QED BY <1>1, <1>2, <1>3, LowerBracket

(* What a text leaves behind its number, with the bracket that closes it.  *)
LEMMA LeftEnds ==
  ASSUME NEW l, l \in Texts, Lacks(l, {")"}), NEW T, T \in Texts
  PROVE  /\ l \o Closing(T) \in Texts /\ Len(l) \in Nat
         /\ Len(l \o Closing(T)) = Len(l) + (1 + Len(T)) /\ Len(T) \in Nat
         /\ \A i \in 1..Len(l) : (l \o Closing(T))[i] = l[i] /\ l[i] # ")"
         /\ (l \o Closing(T))[Len(l) + 1] = ")"
<1>1. PICK c : c = Closing(T) OBVIOUS
<1>2. c \in Texts /\ Len(c) = 1 + Len(T) /\ c[1] = ")" /\ Len(T) \in Nat
  <2>1. c \in Texts /\ c[1] = ")" /\ Len(c) = 1 + Len(T)
    <3>1. ")" \in Characters BY NamedCharacters
    <3>2. <<")">> \in Texts /\ Len(<<")">>) = 1 BY <3>1, OneCharacter
    <3>3. c = <<")">> \o T BY <1>1 DEF Closing
    <3>4. c[1] = ")" BY <3>1, <3>3, OneCharacter
    <3>5. c \in Texts /\ Len(c) = Len(<<")">>) + Len(T) BY <3>2, <3>3, ConcatAt
    <3> QED BY <3>2, <3>4, <3>5
  <2> QED BY <2>1, LenProperties DEF Texts
<1>6. c \in Texts BY <1>2
<1>3. /\ Len(l) \in Nat /\ l \o c \in Texts /\ Len(l \o c) = Len(l) + Len(c)
      /\ \A i \in 1..Len(l) : (l \o c)[i] = l[i]
      /\ \A i \in 1..Len(c) : (l \o c)[Len(l) + i] = c[i]
  BY <1>6, ConcatAt
<1>4. \A i \in 1..Len(l) : l[i] # ")" BY LenProperties DEF Lacks, Texts
<1>5. 1 \in 1..Len(c) BY <1>2
<1> QED BY <1>1, <1>2, <1>3, <1>4, <1>5

(* Whether the unit stands behind the '*' of s. *)
HasUnit(s, unit) == /\ 1 + Len(unit) <= Len(s)
                    /\ \A i \in 1..Len(unit) : Lower(s[1 + i]) = Lower(unit[i])

(* Whether the unit stands behind the '*' is a question about what is      *)
(* left.                                                                   *)
LEMMA UnitBehind ==
  ASSUME NEW unit, IsUnitText(unit), NEW a, a \in Texts, NEW s, s \in Texts
  PROVE  UnitAt(a \o s, (Len(a) + 1) + 1, unit) <=> HasUnit(s, unit)
<1>1. PICK n, m : n = Len(a) /\ m = Len(unit) OBVIOUS
<1>2. n \in Nat /\ m \in Nat /\ Len(s) \in Nat /\ Len(a \o s) = n + Len(s)
      /\ \A i \in 1..Len(s) : (a \o s)[n + i] = s[i]
  <2>1. /\ Len(a) \in Nat /\ Len(s) \in Nat /\ Len(a \o s) = Len(a) + Len(s)
        /\ \A i \in 1..Len(s) : (a \o s)[Len(a) + i] = s[i]
    <3>1. Joins(a, s, a \o s) BY Joined
    <3> QED BY <3>1 DEF Joins
  <2>2. m \in Nat BY <1>1, UnitTexts
  <2> QED BY <1>1, <2>1, <2>2
<1>3. ((n + 1) + 1) + m - 1 <= n + Len(s) <=> 1 + m <= Len(s) BY <1>2
<1>4. ASSUME 1 + m <= Len(s), NEW i \in 1..m
      PROVE  (a \o s)[((n + 1) + 1) + i - 1] = s[1 + i]
  <2>1. 1 + i \in 1..Len(s) BY <1>2, <1>4
  <2>2. (a \o s)[n + (1 + i)] = s[1 + i] BY <1>2, <2>1
  <2>3. ((n + 1) + 1) + i - 1 = n + (1 + i) BY <1>2
  <2> QED BY <2>2, <2>3
<1>5. DOMAIN unit = 1..m BY <1>1, UnitTexts
<1>6. UnitAt(a \o s, (n + 1) + 1, unit)
        <=> /\ 1 + m <= Len(s)
            /\ \A i \in 1..m :
                 Lower((a \o s)[((n + 1) + 1) + i - 1]) = Lower(unit[i])
  BY <1>1, <1>2, <1>3, <1>5 DEF UnitAt
<1>7. HasUnit(s, unit)
        <=> /\ 1 + m <= Len(s)
            /\ \A i \in 1..m : Lower(s[1 + i]) = Lower(unit[i])
  BY <1>1 DEF HasUnit
<1> QED BY <1>1, <1>4, <1>6, <1>7

(* The characters of a text after its first. *)
LEMMA TailOf ==
  ASSUME NEW l, l \in Texts, l # <<>>
  PROVE  /\ DOMAIN Tail(l) = 1..(Len(l) - 1)
         /\ \A i \in 1..(Len(l) - 1) : Tail(l)[i] = l[i + 1]
<1>1. Tail(l) \in Texts /\ Len(Tail(l)) = Len(l) - 1
      /\ \A i \in 1..Len(Tail(l)) : Tail(l)[i] = l[i + 1]
  BY HeadTailProperties DEF Texts
<1> QED BY <1>1, LenProperties DEF Texts

(* The text l before the bracket is the unit when the unit and a bracket   *)
(* stand behind its '*'.                                                   *)
LEMMA UnitIs ==
  ASSUME NEW unit, IsUnitText(unit), unit # <<>>,
         NEW l, l \in Texts, Lacks(l, {")"}), NEW T, T \in Texts,
         Begins(l, {"*"})
  PROVE  /\ IsUnit(l, unit) <=>
              /\ HasUnit(l \o Closing(T), unit)
              /\ CharAt(l \o Closing(T), 2 + Len(unit)) = ")"
         /\ IsUnit(l, unit) => Len(l) = 1 + Len(unit)
<1>1. PICK s, m : s = l \o Closing(T) /\ m = Len(unit) OBVIOUS
<1>2. /\ s \in Texts /\ Len(l) \in Nat /\ Len(s) = Len(l) + (1 + Len(T)) /\ Len(T) \in Nat
      /\ \A i \in 1..Len(l) : s[i] = l[i] /\ l[i] # ")"
      /\ s[Len(l) + 1] = ")"
  BY <1>1, LeftEnds
<1>3. m \in Nat /\ DOMAIN unit = 1..m /\ \A i \in 1..m : Lower(unit[i]) # ")"
  BY <1>1, UnitTexts
<1>4. l # <<>> /\ Len(l) >= 1 BY <1>2, NoText DEF Begins
<1>5. /\ DOMAIN Tail(l) = 1..(Len(l) - 1)
      /\ \A i \in 1..(Len(l) - 1) : Tail(l)[i] = l[i + 1]
  BY <1>4, TailOf
<1>6. DOMAIN s = 1..Len(s) BY <1>2, LenProperties DEF Texts
<1>7. ASSUME IsUnit(l, unit)
      PROVE  Len(l) = 1 + m /\ HasUnit(s, unit) /\ CharAt(s, 2 + m) = ")"
  <2>1. LowerText(Tail(l)) = LowerText(unit) BY <1>7 DEF IsUnit
  <2>2. DOMAIN Tail(l) = DOMAIN unit
        /\ \A i \in DOMAIN unit : Lower(Tail(l)[i]) = Lower(unit[i])
    BY <2>1 DEF LowerText
  <2>3. 1..(Len(l) - 1) = 1..m BY <1>3, <1>5, <2>2
  <2>4. Len(l) = 1 + m
    <3>1. m # 0
      <4>1. unit \in Texts BY UnitTexts
      <4> QED BY <1>1, <1>3, <4>1, NoText
    <3> QED BY <1>2, <1>3, <1>4, <2>3, <3>1
  <2>5. \A i \in 1..m : Lower(s[1 + i]) = Lower(unit[i])
    <3> TAKE i \in 1..m
    <3>1. i \in 1..(Len(l) - 1) /\ i + 1 \in 1..Len(l) /\ i + 1 = 1 + i
      BY <1>2, <1>3, <2>4
    <3>2. Tail(l)[i] = l[i + 1] /\ s[i + 1] = l[i + 1] BY <1>2, <1>5, <3>1
    <3>3. i \in DOMAIN unit BY <1>3
    <3>4. Lower(Tail(l)[i]) = Lower(unit[i]) BY <2>2, <3>3
    <3> QED BY <3>1, <3>2, <3>4
  <2>6. HasUnit(s, unit)
    <3>1. 1 + m <= Len(s) BY <1>2, <2>4
    <3> QED BY <1>1, <2>5, <3>1 DEF HasUnit
  <2>7. 2 + m = Len(l) + 1 /\ 2 + m \in 1..Len(s) BY <1>2, <1>3, <2>4
  <2> QED BY <1>2, <1>6, <2>4, <2>6, <2>7 DEF CharAt
<1>8. ASSUME HasUnit(s, unit), CharAt(s, 2 + m) = ")"
      PROVE  IsUnit(l, unit)
  <2>1. \A i \in 1..m : Lower(s[1 + i]) = Lower(unit[i]) BY <1>1, <1>8 DEF HasUnit
  <2>2. Len(l) \notin 1..m
    <3> SUFFICES ASSUME Len(l) \in 1..m PROVE FALSE OBVIOUS
    <3>1. s[1 + Len(l)] = ")"
      <4>1. 1 + Len(l) = Len(l) + 1 BY <1>2
      <4> QED BY <1>2, <4>1
    <3>2. Lower(s[1 + Len(l)]) # ")" BY <1>3, <2>1
    <3>3. Lower(")") = ")" BY DEF Lower, LowerCase
    <3> QED BY <3>1, <3>2, <3>3
  <2>3. s[2 + m] = ")" BY <1>8 DEF CharAt
  <2>4. 2 + m \notin 1..Len(l) BY <1>2, <2>3
  <2>5. Len(l) = 1 + m BY <1>2, <1>3, <1>4, <2>2, <2>4
  <2>6. DOMAIN Tail(l) = DOMAIN unit
    <3>1. 1..(Len(l) - 1) = 1..m BY <1>3, <2>5
    <3> QED BY <1>3, <1>5, <3>1
  <2>7. \A i \in 1..m : Lower(Tail(l)[i]) = Lower(unit[i])
    <3> TAKE i \in 1..m
    <3>1. i \in 1..(Len(l) - 1) /\ i + 1 \in 1..Len(l) /\ i + 1 = 1 + i
      BY <1>2, <1>3, <2>5
    <3>2. Tail(l)[i] = l[i + 1] /\ s[i + 1] = l[i + 1] BY <1>2, <1>5, <3>1
    <3> QED BY <2>1, <3>1, <3>2
  <2>8. LowerText(Tail(l)) = LowerText(unit) BY <1>3, <2>6, <2>7 DEF LowerText
  <2> QED BY <2>8 DEF IsUnit
<1> QED BY <1>1, <1>7, <1>8

(* The text l between the number and its bracket is what the unit asks     *)
(* for.                                                                    *)
EndsWithUnit(l, unit, zero) ==
  \/ IsUnit(l, unit)
  \/ unit # <<>> /\ zero /\ ~Begins(l, {"*", "."})

(* From the bracket on, if that is what is at the position n.              *)
ClosesAt(text, n, T) == CharAt(text, n) = ")" => From(text, n + 1) = T

(* The bracket of the value, and what is behind it. *)
LEMMA AfterLeft ==
  ASSUME NEW a, a \in Texts, NEW l, l \in Texts, NEW T, T \in Texts
  PROVE  /\ CharAt(a \o (l \o Closing(T)), Len(a) + (Len(l) + 1)) = ")"
         /\ From(a \o (l \o Closing(T)), (Len(a) + (Len(l) + 1)) + 1) = T
         /\ Find(Closing(T), 1, {")"}) = 1
<1>1. PICK c, s, p : c = Closing(T) /\ s = l \o c /\ p = <<")">> OBVIOUS
<1>2. ")" \in Characters BY NamedCharacters
<1>3. p \in Texts /\ Len(p) = 1 BY <1>1, <1>2, OneCharacter
<1>4. c = p \o T BY <1>1 DEF Closing
<1>5. c \in Texts /\ c[1] = ")" /\ c # <<>>
  <2>1. p \in Texts BY <1>3
  <2>2. c \in Texts BY <1>4, <2>1, ConcatAt
  <2>3. c[1] = ")" /\ c # <<>> BY <1>1, <1>2, <1>4, OneCharacter
  <2> QED BY <2>2, <2>3
<1>6. s \in Texts BY <1>1, <1>5, ConcatAt
<1>7. Len(l) \in Nat /\ Len(a) \in Nat BY LenProperties DEF Texts
<1>8. CharAt(s, Len(l) + 1) = ")"
  <2>1. 1 \in Nat \ {0} OBVIOUS
  <2>2. CharAt(l \o c, Len(l) + 1) = CharAt(c, 1) BY <1>5, <2>1, CharBehind
  <2>3. CharAt(c, 1) = ")" BY <1>5, FirstChar
  <2> QED BY <1>1, <2>2, <2>3
<1>9. PICK q : q = Len(l) + 1 /\ q \in Nat \ {0} BY <1>7
<1>10. CharAt(a \o s, Len(a) + q) = ")"
  <2>1. CharAt(a \o s, Len(a) + q) = CharAt(s, q) BY <1>6, <1>9, CharBehind
  <2> QED BY <1>8, <1>9, <2>1
<1>11. From(c, 2) = T
  <2>1. p \in Texts BY <1>3
  <2>2. From(p \o T, Len(p) + 1) = T BY <2>1, RestOf
  <2>3. Len(p) + 1 = 2 BY <1>3
  <2> QED BY <1>4, <2>2, <2>3
<1>12. From(s, q + 1) = T
  <2>1. 2 \in Nat \ {0} OBVIOUS
  <2>2. From(l \o c, Len(l) + 2) = From(c, 2) BY <1>5, <2>1, RestBehind
  <2>3. Len(l) + 2 = q + 1 BY <1>7, <1>9
  <2> QED BY <1>1, <1>11, <2>2, <2>3
<1>13. From(a \o s, (Len(a) + q) + 1) = T
  <2>1. PICK r : r = q + 1 /\ r \in Nat \ {0} BY <1>9
  <2>2. From(a \o s, Len(a) + r) = From(s, r) BY <1>6, <2>1, RestBehind
  <2>3. (Len(a) + q) + 1 = Len(a) + r BY <1>7, <1>9, <2>1
  <2> QED BY <1>12, <2>1, <2>2, <2>3
<1>14. Find(c, 1, {")"}) = 1
  <2>1. Begins(c, {")"}) BY <1>5 DEF Begins
  <2> QED BY <1>5, <2>1, FindAtOnce
<1> QED BY <1>1, <1>9, <1>10, <1>13, <1>14

(* The first character behind the number. *)
LEMMA FirstLeft ==
  ASSUME NEW a, a \in Texts, NEW l, l \in Texts, NEW T, T \in Texts
  PROVE  /\ l = <<>> => CharAt(a \o (l \o Closing(T)), Len(a) + 1) = ")"
         /\ l # <<>> => CharAt(a \o (l \o Closing(T)), Len(a) + 1) = l[1]
<1>1. PICK c, s : c = Closing(T) /\ s = l \o c OBVIOUS
<1>2. c \in Texts /\ c[1] = ")" /\ c # <<>>
  <2>1. ")" \in Characters BY NamedCharacters
  <2>2. <<")">> \in Texts BY <2>1, OneCharacter
  <2>3. c = <<")">> \o T BY <1>1 DEF Closing
  <2>4. c \in Texts BY <2>2, <2>3, ConcatAt
  <2> QED BY <2>1, <2>3, <2>4, OneCharacter
<1>3. s \in Texts BY <1>1, <1>2, ConcatAt
<1>4. CharAt(a \o s, Len(a) + 1) = CharAt(s, 1)
  <2>1. 1 \in Nat \ {0} OBVIOUS
  <2> QED BY <1>3, <2>1, CharBehind
<1>5. ASSUME l = <<>> PROVE CharAt(s, 1) = ")"
  <2>1. s = c BY <1>1, <1>2, <1>5, NoText
  <2> QED BY <1>2, <2>1, FirstChar
<1>6. ASSUME l # <<>> PROVE CharAt(s, 1) = l[1]
  <2>1. 1 \in 1..Len(l) BY <1>6, FirstChar
  <2> QED BY <1>1, <1>2, <2>1, CharWithin
<1> QED BY <1>1, <1>4, <1>5, <1>6

(* EndOfUnit ends at the bracket exactly when the text before it is what   *)
(* the unit asks for; what is behind it is then left.                      *)
LEMMA UnitEnds ==
  ASSUME NEW unit, IsUnitText(unit), NEW a, a \in Texts,
         NEW l, l \in Texts, Lacks(l, {")"}), NEW T, T \in Texts, NEW zero
  PROVE  LET text == a \o (l \o Closing(T))
             close == EndOfUnit(text, Len(a) + 1, unit, zero)
         IN  /\ CharAt(text, close) = ")" <=> EndsWithUnit(l, unit, zero)
             /\ ClosesAt(text, close, T)
<1>1. PICK c, s, t, p, q, n :
        /\ c = Closing(T) /\ s = l \o c /\ t = a \o s /\ p = Len(a) + 1
        /\ q = Len(a) + (Len(l) + 1) /\ n = EndOfUnit(t, p, unit, zero)
  OBVIOUS
<1>2. c \in Texts /\ s \in Texts /\ t \in Texts
  <2>1. c \in Texts /\ c[1] = ")" /\ c # <<>>
    <3>1. ")" \in Characters BY NamedCharacters
    <3>2. <<")">> \in Texts BY <3>1, OneCharacter
    <3>3. c = <<")">> \o T BY <1>1 DEF Closing
    <3>4. c \in Texts BY <3>2, <3>3, ConcatAt
    <3> QED BY <3>1, <3>3, <3>4, OneCharacter
  <2>2. s \in Texts BY <1>1, <2>1, ConcatAt
  <2> QED BY <1>1, <2>1, <2>2, ConcatAt
<1>3. Len(a) \in Nat /\ Len(l) \in Nat /\ Len(t) \in Nat /\ DOMAIN t = 1..Len(t)
  BY <1>2, LenProperties DEF Texts
(* The bracket behind l. *)
<1>4. CharAt(t, q) = ")" /\ From(t, q + 1) = T /\ Find(c, 1, {")"}) = 1
  BY <1>1, AfterLeft
<1>5. ClosesAt(t, q, T) BY <1>4 DEF ClosesAt
(* No bracket behind the end. *)
<1>6. CharAt(t, Len(t) + 1) # ")" /\ ClosesAt(t, Len(t) + 1, T)
  <2>1. Len(t) + 1 \notin DOMAIN t BY <1>3
  <2> QED BY <2>1 DEF CharAt, ClosesAt
<1>7. /\ l = <<>> => CharAt(t, p) = ")"
      /\ l # <<>> => CharAt(t, p) = l[1]
  BY <1>1, FirstLeft
<1>8. l # <<>> => l[1] # ")"
  <2>1. ASSUME l # <<>> PROVE l[1] # ")"
    <3>1. 1 \in DOMAIN l BY <2>1, FirstChar, LenProperties DEF Texts
    <3> QED BY <3>1 DEF Lacks
  <2> QED BY <2>1
<1>9. /\ CharAt(t, p) = "*" <=> Begins(l, {"*"})
      /\ CharAt(t, p) \in {"*", "."} <=> Begins(l, {"*", "."})
      /\ CharAt(t, p) = ")" <=> l = <<>>
  BY <1>7, <1>8 DEF Begins
<1>10. CASE unit = <<>>
  <2>1. n = p BY <1>1, <1>10 DEF EndOfUnit
  <2>2. EndsWithUnit(l, unit, zero) <=> l = <<>>
    BY <1>10 DEF EndsWithUnit, IsUnit
  <2>3. ClosesAt(t, p, T)
    <3>1. CASE l = <<>>
      <4>1. Len(l) = 0 BY <3>1, NoText
      <4>2. q = p BY <1>1, <1>3, <4>1
      <4> QED BY <1>5, <4>2
    <3>2. CASE l # <<>> BY <1>9, <3>2 DEF ClosesAt
    <3> QED BY <3>1, <3>2
  <2> QED BY <1>1, <1>9, <2>1, <2>2, <2>3
<1>11. CASE unit # <<>> /\ zero /\ CharAt(t, p) \notin {"*", "."}
  <2>1. n = Find(t, p, {")"}) BY <1>1, <1>11 DEF EndOfUnit
  <2>2. n = q
    <3>1. Find(a \o s, Len(a) + 1, {")"}) = Len(a) + Find(s, 1, {")"})
      BY <1>2, FindBehind
    <3>2. Find(l \o c, 1, {")"}) = Len(l) + Find(c, 1, {")"}) BY <1>2, FindSkips
    <3> QED BY <1>1, <1>4, <2>1, <3>1, <3>2
  <2>3. EndsWithUnit(l, unit, zero) BY <1>9, <1>11 DEF EndsWithUnit
  <2> QED BY <1>1, <1>4, <1>5, <2>2, <2>3
<1>12. CASE unit # <<>> /\ ~(zero /\ CharAt(t, p) \notin {"*", "."})
  <2>1. EndsWithUnit(l, unit, zero) <=> IsUnit(l, unit)
    BY <1>9, <1>12 DEF EndsWithUnit
  <2>2. n = IF CharAt(t, p) = "*" /\ UnitAt(t, p + 1, unit)
            THEN (p + 1) + Len(unit) ELSE Len(t) + 1
    BY <1>1, <1>12 DEF EndOfUnit
  <2>3. UnitAt(t, p + 1, unit) <=> HasUnit(s, unit) BY <1>1, <1>2, UnitBehind
  <2>4. ASSUME Begins(l, {"*"})
        PROVE  /\ IsUnit(l, unit)
                    <=> HasUnit(s, unit) /\ CharAt(s, 2 + Len(unit)) = ")"
               /\ IsUnit(l, unit) => Len(l) = 1 + Len(unit)
    BY <1>1, <1>12, <2>4, UnitIs
  <2>5. ~Begins(l, {"*"}) => ~IsUnit(l, unit) BY <1>12 DEF IsUnit
  <2>6. Len(unit) \in Nat BY UnitTexts
  <2>7. CharAt(t, (p + 1) + Len(unit)) = CharAt(s, 2 + Len(unit))
    <3>1. PICK k : k = 2 + Len(unit) /\ k \in Nat \ {0} BY <2>6
    <3>2. CharAt(a \o s, Len(a) + k) = CharAt(s, k) BY <1>2, <3>1, CharBehind
    <3>3. (p + 1) + Len(unit) = Len(a) + k BY <1>1, <1>3, <2>6, <3>1
    <3> QED BY <1>1, <3>1, <3>2, <3>3
  <2>8. CASE Begins(l, {"*"}) /\ HasUnit(s, unit) /\ IsUnit(l, unit)
    <3>1. n = (p + 1) + Len(unit) BY <1>9, <2>2, <2>3, <2>8
    <3>2. n = q BY <1>1, <1>3, <2>4, <2>6, <2>8, <3>1
    <3> QED BY <1>1, <1>4, <1>5, <2>1, <2>8, <3>2
  <2>9. CASE Begins(l, {"*"}) /\ HasUnit(s, unit) /\ ~IsUnit(l, unit)
    <3>1. n = (p + 1) + Len(unit) BY <1>9, <2>2, <2>3, <2>9
    <3>2. CharAt(t, n) # ")" BY <2>4, <2>7, <2>9, <3>1
    <3> QED BY <1>1, <2>1, <2>9, <3>2 DEF ClosesAt
  <2>10. CASE ~(Begins(l, {"*"}) /\ HasUnit(s, unit))
    <3>1. n = Len(t) + 1 BY <1>9, <2>2, <2>3, <2>10
    <3>2. ~IsUnit(l, unit) BY <2>4, <2>5, <2>10
    <3> QED BY <1>1, <1>6, <2>1, <3>1, <3>2
  <2> QED BY <2>8, <2>9, <2>10
<1> QED BY <1>10, <1>11, <1>12

-----------------------------------------------------------------------------
(* parse_num and parse_float_or_int read a printed value. *)

(* Two texts without a character have none in a row. *)
LEMMA ConcatLacks ==
  ASSUME NEW a, a \in Texts, NEW b, b \in Texts, NEW S, Lacks(a, S), Lacks(b, S)
  PROVE  Lacks(a \o b, S)
<1>1. PICK c : c = a \o b OBVIOUS
<1>2. /\ Len(a) \in Nat /\ Len(b) \in Nat /\ Len(a \o b) = Len(a) + Len(b)
      /\ \A i \in 1..Len(a) : (a \o b)[i] = a[i]
      /\ \A i \in 1..Len(b) : (a \o b)[Len(a) + i] = b[i]
      /\ a \o b \in Texts
  BY ConcatAt
<1>3. DOMAIN a = 1..Len(a) /\ DOMAIN b = 1..Len(b) /\ DOMAIN c = 1..Len(c)
  BY <1>1, <1>2, LenProperties DEF Texts
<1>4. ASSUME NEW i \in 1..Len(c) PROVE c[i] \notin S
  <2>1. CASE i \in 1..Len(a)
    <3>1. c[i] = a[i] BY <1>1, <1>2, <2>1
    <3> QED BY <1>3, <2>1, <3>1 DEF Lacks
  <2>2. CASE i \notin 1..Len(a)
    <3>1. PICK j : j = i - Len(a) OBVIOUS
    <3>2. j \in 1..Len(b) /\ i = Len(a) + j BY <1>1, <1>2, <2>2, <3>1
    <3>3. c[i] = b[j] BY <1>1, <1>2, <3>2
    <3> QED BY <1>3, <3>2, <3>3 DEF Lacks
  <2> QED BY <2>1, <2>2
<1> QED BY <1>1, <1>3, <1>4 DEF Lacks

(* Nor has what is left of such a text. *)
LEMMA BehindLacks ==
  ASSUME NEW a, a \in Texts, NEW m \in Nat \ {0}, NEW S, Lacks(a, S)
  PROVE  SubSeq(a, m, Len(a)) \in Texts /\ Lacks(SubSeq(a, m, Len(a)), S)
<1>1. PICK b : b = SubSeq(a, m, Len(a)) OBVIOUS
<1>2. Len(a) \in Nat /\ Len(a) <= Len(a) /\ DOMAIN a = 1..Len(a)
  BY LenProperties DEF Texts
<1>3. /\ b \in Texts /\ Len(b) = IF m <= Len(a) THEN Len(a) - m + 1 ELSE 0
      /\ \A i \in 1..(Len(a) - m + 1) : b[i] = a[m + i - 1]
  BY <1>1, <1>2, PartOf
<1>4. DOMAIN b = 1..Len(b) BY <1>3, LenProperties DEF Texts
<1>5. ASSUME NEW i \in 1..Len(b) PROVE b[i] \notin S
  <2>1. i \in 1..(Len(a) - m + 1) /\ m + i - 1 \in 1..Len(a) BY <1>2, <1>3
  <2>2. b[i] = a[m + i - 1] BY <1>3, <2>1
  <2> QED BY <1>2, <2>1, <2>2 DEF Lacks
<1> QED BY <1>1, <1>3, <1>4, <1>5 DEF Lacks

(* What the digits of a value leave is a text without a bracket. *)
LEMMA LeftIs ==
  ASSUME NEW v, IsPrintedValue(v), NEW d \in Nat
  PROVE  Left(v, d) \in Texts /\ Lacks(Left(v, d), {")"})
<1> DEFINE S == {")"}
<1>1. PICK f, l, p, g : /\ f = v.fraction /\ l = v.tail /\ p = <<".">>
                        /\ g = SubSeq(f, d + 1, Len(f))
  OBVIOUS
<1>2. f \in Texts /\ l \in Texts
  <2>1. <<>> \in Texts BY NoText
  <2> QED BY <1>1, <2>1, PrintedParts
<1>3. Lacks(f, S) /\ Lacks(l, S) BY <1>1 DEF IsPrintedValue, Lacks
<1>4. p \in Texts /\ Lacks(p, S)
  <2>1. "." \in Characters BY NamedCharacters
  <2>2. p \in Texts /\ Len(p) = 1 /\ p[1] = "." BY <1>1, <2>1, OneCharacter
  <2>3. DOMAIN p = 1..1 BY <2>2, LenProperties DEF Texts
  <2>4. \A i \in DOMAIN p : p[i] = "."
    <3> TAKE i \in DOMAIN p
    <3>1. i = 1 BY <2>3
    <3> QED BY <2>2, <3>1
  <2> QED BY <2>2, <2>4 DEF Lacks
<1>5. g \in Texts /\ Lacks(g, S)
  <2>1. d + 1 \in Nat \ {0} OBVIOUS
  <2> HIDE DEF S
  <2> QED BY <1>1, <1>2, <1>3, <2>1, BehindLacks
<1> HIDE DEF S
<1>6. g \o l \in Texts /\ Lacks(g \o l, S) BY <1>2, <1>3, <1>5, ConcatAt, ConcatLacks
<1>7. p \o f \in Texts /\ Lacks(p \o f, S) BY <1>2, <1>3, <1>4, ConcatAt, ConcatLacks
<1>8. (p \o f) \o l \in Texts /\ Lacks((p \o f) \o l, S)
  <2>1. PICK pf : pf = p \o f OBVIOUS
  <2>2. pf \o l \in Texts /\ Lacks(pf \o l, S)
    BY <1>2, <1>3, <1>7, <2>1, ConcatAt, ConcatLacks
  <2> QED BY <2>1, <2>2
<1>9. Left(v, d) = IF d = 0 /\ v.point THEN (p \o f) \o l ELSE g \o l
  BY <1>1 DEF Left
<1> QED BY <1>6, <1>8, <1>9 DEF S

(* The powers of ten that are used are positive. *)
LEMMA PowerIs == \A n \in 0..3 : 10^n \in Nat \ {0}
<1>1. \A n \in 0..3 : n = 0 \/ n = 1 \/ n = 2 \/ n = 3 OBVIOUS
<1>2. 10^0 \in Nat \ {0} /\ 10^1 \in Nat \ {0} /\ 10^2 \in Nat \ {0} /\ 10^3 \in Nat \ {0}
  BY Tens
<1> QED BY <1>1, <1>2

(* Scaling a number makes it no smaller, and keeps its sign and its being  *)
(* 0.                                                                      *)
LEMMA Magnified ==
  ASSUME NEW n \in Nat, NEW p \in Nat \ {0}
  PROVE  /\ n * p \in Nat /\ n <= n * p /\ (n * p = 0 <=> n = 0)
         /\ (1 * n) * p = n * p /\ ((-1) * n) * p = -(n * p)
<1>1. n * p \in Nat OBVIOUS
<1>2. (p - 1) \in Nat /\ n * (p - 1) \in Nat OBVIOUS
<1>3. n * p = n + n * (p - 1) OBVIOUS
<1>4. n <= n * p BY <1>1, <1>2, <1>3
<1>5. n * p = 0 <=> n = 0
  <2>1. n = 0 => n * p = 0 OBVIOUS
  <2> QED BY <1>1, <1>4, <2>1
<1>6. (1 * n) * p = n * p OBVIOUS
<1>7. (-1) * n = -n OBVIOUS
<1>8. (-n) * p = -(n * p) OBVIOUS
<1> QED BY <1>1, <1>4, <1>5, <1>6, <1>7, <1>8

(* The digits that are read, and what brings them to d decimals.           *)
Leading(v, d) == Number(LeadingDigits(Counted(v, d)))
Factor(v, d) == 10^(d - Len(Decimals(v, d)))

(* What they come to is a natural, and it is no more in an integer than in *)
(* thousandths.                                                            *)
LEMMA MagnitudeIs ==
  ASSUME NEW v, IsPrintedValue(v), NEW d, d \in {0, 3}
  PROVE  /\ Leading(v, d) \in Nat /\ Factor(v, d) \in Nat \ {0}
         /\ d - Len(Decimals(v, d)) \in 0..3
         /\ Magnitude(v, d) = Leading(v, d) * Factor(v, d)
         /\ Magnitude(v, d) \in Nat /\ Magnitude(v, 0) \in Nat
         /\ Magnitude(v, 0) <= Magnitude(v, 3)
<1>1. ASSUME NEW e, e \in {0, 3}
      PROVE  /\ Leading(v, e) \in Nat /\ Factor(v, e) \in Nat \ {0}
             /\ e - Len(Decimals(v, e)) \in 0..3
             /\ Magnitude(v, e) = Leading(v, e) * Factor(v, e)
             /\ Magnitude(v, e) \in Nat
  <2>1. e \in Nat BY <1>1
  <2>2. Counted(v, e) \in Texts /\ Len(Decimals(v, e)) \in Nat
        /\ Len(Decimals(v, e)) <= e
    BY <2>1, DecimalsAre
  <2>3. e - Len(Decimals(v, e)) \in 0..3 BY <1>1, <2>2
  <2>4. Leading(v, e) \in Nat BY <2>2, NumberOfLeading DEF Leading
  <2>5. Factor(v, e) \in Nat \ {0} BY <2>3, PowerIs DEF Factor
  <2>6. Magnitude(v, e) = Leading(v, e) * Factor(v, e)
    BY DEF Magnitude, Leading, Factor
  <2>7. PICK n, p : n = Leading(v, e) /\ p = Factor(v, e) OBVIOUS
  <2>8. n * p \in Nat BY <2>4, <2>5, <2>7, Magnified
  <2> QED BY <2>3, <2>4, <2>5, <2>6, <2>7, <2>8
<1>2. 0 \in {0, 3} /\ 3 \in {0, 3} OBVIOUS
<1>3. PICK n, p : n = Leading(v, 3) /\ p = Factor(v, 3) OBVIOUS
<1>4. n \in Nat /\ p \in Nat \ {0} /\ Magnitude(v, 3) = n * p BY <1>1, <1>2, <1>3
<1>5. n * p \in Nat /\ n <= n * p BY <1>4, Magnified
<1>6. Counted(v, 0) \in Texts /\ Decimals(v, 3) \in Texts /\ v.whole \in Texts
      /\ Decimals(v, 0) \in Texts /\ Len(Decimals(v, 0)) = 0
  <2>1. 0 \in Nat /\ 3 \in Nat /\ <<>> \in Texts BY NoText
  <2>2. Len(Decimals(v, 0)) \in Nat /\ Len(Decimals(v, 0)) <= 0 BY <2>1, DecimalsAre
  <2> QED BY <2>1, <2>2, DecimalsAre, PrintedParts
<1>7. Decimals(v, 0) = <<>> BY <1>6, NoText
<1>8. Counted(v, 0) = v.whole BY <1>6, <1>7, NoText DEF Counted
<1>9. Leading(v, 0) <= n
  <2>1. Number(LeadingDigits(v.whole)) <= Number(LeadingDigits(v.whole \o Decimals(v, 3)))
    BY <1>6, LeadingGrows
  <2> QED BY <1>3, <1>8, <2>1 DEF Leading, Counted
<1>10. Factor(v, 0) = 1
  <2>1. PICK k : k = 0 - Len(Decimals(v, 0)) OBVIOUS
  <2>2. k = 0 BY <1>6, <2>1
  <2>3. 10^k = 1 BY <2>2, Tens
  <2>4. Factor(v, 0) = 10^k BY <2>1, Zenon DEF Factor
  <2> QED BY <2>3, <2>4
<1>11. Magnitude(v, 0) = Leading(v, 0) /\ Leading(v, 0) \in Nat
  BY <1>1, <1>2, <1>10
<1>12. Magnitude(v, 0) <= Magnitude(v, 3) BY <1>4, <1>5, <1>9, <1>11
<1> QED BY <1>1, <1>2, <1>12

(* A result is n and what is left behind it, or it is none. *)
Gives(r, good, n, T) ==
  r = IF good THEN [ok |-> TRUE, val |-> n, rest |-> T, over |-> FALSE]
      ELSE Refused(FALSE)

ReadCharacters(d, text) == Whole(text) \o Fraction(d, text)

(* Something else than a digit among them refuses the value. *)
LEMMA BadCharacters ==
  ASSUME NEW v, IsPrintedValue(v), NEW T, T \in Texts, NEW d, d \in {0, 3},
         NEW unit, Magnitude(v, d) <= IntMax,
         Len(LeadingDigits(ReadCharacters(d, Printed(v, T))))
           < Len(ReadCharacters(d, Printed(v, T))),
         LeadingDigits(ReadCharacters(d, Printed(v, T)))
           = LeadingDigits(Counted(v, d))
  PROVE  parse_num(d, unit, Printed(v, T)) = Refused(FALSE)
<1>1. PICK t, cs, ds : /\ t = Printed(v, T) /\ cs = ReadCharacters(d, t)
                       /\ ds = LeadingDigits(cs)
  OBVIOUS
<1>2. ds \in Seq(Digits) /\ Number(ds) <= IntMax
  <2>1. d \in Nat OBVIOUS
  <2>2. Counted(v, d) \in Texts BY <2>1, DecimalsAre
  <2>3. ds = LeadingDigits(Counted(v, d)) BY <1>1
  <2>4. ds \in Seq(Digits) BY <2>2, <2>3, NumberOfLeading
  <2>5. Number(ds) = Leading(v, d) BY <2>3 DEF Leading
  <2>6. PICK n, p : n = Leading(v, d) /\ p = Factor(v, d) OBVIOUS
  <2>7. n \in Nat /\ p \in Nat \ {0} /\ Magnitude(v, d) = n * p /\ Magnitude(v, d) \in Nat
    BY <2>6, MagnitudeIs
  <2>8. n <= n * p /\ n * p \in Nat BY <2>7, Magnified
  <2>9. IntMax \in Nat BY IntBitsAssumption
  <2> QED BY <2>4, <2>5, <2>6, <2>7, <2>8, <2>9
<1>3. Accumulate(ds).over = FALSE BY <1>2, AccumulateReads
<1>4. Len(ds) < Len(cs) BY <1>1
<1>5. cs = Whole(t) \o Fraction(d, t) BY <1>1 DEF ReadCharacters
<1> QED BY <1>1, <1>3, <1>4, <1>5 DEF parse_num

(* Without, it is the unit that decides. *)
LEMMA GoodCharacters ==
  ASSUME NEW v, IsPrintedValue(v), NEW T, T \in Texts, NEW d, d \in {0, 3},
         NEW unit, IsUnitText(unit), Magnitude(v, d) <= IntMax,
         EndsNumber(v, d), AllDigits(Counted(v, d))
  PROVE  Gives(parse_num(d, unit, Printed(v, T)),
               EndsWithUnit(Left(v, d), unit, Number(Counted(v, d)) = 0),
               Amount(v, d), T)
<1>1. PICK t, cs, l, f, n, p :
        /\ t = Printed(v, T) /\ cs = Counted(v, d) /\ l = Left(v, d)
        /\ f = Fraction(d, t) /\ n = Number(cs) /\ p = Factor(v, d)
  OBVIOUS
<1>2. d \in Nat OBVIOUS
<1>3. /\ Whole(t) \o f = cs /\ f = Decimals(v, d)
      /\ \E a \in Texts : /\ t = a \o (l \o Closing(T))
                          /\ NumberEnd(d, t) = Len(a) + 1
  BY <1>1, <1>2, AllCharacterised DEF Characterised
<1>4. PICK a : a \in Texts /\ t = a \o (l \o Closing(T)) /\ NumberEnd(d, t) = Len(a) + 1
  BY <1>3
<1>5. cs \in Texts /\ LeadingDigits(cs) = cs /\ cs \in Seq(Digits)
  <2>1. cs \in Texts BY <1>1, <1>2, DecimalsAre
  <2>2. LeadingDigits(cs) = cs BY <1>1, <2>1, LeadingOfDigits
  <2> QED BY <2>1, <2>2, NumberOfLeading
<1>6. ~(Len(LeadingDigits(cs)) < Len(cs))
  <2>1. Len(cs) \in Nat BY <1>5, LenProperties DEF Texts
  <2> QED BY <1>5, <2>1
<1>7. n = Leading(v, d) BY <1>1, <1>5 DEF Leading
<1>8. n \in Nat /\ p \in Nat \ {0} /\ n * p <= IntMax /\ IntMax \in Nat
  <2>1. Leading(v, d) \in Nat /\ Factor(v, d) \in Nat \ {0}
        /\ Magnitude(v, d) = Leading(v, d) * Factor(v, d) /\ Magnitude(v, d) \in Nat
    BY MagnitudeIs
  <2>2. n * p = Magnitude(v, d) BY <1>1, <1>7, <2>1
  <2>3. n * p \in Int BY <2>1, <2>2
  <2>4. IntMax \in Nat BY IntBitsAssumption
  <2> QED BY <1>1, <1>7, <2>1, <2>2, <2>3, <2>4
<1>9. PICK k : k = d - Len(f) OBVIOUS
<1>10. k \in 0..3 /\ p = 10^k BY <1>1, <1>3, <1>9, MagnitudeIs DEF Factor
<1>11. Padding(d, f) = Zeros(k) BY <1>9 DEF Padding, Zeros
<1>12. PICK number : number = Accumulate(cs \o Padding(d, f)) OBVIOUS
<1>13. number = [value |-> n * p, over |-> FALSE]
  <2>1. cs \o Zeros(k) \in Seq(Digits) /\ Number(cs \o Zeros(k)) = Number(cs) * 10^k
    BY <1>5, <1>10, NumberOfPadded
  <2>2. PICK w : w = cs \o Zeros(k) OBVIOUS
  <2>3. w \in Seq(Digits) /\ Number(w) = n * p BY <1>1, <1>10, <2>1, <2>2
  <2>4. Number(w) <= IntMax BY <1>8, <2>3
  <2>5. Accumulate(w) = [value |-> Number(w), over |-> FALSE]
    BY <2>3, <2>4, AccumulateReads
  <2> QED BY <1>11, <1>12, <2>2, <2>3, <2>5
<1>14. PICK zero, close :
         /\ zero = (number.value = 0)
         /\ close = EndOfUnit(t, NumberEnd(d, t), unit, number.value = 0)
  OBVIOUS
<1>15. zero <=> n = 0
  <2>1. number.value = n * p BY <1>13
  <2> QED BY <1>8, <1>14, <2>1, Magnified
<1>16. /\ CharAt(t, close) = ")" <=> EndsWithUnit(l, unit, number.value = 0)
       /\ ClosesAt(t, close, T)
  <2>1. l \in Texts /\ Lacks(l, {")"}) BY <1>1, <1>2, LeftIs
  <2>2. close = EndOfUnit(t, Len(a) + 1, unit, number.value = 0) BY <1>4, <1>14
  <2>3. a \in Texts BY <1>4
  <2>4. LET text == a \o (l \o Closing(T))
            c == EndOfUnit(text, Len(a) + 1, unit, number.value = 0)
        IN  /\ CharAt(text, c) = ")" <=> EndsWithUnit(l, unit, number.value = 0)
            /\ ClosesAt(text, c, T)
    BY <2>1, <2>3, UnitEnds
  <2> QED BY <1>4, <2>2, <2>4
<1>17. EndsWithUnit(l, unit, number.value = 0) <=> EndsWithUnit(l, unit, n = 0)
  BY <1>14, <1>15 DEF EndsWithUnit
<1>18. CharAt(t, 1) = "(" /\ (t[2] = "-" <=> v.sign = <<"-">>)
       /\ v.sign \in {<<>>, <<"-">>}
  BY <1>1, SignStands, PrintedParts
<1>19. (IF t[2] = "-" THEN Wrapped(-number.value) ELSE number.value) = Amount(v, d)
  <2>1. number.value = n * p BY <1>13
  <2>2. Amount(v, d) = (Sign(v) * n) * p BY <1>1 DEF Amount, Factor
  <2>3. n * p \in Nat /\ (1 * n) * p = n * p /\ ((-1) * n) * p = -(n * p)
    BY <1>8, Magnified
  <2>4. Wrapped(-(n * p)) = -(n * p)
    <3>1. PICK m : m = -(n * p) OBVIOUS
    <3>2. m \in Int /\ Fits(m) BY <1>8, <2>3, <3>1 DEF Fits
    <3> QED BY <3>1, <3>2, WrappedFits
  <2>5. CASE v.sign = <<"-">>
    <3>1. Sign(v) = -1
      <4>1. <<"-">> # <<>> OBVIOUS
      <4> QED BY <2>5, <4>1 DEF Sign
    <3> QED BY <1>18, <2>1, <2>2, <2>3, <2>4, <2>5, <3>1
  <2>6. CASE v.sign = <<>>
    <3>1. <<"-">> # <<>> OBVIOUS
    <3>2. Sign(v) = 1 BY <2>6 DEF Sign
    <3> QED BY <1>18, <2>1, <2>2, <2>3, <2>6, <3>1, <3>2
  <2> QED BY <1>18, <2>5, <2>6
<1>20. parse_num(d, unit, t)
         = IF CharAt(t, close) # ")" THEN Refused(number.over)
           ELSE [ok |-> TRUE,
                 val |-> IF t[2] = "-" THEN Wrapped(-number.value) ELSE number.value,
                 rest |-> From(t, close + 1), over |-> number.over]
  <2>1. Whole(t) \o Fraction(d, t) = cs BY <1>1, <1>3
  <2> QED BY <1>1, <1>6, <1>5, <1>12, <1>14, <1>18, <2>1 DEF parse_num
<1>21. number.over = FALSE BY <1>13
<1> QED BY <1>1, <1>16, <1>17, <1>19, <1>20, <1>21 DEF Gives, ClosesAt

(* The value has the form of d and the unit: its digits count, they end    *)
(* it, and what is left is what the unit asks for.                         *)
LEMMA PrintsIs ==
  ASSUME NEW v, NEW d, NEW unit
  PROVE  Prints(v, d, unit)
           <=> /\ AllDigits(Counted(v, d)) /\ EndsNumber(v, d)
               /\ EndsWithUnit(Left(v, d), unit, Number(Counted(v, d)) = 0)
BY DEF Prints, EndsNumber, EndsWithUnit

(* parse_num reads what the value prints, and nothing else. *)
THEOREM NumbersAreRead ==
  ASSUME NEW v, IsPrintedValue(v), NEW T, T \in Texts, NEW d, d \in {0, 3},
         NEW unit, IsUnitText(unit), Magnitude(v, d) <= IntMax
  PROVE  Gives(parse_num(d, unit, Printed(v, T)), Prints(v, d, unit),
               Amount(v, d), T)
<1>1. PICK t, cs, rs : /\ t = Printed(v, T) /\ cs = Counted(v, d)
                       /\ rs = ReadCharacters(d, t)
  OBVIOUS
<1>2. d \in Nat OBVIOUS
<1>3. cs \in Texts BY <1>1, <1>2, DecimalsAre
<1>4. /\ EndsNumber(v, d) => rs = cs
      /\ ~EndsNumber(v, d) =>
           \E x \in Texts : x # <<>> /\ x[1] \notin Digits /\ rs = cs \o x
  BY <1>1, <1>2, AllCharacterised DEF Characterised, ReadCharacters
<1>5. Len(cs) \in Nat /\ Len(LeadingDigits(cs)) \in 0..Len(cs)
  BY <1>3, NumberOfLeading, LenProperties DEF Texts
<1>6. CASE EndsNumber(v, d) /\ AllDigits(cs)
  <2>1. Gives(parse_num(d, unit, t),
              EndsWithUnit(Left(v, d), unit, Number(cs) = 0), Amount(v, d), T)
    BY <1>1, <1>6, GoodCharacters
  <2>2. Prints(v, d, unit) <=> EndsWithUnit(Left(v, d), unit, Number(cs) = 0)
    BY <1>1, <1>6, PrintsIs
  <2> QED BY <1>1, <2>1, <2>2 DEF Gives
<1>7. CASE EndsNumber(v, d) /\ ~AllDigits(cs)
  <2>1. Len(LeadingDigits(cs)) # Len(cs) BY <1>3, <1>7, LeadingOfDigits
  <2>2. Len(LeadingDigits(cs)) < Len(cs) BY <1>5, <2>1
  <2>3. parse_num(d, unit, t) = Refused(FALSE)
    BY <1>1, <1>4, <1>7, <2>2, BadCharacters
  <2>4. ~Prints(v, d, unit) BY <1>1, <1>7, PrintsIs
  <2> QED BY <1>1, <2>3, <2>4 DEF Gives
<1>8. CASE ~EndsNumber(v, d)
  <2>1. PICK x : x \in Texts /\ x # <<>> /\ x[1] \notin Digits /\ rs = cs \o x
    BY <1>4, <1>8
  <2>2. LeadingDigits(rs) = LeadingDigits(cs) BY <1>3, <2>1, LeadingOfConcat
  <2>3. Len(rs) = Len(cs) + Len(x) /\ Len(x) \in Nat /\ 1 <= Len(x)
    <3>1. x \in Texts BY <2>1
    <3>2. Len(x) \in Nat /\ Len(cs \o x) = Len(cs) + Len(x) BY <1>3, <3>1, ConcatAt
    <3> QED BY <2>1, <3>2, NoText
  <2>4. Len(LeadingDigits(rs)) < Len(rs) BY <1>5, <2>2, <2>3
  <2>5. parse_num(d, unit, t) = Refused(FALSE)
    BY <1>1, <2>2, <2>4, BadCharacters
  <2>6. ~Prints(v, d, unit) BY <1>8, PrintsIs
  <2> QED BY <1>1, <2>5, <2>6 DEF Gives
<1> QED BY <1>6, <1>7, <1>8

(* Nothing is read from an empty text. *)
LEMMA NothingToRead ==
  ASSUME NEW d, NEW unit
  PROVE  parse_num(d, unit, <<>>) = Refused(FALSE)
<1>1. CharAt(<<>>, 1) = "" BY NoText, FirstChar
<1> QED BY <1>1 DEF parse_num

(* A result whose overflow is set to what it was is the same. *)
LEMMA SetOver ==
  ASSUME NEW good, NEW n, NEW T, NEW over
  PROVE  [[ok |-> good, val |-> n, rest |-> T, over |-> over] EXCEPT !.over = over]
           = [ok |-> good, val |-> n, rest |-> T, over |-> over]
OBVIOUS

(* A value in one unit or in the other. *)
LEMMA FloatOrIntGives ==
  ASSUME NEW v, IsPrintedValue(v), NEW T, T \in Texts, NEW unit, IsUnitText(unit),
         NEW int_unit, IsUnitText(int_unit), Magnitude(v, 3) <= IntMax
  PROVE  Gives(parse_float_or_int(3, unit, int_unit, Printed(v, T)),
               Prints(v, 3, unit) \/ Prints(v, 0, int_unit),
               IF Prints(v, 3, unit) THEN Amount(v, 3) ELSE Amount(v, 0), T)
<1>1. PICK t, float, integer : /\ t = Printed(v, T)
                               /\ float = parse_num(3, unit, t)
                               /\ integer = parse_num(0, int_unit, t)
  OBVIOUS
<1>2. Gives(float, Prints(v, 3, unit), Amount(v, 3), T)
  <2>1. 3 \in {0, 3} OBVIOUS
  <2> QED BY <1>1, <2>1, NumbersAreRead
<1>3. Gives(integer, Prints(v, 0, int_unit), Amount(v, 0), T)
  <2>1. 0 \in {0, 3} /\ 3 \in {0, 3} OBVIOUS
  <2>2. Magnitude(v, 0) \in Nat /\ Magnitude(v, 3) \in Nat
        /\ Magnitude(v, 0) <= Magnitude(v, 3) /\ IntMax \in Nat
    BY <2>1, MagnitudeIs, IntBitsAssumption
  <2>3. Magnitude(v, 0) <= IntMax BY <2>2
  <2> QED BY <1>1, <2>1, <2>3, NumbersAreRead
<1>4. parse_float_or_int(3, unit, int_unit, t)
        = IF float.ok THEN float ELSE [integer EXCEPT !.over = @ \/ float.over]
  BY <1>1 DEF parse_float_or_int
<1>5. CASE Prints(v, 3, unit)
  <2>1. float = [ok |-> TRUE, val |-> Amount(v, 3), rest |-> T, over |-> FALSE]
    BY <1>2, <1>5 DEF Gives
  <2> QED BY <1>1, <1>4, <1>5, <2>1 DEF Gives
<1>6. CASE ~Prints(v, 3, unit)
  <2>1. float = Refused(FALSE) BY <1>2, <1>6 DEF Gives
  <2>2. float.ok = FALSE /\ float.over = FALSE BY <2>1 DEF Refused
  <2>3. CASE Prints(v, 0, int_unit)
    <3>1. integer = [ok |-> TRUE, val |-> Amount(v, 0), rest |-> T, over |-> FALSE]
      BY <1>3, <2>3 DEF Gives
    <3>2. [integer EXCEPT !.over = @ \/ float.over] = integer
      <4>1. integer.over = FALSE BY <3>1
      <4>2. (integer.over \/ float.over) = FALSE BY <2>2, <4>1, Zenon
      <4>3. [integer EXCEPT !.over = FALSE] = integer BY <3>1, SetOver, Zenon
      <4> QED BY <4>2, <4>3, Zenon
    <3> QED BY <1>1, <1>4, <1>6, <2>2, <2>3, <3>1, <3>2 DEF Gives
  <2>4. CASE ~Prints(v, 0, int_unit)
    <3>1. integer = Refused(FALSE) BY <1>3, <2>4 DEF Gives
    <3>2. [integer EXCEPT !.over = @ \/ float.over] = integer
      <4>1. integer.over = FALSE BY <3>1 DEF Refused
      <4>2. (integer.over \/ float.over) = FALSE BY <2>2, <4>1, Zenon
      <4>3. [integer EXCEPT !.over = FALSE] = integer
        BY <3>1, SetOver, Zenon DEF Refused
      <4> QED BY <4>2, <4>3, Zenon
    <3> QED BY <1>1, <1>4, <1>6, <2>2, <2>4, <3>1, <3>2 DEF Gives
  <2> QED BY <2>3, <2>4
<1> QED BY <1>5, <1>6

-----------------------------------------------------------------------------
(* parse_string, and the values of a line one after the other. *)

(* A character is none of the others. *)
LEMMA SingleLacks ==
  ASSUME NEW c, c \in Characters, NEW S, c \notin S
  PROVE  Lacks(<<c>>, S)
<1>1. <<c>> \in Texts /\ Len(<<c>>) = 1 /\ <<c>>[1] = c BY OneCharacter
<1>2. DOMAIN <<c>> = 1..1 BY <1>1, LenProperties DEF Texts
<1>3. \A i \in DOMAIN <<c>> : i = 1 BY <1>2
<1> QED BY <1>1, <1>3 DEF Lacks

(* Within its brackets a value has no bracket. *)
LEMMA BodyLacks ==
  ASSUME NEW v, IsPrintedValue(v)
  PROVE  Lacks(Body(v), {")"})
<1> DEFINE S == {")"}
<1>1. PICK s, w, p, f, l : /\ s = v.sign /\ w = v.whole /\ p = Point(v)
                           /\ f = v.fraction /\ l = v.tail
  OBVIOUS
<1>2. s \in Texts /\ w \in Texts /\ p \in Texts /\ f \in Texts /\ l \in Texts
  BY <1>1, NoText, PrintedParts
<1>3. Lacks(w, S) /\ Lacks(f, S) /\ Lacks(l, S)
  BY <1>1 DEF IsPrintedValue, Lacks
<1>4. "-" \in Characters /\ "." \in Characters /\ "-" \notin S /\ "." \notin S
  BY NamedCharacters
<1> HIDE DEF S
<1>5. Lacks(<<>>, S)
  <2>1. DOMAIN <<>> = {} OBVIOUS
  <2> QED BY <2>1 DEF Lacks
<1>6. Lacks(s, S)
  <2>1. s \in {<<>>, <<"-">>} BY <1>1, NoText, PrintedParts
  <2> QED BY <1>4, <1>5, <2>1, SingleLacks
<1>7. Lacks(p, S) BY <1>1, <1>4, <1>5, SingleLacks DEF Point
<1>8. PICK sw, swp, swpf : sw = s \o w /\ swp = sw \o p /\ swpf = swp \o f OBVIOUS
<1>9. sw \in Texts /\ Lacks(sw, S) BY <1>2, <1>3, <1>6, <1>8, ConcatAt, ConcatLacks
<1>10. swp \in Texts /\ Lacks(swp, S) BY <1>2, <1>7, <1>8, <1>9, ConcatAt, ConcatLacks
<1>11. swpf \in Texts /\ Lacks(swpf, S)
  BY <1>2, <1>3, <1>8, <1>10, ConcatAt, ConcatLacks
<1>12. Lacks(swpf \o l, S) BY <1>2, <1>3, <1>11, ConcatLacks
<1> QED BY <1>1, <1>8, <1>12, BodyIs DEF S

(* What follows a value does not begin with a bracket that closes. *)
Continues(T) == T \in Texts /\ ~Begins(T, {")"})

NoString == [ok |-> FALSE, val |-> <<>>, rest |-> <<>>]
GivesText(r, good, s, T) ==
  r = IF good THEN [ok |-> TRUE, val |-> s, rest |-> T] ELSE NoString

(* parse_string returns what stands within the brackets, when its length   *)
(* is allowed.                                                             *)
LEMMA ParseStringGives ==
  ASSUME NEW v, IsPrintedValue(v), NEW T, Continues(T),
         NEW min \in Nat, NEW max \in Nat
  PROVE  GivesText(parse_string(min, max, Printed(v, T)),
                   IsString(v, min..max), Body(v), T)
<1>0. T \in Texts BY DEF Continues
<1>1. PICK t, a, b, c, n : /\ t = Printed(v, T) /\ a = <<"(">> /\ b = Body(v)
                           /\ c = Closing(T) /\ n = Len(b)
  OBVIOUS
<1>2. PICK bc : bc = b \o c OBVIOUS
<1>3. /\ a \in Texts /\ Len(a) = 1 /\ a[1] = "("
      /\ b \in Texts /\ c \in Texts /\ t = a \o bc /\ t \in Texts
  <2>1. "(" \in Characters BY NamedCharacters
  <2>2. a \in Texts /\ Len(a) = 1 /\ a[1] = "(" BY <1>1, <2>1, OneCharacter
  <2>3. c \in Texts BY <1>0, <1>1, PrintedParts
  <2>4. t = a \o bc /\ t \in Texts BY <1>0, <1>1, <1>2, Layout
  <2> QED BY <1>1, <2>2, <2>3, <2>4, BodyIs
<1>4. /\ bc \in Texts /\ n \in Nat /\ Len(bc) = n + (1 + Len(T)) /\ Len(T) \in Nat
      /\ \A i \in 1..n : bc[i] = b[i] /\ b[i] # ")"
      /\ bc[n + 1] = ")"
  <2>1. b \in Texts /\ Lacks(b, {")"}) BY <1>1, <1>3, BodyLacks
  <2> QED BY <1>0, <1>1, <1>2, <2>1, LeftEnds
<1>5. /\ Len(t) = 1 + Len(bc) /\ t[1] = "("
      /\ \A i \in 1..Len(bc) : t[1 + i] = bc[i]
  <2>1. a \in Texts /\ bc \in Texts BY <1>3, <1>4
  <2>2. /\ Len(a \o bc) = Len(a) + Len(bc)
        /\ \A i \in 1..Len(a) : (a \o bc)[i] = a[i]
        /\ \A i \in 1..Len(bc) : (a \o bc)[Len(a) + i] = bc[i]
    BY <2>1, ConcatAt
  <2>3. 1 \in 1..Len(a) BY <1>3
  <2> QED BY <1>3, <2>2, <2>3
<1>6. Len(t) = (n + 2) + Len(T) BY <1>4, <1>5
<1>7. t[n + 2] = ")" /\ \A i \in 2..(n + 1) : t[i] # ")"
  <2>1. n + 1 \in 1..Len(bc) /\ 1 + (n + 1) = n + 2 BY <1>4
  <2>2. ASSUME NEW i \in 2..(n + 1) PROVE t[i] # ")"
    <3>1. i - 1 \in 1..n /\ i - 1 \in 1..Len(bc) /\ 1 + (i - 1) = i BY <1>4, <2>2
    <3> QED BY <1>4, <1>5, <3>1
  <2> QED BY <1>4, <1>5, <2>1, <2>2
<1>14. a \in Texts /\ b \in Texts /\ bc \in Texts BY <1>3, <1>4
<1>10. SubSeq(t, 2, (n + 2) - 1) = b
  <2>1. 1 \in Nat \ {0} /\ n <= Len(bc) /\ n \in Nat BY <1>4
  <2>2. SubSeq(a \o bc, Len(a) + 1, Len(a) + n) = SubSeq(bc, 1, n)
    BY <1>14, <2>1, PartBehind
  <2>3. SubSeq(bc, 1, n) = b
    <3>1. SubSeq(b \o c, 1, Len(b)) = b BY <1>3, PrefixOf
    <3> QED BY <1>1, <1>2, <3>1
  <2>4. Len(a) + 1 = 2 /\ Len(a) + n = (n + 2) - 1 BY <1>3, <1>4
  <2> QED BY <1>3, <2>2, <2>3, <2>4
<1>11. From(t, (n + 2) + 1) = T
  <2>1. From(a \o (b \o Closing(T)), (Len(a) + (Len(b) + 1)) + 1) = T
    BY <1>0, <1>14, AfterLeft
  <2>2. (Len(a) + (Len(b) + 1)) + 1 = (n + 2) + 1 BY <1>1, <1>3, <1>4
  <2> QED BY <1>1, <1>2, <1>3, <2>1, <2>2
<1> DEFINE closing == {i \in 2..Len(t) : t[i] = ")"}
           last == IF n + 2 < Len(t) /\ t[(n + 2) + 1] = ")" THEN (n + 2) + 1 ELSE n + 2
<1>8. n + 2 \in closing /\ Min(closing) = n + 2
  <2>1. n + 2 \in closing BY <1>4, <1>6, <1>7
  <2>2. closing \subseteq Int /\ \A i \in closing : n + 2 <= i
    <3>1. closing \subseteq Int BY <1>4, <1>6
    <3>2. ASSUME NEW i \in closing PROVE n + 2 <= i
      <4>1. i \in 2..Len(t) /\ t[i] = ")" OBVIOUS
      <4>2. i \notin 2..(n + 1) BY <1>7, <4>1
      <4> QED BY <1>4, <1>6, <4>1, <4>2
    <3> QED BY <3>1, <3>2
  <2> HIDE DEF closing
  <2> QED BY <2>1, <2>2, MinIs
<1>9. last = n + 2
  <2>1. ASSUME n + 2 < Len(t) PROVE t[(n + 2) + 1] # ")"
    <3>1. 1 <= Len(T) BY <1>4, <1>6, <2>1
    <3>2. T # <<>> /\ T[1] # ")" BY <1>0, <3>1, NoText DEF Continues, Begins
    <3>3. CharAt(t, (n + 2) + 1) = T[1]
      <4>4. PICK m, e : m = (n + 2) + 1 /\ e = Len(t) OBVIOUS
      <4>5. m \in Nat \ {0} /\ e \in Nat /\ m <= e
            /\ 1 \in 1..(e - m + 1) /\ m + 1 - 1 = m
        BY <1>4, <1>6, <2>1, <4>4
      <4>6. e <= Len(t) BY <4>4, <4>5
      <4>7. SubSeq(t, m, e)[1] = t[m + 1 - 1] BY <1>3, <4>5, <4>6, PartOf
      <4>8. t[m] = T[1] BY <1>11, <4>4, <4>5, <4>7 DEF From
      <4>9. m \in DOMAIN t
        <5>1. DOMAIN t = 1..Len(t) BY <1>3, LenProperties DEF Texts
        <5> QED BY <4>4, <4>5, <5>1
      <4> QED BY <4>4, <4>8, <4>9 DEF CharAt
    <3>4. (n + 2) + 1 \in DOMAIN t
      <4>1. DOMAIN t = 1..Len(t) BY <1>3, LenProperties DEF Texts
      <4> QED BY <1>4, <1>6, <2>1, <4>1
    <3> QED BY <3>2, <3>3, <3>4 DEF CharAt
  <2> QED BY <2>1
<1>12. Len(t) > 0 /\ closing # {} /\ (n + 2) - 2 = n BY <1>4, <1>6, <1>8
<1>13. parse_string(min, max, t)
         = IF n \in min..max
           THEN [ok |-> TRUE, val |-> SubSeq(t, 2, (n + 2) - 1),
                 rest |-> From(t, (n + 2) + 1)]
           ELSE NoString
  <2>1. parse_string(min, max, t)
          = IF Len(t) > 0 /\ t[1] = "(" /\ closing # {} /\ last - 2 \in min..max
            THEN [ok |-> TRUE, val |-> SubSeq(t, 2, last - 1),
                  rest |-> From(t, last + 1)]
            ELSE NoString
    BY <1>8, Zenon DEF parse_string, NoString
  <2> HIDE DEF last, closing
  <2> QED BY <1>5, <1>9, <1>12, <2>1
<1> QED BY <1>1, <1>10, <1>11, <1>13 DEF GivesText, IsString

(* It returns nothing when nothing is left. *)
LEMMA NoStringToRead ==
  ASSUME NEW min, NEW max
  PROVE  parse_string(min, max, <<>>) = NoString
<1>1. ~(Len(<<>>) > 0) BY NoText
<1> QED BY <1>1 DEF parse_string, NoString

(* A line of printed values. *)
IsLine(l) == l \in Seq(PrintedValues) /\ \A i \in 1..Len(l) : IsPrintedValue(l[i])

(* The recursion of TextAfter. *)
TextsFrom(l, text) ==
  text = [i \in 0..Len(l) |-> IF i = Len(l) THEN <<>>
                              ELSE Printed(l[i + 1], text[i + 1])]

(* The text of a line is built up from its last value. *)
LEMMA TextsExist ==
  ASSUME NEW l, IsLine(l)
  PROVE  \E text : TextsFrom(l, text)
<1>1. PICK k : k = Len(l) OBVIOUS
<1>2. k \in Nat /\ \A i \in 1..k : IsPrintedValue(l[i])
  BY <1>1, LenProperties DEF IsLine
<1> DEFINE step == [j \in 1..k |-> [x \in Texts |-> Printed(l[k - j + 1], x)]]
<1>3. step \in [1..k -> [Texts -> Texts]]
  <2>1. ASSUME NEW j \in 1..k, NEW x \in Texts
        PROVE  Printed(l[k - j + 1], x) \in Texts
    <3>1. k - j + 1 \in 1..k BY <1>2
    <3>2. IsPrintedValue(l[k - j + 1]) BY <1>2, <3>1
    <3> QED BY <3>2, Layout
  <2> QED BY <2>1
<1>4. \A j \in 1..k : \A x \in Texts : step[j][x] = Printed(l[k - j + 1], x)
  OBVIOUS
<1> HIDE DEF step
<1>5. PICK g : Recursion(g, Texts, <<>>, k, step)
  <2>1. <<>> \in Texts BY NoText
  <2> QED BY <1>2, <1>3, <2>1, RecursionExists
<1>6. /\ g[0] = <<>>
      /\ \A j \in 1..k : g[j] = Printed(l[k - j + 1], g[j - 1])
  <2>1. g = [j \in 0..k |-> IF j = 0 THEN <<>> ELSE step[j][g[j - 1]]]
        /\ g \in [0..k -> Texts]
    BY <1>5 DEF Recursion
  <2>2. 0 \in 0..k BY <1>2
  <2>3. ASSUME NEW j \in 1..k PROVE g[j] = Printed(l[k - j + 1], g[j - 1])
    <3>1. j \in 0..k /\ j # 0 /\ j - 1 \in 0..k BY <1>2
    <3>2. g[j] = step[j][g[j - 1]] /\ g[j - 1] \in Texts BY <2>1, <3>1
    <3> QED BY <1>4, <3>2
  <2> QED BY <2>1, <2>2, <2>3
<1> DEFINE text == [i \in 0..k |-> g[k - i]]
<1>7. ASSUME NEW i \in 0..k
      PROVE  text[i] = IF i = k THEN <<>> ELSE Printed(l[i + 1], text[i + 1])
  <2>1. CASE i = k
    <3>1. text[i] = g[k - i] /\ k - i = 0 BY <1>2, <2>1
    <3> QED BY <1>6, <2>1, <3>1
  <2>2. CASE i # k
    <3>1. k - i \in 1..k /\ i + 1 \in 0..k /\ k - (k - i) + 1 = i + 1
          /\ (k - i) - 1 = k - (i + 1)
      BY <1>2, <2>2
    <3>2. g[k - i] = Printed(l[k - (k - i) + 1], g[(k - i) - 1]) BY <1>6, <3>1
    <3>3. text[i] = g[k - i] /\ text[i + 1] = g[k - (i + 1)] BY <3>1
    <3> QED BY <2>2, <3>1, <3>2, <3>3
  <2> QED BY <2>1, <2>2
<1>8. text = [i \in 0..k |-> text[i]] OBVIOUS
<1> HIDE DEF text
<1>9. TextsFrom(l, text) BY <1>1, <1>7, <1>8 DEF TextsFrom
<1> QED BY <1>9

(* The text after n values is the next value and the text after that. *)
LEMMA TextAfterIs ==
  ASSUME NEW l, IsLine(l)
  PROVE  /\ TextAfter(l, Len(l)) = <<>>
         /\ \A n \in 0..Len(l) : n # Len(l) =>
              TextAfter(l, n) = Printed(l[n + 1], TextAfter(l, n + 1))
<1> DEFINE text == CHOOSE x : TextsFrom(l, x)
<1>1. TextsFrom(l, text) BY TextsExist
<1>2. \A n : TextAfter(l, n) = text[n] BY DEF TextAfter, TextsFrom, Printed
<1> HIDE DEF text
<1>3. Len(l) \in Nat BY LenProperties DEF IsLine
<1>4. \A n \in 0..Len(l) : text[n] = IF n = Len(l) THEN <<>>
                                     ELSE Printed(l[n + 1], text[n + 1])
  BY <1>1 DEF TextsFrom
<1>5. Len(l) \in 0..Len(l) BY <1>3
<1> QED BY <1>2, <1>4, <1>5

(* The text of a value begins with a bracket and is longer than what       *)
(* follows it.                                                             *)
LEMMA FirstPrinted ==
  ASSUME NEW v, IsPrintedValue(v), NEW T, T \in Texts
  PROVE  /\ Printed(v, T) \in Texts /\ Continues(Printed(v, T)) /\ Printed(v, T) # <<>>
         /\ Len(Printed(v, T)) >= Len(T) + 2 /\ Len(T) \in Nat
<1>1. PICK t, a, b, c, bc : /\ t = Printed(v, T) /\ a = <<"(">> /\ b = Body(v)
                            /\ c = Closing(T) /\ bc = b \o c
  OBVIOUS
<1>2. "(" \in Characters BY NamedCharacters
<1>3. a \in Texts /\ Len(a) = 1 BY <1>1, <1>2, OneCharacter
<1>4. b \in Texts /\ c \in Texts /\ t \in Texts /\ t = a \o bc /\ Len(c) = 1 + Len(T)
  <2>1. c \in Texts /\ Len(c) = 1 + Len(T) BY <1>1, PrintedParts
  <2> QED BY <1>1, <2>1, BodyIs, Layout
<1>5. b \in Texts /\ c \in Texts BY <1>4
<1>6. Len(b) \in Nat /\ bc \in Texts /\ Len(bc) = Len(b) + Len(c)
  BY <1>1, <1>5, ConcatAt
<1>7. Len(t) = Len(a) + Len(bc)
  <2>1. a \in Texts /\ bc \in Texts BY <1>3, <1>6
  <2> QED BY <1>4, <2>1, ConcatAt
<1>8. Len(T) \in Nat BY LenProperties DEF Texts
<1>9. Len(t) >= Len(T) + 2 BY <1>3, <1>4, <1>6, <1>7, <1>8
<1>10. t[1] = "(" /\ t # <<>>
  <2>1. bc \in Texts BY <1>6
  <2>2. (<<"(">> \o bc)[1] = "(" /\ <<"(">> \o bc # <<>> BY <1>2, <2>1, OneCharacter
  <2> QED BY <1>1, <1>4, <2>2
<1>11. Continues(t) BY <1>4, <1>10 DEF Continues, Begins
<1> QED BY <1>1, <1>4, <1>8, <1>9, <1>10, <1>11

(* What is left of a line is a text, and no shorter than its values.       *)
LEMMA TextAfterIsText ==
  ASSUME NEW l, IsLine(l), NEW n, n \in 0..Len(l)
  PROVE  /\ TextAfter(l, n) \in Texts /\ Continues(TextAfter(l, n))
         /\ TextAfter(l, n) = <<>> <=> n = Len(l)
         /\ Len(TextAfter(l, n)) \in Nat /\ Len(TextAfter(l, n)) >= Len(l) - n
<1>1. PICK k : k = Len(l) OBVIOUS
<1>2. k \in Nat /\ \A i \in 1..k : IsPrintedValue(l[i])
  BY <1>1, LenProperties DEF IsLine
<1>3. /\ TextAfter(l, k) = <<>>
      /\ \A m \in 0..k : m # k =>
           TextAfter(l, m) = Printed(l[m + 1], TextAfter(l, m + 1))
  BY <1>1, TextAfterIs
<1> DEFINE P(m) == /\ TextAfter(l, m) \in Texts /\ Continues(TextAfter(l, m))
                   /\ TextAfter(l, m) = <<>> <=> m = k
                   /\ Len(TextAfter(l, m)) \in Nat /\ Len(TextAfter(l, m)) >= k - m
           T == {j \in 0..k : ~P(k - j)}
<1>4. 0 \notin T
  <2>1. k - 0 = k BY <1>2
  <2>2. Continues(<<>>) BY NoText DEF Continues, Begins
  <2>3. P(k)
    <3>1. Len(<<>>) \in Nat /\ Len(<<>>) >= k - k BY <1>2, NoText
    <3> QED BY <1>3, <2>2, <3>1, NoText
  <2> HIDE DEF P
  <2> QED BY <2>1, <2>3
<1>5. ASSUME NEW j \in T, j # 0 PROVE j - 1 \in T
  <2>1. j \in 1..k /\ ~P(k - j) BY <1>5
  <2> SUFFICES ASSUME P(k - (j - 1)) PROVE FALSE
    <3>1. j - 1 \in 0..k BY <1>2, <2>1
    <3> HIDE DEF P
    <3> QED BY <3>1
  <2>2. PICK m : m = k - j OBVIOUS
  <2>3. m \in 0..k /\ m # k /\ m + 1 = k - (j - 1) /\ m + 1 \in 1..k
    BY <1>2, <2>1, <2>2
  <2>4. PICK t, u : t = TextAfter(l, m) /\ u = TextAfter(l, m + 1) OBVIOUS
  <2>5. u \in Texts /\ Len(u) \in Nat /\ Len(u) >= k - (m + 1) BY <2>3, <2>4
  <2>6. t = Printed(l[m + 1], u) BY <1>3, <2>3, <2>4
  <2>7. IsPrintedValue(l[m + 1]) BY <1>2, <2>3
  <2>8. t \in Texts /\ Continues(t) /\ t # <<>> /\ Len(t) >= Len(u) + 2
    <3>1. u \in Texts BY <2>5
    <3> QED BY <2>6, <2>7, <3>1, FirstPrinted
  <2>9. Len(t) \in Nat BY <2>8, LenProperties DEF Texts
  <2>10. Len(t) >= k - m BY <1>2, <2>3, <2>5, <2>8, <2>9
  <2>11. P(m) BY <2>3, <2>4, <2>8, <2>9, <2>10
  <2> QED BY <2>1, <2>2, <2>11
<1>6. T = {}
  <2>1. T \subseteq Nat BY <1>2
  <2> HIDE DEF T
  <2> QED BY <1>4, <1>5, <2>1, NoLeast
<1>7. P(n)
  <2>1. PICK j : j = k - n OBVIOUS
  <2>2. n \in 0..k BY <1>1
  <2>3. j \in 0..k /\ k - j = n BY <1>2, <2>1, <2>2
  <2> HIDE DEF P
  <2> QED BY <1>6, <2>3
<1> QED BY <1>1, <1>7

(* One more value of a line. *)
LEMMA NextValue ==
  ASSUME NEW l, IsLine(l), NEW n, n \in 1..Len(l)
  PROVE  /\ IsPrintedValue(l[n])
         /\ TextAfter(l, n - 1) = Printed(l[n], TextAfter(l, n))
         /\ TextAfter(l, n) \in Texts /\ Continues(TextAfter(l, n))
<1>1. Len(l) \in Nat /\ n \in 0..Len(l) /\ n - 1 \in 0..Len(l) /\ n - 1 # Len(l)
      /\ (n - 1) + 1 = n
  BY LenProperties DEF IsLine
<1>2. TextAfter(l, n - 1) = Printed(l[(n - 1) + 1], TextAfter(l, (n - 1) + 1))
  BY <1>1, TextAfterIs
<1>3. TextAfter(l, n) \in Texts /\ Continues(TextAfter(l, n))
  BY <1>1, TextAfterIsText
<1> QED BY <1>1, <1>2, <1>3 DEF IsLine

-----------------------------------------------------------------------------
(* The kinds of fields: each returns what its line says. *)

(* A largest element is the one that Max gives. *)
LEMMA MaxIs ==
  ASSUME NEW T, NEW x \in T, T \subseteq Int, \A y \in T : x >= y
  PROVE  Max(T) = x
<1>1. \A y \in T : (\A z \in T : y >= z) => y = x OBVIOUS
<1> QED BY <1>1 DEF Max

(* The summands of a line are naturals, one to a value. *)
LEMMA SummandsOfLine ==
  ASSUME NEW l, IsLine(l), NEW f
  PROVE  /\ Summands(f, l) \in Seq(Nat) /\ Summands(f, l) \in Seq(Int)
         /\ Len(Summands(f, l)) = Len(l) /\ Len(l) \in Nat
         /\ \A i \in 1..Len(l) :
              i \in Numbers(f, l)
                => Summands(f, l)[i] = Magnitude(l[i], MaxDecimals(f))
<1>1. Len(l) \in Nat /\ \A i \in 1..Len(l) : IsPrintedValue(l[i])
  BY LenProperties DEF IsLine
<1>2. MaxDecimals(f) \in {0, 3} BY DEF MaxDecimals
<1>3. \A i \in 1..Len(l) : Magnitude(l[i], MaxDecimals(f)) \in Nat
  BY <1>1, <1>2, MagnitudeIs
<1> DEFINE s == [i \in 1..Len(l) |-> IF i \in Numbers(f, l)
                                     THEN Magnitude(l[i], MaxDecimals(f)) ELSE 0]
<1>4. s \in [1..Len(l) -> Nat] BY <1>3
<1>5. s \in Seq(Nat) BY <1>1, <1>4
<1>6. Len(s) = Len(l) BY <1>1
<1>7. s \in Seq(Int)
  <2>1. s \in [1..Len(l) -> Int] BY <1>3
  <2> QED BY <1>1, <2>1
<1>8. \A i \in 1..Len(l) : i \in Numbers(f, l) => s[i] = Magnitude(l[i], MaxDecimals(f))
  OBVIOUS
<1> QED BY <1>1, <1>5, <1>6, <1>7, <1>8 DEF Summands

(* The sums of the summands up to each value of a small line. *)
RunningSummands(t, f, l) ==
  /\ \A i \in 0..Len(l) : t[i] \in Nat /\ t[i] <= IntMax
  /\ \A i \in 1..Len(l) : t[i] = t[i - 1] + Summands(f, l)[i]
  /\ \A j \in 0..Len(l) : \A i \in 0..j : t[i] <= t[j]

(* They fit when all of them together do, and so does each number.         *)
LEMMA SmallLine ==
  ASSUME NEW l, IsLine(l), NEW f, Small(f, l), HasCount(f, l)
  PROVE  /\ \E t : RunningSummands(t, f, l)
         /\ \A i \in 1..Len(l) :
              i \in Numbers(f, l) => Magnitude(l[i], MaxDecimals(f)) <= IntMax
<1>1. PICK s, k : s = Summands(f, l) /\ k = Len(l) OBVIOUS
<1>2. s \in Seq(Nat) /\ s \in Seq(Int) /\ Len(s) = k /\ k \in Nat
      /\ \A i \in 1..k :
           i \in Numbers(f, l) => s[i] = Magnitude(l[i], MaxDecimals(f))
  BY <1>1, SummandsOfLine
<1>3. Fits(Total(s)) BY <1>1 DEF Small
<1>4. PICK t : PartialSums(t, s) /\ Total(s) = t[Len(s)]
  <2>1. s \in Seq(Int) BY <1>2
  <2> QED BY <2>1, TotalIs
<1>5. /\ \A j \in 0..Len(s) : \A i \in 0..j : 0 <= t[i] /\ t[i] <= t[j]
      /\ \A i \in 1..Len(s) : s[i] <= t[Len(s)]
  <2>1. s \in Seq(Nat) /\ PartialSums(t, s) BY <1>2, <1>4
  <2> QED BY <2>1, TotalBounds
<1>6. t[k] <= IntMax /\ \A i \in 0..k : t[i] \in Int
  BY <1>2, <1>3, <1>4 DEF Fits, PartialSums
<1>7. IntMax \in Nat BY IntBitsAssumption
<1>8. \A i \in 0..k : t[i] \in Nat /\ t[i] <= IntMax
  <2> TAKE i \in 0..k
  <2>1. k \in 0..k /\ i \in 0..k BY <1>2
  <2>2. 0 <= t[i] /\ t[i] <= t[k] /\ t[i] \in Int /\ t[k] \in Int
    BY <1>2, <1>5, <1>6, <2>1
  <2> QED BY <1>6, <1>7, <2>2
<1>9. \A i \in 1..k : t[i] = t[i - 1] + s[i] BY <1>2, <1>4 DEF PartialSums
<1>10. ASSUME NEW i \in 1..k, i \in Numbers(f, l)
       PROVE  Magnitude(l[i], MaxDecimals(f)) <= IntMax
  <2>1. s[i] <= t[k] /\ s[i] = Magnitude(l[i], MaxDecimals(f)) /\ s[i] \in Nat
    BY <1>2, <1>5, <1>10
  <2>2. k \in 0..k /\ t[k] \in Int BY <1>2, <1>6
  <2> QED BY <1>6, <1>7, <2>1, <2>2
<1> QED BY <1>1, <1>2, <1>5, <1>8, <1>9, <1>10 DEF RunningSummands

(* One call of each parser at a value of a line. *)
LEMMA StringAt ==
  ASSUME NEW l, IsLine(l), NEW n, n \in 1..Len(l), NEW min \in Nat, NEW max \in Nat
  PROVE  GivesText(parse_string(min, max, TextAfter(l, n - 1)),
                   IsString(l[n], min..max), Body(l[n]), TextAfter(l, n))
<1>1. PICK v, T, t : v = l[n] /\ T = TextAfter(l, n) /\ t = TextAfter(l, n - 1)
  OBVIOUS
<1>2. IsPrintedValue(v) /\ t = Printed(v, T) /\ Continues(T) BY <1>1, NextValue
<1>3. GivesText(parse_string(min, max, Printed(v, T)), IsString(v, min..max), Body(v), T)
  BY <1>2, ParseStringGives
<1> QED BY <1>1, <1>2, <1>3

(* An integer read at the n-th value of a line. *)
LEMMA NumAt ==
  ASSUME NEW l, IsLine(l), NEW n, n \in 1..Len(l), Magnitude(l[n], 0) <= IntMax,
         NEW unit, IsUnitText(unit)
  PROVE  Gives(parse_num(0, unit, TextAfter(l, n - 1)), Prints(l[n], 0, unit),
               Amount(l[n], 0), TextAfter(l, n))
<1>1. PICK v, T, t : v = l[n] /\ T = TextAfter(l, n) /\ t = TextAfter(l, n - 1)
  OBVIOUS
<1>2. IsPrintedValue(v) /\ t = Printed(v, T) /\ T \in Texts BY <1>1, NextValue
<1>3. Magnitude(v, 0) <= IntMax BY <1>1
<1>4. 0 \in {0, 3} OBVIOUS
<1>5. Gives(parse_num(0, unit, Printed(v, T)), Prints(v, 0, unit), Amount(v, 0), T)
  BY <1>2, <1>3, <1>4, NumbersAreRead
<1> QED BY <1>1, <1>2, <1>5

(* A FixedField read at the n-th value of a line. *)
LEMMA FixedAt ==
  ASSUME NEW l, IsLine(l), NEW n, n \in 1..Len(l), Magnitude(l[n], 3) <= IntMax,
         NEW f, IsUnitText(f.unit), IsUnitText(f.int_unit)
  PROVE  Gives(FixedField(f, TextAfter(l, n - 1)), IsReading(f, l[n]),
               Reading(f, l[n]), TextAfter(l, n))
<1>1. PICK v, T, t : v = l[n] /\ T = TextAfter(l, n) /\ t = TextAfter(l, n - 1)
  OBVIOUS
<1>2. IsPrintedValue(v) /\ t = Printed(v, T) /\ T \in Texts BY <1>1, NextValue
<1>3. Magnitude(v, 3) <= IntMax BY <1>1
<1>4. Gives(parse_float_or_int(3, f.unit, f.int_unit, Printed(v, T)),
            Prints(v, 3, f.unit) \/ Prints(v, 0, f.int_unit),
            IF Prints(v, 3, f.unit) THEN Amount(v, 3) ELSE Amount(v, 0), T)
  BY <1>2, <1>3, FloatOrIntGives
<1> QED BY <1>1, <1>2, <1>4 DEF FixedField, IsReading, Reading

(* No FixedField is read when nothing is left. *)
LEMMA NothingLeft ==
  ASSUME NEW f
  PROVE  FixedField(f, <<>>) = Refused(FALSE)
<1>1. PICK float, integer : /\ float = parse_num(3, f.unit, <<>>)
                            /\ integer = parse_num(0, f.int_unit, <<>>)
  OBVIOUS
<1>2. float = Refused(FALSE) /\ integer = Refused(FALSE) BY <1>1, NothingToRead
<1>3. FixedField(f, <<>>)
        = IF float.ok THEN float ELSE [integer EXCEPT !.over = @ \/ float.over]
  BY <1>1 DEF FixedField, parse_float_or_int
<1>4. float.ok = FALSE /\ float.over = FALSE /\ integer.over = FALSE
  BY <1>2 DEF Refused
<1>5. (integer.over \/ float.over) = FALSE BY <1>4, Zenon
<1>6. [integer EXCEPT !.over = FALSE] = Refused(FALSE)
  BY <1>2, SetOver, Zenon DEF Refused
<1> QED BY <1>3, <1>4, <1>5, <1>6, Zenon

(* What a call leaves in the field is what its line says. *)
Holds(r, f, l) ==
  /\ r.over = FALSE
  /\ r.ok = Says(f, l)
  /\ r.ok => IsValue(r.val, f, l) /\ r.rest = TextAfter(l, End(f, l))

(* A line is one of the field or it is not. *)
LEMMA SaysIsBoolean == \A f, l : Says(f, l) \in BOOLEAN
BY DEF Says

(* A refusal is right for a line that is not one of the field. *)
LEMMA RefusedHolds ==
  ASSUME NEW f, NEW l, ~Says(f, l)
  PROVE  Holds(Refused(FALSE), f, l)
BY DEF Holds, Refused, Says

(* Each of its numbers is small enough to be read. *)
LEMMA NumberFits ==
  ASSUME NEW l, IsLine(l), NEW f, Small(f, l), HasCount(f, l),
         NEW n, n \in 1..Len(l), n \in Numbers(f, l)
  PROVE  Magnitude(l[n], IF f.kind = "IntField" THEN 0 ELSE 3) <= IntMax
BY SmallLine DEF MaxDecimals

IsFixed(f) == f.kind # "IntField" /\ IsUnitText(f.unit) /\ IsUnitText(f.int_unit)

(* The indices of a line, and its text at either end. *)
LEMMA InLine ==
  ASSUME NEW l, IsLine(l)
  PROVE  /\ DOMAIN l = 1..Len(l) /\ Len(l) \in Nat
         /\ l # <<>> <=> 1 <= Len(l)
         /\ Text(l) = TextAfter(l, 0)
         /\ TextAfter(l, Len(l)) = <<>>
<1>1. DOMAIN l = 1..Len(l) /\ Len(l) \in Nat BY LenProperties DEF IsLine
<1>2. l # <<>> <=> 1 <= Len(l)
  <2>1. Len(<<>>) = 0 OBVIOUS
  <2>2. Len(l) = 0 => l = <<>> BY EmptySeq DEF IsLine
  <2> QED BY <1>1, <2>1, <2>2
<1> QED BY <1>1, <1>2, TextAfterIs DEF Text

(* A FixedField returns what its line says. *)
LEMMA FixedFieldHolds ==
  ASSUME NEW l, IsLine(l), NEW f, IsFixed(f), f.kind = "FixedField", Small(f, l)
  PROVE  Holds(FixedField(f, Text(l)), f, l)
<1>1. /\ Numbers(f, l) = {1} /\ Strings(f, l) = {} /\ HasCount(f, l)
  BY DEF Numbers, Strings, HasCount
<1>2. Says(f, l) <=> 1 \in DOMAIN l /\ IsReading(f, l[1]) BY <1>1 DEF Says
<1>3. End(f, l) = 1
  <2>1. Numbers(f, l) \cup Strings(f, l) = {1} BY <1>1
  <2>2. Max({1}) = 1
    <3>1. 1 \in {1} /\ {1} \subseteq Int /\ \A y \in {1} : 1 >= y OBVIOUS
    <3> QED BY <3>1, MaxIs
  <2> QED BY <2>1, <2>2 DEF End
<1>4. \A n : IsValue(n, f, l) <=> n = Reading(f, l[1]) BY <1>1 DEF IsValue
<1>5. CASE 1 <= Len(l)
  <2>1. 1 \in 1..Len(l) /\ 1 - 1 = 0 BY <1>5, InLine
  <2>2. Gives(FixedField(f, TextAfter(l, 1 - 1)), IsReading(f, l[1]),
              Reading(f, l[1]), TextAfter(l, 1))
    BY <1>1, <2>1, NumberFits, FixedAt DEF IsFixed
  <2>3. PICK r : r = FixedField(f, Text(l)) OBVIOUS
  <2>4. Gives(r, IsReading(f, l[1]), Reading(f, l[1]), TextAfter(l, 1))
    BY <2>1, <2>2, <2>3, InLine
  <2>5. Says(f, l) <=> IsReading(f, l[1]) BY <1>2, <2>1, InLine
  <2>6. CASE IsReading(f, l[1])
    <3>1. r = [ok |-> TRUE, val |-> Reading(f, l[1]), rest |-> TextAfter(l, 1),
               over |-> FALSE]
      BY <2>4, <2>6 DEF Gives
    <3>2. r.ok = TRUE /\ r.val = Reading(f, l[1]) /\ r.rest = TextAfter(l, 1)
          /\ r.over = FALSE
      BY <3>1
    <3> QED BY <1>3, <1>4, <2>3, <2>5, <2>6, <3>2, SaysIsBoolean DEF Holds
  <2>7. CASE ~IsReading(f, l[1])
    <3>1. r = Refused(FALSE) BY <2>4, <2>7 DEF Gives
    <3> QED BY <2>3, <2>5, <2>7, <3>1, RefusedHolds
  <2> QED BY <2>6, <2>7
<1>6. CASE ~(1 <= Len(l))
  <2>1. Len(l) = 0 /\ 1 \notin DOMAIN l BY <1>6, InLine
  <2>2. Text(l) = <<>> BY <2>1, InLine
  <2> QED BY <1>2, <2>1, <2>2, NothingLeft, RefusedHolds
<1> QED BY <1>5, <1>6

(* The remainder of a division by a natural, of a negative number too. *)
LEMMA Remainder ==
  ASSUME NEW a \in Int, NEW m \in Nat \ {0}
  PROVE  a % m \in 0..(m - 1) /\ (a - (a % m)) % m = 0
<1>1. a % m \in 0..(m - 1) OBVIOUS
<1>2. a - (a % m) = m * (a \div m) /\ a \div m \in Int OBVIOUS
<1>3. \A q \in Int : (m * q) % m = 0 OBVIOUS
<1> QED BY <1>1, <1>2, <1>3

(* The amount of a value is what its digits come to, or its negative.      *)
LEMMA AmountIs ==
  ASSUME NEW v, IsPrintedValue(v), NEW d, d \in {0, 3}, AllDigits(Counted(v, d))
  PROVE  /\ Amount(v, d) \in Int
         /\ Amount(v, d) <= Magnitude(v, d) /\ -Magnitude(v, d) <= Amount(v, d)
         /\ Magnitude(v, d) \in Nat
<1>1. PICK n, p : n = Number(Counted(v, d)) /\ p = Factor(v, d) OBVIOUS
<1>2. d \in Nat OBVIOUS
<1>3. Counted(v, d) \in Texts BY <1>2, DecimalsAre
<1>4. n = Leading(v, d) BY <1>1, <1>3, LeadingOfDigits DEF Leading
<1>5. /\ Leading(v, d) \in Nat /\ Factor(v, d) \in Nat \ {0}
      /\ Magnitude(v, d) = Leading(v, d) * Factor(v, d) /\ Magnitude(v, d) \in Nat
  BY MagnitudeIs
<1>6. n \in Nat /\ p \in Nat \ {0} BY <1>1, <1>4, <1>5
<1>7. n * p = Magnitude(v, d)
  <2>1. n * p = Leading(v, d) * Factor(v, d) BY <1>1, <1>4, Zenon
  <2> QED BY <1>5, <2>1, Zenon
<1>8. n * p \in Nat /\ (1 * n) * p = n * p /\ ((-1) * n) * p = -(n * p)
  BY <1>6, Magnified
<1>9. Amount(v, d) = n * p \/ Amount(v, d) = -(n * p)
  <2>1. Amount(v, d) = (Sign(v) * n) * p BY <1>1 DEF Amount, Factor
  <2>2. Sign(v) = 1 \/ Sign(v) = -1 BY DEF Sign
  <2> QED BY <1>8, <2>1, <2>2
<1>10. PICK m, t : m = n * p /\ t = Magnitude(v, d) OBVIOUS
<1>11. m \in Nat /\ t \in Nat /\ m = t BY <1>5, <1>7, <1>8, <1>10
<1> QED BY <1>9, <1>10, <1>11

(* An IntField returns what its line says, narrowed to the type of the     *)
(* field.                                                                  *)
LEMMA IntFieldHolds ==
  ASSUME NEW l, IsLine(l), NEW f, f.kind = "IntField", Small(f, l),
         IsUnitText(f.unit), f.value_t \in DOMAIN Bits
  PROVE  Holds(IntField(f, Text(l)), f, l)
<1>1. PICK m, r : m = 2^Bits[f.value_t] /\ r = parse_num(0, f.unit, Text(l)) OBVIOUS
<1>2. m \in Nat \ {0} BY <1>1, BitsAssumption
<1>3. /\ Numbers(f, l) = {1} /\ Strings(f, l) = {} /\ HasCount(f, l)
  BY DEF Numbers, Strings, HasCount
<1>4. Says(f, l) <=> 1 \in DOMAIN l /\ Prints(l[1], 0, f.unit) BY <1>3 DEF Says
<1>5. End(f, l) = 1
  <2>1. Numbers(f, l) \cup Strings(f, l) = {1} BY <1>3
  <2>2. Max({1}) = 1
    <3>1. 1 \in {1} /\ {1} \subseteq Int /\ \A y \in {1} : 1 >= y OBVIOUS
    <3> QED BY <3>1, MaxIs
  <2> QED BY <2>1, <2>2 DEF End
<1>6. \A n : IsValue(n, f, l) <=> n \in 0..(m - 1) /\ (Amount(l[1], 0) - n) % m = 0
  BY <1>1 DEF IsValue
<1>7. PICK i : i = [r EXCEPT !.val = r.val % m] OBVIOUS
<1>8. IntField(f, Text(l)) = i BY <1>1, <1>7, Zenon DEF IntField, Narrow
<1>9. CASE 1 <= Len(l)
  <2>1. 1 \in 1..Len(l) /\ 1 - 1 = 0 BY <1>9, InLine
  <2>2. Gives(parse_num(0, f.unit, TextAfter(l, 1 - 1)), Prints(l[1], 0, f.unit),
              Amount(l[1], 0), TextAfter(l, 1))
    BY <1>3, <2>1, NumberFits, NumAt
  <2>3. Gives(r, Prints(l[1], 0, f.unit), Amount(l[1], 0), TextAfter(l, 1))
    BY <1>1, <2>1, <2>2, InLine
  <2>4. Says(f, l) <=> Prints(l[1], 0, f.unit) BY <1>4, <2>1, InLine
  <2>5. CASE Prints(l[1], 0, f.unit)
    <3>1. PICK a : a = Amount(l[1], 0) OBVIOUS
    <3>2. r = [ok |-> TRUE, val |-> a, rest |-> TextAfter(l, 1), over |-> FALSE]
      BY <2>3, <2>5, <3>1 DEF Gives
    <3>3. i.ok = TRUE /\ i.val = a % m /\ i.rest = TextAfter(l, 1) /\ i.over = FALSE
      BY <1>7, <3>2
    <3>4. a \in Int
      <4>1. IsPrintedValue(l[1]) BY <2>1 DEF IsLine
      <4>2. AllDigits(Counted(l[1], 0)) BY <2>5 DEF Prints
      <4>3. 0 \in {0, 3} OBVIOUS
      <4> QED BY <3>1, <4>1, <4>2, <4>3, AmountIs
    <3>5. a % m \in 0..(m - 1) /\ (a - (a % m)) % m = 0 BY <1>2, <3>4, Remainder
    <3>6. IsValue(i.val, f, l) BY <1>6, <3>1, <3>3, <3>5
    <3> QED BY <1>5, <1>8, <2>4, <2>5, <3>3, <3>6, SaysIsBoolean DEF Holds
  <2>6. CASE ~Prints(l[1], 0, f.unit)
    <3>1. r = Refused(FALSE) BY <2>3, <2>6 DEF Gives
    <3>2. i.ok = FALSE /\ i.over = FALSE BY <1>7, <3>1 DEF Refused
    <3> QED BY <1>8, <2>4, <2>6, <3>2 DEF Holds, Says
  <2> QED BY <2>5, <2>6
<1>10. CASE ~(1 <= Len(l))
  <2>1. Len(l) = 0 /\ 1 \notin DOMAIN l BY <1>10, InLine
  <2>2. Text(l) = <<>> BY <2>1, InLine
  <2>3. r = Refused(FALSE) BY <1>1, <2>2, NothingToRead
  <2>4. i.ok = FALSE /\ i.over = FALSE BY <1>7, <2>3 DEF Refused
  <2> QED BY <1>4, <1>8, <2>1, <2>4 DEF Holds, Says
<1> QED BY <1>9, <1>10

(* The timestamp comes first. *)
LEMMA TimestampedFieldHolds ==
  ASSUME NEW l, IsLine(l), NEW f, IsFixed(f), f.kind = "TimestampedFixedField",
         Small(f, l)
  PROVE  LET ts == parse_string(13, 13, Text(l))
             r  == FixedField(f, ts.rest)
         IN  /\ Holds(r, f, l)
             /\ r.ok => ts.ok = TRUE /\ ts.val = Body(l[1])
<1>1. PICK ts, r : ts = parse_string(13, 13, Text(l)) /\ r = FixedField(f, ts.rest)
  OBVIOUS
<1>2. /\ Numbers(f, l) = {2} /\ Strings(f, l) = {1} /\ HasCount(f, l)
      /\ Lengths(f) = {13}
  BY DEF Numbers, Strings, HasCount, Lengths
<1>3. Says(f, l) <=> /\ 1 \in DOMAIN l /\ 2 \in DOMAIN l
                     /\ IsString(l[1], {13}) /\ IsReading(f, l[2])
  <2>1. Numbers(f, l) \cup Strings(f, l) = {1, 2} BY <1>2
  <2> QED BY <1>2, <2>1 DEF Says
<1>4. End(f, l) = 2
  <2>1. Numbers(f, l) \cup Strings(f, l) = {1, 2} BY <1>2
  <2>2. Max({1, 2}) = 2
    <3>1. 2 \in {1, 2} /\ {1, 2} \subseteq Int /\ \A y \in {1, 2} : 2 >= y OBVIOUS
    <3> QED BY <3>1, MaxIs
  <2> QED BY <2>1, <2>2 DEF End
<1>5. \A n : IsValue(n, f, l) <=> n = Reading(f, l[2]) BY <1>2 DEF IsValue
<1>6. {13} = 13..13
  <2>1. \A x : x \in 13..13 <=> x = 13 OBVIOUS
  <2> QED BY <2>1
<1>7. CASE 1 <= Len(l) /\ IsString(l[1], {13})
  <2>1. 1 \in 1..Len(l) /\ 1 - 1 = 0 /\ 13 \in Nat BY <1>7, InLine
  <2>2. GivesText(parse_string(13, 13, TextAfter(l, 1 - 1)),
                  IsString(l[1], 13..13), Body(l[1]), TextAfter(l, 1))
    BY <2>1, StringAt
  <2>3. GivesText(ts, IsString(l[1], {13}), Body(l[1]), TextAfter(l, 1))
    BY <1>1, <1>6, <2>1, <2>2, InLine
  <2>4. ts = [ok |-> TRUE, val |-> Body(l[1]), rest |-> TextAfter(l, 1)]
    BY <1>7, <2>3 DEF GivesText
  <2>5. ts.ok = TRUE /\ ts.val = Body(l[1]) /\ ts.rest = TextAfter(l, 1) BY <2>4
  <2>6. CASE 2 <= Len(l)
    <3>1. 2 \in 1..Len(l) /\ 2 - 1 = 1 /\ 2 \in DOMAIN l /\ 1 \in DOMAIN l
      BY <2>1, <2>6, InLine
    <3>2. Gives(FixedField(f, TextAfter(l, 2 - 1)), IsReading(f, l[2]),
                Reading(f, l[2]), TextAfter(l, 2))
      BY <1>2, <3>1, NumberFits, FixedAt DEF IsFixed
    <3>3. Gives(r, IsReading(f, l[2]), Reading(f, l[2]), TextAfter(l, 2))
      BY <1>1, <2>5, <3>1, <3>2
    <3>4. CASE IsReading(f, l[2])
      <4>1. r = [ok |-> TRUE, val |-> Reading(f, l[2]), rest |-> TextAfter(l, 2),
                 over |-> FALSE]
        BY <3>3, <3>4 DEF Gives
      <4>2. r.ok = TRUE /\ r.val = Reading(f, l[2]) /\ r.rest = TextAfter(l, 2)
            /\ r.over = FALSE
        BY <4>1
      <4>3. Holds(r, f, l)
        BY <1>3, <1>4, <1>5, <1>7, <3>1, <3>4, <4>2, SaysIsBoolean DEF Holds
      <4> QED BY <1>1, <2>5, <4>3
    <3>5. CASE ~IsReading(f, l[2])
      <4>1. r = Refused(FALSE) BY <3>3, <3>5 DEF Gives
      <4>2. Holds(r, f, l) BY <1>3, <3>5, <4>1, RefusedHolds
      <4> QED BY <1>1, <2>5, <4>2
    <3> QED BY <3>4, <3>5
  <2>7. CASE ~(2 <= Len(l))
    <3>1. Len(l) = 1 /\ 2 \notin DOMAIN l
      <4>1. Len(l) \in Nat /\ DOMAIN l = 1..Len(l) BY InLine
      <4>2. Len(l) = 1 BY <2>1, <2>7, <4>1
      <4> QED BY <4>1, <4>2
    <3>2. ts.rest = <<>> BY <2>5, <3>1, InLine
    <3>3. Holds(r, f, l) BY <1>1, <1>3, <3>1, <3>2, NothingLeft, RefusedHolds
    <3> QED BY <1>1, <2>5, <3>3
  <2> QED BY <2>6, <2>7
<1>8. CASE ~(1 <= Len(l) /\ IsString(l[1], {13}))
  <2>1. ts = NoString
    <3>1. CASE 1 <= Len(l)
      <4>1. 1 \in 1..Len(l) /\ 1 - 1 = 0 /\ 13 \in Nat BY <3>1, InLine
      <4>2. GivesText(parse_string(13, 13, TextAfter(l, 1 - 1)),
                      IsString(l[1], 13..13), Body(l[1]), TextAfter(l, 1))
        BY <4>1, StringAt
      <4>3. GivesText(ts, IsString(l[1], {13}), Body(l[1]), TextAfter(l, 1))
        BY <1>1, <1>6, <4>1, <4>2, InLine
      <4> QED BY <1>8, <3>1, <4>3 DEF GivesText
    <3>2. CASE ~(1 <= Len(l))
      <4>1. Len(l) = 0 BY <3>2, InLine
      <4>2. Text(l) = <<>> BY <4>1, InLine
      <4> QED BY <1>1, <4>2, NoStringToRead
    <3> QED BY <3>1, <3>2
  <2>2. ts.rest = <<>> BY <2>1 DEF NoString
  <2>3. r = Refused(FALSE) BY <1>1, <2>2, NothingLeft
  <2>4. ~Says(f, l) BY <1>3, <1>8, InLine
  <2>5. r.ok = FALSE BY <2>3 DEF Refused
  <2> QED BY <1>1, <2>3, <2>4, <2>5, RefusedHolds
<1> QED BY <1>7, <1>8

(* The first value of a line at which the loop of LastFixedField ends: the *)
(* last one, or one that is no string.                                     *)
EndsSkipping(l, j) ==
  /\ j \in 1..Len(l)
  /\ j = Len(l) \/ ~IsString(l[j], 1..20)
  /\ \A i \in 1..(j - 1) : IsString(l[i], 1..20)

(* Every line that has a value has such a one. *)
LEMMA SkippingEnds ==
  ASSUME NEW l, IsLine(l), 1 <= Len(l)
  PROVE  \E j : EndsSkipping(l, j)
<1> DEFINE S == {j \in 1..Len(l) : j = Len(l) \/ ~IsString(l[j], 1..20)}
<1>1. Len(l) \in Nat BY InLine
<1>2. Len(l) \in S /\ S \subseteq Nat BY <1>1
<1>3. PICK j \in S : \A i \in S : j <= i BY <1>2, LeastNatural
<1>4. ASSUME NEW i \in 1..(j - 1) PROVE IsString(l[i], 1..20)
  <2>1. i \in 1..Len(l) /\ ~(j <= i) BY <1>1, <1>4
  <2>2. i \notin S BY <1>3, <2>1
  <2> QED BY <2>1, <2>2
<1> QED BY <1>4 DEF EndsSkipping

(* The loop of LastFixedField. *)
Skips(after, text) ==
  after = [n \in 0..Len(text) |->
             IF n = 0 THEN text ELSE parse_string(1, 20, after[n - 1]).rest]

Skipped(l, j) == [n \in 0..Len(TextAfter(l, 0)) |->
                    IF n < j THEN TextAfter(l, n) ELSE <<>>]

(* The texts that the loop leaves behind are these. *)
LEMMA SkippedIs ==
  ASSUME NEW l, IsLine(l), NEW j, EndsSkipping(l, j)
  PROVE  Skips(Skipped(l, j), TextAfter(l, 0))
<1>1. PICK w, t, k, e : /\ w = Skipped(l, j) /\ t = TextAfter(l, 0) /\ k = Len(l)
                        /\ e = Len(t)
  OBVIOUS
<1>2. /\ j \in 1..k /\ k \in Nat /\ j \in Nat
      /\ j = k \/ ~IsString(l[j], 1..20)
      /\ \A i \in 1..(j - 1) : IsString(l[i], 1..20)
  BY <1>1, InLine DEF EndsSkipping
<1>3. w = [n \in 0..e |-> IF n < j THEN TextAfter(l, n) ELSE <<>>]
  BY <1>1 DEF Skipped
<1>4. e \in Nat /\ e >= k
  <2>1. 0 \in 0..Len(l) BY <1>1, <1>2
  <2>2. Len(TextAfter(l, 0)) \in Nat /\ Len(TextAfter(l, 0)) >= Len(l) - 0
    BY <2>1, TextAfterIsText
  <2> QED BY <1>1, <1>2, <2>2
<1>5. ASSUME NEW n \in 1..k
      PROVE  parse_string(1, 20, TextAfter(l, n - 1)).rest
               = IF IsString(l[n], 1..20) THEN TextAfter(l, n) ELSE <<>>
  <2>1. n \in 1..Len(l) /\ 1 \in Nat /\ 20 \in Nat BY <1>1, <1>5
  <2>2. GivesText(parse_string(1, 20, TextAfter(l, n - 1)), IsString(l[n], 1..20),
                  Body(l[n]), TextAfter(l, n))
    BY <2>1, StringAt
  <2>3. PICK r, g, b, x : /\ r = parse_string(1, 20, TextAfter(l, n - 1))
                          /\ g = IsString(l[n], 1..20) /\ b = Body(l[n])
                          /\ x = TextAfter(l, n)
    OBVIOUS
  <2>4. r = IF g THEN [ok |-> TRUE, val |-> b, rest |-> x] ELSE NoString
    BY <2>2, <2>3 DEF GivesText
  <2>5. r.rest = IF g THEN x ELSE <<>> BY <2>4 DEF NoString
  <2> QED BY <2>3, <2>5
<1>6. ASSUME NEW n \in 0..e
      PROVE  w[n] = IF n = 0 THEN t ELSE parse_string(1, 20, w[n - 1]).rest
  <2>1. CASE n = 0 BY <1>1, <1>2, <1>3, <2>1
  <2>2. CASE n # 0 /\ n < j
    <3>1. n \in 1..k /\ n \in 1..(j - 1) /\ n - 1 \in 0..e /\ n - 1 < j
      BY <1>2, <1>4, <2>2
    <3>2. w[n] = TextAfter(l, n) /\ w[n - 1] = TextAfter(l, n - 1)
      BY <1>3, <2>2, <3>1
    <3> QED BY <1>2, <1>5, <2>2, <3>1, <3>2
  <2>3. CASE n = j
    <3>1. n \in 1..k /\ n # 0 /\ n - 1 \in 0..e /\ n - 1 < j /\ ~(n < j)
      BY <1>2, <1>4, <2>3
    <3>2. w[n] = <<>> /\ w[n - 1] = TextAfter(l, n - 1) BY <1>3, <3>1
    <3>3. IsString(l[n], 1..20) => TextAfter(l, n) = <<>>
      BY <1>1, <1>2, <2>3, InLine
    <3> QED BY <1>5, <3>1, <3>2, <3>3
  <2>4. CASE j < n
    <3>1. n # 0 /\ n - 1 \in 0..e /\ ~(n - 1 < j) /\ ~(n < j) BY <1>2, <1>4, <2>4
    <3>2. w[n] = <<>> /\ w[n - 1] = <<>> BY <1>3, <3>1
    <3>3. parse_string(1, 20, <<>>).rest = <<>> BY NoStringToRead DEF NoString
    <3> QED BY <3>1, <3>2, <3>3
  <2>5. n = 0 \/ (n # 0 /\ n < j) \/ n = j \/ j < n BY <1>2, <1>4
  <2> QED BY <2>1, <2>2, <2>3, <2>4, <2>5
<1>7. w = [n \in 0..e |-> w[n]] BY <1>3
<1>8. w = [n \in 0..e |-> IF n = 0 THEN t ELSE parse_string(1, 20, w[n - 1]).rest]
  BY <1>6, <1>7
<1> QED BY <1>1, <1>8 DEF Skips

(* The loop has one course. *)
LEMMA SkipsOnce ==
  ASSUME NEW text, Len(text) \in Nat, NEW f, Skips(f, text), NEW g, Skips(g, text)
  PROVE  \A n \in 0..Len(text) : f[n] = g[n]
<1>1. PICK e : e = Len(text) OBVIOUS
<1>2. /\ \A n \in 0..e : f[n] = IF n = 0 THEN text ELSE parse_string(1, 20, f[n - 1]).rest
      /\ \A n \in 0..e : g[n] = IF n = 0 THEN text ELSE parse_string(1, 20, g[n - 1]).rest
  BY <1>1 DEF Skips
<1>3. e \in Nat /\ 0 \in 0..e /\ \A n \in 1..e : n \in 0..e /\ n # 0 BY <1>1
<1>4. f[0] = g[0] BY <1>2, <1>3
<1>5. \A n \in 1..e : f[n - 1] = g[n - 1] => f[n] = g[n] BY <1>2, <1>3
<1>6. SameSteps(f, g, e) BY <1>4, <1>5 DEF SameSteps
<1> QED BY <1>1, <1>3, <1>6, SameRecursion

(* The values are skipped up to the last one. *)
LEMMA LastIs ==
  ASSUME NEW l, IsLine(l), NEW j, EndsSkipping(l, j), NEW f
  PROVE  LastFixedField(f, Text(l))
           = IF IsString(l[j], 1..20) THEN FixedField(f, TextAfter(l, j - 1))
             ELSE Refused(FALSE)
<1>1. PICK t, k, e : t = TextAfter(l, 0) /\ k = Len(l) /\ e = Len(t) OBVIOUS
<1>2. j \in 1..k /\ k \in Nat /\ j \in Nat BY <1>1, InLine DEF EndsSkipping
<1>3. e \in Nat /\ e >= k /\ t # <<>>
  <2>1. 0 \in 0..Len(l) /\ 0 # Len(l) BY <1>1, <1>2
  <2>2. Len(TextAfter(l, 0)) \in Nat /\ Len(TextAfter(l, 0)) >= Len(l) - 0
        /\ TextAfter(l, 0) # <<>>
    BY <2>1, TextAfterIsText
  <2> QED BY <1>1, <1>2, <2>2
<1> DEFINE after == CHOOSE x : Skips(x, t)
           ends  == {n \in 0..Len(t) : after[n] = <<>>}
<1>4. Skips(after, t)
  <2>1. Skips(Skipped(l, j), t) BY <1>1, SkippedIs
  <2> QED BY <2>1
<1>5. LastFixedField(f, t)
        = IF t = <<>> \/ ~parse_string(1, 20, after[Min(ends) - 1]).ok
          THEN Refused(FALSE) ELSE FixedField(f, after[Min(ends) - 1])
  BY DEF LastFixedField, Skips
<1> HIDE DEF after
<1>6. ASSUME NEW n \in 0..e
      PROVE  after[n] = IF n < j THEN TextAfter(l, n) ELSE <<>>
  <2>1. Skips(Skipped(l, j), t) BY <1>1, SkippedIs
  <2>2. Len(t) \in Nat BY <1>1, <1>3
  <2>3. n \in 0..Len(t) BY <1>1
  <2>4. after[n] = Skipped(l, j)[n] BY <1>4, <2>1, <2>2, <2>3, SkipsOnce
  <2>5. Skipped(l, j)[n] = IF n < j THEN TextAfter(l, n) ELSE <<>>
    BY <1>1 DEF Skipped
  <2> QED BY <2>4, <2>5
<1>7. ends = {n \in 0..e : ~(n < j)}
  <2>1. ASSUME NEW n \in 0..e PROVE after[n] = <<>> <=> ~(n < j)
    <3>1. ASSUME n < j PROVE TextAfter(l, n) # <<>>
      <4>1. n \in 0..Len(l) /\ n # Len(l) BY <1>1, <1>2, <3>1
      <4> QED BY <4>1, TextAfterIsText
    <3> QED BY <1>6, <3>1
  <2> QED BY <1>1, <2>1
<1>8. Min(ends) = j
  <2> DEFINE S == {n \in 0..e : ~(n < j)}
  <2>1. j \in S /\ S \subseteq Int /\ \A n \in S : j <= n BY <1>2, <1>3
  <2> HIDE DEF S
  <2>2. Min(S) = j BY <2>1, MinIs
  <2> QED BY <1>7, <2>2 DEF S
<1>9. after[j - 1] = TextAfter(l, j - 1)
  <2>1. j - 1 \in 0..e /\ j - 1 < j BY <1>2, <1>3
  <2> QED BY <1>6, <2>1
<1>10. LastFixedField(f, t)
         = IF ~parse_string(1, 20, TextAfter(l, j - 1)).ok
           THEN Refused(FALSE) ELSE FixedField(f, TextAfter(l, j - 1))
  <2> HIDE DEF ends
  <2> QED BY <1>3, <1>5, <1>8, <1>9
<1>11. parse_string(1, 20, TextAfter(l, j - 1)).ok <=> IsString(l[j], 1..20)
  <2>1. j \in 1..Len(l) /\ 1 \in Nat /\ 20 \in Nat BY <1>1, <1>2
  <2>2. GivesText(parse_string(1, 20, TextAfter(l, j - 1)), IsString(l[j], 1..20),
                  Body(l[j]), TextAfter(l, j))
    BY <2>1, StringAt
  <2> QED BY <2>2 DEF GivesText, NoString
<1> QED BY <1>1, <1>10, <1>11, InLine

(* A LastFixedField returns what its line says. *)
LEMMA LastFieldHolds ==
  ASSUME NEW l, IsLine(l), NEW f, IsFixed(f), f.kind = "LastFixedField", Small(f, l)
  PROVE  Holds(LastFixedField(f, Text(l)), f, l)
<1>1. PICK k, r : k = Len(l) /\ r = LastFixedField(f, Text(l)) OBVIOUS
<1>2. /\ Numbers(f, l) = {k} /\ Strings(f, l) = 1..k /\ HasCount(f, l)
      /\ Lengths(f) = 1..20 /\ DOMAIN l = 1..k /\ k \in Nat
  BY <1>1, InLine DEF Numbers, Strings, HasCount, Lengths
<1>3. Says(f, l) <=> /\ k \in 1..k /\ \A i \in 1..k : IsString(l[i], 1..20)
                     /\ IsReading(f, l[k])
  <2>1. Numbers(f, l) \cup Strings(f, l) \subseteq DOMAIN l <=> k \in 1..k BY <1>2
  <2> QED BY <1>2, <2>1 DEF Says
<1>4. \A n : IsValue(n, f, l) <=> n = Reading(f, l[k]) BY <1>2 DEF IsValue
<1>5. CASE 1 <= k
  <2>1. PICK j : EndsSkipping(l, j) BY <1>1, <1>5, SkippingEnds
  <2>2. /\ j \in 1..k
        /\ j = k \/ ~IsString(l[j], 1..20)
        /\ \A i \in 1..(j - 1) : IsString(l[i], 1..20)
    BY <1>1, <2>1 DEF EndsSkipping
  <2>3. r = IF IsString(l[j], 1..20) THEN FixedField(f, TextAfter(l, j - 1))
            ELSE Refused(FALSE)
    BY <1>1, <2>1, LastIs
  <2>4. CASE ~IsString(l[j], 1..20)
    <3>1. ~Says(f, l) BY <1>3, <2>2, <2>4
    <3> QED BY <1>1, <2>3, <2>4, <3>1, RefusedHolds
  <2>5. CASE IsString(l[j], 1..20)
    <3>1. j = k BY <2>2, <2>5
    <3>2. \A i \in 1..k : IsString(l[i], 1..20)
      <4> TAKE i \in 1..k
      <4>1. i = k \/ i \in 1..(k - 1) BY <1>2
      <4> QED BY <2>2, <2>5, <3>1, <4>1
    <3>3. k \in 1..Len(l) /\ k \in 1..k BY <1>1, <1>2, <1>5
    <3>4. Gives(FixedField(f, TextAfter(l, k - 1)), IsReading(f, l[k]),
                Reading(f, l[k]), TextAfter(l, k))
      BY <1>2, <3>3, NumberFits, FixedAt DEF IsFixed
    <3>5. Gives(r, IsReading(f, l[k]), Reading(f, l[k]), TextAfter(l, k))
      BY <2>3, <2>5, <3>1, <3>4
    <3>6. Says(f, l) <=> IsReading(f, l[k]) BY <1>3, <3>2, <3>3
    <3>7. End(f, l) = k
      <4>1. Numbers(f, l) \cup Strings(f, l) = 1..k BY <1>2, <3>3
      <4>2. Max(1..k) = k
        <5>1. 1..k \subseteq Int /\ \A y \in 1..k : k >= y BY <1>2
        <5> QED BY <3>3, <5>1, MaxIs
      <4> QED BY <4>1, <4>2 DEF End
    <3>8. CASE IsReading(f, l[k])
      <4>1. r = [ok |-> TRUE, val |-> Reading(f, l[k]), rest |-> TextAfter(l, k),
                 over |-> FALSE]
        BY <3>5, <3>8 DEF Gives
      <4>2. r.ok = TRUE /\ r.val = Reading(f, l[k]) /\ r.rest = TextAfter(l, k)
            /\ r.over = FALSE
        BY <4>1
      <4> QED BY <1>1, <1>4, <3>6, <3>7, <3>8, <4>2, SaysIsBoolean DEF Holds
    <3>9. CASE ~IsReading(f, l[k])
      <4>1. r = Refused(FALSE) BY <3>5, <3>9 DEF Gives
      <4> QED BY <1>1, <3>6, <3>9, <4>1, RefusedHolds
    <3> QED BY <3>8, <3>9
  <2> QED BY <2>4, <2>5
<1>6. CASE ~(1 <= k)
  <2>1. k = 0 /\ k \notin 1..k BY <1>2, <1>6
  <2>2. Text(l) = <<>> BY <1>1, <2>1, InLine
  <2>3. r = Refused(FALSE) BY <1>1, <2>2 DEF LastFixedField
  <2>4. ~Says(f, l) BY <1>3, <2>1
  <2> QED BY <1>1, <2>3, <2>4, RefusedHolds
<1> QED BY <1>5, <1>6

-----------------------------------------------------------------------------
(* The average. *)

(* The quotient of naturals is the last whole multiple not above. *)
LEMMA DivisionBounds ==
  ASSUME NEW a \in Nat, NEW d \in Nat \ {0}
  PROVE  a \div d \in Nat /\ (a \div d) * d <= a /\ a < (a \div d + 1) * d
OBVIOUS

(* Squares of naturals are ordered as the naturals are. *)
LEMMA SquaresGrow ==
  ASSUME NEW a \in Nat, NEW b \in Nat
  PROVE  /\ a * a \in Nat /\ b * b \in Nat
         /\ a <= b => a * a <= b * b
         /\ a < b => a * a < b * b
OBVIOUS

(* The square of a product. *)
LEMMA SquareOfProduct ==
  ASSUME NEW q \in Nat, NEW d \in Nat
  PROVE  q * q * d * d = (q * d) * (q * d) /\ q * d \in Nat
OBVIOUS

(* The sign does not count in a square. *)
LEMMA SquareOfNegative ==
  ASSUME NEW q \in Nat, NEW d \in Nat
  PROVE  (-q) * (-q) * d * d = q * q * d * d
<1>1. (-q) * (-q) = q * q OBVIOUS
<1> QED BY <1>1

(* The quotient of naturals is rounded towards 0. *)
LEMMA NaturalQuotient ==
  ASSUME NEW a \in Nat, NEW d \in Nat \ {0}, NEW q, q = a \div d
  PROVE  /\ q \in Nat /\ q * a >= 0
         /\ q * q * d * d <= a * a
         /\ (q + 1) * (q + 1) * d * d > a * a
<1>1. q \in Nat /\ q * d <= a /\ a < (q + 1) * d BY DivisionBounds
<1>2. PICK p, x, y : p = q + 1 /\ x = q * d /\ y = p * d OBVIOUS
<1>3. p \in Nat /\ d \in Nat /\ x <= a /\ a < y BY <1>1, <1>2
<1>4. q * q * d * d = x * x /\ x \in Nat BY <1>1, <1>2, <1>3, SquareOfProduct
<1>5. p * p * d * d = y * y /\ y \in Nat BY <1>2, <1>3, SquareOfProduct
<1>6. x * x <= a * a /\ x * x \in Nat /\ a * a \in Nat BY <1>3, <1>4, SquaresGrow
<1>7. a * a < y * y /\ y * y \in Nat BY <1>3, <1>5, SquaresGrow
<1>8. q * a >= 0 BY <1>1
<1>9. q * q * d * d <= a * a BY <1>4, <1>6
<1>10. p * p * d * d > a * a BY <1>5, <1>6, <1>7
<1> QED BY <1>1, <1>2, <1>8, <1>9, <1>10

(* The quotient of the code is n / d rounded towards 0. *)
LEMMA QuotientRounds ==
  ASSUME NEW n \in Int, NEW d \in Nat \ {0}
  PROVE  Rounds(Quotient(n, d), n, d)
<1>1. CASE n >= 0
  <2>1. PICK q : q = n \div d OBVIOUS
  <2>2. n \in Nat BY <1>1
  <2>3. /\ q \in Nat /\ q * n >= 0 /\ q * q * d * d <= n * n
        /\ (q + 1) * (q + 1) * d * d > n * n
    BY <2>1, <2>2, NaturalQuotient
  <2>4. Quotient(n, d) = q BY <1>1, <2>1 DEF Quotient
  <2>5. ~(n < 0) BY <2>2
  <2>6. Rounds(q, n, d) BY <2>3, <2>5, Zenon DEF Rounds
  <2> QED BY <2>4, <2>6
<1>2. CASE n < 0
  <2>1. PICK a, q : a = -n /\ q = a \div d OBVIOUS
  <2>2. a \in Nat /\ n = -a BY <1>2, <2>1
  <2>3. /\ q \in Nat /\ q * a >= 0 /\ q * q * d * d <= a * a
        /\ (q + 1) * (q + 1) * d * d > a * a
    BY <2>1, <2>2, NaturalQuotient
  <2>4. Quotient(n, d) = -q BY <1>2, <2>1 DEF Quotient
  <2>5. n * n = a * a /\ (-q) * n = q * a
    <3>1. (-a) * (-a) = a * a /\ (-q) * (-a) = q * a BY <2>2, <2>3
    <3> QED BY <2>2, <3>1, Zenon
  <2>6. (-q) * n >= 0 BY <2>3, <2>5
  <2>7. (-q) * (-q) * d * d = q * q * d * d
    <3>1. d \in Nat OBVIOUS
    <3> QED BY <2>3, <3>1, SquareOfNegative
  <2>8. ((-q) - 1) * ((-q) - 1) * d * d = (q + 1) * (q + 1) * d * d
    <3>1. d \in Nat /\ q + 1 \in Nat /\ (-q) - 1 = -(q + 1) BY <2>3
    <3>2. PICK p : p = q + 1 OBVIOUS
    <3>3. (-p) * (-p) * d * d = p * p * d * d BY <3>1, <3>2, SquareOfNegative
    <3> QED BY <3>1, <3>2, <3>3, Zenon
  <2>9. Rounds(-q, n, d)
    <3>1. (-q) * (-q) * d * d <= n * n BY <2>3, <2>5, <2>7, Zenon
    <3>2. ((-q) - 1) * ((-q) - 1) * d * d > n * n BY <2>3, <2>5, <2>8, Zenon
    <3> QED BY <1>2, <2>6, <3>1, <3>2, Zenon DEF Rounds
  <2> QED BY <2>4, <2>9
<1> QED BY <1>1, <1>2

(* Two strings from the n-th value of a line on. *)
TwoStrings(l, n) == /\ n + 2 <= Len(l)
                    /\ IsString(l[n + 1], 1..20) /\ IsString(l[n + 2], 1..20)

(* The string of a timestamp is skipped, or there is none. *)
LEMMA OneString ==
  ASSUME NEW l, IsLine(l), NEW n, n \in 1..Len(l)
  PROVE  /\ IsString(l[n], 1..20) =>
              /\ parse_string(1, 20, TextAfter(l, n - 1)).ok = TRUE
              /\ parse_string(1, 20, TextAfter(l, n - 1)).rest = TextAfter(l, n)
         /\ ~IsString(l[n], 1..20) =>
              parse_string(1, 20, TextAfter(l, n - 1)) = NoString
<1>1. 1 \in Nat /\ 20 \in Nat OBVIOUS
<1>2. GivesText(parse_string(1, 20, TextAfter(l, n - 1)), IsString(l[n], 1..20),
                Body(l[n]), TextAfter(l, n))
  BY <1>1, StringAt
<1> QED BY <1>2 DEF GivesText

(* So are two of them. *)
LEMMA TwoStringsAt ==
  ASSUME NEW l, IsLine(l), NEW n, n \in 0..Len(l)
  PROVE  /\ TwoStrings(l, n) =>
              /\ AfterTwoStrings(TextAfter(l, n)).ok = TRUE
              /\ AfterTwoStrings(TextAfter(l, n)).rest = TextAfter(l, n + 2)
         /\ ~TwoStrings(l, n) => AfterTwoStrings(TextAfter(l, n)) = NoString
<1>1. PICK k, t : k = Len(l) /\ t = TextAfter(l, n) OBVIOUS
<1>2. k \in Nat /\ n \in Nat /\ n <= k BY <1>1, InLine
<1>3. PICK a : a = parse_string(1, 20, t) OBVIOUS
<1>4. AfterTwoStrings(t) = parse_string(1, 20, a.rest) BY <1>3 DEF AfterTwoStrings
<1>5. NoString.rest = <<>> BY DEF NoString
<1>6. a.rest = <<>> => AfterTwoStrings(t) = NoString BY <1>4, NoStringToRead
<1>7. CASE n = k
  <2>1. t = <<>> BY <1>1, <1>7, InLine
  <2>2. a.rest = <<>> BY <1>3, <1>5, <2>1, NoStringToRead
  <2>3. ~TwoStrings(l, n) BY <1>1, <1>2, <1>7 DEF TwoStrings
  <2> QED BY <1>1, <1>6, <2>2, <2>3
<1>8. CASE n < k
  <2>1. n + 1 \in 1..Len(l) /\ (n + 1) - 1 = n BY <1>1, <1>2, <1>8
  <2>2. /\ IsString(l[n + 1], 1..20) => a.rest = TextAfter(l, n + 1)
        /\ ~IsString(l[n + 1], 1..20) => a = NoString
    <3>1. PICK m : m = n + 1 OBVIOUS
    <3>2. m \in 1..Len(l) /\ m - 1 = n BY <2>1, <3>1
    <3>3. /\ IsString(l[m], 1..20) =>
               parse_string(1, 20, TextAfter(l, m - 1)).rest = TextAfter(l, m)
          /\ ~IsString(l[m], 1..20) =>
               parse_string(1, 20, TextAfter(l, m - 1)) = NoString
      BY <3>2, OneString
    <3> QED BY <1>1, <1>3, <3>1, <3>2, <3>3
  <2>3. CASE ~IsString(l[n + 1], 1..20)
    <3>1. a.rest = <<>> BY <1>5, <2>2, <2>3
    <3>2. ~TwoStrings(l, n) BY <2>3 DEF TwoStrings
    <3> QED BY <1>1, <1>6, <3>1, <3>2
  <2>4. CASE IsString(l[n + 1], 1..20) /\ n + 1 = k
    <3>1. a.rest = <<>> BY <1>1, <2>2, <2>4, InLine
    <3>2. ~TwoStrings(l, n) BY <1>1, <1>2, <2>4 DEF TwoStrings
    <3> QED BY <1>1, <1>6, <3>1, <3>2
  <2>5. CASE IsString(l[n + 1], 1..20) /\ n + 1 # k
    <3>1. PICK m : m = n + 2 OBVIOUS
    <3>2. m \in 1..Len(l) /\ m - 1 = n + 1 /\ n + 2 <= Len(l)
      BY <1>1, <1>2, <1>8, <2>5, <3>1
    <3>3. AfterTwoStrings(t) = parse_string(1, 20, TextAfter(l, m - 1))
      BY <1>4, <2>2, <2>5, <3>2
    <3>4. /\ IsString(l[m], 1..20) =>
               /\ parse_string(1, 20, TextAfter(l, m - 1)).ok = TRUE
               /\ parse_string(1, 20, TextAfter(l, m - 1)).rest = TextAfter(l, m)
          /\ ~IsString(l[m], 1..20) =>
               parse_string(1, 20, TextAfter(l, m - 1)) = NoString
      BY <3>2, OneString
    <3>5. TwoStrings(l, n) <=> IsString(l[m], 1..20)
      BY <2>5, <3>1, <3>2 DEF TwoStrings
    <3> QED BY <1>1, <3>1, <3>3, <3>4, <3>5
  <2> QED BY <2>3, <2>4, <2>5
<1>9. n = k \/ n < k BY <1>2
<1> QED BY <1>7, <1>8, <1>9

(* An entry of an average: two timestamps and a value. *)
Entry(f, l, n) == /\ TwoStrings(l, n) /\ n + 3 <= Len(l)
                  /\ IsReading(f, l[n + 3])

(* The reading of an entry, behind its two timestamps. *)
LEMMA EntryAt ==
  ASSUME NEW l, IsLine(l), NEW f, IsFixed(f), NEW n, n \in 0..Len(l),
         n + 3 <= Len(l) => Magnitude(l[n + 3], 3) <= IntMax
  PROVE  Gives(FixedField(f, AfterTwoStrings(TextAfter(l, n)).rest), Entry(f, l, n),
               Reading(f, l[n + 3]), TextAfter(l, n + 3))
<1>1. PICK k, a, r : /\ k = Len(l) /\ a = AfterTwoStrings(TextAfter(l, n))
                     /\ r = FixedField(f, a.rest)
  OBVIOUS
<1>2. k \in Nat /\ n \in Nat /\ n <= k BY <1>1, InLine
<1>3. a.rest = <<>> => r = Refused(FALSE) BY <1>1, NothingLeft
<1>4. CASE ~TwoStrings(l, n)
  <2>1. a = NoString BY <1>1, <1>4, TwoStringsAt
  <2>2. a.rest = <<>> BY <2>1 DEF NoString
  <2>3. ~Entry(f, l, n) BY <1>4 DEF Entry
  <2> QED BY <1>1, <1>3, <2>2, <2>3 DEF Gives
<1>5. CASE TwoStrings(l, n)
  <2>1. a.rest = TextAfter(l, n + 2) BY <1>1, <1>5, TwoStringsAt
  <2>2. n + 2 <= k BY <1>1, <1>5 DEF TwoStrings
  <2>3. CASE n + 2 = k
    <3>1. a.rest = <<>> BY <1>1, <2>1, <2>3, InLine
    <3>2. ~(n + 3 <= Len(l)) BY <1>1, <1>2, <2>3
    <3>3. ~Entry(f, l, n) BY <3>2 DEF Entry
    <3> QED BY <1>1, <1>3, <3>1, <3>3 DEF Gives
  <2>4. CASE n + 2 # k
    <3>1. PICK m : m = n + 3 OBVIOUS
    <3>2. m \in 1..Len(l) /\ m - 1 = n + 2 /\ n + 3 <= Len(l)
      BY <1>1, <1>2, <2>2, <2>4, <3>1
    <3>3. Gives(FixedField(f, TextAfter(l, m - 1)), IsReading(f, l[m]),
                Reading(f, l[m]), TextAfter(l, m))
      BY <3>1, <3>2, FixedAt DEF IsFixed
    <3>4. Entry(f, l, n) <=> IsReading(f, l[m]) BY <1>5, <3>1, <3>2 DEF Entry
    <3> QED BY <1>1, <2>1, <3>1, <3>2, <3>3, <3>4 DEF Gives
  <2> QED BY <2>3, <2>4
<1> QED BY <1>4, <1>5

Added(s, T) == [ok |-> TRUE, val |-> s, rest |-> T, over |-> FALSE]
NotAdded(s) == [ok |-> FALSE, val |-> s, rest |-> <<>>, over |-> FALSE]

(* One turn of the loop, when the sum fits. *)
LEMMA AddIs ==
  ASSUME NEW f, NEW total, total.over = FALSE, total.val \in Int,
         NEW r, r = FixedField(f, AfterTwoStrings(total.rest).rest),
         r.val \in Int, r.over = FALSE, Fits(total.val + r.val)
  PROVE  Add(f, total) = [ok |-> r.ok, val |-> total.val + r.val, rest |-> r.rest,
                          over |-> FALSE]
<1>1. PICK s : s = total.val + r.val OBVIOUS
<1>2. s \in Int /\ Fits(s) BY <1>1
<1>3. Wrapped(s) = s BY <1>2, WrappedFits
<1>4. (total.over \/ r.over \/ ~Fits(s)) = FALSE BY <1>2, Zenon
<1>5. Add(f, total) = [ok |-> r.ok, val |-> Wrapped(s), rest |-> r.rest,
                       over |-> total.over \/ r.over \/ ~Fits(s)]
  BY <1>1, Zenon DEF Add
<1> QED BY <1>1, <1>3, <1>4, <1>5, Zenon

(* A turn adds the reading of the next entry; without an entry it leaves   *)
(* the sum, and nothing to read, from then on.                             *)
LEMMA AddEntry ==
  ASSUME NEW l, IsLine(l), NEW f, IsFixed(f), NEW n, n \in 0..Len(l),
         n + 3 <= Len(l) => Magnitude(l[n + 3], 3) <= IntMax,
         NEW s \in Int, Fits(s)
  PROVE  /\ Entry(f, l, n) /\ Reading(f, l[n + 3]) \in Int
              /\ Fits(s + Reading(f, l[n + 3])) =>
              Add(f, Added(s, TextAfter(l, n)))
                = Added(s + Reading(f, l[n + 3]), TextAfter(l, n + 3))
         /\ ~Entry(f, l, n) => Add(f, Added(s, TextAfter(l, n))) = NotAdded(s)
         /\ Add(f, NotAdded(s)) = NotAdded(s)
<1>1. PICK T, total, R, U :
        /\ T = TextAfter(l, n) /\ total = Added(s, T)
        /\ R = Reading(f, l[n + 3]) /\ U = TextAfter(l, n + 3)
  OBVIOUS
<1>2. total.over = FALSE /\ total.val = s /\ total.rest = T BY <1>1 DEF Added
<1>3. PICK r : r = FixedField(f, AfterTwoStrings(total.rest).rest) OBVIOUS
<1>4. Gives(r, Entry(f, l, n), R, U) BY <1>1, <1>2, <1>3, EntryAt
<1>5. ASSUME Entry(f, l, n), R \in Int, Fits(s + R)
      PROVE  Add(f, total) = Added(s + R, U)
  <2>1. r = [ok |-> TRUE, val |-> R, rest |-> U, over |-> FALSE]
    BY <1>4, <1>5 DEF Gives
  <2>2. r.ok = TRUE /\ r.val = R /\ r.rest = U /\ r.over = FALSE BY <2>1
  <2>3. Add(f, total) = [ok |-> r.ok, val |-> total.val + r.val, rest |-> r.rest,
                         over |-> FALSE]
    <3>1. total.val \in Int /\ r.val \in Int /\ Fits(total.val + r.val)
      BY <1>2, <1>5, <2>2
    <3> QED BY <1>2, <1>3, <2>2, <3>1, AddIs
  <2> QED BY <1>2, <2>2, <2>3, Zenon DEF Added
<1>6. ASSUME NEW x, x.over = FALSE, x.val = s,
             FixedField(f, AfterTwoStrings(x.rest).rest) = Refused(FALSE)
      PROVE  Add(f, x) = NotAdded(s)
  <2>1. PICK q : q = FixedField(f, AfterTwoStrings(x.rest).rest) OBVIOUS
  <2>2. q.ok = FALSE /\ q.val = 0 /\ q.rest = <<>> /\ q.over = FALSE
    BY <1>6, <2>1 DEF Refused
  <2>3. s + 0 = s OBVIOUS
  <2>4. x.val \in Int /\ q.val \in Int /\ Fits(x.val + q.val)
    BY <1>6, <2>2, <2>3
  <2>5. Add(f, x) = [ok |-> q.ok, val |-> x.val + q.val, rest |-> q.rest,
                     over |-> FALSE]
    BY <1>6, <2>1, <2>2, <2>4, AddIs
  <2> QED BY <1>6, <2>2, <2>3, <2>5, Zenon DEF NotAdded
<1>7. ASSUME ~Entry(f, l, n) PROVE Add(f, total) = NotAdded(s)
  <2>1. r = Refused(FALSE) BY <1>4, <1>7 DEF Gives
  <2> QED BY <1>2, <1>3, <1>6, <2>1
<1>8. Add(f, NotAdded(s)) = NotAdded(s)
  <2>1. NotAdded(s).over = FALSE /\ NotAdded(s).val = s /\ NotAdded(s).rest = <<>>
    BY DEF NotAdded
  <2>2. AfterTwoStrings(<<>>).rest = <<>>
    <3>1. parse_string(1, 20, <<>>).rest = <<>> BY NoStringToRead DEF NoString
    <3> QED BY <3>1 DEF AfterTwoStrings
  <2>3. FixedField(f, AfterTwoStrings(NotAdded(s).rest).rest) = Refused(FALSE)
    BY <2>1, <2>2, NothingLeft
  <2> QED BY <1>6, <2>1, <2>3
<1> QED BY <1>1, <1>5, <1>7, <1>8

(* The first entry that ends the sum, if one of the m does. *)
EndsAdding(f, l, m, j) ==
  /\ j \in 1..(m + 1)
  /\ \A i \in 1..(j - 1) : Entry(f, l, 3 * i)
  /\ j <= m => ~Entry(f, l, 3 * j)

(* Such an index there is, be it behind the m entries. *)
LEMMA AddingEnds ==
  ASSUME NEW f, NEW l, NEW m \in Nat
  PROVE  \E j : EndsAdding(f, l, m, j)
<1> DEFINE S == {j \in 1..(m + 1) : j <= m => ~Entry(f, l, 3 * j)}
<1>1. m + 1 \in S /\ S \subseteq Nat OBVIOUS
<1>2. PICK j \in S : \A i \in S : j <= i BY <1>1, LeastNatural
<1>3. ASSUME NEW i \in 1..(j - 1) PROVE Entry(f, l, 3 * i)
  <2>1. i \in 1..(m + 1) /\ ~(j <= i) BY <1>3
  <2>2. i \notin S BY <1>2, <2>1
  <2> QED BY <2>1, <2>2
<1> QED BY <1>3 DEF EndsAdding

(* A reading is between what its digits come to and the negative of that. *)
LEMMA ReadingIs ==
  ASSUME NEW f, NEW v, IsPrintedValue(v), IsReading(f, v)
  PROVE  /\ Reading(f, v) \in Int /\ Magnitude(v, 3) \in Nat
         /\ Reading(f, v) <= Magnitude(v, 3) /\ -Magnitude(v, 3) <= Reading(f, v)
<1>1. 0 \in {0, 3} /\ 3 \in {0, 3} OBVIOUS
<1>2. CASE Prints(v, 3, f.unit)
  <2>1. AllDigits(Counted(v, 3)) BY <1>2 DEF Prints
  <2>2. Reading(f, v) = Amount(v, 3) BY <1>2 DEF Reading
  <2> QED BY <1>1, <2>1, <2>2, AmountIs
<1>3. CASE ~Prints(v, 3, f.unit)
  <2>1. AllDigits(Counted(v, 0)) BY <1>3 DEF Prints, IsReading
  <2>2. Reading(f, v) = Amount(v, 0) BY <1>3 DEF Reading
  <2>3. PICK r, a, b : r = Reading(f, v) /\ a = Magnitude(v, 0) /\ b = Magnitude(v, 3)
    OBVIOUS
  <2>4. r \in Int /\ a \in Nat /\ r <= a /\ -a <= r BY <1>1, <2>1, <2>2, <2>3, AmountIs
  <2>5. b \in Nat /\ a <= b BY <1>1, <2>3, MagnitudeIs
  <2>6. r <= b /\ -b <= r BY <2>4, <2>5
  <2> QED BY <2>3, <2>4, <2>5, <2>6
<1> QED BY <1>2, <1>3

(* The line of an average of m entries whose numbers are small.            *)
Averages(f, l, m) ==
  /\ f.kind = "AveragedFixedField" /\ HasCount(f, l) /\ Count(l) = m
  /\ Small(f, l)

(* The numbers of its entries are among the summands. *)
LEMMA EntriesFit ==
  ASSUME NEW l, IsLine(l), NEW f, NEW m \in Nat, Averages(f, l, m), NEW i \in 1..m,
         3 * i + 3 <= Len(l)
  PROVE  /\ Summands(f, l)[3 * i + 3] = Magnitude(l[3 * i + 3], 3)
         /\ Magnitude(l[3 * i + 3], 3) <= IntMax
<1>1. PICK n : n = 3 + 3 * i OBVIOUS
<1>2. n \in 1..Len(l) /\ n = 3 * i + 3 BY <1>1, InLine
<1>3. n \in Numbers(f, l) BY <1>1 DEF Averages, Numbers, Entries
<1>4. f.kind # "IntField" /\ HasCount(f, l) /\ Small(f, l) BY DEF Averages
<1>5. Magnitude(l[n], 3) <= IntMax BY <1>2, <1>3, <1>4, NumberFits
<1>6. Summands(f, l)[n] = Magnitude(l[n], 3)
  BY <1>2, <1>3, <1>4, SummandsOfLine DEF MaxDecimals
<1> QED BY <1>2, <1>5, <1>6

(* The sums of the entries before the j-th one. *)
RunningReadings(S, f, l, j) ==
  /\ S[0] = 0
  /\ \A i \in 1..(j - 1) : S[i] = S[i - 1] + Reading(f, l[3 * i + 3])
  /\ \A i \in 0..(j - 1) : S[i] \in Int /\ Fits(S[i])
  /\ Total([i \in 1..(j - 1) |-> Reading(f, l[3 + 3 * i])]) = S[j - 1]

(* The readings before that entry have partial sums, and these fit. *)
LEMMA ReadingsRun ==
  ASSUME NEW l, IsLine(l), 3 <= Len(l), NEW f, NEW m \in Nat, Averages(f, l, m),
         NEW j, EndsAdding(f, l, m, j)
  PROVE  \E S : RunningReadings(S, f, l, j)
<1>1. PICK k : k = Len(l) OBVIOUS
<1>2. k \in Nat /\ 3 <= k /\ \A i \in 1..k : IsPrintedValue(l[i])
  BY <1>1, InLine DEF IsLine
<1>3. PICK q : q = j - 1 /\ q \in Nat /\ \A i \in 1..q : i \in 1..m
  BY DEF EndsAdding
<1>4. ASSUME NEW i \in 1..q
      PROVE  /\ 3 * i + 3 \in 1..k /\ 3 * i + 3 = 3 + 3 * i
             /\ IsReading(f, l[3 * i + 3])
  <2>1. Entry(f, l, 3 * i) BY <1>3, <1>4 DEF EndsAdding
  <2>2. 3 * i + 3 <= k /\ IsReading(f, l[3 * i + 3]) BY <1>1, <2>1 DEF Entry
  <2>3. i \in Nat /\ i >= 1 BY <1>3
  <2> QED BY <1>2, <2>2, <2>3
<1>5. ASSUME NEW i \in 1..q
      PROVE  /\ Reading(f, l[3 * i + 3]) \in Int /\ Magnitude(l[3 * i + 3], 3) \in Nat
             /\ Reading(f, l[3 * i + 3]) <= Magnitude(l[3 * i + 3], 3)
             /\ -Magnitude(l[3 * i + 3], 3) <= Reading(f, l[3 * i + 3])
  <2>1. PICK v : v = l[3 * i + 3] OBVIOUS
  <2>2. IsPrintedValue(v) /\ IsReading(f, v) BY <1>2, <1>4, <2>1
  <2>3. /\ Reading(f, v) \in Int /\ Magnitude(v, 3) \in Nat
        /\ Reading(f, v) <= Magnitude(v, 3) /\ -Magnitude(v, 3) <= Reading(f, v)
    BY <2>2, ReadingIs
  <2> QED BY <2>1, <2>3
<1> DEFINE s == [i \in 1..q |-> Reading(f, l[3 + 3 * i])]
<1>6. s \in [1..q -> Int] BY <1>4, <1>5
<1>7. \A i \in 1..q : s[i] = Reading(f, l[3 * i + 3]) BY <1>4
<1>8. s \in Seq(Int) /\ Len(s) = q
  <2>1. s \in Seq(Int)
    <3> HIDE DEF s
    <3> QED BY <1>3, <1>6
  <2>2. DOMAIN s = 1..q OBVIOUS
  <2> HIDE DEF s
  <2> QED BY <1>3, <2>1, <2>2, LenProperties
<1>9. Total(s) = Total([i \in 1..(j - 1) |-> Reading(f, l[3 + 3 * i])]) BY <1>3
<1> HIDE DEF s
<1>10. PICK S : PartialSums(S, s) /\ Total(s) = S[Len(s)]
  <2>1. s \in Seq(Int) BY <1>8
  <2> QED BY <2>1, TotalIs
<1>11. /\ S[0] = 0 /\ \A i \in 0..q : S[i] \in Int
       /\ \A i \in 1..q : S[i] = S[i - 1] + s[i]
  BY <1>8, <1>10 DEF PartialSums
<1>12. PICK t : RunningSummands(t, f, l) BY SmallLine DEF Averages
<1>13. /\ \A i \in 0..k : t[i] \in Nat /\ t[i] <= IntMax
       /\ \A i \in 1..k : t[i] = t[i - 1] + Summands(f, l)[i]
       /\ \A p \in 0..k : \A i \in 0..p : t[i] <= t[p]
  BY <1>1, <1>12 DEF RunningSummands
<1> DEFINE Bad == {i \in 0..q : ~(-t[3 + 3 * i] <= S[i] /\ S[i] <= t[3 + 3 * i])}
<1>14. Bad = {}
  <2>1. 0 \notin Bad
    <3>1. t[3] \in Nat /\ 3 + 3 * 0 = 3 BY <1>2, <1>13
    <3>2. S[0] = 0 BY <1>11
    <3> QED BY <3>1, <3>2
  <2>2. ASSUME NEW i \in Bad, i # 0 PROVE i - 1 \in Bad
    <3>1. i \in 1..q /\ i - 1 \in 0..q /\ i \in 0..q BY <1>3, <2>2
    <3>2. SUFFICES ASSUME -t[3 + 3 * (i - 1)] <= S[i - 1],
                          S[i - 1] <= t[3 + 3 * (i - 1)]
                   PROVE  -t[3 + 3 * i] <= S[i] /\ S[i] <= t[3 + 3 * i]
      BY <2>2, <3>1
    <3>3. PICK n : n = 3 * i OBVIOUS
    <3>4. n + 3 \in 1..k /\ n + 2 \in 0..k /\ n \in 0..(n + 2) /\ (n + 3) - 1 = n + 2
          /\ 3 + 3 * (i - 1) = n /\ 3 + 3 * i = n + 3 /\ n \in 0..k
      BY <1>2, <1>4, <3>1, <3>3
    <3>5. PICK R, h : R = Reading(f, l[n + 3]) /\ h = Magnitude(l[n + 3], 3) OBVIOUS
    <3>6. R \in Int /\ h \in Nat /\ R <= h /\ -h <= R BY <1>5, <3>1, <3>3, <3>5
    <3>7. S[i] = S[i - 1] + R BY <1>7, <1>11, <3>1, <3>3, <3>5
    <3>8. t[n + 3] = t[n + 2] + h /\ t[n] <= t[n + 2]
      <4>1. i \in 1..m /\ 3 * i + 3 <= Len(l) BY <1>1, <1>3, <3>1, <3>3, <3>4
      <4>2. Summands(f, l)[n + 3] = h BY <3>3, <3>5, <4>1, EntriesFit
      <4> QED BY <1>13, <3>4, <4>2
    <3>9. PICK a, b, c, x, y : /\ a = t[n] /\ b = t[n + 2] /\ c = t[n + 3]
                               /\ x = S[i - 1] /\ y = S[i]
      OBVIOUS
    <3>10. a \in Nat /\ b \in Nat /\ c = b + h /\ a <= b /\ x \in Int /\ y = x + R
           /\ -a <= x /\ x <= a
      BY <1>11, <1>13, <3>1, <3>2, <3>4, <3>7, <3>8, <3>9
    <3>11. -c <= y /\ y <= c BY <3>6, <3>10
    <3> QED BY <3>4, <3>9, <3>11
  <2>3. Bad \subseteq Nat BY <1>3
  <2> HIDE DEF Bad
  <2> QED BY <2>1, <2>2, <2>3, NoLeast
<1>15. ASSUME NEW i \in 0..q PROVE S[i] \in Int /\ Fits(S[i])
  <2>1. 3 + 3 * i \in 0..k
    <3>1. CASE i = 0 BY <1>2, <3>1
    <3>2. CASE i # 0
      <4>1. i \in 1..q BY <1>3, <3>2
      <4> QED BY <1>4, <4>1
    <3> QED BY <3>1, <3>2
  <2>2. PICK c, y : c = t[3 + 3 * i] /\ y = S[i] OBVIOUS
  <2>3. c \in Nat /\ c <= IntMax /\ y \in Int /\ -c <= y /\ y <= c
    BY <1>11, <1>13, <1>14, <1>15, <2>1, <2>2
  <2>4. IntMax \in Nat BY IntBitsAssumption
  <2>5. Fits(y) BY <2>3, <2>4 DEF Fits
  <2> QED BY <2>2, <2>3, <2>5
<1>16. Total([i \in 1..(j - 1) |-> Reading(f, l[3 + 3 * i])]) = S[j - 1]
  BY <1>3, <1>8, <1>9, <1>10
<1>17. \A i \in 1..q : S[i] = S[i - 1] + Reading(f, l[3 * i + 3]) BY <1>7, <1>11
<1>18. RunningReadings(S, f, l, j)
  BY <1>3, <1>11, <1>15, <1>16, <1>17 DEF RunningReadings
<1> QED BY <1>18

(* The loop of AveragedFixedField. *)
Adds(total, f, first, m) ==
  total = [i \in 0..m |-> IF i = 0 THEN first ELSE Add(f, total[i - 1])]

Sums(l, j, S, m) == [i \in 0..m |-> IF i < j THEN Added(S[i], TextAfter(l, 3 + 3 * i))
                                    ELSE NotAdded(S[j - 1])]

(* The results of the turns of the loop are these sums. *)
LEMMA SumsAre ==
  ASSUME NEW l, IsLine(l), 3 <= Len(l), NEW f, IsFixed(f), NEW m \in Nat,
         Averages(f, l, m),
         NEW j, EndsAdding(f, l, m, j), NEW S, RunningReadings(S, f, l, j)
  PROVE  Adds(Sums(l, j, S, m), f, Added(0, TextAfter(l, 3)), m)
<1>1. PICK w, k, first : /\ w = Sums(l, j, S, m) /\ k = Len(l)
                         /\ first = Added(0, TextAfter(l, 3))
  OBVIOUS
<1>2. /\ j \in 1..(m + 1) /\ k \in Nat /\ 3 <= k /\ j \in Nat
      /\ \A i \in 1..(j - 1) : Entry(f, l, 3 * i)
      /\ j <= m => ~Entry(f, l, 3 * j)
  BY <1>1, InLine DEF EndsAdding
<1>3. /\ S[0] = 0
      /\ \A i \in 1..(j - 1) : S[i] = S[i - 1] + Reading(f, l[3 * i + 3])
      /\ \A i \in 0..(j - 1) : S[i] \in Int /\ Fits(S[i])
  BY DEF RunningReadings
<1>4. w = [i \in 0..m |-> IF i < j THEN Added(S[i], TextAfter(l, 3 + 3 * i))
                          ELSE NotAdded(S[j - 1])]
  BY <1>1 DEF Sums
(* The numbers of the entries are small. *)
<1>0. ASSUME NEW i \in 1..m, NEW n, n = 3 * i
      PROVE  n + 3 <= Len(l) => Magnitude(l[n + 3], 3) <= IntMax
  BY <1>0, EntriesFit
(* Up to each entry that is added there is a line. *)
<1>5. ASSUME NEW i \in 1..j PROVE 3 * i \in 0..Len(l)
  <2>1. CASE i = 1
    <3>1. 3 * i = 3 BY <2>1
    <3> QED BY <1>1, <1>2, <3>1
  <2>2. CASE i # 1
    <3>1. i - 1 \in 1..(j - 1) /\ i \in Nat /\ 3 * (i - 1) + 3 = 3 * i BY <1>2, <2>2
    <3>2. 3 * (i - 1) + 3 <= Len(l) BY <1>2, <3>1 DEF Entry
    <3> QED BY <1>1, <1>2, <3>1, <3>2
  <2> QED BY <2>1, <2>2
<1>6. ASSUME NEW i \in 0..m
      PROVE  w[i] = IF i = 0 THEN first ELSE Add(f, w[i - 1])
  <2>1. CASE i = 0
    <3>1. i < j /\ 3 + 3 * i = 3 BY <1>2, <2>1
    <3> QED BY <1>1, <1>3, <1>4, <2>1, <3>1
  <2>2. CASE i # 0 /\ i < j
    <3>1. i \in 1..(j - 1) /\ i \in 1..j /\ i - 1 \in 0..m /\ i - 1 < j
          /\ i - 1 \in 0..(j - 1) /\ i \in 0..(j - 1)
      BY <1>2, <2>2
    <3>2. PICK n, s : n = 3 * i /\ s = S[i - 1] OBVIOUS
    <3>3. n \in 0..Len(l) /\ 3 + 3 * (i - 1) = n /\ 3 + 3 * i = n + 3
      BY <1>5, <3>1, <3>2
    <3>4. w[i - 1] = Added(s, TextAfter(l, n)) BY <1>4, <3>1, <3>2, <3>3
    <3>5. w[i] = Added(S[i], TextAfter(l, n + 3)) BY <1>4, <2>2, <3>3
    <3>6. PICK R : R = Reading(f, l[n + 3]) OBVIOUS
    <3>7. Entry(f, l, n) /\ S[i] = s + R /\ s \in Int /\ Fits(s) /\ Fits(s + R)
      BY <1>2, <1>3, <3>1, <3>2, <3>6
    <3>8. R \in Int
      <4>1. n + 3 \in 1..Len(l) /\ IsReading(f, l[n + 3])
        <5>1. n + 3 <= Len(l) /\ IsReading(f, l[n + 3]) BY <3>7 DEF Entry
        <5> QED BY <1>1, <1>2, <3>3, <5>1
      <4>2. IsPrintedValue(l[n + 3]) BY <4>1 DEF IsLine
      <4> QED BY <3>6, <4>1, <4>2, ReadingIs
    <3>9. Add(f, Added(s, TextAfter(l, n))) = Added(s + R, TextAfter(l, n + 3))
      <4>1. i \in 1..m BY <2>2
      <4>2. n + 3 <= Len(l) => Magnitude(l[n + 3], 3) <= IntMax BY <1>0, <3>2, <4>1
      <4> QED BY <3>3, <3>6, <3>7, <3>8, <4>2, AddEntry
    <3> QED BY <2>2, <3>4, <3>5, <3>7, <3>9
  <2>3. CASE i = j
    <3>1. i \in 1..j /\ i - 1 \in 0..m /\ i - 1 < j /\ j - 1 \in 0..(j - 1) /\ ~(i < j)
          /\ i # 0 /\ j <= m
      BY <1>2, <2>3
    <3>2. PICK n, s : n = 3 * i /\ s = S[j - 1] OBVIOUS
    <3>3. n \in 0..Len(l) /\ 3 + 3 * (i - 1) = n BY <1>5, <3>1, <3>2
    <3>4. w[i - 1] = Added(s, TextAfter(l, n)) BY <1>4, <2>3, <3>1, <3>2, <3>3
    <3>5. w[i] = NotAdded(s) BY <1>4, <3>1, <3>2
    <3>6. ~Entry(f, l, n) /\ s \in Int /\ Fits(s) BY <1>2, <1>3, <2>3, <3>1, <3>2
    <3>7. Add(f, Added(s, TextAfter(l, n))) = NotAdded(s)
      <4>1. i \in 1..m BY <3>1
      <4>2. n + 3 <= Len(l) => Magnitude(l[n + 3], 3) <= IntMax BY <1>0, <3>2, <4>1
      <4> QED BY <3>3, <3>6, <4>2, AddEntry
    <3> QED BY <3>1, <3>4, <3>5, <3>7
  <2>4. CASE j < i
    <3>1. i - 1 \in 0..m /\ ~(i - 1 < j) /\ j - 1 \in 0..(j - 1) /\ ~(i < j) /\ i # 0
          /\ k \in 0..Len(l) /\ ~(k + 3 <= Len(l))
      BY <1>1, <1>2, <2>4
    <3>2. PICK s : s = S[j - 1] OBVIOUS
    <3>3. w[i] = NotAdded(s) /\ w[i - 1] = NotAdded(s) BY <1>4, <3>1, <3>2
    <3>4. s \in Int /\ Fits(s) BY <1>3, <3>1, <3>2
    <3>5. Add(f, NotAdded(s)) = NotAdded(s) BY <3>1, <3>4, AddEntry
    <3> QED BY <3>1, <3>3, <3>5
  <2>5. i = 0 \/ (i # 0 /\ i < j) \/ i = j \/ j < i BY <1>2
  <2> QED BY <2>1, <2>2, <2>3, <2>4, <2>5
<1>7. w = [i \in 0..m |-> w[i]] BY <1>4
<1>8. w = [i \in 0..m |-> IF i = 0 THEN first ELSE Add(f, w[i - 1])] BY <1>6, <1>7
<1> QED BY <1>1, <1>8 DEF Adds

(* The loop has one course. *)
LEMMA AddsOnce ==
  ASSUME NEW f, NEW first, NEW m \in Nat, NEW x, Adds(x, f, first, m),
         NEW y, Adds(y, f, first, m)
  PROVE  \A i \in 0..m : x[i] = y[i]
<1>1. /\ \A i \in 0..m : x[i] = IF i = 0 THEN first ELSE Add(f, x[i - 1])
      /\ \A i \in 0..m : y[i] = IF i = 0 THEN first ELSE Add(f, y[i - 1])
  BY DEF Adds
<1>2. 0 \in 0..m /\ \A i \in 1..m : i \in 0..m /\ i # 0 OBVIOUS
<1>3. x[0] = y[0] BY <1>1, <1>2
<1>4. \A i \in 1..m : x[i - 1] = y[i - 1] => x[i] = y[i] BY <1>1, <1>2
<1>5. SameSteps(x, y, m) BY <1>3, <1>4 DEF SameSteps
<1> QED BY <1>5, SameRecursion

(* The result of the loop over m entries. *)
EntriesGive(f, l, m, last) ==
  /\ (\A i \in 1..m : Entry(f, l, 3 * i)) =>
       \E s \in Int : /\ s = Total([i \in 1..m |-> Reading(f, l[3 + 3 * i])])
                      /\ last = Added(s, TextAfter(l, 3 + 3 * m))
  /\ ~(\A i \in 1..m : Entry(f, l, 3 * i)) => last.ok = FALSE /\ last.over = FALSE

(* The loop ends with the sum of the readings, or with a refusal. *)
LEMMA AveragingGives ==
  ASSUME NEW l, IsLine(l), 3 <= Len(l), NEW f, IsFixed(f),
         NEW m, m \in Nat \ {0}, Averages(f, l, m), NEW total,
         Adds(total, f, Added(0, TextAfter(l, 3)), m)
  PROVE  EntriesGive(f, l, m, total[m])
<1>1. PICK j : EndsAdding(f, l, m, j) BY AddingEnds
<1>2. PICK S : RunningReadings(S, f, l, j) BY <1>1, ReadingsRun
<1>3. Adds(Sums(l, j, S, m), f, Added(0, TextAfter(l, 3)), m)
  BY <1>1, <1>2, SumsAre
<1>4. total[m] = Sums(l, j, S, m)[m]
  <2>1. m \in 0..m /\ m \in Nat OBVIOUS
  <2> QED BY <1>3, <2>1, AddsOnce
<1>5. total[m] = IF m < j THEN Added(S[m], TextAfter(l, 3 + 3 * m))
                 ELSE NotAdded(S[j - 1])
  <2>1. m \in 0..m OBVIOUS
  <2> QED BY <1>4, <2>1 DEF Sums
<1>6. /\ j \in 1..(m + 1) /\ \A i \in 1..(j - 1) : Entry(f, l, 3 * i)
      /\ j <= m => ~Entry(f, l, 3 * j)
  BY <1>1 DEF EndsAdding
<1>7. CASE j = m + 1
  <2>1. m < j /\ j - 1 = m /\ m \in 0..(j - 1) BY <1>7
  <2>2. S[m] \in Int /\ Total([i \in 1..m |-> Reading(f, l[3 + 3 * i])]) = S[m]
    BY <1>2, <2>1 DEF RunningReadings
  <2>3. \A i \in 1..m : Entry(f, l, 3 * i) BY <1>6, <2>1
  <2>4. total[m] = Added(S[m], TextAfter(l, 3 + 3 * m)) BY <1>5, <2>1
  <2>5. \E s \in Int : /\ s = Total([i \in 1..m |-> Reading(f, l[3 + 3 * i])])
                       /\ total[m] = Added(s, TextAfter(l, 3 + 3 * m))
    BY <2>2, <2>4
  <2> QED BY <2>3, <2>5, Zenon DEF EntriesGive
<1>8. CASE j # m + 1
  <2>1. j \in 1..m /\ ~(m < j) /\ j <= m BY <1>6, <1>8
  <2>2. total[m].ok = FALSE /\ total[m].over = FALSE BY <1>5, <2>1 DEF NotAdded
  <2>3. ~\A i \in 1..m : Entry(f, l, 3 * i) BY <1>6, <2>1
  <2> QED BY <2>2, <2>3, Zenon DEF EntriesGive
<1> QED BY <1>7, <1>8

(* What the line of an average has to be, entry by entry. *)
LEMMA SaysAverage ==
  ASSUME NEW l, IsLine(l), NEW f, f.kind = "AveragedFixedField",
         NEW m \in Nat \ {0}, Count(l) = m
  PROVE  /\ Says(f, l) <=> /\ HasCount(f, l) /\ TwoStrings(l, 1)
                           /\ \A i \in 1..m : Entry(f, l, 3 * i)
         /\ End(f, l) = 3 + 3 * m
<1>1. PICK k : k = Len(l) OBVIOUS
<1>2. DOMAIN l = 1..k /\ k \in Nat BY <1>1, InLine
<1>3. /\ Entries(l) = {3 + 3 * i : i \in 1..m} /\ Numbers(f, l) = Entries(l)
      /\ Strings(f, l) = {2, 3} \cup UNION {{i - 2, i - 1} : i \in Entries(l)}
      /\ Lengths(f) = 1..20 /\ f.kind # "IntField"
  <2>1. m # 0 OBVIOUS
  <2> QED BY <2>1 DEF Entries, Numbers, Strings, Lengths
<1>4. /\ 2 \in Strings(f, l) /\ 3 \in Strings(f, l)
      /\ \A i \in 1..m : /\ 3 * i + 3 \in Numbers(f, l)
                         /\ 3 * i + 1 \in Strings(f, l) /\ 3 * i + 2 \in Strings(f, l)
      /\ \A x \in Numbers(f, l) : \E i \in 1..m : x = 3 * i + 3
      /\ \A x \in Strings(f, l) : \/ x = 2 \/ x = 3
                                  \/ \E i \in 1..m : x = 3 * i + 1 \/ x = 3 * i + 2
  <2>1. \A x \in Numbers(f, l) : \E i \in 1..m : x = 3 * i + 3
    <3>1. ASSUME NEW x \in Numbers(f, l) PROVE \E i \in 1..m : x = 3 * i + 3
      <4>1. PICK i \in 1..m : x = 3 + 3 * i BY <1>3
      <4>2. x = 3 * i + 3 BY <4>1
      <4> QED BY <4>2
    <3> QED BY <3>1
  <2>2. ASSUME NEW i \in 1..m
        PROVE  /\ 3 * i + 3 \in Numbers(f, l)
               /\ 3 * i + 1 \in Strings(f, l) /\ 3 * i + 2 \in Strings(f, l)
    <3>1. PICK x : x = 3 + 3 * i OBVIOUS
    <3>2. x \in Entries(l) BY <1>3, <3>1
    <3>3. x - 2 \in Strings(f, l) /\ x - 1 \in Strings(f, l) BY <1>3, <3>2
    <3>4. x = 3 * i + 3 /\ x - 2 = 3 * i + 1 /\ x - 1 = 3 * i + 2 BY <3>1
    <3> QED BY <1>3, <3>2, <3>3, <3>4
  <2>3. ASSUME NEW x \in Strings(f, l), x # 2, x # 3
        PROVE  \E i \in 1..m : x = 3 * i + 1 \/ x = 3 * i + 2
    <3>1. PICK y \in Entries(l) : x = y - 2 \/ x = y - 1 BY <1>3, <2>3
    <3>2. PICK i \in 1..m : y = 3 + 3 * i BY <1>3
    <3>3. x = 3 * i + 1 \/ x = 3 * i + 2 BY <3>1, <3>2
    <3> QED BY <3>3
  <2>4. 2 \in Strings(f, l) /\ 3 \in Strings(f, l) BY <1>3
  <2> QED BY <2>1, <2>2, <2>3, <2>4
<1>5. ASSUME Says(f, l)
      PROVE  /\ HasCount(f, l) /\ TwoStrings(l, 1)
             /\ \A i \in 1..m : Entry(f, l, 3 * i)
  <2>1. /\ HasCount(f, l)
        /\ \A x \in Strings(f, l) : x \in 1..k /\ IsString(l[x], 1..20)
        /\ \A x \in Numbers(f, l) : x \in 1..k /\ IsReading(f, l[x])
    BY <1>2, <1>3, <1>5 DEF Says
  <2>2. TwoStrings(l, 1)
    <3>1. 1 + 2 = 3 /\ 1 + 1 = 2 OBVIOUS
    <3>2. 3 <= Len(l) BY <1>1, <1>2, <1>4, <2>1
    <3> QED BY <1>4, <2>1, <3>1, <3>2 DEF TwoStrings
  <2>3. ASSUME NEW i \in 1..m PROVE Entry(f, l, 3 * i)
    <3>1. /\ 3 * i + 3 \in 1..k /\ IsReading(f, l[3 * i + 3])
          /\ IsString(l[3 * i + 1], 1..20) /\ IsString(l[3 * i + 2], 1..20)
      BY <1>4, <2>1
    <3>2. 3 * i + 3 <= k /\ 3 * i + 2 <= k BY <1>2, <3>1
    <3> QED BY <1>1, <3>1, <3>2 DEF Entry, TwoStrings
  <2> QED BY <2>1, <2>2, <2>3
<1>6. ASSUME HasCount(f, l), TwoStrings(l, 1), \A i \in 1..m : Entry(f, l, 3 * i)
      PROVE  Says(f, l)
  <2>1. 1 + 2 = 3 /\ 1 + 1 = 2 OBVIOUS
  <2>2. 3 <= k /\ IsString(l[2], 1..20) /\ IsString(l[3], 1..20)
    BY <1>1, <1>6, <2>1 DEF TwoStrings
  <2>3. ASSUME NEW i \in 1..m
        PROVE  /\ 3 * i + 3 \in 1..k /\ 3 * i + 2 \in 1..k /\ 3 * i + 1 \in 1..k
               /\ IsReading(f, l[3 * i + 3])
               /\ IsString(l[3 * i + 1], 1..20) /\ IsString(l[3 * i + 2], 1..20)
    <3>1. /\ 3 * i + 3 <= k /\ IsReading(f, l[3 * i + 3])
          /\ IsString(l[3 * i + 1], 1..20) /\ IsString(l[3 * i + 2], 1..20)
      BY <1>1, <1>6 DEF Entry, TwoStrings
    <3> QED BY <1>2, <3>1
  <2>4. \A x \in Strings(f, l) : x \in DOMAIN l /\ IsString(l[x], Lengths(f))
    <3>1. 2 \in 1..k /\ 3 \in 1..k BY <1>2, <2>2
    <3> QED BY <1>2, <1>3, <1>4, <2>2, <2>3, <3>1
  <2>5. \A x \in Numbers(f, l) : x \in DOMAIN l /\ IsReading(f, l[x])
    BY <1>2, <1>4, <2>3
  <2> QED BY <1>3, <1>6, <2>4, <2>5 DEF Says
<1>7. End(f, l) = 3 + 3 * m
  <2>1. PICK e : e = 3 + 3 * m OBVIOUS
  <2>2. m \in 1..m /\ e = 3 * m + 3 BY <2>1
  <2> DEFINE A == Numbers(f, l) \cup Strings(f, l)
  <2>3. e \in A BY <1>4, <2>2
  <2>4. A \subseteq Int /\ \A x \in A : e >= x
    <3>1. ASSUME NEW x \in A PROVE x \in Int /\ e >= x
      <4>1. \/ x = 2 \/ x = 3
            \/ \E i \in 1..m : x = 3 * i + 1 \/ x = 3 * i + 2 \/ x = 3 * i + 3
        BY <1>4
      <4>2. CASE x = 2 \/ x = 3 BY <2>2, <4>2
      <4>3. ASSUME NEW i \in 1..m, x = 3 * i + 1 \/ x = 3 * i + 2 \/ x = 3 * i + 3
            PROVE  x \in Int /\ e >= x
        BY <2>2, <4>3
      <4> QED BY <4>1, <4>2, <4>3
    <3> QED BY <3>1
  <2> HIDE DEF A
  <2>5. Max(A) = e BY <2>3, <2>4, MaxIs
  <2>6. ~(f.kind = "AveragedFixedField" /\ Count(l) = 0)
    <3>1. m # 0 OBVIOUS
    <3> QED BY <3>1
  <2> QED BY <2>1, <2>5, <2>6 DEF End, A
<1> QED BY <1>5, <1>6, <1>7

(* A result with another value. *)
LEMMA SetVal ==
  ASSUME NEW good, NEW n, NEW T, NEW over, NEW q
  PROVE  [[ok |-> good, val |-> n, rest |-> T, over |-> over] EXCEPT !.val = q]
           = [ok |-> good, val |-> q, rest |-> T, over |-> over]
OBVIOUS

(* A result with another rest. *)
LEMMA SetRest ==
  ASSUME NEW good, NEW n, NEW T, NEW over, NEW U
  PROVE  [[ok |-> good, val |-> n, rest |-> T, over |-> over] EXCEPT !.rest = U]
           = [ok |-> good, val |-> n, rest |-> U, over |-> over]
OBVIOUS

(* The whole of AveragedFixedField, by what its count and its header are.  *)
Averaged(f, count, header) ==
  LET total[i \in 0..count.val] ==
        IF i = 0
        THEN [ok |-> TRUE, val |-> 0, rest |-> header.rest, over |-> count.over]
        ELSE Add(f, total[i - 1])
  IN  [total[count.val] EXCEPT !.val = Quotient(@, count.val)]

(* How parse goes on after the count: it stops, returns 0, or enters the   *)
(* loop.                                                                   *)
LEMMA AveragedIs ==
  ASSUME NEW f, NEW text
  PROVE  LET count  == parse_num(0, <<>>, text)
             header == AfterTwoStrings(count.rest)
         IN  AveragedFixedField(f, text) =
               IF ~count.ok THEN count
               ELSE IF count.val = 0 THEN [count EXCEPT !.rest = <<>>]
               ELSE IF ~header.ok THEN Refused(count.over)
               ELSE IF count.val < 0 THEN [count EXCEPT !.val = 0, !.rest = header.rest]
               ELSE Averaged(f, count, header)
BY DEF AveragedFixedField, Averaged

LoopEnds(total, f, l, m, count, header) ==
  /\ Adds(total, f, Added(0, TextAfter(l, 3)), m)
  /\ Averaged(f, count, header) = [total[m] EXCEPT !.val = Quotient(total[m].val, m)]

(* The loop ends so for every count. *)
LEMMA AveragedLoop ==
  ASSUME NEW l, IsLine(l), 3 <= Len(l), NEW f, IsFixed(f),
         NEW m, m \in Nat \ {0}, Averages(f, l, m), NEW count, count.val = m, count.over = FALSE,
         NEW header, header.rest = TextAfter(l, 3)
  PROVE  \E total : LoopEnds(total, f, l, m, count, header)
<1>1. PICK first : first = Added(0, TextAfter(l, 3)) OBVIOUS
<1> DEFINE total == CHOOSE x : Adds(x, f, first, m)
<1>2. Adds(total, f, first, m)
  <2>1. PICK j : EndsAdding(f, l, m, j) BY AddingEnds
  <2>2. PICK S : RunningReadings(S, f, l, j) BY <2>1, ReadingsRun
  <2>3. Adds(Sums(l, j, S, m), f, first, m) BY <1>1, <2>1, <2>2, SumsAre
  <2> QED BY <2>3
<1>3. Averaged(f, count, header) = [total[m] EXCEPT !.val = Quotient(total[m].val, m)]
  <2>1. first = [ok |-> TRUE, val |-> 0, rest |-> header.rest, over |-> count.over]
    BY <1>1 DEF Added
  <2>2. \A x : Adds(x, f, first, m)
               <=> x = [i \in 0..m |->
                          IF i = 0 THEN [ok |-> TRUE, val |-> 0, rest |-> header.rest,
                                         over |-> count.over]
                          ELSE Add(f, x[i - 1])]
    BY <2>1, Zenon DEF Adds
  <2>3. total = CHOOSE x : x = [i \in 0..m |->
                          IF i = 0 THEN [ok |-> TRUE, val |-> 0, rest |-> header.rest,
                                         over |-> count.over]
                          ELSE Add(f, x[i - 1])]
    BY <2>1, Zenon DEF Adds
  <2> HIDE DEF total
  <2> QED BY <2>3, Zenon DEF Averaged
<1>4. LoopEnds(total, f, l, m, count, header) BY <1>1, <1>2, <1>3 DEF LoopEnds
<1> QED BY <1>4

(* The count is read without a unit. *)
LEMMA NoUnitIsText == IsUnitText(<<>>)
<1>1. DOMAIN <<>> = {} OBVIOUS
<1>2. <<>> \in Seq(STRING) OBVIOUS
<1> QED BY <1>1, <1>2 DEF IsUnitText, Lacks

(* A count that is not positive. *)
LEMMA SaysNoEntries ==
  ASSUME NEW l, IsLine(l), NEW f, f.kind = "AveragedFixedField",
         NEW m \in Int, Count(l) = m, m <= 0
  PROVE  /\ m = 0 => (Says(f, l) <=> HasCount(f, l)) /\ End(f, l) = Len(l)
         /\ m # 0 => /\ Says(f, l) <=> HasCount(f, l) /\ TwoStrings(l, 1)
                     /\ End(f, l) = 3
         /\ \A n : IsValue(n, f, l) <=> n = 0
<1>1. Entries(l) = {}
  <2>1. 1..m = {} OBVIOUS
  <2> QED BY <2>1 DEF Entries
<1>2. Numbers(f, l) = {} BY <1>1 DEF Numbers
<1>3. \A n : IsValue(n, f, l) <=> n = 0 BY DEF IsValue
<1>4. CASE m = 0
  <2>1. Strings(f, l) = {} BY <1>4 DEF Strings
  <2>2. Says(f, l) <=> HasCount(f, l) BY <1>2, <2>1 DEF Says
  <2>3. End(f, l) = Len(l) BY <1>4 DEF End
  <2> QED BY <1>3, <1>4, <2>2, <2>3
<1>5. CASE m # 0
  <2>1. Strings(f, l) = {2, 3} BY <1>1, <1>5 DEF Strings
  <2>2. Lengths(f) = 1..20 BY DEF Lengths
  <2>3. DOMAIN l = 1..Len(l) /\ Len(l) \in Nat BY InLine
  <2>4. TwoStrings(l, 1) <=> /\ 3 <= Len(l)
                             /\ IsString(l[2], 1..20) /\ IsString(l[3], 1..20)
    <3>1. 1 + 2 = 3 /\ 1 + 1 = 2 OBVIOUS
    <3> QED BY <3>1 DEF TwoStrings
  <2>5. {2, 3} \subseteq DOMAIN l <=> 3 <= Len(l) BY <2>3
  <2>6. Says(f, l) <=> HasCount(f, l) /\ TwoStrings(l, 1)
    <3>1. Numbers(f, l) \cup Strings(f, l) = {2, 3} BY <1>2, <2>1
    <3>2. Says(f, l) <=> /\ HasCount(f, l) /\ {2, 3} \subseteq DOMAIN l
                         /\ \A i \in {2, 3} : IsString(l[i], 1..20)
      BY <1>2, <2>1, <2>2, <3>1 DEF Says
    <3> QED BY <2>4, <2>5, <3>2
  <2>7. End(f, l) = 3
    <3>1. Numbers(f, l) \cup Strings(f, l) = {2, 3} BY <1>2, <2>1
    <3>2. Max({2, 3}) = 3
      <4>1. 3 \in {2, 3} /\ {2, 3} \subseteq Int /\ \A y \in {2, 3} : 3 >= y OBVIOUS
      <4> QED BY <4>1, MaxIs
    <3> QED BY <1>5, <3>1, <3>2 DEF End
  <2> QED BY <1>3, <1>5, <2>6, <2>7
<1> QED BY <1>4, <1>5

(* The count of a small line fits. *)
LEMMA CountFits ==
  ASSUME NEW f, f.kind = "AveragedFixedField", NEW l, l # <<>>, Small(f, l)
  PROVE  Magnitude(l[1], 0) <= IntMax
BY DEF Small, Fits

(* An AveragedFixedField returns what its line says: the mean of the       *)
(* readings, rounded towards 0.                                            *)
LEMMA AveragedFieldHolds ==
  ASSUME NEW l, IsLine(l), NEW f, IsFixed(f), f.kind = "AveragedFixedField", Small(f, l)
  PROVE  Holds(AveragedFixedField(f, Text(l)), f, l)
<1>1. PICK r, count, header :
        /\ r = AveragedFixedField(f, Text(l))
        /\ count = parse_num(0, <<>>, Text(l))
        /\ header = AfterTwoStrings(count.rest)
  OBVIOUS
<1>2. r = IF ~count.ok THEN count
          ELSE IF count.val = 0 THEN [count EXCEPT !.rest = <<>>]
          ELSE IF ~header.ok THEN Refused(count.over)
          ELSE IF count.val < 0 THEN [count EXCEPT !.val = 0, !.rest = header.rest]
          ELSE Averaged(f, count, header)
  BY <1>1, AveragedIs
<1>3. Says(f, l) => HasCount(f, l) BY DEF Says
<1>4. CASE ~HasCount(f, l)
  <2>1. count = Refused(FALSE)
    <3>1. CASE 1 <= Len(l)
      <4>1. 1 \in 1..Len(l) /\ 1 - 1 = 0 /\ l # <<>> BY <3>1, InLine
      <4>2. ~Prints(l[1], 0, <<>>) BY <1>4, <4>1 DEF HasCount
      <4>5. Magnitude(l[1], 0) <= IntMax BY <4>1, CountFits
      <4>3. Gives(parse_num(0, <<>>, TextAfter(l, 1 - 1)), Prints(l[1], 0, <<>>),
                  Amount(l[1], 0), TextAfter(l, 1))
        BY <4>1, <4>5, NoUnitIsText, NumAt
      <4>4. TextAfter(l, 1 - 1) = Text(l) BY <4>1, InLine
      <4> QED BY <1>1, <4>2, <4>3, <4>4 DEF Gives
    <3>2. CASE ~(1 <= Len(l))
      <4>1. Len(l) = 0 BY <3>2, InLine
      <4>2. Text(l) = <<>> BY <4>1, InLine
      <4> QED BY <1>1, <4>2, NothingToRead
    <3> QED BY <3>1, <3>2
  <2>2. r = Refused(FALSE)
    <3>1. ~count.ok BY <2>1 DEF Refused
    <3> QED BY <1>2, <2>1, <3>1
  <2> QED BY <1>1, <1>3, <1>4, <2>2, RefusedHolds
<1>5. CASE HasCount(f, l)
  <2>1. l # <<>> /\ Prints(l[1], 0, <<>>) BY <1>5 DEF HasCount
  <2>2. 1 \in 1..Len(l) /\ 1 - 1 = 0 /\ 1 <= Len(l) BY <2>1, InLine
  <2>3. PICK m : m = Count(l) OBVIOUS
  <2>4. m \in Int
    <3>1. IsPrintedValue(l[1]) /\ AllDigits(Counted(l[1], 0)) /\ 0 \in {0, 3}
      BY <2>1, <2>2 DEF Prints, IsLine
    <3> QED BY <2>3, <3>1, AmountIs DEF Count
  <2>5. count = [ok |-> TRUE, val |-> m, rest |-> TextAfter(l, 1), over |-> FALSE]
    <3>1. Gives(parse_num(0, <<>>, TextAfter(l, 1 - 1)), Prints(l[1], 0, <<>>),
                Amount(l[1], 0), TextAfter(l, 1))
      BY <2>1, <2>2, CountFits, NoUnitIsText, NumAt
    <3>2. TextAfter(l, 1 - 1) = Text(l) BY <2>2, InLine
    <3> QED BY <1>1, <2>1, <2>3, <3>1, <3>2 DEF Gives, Count
  <2>6. /\ count.ok = TRUE /\ count.val = m /\ count.rest = TextAfter(l, 1)
        /\ count.over = FALSE
    BY <2>5
  <2>7. /\ TwoStrings(l, 1) => header.ok = TRUE /\ header.rest = TextAfter(l, 3)
        /\ ~TwoStrings(l, 1) => header = NoString
    <3>1. 1 \in 0..Len(l) /\ 1 + 2 = 3 BY <2>2, InLine
    <3>2. /\ TwoStrings(l, 1) =>
               /\ AfterTwoStrings(TextAfter(l, 1)).ok = TRUE
               /\ AfterTwoStrings(TextAfter(l, 1)).rest = TextAfter(l, 1 + 2)
          /\ ~TwoStrings(l, 1) => AfterTwoStrings(TextAfter(l, 1)) = NoString
      BY <3>1, TwoStringsAt
    <3> QED BY <1>1, <2>6, <3>1, <3>2
  <2>8. CASE m = 0
    <3>1. r = [count EXCEPT !.rest = <<>>] BY <1>2, <2>6, <2>8
    <3>2. r = [ok |-> TRUE, val |-> 0, rest |-> <<>>, over |-> FALSE]
      BY <2>5, <2>8, <3>1, SetRest
    <3>3. r.ok = TRUE /\ r.val = 0 /\ r.rest = <<>> /\ r.over = FALSE BY <3>2
    <3>4. Says(f, l) /\ End(f, l) = Len(l) /\ IsValue(0, f, l)
      <4>1. m <= 0 /\ Count(l) = m BY <2>3, <2>8
      <4>2. /\ Says(f, l) <=> HasCount(f, l)
            /\ End(f, l) = Len(l)
            /\ \A n : IsValue(n, f, l) <=> n = 0
        BY <2>4, <2>8, <4>1, SaysNoEntries
      <4> QED BY <1>5, <4>2
    <3>5. TextAfter(l, End(f, l)) = <<>> BY <3>4, InLine
    <3> QED BY <1>1, <3>3, <3>4, <3>5, SaysIsBoolean DEF Holds
  <2>9. CASE m # 0 /\ ~TwoStrings(l, 1)
    <3>1. header.ok = FALSE BY <2>7, <2>9 DEF NoString
    <3>2. r = Refused(FALSE) BY <1>2, <2>6, <2>9, <3>1
    <3>3. ~Says(f, l)
      <4>1. CASE m < 0 BY <2>3, <2>4, <2>9, <4>1, SaysNoEntries
      <4>2. CASE ~(m < 0)
        <5>1. m \in Nat \ {0} BY <2>4, <2>9, <4>2
        <5> QED BY <2>3, <2>9, <5>1, SaysAverage
      <4> QED BY <4>1, <4>2
    <3> QED BY <1>1, <3>2, <3>3, RefusedHolds
  <2>10. CASE m < 0 /\ TwoStrings(l, 1)
    <3>1. header.ok = TRUE /\ header.rest = TextAfter(l, 3) BY <2>7, <2>10
    <3>2. m # 0 BY <2>4, <2>10
    <3>3. r = [count EXCEPT !.val = 0, !.rest = header.rest]
      BY <1>2, <2>6, <2>10, <3>1, <3>2
    <3>4. r = [ok |-> TRUE, val |-> 0, rest |-> TextAfter(l, 3), over |-> FALSE]
      BY <2>5, <3>1, <3>3, SetVal, SetRest
    <3>5. r.ok = TRUE /\ r.val = 0 /\ r.rest = TextAfter(l, 3) /\ r.over = FALSE
      BY <3>4
    <3>6. Says(f, l) /\ End(f, l) = 3 /\ IsValue(0, f, l)
      <4>1. m <= 0 BY <2>4, <2>10
      <4> QED BY <1>5, <2>3, <2>4, <2>10, <3>2, <4>1, SaysNoEntries
    <3> QED BY <1>1, <3>5, <3>6, SaysIsBoolean DEF Holds
  <2>11. CASE m > 0 /\ TwoStrings(l, 1)
    <3>1. header.ok = TRUE /\ header.rest = TextAfter(l, 3) BY <2>7, <2>11
    <3>2. m \in Nat \ {0} /\ m # 0 /\ ~(m < 0) BY <2>4, <2>11
    <3>3. r = Averaged(f, count, header) BY <1>2, <2>6, <3>1, <3>2
    <3>4. 3 <= Len(l)
      <4>1. 1 + 2 = 3 OBVIOUS
      <4> QED BY <2>11, <4>1 DEF TwoStrings
    <3>0. Averages(f, l, m) BY <1>5, <2>3 DEF Averages
    <3>5. PICK total : /\ Adds(total, f, Added(0, TextAfter(l, 3)), m)
                       /\ Averaged(f, count, header)
                            = [total[m] EXCEPT !.val = Quotient(total[m].val, m)]
      <4>1. m \in Nat \ {0} BY <3>2
      <4>2. count.val = m /\ count.over = FALSE BY <2>6
      <4>3. header.rest = TextAfter(l, 3) BY <3>1
      <4>4. \E total : LoopEnds(total, f, l, m, count, header)
        BY <3>4, <3>0, <4>1, <4>2, <4>3, AveragedLoop
      <4> QED BY <4>4 DEF LoopEnds
    <3>6. PICK last : last = total[m] OBVIOUS
    <3>7. r = [last EXCEPT !.val = Quotient(last.val, m)] BY <3>3, <3>5, <3>6
    <3>8. /\ (\A i \in 1..m : Entry(f, l, 3 * i)) =>
               \E s \in Int : /\ s = Total([i \in 1..m |-> Reading(f, l[3 + 3 * i])])
                              /\ last = Added(s, TextAfter(l, 3 + 3 * m))
          /\ ~(\A i \in 1..m : Entry(f, l, 3 * i)) =>
               last.ok = FALSE /\ last.over = FALSE
      <4>1. m \in Nat \ {0} BY <3>2
      <4>2. Adds(total, f, Added(0, TextAfter(l, 3)), m) BY <3>5
      <4>3. EntriesGive(f, l, m, total[m]) BY <3>4, <3>0, <4>1, <4>2, AveragingGives
      <4> QED BY <3>6, <4>3 DEF EntriesGive
    <3>9. /\ Says(f, l) <=> \A i \in 1..m : Entry(f, l, 3 * i)
          /\ End(f, l) = 3 + 3 * m
      BY <1>5, <2>3, <2>11, <3>2, SaysAverage
    <3>10. CASE \A i \in 1..m : Entry(f, l, 3 * i)
      <4>1. PICK s \in Int : /\ s = Total([i \in 1..m |-> Reading(f, l[3 + 3 * i])])
                             /\ last = Added(s, TextAfter(l, 3 + 3 * m))
        BY <3>8, <3>10
      <4>2. last = [ok |-> TRUE, val |-> s, rest |-> TextAfter(l, 3 + 3 * m),
                    over |-> FALSE]
        BY <4>1 DEF Added
      <4>3. last.val = s BY <4>2
      <4>4. r = [ok |-> TRUE, val |-> Quotient(s, m), rest |-> TextAfter(l, 3 + 3 * m),
                 over |-> FALSE]
        BY <3>7, <4>2, <4>3, SetVal
      <4>5. r.ok = TRUE /\ r.val = Quotient(s, m) /\ r.over = FALSE
            /\ r.rest = TextAfter(l, 3 + 3 * m)
        BY <4>4
      <4>6. IsValue(Quotient(s, m), f, l)
        <5>1. Rounds(Quotient(s, m), s, m) BY <3>2, QuotientRounds
        <5>2. Count(l) = m /\ ~(m <= 0) BY <2>3, <2>4, <2>11
        <5>3. Total([i \in 1..Count(l) |-> Reading(f, l[3 + 3 * i])]) = s
          BY <4>1, <5>2
        <5>4. \A n : IsValue(n, f, l) <=>
                IF Count(l) <= 0 THEN n = 0
                ELSE Rounds(n, Total([i \in 1..Count(l) |-> Reading(f, l[3 + 3 * i])]),
                            Count(l))
          BY DEF IsValue
        <5> QED BY <5>1, <5>2, <5>3, <5>4
      <4> QED BY <1>1, <3>9, <3>10, <4>5, <4>6, SaysIsBoolean DEF Holds
    <3>11. CASE ~(\A i \in 1..m : Entry(f, l, 3 * i))
      <4>1. last.ok = FALSE /\ last.over = FALSE BY <3>8, <3>11
      <4>2. r.ok = FALSE /\ r.over = FALSE BY <3>7, <4>1
      <4> QED BY <1>1, <3>9, <3>11, <4>2 DEF Holds, Says
    <3> QED BY <3>10, <3>11
  <2>12. \/ m = 0 \/ (m # 0 /\ ~TwoStrings(l, 1)) \/ (m < 0 /\ TwoStrings(l, 1))
         \/ (m > 0 /\ TwoStrings(l, 1))
    BY <2>4
  <2> QED BY <2>8, <2>9, <2>10, <2>11, <2>12
<1> QED BY <1>4, <1>5

-----------------------------------------------------------------------------
(* The invariant. *)

(* What FieldHoldsTheLine and SmallNumbersDoNotOverflow rest on: the field *)
(* and the line of the call stay what they were, and the call ends once.   *)
IInv == /\ field \in Fields
        /\ line \in Lines(field)
        /\ status \in {"called", "returned", "trapped"}
        /\ FieldHoldsTheLine
        /\ SmallNumbersDoNotOverflow

(* By LinesAssumption a line of a field is one of printed values. *)
LEMMA LineOfField ==
  ASSUME NEW f, f \in Fields, NEW l, l \in Lines(f)
  PROVE  IsLine(l)
<1>1. l \in Seq(PrintedValues) /\ \A i \in DOMAIN l : IsPrintedValue(l[i])
  BY LinesAssumption
<1>2. DOMAIN l = 1..Len(l) BY <1>1, LenProperties
<1> QED BY <1>1, <1>2 DEF IsLine

(* By FieldsAssumption the units of a field that may be a decimal are      *)
(* texts.                                                                  *)
LEMMA FixedOfField ==
  ASSUME NEW f, f \in Fields, f.kind # "IntField"
  PROVE  IsFixed(f)
BY FieldsAssumption DEF IsFixed

(* So is the unit of an integer field, whose type has a width. *)
LEMMA IntOfField ==
  ASSUME NEW f, f \in Fields, f.kind = "IntField"
  PROVE  IsUnitText(f.unit) /\ f.value_t \in DOMAIN Bits
BY FieldsAssumption

(* A result that holds what the line says is what the call may return.     *)
LEMMA ReturnHolds ==
  ASSUME IInv, NEW r, Return(r), Small(field, line) => Holds(r, field, line),
         Small(field, line) /\ r.ok /\ field.kind = "TimestampedFixedField"
           => timestamp' = Body(line[1])
  PROVE  IInv'
<1>1. /\ status = "called" /\ field' = field /\ line' = line
      /\ field \in Fields /\ line \in Lines(field)
  BY DEF Return, IInv
<1>2. CASE status' = "returned" /\ ok' = r.ok /\ rest' = r.rest
           /\ value' = IF r.ok THEN r.val ELSE value
  <2>1. SmallNumbersDoNotOverflow' BY <1>2 DEF SmallNumbersDoNotOverflow
  <2>2. FieldHoldsTheLine'
    <3>1. SUFFICES ASSUME Small(field, line)
                   PROVE  /\ r.ok <=> Says(field, line)
                          /\ r.ok => /\ IsValue(r.val, field, line)
                                     /\ r.rest = TextAfter(line, End(field, line))
                                     /\ field.kind = "TimestampedFixedField"
                                          => timestamp' = Body(line[1])
      BY <1>1, <1>2, Zenon DEF FieldHoldsTheLine
    <3>2. Holds(r, field, line) BY <3>1
    <3> QED BY <3>1, <3>2, Zenon DEF Holds
  <2> QED BY <1>1, <1>2, <2>1, <2>2 DEF IInv
<1>3. CASE r.over /\ status' = "trapped"
  <2>1. ~Small(field, line)
    <3>1. Holds(r, field, line) => r.over = FALSE BY DEF Holds
    <3> QED BY <1>3, <3>1
  <2>2. SmallNumbersDoNotOverflow'
    BY <1>1, <2>1 DEF SmallNumbersDoNotOverflow
  <2>3. FieldHoldsTheLine' BY <1>3 DEF FieldHoldsTheLine
  <2> QED BY <1>1, <1>3, <2>2, <2>3 DEF IInv
<1> QED BY <1>2, <1>3, Zenon DEF Return

(* A call begins with it. *)
LEMMA InitHolds == Init => IInv
BY DEF Init, IInv, FieldHoldsTheLine, SmallNumbersDoNotOverflow

(* Whichever parse returns, what it returns is what the line says. *)
LEMMA NextHolds ==
  ASSUME IInv, Next
  PROVE  IInv'
<1>1. field \in Fields /\ line \in Lines(field) BY DEF IInv
<1>2. IsLine(line) BY <1>1, LineOfField
<1>3. field.kind # "IntField" => IsFixed(field) BY <1>1, FixedOfField
<1>4. CASE parse_fixed
  <2>1. /\ field.kind = "FixedField" /\ Return(FixedField(field, Text(line)))
        /\ field.kind # "IntField" /\ field.kind # "TimestampedFixedField"
    BY <1>4 DEF parse_fixed
  <2>2. Small(field, line) => Holds(FixedField(field, Text(line)), field, line)
    BY <1>2, <1>3, <2>1, FixedFieldHolds
  <2> QED BY <2>1, <2>2, ReturnHolds
<1>5. CASE parse_last
  <2>1. /\ field.kind = "LastFixedField" /\ Return(LastFixedField(field, Text(line)))
        /\ field.kind # "IntField" /\ field.kind # "TimestampedFixedField"
    BY <1>5 DEF parse_last
  <2>2. Small(field, line) => Holds(LastFixedField(field, Text(line)), field, line)
    BY <1>2, <1>3, <2>1, LastFieldHolds
  <2> QED BY <2>1, <2>2, ReturnHolds
<1>6. CASE parse_int
  <2>1. /\ field.kind = "IntField" /\ Return(IntField(field, Text(line)))
        /\ field.kind # "TimestampedFixedField"
    BY <1>6 DEF parse_int
  <2>2. IsUnitText(field.unit) /\ field.value_t \in DOMAIN Bits
    BY <1>1, <2>1, IntOfField
  <2>3. Small(field, line) => Holds(IntField(field, Text(line)), field, line)
    BY <1>2, <2>1, <2>2, IntFieldHolds
  <2> QED BY <2>1, <2>3, ReturnHolds
<1>7. CASE parse_averaged
  <2>1. /\ field.kind = "AveragedFixedField"
        /\ Return(AveragedFixedField(field, Text(line)))
        /\ field.kind # "IntField" /\ field.kind # "TimestampedFixedField"
    BY <1>7 DEF parse_averaged
  <2>2. Small(field, line) => Holds(AveragedFixedField(field, Text(line)), field, line)
    BY <1>2, <1>3, <2>1, AveragedFieldHolds
  <2> QED BY <2>1, <2>2, ReturnHolds
<1>8. CASE parse_timestamped
  <2>1. PICK ts, r : /\ ts = parse_string(13, 13, Text(line))
                     /\ r = FixedField(field, ts.rest)
    OBVIOUS
  <2>2. /\ field.kind = "TimestampedFixedField" /\ field.kind # "IntField"
        /\ timestamp' = (IF ts.ok THEN ts.val ELSE timestamp) /\ Return(r)
    BY <1>8, <2>1 DEF parse_timestamped
  <2>3. Small(field, line) => /\ Holds(r, field, line)
                              /\ r.ok => ts.ok = TRUE /\ ts.val = Body(line[1])
    BY <1>2, <1>3, <2>1, <2>2, TimestampedFieldHolds
  <2> QED BY <2>2, <2>3, ReturnHolds
<1> QED BY <1>4, <1>5, <1>6, <1>7, <1>8 DEF Next

(* So it holds throughout. *)
LEMMA IInvHolds == Spec => []IInv
<1>1. IInv /\ UNCHANGED vars => IInv'
  BY DEF IInv, vars, FieldHoldsTheLine, SmallNumbersDoNotOverflow
<1> QED BY <1>1, InitHolds, NextHolds, PTL DEF Spec

(* A line of numbers that fit is read exactly when it has the form of its  *)
(* field, and the field holds what the line says.                          *)
THEOREM FieldsHoldTheirLines == Spec => []FieldHoldsTheLine
<1>1. IInv => FieldHoldsTheLine BY DEF IInv
<1> QED BY <1>1, IInvHolds, PTL

(* Such a line is read without an overflow.                                *)
THEOREM SmallNumbersNeverOverflow == Spec => []SmallNumbersDoNotOverflow
<1>1. IInv => SmallNumbersDoNotOverflow BY DEF IInv
<1> QED BY <1>1, IInvHolds, PTL
=============================================================================
