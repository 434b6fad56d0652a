-------------------------- MODULE DsmrParserProofs --------------------------
(***************************************************************************)
(* Proofs about DsmrParser, for all telegrams, all fields and every way to *)
(* read an id and a value from a line.                                     *)
(***************************************************************************)
EXTENDS DsmrParser, SequenceTheorems, FiniteSetTheorems,
        WellFoundedInduction, TLAPS

-----------------------------------------------------------------------------
(* The scan.                                                               *)

ScanInv == input \in Seq(STRING) /\ ScanStaysInside

(* What is scanned is the telegram without its first and last byte.        *)
LEMMA ContentType ==
  ASSUME NEW t \in Telegrams \cup LaterTelegrams
  PROVE  Content(t) \in Seq(STRING)
<1>1. t \in Seq(STRING) /\ Len(t) \in Nat /\ Len(t) >= 2
  BY TelegramsAssumption, LenProperties
<1>2. \A i \in 2..(Len(t) - 1) : t[i] \in STRING
  BY <1>1, ElementOfSeq
<1> QED BY <1>1, <1>2, SubSeqProperties DEF Content

(* A call begins with the first character. *)
LEMMA ScanInit == Init => ScanInv
<1> SUFFICES ASSUME Init PROVE ScanInv
  OBVIOUS
<1>1. input \in Seq(STRING) BY ContentType DEF Init
<1>2. Len(input) \in Nat BY <1>1, LenProperties
<1>3. pos = 1 /\ line_start = 1 BY DEF Init
<1> QED BY <1>1, <1>2, <1>3 DEF ScanInv, ScanStaysInside

(* A step of parse stays where it is, or passes the next character, which  *)
(* may be a doubled bracket, or begins a line behind it.                   *)
Stays == pos' = pos /\ line_start' = line_start
Passes(last) == ~AtEnd /\ pos' = last + 1 /\ line_start' \in {line_start, pos'}

(* Every loop of parse tests for the end before it reads a character.      *)
LEMMA ParseMoves ==
  ASSUME parse
  PROVE  input' = input /\ (Stays \/ Passes(pos) \/ Passes(LastOfBracket))
<1> USE DEF Go, Return, NextLine, call, scan, Stays, Passes, InDataLines
<1>1. CASE IdLineCharacter BY <1>1 DEF IdLineCharacter
<1>2. CASE IdLine
  <2>1. NextLine("data lines") \/ Return(FALSE) BY <1>2 DEF IdLine
  <2> QED BY <1>2, <2>1 DEF IdLine
<1>3. CASE NoIdLine BY <1>3 DEF NoIdLine
<1>4. ASSUME NEW c, NEW opens, Bracket(c, opens)
      PROVE  input' = input /\ (Stays \/ Passes(LastOfBracket))
  BY <1>4 DEF Bracket
<1>5. CASE OtherCharacter BY <1>5 DEF OtherCharacter
<1>6. CASE ContinuedLine BY <1>6 DEF ContinuedLine
<1>7. CASE DataLine
  <2>1. NextLine("data lines") \/ Return(FALSE) BY <1>7 DEF DataLine
  <2> QED BY <1>7, <2>1 DEF DataLine
<1>8. CASE End BY <1>8 DEF End
<1> QED BY <1>1, <1>2, <1>3, <1>4, <1>5, <1>6, <1>7, <1>8 DEF parse

(* The second of two brackets is looked for inside the telegram only.      *)
LEMMA ScanStep == ScanInv /\ [Next]_vars => ScanInv'
<1> SUFFICES ASSUME ScanInv, [Next]_vars PROVE ScanInv'
  OBVIOUS
<1>1. Len(input) \in Nat /\ input \in Seq(STRING)
  BY LenProperties DEF ScanInv
<1>2. pos \in 1..(Len(input) + 1) /\ line_start \in 1..pos
  BY DEF ScanInv, ScanStaysInside
<1>3. CASE parse
  <2>1. input' = input /\ (Stays \/ Passes(pos) \/ Passes(LastOfBracket))
    BY <1>3, ParseMoves
  <2>2. LastOfBracket = pos \/ (pos < Len(input) /\ LastOfBracket = pos + 1)
    BY DEF LastOfBracket
  <2>3. pos' \in 1..(Len(input) + 1) /\ line_start' \in 1..pos'
    BY <1>1, <1>2, <2>1, <2>2 DEF Stays, Passes, AtEnd
  <2> QED BY <1>1, <2>1, <2>3 DEF ScanInv, ScanStaysInside
<1>4. CASE ParseIntoSame
  <2>1. input' \in Seq(STRING) BY <1>4, ContentType DEF ParseIntoSame
  <2>2. Len(input') \in Nat BY <2>1, LenProperties
  <2>3. pos' = 1 /\ line_start' = 1 BY <1>4 DEF ParseIntoSame
  <2> QED BY <2>1, <2>2, <2>3 DEF ScanInv, ScanStaysInside
<1>5. CASE UNCHANGED vars
  BY <1>5 DEF vars, call, scan, ScanInv, ScanStaysInside
<1> QED BY <1>3, <1>4, <1>5 DEF Next

(* The scan of every telegram, whatever it contains, stays inside it.      *)
THEOREM ParserStaysInside == Spec => []ScanStaysInside
<1>1. ScanInv => ScanStaysInside BY DEF ScanInv
<1> QED BY <1>1, ScanInit, ScanStep, PTL DEF Spec

-----------------------------------------------------------------------------
(* The fields.                                                             *)

(* Every set of naturals has a least element. *)
LEMMA LeastNatural ==
  ASSUME NEW T, T \subseteq Nat, T # {}
  PROVE  \E x \in T : \A y \in T : x <= y
<1>1. IsWellFoundedOn(OpToRel(<, Nat), Nat)
  BY NatLessThanWellFounded
<1>2. PICK x \in T : \A y \in T : <<y, x>> \notin OpToRel(<, Nat)
  BY <1>1, WFMin
<1>3. \A y \in T : ~(y < x) BY <1>2 DEF OpToRel
<1> QED BY <1>3

(* The fold over the fields stops at one of them. *)
LEMMA FirstMatchIsAField ==
  ASSUME NEW id, Matches(id) # {}
  PROVE  FirstMatch(id) \in FieldNumbers
<1>1. FieldNumbers \subseteq Nat BY FieldIdsAssumption DEF FieldNumbers
<1>2. Matches(id) \subseteq FieldNumbers BY DEF Matches
<1>3. \E f \in Matches(id) : \A g \in Matches(id) : f <= g
  BY <1>1, <1>2, LeastNatural
<1>4. FirstMatch(id) \in Matches(id) BY <1>3 DEF FirstMatch
<1> QED BY <1>2, <1>4

DataInv == present \subseteq FieldNumbers /\ DOMAIN val = FieldNumbers

Kept == \A f \in present : f \in present' /\ val'[f] = val[f]

(* No field of a new ParsedData is present. *)
LEMMA DataInit == Init => DataInv
BY DEF Init, DataInv

(* A value is stored in a field that was not present. *)
LEMMA StoreKeeps ==
  ASSUME DataInv, NEW id, NEW text, Store(id, text)
  PROVE  DataInv' /\ Kept
<1> DEFINE f == FirstMatch(id)
           v == ReadField(f, text).val
<1>1. /\ f \in FieldNumbers /\ f \notin present
      /\ present' = present \cup {f}
      /\ val' = [val EXCEPT ![f] = v]
  BY FirstMatchIsAField DEF Store
<1> HIDE DEF f, v
<1> QED BY <1>1 DEF DataInv, Kept

(* A refused value touches none. *)
LEMMA BadValueKeeps ==
  ASSUME DataInv, NEW id, NEW text, BadValue(id, text)
  PROVE  DataInv' /\ Kept
<1>1. /\ FirstMatch(id) \in FieldNumbers
      /\ present' = present \cup {FirstMatch(id)}
      /\ val' = val
  BY FirstMatchIsAField DEF BadValue
<1> QED BY <1>1 DEF DataInv, Kept

(* Whatever becomes of a line, the fields that were present stay. *)
LEMMA LineKeeps ==
  ASSUME DataInv, NEW line, LineAccepted(line) \/ LineRejected(line)
  PROVE  DataInv' /\ Kept
<1> DEFINE id == ReadObis(line).id
           text == ReadObis(line).rest
<1>1. CASE UNCHANGED data BY <1>1 DEF data, DataInv, Kept
<1>2. CASE Store(id, text) BY <1>2, StoreKeeps
<1>3. CASE BadValue(id, text) BY <1>3, BadValueKeeps
<1> HIDE DEF id, text
<1>4. UNCHANGED data \/ Store(id, text) \/ BadValue(id, text)
  BY Zenon DEF LineAccepted, LineRejected, Duplicate, Unknown, id, text
<1> QED BY <1>1, <1>2, <1>3, <1>4

(* So they do in every step. *)
LEMMA DataStep ==
  ASSUME DataInv, [Next]_vars PROVE DataInv' /\ Kept
<1>1. CASE UNCHANGED data BY <1>1 DEF data, DataInv, Kept
<1>2. CASE IdLine
  <2>1. \/ UNCHANGED data
        \/ Store(IdentificationId, Line)
        \/ BadValue(IdentificationId, Line)
    BY <1>2 DEF IdLine, Unknown, Duplicate
  <2> QED BY <1>1, <2>1, StoreKeeps, BadValueKeeps
<1>3. CASE DataLine
  <2>1. UNCHANGED data \/ LineAccepted(Line) \/ LineRejected(Line)
    BY <1>3 DEF DataLine
  <2> QED BY <1>1, <2>1, LineKeeps
<1>4. IdLine \/ DataLine \/ UNCHANGED data
  BY DEF Next, parse, vars, IdLineCharacter, NoIdLine, Bracket,
         OtherCharacter, ContinuedLine, End, ParseIntoSame
<1> QED BY <1>1, <1>2, <1>3, <1>4

(* However often a ParsedData is passed, and whatever the calls return: no *)
(* value that was read is overwritten, and no field is forgotten.          *)
THEOREM ValuesStay == Spec => FirstValueStays
<1>1. DataInv /\ [Next]_vars => DataInv'
  BY DataStep
<1>2. DataInv /\ [Next]_vars =>
        [\A f \in present : f \in present' /\ val'[f] = val[f]]_vars
  BY DataStep DEF Kept
<1> QED BY <1>1, <1>2, DataInit, PTL DEF Spec, FirstValueStays

-----------------------------------------------------------------------------
(* The format: what its operators say, a character further on.              *)

(* The format counts as FiniteSets does. *)
LEMMA FormatCounts == \A S : Format!Cardinality(S) = Cardinality(S)
BY Zenon DEF Format!Cardinality, Cardinality

(* The smallest element of a set is the one that no other is below. *)
LEMMA MinIs ==
  ASSUME NEW T \in SUBSET Int, NEW m \in T, \A x \in T : m <= x
  PROVE  Format!Min(T) = m
<1>1. \E x \in T : \A y \in T : x <= y OBVIOUS
<1>2. Format!Min(T) \in T /\ \A y \in T : Format!Min(T) <= y
  BY <1>1 DEF Format!Min
<1>3. Format!Min(T) \in Int /\ m \in Int BY <1>2
<1>4. Format!Min(T) <= m BY <1>2
<1>5. m <= Format!Min(T) BY <1>2
<1> QED BY <1>3, <1>4, <1>5

(* So is the largest one. *)
LEMMA MaxIs ==
  ASSUME NEW T \in SUBSET Int, NEW m \in T, \A x \in T : x <= m
  PROVE  Format!Max(T) = m
<1>1. \E x \in T : \A y \in T : x >= y OBVIOUS
<1>2. Format!Max(T) \in T /\ \A y \in T : Format!Max(T) >= y
  BY <1>1 DEF Format!Max
<1>3. Format!Max(T) \in Int /\ m \in Int BY <1>2
<1>4. Format!Max(T) >= m BY <1>2
<1>5. Format!Max(T) <= m BY <1>2
<1> QED BY <1>3, <1>4, <1>5

(* The first end of line of a telegram ends its identification line. *)
LEMMA IdEndIs ==
  ASSUME NEW s \in Seq(STRING), NEW p \in 1..Len(s), s[p] \in NewLine,
         \A i \in 1..(p - 1) : s[i] \notin NewLine
  PROVE  Format!IdEnd(s) = p
<1> DEFINE ends == {i \in DOMAIN s : Format!IsNewLine(s[i])}
<1>1. DOMAIN s = 1..Len(s) /\ Len(s) \in Nat BY LenProperties
<1>2. p \in ends BY <1>1 DEF Format!IsNewLine, NewLine
<1>3. \A i \in ends : p <= i BY <1>1 DEF Format!IsNewLine, NewLine
<1>4. ends \in SUBSET Int BY <1>1
<1>5. Format!Min(ends) = p BY <1>2, <1>3, <1>4, MinIs
<1> HIDE DEF ends
<1>6. Format!IdEnd(s) = IF ends = {} THEN 0 ELSE Format!Min(ends)
  BY Zenon DEF Format!IdEnd, ends
<1> QED BY <1>2, <1>5, <1>6

(* A telegram without an end of line has none. *)
LEMMA NoIdEnd ==
  ASSUME NEW s \in Seq(STRING), \A i \in 1..Len(s) : s[i] \notin NewLine
  PROVE  Format!IdEnd(s) = 0
<1>1. DOMAIN s = 1..Len(s) /\ Len(s) \in Nat BY LenProperties
<1>2. {i \in DOMAIN s : Format!IsNewLine(s[i])} = {}
  BY <1>1 DEF Format!IsNewLine, NewLine
<1> QED BY <1>2 DEF Format!IdEnd

(* Nothing is counted in front of the first data line. *)
LEMMA CountFirst ==
  ASSUME NEW s, NEW c, Format!IdEnd(s) \in Nat
  PROVE  Format!Count(s, c, Format!IdEnd(s) + 1) = 0
<1>1. {j \in Format!Body(s) : /\ j < Format!IdEnd(s) + 1
                              /\ s[j] = c
                              /\ s[j - 1] # c} = {}
  BY DEF Format!Body
<1> QED BY <1>1, FS_EmptySet, FormatCounts, Zenon DEF Format!Count

(* A character counts where the one in front of it is another. *)
LEMMA CountNext ==
  ASSUME NEW s \in Seq(STRING), NEW c, Format!IdEnd(s) \in Nat,
         NEW p \in Format!Body(s)
  PROVE  /\ Format!Count(s, c, p) \in Nat
         /\ Format!Count(s, c, p + 1) = Format!Count(s, c, p)
              + (IF s[p] = c /\ s[p - 1] # c THEN 1 ELSE 0)
<1> DEFINE A(q) == {j \in Format!Body(s) : j < q /\ s[j] = c /\ s[j - 1] # c}
<1>1. Format!Body(s) \subseteq Nat /\ p \in Nat BY DEF Format!Body
<1>2. IsFiniteSet(A(p))
  <2>1. A(p) \in SUBSET Nat /\ \A j \in A(p) : j <= p BY <1>1
  <2> HIDE DEF A
  <2> QED BY <1>1, <2>1, FS_BoundedSetOfNaturals
<1>3. p \notin A(p) BY <1>1
<1>4. A(p + 1) = IF s[p] = c /\ s[p - 1] # c THEN A(p) \cup {p} ELSE A(p)
  BY <1>1
<1>5. /\ Format!Count(s, c, p) = Cardinality(A(p))
      /\ Format!Count(s, c, p + 1) = Cardinality(A(p + 1))
  BY FormatCounts, Zenon DEF Format!Count
<1> HIDE DEF A
<1>6. Cardinality(A(p)) \in Nat BY <1>2, FS_CardinalityType
<1>7. Cardinality(A(p) \cup {p}) = Cardinality(A(p)) + 1
  BY <1>2, <1>3, FS_AddElement
<1> QED BY <1>4, <1>5, <1>6, <1>7

-----------------------------------------------------------------------------
(* Behind the end of the identification line no bracket is open. *)
LEMMA OpenFirst ==
  ASSUME NEW s, Format!IdEnd(s) \in Nat
  PROVE  Format!Open(s, Format!IdEnd(s) + 1) = 0
<1>1. /\ Format!Count(s, "(", Format!IdEnd(s) + 1) = 0
      /\ Format!Count(s, ")", Format!IdEnd(s) + 1) = 0
  BY CountFirst
<1> QED BY <1>1 DEF Format!Open

(* Each character opens a bracket, closes one, or leaves it at that. *)
LEMMA OpenNext ==
  ASSUME NEW s \in Seq(STRING), Format!IdEnd(s) \in Nat,
         NEW p \in Format!Body(s)
  PROVE  /\ Format!Open(s, p) \in Int
         /\ s[p] = "(" /\ s[p - 1] # "("
              => Format!Open(s, p + 1) = Format!Open(s, p) + 1
         /\ s[p] = ")" /\ s[p - 1] # ")"
              => Format!Open(s, p + 1) = Format!Open(s, p) - 1
         /\ s[p] \notin {"(", ")"} \/ s[p] = s[p - 1]
              => Format!Open(s, p + 1) = Format!Open(s, p)
<1> DEFINE l(q) == Format!Count(s, "(", q)
           r(q) == Format!Count(s, ")", q)
<1>1. /\ l(p) \in Nat
      /\ l(p + 1) = l(p) + (IF s[p] = "(" /\ s[p - 1] # "(" THEN 1 ELSE 0)
  BY CountNext
<1>2. /\ r(p) \in Nat
      /\ r(p + 1) = r(p) + (IF s[p] = ")" /\ s[p - 1] # ")" THEN 1 ELSE 0)
  BY CountNext
<1>3. /\ Format!Open(s, p) = l(p) - r(p)
      /\ Format!Open(s, p + 1) = l(p + 1) - r(p + 1)
  BY Zenon DEF Format!Open
<1> HIDE DEF l, r
<1>4. s[p] \notin {"(", ")"} \/ s[p] = s[p - 1]
        => l(p + 1) = l(p) /\ r(p + 1) = r(p)
  BY <1>1, <1>2
<1>5. s[p] = "(" /\ s[p - 1] # "(" => l(p + 1) = l(p) + 1 /\ r(p + 1) = r(p)
  BY <1>1, <1>2
<1>6. s[p] = ")" /\ s[p - 1] # ")" => l(p + 1) = l(p) /\ r(p + 1) = r(p) + 1
  BY <1>1, <1>2
<1> QED BY <1>1, <1>2, <1>3, <1>4, <1>5, <1>6

-----------------------------------------------------------------------------
Brackets == {"(", ")"}

(* What the scan knows of the brackets of s in front of p: whether one is  *)
(* open is what the format counts, and so far s is well bracketed.  Of     *)
(* three brackets in a row the third has not been passed.                  *)
BracketsSeen(s, p, open) ==
  /\ \A i \in (Format!IdEnd(s) + 1)..p : Format!Open(s, i) \in {0, 1}
  /\ Format!Open(s, p) = IF open THEN 1 ELSE 0
  /\ \A i \in (Format!IdEnd(s) + 1)..(p - 3) :
       s[i] \in Brackets => \E j \in {i + 1, i + 2} : s[j] # s[i]
  /\ p > Format!IdEnd(s) + 1 =>
       /\ s[p - 1] = "(" => open
       /\ s[p - 1] = ")" => ~open
       /\ p <= Len(s) /\ s[p - 1] \in Brackets /\ s[p] = s[p - 1]
            => p > Format!IdEnd(s) + 2 /\ s[p - 2] = s[p - 1]

(* The line the scan is in begins behind the last break in front of p. *)
LineBegins(s, p, start) ==
  /\ start - 1 \in {Format!IdEnd(s)} \cup Format!Breaks(s)
  /\ start \in (Format!IdEnd(s) + 1)..p
  /\ \A b \in Format!Breaks(s) : b < p => b < start

HasIdLine(s) == /\ s \in Seq(STRING)
                /\ Format!IdEnd(s) \in 1..Len(s)
                /\ s[Format!IdEnd(s)] \in NewLine

(* Where the data lines begin there has been no bracket. *)
LEMMA BracketsFirst ==
  ASSUME NEW s, HasIdLine(s)
  PROVE  BracketsSeen(s, Format!IdEnd(s) + 1, FALSE)
<1> DEFINE e == Format!IdEnd(s)
<1>1. e \in Nat BY LenProperties DEF HasIdLine
<1>2. Format!Open(s, e + 1) = 0 BY <1>1, OpenFirst
<1> QED BY <1>1, <1>2 DEF BracketsSeen

(* A character that is no bracket. *)
LEMMA BracketsOther ==
  ASSUME NEW s, HasIdLine(s), NEW p \in Format!Body(s), NEW open \in BOOLEAN,
         BracketsSeen(s, p, open), s[p] \notin Brackets
  PROVE  BracketsSeen(s, p + 1, open)
<1> DEFINE e == Format!IdEnd(s)
           O(q) == Format!Open(s, q)
<1>1. /\ e \in Nat /\ Len(s) \in Nat /\ s \in Seq(STRING)
      /\ p \in Nat /\ p \in (e + 1)..Len(s)
  BY LenProperties DEF HasIdLine, Format!Body
<1>2. O(p + 1) = O(p) BY <1>1, OpenNext DEF Brackets
<1> HIDE DEF e, O
<1>3. /\ \A i \in (e + 1)..p : O(i) \in {0, 1}
      /\ O(p) = IF open THEN 1 ELSE 0
      /\ \A i \in (e + 1)..(p - 3) :
           s[i] \in Brackets => \E j \in {i + 1, i + 2} : s[j] # s[i]
  BY Zenon DEF BracketsSeen, e, O
<1>4. \A i \in (e + 1)..(p + 1) : O(i) \in {0, 1} BY <1>1, <1>2, <1>3
<1>5. \A i \in (e + 1)..((p + 1) - 3) :
        s[i] \in Brackets => \E j \in {i + 1, i + 2} : s[j] # s[i]
  <2> SUFFICES ASSUME NEW i \in (e + 1)..((p + 1) - 3), s[i] \in Brackets
               PROVE  \E j \in {i + 1, i + 2} : s[j] # s[i]
    OBVIOUS
  <2>1. i \in (e + 1)..(p - 3) \/ i + 2 = p BY <1>1
  <2> QED BY <1>3, <2>1
<1>6. (p + 1) - 1 = p BY <1>1
<1>7. s[(p + 1) - 1] \notin Brackets BY <1>6
<1>8. O(p + 1) = IF open THEN 1 ELSE 0 BY <1>2, <1>3
<1> QED BY <1>4, <1>5, <1>7, <1>8 DEF BracketsSeen, Brackets, e, O

(* What stands in front of a bracket that opens while none is open, or     *)
(* closes the one that is, is not the same bracket.                        *)
LEMMA BracketTurns ==
  ASSUME NEW s, HasIdLine(s), NEW p \in Format!Body(s), NEW open \in BOOLEAN,
         BracketsSeen(s, p, open),
         NEW opens \in BOOLEAN, open # opens,
         NEW c, c = (IF opens THEN "(" ELSE ")"), s[p] = c,
         NEW last, last = IF p < Len(s) /\ s[p + 1] = s[p] THEN p + 1 ELSE p
  PROVE  BracketsSeen(s, last + 1, opens)
<1> DEFINE e == Format!IdEnd(s)
           O(q) == Format!Open(s, q)
<1>1. /\ e \in Nat /\ e >= 1 /\ Len(s) \in Nat /\ s \in Seq(STRING)
      /\ p \in Nat /\ p \in (e + 1)..Len(s)
      /\ s[e] \in NewLine
  BY LenProperties DEF HasIdLine, Format!Body
<1>2. c \in Brackets BY DEF Brackets
<1>3. s[p - 1] # c
  <2>1. CASE p = e + 1
    <3>1. p - 1 = e BY <1>1, <2>1
    <3>2. s[p - 1] \in NewLine BY <1>1, <3>1
    <3> QED BY <1>2, <3>2 DEF NewLine, Brackets
  <2>2. CASE p > e + 1
    <3>1. /\ s[p - 1] = "(" => open
          /\ s[p - 1] = ")" => ~open
      BY <2>2, Zenon DEF BracketsSeen
    <3> QED BY <3>1
  <2> QED BY <1>1, <2>1, <2>2
<1>4. /\ O(p + 1) = IF opens THEN 1 ELSE 0
      /\ p + 1 <= Len(s) /\ s[p + 1] = s[p] => O(p + 2) = O(p + 1)
  <2>1. O(p) = IF open THEN 1 ELSE 0 BY DEF BracketsSeen
  <2>2. /\ c = "(" => O(p + 1) = O(p) + 1
        /\ c = ")" => O(p + 1) = O(p) - 1
    BY <1>1, <1>3, OpenNext
  <2>3. ASSUME p + 1 <= Len(s), s[p + 1] = s[p] PROVE O(p + 2) = O(p + 1)
    <3>1. p + 1 \in Format!Body(s) BY <1>1, <2>3 DEF Format!Body
    <3>2. (p + 1) + 1 = p + 2 /\ (p + 1) - 1 = p BY <1>1
    <3> QED BY <1>1, <2>3, <3>1, <3>2, OpenNext
  <2> QED BY <2>1, <2>2, <2>3
<1> HIDE DEF e, O
<1>5. /\ \A i \in (e + 1)..p : O(i) \in {0, 1}
      /\ \A i \in (e + 1)..(p - 3) :
           s[i] \in Brackets => \E j \in {i + 1, i + 2} : s[j] # s[i]
  BY Zenon DEF BracketsSeen, e, O
<1>6. \A i \in (e + 1)..(p - 1) :
        s[i] \in Brackets => \E j \in {i + 1, i + 2} : s[j] # s[i]
  <2> SUFFICES ASSUME NEW i \in (e + 1)..(p - 1), s[i] \in Brackets
               PROVE  \E j \in {i + 1, i + 2} : s[j] # s[i]
    OBVIOUS
  <2>1. i \in (e + 1)..(p - 3) \/ i = p - 2 \/ i = p - 1 BY <1>1
  <2>2. CASE i = p - 2
    <3>1. i + 1 = p - 1 /\ i + 2 = p BY <1>1, <2>2
    <3>2. s[i + 1] # s[i + 2] BY <1>3, <3>1
    <3> QED BY <3>2
  <2>3. CASE i = p - 1
    <3>1. i + 1 = p BY <1>1, <2>3
    <3> QED BY <1>3, <2>3, <3>1
  <2> QED BY <1>5, <2>1, <2>2, <2>3
<1>7. CASE p < Len(s) /\ s[p + 1] = s[p]
  <2>1. last = p + 1 /\ last + 1 = p + 2 BY <1>1, <1>7
  <2>2. O(p + 2) = IF opens THEN 1 ELSE 0 BY <1>1, <1>4, <1>7
  <2>3. \A i \in (e + 1)..(p + 2) : O(i) \in {0, 1}
    BY <1>1, <1>2, <1>4, <1>5, <2>2
  <2>4. (p + 2) - 3 = p - 1 /\ (p + 2) - 1 = p + 1 /\ (p + 2) - 2 = p
    BY <1>1
  <2>5. p + 2 > e + 2 BY <1>1
  <2> QED BY <1>2, <1>6, <1>7, <2>1, <2>2, <2>3, <2>4, <2>5
          DEF BracketsSeen, Brackets, e, O
<1>8. CASE ~(p < Len(s) /\ s[p + 1] = s[p])
  <2>1. last = p BY <1>8
  <2>2. \A i \in (e + 1)..(p + 1) : O(i) \in {0, 1}
    BY <1>1, <1>2, <1>4, <1>5
  <2>3. (p + 1) - 1 = p BY <1>1
  <2>4. \A i \in (e + 1)..((p + 1) - 3) : i \in (e + 1)..(p - 1) BY <1>1
  <2>5. ~(p + 1 <= Len(s) /\ s[p + 1] = s[p]) BY <1>1, <1>8
  <2> QED BY <1>2, <1>4, <1>6, <2>1, <2>2, <2>3, <2>4, <2>5
          DEF BracketsSeen, Brackets, e, O
<1> QED BY <1>7, <1>8

(* A bracket the scan refuses is one the format refuses. *)
LEMMA BracketRefused ==
  ASSUME NEW s, HasIdLine(s), NEW p \in Format!Body(s), NEW open \in BOOLEAN,
         BracketsSeen(s, p, open),
         s[p] = IF open THEN "(" ELSE ")"
  PROVE  ~Format!WellBracketed(s)
<1> DEFINE e == Format!IdEnd(s)
<1>1. /\ e \in Nat /\ e >= 1 /\ Len(s) \in Nat /\ s \in Seq(STRING)
      /\ p \in Nat /\ p \in (e + 1)..Len(s)
      /\ s[e] \in NewLine
  BY LenProperties DEF HasIdLine, Format!Body
<1>2. s[p] \in Brackets BY DEF Brackets
<1>3. CASE s[p - 1] = s[p]
  <2>1. p > e + 1
    <3>1. SUFFICES ASSUME p = e + 1 PROVE FALSE BY <1>1
    <3>2. s[p - 1] = s[e] BY <1>1, <3>1
    <3> QED BY <1>1, <1>2, <1>3, <3>2 DEF NewLine, Brackets
  <2>2. p > e + 2 /\ s[p - 2] = s[p - 1]
    BY <1>1, <1>2, <1>3, <2>1 DEF BracketsSeen
  <2> DEFINE i == p - 2
  <2>3. /\ i \in Format!Body(s) /\ i + 2 <= Len(s)
        /\ i + 1 = p - 1 /\ i + 2 = p
    BY <1>1, <2>2 DEF Format!Body
  <2>4. s[i] \in {"(", ")"} /\ s[i + 1] = s[i] /\ s[i + 2] = s[i]
    BY <1>2, <1>3, <2>2, <2>3 DEF Brackets
  <2> QED BY <2>3, <2>4 DEF Format!WellBracketed
<1>4. CASE s[p - 1] # s[p]
  <2>1. Format!Open(s, p) = IF open THEN 1 ELSE 0 BY DEF BracketsSeen
  <2>2. Format!Open(s, p + 1) \notin {0, 1} BY <1>1, <1>4, <2>1, OpenNext
  <2>3. p + 1 \in Format!Body(s) \cup {Len(s) + 1} BY <1>1 DEF Format!Body
  <2> QED BY <2>2, <2>3 DEF Format!WellBracketed
<1> QED BY <1>3, <1>4

(* The first line behind that of the identification. *)
LEMMA LineFirst ==
  ASSUME NEW s, HasIdLine(s)
  PROVE  LineBegins(s, Format!IdEnd(s) + 1, Format!IdEnd(s) + 1)
<1>1. Format!IdEnd(s) \in Nat BY LenProperties DEF HasIdLine
<1>2. \A b \in Format!Breaks(s) : b \in Nat /\ b >= Format!IdEnd(s) + 1
  BY <1>1 DEF Format!Breaks, Format!Body
<1> HIDE DEF Format!Breaks
<1> QED BY <1>1, <1>2 DEF LineBegins

(* The scan passes characters that do not break the line. *)
LEMMA LineGoes ==
  ASSUME NEW s, HasIdLine(s), NEW p \in Format!Body(s), NEW start,
         LineBegins(s, p, start), NEW last \in {p, p + 1},
         \A b \in p..last : b \notin Format!Breaks(s)
  PROVE  LineBegins(s, last + 1, start)
<1>1. /\ Format!IdEnd(s) \in Nat
      /\ p \in Nat /\ p \in (Format!IdEnd(s) + 1)..Len(s)
      /\ Len(s) \in Nat
  BY LenProperties DEF HasIdLine, Format!Body
<1>2. \A b \in Format!Breaks(s) : b \in Nat
  BY <1>1 DEF Format!Breaks, Format!Body
<1>3. \A b \in Format!Breaks(s) : b < last + 1 => b < p BY <1>1, <1>2
<1> QED BY <1>1, <1>2, <1>3 DEF LineBegins

(* Behind a break the next line begins. *)
LEMMA LineNext ==
  ASSUME NEW s, HasIdLine(s), NEW p \in Format!Breaks(s)
  PROVE  LineBegins(s, p + 1, p + 1)
<1>1. Format!IdEnd(s) \in Nat /\ Len(s) \in Nat
  BY LenProperties DEF HasIdLine
<1>2. \A b \in Format!Breaks(s) : b \in Nat /\ b >= Format!IdEnd(s) + 1
  BY <1>1 DEF Format!Breaks, Format!Body
<1> QED BY <1>1, <1>2 DEF LineBegins

(* The line of a break is the one the scan is in. *)
LEMMA LineAtIs ==
  ASSUME NEW s, HasIdLine(s), NEW p \in Format!Breaks(s), NEW start,
         LineBegins(s, p, start)
  PROVE  Format!LineAt(s, p) = SubSeq(s, start, p - 1)
<1> DEFINE e == Format!IdEnd(s)
           T == {e} \cup {i \in Format!Breaks(s) : i < p}
<1>1. e \in Nat /\ Len(s) \in Nat BY LenProperties DEF HasIdLine
<1>2. \A b \in Format!Breaks(s) : b \in Nat
  BY <1>1 DEF Format!Breaks, Format!Body
<1>3. start \in Int /\ start - 1 \in T /\ \A x \in T : x <= start - 1
  BY <1>1, <1>2 DEF LineBegins
<1>4. T \in SUBSET Int BY <1>1, <1>2
<1>5. Format!LineAt(s, p) = SubSeq(s, 1 + Format!Max(T), p - 1)
  BY Zenon DEF Format!LineAt
<1> HIDE DEF T
<1>6. Format!Max(T) = start - 1 BY <1>3, <1>4, MaxIs
<1>7. 1 + (start - 1) = start BY <1>3
<1> QED BY <1>5, <1>6, <1>7, Zenon

(* The scan breaks where the format does. *)
LEMMA BreaksWhere ==
  ASSUME NEW s, HasIdLine(s), NEW p \in Format!Body(s), NEW open \in BOOLEAN,
         BracketsSeen(s, p, open)
  PROVE  p \in Format!Breaks(s) <=>
           /\ s[p] \in NewLine
           /\ ~(\/ open
                \/ Len(s) - p + 1 > 2 /\ "(" \in {s[p + 1], s[p + 2]})
<1>1. Format!Open(s, p) = 0 <=> ~open BY DEF BracketsSeen
<1>2. p \in Nat /\ Len(s) \in Nat
  BY LenProperties DEF HasIdLine, Format!Body
<1>3. Len(s) - p + 1 > 2 <=> p + 2 <= Len(s) BY <1>2
<1>4. s[p] \in NewLine <=> Format!IsNewLine(s[p])
  BY DEF NewLine, Format!IsNewLine
<1>5. p \in Format!Breaks(s) <=>
        /\ Format!IsNewLine(s[p])
        /\ Format!Open(s, p) = 0
        /\ p + 2 <= Len(s) => "(" \notin {s[p + 1], s[p + 2]}
  BY Zenon DEF Format!Breaks
<1> QED BY <1>1, <1>3, <1>4, <1>5

-----------------------------------------------------------------------------
(* The owner of an id is the field the fold over the fields stops at. *)
LEMMA OwnerIs ==
  ASSUME NEW id
  PROVE  Format!Owner(id) = IF Matches(id) = {} THEN {} ELSE {FirstMatch(id)}
<1>1. FieldNumbers = 1..Len(FieldIds) /\ Len(FieldIds) \in Nat
  BY FieldIdsAssumption DEF FieldNumbers
<1>2. Matches(id) \subseteq FieldNumbers BY DEF Matches
<1>3. CASE Matches(id) = {} BY <1>3 DEF Format!Owner, Matches, FieldNumbers
<1>4. CASE Matches(id) # {}
  <2> DEFINE f == FirstMatch(id)
  <2>1. \E x \in Matches(id) : \A g \in Matches(id) : x <= g
    BY <1>1, <1>2, <1>4, LeastNatural
  <2>2. f \in Matches(id) /\ \A g \in Matches(id) : f <= g
    BY <2>1 DEF FirstMatch
  <2> HIDE DEF f
  <2>3. f \in FieldNumbers /\ FieldIds[f] = id BY <2>2 DEF Matches
  <2>4. \A g \in 1..(f - 1) : FieldIds[g] # id
    <3> SUFFICES ASSUME NEW g \in 1..(f - 1), FieldIds[g] = id PROVE FALSE
      OBVIOUS
    <3>1. g \in Matches(id) BY <1>1, <2>3 DEF Matches
    <3> QED BY <1>1, <2>2, <2>3, <3>1
  <2>5. \A h \in FieldNumbers :
          FieldIds[h] = id /\ (\A g \in 1..(h - 1) : FieldIds[g] # id) => h = f
    <3> SUFFICES ASSUME NEW h \in FieldNumbers, FieldIds[h] = id, h # f,
                        \A g \in 1..(h - 1) : FieldIds[g] # id
                 PROVE  FALSE
      OBVIOUS
    <3>1. f <= h BY <2>2 DEF Matches
    <3>2. f \in 1..(h - 1) BY <1>1, <2>3, <3>1
    <3> QED BY <2>3, <3>2
  <2>6. Format!Owner(id) = {f}
    BY <2>3, <2>4, <2>5 DEF Format!Owner, FieldNumbers
  <2> QED BY <1>4, <2>6 DEF f
<1> QED BY <1>3, <1>4

OwnerOf(s, b) == Format!Owner(Format!Entry(s, b).id)

(* The lines of s that end at the breaks L are good ones, each of a field  *)
(* of its own that the ParsedData did not have, and the fields that had    *)
(* what "had" says now have what the lines say.                            *)
FieldsRead(s, strict, L, had, has) ==
  /\ \A b \in L : Format!GoodLine(s, b, strict)
  /\ \A b, d \in L : OwnerOf(s, b) \cap OwnerOf(s, d) # {} => b = d
  /\ \A b \in L : OwnerOf(s, b) \cap had.present = {}
  /\ has.present = had.present \cup UNION {OwnerOf(s, b) : b \in L}
  /\ \A b \in L : \A f \in OwnerOf(s, b) :
       has.val[f] = ReadField(f, Format!Entry(s, b).rest).val
  /\ \A f \in FieldNumbers :
       (\A b \in L : f \notin OwnerOf(s, b)) => has.val[f] = had.val[f]

(* A good line of no field. *)
LEMMA LineOfNoField ==
  ASSUME NEW s, NEW strict, NEW L, NEW had, NEW has, NEW b,
         FieldsRead(s, strict, L, had, has),
         Format!GoodLine(s, b, strict), OwnerOf(s, b) = {}
  PROVE  FieldsRead(s, strict, L \cup {b}, had, has)
<1>1. UNION {OwnerOf(s, d) : d \in L \cup {b}} = UNION {OwnerOf(s, d) : d \in L}
  OBVIOUS
<1> QED BY <1>1 DEF FieldsRead

(* A good line of a field that was not present. *)
LEMMA LineOfAField ==
  ASSUME NEW s, NEW strict, NEW L, NEW had, NEW has, NEW now, NEW b, NEW f,
         FieldsRead(s, strict, L, had, has), DOMAIN has.val = FieldNumbers,
         Format!GoodLine(s, b, strict), OwnerOf(s, b) = {f}, b \notin L,
         f \notin has.present,
         now.present = has.present \cup {f},
         now.val = [has.val EXCEPT ![f] =
                      ReadField(f, Format!Entry(s, b).rest).val]
  PROVE  FieldsRead(s, strict, L \cup {b}, had, now)
<1> DEFINE O(d) == OwnerOf(s, d)
           V(g, d) == ReadField(g, Format!Entry(s, d).rest).val
           M == L \cup {b}
<1>1. /\ \A d \in L : Format!GoodLine(s, d, strict)
      /\ \A c, d \in L : O(c) \cap O(d) # {} => c = d
      /\ \A d \in L : O(d) \cap had.present = {}
      /\ has.present = had.present \cup UNION {O(d) : d \in L}
      /\ \A d \in L : \A g \in O(d) : has.val[g] = V(g, d)
      /\ \A g \in FieldNumbers :
           (\A d \in L : g \notin O(d)) => has.val[g] = had.val[g]
  BY Zenon DEF FieldsRead
<1>2. O(b) = {f} /\ now.val = [has.val EXCEPT ![f] = V(f, b)]
  BY Zenon
<1>3. \A d \in M : Format!GoodLine(s, d, strict) BY <1>1
<1> HIDE DEF O, V
<1>4. \A d \in L : f \notin O(d) BY <1>1
<1>5. \A c, d \in M : O(c) \cap O(d) # {} => c = d BY <1>1, <1>2, <1>4
<1>6. \A d \in M : O(d) \cap had.present = {} BY <1>1, <1>2
<1>7. now.present = had.present \cup UNION {O(d) : d \in M}
  <2>1. UNION {O(d) : d \in M} = (UNION {O(d) : d \in L}) \cup {f} BY <1>2
  <2> QED BY <1>1, <2>1
<1>8. \A d \in M : \A g \in O(d) : g \in DOMAIN has.val => now.val[g] = V(g, d)
  BY <1>1, <1>2, <1>4
<1>9. \A d : \A g \in O(d) : g \in DOMAIN has.val
  BY DEF O, OwnerOf, Format!Owner, FieldNumbers
<1>10. \A g \in FieldNumbers :
         (\A d \in M : g \notin O(d)) => now.val[g] = had.val[g]
  BY <1>1, <1>2
<1>11. \A d \in M : \A g \in O(d) : now.val[g] = V(g, d) BY <1>8, <1>9
<1> QED BY <1>3, <1>5, <1>6, <1>7, <1>10, <1>11, Zenon DEF FieldsRead, O, V

(* A line of which the scan returns false: the telegram is none of the     *)
(* format, or it has a line for a field the ParsedData had.                *)
Refused(s, strict, had) ==
  ~ (/\ Format!Accepted(s, strict)
     /\ Format!Filled(s) \cap had.present = {})

LinesOf(s) == Format!DataLines(s) \cup {Format!IdEnd(s)}

(* A telegram has finitely many lines, and one with an end of line has some. *)
LEMMA LinesAreFinite ==
  ASSUME NEW s, HasIdLine(s)
  PROVE  /\ LinesOf(s) \subseteq Format!IdEnd(s)..Len(s)
         /\ \A f : IsFiniteSet(Format!Sources(s, f))
         /\ s # <<>>
<1>1. Format!IdEnd(s) \in 1..Len(s) /\ Len(s) \in Nat
  BY LenProperties DEF HasIdLine
<1>2. LinesOf(s) \subseteq Format!IdEnd(s)..Len(s)
  BY <1>1 DEF LinesOf, Format!DataLines, Format!Breaks, Format!Body
<1>3. ASSUME NEW f PROVE IsFiniteSet(Format!Sources(s, f))
  <2>1. IsFiniteSet(Format!IdEnd(s)..Len(s)) BY <1>1, FS_Interval
  <2>2. Format!Sources(s, f) \subseteq Format!IdEnd(s)..Len(s)
    BY <1>2 DEF Format!Sources, LinesOf
  <2> QED BY <2>1, <2>2, FS_Subset
<1>4. s # <<>>
  <2> SUFFICES ASSUME s = <<>> PROVE FALSE OBVIOUS
  <2>1. Len(s) = 0 OBVIOUS
  <2> QED BY <1>1, <2>1
<1> QED BY <1>2, <1>3, <1>4

(* A line that is no good one. *)
LEMMA BadLineRefused ==
  ASSUME NEW s, HasIdLine(s), NEW strict, NEW had, NEW b \in LinesOf(s),
         ~Format!GoodLine(s, b, strict)
  PROVE  Refused(s, strict, had)
<1>1. s # <<>> BY LinesAreFinite
<1> QED BY <1>1, Zenon DEF Refused, LinesOf, Format!Accepted

(* A line for a field that has been filled, by this telegram or before. *)
LEMMA SecondLineRefused ==
  ASSUME NEW s, HasIdLine(s), NEW strict, NEW had, NEW has,
         NEW L \in SUBSET LinesOf(s), FieldsRead(s, strict, L, had, has),
         NEW b \in LinesOf(s) \ L, NEW f \in OwnerOf(s, b), f \in has.present
  PROVE  Refused(s, strict, had)
<1>1. s # <<>> BY LinesAreFinite
<1>2. f \in FieldNumbers BY DEF OwnerOf, Format!Owner, FieldNumbers
<1>3. b \in Format!Sources(s, f) BY Zenon DEF Format!Sources, LinesOf, OwnerOf
<1>4. CASE f \in had.present
  <2>1. f \in Format!Filled(s)
    BY <1>1, <1>2, <1>3 DEF Format!Filled, FieldNumbers
  <2> QED BY <1>4, <2>1 DEF Refused
<1>5. CASE f \notin had.present
  <2>1. PICK d \in L : f \in OwnerOf(s, d) BY <1>5 DEF FieldsRead
  <2>2. d \in Format!Sources(s, f)
    BY <2>1, Zenon DEF Format!Sources, LinesOf, OwnerOf
  <2>3. d # b OBVIOUS
  <2>4. IsFiniteSet(Format!Sources(s, f)) BY LinesAreFinite
  <2>5. {b, d} \subseteq Format!Sources(s, f) BY <1>3, <2>2
  <2>6. Cardinality({b, d}) <= Cardinality(Format!Sources(s, f))
    BY <2>4, <2>5, FS_Subset
  <2>7. Cardinality({b, d}) = 2
    <3>1. IsFiniteSet({b}) /\ Cardinality({b}) = 1 BY FS_Singleton
    <3>2. d \notin {b} BY <2>3
    <3>3. Cardinality({b} \cup {d}) = Cardinality({b}) + 1
      BY <3>1, <3>2, FS_AddElement
    <3>4. {b} \cup {d} = {b, d} OBVIOUS
    <3> QED BY <3>1, <3>3, <3>4
  <2>8. Cardinality(Format!Sources(s, f)) \in Nat
    BY <2>4, FS_CardinalityType
  <2>9. ~(Cardinality(Format!Sources(s, f)) <= 1) BY <2>6, <2>7, <2>8
  <2>10. ~(Format!Cardinality(Format!Sources(s, f)) <= 1)
    BY <2>9, FormatCounts
  <2>11. ~Format!Accepted(s, strict)
    BY <1>1, <1>2, <2>10, Zenon DEF Format!Accepted, FieldNumbers
  <2> QED BY <2>11 DEF Refused
<1> QED BY <1>4, <1>5

(* At the end of the telegram its last line has ended exactly when the     *)
(* format says so, and nothing else is wrong with it.                      *)
LEMMA EndAccepts ==
  ASSUME NEW s, HasIdLine(s), NEW strict, NEW had, NEW has,
         NEW open \in BOOLEAN, NEW start,
         BracketsSeen(s, Len(s) + 1, open), LineBegins(s, Len(s) + 1, start),
         FieldsRead(s, strict, LinesOf(s), had, has)
  PROVE  /\ Format!Filled(s) \cap had.present = {}
         /\ Format!Accepted(s, strict) <=> Len(s) + 1 = start
<1> DEFINE e == Format!IdEnd(s)
<1>1. /\ e \in Nat /\ Len(s) \in Nat /\ e \in 1..Len(s)
      /\ DOMAIN s = 1..Len(s)
  BY LenProperties DEF HasIdLine
<1>2. s # <<>> BY LinesAreFinite
<1>3. Format!WellBracketed(s)
  <2>1. \A i \in Format!Body(s) \cup {Len(s) + 1} : Format!Open(s, i) \in {0, 1}
    BY <1>1 DEF BracketsSeen, Format!Body
  <2>2. ASSUME NEW i \in Format!Body(s), i + 2 <= Len(s), s[i] \in {"(", ")"}
        PROVE  \E j \in {i + 1, i + 2} : s[j] # s[i]
    <3>1. i \in (Format!IdEnd(s) + 1)..((Len(s) + 1) - 3)
      BY <1>1, <2>2 DEF Format!Body
    <3> QED BY <2>2, <3>1, Zenon DEF BracketsSeen, Brackets
  <2> QED BY <2>1, <2>2, Zenon DEF Format!WellBracketed
<1>4. Len(s) \in Format!Breaks(s) \cup {e} <=> Len(s) + 1 = start
  <2>1. Format!Breaks(s) \subseteq (e + 1)..Len(s)
    BY DEF Format!Breaks, Format!Body
  <2>2. /\ start - 1 \in {e} \cup Format!Breaks(s)
        /\ start \in (e + 1)..(Len(s) + 1)
        /\ \A b \in Format!Breaks(s) : b < Len(s) + 1 => b < start
    BY Zenon DEF LineBegins
  <2> HIDE DEF e
  <2>3. ASSUME Len(s) + 1 = start PROVE Len(s) \in Format!Breaks(s) \cup {e}
    <3>1. start - 1 = Len(s) BY <1>1, <2>3
    <3> QED BY <2>2, <3>1
  <2>4. ASSUME Len(s) \in Format!Breaks(s) \cup {e} PROVE Len(s) + 1 = start
    <3>1. Len(s) = e => Len(s) < start BY <1>1, <2>2
    <3>2. Len(s) \in Format!Breaks(s) => Len(s) < start BY <1>1, <2>2
    <3>3. Len(s) < start BY <2>4, <3>1, <3>2
    <3>4. start \in Int /\ start <= Len(s) + 1 BY <1>1, <2>2
    <3> QED BY <1>1, <3>3, <3>4
  <2> QED BY <2>3, <2>4
<1>5. \A b \in LinesOf(s) : Format!GoodLine(s, b, strict)
  BY Zenon DEF FieldsRead
<1>6. ASSUME NEW f \in FieldNumbers
      PROVE  Format!Cardinality(Format!Sources(s, f)) <= 1
  <2>1. \A b, d \in Format!Sources(s, f) : b = d
    BY DEF FieldsRead, Format!Sources, LinesOf, OwnerOf
  <2>2. CASE Format!Sources(s, f) = {} BY <2>2, FS_EmptySet, FormatCounts
  <2>3. CASE Format!Sources(s, f) # {}
    <3>1. PICK b : Format!Sources(s, f) = {b} BY <2>1, <2>3
    <3>2. Cardinality({b}) = 1 BY FS_Singleton
    <3> QED BY <3>1, <3>2, FormatCounts
  <2> QED BY <2>2, <2>3
<1>7. Format!Accepted(s, strict) <=> Len(s) \in Format!Breaks(s) \cup {e}
  <2>1. Format!IdEnd(s) # 0 BY <1>1
  <2> QED BY <1>2, <1>3, <1>5, <1>6, <2>1, Zenon
          DEF Format!Accepted, LinesOf, FieldNumbers
<1>8. Format!Filled(s) \cap had.present = {}
  <2> SUFFICES ASSUME NEW f \in Format!Filled(s), f \in had.present
               PROVE  FALSE
    OBVIOUS
  <2>1. PICK b : b \in Format!Sources(s, f) BY <1>2 DEF Format!Filled
  <2>2. b \in LinesOf(s) /\ f \in OwnerOf(s, b)
    BY <2>1, Zenon DEF Format!Sources, LinesOf, OwnerOf
  <2> QED BY <2>2 DEF FieldsRead
<1> QED BY <1>4, <1>7, <1>8

(* And the fields hold what the format says of it. *)
LEMMA EndHolds ==
  ASSUME NEW s, HasIdLine(s), NEW strict, NEW had, NEW has,
         FieldsRead(s, strict, LinesOf(s), had, has)
  PROVE  /\ has.present = had.present \cup Format!Filled(s)
         /\ \A f \in FieldNumbers :
              has.val[f] = IF f \in Format!Filled(s)
                           THEN Format!Value(s, f) ELSE had.val[f]
<1>1. s # <<>> BY LinesAreFinite
<1>2. \A f, b : b \in Format!Sources(s, f)
                  <=> b \in LinesOf(s) /\ f \in OwnerOf(s, b)
  BY Zenon DEF Format!Sources, LinesOf, OwnerOf
<1>3. \A b : OwnerOf(s, b) \subseteq FieldNumbers
  BY DEF OwnerOf, Format!Owner, FieldNumbers
<1>4. Format!Filled(s) = {f \in FieldNumbers : Format!Sources(s, f) # {}}
  BY <1>1, Zenon DEF Format!Filled, FieldNumbers
<1>5. Format!Filled(s) = UNION {OwnerOf(s, b) : b \in LinesOf(s)}
  BY <1>2, <1>3, <1>4
<1>6. has.present = had.present \cup Format!Filled(s)
  BY <1>5, Zenon DEF FieldsRead
<1>7. ASSUME NEW f \in FieldNumbers, f \in Format!Filled(s)
      PROVE  has.val[f] = Format!Value(s, f)
  <2> DEFINE c == CHOOSE b \in Format!Sources(s, f) : TRUE
  <2>1. Format!Sources(s, f) # {} BY <1>4, <1>7
  <2>2. c \in Format!Sources(s, f) BY <2>1
  <2>3. Format!Value(s, f) = ReadField(f, Format!Entry(s, c).rest).val
    BY Zenon DEF Format!Value
  <2> HIDE DEF c
  <2>4. c \in LinesOf(s) /\ f \in OwnerOf(s, c) BY <1>2, <2>2
  <2>5. has.val[f] = ReadField(f, Format!Entry(s, c).rest).val
    BY <2>4, Zenon DEF FieldsRead
  <2> QED BY <2>3, <2>5
<1>8. ASSUME NEW f \in FieldNumbers, f \notin Format!Filled(s)
      PROVE  has.val[f] = had.val[f]
  <2>1. \A b \in LinesOf(s) : f \notin OwnerOf(s, b) BY <1>5, <1>8
  <2> QED BY <2>1, Zenon DEF FieldsRead
<1> QED BY <1>6, <1>7, <1>8

-----------------------------------------------------------------------------
(* The scan and the format.                                                *)

HasNow == [present |-> present, val |-> val]
Read == {b \in LinesOf(input) : b < pos}      \* the lines the scan has passed

TextInv == /\ input \in Seq(STRING)
           /\ pos \in 1..(Len(input) + 1)
           /\ phase \in Phases
           /\ open_bracket \in BOOLEAN
           /\ DOMAIN val = FieldNumbers
           /\ phase # "returned" => result = FALSE

(* No line has ended, and nothing has been filled. *)
IdLineInv ==
  phase = "id line" =>
    /\ line_start = 1
    /\ open_bracket = FALSE
    /\ present = before.present
    /\ val = before.val
    /\ \A i \in 1..(pos - 1) : input[i] \notin NewLine

(* The telegram has no end of line at all. *)
NoLine == /\ Format!IdEnd(input) = 0
          /\ pos = Len(input) + 1
          /\ line_start = 1
          /\ present = before.present
          /\ val = before.val

(* The identification line has been passed, and what is behind it, up to   *)
(* the scan, is as the format wants it.                                    *)
InDataInv == /\ HasIdLine(input)
             /\ Format!IdEnd(input) < pos
             /\ BracketsSeen(input, pos, open_bracket)
             /\ LineBegins(input, pos, line_start)
             /\ FieldsRead(input, unknown_error, Read, before, HasNow)

DataLinesInv == phase = "data lines" => NoLine \/ InDataInv

FormatInv == /\ TextInv
             /\ IdLineInv
             /\ DataLinesInv
             /\ AcceptsTheFormat
             /\ HoldsTheTelegram

(* Where the scan is. *)
LEMMA TextTypes ==
  ASSUME TextInv
  PROVE  /\ Len(input) \in Nat
         /\ pos \in Nat /\ 1 <= pos /\ pos <= Len(input) + 1
         /\ AtEnd <=> pos = Len(input) + 1
         /\ ~AtEnd <=> pos \in 1..Len(input)
<1>1. Len(input) \in Nat BY LenProperties DEF TextInv
<1>2. pos \in 1..(Len(input) + 1) BY DEF TextInv
<1> QED BY <1>1, <1>2 DEF AtEnd

(* A new ParsedData and a new telegram. *)
LEMMA FormatInit == Init => FormatInv
<1> SUFFICES ASSUME Init PROVE FormatInv
  OBVIOUS
<1>1. input \in Seq(STRING) BY ContentType DEF Init
<1>2. Len(input) \in Nat BY <1>1, LenProperties
<1>3. /\ phase = "id line" /\ line_start = 1
      /\ open_bracket = FALSE /\ result = FALSE
      /\ DOMAIN val = FieldNumbers
      /\ present = before.present /\ val = before.val
  BY DEF Init
<1>4. pos = 1 BY DEF Init
<1>5. pos \in 1..(Len(input) + 1) /\ 1..(pos - 1) = {} BY <1>2, <1>4
<1>6. TextInv BY <1>1, <1>3, <1>5 DEF TextInv, Phases
<1>7. IdLineInv BY <1>3, <1>5 DEF IdLineInv
<1>8. DataLinesInv /\ AcceptsTheFormat /\ HoldsTheTelegram
  BY <1>3 DEF DataLinesInv, AcceptsTheFormat, HoldsTheTelegram
<1> QED BY <1>6, <1>7, <1>8 DEF FormatInv

(* A step that does not return has nothing to answer for. *)
LEMMA GoingOn ==
  ASSUME FormatInv, phase' \in {"id line", "data lines"}, result' = result,
         phase # "returned"
  PROVE  /\ phase' # "returned" => result' = FALSE
         /\ AcceptsTheFormat'
         /\ HoldsTheTelegram'
BY DEF FormatInv, TextInv, AcceptsTheFormat, HoldsTheTelegram

(* A character of the identification line. *)
LEMMA IdLineCharacterStep == FormatInv /\ IdLineCharacter => FormatInv'
<1> SUFFICES ASSUME FormatInv, IdLineCharacter PROVE FormatInv'
  OBVIOUS
<1>1. /\ phase = "id line" /\ ~AtEnd /\ input[pos] \notin NewLine
      /\ pos' = pos + 1
      /\ UNCHANGED <<input, unknown_error, before, phase, result, line_start,
                     open_bracket, present, val>>
  BY DEF IdLineCharacter, Go, call, data
<1>2. /\ Len(input) \in Nat /\ pos \in 1..Len(input)
  BY <1>1, TextTypes DEF FormatInv
<1>3. TextInv'
  <2>1. pos' \in 1..(Len(input') + 1)
    <3>1. pos' = pos + 1 /\ Len(input') = Len(input) BY <1>1
    <3> QED BY <1>2, <3>1
  <2> QED BY <1>1, <2>1 DEF FormatInv, TextInv
<1>4. IdLineInv'
  <2>1. pos' = pos + 1 BY <1>1
  <2>2. \A i \in 1..(pos' - 1) : i \in 1..(pos - 1) \/ i = pos
    BY <1>2, <2>1
  <2> QED BY <1>1, <2>2 DEF FormatInv, IdLineInv
<1>5. DataLinesInv' BY <1>1 DEF DataLinesInv
<1>6. AcceptsTheFormat' /\ HoldsTheTelegram' BY <1>1, GoingOn
<1> QED BY <1>3, <1>4, <1>5, <1>6 DEF FormatInv

(* The end of a telegram without an end of line. *)
LEMMA NoIdLineStep == FormatInv /\ NoIdLine => FormatInv'
<1> SUFFICES ASSUME FormatInv, NoIdLine PROVE FormatInv'
  OBVIOUS
<1>1. /\ phase = "id line" /\ phase' = "data lines" /\ AtEnd
      /\ UNCHANGED <<input, unknown_error, before, pos, result, line_start,
                     open_bracket, present, val>>
  BY DEF NoIdLine, call, scan, data
<1>2. Len(input) \in Nat BY LenProperties DEF FormatInv, TextInv
<1>3. TextInv' BY <1>1, <1>2 DEF FormatInv, TextInv, Phases
<1>4. IdLineInv' BY <1>1 DEF IdLineInv
<1>5. pos = Len(input) + 1 BY <1>1, TextTypes DEF FormatInv
<1>6. Format!IdEnd(input) = 0
  <2>1. pos - 1 = Len(input) BY <1>2, <1>5
  <2>2. \A i \in 1..Len(input) : input[i] \notin NewLine
    BY <1>1, <2>1 DEF FormatInv, IdLineInv
  <2> QED BY <2>2, NoIdEnd DEF FormatInv, TextInv
<1>7. NoLine' BY <1>1, <1>5, <1>6 DEF FormatInv, IdLineInv, NoLine
<1>8. DataLinesInv' BY <1>7 DEF DataLinesInv
<1>9. AcceptsTheFormat' /\ HoldsTheTelegram' BY <1>1, GoingOn
<1> QED BY <1>3, <1>4, <1>8, <1>9 DEF FormatInv

(* In the data lines the scan is behind the line of the identification. *)
LEMMA InData ==
  ASSUME FormatInv, InDataLines
  PROVE  /\ InDataInv
         /\ Len(input) \in Nat
         /\ pos \in Nat /\ pos <= Len(input)
         /\ Format!IdEnd(input) \in Nat
         /\ pos \in Format!Body(input)
         /\ open_bracket \in BOOLEAN
         /\ pos + 1 \in 1..(Len(input) + 1)
         /\ Format!IdEnd(input) < pos + 1
<1>1. /\ Len(input) \in Nat /\ pos \in 1..Len(input)
  BY TextTypes DEF FormatInv, InDataLines
<1>2. ~NoLine BY <1>1 DEF NoLine
<1>3. InDataInv BY <1>2 DEF FormatInv, DataLinesInv, InDataLines
<1>4. Format!IdEnd(input) \in 1..Len(input) /\ Format!IdEnd(input) < pos
  BY <1>3 DEF InDataInv, HasIdLine
<1>5. Format!IdEnd(input) \in Nat BY <1>1, <1>4
<1>6. pos \in Format!Body(input) BY <1>1, <1>4, <1>5 DEF Format!Body
<1>7. open_bracket \in BOOLEAN BY DEF FormatInv, TextInv
<1>8. pos + 1 \in 1..(Len(input) + 1) /\ Format!IdEnd(input) < pos + 1
  BY <1>1, <1>4, <1>5
<1> QED BY <1>1, <1>3, <1>5, <1>6, <1>7, <1>8

(* The call returns false for a telegram that is refused. *)
LEMMA FalseStep ==
  ASSUME FormatInv, Return(FALSE), DOMAIN val' = FieldNumbers,
         Refused(input, unknown_error, before)
  PROVE  FormatInv'
<1>1. /\ phase' = "returned" /\ result' = FALSE
      /\ UNCHANGED <<input, unknown_error, before, pos, line_start,
                     open_bracket>>
  BY DEF Return, call, scan
<1>2. TextInv' BY <1>1 DEF FormatInv, TextInv, Phases
<1>3. IdLineInv' /\ DataLinesInv' BY <1>1 DEF IdLineInv, DataLinesInv
<1>4. AcceptsTheFormat' BY <1>1, Zenon DEF AcceptsTheFormat, Refused
<1>5. HoldsTheTelegram' BY <1>1 DEF HoldsTheTelegram
<1> QED BY <1>2, <1>3, <1>4, <1>5 DEF FormatInv

(* Characters that do not break the line are passed. *)
LEMMA PassStep ==
  ASSUME FormatInv, InDataLines,
         NEW last \in {pos, pos + 1}, last <= Len(input), pos' = last + 1,
         NEW open \in BOOLEAN, open_bracket' = open,
         UNCHANGED <<call, phase, result, line_start, data>>,
         BracketsSeen(input, last + 1, open),
         \A b \in pos..last : b \notin Format!Breaks(input)
  PROVE  FormatInv'
<1>1. /\ phase' = "data lines" /\ phase = "data lines"
      /\ UNCHANGED <<input, unknown_error, before, result, line_start,
                     present, val>>
  BY DEF InDataLines, call, data
<1>2. /\ InDataInv /\ Len(input) \in Nat /\ pos \in Nat
      /\ Format!IdEnd(input) \in Nat
      /\ pos \in Format!Body(input)
  BY InData
<1>3. HasIdLine(input) /\ Format!IdEnd(input) < pos BY <1>2 DEF InDataInv
<1>4. TextInv'
  <2>1. pos' \in 1..(Len(input) + 1) BY <1>2
  <2> QED BY <1>1, <2>1 DEF FormatInv, TextInv
<1>5. IdLineInv' BY <1>1 DEF IdLineInv
<1>6. AcceptsTheFormat' /\ HoldsTheTelegram' BY <1>1, GoingOn
<1>7. LineBegins(input, pos', line_start)
  <2>1. LineBegins(input, pos, line_start) BY <1>2 DEF InDataInv
  <2> QED BY <1>2, <1>3, <2>1, LineGoes
<1>8. Read' = Read
  <2>1. \A b \in LinesOf(input) : b \in Nat
    BY <1>2, <1>3, LinesAreFinite
  <2>2. \A b \in LinesOf(input) : b \notin pos..last
    BY <1>2, <1>3 DEF LinesOf, Format!DataLines
  <2>3. \A b \in LinesOf(input) : b < last + 1 <=> b < pos
    BY <1>2, <2>1, <2>2
  <2> QED BY <1>1, <2>3, Zenon DEF Read
<1>9. Format!IdEnd(input) < pos' BY <1>2, <1>3
<1>10. InDataInv'
  BY <1>1, <1>2, <1>3, <1>7, <1>8, <1>9, Zenon DEF InDataInv, HasNow
<1>11. DataLinesInv' BY <1>10 DEF DataLinesInv
<1> QED BY <1>4, <1>5, <1>6, <1>11 DEF FormatInv

(* Behind a break the next line begins. *)
LEMMA BreakStep ==
  ASSUME FormatInv, InDataLines, pos \in Format!Breaks(input),
         NextLine("data lines"), DOMAIN val' = FieldNumbers,
         FieldsRead(input, unknown_error, Read', before, HasNow')
  PROVE  FormatInv'
<1>0. pos' = pos + 1 BY DEF NextLine
<1>1. /\ phase' = "data lines" /\ phase = "data lines"
      /\ line_start' = pos + 1
      /\ UNCHANGED <<input, unknown_error, before, result, open_bracket>>
  BY DEF InDataLines, NextLine, call
<1>2. /\ InDataInv /\ Len(input) \in Nat
      /\ pos \in Nat /\ pos <= Len(input)
      /\ Format!IdEnd(input) \in Nat
      /\ pos \in Format!Body(input)
      /\ open_bracket \in BOOLEAN
  BY InData
<1>3. /\ HasIdLine(input) /\ Format!IdEnd(input) < pos
      /\ BracketsSeen(input, pos, open_bracket)
  BY <1>2 DEF InDataInv
<1>4. TextInv'
  <2>1. pos + 1 \in 1..(Len(input) + 1) BY InData
  <2> QED BY <1>0, <1>1, <2>1 DEF FormatInv, TextInv
<1>5. IdLineInv' BY <1>1 DEF IdLineInv
<1>6. AcceptsTheFormat' /\ HoldsTheTelegram' BY <1>1, GoingOn
<1>7. LineBegins(input, pos', line_start')
  <2>1. LineBegins(input, pos + 1, pos + 1) BY <1>3, LineNext
  <2> QED BY <1>0, <1>1, <2>1
<1>8. BracketsSeen(input, pos', open_bracket')
  <2>1. input[pos] \notin Brackets
    BY DEF Format!Breaks, Format!IsNewLine, Brackets
  <2>2. BracketsSeen(input, pos + 1, open_bracket)
    BY <1>2, <1>3, <2>1, BracketsOther
  <2> QED BY <1>0, <1>1, <2>2
<1>9. Format!IdEnd(input) < pos'
  <2>1. Format!IdEnd(input) < pos + 1 BY InData
  <2> QED BY <1>0, <2>1, Zenon
<1>10. InDataInv' BY <1>1, <1>3, <1>7, <1>8, <1>9, Zenon DEF InDataInv
<1>11. DataLinesInv' BY <1>10 DEF DataLinesInv
<1> QED BY <1>4, <1>5, <1>6, <1>11 DEF FormatInv

(* A bracket that is no turn is refused; one that is one is passed, and    *)
(* the one behind it that is the same too.                                 *)
LEMMA BracketStep ==
  ASSUME FormatInv, NEW opens \in BOOLEAN,
         NEW c, c = (IF opens THEN "(" ELSE ")"), Bracket(c, opens)
  PROVE  FormatInv'
<1>1. /\ InDataLines /\ input[pos] = c /\ UNCHANGED data
  BY DEF Bracket
<1>2. /\ InDataInv /\ Len(input) \in Nat
      /\ pos \in Nat /\ pos <= Len(input)
      /\ Format!IdEnd(input) \in Nat
      /\ pos \in Format!Body(input)
      /\ open_bracket \in BOOLEAN
  BY <1>1, InData
<1>3. HasIdLine(input) /\ BracketsSeen(input, pos, open_bracket)
  BY <1>2 DEF InDataInv
<1>4. CASE open_bracket = opens
  <2>1. input[pos] = IF open_bracket THEN "(" ELSE ")" BY <1>1, <1>4
  <2>2. ~Format!WellBracketed(input) BY <1>2, <1>3, <2>1, BracketRefused
  <2>3. input # <<>> BY <1>3, LinesAreFinite
  <2>4. Refused(input, unknown_error, before)
    BY <2>2, <2>3, Zenon DEF Refused, Format!Accepted
  <2>5. Return(FALSE) BY <1>4 DEF Bracket
  <2>6. DOMAIN val' = FieldNumbers BY <1>1 DEF data, FormatInv, TextInv
  <2> QED BY <2>4, <2>5, <2>6, FalseStep
<1>5. CASE open_bracket # opens
  <2>1. /\ pos' = LastOfBracket + 1 /\ open_bracket' = opens
        /\ UNCHANGED <<call, phase, result, line_start, data>>
    BY <1>1, <1>5 DEF Bracket, Go
  <2>2. BracketsSeen(input, LastOfBracket + 1, opens)
    BY <1>1, <1>2, <1>3, <1>5, BracketTurns DEF LastOfBracket
  <2>3. /\ LastOfBracket \in {pos, pos + 1}
        /\ LastOfBracket <= Len(input)
        /\ \A b \in pos..LastOfBracket : input[b] = c
    BY <1>1, <1>2 DEF LastOfBracket
  <2>4. \A b \in pos..LastOfBracket : b \notin Format!Breaks(input)
    <3>1. ~Format!IsNewLine(c) BY DEF Format!IsNewLine
    <3> QED BY <2>3, <3>1 DEF Format!Breaks
  <2> QED BY <1>1, <2>1, <2>2, <2>3, <2>4, PassStep
<1> QED BY <1>4, <1>5

(* Every other character is passed, and an end of line that continues one. *)
LEMMA PassingStep ==
  ASSUME FormatInv, OtherCharacter \/ ContinuedLine
  PROVE  FormatInv'
<1>1. /\ InDataLines /\ pos' = pos + 1
      /\ input[pos] \notin {"(", ")"}
      /\ input[pos] \in NewLine => Continuation
      /\ UNCHANGED <<call, phase, result, line_start, open_bracket, data>>
  <2>1. CASE OtherCharacter BY <2>1 DEF OtherCharacter, Go
  <2>2. CASE ContinuedLine BY <2>2 DEF ContinuedLine, Go, NewLine
  <2> QED BY <2>1, <2>2
<1>2. /\ InDataInv /\ Len(input) \in Nat
      /\ pos \in Nat /\ pos <= Len(input)
      /\ pos \in Format!Body(input)
      /\ open_bracket \in BOOLEAN
  BY <1>1, InData
<1>3. HasIdLine(input) /\ BracketsSeen(input, pos, open_bracket)
  BY <1>2 DEF InDataInv
<1>4. BracketsSeen(input, pos + 1, open_bracket)
  BY <1>1, <1>2, <1>3, BracketsOther DEF Brackets
<1>5. pos \notin Format!Breaks(input)
  BY <1>1, <1>2, <1>3, BreaksWhere DEF Continuation
<1>6. pos \in {pos, pos + 1} /\ \A b \in pos..pos : b = pos BY <1>2
<1> QED BY <1>1, <1>2, <1>4, <1>5, <1>6, PassStep

(* What an accepted line leaves in the fields. *)
LEMMA StoreReads ==
  ASSUME TextInv, NEW b, NEW L, NEW id, NEW text,
         FieldsRead(input, unknown_error, L, before, HasNow), b \notin L,
         Format!Entry(input, b).ok, id = Format!Entry(input, b).id,
         text = Format!Entry(input, b).rest,
         Store(id, text),
         b # Format!IdEnd(input) => IF Moved(id, text) THEN Rest(id, text) = <<>>
                                                       ELSE ~unknown_error
  PROVE  FieldsRead(input, unknown_error, L \cup {b}, before, HasNow')
<1> DEFINE f == FirstMatch(id)
<1>1. /\ Matches(id) # {} /\ f \notin present
      /\ ReadField(f, text).ok
      /\ present' = present \cup {f}
      /\ val' = [val EXCEPT ![f] = ReadField(f, text).val]
  BY DEF Store
<1>2. b # Format!IdEnd(input) =>
        IF Consumes(f, text) THEN ReadField(f, text).rest = <<>>
                             ELSE ~unknown_error
  BY <1>1 DEF Rest, Moved
<1> HIDE DEF f
<1>3. OwnerOf(input, b) = {f} BY <1>1, OwnerIs, Zenon DEF OwnerOf, f
<1>4. Format!GoodLine(input, b, unknown_error)
  <2>1. \A g : g \in Format!Takers(input, b) <=> g = f /\ Consumes(f, text)
    BY <1>3 DEF Format!Takers, OwnerOf
  <2> QED BY <1>1, <1>2, <1>3, <2>1, Zenon DEF Format!GoodLine, OwnerOf
<1>5. /\ HasNow.present = present /\ HasNow.val = val
      /\ HasNow'.present = present' /\ HasNow'.val = val'
  BY DEF HasNow
<1>6. DOMAIN HasNow.val = FieldNumbers BY <1>5 DEF TextInv
<1> QED BY <1>1, <1>3, <1>4, <1>5, <1>6, LineOfAField

(* What a line that belongs to no field leaves in them: all that was there. *)
LEMMA UnknownReads ==
  ASSUME NEW b, NEW L, NEW id,
         FieldsRead(input, unknown_error, L, before, HasNow),
         Format!Entry(input, b).ok, id = Format!Entry(input, b).id,
         Unknown(id), b # Format!IdEnd(input) => ~unknown_error
  PROVE  FieldsRead(input, unknown_error, L \cup {b}, before, HasNow')
<1>1. OwnerOf(input, b) = {} BY OwnerIs DEF OwnerOf, Unknown
<1>2. Format!GoodLine(input, b, unknown_error)
  <2>1. Format!Takers(input, b) = {} BY <1>1 DEF Format!Takers, OwnerOf
  <2> QED BY <1>1, <2>1, Zenon DEF Format!GoodLine, OwnerOf
<1>3. HasNow' = HasNow BY DEF HasNow, Unknown, data
<1> QED BY <1>1, <1>2, <1>3, LineOfNoField

(* A line that is not accepted is none of the format's, or one too many. *)
LEMMA RejectedIsRefused ==
  ASSUME HasIdLine(input), NEW L \in SUBSET LinesOf(input),
         FieldsRead(input, unknown_error, L, before, HasNow),
         NEW b \in LinesOf(input) \ L, NEW id, NEW text,
         id = Format!Entry(input, b).id, text = Format!Entry(input, b).rest,
         \/ ~Format!Entry(input, b).ok
         \/ Duplicate(id)
         \/ BadValue(id, text)
         \/ /\ Store(id, text) \/ Unknown(id)
            /\ b # Format!IdEnd(input)
            /\ IF Moved(id, text) THEN Rest(id, text) # <<>> ELSE unknown_error
  PROVE  Refused(input, unknown_error, before)
<1> DEFINE f == FirstMatch(id)
<1>1. Matches(id) # {} => OwnerOf(input, b) = {f} BY OwnerIs, Zenon DEF OwnerOf
<1>2. CASE ~Format!Entry(input, b).ok
  BY <1>2, BadLineRefused DEF Format!GoodLine
<1>3. CASE Duplicate(id)
  <2>1. OwnerOf(input, b) = {f} /\ f \in present BY <1>1, <1>3 DEF Duplicate
  <2>2. HasNow.present = present BY DEF HasNow
  <2> QED BY <2>1, <2>2, SecondLineRefused
<1>4. CASE BadValue(id, text)
  <2>1. OwnerOf(input, b) = {f} /\ ~ReadField(f, text).ok
    BY <1>1, <1>4 DEF BadValue
  <2> HIDE DEF f
  <2>2. ~Format!GoodLine(input, b, unknown_error)
    BY <2>1, Zenon DEF Format!GoodLine, OwnerOf
  <2> QED BY <2>2, BadLineRefused
<1>5. CASE /\ b # Format!IdEnd(input)
           /\ Moved(id, text)
           /\ Rest(id, text) # <<>>
  <2>1. OwnerOf(input, b) = {f} /\ ReadField(f, text).rest # <<>>
    BY <1>1, <1>5 DEF Moved, Rest
  <2>2. Consumes(f, text) BY <1>5 DEF Moved
  <2> HIDE DEF f
  <2>3. f \in Format!Takers(input, b)
    BY <2>1, <2>2 DEF Format!Takers, OwnerOf
  <2>4. ~Format!GoodLine(input, b, unknown_error)
    BY <1>5, <2>1, <2>3, Zenon DEF Format!GoodLine
  <2> QED BY <2>4, BadLineRefused
<1>6. CASE b # Format!IdEnd(input) /\ ~Moved(id, text) /\ unknown_error
  <2>1. Matches(id) = {} => OwnerOf(input, b) = {} BY OwnerIs DEF OwnerOf
  <2>2. Matches(id) # {} => OwnerOf(input, b) = {f} /\ ~Consumes(f, text)
    BY <1>1, <1>6 DEF Moved
  <2> HIDE DEF f
  <2>3. Format!Takers(input, b) = {} BY <2>1, <2>2 DEF Format!Takers, OwnerOf
  <2>4. ~Format!GoodLine(input, b, unknown_error)
    BY <1>6, <2>3, Zenon DEF Format!GoodLine
  <2> QED BY <2>4, BadLineRefused
<1> QED BY <1>2, <1>3, <1>4, <1>5, <1>6

(* The end of a data line: it is read as the format reads the line that    *)
(* ends there.                                                             *)
LEMMA DataLineStep == FormatInv /\ DataLine => FormatInv'
<1> SUFFICES ASSUME FormatInv, DataLine PROVE FormatInv'
  OBVIOUS
<1>1. InDataLines /\ input[pos] \in NewLine /\ ~Continuation
  BY DEF DataLine
<1>2. /\ InDataInv /\ pos \in Nat /\ pos \in Format!Body(input)
      /\ Format!IdEnd(input) \in Nat /\ open_bracket \in BOOLEAN
  BY <1>1, InData
<1>3. /\ HasIdLine(input) /\ Format!IdEnd(input) < pos
      /\ BracketsSeen(input, pos, open_bracket)
      /\ LineBegins(input, pos, line_start)
      /\ FieldsRead(input, unknown_error, Read, before, HasNow)
  BY <1>2 DEF InDataInv
<1>4. pos \in Format!Breaks(input)
  BY <1>1, <1>2, <1>3, BreaksWhere DEF Continuation
<1>5. Format!LineAt(input, pos) = Line BY <1>3, <1>4, LineAtIs DEF Line
<1>6. pos # Format!IdEnd(input) BY <1>2, <1>3
<1>7. pos \in LinesOf(input) <=> Line # <<>>
  BY <1>4, <1>5, <1>6 DEF LinesOf, Format!DataLines
<1>8. pos \notin Read BY <1>2 DEF Read
<1>9. Read \in SUBSET LinesOf(input) BY DEF Read
<1>10. pos' = pos + 1 /\ input' = input
         => Read' = IF Line = <<>> THEN Read ELSE Read \cup {pos}
  <2>1. \A b \in LinesOf(input) : b \in Nat
    BY <1>2, <1>3, LinesAreFinite
  <2>2. \A b \in LinesOf(input) : b < pos + 1 <=> b < pos \/ b = pos
    BY <1>2, <2>1
  <2>3. {b \in LinesOf(input) : b < pos + 1}
          = IF Line = <<>> THEN Read ELSE Read \cup {pos}
    BY <1>7, <2>2 DEF Read
  <2> QED BY <2>3 DEF Read
<1>11. Format!Entry(input, pos) = ReadObis(Line)
  BY <1>5, <1>6 DEF Format!Entry
<1> DEFINE id == ReadObis(Line).id
           text == ReadObis(Line).rest
<1>12. DOMAIN val' = FieldNumbers
  <2>1. DOMAIN val = FieldNumbers BY DEF FormatInv, TextInv
  <2>2. val' = val \/ \E f, v : val' = [val EXCEPT ![f] = v]
    BY Zenon DEF DataLine, LineAccepted, LineRejected, data, Store, Duplicate,
                 BadValue, Unknown
  <2> QED BY <2>1, <2>2
<1>13. CASE Line = <<>> /\ UNCHANGED data /\ NextLine("data lines")
  <2>1. Read' = Read BY <1>10, <1>13 DEF NextLine, call
  <2>2. HasNow' = HasNow BY <1>13 DEF HasNow, data
  <2> QED BY <1>1, <1>3, <1>4, <1>12, <1>13, <2>1, <2>2, BreakStep
<1>14. CASE Line # <<>> /\ LineAccepted(Line) /\ NextLine("data lines")
  <2>1. Read' = Read \cup {pos} BY <1>10, <1>14 DEF NextLine, call
  <2>2. FieldsRead(input, unknown_error, Read \cup {pos}, before, HasNow')
    <3>1. /\ ReadObis(Line).ok
          /\ Store(id, text) \/ Unknown(id)
          /\ IF Moved(id, text) THEN Rest(id, text) = <<>> ELSE ~unknown_error
      BY <1>14, Zenon DEF LineAccepted
    <3>2. CASE Store(id, text)
      BY <1>3, <1>8, <1>11, <3>1, <3>2, StoreReads DEF FormatInv
    <3>3. CASE Unknown(id)
      <4>1. ~unknown_error BY <3>1, <3>3 DEF Unknown, Moved
      <4> QED BY <1>3, <1>11, <3>1, <3>3, <4>1, UnknownReads
    <3> QED BY <3>1, <3>2, <3>3
  <2> QED BY <1>1, <1>4, <1>12, <1>14, <2>1, <2>2, BreakStep
<1>15. CASE Line # <<>> /\ LineRejected(Line) /\ Return(FALSE)
  <2>1. \/ ~ReadObis(Line).ok
        \/ Duplicate(id)
        \/ BadValue(id, text)
        \/ /\ Store(id, text) \/ Unknown(id)
           /\ IF Moved(id, text) THEN Rest(id, text) # <<>> ELSE unknown_error
    BY <1>15, Zenon DEF LineRejected
  <2>2. pos \in LinesOf(input) \ Read BY <1>7, <1>8, <1>15
  <2> HIDE DEF id, text
  <2>3. id = Format!Entry(input, pos).id /\ text = Format!Entry(input, pos).rest
    BY <1>11 DEF id, text
  <2>4. Refused(input, unknown_error, before)
    BY <1>3, <1>6, <1>9, <1>11, <2>1, <2>2, <2>3, RejectedIsRefused
  <2> QED BY <1>12, <1>15, <2>4, FalseStep
<1> QED BY <1>13, <1>14, <1>15 DEF DataLine

(* The end of the identification line: the format has it as a line with    *)
(* the id of the identification and nothing behind its value.              *)
LEMMA IdLineStep == FormatInv /\ IdLine => FormatInv'
<1> SUFFICES ASSUME FormatInv, IdLine PROVE FormatInv'
  OBVIOUS
<1>1. phase = "id line" /\ ~AtEnd /\ input[pos] \in NewLine BY DEF IdLine
<1>2. /\ Len(input) \in Nat /\ pos \in Nat /\ pos \in 1..Len(input)
      /\ input \in Seq(STRING)
      /\ TextInv
  BY <1>1, TextTypes DEF FormatInv, TextInv
<1>3. /\ line_start = 1 /\ open_bracket = FALSE
      /\ present = before.present /\ val = before.val
      /\ \A i \in 1..(pos - 1) : input[i] \notin NewLine
  BY <1>1 DEF FormatInv, IdLineInv
<1>4. Format!IdEnd(input) = pos BY <1>1, <1>2, <1>3, IdEndIs
<1>5. HasIdLine(input) BY <1>1, <1>2, <1>4 DEF HasIdLine
<1> DEFINE id == Format!Entry(input, pos).id
           text == Format!Entry(input, pos).rest
<1>6. /\ Format!Entry(input, pos).ok
      /\ id = IdentificationId /\ text = Line
  <2>1. Format!Entry(input, pos) = [ok |-> TRUE, id |-> IdentificationId,
                                    rest |-> SubSeq(input, 1, pos - 1)]
    BY <1>4 DEF Format!Entry
  <2>2. Line = SubSeq(input, 1, pos - 1) BY <1>3, Zenon DEF Line
  <2>3. Format!Entry(input, pos).ok BY <2>1
  <2>4. id = IdentificationId BY <2>1
  <2>5. \A i, r : [ok |-> TRUE, id |-> i, rest |-> r].rest = r OBVIOUS
  <2>6. text = SubSeq(input, 1, pos - 1) BY <2>1, <2>5, Zenon
  <2> QED BY <2>2, <2>3, <2>4, <2>6
<1>7. FieldsRead(input, unknown_error, {}, before, HasNow)
  BY <1>3 DEF FieldsRead, HasNow
<1>8. pos \in LinesOf(input) /\ {} \cup {pos} = {pos}
  BY <1>4 DEF LinesOf
<1> HIDE DEF id, text
<1>9. DOMAIN val' = FieldNumbers
  <2>1. DOMAIN val = FieldNumbers BY <1>2 DEF TextInv
  <2>2. val' = val \/ \E f, v : val' = [val EXCEPT ![f] = v]
    BY Zenon DEF IdLine, data, Store, Duplicate, BadValue, Unknown
  <2> QED BY <2>1, <2>2
<1>10. CASE /\ Store(IdentificationId, Line) \/ Unknown(IdentificationId)
            /\ NextLine("data lines")
  <2>1. pos' = pos + 1 /\ line_start' = pos + 1 BY <1>10 DEF NextLine
  <2>2. /\ phase' = "data lines"
        /\ UNCHANGED <<input, unknown_error, before, result, open_bracket>>
    BY <1>10 DEF NextLine, call
  <2>3. pos + 1 \in 1..(Len(input) + 1) /\ pos < pos + 1 BY <1>2
  <2>4. TextInv' BY <1>2, <1>9, <2>1, <2>2, <2>3, <1>1 DEF TextInv, Phases
  <2>5. IdLineInv' BY <2>2 DEF IdLineInv
  <2>6. AcceptsTheFormat' /\ HoldsTheTelegram' BY <1>1, <2>2, GoingOn
  <2>7. FieldsRead(input, unknown_error, {pos}, before, HasNow')
    <3>1. CASE Store(IdentificationId, Line)
      <4>1. Store(id, text) BY <1>6, <3>1
      <4> QED BY <1>2, <1>4, <1>6, <1>7, <1>8, <4>1, StoreReads DEF id, text
    <3>2. CASE Unknown(IdentificationId)
      <4>1. Unknown(id) BY <1>6, <3>2
      <4> QED BY <1>4, <1>6, <1>7, <1>8, <4>1, UnknownReads DEF id, text
    <3> QED BY <1>10, <3>1, <3>2
  <2>8. {b \in LinesOf(input) : b < pos + 1} = {pos}
    <3>1. LinesOf(input) \subseteq pos..Len(input) BY <1>4, <1>5, LinesAreFinite
    <3>2. \A b \in LinesOf(input) : b < pos + 1 <=> b = pos BY <1>2, <3>1
    <3> QED BY <1>8, <3>2
  <2>9. Read' = {pos} BY <2>1, <2>2, <2>8, Zenon DEF Read
  <2>10. /\ BracketsSeen(input, pos + 1, FALSE)
         /\ LineBegins(input, pos + 1, pos + 1)
    BY <1>4, <1>5, BracketsFirst, LineFirst
  <2>11. BracketsSeen(input, pos', open_bracket')
    BY <1>3, <2>1, <2>2, <2>10
  <2>12. InDataInv'
    BY <1>4, <1>5, <2>1, <2>2, <2>3, <2>7, <2>9, <2>10, <2>11, Zenon
       DEF InDataInv
  <2>13. DataLinesInv' BY <2>12 DEF DataLinesInv
  <2> QED BY <2>4, <2>5, <2>6, <2>13 DEF FormatInv
<1>11. CASE /\ Duplicate(IdentificationId) \/ BadValue(IdentificationId, Line)
            /\ Return(FALSE)
  <2>1. Duplicate(id) \/ BadValue(id, text) BY <1>6, <1>11
  <2>2. pos \in LinesOf(input) \ {} /\ {} \in SUBSET LinesOf(input) BY <1>8
  <2>3. Refused(input, unknown_error, before)
    BY <1>5, <1>7, <2>1, <2>2, RejectedIsRefused DEF id, text
  <2> QED BY <1>9, <1>11, <2>3, FalseStep
<1> QED BY <1>10, <1>11 DEF IdLine

(* The end of the telegram: true exactly when its last line has ended. *)
LEMMA EndStep == FormatInv /\ End => FormatInv'
<1> SUFFICES ASSUME FormatInv, End PROVE FormatInv'
  OBVIOUS
<1>1. /\ phase = "data lines" /\ AtEnd
      /\ Return(pos = line_start) /\ UNCHANGED data
  BY DEF End
<1>2. /\ phase' = "returned"
      /\ UNCHANGED <<input, unknown_error, before, pos, line_start,
                     open_bracket, present, val>>
  BY <1>1 DEF Return, call, scan, data
<1>3. result' <=> pos = line_start BY <1>1 DEF Return
<1>4. Len(input) \in Nat /\ pos = Len(input) + 1 /\ open_bracket \in BOOLEAN
  BY <1>1, TextTypes DEF FormatInv, TextInv
<1>5. TextInv' BY <1>2 DEF FormatInv, TextInv, Phases
<1>6. IdLineInv' /\ DataLinesInv' BY <1>2 DEF IdLineInv, DataLinesInv
<1>7. CASE NoLine
  <2>1. pos = line_start <=> Len(input) = 0 BY <1>4, <1>7 DEF NoLine
  <2>2. Len(input) = 0 <=> input = <<>>
    BY EmptySeq, LenProperties DEF FormatInv, TextInv
  <2>3. Format!Accepted(input, unknown_error) <=> input = <<>>
    BY <1>7 DEF NoLine, Format!Accepted
  <2>4. input = <<>> => Format!Filled(input) = {} BY DEF Format!Filled
  <2>5. AcceptsTheFormat'
    <3>1. (/\ Format!Accepted(input, unknown_error)
           /\ Format!Filled(input) \cap before.present = {}) <=> input = <<>>
      BY <2>3, <2>4
    <3> QED BY <1>2, <1>3, <2>1, <2>2, <3>1, Zenon DEF AcceptsTheFormat
  <2>6. HoldsTheTelegram'
    <3>1. input = <<>> => present = before.present \cup Format!Filled(input)
      BY <1>7, <2>4 DEF NoLine
    <3>2. input = <<>> => \A f \in FieldNumbers :
            val[f] = IF f \in Format!Filled(input)
                     THEN Format!Value(input, f) ELSE before.val[f]
      BY <1>7, <2>4 DEF NoLine
    <3> QED BY <1>2, <1>3, <2>1, <2>2, <3>1, <3>2, Zenon DEF HoldsTheTelegram
  <2> QED BY <1>5, <1>6, <2>5, <2>6 DEF FormatInv
<1>8. CASE InDataInv
  <2>1. /\ HasIdLine(input)
        /\ BracketsSeen(input, Len(input) + 1, open_bracket)
        /\ LineBegins(input, Len(input) + 1, line_start)
    BY <1>4, <1>8 DEF InDataInv
  <2>2. Read = LinesOf(input)
    <3>1. Format!IdEnd(input) \in Nat BY <1>4, <2>1 DEF HasIdLine
    <3>2. \A b \in LinesOf(input) : b < Len(input) + 1
      BY <1>4, <2>1, <3>1, LinesAreFinite
    <3> QED BY <1>4, <3>2 DEF Read
  <2>3. FieldsRead(input, unknown_error, LinesOf(input), before, HasNow)
    BY <1>8, <2>2 DEF InDataInv
  <2>4. /\ Format!Filled(input) \cap before.present = {}
        /\ Format!Accepted(input, unknown_error) <=> pos = line_start
    BY <1>4, <2>1, <2>3, EndAccepts
  <2>5. /\ present = before.present \cup Format!Filled(input)
        /\ \A f \in FieldNumbers :
             val[f] = IF f \in Format!Filled(input)
                      THEN Format!Value(input, f) ELSE before.val[f]
    <3>1. HasNow.present = present /\ HasNow.val = val BY DEF HasNow
    <3> QED BY <2>1, <2>3, <3>1, EndHolds
  <2>6. AcceptsTheFormat'
    BY <1>2, <1>3, <2>4, Zenon DEF AcceptsTheFormat
  <2>7. HoldsTheTelegram' BY <1>2, <2>5, Zenon DEF HoldsTheTelegram
  <2> QED BY <1>5, <1>6, <2>6, <2>7 DEF FormatInv
<1> QED BY <1>1, <1>7, <1>8 DEF FormatInv, DataLinesInv

(* The next call, with what the last one has left in the ParsedData. *)
LEMMA NextCallStep == FormatInv /\ ParseIntoSame => FormatInv'
<1> SUFFICES ASSUME FormatInv, ParseIntoSame PROVE FormatInv'
  OBVIOUS
<1>1. input' \in Seq(STRING) BY ContentType DEF ParseIntoSame
<1>2. Len(input') \in Nat BY <1>1, LenProperties
<1>3. /\ phase' = "id line" /\ line_start' = 1
      /\ open_bracket' = FALSE /\ result' = FALSE
      /\ present' = before'.present /\ val' = before'.val
      /\ val' = val
  BY DEF ParseIntoSame, data
<1>4. pos' = 1 BY DEF ParseIntoSame
<1>5. DOMAIN val' = FieldNumbers BY <1>3 DEF FormatInv, TextInv
<1>6. pos' \in 1..(Len(input') + 1) /\ 1..(pos' - 1) = {} BY <1>2, <1>4
<1>7. TextInv' BY <1>1, <1>3, <1>5, <1>6 DEF TextInv, Phases
<1>8. IdLineInv' BY <1>3, <1>6 DEF IdLineInv
<1>9. DataLinesInv' /\ AcceptsTheFormat' /\ HoldsTheTelegram'
  BY <1>3 DEF DataLinesInv, AcceptsTheFormat, HoldsTheTelegram
<1> QED BY <1>7, <1>8, <1>9 DEF FormatInv

(* Every step of a call, and every next call. *)
LEMMA FormatStep == FormatInv /\ [Next]_vars => FormatInv'
<1> SUFFICES ASSUME FormatInv, [Next]_vars PROVE FormatInv'
  OBVIOUS
<1>1. CASE IdLineCharacter BY <1>1, IdLineCharacterStep
<1>2. CASE IdLine BY <1>2, IdLineStep
<1>3. CASE NoIdLine BY <1>3, NoIdLineStep
<1>4. CASE Bracket("(", TRUE) BY <1>4, BracketStep
<1>5. CASE Bracket(")", FALSE) BY <1>5, BracketStep
<1>6. CASE OtherCharacter \/ ContinuedLine BY <1>6, PassingStep
<1>7. CASE DataLine BY <1>7, DataLineStep
<1>8. CASE End BY <1>8, EndStep
<1>9. CASE ParseIntoSame BY <1>9, NextCallStep
<1>10. CASE UNCHANGED vars
  <2>1. UNCHANGED <<input, unknown_error, before, phase, pos, line_start,
                    open_bracket, present, val, result>>
    BY <1>10 DEF vars, call, scan, data
  <2>2. TextInv' /\ IdLineInv'
    BY <2>1, Zenon DEF FormatInv, TextInv, IdLineInv
  <2>3. DataLinesInv'
    BY <2>1, Zenon DEF FormatInv, DataLinesInv, NoLine, InDataInv, Read, HasNow
  <2>4. AcceptsTheFormat' /\ HoldsTheTelegram'
    BY <2>1, Zenon DEF FormatInv, AcceptsTheFormat, HoldsTheTelegram
  <2> QED BY <2>2, <2>3, <2>4 DEF FormatInv
<1> QED BY <1>1, <1>2, <1>3, <1>4, <1>5, <1>6, <1>7, <1>8, <1>9, <1>10
        DEF Next, parse

(* parse returns true for exactly the telegrams of the format that have no *)
(* line for a field the ParsedData had.                                    *)
THEOREM ParserAcceptsTheFormat == Spec => []AcceptsTheFormat
<1>1. FormatInv => AcceptsTheFormat BY DEF FormatInv
<1> QED BY <1>1, FormatInit, FormatStep, PTL DEF Spec

(* And then the ParsedData holds what the telegram says. *)
THEOREM ParserHoldsTheTelegram == Spec => []HoldsTheTelegram
<1>1. FormatInv => HoldsTheTelegram BY DEF FormatInv
<1> QED BY <1>1, FormatInit, FormatStep, PTL DEF Spec
=============================================================================
