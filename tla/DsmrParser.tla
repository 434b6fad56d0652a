----------------------------- MODULE DsmrParser -----------------------------
(***************************************************************************)
(* DsmrParser::parse and ParsedData (parser.h): one call that splits a     *)
(* telegram into lines and hands each line to the field it belongs to.     *)
(* The loops of parse advance one character a step.  What is read from the *)
(* characters of a line, its OBIS id and its value, are parameters.        *)
(***************************************************************************)
EXTENDS Integers, Sequences

CONSTANTS
  Telegrams,          \* what the caller can pass: '/' ... '!'
  LaterTelegrams,     \* what it can pass with the same ParsedData again
  FieldIds,           \* F::id of the fields, in the order of the template
                      \* arguments of ParsedData
  IdentificationId,   \* ObisId(255, 255, 255, 255, 255, 255)
  ReadObis(_),        \* of a line: [ok, id, rest]
  ReadField(_, _),    \* F::parse of what follows the id: [ok, val, rest]
  Consumes(_, _)      \* whether the view it returns begins elsewhere than
                      \* the one it was given

(* A telegram has its '/' and its '!': parse takes two from its size. *)
ASSUME TelegramsAssumption == \A t \in Telegrams \cup LaterTelegrams :
                                t \in Seq(STRING) /\ Len(t) >= 2

ASSUME FieldIdsAssumption == /\ Len(FieldIds) \in Nat
                             /\ DOMAIN FieldIds = 1..Len(FieldIds)

VARIABLES
  input,          \* the telegram without its '/' and '!'
  unknown_error,
  phase,          \* which loop of parse is running
  pos,            \* the next character; the first one has position 1
  line_start,
  open_bracket,
  present,        \* the fields with present() set
  val,            \* val() of the fields
  before,         \* both as the caller passed them
  result

scan == <<pos, line_start, open_bracket>>
data == <<present, val>>
call == <<input, unknown_error, before>>
vars == <<call, phase, scan, data, result>>

Phases == {"id line", "data lines", "returned"}
FieldNumbers == DOMAIN FieldIds
NewLine == {"\r", "\n"}

-----------------------------------------------------------------------------
Content(t) == SubSeq(t, 2, Len(t) - 1)

(* The caller passes a ParsedData it has just made. *)
Init == /\ \E t \in Telegrams : input = Content(t)
        /\ unknown_error \in BOOLEAN
        /\ phase = "id line"
        /\ pos = 1
        /\ line_start = 1
        /\ open_bracket = FALSE
        /\ present = {}
        /\ val = [f \in FieldNumbers |-> <<>>]
        /\ before = [present |-> present, val |-> val]
        /\ result = FALSE

(* It may pass the same one with the next telegram, whatever the call      *)
(* before has made of it: parse does not clear it.                         *)
ParseIntoSame == /\ phase = "returned"
                 /\ \E t \in LaterTelegrams : input' = Content(t)
                 /\ unknown_error' = unknown_error
                 /\ phase' = "id line"
                 /\ pos' = 1
                 /\ line_start' = 1
                 /\ open_bracket' = FALSE
                 /\ before' = [present |-> present, val |-> val]
                 /\ result' = FALSE
                 /\ UNCHANGED data

AtEnd == pos > Len(input)
Line == SubSeq(input, line_start, pos - 1)

Return(r) == /\ phase' = "returned"
             /\ result' = r
             /\ UNCHANGED <<call, scan>>

Go(p) == /\ pos' = p
         /\ UNCHANGED <<call, phase, result>>

NextLineBehindTwo(to) ==
                /\ pos' = pos + 1
                /\ line_start' = pos + 2
                /\ phase' = to
                /\ UNCHANGED <<call, open_bracket, result>>
NextLine(to) == /\ pos' = pos + 1
                /\ line_start' = pos + 1
                /\ phase' = to
                /\ UNCHANGED <<call, open_bracket, result>>

-----------------------------------------------------------------------------
(* ParsedData::parse_line: the fold over the fields stops at the first one *)
(* with the id.                                                            *)
Matches(id) == {f \in FieldNumbers : FieldIds[f] = id}
LastMatch(id) == CHOOSE f \in Matches(id) : \A g \in Matches(id) : f >= g
FirstMatch(id) == CHOOSE f \in Matches(id) : \A g \in Matches(id) : f <= g

StoreAgain(id, text) ==
  LET f == FirstMatch(id)
      r == ReadField(f, text)
  IN  /\ Matches(id) # {}
      /\ present' = present \cup {f}
      /\ r.ok
      /\ val' = [val EXCEPT ![f] = r.val]
Store(id, text) ==
  LET f == FirstMatch(id)
      r == ReadField(f, text)
  IN  /\ Matches(id) # {}
      /\ f \notin present
      /\ present' = present \cup {f}
      /\ r.ok
      /\ val' = [val EXCEPT ![f] = r.val]

Duplicate(id) == /\ Matches(id) # {}
                 /\ FirstMatch(id) \in present
                 /\ UNCHANGED data

(* present() is set before the value is parsed. *)
BadValue(id, text) == LET f == FirstMatch(id)
                      IN  /\ Matches(id) # {}
                          /\ f \notin present
                          /\ ~ReadField(f, text).ok
                          /\ present' = present \cup {f}
                          /\ UNCHANGED val

Unknown(id) == Matches(id) = {} /\ UNCHANGED data

Rest(id, text) == ReadField(FirstMatch(id), text).rest

(* Whether a field has taken anything: ParsedData returns the view it was  *)
(* given when there is none, and a field may do so too.                    *)
Moved(id, text) == Matches(id) # {} /\ Consumes(FirstMatch(id), text)

(* DsmrParser::parse_line of a line that is not empty.  It knows that a    *)
(* field is unknown by where the view it gets back begins.                 *)
LineAccepted(line) ==
  LET o == ReadObis(line)
  IN  /\ o.ok
      /\ Store(o.id, o.rest) \/ Unknown(o.id)
      /\ IF Moved(o.id, o.rest) THEN Rest(o.id, o.rest) = <<>>
                                 ELSE ~unknown_error

LineRejected(line) ==
  LET o == ReadObis(line)
  IN  \/ ~o.ok /\ UNCHANGED data
      \/ /\ o.ok
         /\ \/ Duplicate(o.id)
            \/ BadValue(o.id, o.rest)
            \/ /\ Store(o.id, o.rest) \/ Unknown(o.id)
               /\ IF Moved(o.id, o.rest) THEN Rest(o.id, o.rest) # <<>>
                                          ELSE unknown_error

-----------------------------------------------------------------------------
IdLineCharacter == /\ phase = "id line"
                   /\ ~AtEnd
                   /\ input[pos] \notin NewLine
                   /\ Go(pos + 1)
                   /\ UNCHANGED <<line_start, open_bracket, data>>

(* Only the value of the identification counts here: neither what follows  *)
(* it nor the absence of the field is an error.                            *)
IdLine == /\ phase = "id line"
          /\ ~AtEnd
          /\ input[pos] \in NewLine
          /\ \/ /\ Store(IdentificationId, Line) \/ Unknown(IdentificationId)
                /\ NextLine("data lines")
             \/ /\ \/ Duplicate(IdentificationId)
                   \/ BadValue(IdentificationId, Line)
                /\ Return(FALSE)

NoIdLine == /\ phase = "id line"
            /\ AtEnd
            /\ phase' = "data lines"
            /\ UNCHANGED <<call, scan, data, result>>

InDataLines == phase = "data lines" /\ ~AtEnd

(* A doubled bracket counts for one. *)
LastOfBracket == IF pos < Len(input) /\ input[pos + 1] = input[pos]
                 THEN pos + 1 ELSE pos

Bracket(c, opens) ==
  /\ InDataLines
  /\ input[pos] = c
  /\ IF open_bracket = opens
     THEN Return(FALSE)
     ELSE /\ Go(LastOfBracket + 1)
          /\ open_bracket' = opens
          /\ UNCHANGED line_start
  /\ UNCHANGED data

OtherCharacter == /\ InDataLines
                  /\ input[pos] \notin NewLine \cup {"(", ")"}
                  /\ Go(pos + 1)
                  /\ UNCHANGED <<line_start, open_bracket, data>>

(* The end of a line counts neither in brackets nor before a bracket. *)
ContinuationByLookahead ==
  /\ Len(input) - pos + 1 > 2
  /\ "(" \in {input[pos + 1], input[pos + 2]}
Continuation == \/ open_bracket
                \/ /\ Len(input) - pos + 1 > 2
                   /\ "(" \in {input[pos + 1], input[pos + 2]}

ContinuedLine == /\ InDataLines
                 /\ input[pos] \in NewLine
                 /\ Continuation
                 /\ Go(pos + 1)
                 /\ UNCHANGED <<line_start, open_bracket, data>>

DataLine == /\ InDataLines
            /\ input[pos] \in NewLine
            /\ ~Continuation
            /\ \/ /\ Line = <<>>
                  /\ UNCHANGED data
                  /\ NextLine("data lines")
               \/ /\ Line # <<>>
                  /\ LineAccepted(Line)
                  /\ NextLine("data lines")
               \/ /\ Line # <<>>
                  /\ LineRejected(Line)
                  /\ Return(FALSE)

End == /\ phase = "data lines"
       /\ AtEnd
       /\ Return(pos = line_start)
       /\ UNCHANGED data

parse == \/ IdLineCharacter \/ IdLine \/ NoIdLine
         \/ Bracket("(", TRUE) \/ Bracket(")", FALSE) \/ OtherCharacter
         \/ ContinuedLine \/ DataLine
         \/ End

Next == parse \/ ParseIntoSame

Spec == Init /\ [][Next]_vars

-----------------------------------------------------------------------------
Format == INSTANCE TelegramFormat

(* parse returns true for exactly the telegrams of the format that have no *)
(* line for a field the ParsedData had before: no end of line inside a     *)
(* value cuts it, none outside is overlooked, and no field is taken from   *)
(* two lines, of one telegram or of two.                                   *)
AcceptsTheFormat ==
  phase = "returned" =>
    (result <=> /\ Format!Accepted(input, unknown_error)
                /\ Format!Filled(input) \cap before.present = {})

(* When it does, the fields with a line hold the values of their own       *)
(* lines, and the others are as they were.                                 *)
HoldsTheTelegram ==
  result => /\ present = before.present \cup Format!Filled(input)
            /\ \A f \in FieldNumbers :
                 val[f] = IF f \in Format!Filled(input)
                          THEN Format!Value(input, f) ELSE before.val[f]

(* Wherever brackets are doubled and lines end, the scan never passes the  *)
(* end of the telegram, and no line begins behind it: what is read and     *)
(* handed on is a part of the telegram.                                    *)
ScanStaysInside == pos \in 1..(Len(input) + 1) /\ line_start \in 1..pos

(* Whatever a call returns, and however often the same ParsedData is       *)
(* passed: a value that was read is never overwritten, and no field is     *)
(* forgotten.                                                              *)
FirstValueStays ==
  [][\A f \in present : f \in present' /\ val'[f] = val[f]]_vars
=============================================================================
