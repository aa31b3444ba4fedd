------------------------------ MODULE JsonText ------------------------------
(***************************************************************************)
(* What json_parser_process promises: the text is read as if all of it were *)
(* there at once, a token at a time.  There are no chunks, no buffer and no *)
(* drains here; a number, a string or a name is what stands in the text     *)
(* from its first symbol to its last.  The promise ends with an allocation  *)
(* that fails.                                                             *)
(***************************************************************************)
EXTENDS JsonGrammar, Naturals

CONSTANT Failures      \* how many allocations may fail

VARIABLES
  at,        \* how much was read: all before the token being read
  error,     \* what was found wrong
  failures   \* allocations that still may fail

vars == <<stream, at, place, open, pName, delivered, error, failures>>

Init ==
  /\ stream \in Streams
  /\ at = 0
  /\ place = "value"
  /\ open = <<Empty("array")>>
  /\ pName = NoName
  /\ delivered = <<>>
  /\ error = {}
  /\ failures = Failures

\* A token of n symbols and what comes after it.
TokenOf(n) == SubSeq(stream.text, at + 1, at + n)
Reads(n, symbols) ==
  at + n < Len(stream.text) /\ stream.text[at + n + 1] \in symbols \cap Follows

OnlyDigits(n) == \A i \in at + 1 .. at + n : stream.text[i] \in Digits
NoQuote(n) == \A i \in at + 1 .. at + n : stream.text[i] \notin {"quote", "NUL", "bad"}

Goes(n, next) ==
  /\ at' = at + n
  /\ place' = next
  /\ UNCHANGED <<stream, failures, error>>

Begin(type, symbol) ==
  /\ AtValue
  /\ Reads(0, {symbol})
  /\ Opened(type)
  /\ NameUsed
  /\ at' = at + 1
  /\ UNCHANGED <<stream, delivered, error, failures>>

End(type, symbol) ==
  /\ Machine = type
  /\ place \in {"start", "next"}
  /\ Reads(0, {symbol})
  /\ Closed
  /\ at' = at + 1
  /\ UNCHANGED <<stream, pName, error, failures>>

EndSingle ==
  /\ place = "next"
  /\ Reads(0, {"NUL"})
  /\ Deliver(Last(open))
  /\ Goes(1, "end")
  /\ UNCHANGED pName

\* Between tokens.
Punctuation ==
  /\ \/ place \in {"start", "value", "member", "colon", "next"} /\ Reads(0, {" "}) /\ Goes(1, place)
     \/ place = "next" /\ Reads(0, {","}) /\ Goes(1, AfterComma)
     \/ place = "colon" /\ Reads(0, {":"}) /\ Goes(1, "value")
     \/ AtValue /\ Reads(0, {"quote"}) /\ Goes(1, "opened string")
     \/ /\ place \in {"start", "member"} /\ Machine = "object"
        /\ Reads(0, {"quote"})
        /\ Goes(1, "opened name")
  /\ UNCHANGED <<open, pName, delivered>>

\* The first symbol of a token is seen.
TokenBegins ==
  /\ \/ AtValue /\ Reads(0, Digits) /\ Goes(0, "number")
     \/ place = "opened string" /\ Reads(0, Follows \ {"quote"}) /\ Goes(0, "string")
     \/ place = "opened name" /\ Reads(0, Follows \ {"quote"}) /\ Goes(0, "name")
  /\ UNCHANGED <<open, pName, delivered>>

Adds(value) ==
  /\ ~Nameless
  /\ open' = Put(open, value)
  /\ NameUsed
  /\ UNCHANGED delivered

\* A number ends where something else may follow, which is not read with it.
Number(n) ==
  /\ place = "number" /\ n > 0 /\ OnlyDigits(n)
  /\ Reads(n, Delimiters)
  /\ Adds(JsonInt(TokenOf(n)))
  /\ Goes(n, "next")

Null ==
  /\ AtValue
  /\ Reads(0, {"null"})
  /\ Adds(JsonNull)
  /\ Goes(1, "next")

\* A string or a name ends with its closing quote.
String(n) ==
  /\ place = (IF n = 0 THEN "opened string" ELSE "string") /\ NoQuote(n)
  /\ Reads(n, {"quote"})
  /\ Adds(JsonString(TokenOf(n)))
  /\ Goes(n + 1, "next")

Name(n) ==
  /\ place = (IF n = 0 THEN "opened name" ELSE "name") /\ NoQuote(n)
  /\ Reads(n, {"quote"})
  /\ pName' = TokenOf(n)
  /\ Goes(n + 1, "colon")
  /\ UNCHANGED <<open, delivered>>

\* What follows n symbols of a token, or no token, is not in the grammar.
Malformed(n) ==
  /\ place # "error"
  /\ IF place = "number" THEN n > 0 /\ OnlyDigits(n)
     ELSE IF TokenStart THEN n = 0 ELSE n > 0 /\ NoQuote(n)
  /\ at + n < Len(stream.text)
  /\ stream.text[at + n + 1] \notin Follows
  /\ IF RunsErr THEN error' = error \cup {"parse"} /\ at' = at + n + 1
     ELSE at' = at + n /\ UNCHANGED error
  /\ place' = "error"
  /\ UNCHANGED <<stream, open, pName, delivered, failures>>

\* An allocation failed now or before: an error says so, no more is promised.
GiveUp ==
  /\ failures' < failures \/ "internal" \in error
  /\ "internal" \in error'

Next ==
  \/ GiveUp
  \/ Begin("array", "[") \/ Begin("object", "{")
  \/ End("array", "]") \/ End("object", "}")
  \/ EndSingle
  \/ Punctuation \/ TokenBegins \/ Null
  \/ \E n \in 0 .. Len(stream.text) : Number(n) \/ String(n) \/ Name(n) \/ Malformed(n)

Spec == Init /\ [][Next]_vars
=============================================================================
