----------------------------- MODULE JsonParser -----------------------------
(***************************************************************************)
(* The incremental parser of src/src/json_parser.rl and its grammar        *)
(* src/src/json.rl.  The caller keeps the bytes in a buffer and calls      *)
(* json_parser_process each time the buffer has grown; the parser remembers *)
(* where it stopped (off), where the token it is reading starts (p_start)  *)
(* and up to where the buffer is no longer needed (ready_for_drain), all    *)
(* three relative to the start of the buffer.  json_parser_drain forgets    *)
(* the beginning of the buffer.                                            *)
(*                                                                         *)
(* A step reads one symbol, so a chunk may end anywhere.  stream.entry is   *)
(* "stream" for json_parser_process on a json_parser_new parser and         *)
(* "single" for json_parser_parse, which parses one text closed by a NUL    *)
(* and has no error callback.                                              *)
(***************************************************************************)
EXTENDS JsonGrammar

CONSTANTS
  Failures,        \* how many allocations may fail
  MayDrain,        \* whether the caller drains between two tokens ...
  DrainsInToken    \* ... and also while a token is being read

ASSUME FailuresAssumption == Failures \in Nat

VARIABLES
  arrived,    \* how many symbols of it json_parser_process was called with
  drained,    \* how many of those were drained from the buffer
  running,    \* json_parser_process is on the stack
  off,        \* jp->off, or p - start while running
  pStart,     \* jp->p_start
  drainable,  \* jp->ready_for_drain
  error,      \* jp->error
  pending,    \* scheduled calls of handle_errorcb
  reported,   \* the error of each call of e_cb
  failures    \* allocations that still may fail

position == <<drained, off, pStart, drainable>>
vars == <<stream, arrived, running, position, place, open, pName, error,
          pending, reported, delivered, failures>>

Buffer == SubSeq(stream.text, drained + 1, arrived)
Symbol == Buffer[off + 1]

Reading(symbols) ==
  /\ running
  /\ off < Len(Buffer)
  /\ Symbol \in symbols \cap Follows

Init ==
  /\ stream \in Streams
  /\ arrived = 0
  /\ drained = 0
  /\ running = FALSE
  /\ off = 0
  /\ pStart = 0
  /\ drainable = 0
  /\ place = "value"
  /\ open = <<Empty("array")>>
  /\ pName = NoName
  /\ error = {}
  /\ pending = 0
  /\ reported = <<>>
  /\ delivered = <<>>
  /\ failures = Failures

-----------------------------------------------------------------------------
(* What several actions of the grammar share.                              *)

\* handle_error: the flag is set at once, the callback comes from the event
\* loop; json_parser_parse has no callback.
HandleError(what) ==
  /\ error' = error \cup {what}
  /\ pending' = IF stream.entry = "stream" THEN pending + 1 ELSE pending

\* fbreak after an action returned -1, and the end of json_parser_process.
Break ==
  /\ running' = FALSE
  /\ HandleError("internal")

Spend ==
  /\ failures > 0
  /\ failures' = failures - 1

\* jp->add(jp->cur_obj, &jp->p_name, value): refused without a name, and when
\* an allocation fails, by then an object has dropped its old entry.
Stored(value) ==
  /\ ~Nameless
  /\ open' = Put(open, value)
  /\ UNCHANGED <<running, error, pending, failures>>

NotStored ==
  /\ \/ Nameless /\ UNCHANGED <<open, failures>>
     \/ /\ ~Nameless
        /\ Spend
        /\ open' \in {open, Append(Front(open), Without(Last(open), pName))}
  /\ Break

-----------------------------------------------------------------------------
(* Containers.                                                             *)

Pushed(type) ==
  /\ Opened(type)
  /\ UNCHANGED <<running, error, pending, failures>>

\* A_begin_array and A_begin_object: the container is added to its parent
\* before the parent is pushed, so when the push fails it stays there, empty.
Begin(type, symbol) ==
  /\ AtValue
  /\ Reading({symbol})
  /\ off' = off + 1
  /\ NameUsed
  /\ \/ Pushed(type)
     \/ NotStored /\ place' = AfterValue
     \/ /\ ~Nameless
        /\ Spend
        /\ open' = Put(open, Empty(type))
        /\ place' = AfterValue
        /\ Break
  /\ UNCHANGED <<stream, arrived, drained, pStart, drainable, reported, delivered>>

\* A_end_array and A_end_object.
End(type, symbol) ==
  /\ Machine = type
  /\ place \in {"start", "next"}
  /\ Reading({symbol})
  /\ Closed
  /\ off' = off + 1
  /\ drainable' = off + 1
  /\ UNCHANGED <<stream, arrived, drained, pStart, running, pName, error,
                 pending, reported, failures>>

\* The NUL of single_json_value runs A_final.
EndSingle ==
  /\ place = "next"
  /\ Reading({"NUL"})
  /\ Deliver(Last(open))
  /\ off' = off + 1
  /\ place' = "end"
  /\ UNCHANGED <<stream, arrived, drained, pStart, drainable, running, pName,
                 error, pending, reported, failures>>

-----------------------------------------------------------------------------
(* Tokens.                                                                 *)

Move(next) ==
  /\ off' = off + 1
  /\ place' = next
  /\ UNCHANGED <<stream, arrived, drained, drainable, running, open, pName,
                 error, pending, reported, delivered, failures>>

Space ==
  /\ place \in {"start", "value", "member", "colon", "next"}
  /\ Reading({" "})
  /\ Move(place)
  /\ UNCHANGED pStart

Separator ==
  /\ UNCHANGED pStart
  /\ \/ place = "next" /\ Reading({","}) /\ Move(AfterComma)
     \/ place = "colon" /\ Reading({":"}) /\ Move("value")

OpenQuote ==
  /\ Reading({"quote"})
  /\ \/ AtValue /\ Move("opened string")
     \/ place \in {"start", "member"} /\ Machine = "object" /\ Move("opened name")
  /\ UNCHANGED pStart

TokenFrom == IF TokenStart THEN off ELSE pStart

\* Mutant of Digit: every digit is taken for the first one.
DigitRestarts ==
  /\ AtValue \/ place = "number"
  /\ Reading(Digits)
  /\ Move("number")
  /\ pStart' = off

Digit ==
  /\ AtValue \/ place = "number"
  /\ Reading(Digits)
  /\ Move("number")
  /\ pStart' = TokenFrom

\* Mutant of TextSymbol: A_save_start on every symbol of the token.
TextSymbolRestarts ==
  /\ \/ place \in {"opened string", "string"} /\ Move("string")
     \/ place \in {"opened name", "name"} /\ Move("name")
  /\ Reading(Follows \ {"quote"})
  /\ pStart' = off

TextSymbol ==
  /\ \/ place \in {"opened string", "string"} /\ Move("string")
     \/ place \in {"opened name", "name"} /\ Move("name")
  /\ Reading(Follows \ {"quote"})
  /\ pStart' = TokenFrom

-----------------------------------------------------------------------------
(* What is read of the buffer when a token ends.  pStart is past the symbol *)
(* that ends the token only when a drain has moved the buffer under it.     *)

\* atoi(start + jp->p_start), whatever is there.
NumberFrom(start) ==
  LET ends == {i \in start + 1 .. Len(Buffer) : Buffer[i] \notin Digits}
      stop == CHOOSE i \in ends : \A j \in ends : i <= j
  IN IF ends = {} THEN {<<>>} \cup {<<d>> : d \in Digits}
     ELSE {SubSeq(Buffer, start + 1, stop - 1)}

\* get_interprete_str: nothing can be allocated for a negative length, except
\* that malloc(0) may succeed.
TextFrom(start) ==
  IF start <= off THEN {SubSeq(Buffer, start + 1, off)}
  ELSE IF start = off + 1 THEN {NoName, <<>>} ELSE {NoName}

\* A_save_*: add the value, then update_for_drain, whatever add returned.  The
\* machine goes on in "next" at symbol resume, or breaks in place broken.
Save(values, resume, broken) ==
  /\ drainable' = off + 1
  /\ NameUsed
  /\ \/ \E value \in values : Stored(value) /\ place' = "next" /\ off' = resume
     \/ NotStored /\ place' = broken /\ off' = off + 1
  /\ UNCHANGED <<stream, arrived, drained, reported, delivered>>

\* A_save_int is a leaving action: it runs on the symbol after the number,
\* before that symbol's own action, and when it breaks that action is skipped.
SaveInt ==
  /\ place = "number"
  /\ Reading(Delimiters)
  /\ Save({JsonInt(digits) : digits \in NumberFrom(pStart)},
          off,
          CASE Symbol = " " -> "next"
            [] Symbol = "," -> AfterComma
            [] OTHER        -> "end")
  /\ UNCHANGED pStart

SaveNull ==
  /\ AtValue
  /\ Reading({"null"})
  /\ Save({JsonNull}, off + 1, "next")
  /\ UNCHANGED pStart

SaveString ==
  LET texts == TextFrom(TokenFrom)
  IN /\ place \in {"opened string", "string"}
     /\ Reading({"quote"})
     /\ pStart' = TokenFrom
     /\ \/ Save({JsonString(t) : t \in texts \ {NoName}}, off + 1, "next")
        \/ /\ NoName \in texts \/ failures > 0
           /\ failures' = IF NoName \in texts THEN failures ELSE failures - 1
           /\ drainable' = off + 1
           /\ NameUsed
           /\ off' = off + 1
           /\ place' = "next"
           /\ Break
           /\ UNCHANGED <<stream, arrived, drained, open, reported, delivered>>

SaveName ==
  LET texts == TextFrom(TokenFrom)
  IN /\ place \in {"opened name", "name"}
     /\ Reading({"quote"})
     /\ off' = off + 1
     /\ pStart' = TokenFrom
     /\ place' = "colon"
     /\ pName' \in texts \cup (IF failures > 0 THEN {NoName} ELSE {})
     /\ IF pName' # NoName
        THEN UNCHANGED <<running, error, pending, failures>>
        ELSE /\ failures' = IF NoName \in texts THEN failures ELSE failures - 1
             /\ Break
     /\ UNCHANGED <<stream, arrived, drained, drainable, open, reported, delivered>>

-----------------------------------------------------------------------------
(* The calls, the error action and the event loop.                         *)

\* The machine has no transition on the symbol.
NoTransition ==
  /\ running
  /\ off < Len(Buffer)
  /\ place # "error"
  /\ Symbol \notin Follows
  /\ running' = FALSE
  /\ UNCHANGED <<stream, arrived, drained, pStart, drainable, open, pName,
                 reported, delivered, failures>>

\* Mutant of ParseError: cs is left where it was.
ParseErrorGoesOn ==
  /\ NoTransition
  /\ IF RunsErr THEN HandleError("parse") /\ off' = off + 1
     ELSE UNCHANGED <<error, pending, off>>
  /\ UNCHANGED place

\* Mutant of ParseError: the flag without the scheduled callback.
ParseErrorSilent ==
  /\ NoTransition
  /\ IF RunsErr THEN error' = error \cup {"parse"} /\ off' = off + 1
     ELSE UNCHANGED <<error, off>>
  /\ place' = "error"
  /\ UNCHANGED pending

\* cs becomes the error state for good; A_err, where it runs, ends in fbreak,
\* which steps over the symbol.
ParseError ==
  /\ NoTransition
  /\ IF RunsErr THEN HandleError("parse") /\ off' = off + 1
     ELSE UNCHANGED <<error, pending, off>>
  /\ place' = "error"

\* json_parser_process with n more symbols in the buffer, or json_parser_parse,
\* which has the whole text.
Process(n) ==
  /\ ~running
  /\ arrived + n <= Len(stream.text)
  /\ stream.entry = "single" => n = Len(stream.text)
  /\ arrived' = arrived + n
  /\ running' = TRUE
  /\ UNCHANGED <<stream, position, place, open, pName, error, pending, reported,
                 delivered, failures>>

\* The end of the buffer, or nothing to do in the error state.
Return ==
  /\ running
  /\ off = Len(Buffer) \/ place = "error"
  /\ running' = FALSE
  /\ UNCHANGED <<stream, arrived, position, place, open, pName, error, pending,
                 reported, delivered, failures>>

\* Mutant of Drain: off still counts from the old start of the buffer.
DrainKeepsOff ==
  /\ MayDrain
  /\ ~running
  /\ drainable > 0
  /\ TokenStart \/ DrainsInToken
  /\ drained' = drained + drainable
  /\ drainable' = 0
  /\ UNCHANGED <<stream, arrived, running, off, pStart, place, open, pName, error,
                 pending, reported, delivered, failures>>

\* json_parser_drain and the caller's removal of that many symbols: off moves
\* with the buffer, p_start does not.
Drain ==
  /\ MayDrain
  /\ ~running
  /\ drainable > 0
  /\ TokenStart \/ DrainsInToken
  /\ drained' = drained + drainable
  /\ off' = off - drainable
  /\ drainable' = 0
  /\ UNCHANGED <<stream, arrived, running, pStart, place, open, pName, error,
                 pending, reported, delivered, failures>>

\* handle_errorcb reads jp->error when it runs, not when it was scheduled.
ErrorCallback ==
  /\ ~running
  /\ pending > 0
  /\ pending' = pending - 1
  /\ reported' = Append(reported, error)
  /\ UNCHANGED <<stream, arrived, running, position, place, open, pName, error,
                 delivered, failures>>

Step ==
  \/ Begin("array", "[") \/ Begin("object", "{")
  \/ End("array", "]") \/ End("object", "}")
  \/ EndSingle
  \/ Space \/ Separator \/ OpenQuote \/ Digit \/ TextSymbol
  \/ SaveInt \/ SaveNull \/ SaveString \/ SaveName
  \/ ParseError
  \/ Return

Next ==
  \/ \E n \in 1 .. Len(stream.text) : Process(n)
  \/ Step
  \/ Drain
  \/ ErrorCallback

Spec == Init /\ [][Next]_vars

\* json_parser_process runs to its end, and the event loop runs the timers that
\* have expired; nobody has to send anything or to drain.
FairSpec == Spec /\ WF_vars(Step) /\ WF_vars(ErrorCallback)

-----------------------------------------------------------------------------
(* Properties.                                                             *)

\* Types, and the positions stay within the buffer.
TypeOK ==
  /\ stream \in Streams
  /\ drained <= arrived /\ arrived <= Len(stream.text)
  /\ running \in BOOLEAN
  /\ off \in 0 .. Len(Buffer)
  /\ pStart \in 0 .. Len(stream.text)
  /\ drainable \in 0 .. Len(Buffer)
  /\ ~running => drainable <= off
  /\ Len(open) > 0
  /\ error \subseteq {"parse", "internal"}
  /\ pending \in Nat
  /\ failures \in 0 .. Failures

\* However the text is cut into chunks and drained between tokens, a parser
\* that did not run out of memory gives s_cb the documents that were written,
\* in order and whole (the comparison of check_json_parser.c with one parse of
\* the whole text).
DocumentsInOrder ==
  "internal" \notin error => IsPrefix(delivered, stream.documents)

\* Once the whole text was processed every document was given to s_cb, the
\* parser is in its error state exactly when the text is not a sequence of
\* documents, and json_parser_process has then raised a parse error.
NothingLeftUnparsed ==
  (~running /\ arrived = Len(stream.text) /\ "internal" \notin error) =>
     /\ delivered = stream.documents
     /\ stream.malformed <=> place = "error"
     /\ stream.entry = "stream" => (stream.malformed <=> "parse" \in error)

\* What may be drained never reaches into the token being read, or its value
\* could not be read from the buffer once it is complete.
TokenStaysInBuffer == ~TokenStart => drainable <= pStart

\* When no timer is left, the last call of e_cb told every error there was,
\* although each timer was scheduled for one error only.
LastReportComplete ==
  (stream.entry = "stream" /\ pending = 0) =>
     IF error = {} THEN reported = <<>>
     ELSE reported # <<>> /\ Last(reported) = error

\* After a parse error nothing that arrives is parsed: no document is
\* delivered and no further error is raised (test_error_2).
ParseErrorIsFinal ==
  [][("parse" \in error) => UNCHANGED <<delivered, error, open>>]_vars

\* Every error of a json_parser_new parser reaches e_cb.
ErrorsReported ==
  (stream.entry = "stream" /\ error # {}) ~> (reported # <<>>)

-----------------------------------------------------------------------------
(* The promise.                                                            *)

\* However the text is cut into chunks and drained between tokens, it is read
\* as if all of it were there at once: every token is what stands in the text,
\* and nothing but a failed allocation is an internal error.
Text == INSTANCE JsonText
          WITH at <- drained + (IF TokenStart THEN off ELSE pStart)

TextIsRead == Text!Spec
=============================================================================
