-------------------------- MODULE JsonParserProofs --------------------------
(* Theorems about JsonParser, for every text, every way to cut it into      *)
(* chunks and to drain it, and any number of failed allocations: positions  *)
(* stay in the buffer, a token is not drained while it is read unless the   *)
(* caller drains inside it, errors are final and their last report is       *)
(* complete, and the text is read as JsonText reads it: with no chunks, no  *)
(* buffer and no drains.                                                    *)
EXTENDS JsonParser, SequenceTheorems, TLAPS

USE FailuresAssumption

-----------------------------------------------------------------------------
(* Sequences of anything, for the stack of containers.                      *)

Sequence(s) == \E S : s \in Seq(S)

LEMMA AppendIsSequence ==
  ASSUME NEW s, Sequence(s), NEW x
  PROVE  Sequence(Append(s, x)) /\ Len(Append(s, x)) = Len(s) + 1 /\ Len(s) \in Nat
<1>1. PICK S : s \in Seq(S)
  BY DEF Sequence
<1>2. s \in Seq(S \cup {x}) /\ x \in S \cup {x}
  BY <1>1, SeqMonotonic
<1> QED BY <1>2, AppendProperties DEF Sequence

LEMMA FrontIsSequence ==
  ASSUME NEW s, Sequence(s), Len(s) > 0
  PROVE  Sequence(Front(s)) /\ Len(Front(s)) = Len(s) - 1
<1>1. PICK S : s \in Seq(S)
  BY DEF Sequence
<1>2. Len(s) \in Nat /\ \A i \in 1 .. Len(s) - 1 : s[i] \in S
  BY <1>1, LenProperties, ElementOfSeq
<1>3. 1 \in Int /\ Len(s) - 1 \in Int
  BY <1>2
<1> DEFINE front == SubSeq(s, 1, Len(s) - 1)
<1>4. front \in Seq(S) /\ Len(front) = IF 1 <= Len(s) - 1 THEN Len(s) - 1 - 1 + 1 ELSE 0
  BY <1>2, <1>3, SubSeqProperties
<1>5. Front(s) = front
  BY DEF Front
<1> HIDE DEF front
<1>6. \A n \in Nat : n > 0 => (IF 1 <= n - 1 THEN n - 1 - 1 + 1 ELSE 0) = n - 1
  OBVIOUS
<1>7. Len(front) = Len(s) - 1
  <2>1. Len(s) \in Nat
    BY <1>2
  <2> QED BY <1>4, <1>6, <2>1, Zenon
<1> QED BY <1>4, <1>5, <1>7 DEF Sequence

LEMMA TopReplaced ==
  ASSUME NEW s, Sequence(s), Len(s) > 0, NEW x
  PROVE  Sequence(Append(Front(s), x)) /\ Len(Append(Front(s), x)) = Len(s)
<1>1. Sequence(Front(s)) /\ Len(Front(s)) = Len(s) - 1
  BY FrontIsSequence
<1>2. Len(s) \in Nat
  BY AppendIsSequence
<1> QED BY <1>1, <1>2, AppendIsSequence

LEMMA SingletonIsSequence ==
  ASSUME NEW x
  PROVE  Sequence(<<x>>) /\ Len(<<x>>) = 1
<1>1. <<x>> \in Seq({x}) /\ Len(<<x>>) = 1
  OBVIOUS
<1> QED BY <1>1 DEF Sequence

-----------------------------------------------------------------------------
(* The buffer holds what arrived and was not drained.                       *)

Within ==
  /\ stream \in Streams
  /\ drained \in Nat /\ arrived \in Nat
  /\ drained <= arrived /\ arrived <= Len(stream.text)

LEMMA BufferLength ==
  ASSUME Within
  PROVE  Len(Buffer) = arrived - drained /\ Len(stream.text) \in Nat
<1>1. PICK S : stream.text \in Seq(S)
  BY StreamsAssumption DEF Within
<1>2. Len(stream.text) \in Nat
  BY <1>1, LenProperties
<1>3. drained + 1 \in 1 .. Len(stream.text) + 1 /\ arrived \in 0 .. Len(stream.text)
  BY <1>2 DEF Within
<1> QED BY <1>1, <1>2, <1>3, SubSeqProperties DEF Buffer, Within

(* A token whose first symbol has been read.                                *)
Tokens == {"number", "string", "name"}

(* Where the parser is, and up to where it allows a drain: past its own     *)
(* position only after A_save_int, which runs before the symbol that ended  *)
(* the number is read.                                                      *)
PositionInvariant ==
  /\ Within
  /\ running \in BOOLEAN
  /\ off \in Nat /\ off <= arrived - drained
  /\ pStart \in Nat /\ pStart <= Len(stream.text)
  /\ drainable \in Nat /\ drainable <= arrived - drained
  /\ drainable <= off \/ (running /\ drainable = off + 1 /\ place = "next")
  /\ place \in Tokens => drainable <= pStart
  /\ place \in Tokens /\ ~DrainsInToken => pStart < off

(* What a token is made of, by the place of the parser in it.               *)
OfToken(where, symbol) ==
  IF where = "number" THEN symbol \in Digits ELSE symbol \notin {"quote", "NUL", "bad"}

(* The kinds of steps of json_parser_process, by what they do to positions. *)
ReadsSymbol ==
  /\ running /\ off < Len(Buffer)
  /\ off' = off + 1 \/ (off' = off /\ drainable' = drainable /\ place # "next")
  /\ drainable' \in {drainable, off + 1}
  /\ pStart' \in {pStart, off}
  /\ running' \in BOOLEAN
  /\ place' \notin Tokens

ReadsOfToken ==
  /\ running /\ off < Len(Buffer)
  /\ off' = off + 1
  /\ drainable' = drainable
  /\ pStart' = TokenFrom
  /\ running' = running
  /\ place # "next" /\ place' \in Tokens
  /\ TokenStart \/ place' = place
  /\ OfToken(place', Symbol)

SavesNumber ==
  /\ running /\ off < Len(Buffer)
  /\ off' = off
  /\ drainable' = off + 1
  /\ pStart' = pStart
  /\ running' = running
  /\ place' = "next"

LEMMA StepKinds ==
  ASSUME Step, off \in Nat
  PROVE  /\ ReadsSymbol \/ ReadsOfToken \/ SavesNumber \/ Return
         /\ UNCHANGED <<stream, arrived, drained>>
<1>1. ASSUME NEW type, NEW symbol, Begin(type, symbol)
      PROVE  ReadsSymbol /\ UNCHANGED <<stream, arrived, drained>>
  BY <1>1 DEF Begin, Reading, ReadsSymbol, Tokens, AfterValue, Pushed, Opened, NotStored, Break
<1>2. ASSUME NEW type, NEW symbol, End(type, symbol)
      PROVE  ReadsSymbol /\ UNCHANGED <<stream, arrived, drained>>
  BY <1>2 DEF End, Closed, Deliver, Reading, ReadsSymbol, Tokens
<1>3. CASE EndSingle
  BY <1>3 DEF EndSingle, Reading, ReadsSymbol, Tokens
<1>4. CASE Space
  BY <1>4 DEF Space, Move, Reading, ReadsSymbol, Tokens
<1>5. CASE Separator
  BY <1>5 DEF Separator, Move, Reading, ReadsSymbol, Tokens, AfterComma
<1>6. CASE OpenQuote
  BY <1>6 DEF OpenQuote, Move, Reading, ReadsSymbol, Tokens
<1>7. CASE Digit
  BY <1>7 DEF Digit, AtValue, Move, Reading, ReadsOfToken, Tokens, TokenStart, OfToken
<1>8. CASE TextSymbol
  BY <1>8 DEF TextSymbol, Move, Reading, Follows, ReadsOfToken, Tokens, TokenStart, OfToken
<1>9. ASSUME NEW values, NEW resume \in {off, off + 1}, NEW broken, broken \notin Tokens,
             Save(values, resume, broken), running, off < Len(Buffer), pStart' \in {pStart, off},
             resume = off => pStart' = pStart
      PROVE  /\ ReadsSymbol \/ SavesNumber
             /\ UNCHANGED <<stream, arrived, drained>>
  <2>1. /\ drainable' = off + 1 /\ UNCHANGED <<stream, arrived, drained>>
        /\ \/ running' = running /\ place' = "next" /\ off' = resume
           \/ running' = FALSE /\ place' = broken /\ off' = off + 1
    BY <1>9 DEF Save, Stored, NotStored, Break
  <2> QED BY <1>9, <2>1 DEF ReadsSymbol, SavesNumber, Tokens
<1>10. CASE SaveInt
  <2> DEFINE broken == CASE Symbol = " " -> "next"
                         [] Symbol = "," -> AfterComma
                         [] OTHER        -> "end"
  <2>1. broken \notin Tokens
    BY DEF AfterComma, Tokens
  <2>2. /\ Save({JsonInt(digits) : digits \in NumberFrom(pStart)}, off, broken)
        /\ running /\ off < Len(Buffer) /\ pStart' = pStart
    BY <1>10 DEF SaveInt, Reading
  <2> HIDE DEF broken
  <2> QED BY <1>9, <2>1, <2>2
<1>11. CASE SaveNull
  <2>1. /\ Save({JsonNull}, off + 1, "next")
        /\ running /\ off < Len(Buffer) /\ pStart' = pStart
    BY <1>11 DEF SaveNull, Reading
  <2> QED BY <1>9, <2>1 DEF Tokens
<1>12. CASE SaveString
  <2> DEFINE values == {JsonString(t) : t \in TextFrom(TokenFrom) \ {NoName}}
  <2>1. /\ running /\ off < Len(Buffer) /\ pStart' \in {pStart, off}
    BY <1>12 DEF SaveString, Reading, TokenFrom
  <2>2. CASE Save(values, off + 1, "next")
    BY <1>9, <2>1, <2>2 DEF Tokens
  <2>3. CASE ~Save(values, off + 1, "next")
    <3>1. /\ drainable' = off + 1 /\ off' = off + 1 /\ place' = "next" /\ Break
          /\ UNCHANGED <<stream, arrived, drained>>
      BY <1>12, <2>3 DEF SaveString
    <3> QED BY <2>1, <3>1 DEF ReadsSymbol, Break, Tokens
  <2> QED BY <2>2, <2>3
<1>13. CASE SaveName
  <2>1. /\ running /\ off < Len(Buffer) /\ pStart' \in {pStart, off}
        /\ off' = off + 1 /\ place' = "colon" /\ drainable' = drainable
        /\ UNCHANGED <<stream, arrived, drained>>
        /\ running' = running \/ running' = FALSE
    BY <1>13 DEF SaveName, Reading, TokenFrom, Break
  <2> QED BY <2>1 DEF ReadsSymbol, Tokens
<1>14. CASE ParseError
  BY <1>14 DEF ParseError, NoTransition, RunsErr, ReadsSymbol, Tokens
<1>15. CASE Return
  BY <1>15 DEF Return, position
<1>16. CASE Begin("array", "[") \/ Begin("object", "{")
  BY <1>1, <1>16
<1>17. CASE End("array", "]") \/ End("object", "}")
  BY <1>2, <1>17
<1> QED BY <1>3, <1>4, <1>5, <1>6, <1>7, <1>8, <1>10, <1>11, <1>12, <1>13, <1>14, <1>15, <1>16,
           <1>17 DEF Step

LEMMA PositionsKept ==
  ASSUME PositionInvariant, [Next]_vars
  PROVE  PositionInvariant'
<1>1. Len(Buffer) = arrived - drained /\ Len(stream.text) \in Nat
  BY BufferLength DEF PositionInvariant
<1>2. CASE Step
  <2>1. /\ UNCHANGED <<stream, arrived, drained>>
        /\ Within' /\ (place # "next" => drainable <= off)
    BY <1>2, StepKinds DEF PositionInvariant, Within
  <2>2. CASE ReadsSymbol
    BY <1>1, <2>1, <2>2 DEF PositionInvariant, ReadsSymbol, Within
  <2>3. CASE ReadsOfToken
    <3>1. pStart' = off \/ (pStart' = pStart /\ place \in Tokens)
      BY <2>3 DEF ReadsOfToken, TokenFrom, TokenStart, Tokens
    <3> QED BY <1>1, <2>1, <2>3, <3>1 DEF PositionInvariant, ReadsOfToken, Within
  <2>4. CASE SavesNumber
    BY <1>1, <2>1, <2>4 DEF PositionInvariant, SavesNumber, Within, Tokens
  <2>5. CASE Return
    BY <1>1, <2>1, <2>5 DEF PositionInvariant, Return, Within, position
  <2> QED BY <1>2, <2>2, <2>3, <2>4, <2>5, StepKinds DEF PositionInvariant
<1>3. ASSUME NEW n \in 1 .. Len(stream.text), Process(n)
      PROVE  PositionInvariant'
  BY <1>1, <1>3 DEF PositionInvariant, Process, Within, position
<1>4. CASE Drain
  BY <1>1, <1>4 DEF PositionInvariant, Drain, Within, TokenStart, Tokens
<1>5. CASE ErrorCallback
  BY <1>5 DEF PositionInvariant, ErrorCallback, Within, position
<1>6. CASE UNCHANGED vars
  BY <1>6 DEF PositionInvariant, Within, vars, position
<1> QED BY <1>2, <1>3, <1>4, <1>5, <1>6 DEF Next
-----------------------------------------------------------------------------
(* The stack of containers.                                                 *)

StackInvariant == stream \in Streams /\ Sequence(open) /\ Len(open) > 0

LEMMA StackKept ==
  ASSUME StackInvariant, [Next]_vars
  PROVE  StackInvariant'
<1>1. Sequence(open) /\ Len(open) > 0 /\ Len(open) \in Nat /\ stream \in Streams
  BY AppendIsSequence DEF StackInvariant
<1>2. \A x : /\ Sequence(Append(open, x)) /\ Len(Append(open, x)) > 0
             /\ Sequence(Append(Front(open), x)) /\ Len(Append(Front(open), x)) > 0
  BY <1>1, AppendIsSequence, TopReplaced
<1>3. \A x, y : LET s == Append(Append(Front(open), x), y)
                IN  Sequence(s) /\ Len(s) > 0
  <2> SUFFICES ASSUME NEW x, NEW y
               PROVE  LET s == Append(Append(Front(open), x), y)
                      IN  Sequence(s) /\ Len(s) > 0
    OBVIOUS
  <2>1. Sequence(Append(Front(open), x)) /\ Len(Append(Front(open), x)) = Len(open)
    BY <1>1, TopReplaced
  <2> QED BY <1>1, <2>1, AppendIsSequence
<1>4. ASSUME UNCHANGED <<stream, open>>
      PROVE  StackInvariant'
  BY <1>1, <1>4 DEF StackInvariant
<1>5. ASSUME NEW x, UNCHANGED stream, open' = Append(Front(open), x)
      PROVE  StackInvariant'
  BY <1>1, <1>2, <1>5 DEF StackInvariant
<1>6. ASSUME NEW value, UNCHANGED stream, Stored(value) \/ NotStored
      PROVE  StackInvariant'
  <2>1. open' = open \/ \E x : open' = Append(Front(open), x)
    BY <1>6 DEF Stored, NotStored, Put
  <2> QED BY <1>4, <1>5, <1>6, <2>1
<1>7. ASSUME NEW type, NEW symbol, Begin(type, symbol)
      PROVE  StackInvariant'
  <2>1. UNCHANGED stream
    BY <1>7 DEF Begin
  <2>2. CASE Pushed(type)
    <3>1. PICK x, y : open' = Append(Append(Front(open), x), y)
      BY <2>2 DEF Pushed, Opened, Put
    <3> QED BY <1>1, <1>3, <2>1, <3>1 DEF StackInvariant
  <2>3. CASE NotStored
    BY <1>6, <2>1, <2>3
  <2>4. CASE open' = Put(open, Empty(type))
    BY <1>5, <2>1, <2>4 DEF Put
  <2> QED BY <1>7, <2>2, <2>3, <2>4 DEF Begin
<1>8. ASSUME NEW type \in {"array", "object"}, NEW symbol, End(type, symbol)
      PROVE  StackInvariant'
  <2>1. UNCHANGED stream /\ Machine = type
    BY <1>8 DEF End
  <2>2. Len(open) # 1
    BY <1>1, <2>1, StreamsAssumption DEF Machine
  <2>3. Sequence(Front(open)) /\ Len(Front(open)) > 0
    BY <1>1, <2>2, FrontIsSequence
  <2>4. \/ \E x : open' = <<x>>
        \/ \E x : open' = Append(Front(Front(open)), x)
    BY <1>8 DEF End, Closed, Deliver
  <2>5. CASE \E x : open' = <<x>>
    BY <1>1, <2>1, <2>5, SingletonIsSequence DEF StackInvariant
  <2>6. CASE \E x : open' = Append(Front(Front(open)), x)
    <3>1. PICK x : open' = Append(Front(Front(open)), x)
      BY <2>6
    <3>2. Sequence(open') /\ Len(open') = Len(Front(open))
      BY <2>3, <3>1, TopReplaced
    <3> QED BY <1>1, <2>1, <2>3, <3>2 DEF StackInvariant
  <2> QED BY <2>4, <2>5, <2>6
<1>9. CASE EndSingle
  <2>1. UNCHANGED stream /\ \E x : open' = <<x>>
    BY <1>9 DEF EndSingle, Deliver
  <2> QED BY <1>1, <2>1, SingletonIsSequence DEF StackInvariant
<1>10. CASE Space \/ Separator \/ OpenQuote \/ Digit \/ TextSymbol
  BY <1>4, <1>10 DEF Space, Separator, OpenQuote, Digit, TextSymbol, Move
<1>11. ASSUME NEW values, NEW resume, NEW broken, Save(values, resume, broken)
       PROVE  StackInvariant'
  BY <1>6, <1>11 DEF Save
<1>12. CASE SaveInt \/ SaveNull
  BY <1>11, <1>12 DEF SaveInt, SaveNull
<1>13. CASE SaveString
  <2> DEFINE values == {JsonString(t) : t \in TextFrom(TokenFrom) \ {NoName}}
  <2>1. Save(values, off + 1, "next") \/ UNCHANGED <<stream, open>>
    BY <1>13 DEF SaveString
  <2> HIDE DEF values
  <2> QED BY <1>4, <1>11, <2>1
<1>14. CASE SaveName \/ ParseError \/ Return
  BY <1>4, <1>14 DEF SaveName, ParseError, NoTransition, Return
<1>15. CASE \E n \in 1 .. Len(stream.text) : Process(n)
  BY <1>4, <1>15 DEF Process
<1>16. CASE Drain \/ ErrorCallback \/ UNCHANGED vars
  BY <1>4, <1>16 DEF Drain, ErrorCallback, vars
<1>17. CASE Begin("array", "[") \/ Begin("object", "{")
  BY <1>7, <1>17
<1>18. CASE End("array", "]") \/ End("object", "}")
  BY <1>8, <1>18
<1> QED BY <1>9, <1>10, <1>12, <1>13, <1>14, <1>15, <1>16, <1>17, <1>18 DEF Next, Step

-----------------------------------------------------------------------------
(* Errors and failed allocations.                                           *)

ErrorKinds == {"parse", "internal"}

(* Every error has a timer or was reported since, with all there were; a    *)
(* parser that has no callback has no timer either.                         *)
ErrorInvariant ==
  /\ error \subseteq ErrorKinds
  /\ pending \in Nat
  /\ reported \in Seq(SUBSET ErrorKinds)
  /\ failures \in 0 .. Failures
  /\ error = {} => pending = 0 /\ reported = <<>>
  /\ (stream.entry = "stream" /\ error # {} /\ pending = 0) =>
        reported # <<>> /\ Last(reported) = error
  /\ "parse" \in error => place = "error"

(* What a step of json_parser_process does to them.                         *)
Quiet == UNCHANGED <<stream, error, pending, reported>>

Raises(what) ==
  /\ HandleError(what)
  /\ UNCHANGED <<stream, reported>>
  /\ place # "error"
  /\ what = "parse" => place' = "error"

(* The error state has no transitions (json.rl).                            *)
LEMMA ErrorStateReadsNothing ==
  ASSUME NEW symbols, Reading(symbols)
  PROVE  place # "error"
BY DEF Reading, Follows

LEMMA StepErrors ==
  ASSUME Step, failures \in 0 .. Failures
  PROVE  /\ Quiet \/ Raises("parse") \/ Raises("internal")
         /\ failures' \in 0 .. Failures
         /\ place = "error" => Return
<1>1. \A n \in 0 .. Failures : n > 0 => n - 1 \in 0 .. Failures
  OBVIOUS
<1>2. ASSUME Spend
      PROVE  failures' \in 0 .. Failures
  BY <1>1, <1>2 DEF Spend
<1>3. ASSUME NEW type, NEW symbol, Begin(type, symbol)
      PROVE  (Quiet \/ Raises("internal")) /\ failures' \in 0 .. Failures /\ place # "error"
  <2>1. place # "error" /\ UNCHANGED <<stream, reported>>
    BY <1>3, ErrorStateReadsNothing DEF Begin
  <2>2. CASE Pushed(type)
    BY <2>1, <2>2 DEF Pushed, Quiet
  <2>3. CASE NotStored
    BY <1>2, <2>1, <2>3 DEF NotStored, Break, Raises
  <2>4. CASE Spend /\ Break
    BY <1>2, <2>1, <2>4 DEF Break, Raises
  <2> QED BY <1>3, <2>2, <2>3, <2>4 DEF Begin
<1>4. ASSUME NEW type, NEW symbol, End(type, symbol)
      PROVE  Quiet /\ failures' = failures /\ place # "error"
  BY <1>4 DEF End, Quiet
<1>5. CASE EndSingle
  BY <1>5 DEF EndSingle, Quiet
<1>6. CASE Space \/ Separator \/ OpenQuote \/ Digit \/ TextSymbol
  <2>1. place # "error"
    BY <1>6, ErrorStateReadsNothing DEF Space, Separator, OpenQuote, Digit, TextSymbol
  <2>2. Quiet /\ failures' = failures
    BY <1>6 DEF Space, Separator, OpenQuote, Digit, TextSymbol, Move, Quiet
  <2> QED BY <2>1, <2>2
<1>7. ASSUME NEW values, NEW resume, NEW broken, Save(values, resume, broken), place # "error"
      PROVE  (Quiet \/ Raises("internal")) /\ failures' \in 0 .. Failures
  <2>1. UNCHANGED <<stream, reported>>
    BY <1>7 DEF Save
  <2>2. CASE NotStored
    BY <1>2, <1>7, <2>1, <2>2 DEF NotStored, Break, Raises
  <2>3. CASE UNCHANGED <<running, error, pending, failures>>
    BY <2>1, <2>3 DEF Quiet
  <2> QED BY <1>7, <2>2, <2>3 DEF Save, Stored
<1>8. CASE SaveInt
  <2>1. place # "error"
    BY <1>8 DEF SaveInt
  <2> QED BY <1>7, <1>8, <2>1 DEF SaveInt
<1>9. CASE SaveNull
  <2>1. place # "error"
    BY <1>9, ErrorStateReadsNothing DEF SaveNull
  <2> QED BY <1>7, <1>9, <2>1 DEF SaveNull
<1>10. CASE SaveString
  <2> DEFINE values == {JsonString(t) : t \in TextFrom(TokenFrom) \ {NoName}}
  <2>1. place # "error"
    BY <1>10 DEF SaveString
  <2>2. CASE Save(values, off + 1, "next")
    BY <1>7, <2>1, <2>2
  <2>3. CASE ~Save(values, off + 1, "next")
    <3>1. /\ NoName \in TextFrom(TokenFrom) \/ failures > 0
          /\ failures' = IF NoName \in TextFrom(TokenFrom) THEN failures ELSE failures - 1
          /\ Break /\ UNCHANGED <<stream, reported>>
      BY <1>10, <2>3 DEF SaveString
    <3> QED BY <1>1, <2>1, <3>1 DEF Break, Raises
  <2> QED BY <2>2, <2>3
<1>11. CASE SaveName
  <2>1. place # "error" /\ UNCHANGED <<stream, reported>>
    BY <1>11 DEF SaveName
  <2>2. CASE pName' # NoName
    BY <1>11, <2>1, <2>2 DEF SaveName, Quiet
  <2>3. CASE pName' = NoName
    <3>1. /\ NoName \in TextFrom(TokenFrom) \/ failures > 0
          /\ failures' = IF NoName \in TextFrom(TokenFrom) THEN failures ELSE failures - 1
          /\ Break
      BY <1>11, <2>3 DEF SaveName
    <3> QED BY <1>1, <2>1, <3>1 DEF Break, Raises
  <2> QED BY <2>2, <2>3
<1>12. CASE ParseError
  BY <1>12 DEF ParseError, NoTransition, Quiet, Raises
<1>13. CASE Return
  BY <1>13 DEF Return, Quiet
<1>14. CASE Begin("array", "[") \/ Begin("object", "{")
  BY <1>3, <1>14
<1>15. CASE End("array", "]") \/ End("object", "}")
  BY <1>4, <1>15
<1> QED BY <1>5, <1>6, <1>8, <1>9, <1>10, <1>11, <1>12, <1>13, <1>14, <1>15 DEF Step

LEMMA ErrorsKept ==
  ASSUME ErrorInvariant, [Next]_vars
  PROVE  ErrorInvariant'
<1>1. CASE Step
  <2>1. failures' \in 0 .. Failures /\ (place = "error" => Return)
    BY <1>1, StepErrors DEF ErrorInvariant
  <2>2. CASE Quiet
    <3>1. "parse" \in error => place' = "error"
      BY <2>1 DEF ErrorInvariant, Return
    <3> QED BY <2>1, <2>2, <3>1 DEF ErrorInvariant, Quiet
  <2>3. ASSUME NEW what \in ErrorKinds, Raises(what)
        PROVE  ErrorInvariant'
    <3>1. /\ error' = error \cup {what} /\ stream' = stream /\ reported' = reported
          /\ pending' = IF stream.entry = "stream" THEN pending + 1 ELSE pending
          /\ "parse" \notin error
          /\ what = "parse" => place' = "error"
      BY <2>3 DEF Raises, HandleError, ErrorInvariant
    <3> QED BY <2>1, <3>1 DEF ErrorInvariant
  <2> QED BY <1>1, <2>2, <2>3, StepErrors DEF ErrorInvariant, ErrorKinds
<1>2. CASE ErrorCallback
  <2>1. /\ pending > 0 /\ pending' = pending - 1 /\ reported' = Append(reported, error)
        /\ UNCHANGED <<stream, error, failures, place>>
    BY <1>2 DEF ErrorCallback
  <2>2. error \in SUBSET ErrorKinds /\ reported \in Seq(SUBSET ErrorKinds) /\ Len(reported) \in Nat
    BY LenProperties DEF ErrorInvariant
  <2>3. /\ reported' \in Seq(SUBSET ErrorKinds) /\ reported' # <<>>
        /\ Len(reported') = Len(reported) + 1 /\ reported'[Len(reported) + 1] = error
    BY <2>1, <2>2, AppendProperties
  <2>4. Last(reported') = error
    BY <2>3 DEF Last
  <2> QED BY <2>1, <2>3, <2>4 DEF ErrorInvariant
<1>3. CASE UNCHANGED <<stream, error, pending, reported, failures, place>>
  BY <1>3 DEF ErrorInvariant
<1>4. CASE (\E n \in 1 .. Len(stream.text) : Process(n)) \/ Drain \/ UNCHANGED vars
  BY <1>3, <1>4 DEF Process, Drain, vars
<1> QED BY <1>1, <1>2, <1>4 DEF Next
-----------------------------------------------------------------------------
ParserInvariant == PositionInvariant /\ StackInvariant /\ ErrorInvariant

LEMMA ParserInit == Init => ParserInvariant
<1> SUFFICES ASSUME Init PROVE ParserInvariant
  OBVIOUS
<1>1. /\ stream \in Streams /\ arrived = 0 /\ drained = 0 /\ running = FALSE /\ off = 0
      /\ pStart = 0 /\ drainable = 0 /\ place = "value" /\ open = <<Empty("array")>>
      /\ error = {} /\ pending = 0 /\ reported = <<>> /\ failures = Failures
  BY DEF Init
<1>2. Within /\ Len(stream.text) \in Nat
  <2>1. PICK S : stream.text \in Seq(S)
    BY <1>1, StreamsAssumption
  <2>2. Len(stream.text) \in Nat
    BY <2>1, LenProperties
  <2> QED BY <1>1, <2>2 DEF Within
<1>3. PositionInvariant
  <2>1. place \notin Tokens /\ running \in BOOLEAN
    BY <1>1 DEF Tokens
  <2>2. /\ off \in Nat /\ off <= arrived - drained /\ drainable <= off
        /\ pStart \in Nat /\ pStart <= Len(stream.text)
        /\ drainable \in Nat /\ drainable <= arrived - drained
    BY <1>1, <1>2
  <2> QED BY <1>2, <2>1, <2>2 DEF PositionInvariant
<1>4. StackInvariant
  BY <1>1, SingletonIsSequence DEF StackInvariant
<1>5. ErrorInvariant
  BY <1>1 DEF ErrorInvariant, ErrorKinds
<1> QED BY <1>3, <1>4, <1>5 DEF ParserInvariant

THEOREM ParserInvariantHolds == Spec => []ParserInvariant
<1>1. ParserInvariant /\ [Next]_vars => ParserInvariant'
  BY PositionsKept, StackKept, ErrorsKept DEF ParserInvariant
<1> QED BY <1>1, ParserInit, PTL DEF Spec

(* However the text is cut and drained and whatever allocation fails, off,  *)
(* p_start and ready_for_drain stay in the buffer, between two calls        *)
(* nothing is drained that was not read, and the stack of containers is     *)
(* never popped empty (json_parser.rl:180-214, 295-316, 346-365).            *)
THEOREM ParserTypes == Spec => []TypeOK
<1>1. ParserInvariant => TypeOK
  <2> SUFFICES ASSUME ParserInvariant PROVE TypeOK
    OBVIOUS
  <2>1. Len(Buffer) = arrived - drained /\ Len(stream.text) \in Nat
    BY BufferLength DEF ParserInvariant, PositionInvariant
  <2> QED BY <2>1 DEF ParserInvariant, PositionInvariant, Within, StackInvariant, ErrorInvariant,
                       ErrorKinds, TypeOK
<1> QED BY <1>1, ParserInvariantHolds, PTL

(* What may be drained never reaches into the token being read              *)
(* (json_parser.rl:148-151, 217-228, 346-365).                              *)
THEOREM TokensKept == Spec => []TokenStaysInBuffer
<1>1. ParserInvariant => TokenStaysInBuffer
  BY DEF ParserInvariant, PositionInvariant, Tokens, TokenStart, TokenStaysInBuffer
<1> QED BY <1>1, ParserInvariantHolds, PTL

(* A caller that does not drain inside a token has all of it in the buffer  *)
(* when it is complete: p_start is before the symbol read next              *)
(* (json_parser.rl:148-151, 217-228, 354-365).                              *)
THEOREM TokensWhole ==
  ASSUME ~DrainsInToken
  PROVE  Spec => [](~TokenStart => pStart < off /\ off <= Len(Buffer))
<1>1. ParserInvariant => (~TokenStart => pStart < off /\ off <= Len(Buffer))
  BY BufferLength DEF ParserInvariant, PositionInvariant, Tokens, TokenStart
<1> QED BY <1>1, ParserInvariantHolds, PTL

(* When no timer is left the last call of e_cb told of every error there    *)
(* was, and without an error it was not called (json_parser.rl:328-344).    *)
THEOREM ReportsComplete == Spec => []LastReportComplete
<1>1. ParserInvariant => LastReportComplete
  BY DEF ParserInvariant, ErrorInvariant, LastReportComplete
<1> QED BY <1>1, ParserInvariantHolds, PTL

(* After a parse error nothing that arrives is parsed: no document is       *)
(* delivered, no container changed and no further error raised              *)
(* (json_parser.rl:142-146, 295-316).                                       *)
THEOREM ParseErrorsFinal == Spec => ParseErrorIsFinal
<1>1. ParserInvariant /\ [Next]_vars =>
          ("parse" \in error => UNCHANGED <<delivered, error, open>>)
  <2> SUFFICES ASSUME ParserInvariant, [Next]_vars, "parse" \in error
               PROVE  UNCHANGED <<delivered, error, open>>
    OBVIOUS
  <2>1. place = "error" /\ failures \in 0 .. Failures
    BY DEF ParserInvariant, ErrorInvariant
  <2>2. CASE Step
    BY <2>1, <2>2, StepErrors DEF Return
  <2>3. CASE ~Step
    BY <2>3 DEF Next, Process, Drain, ErrorCallback, vars
  <2> QED BY <2>2, <2>3
<1> QED BY <1>1, ParserInvariantHolds, PTL DEF Spec, ParseErrorIsFinal
-----------------------------------------------------------------------------
(* The text that was read, whatever of it is still in the buffer.           *)

Symbols == {stream.text[i] : i \in DOMAIN stream.text}

LEMMA TextIsSequence ==
  ASSUME Within
  PROVE  /\ stream.text \in Seq(Symbols) /\ Len(stream.text) \in Nat
         /\ DOMAIN stream.text = 1 .. Len(stream.text)
         /\ NoName[1] \notin Symbols
BY StreamsAssumption, LenProperties DEF Within, Symbols

LEMMA BufferIsText ==
  ASSUME Within
  PROVE  \A i \in 1 .. arrived - drained : Buffer[i] = stream.text[drained + i]
<1>1. drained + 1 \in Int /\ arrived \in Int
  BY DEF Within
<1>2. \A i \in drained + 1 .. arrived : stream.text[i] \in Symbols
  BY TextIsSequence DEF Within, Symbols
<1>3. \A i \in 1 .. arrived - (drained + 1) + 1 : Buffer[i] = stream.text[drained + 1 + i - 1]
  BY <1>1, <1>2, SubSeqProperties DEF Buffer
<1>4. ASSUME NEW i \in 1 .. arrived - drained PROVE Buffer[i] = stream.text[drained + i]
  <2>1. i \in 1 .. arrived - (drained + 1) + 1 /\ drained + 1 + i - 1 = drained + i
    BY DEF Within
  <2>2. Buffer[i] = stream.text[drained + 1 + i - 1]
    BY <1>3, <2>1
  <2> QED BY <2>1, <2>2
<1> QED BY <1>4

(* The symbol read next.                                                    *)
LEMMA SymbolIsText ==
  ASSUME PositionInvariant, off < Len(Buffer)
  PROVE  /\ Symbol = stream.text[drained + off + 1]
         /\ drained + off < Len(stream.text)
         /\ drained + off + 1 \in DOMAIN stream.text
         /\ Symbol \in Symbols
<1>1. Within /\ off \in Nat /\ off < arrived - drained
  BY BufferLength DEF PositionInvariant
<1>2. off + 1 \in 1 .. arrived - drained /\ drained + (off + 1) = drained + off + 1
  BY <1>1 DEF Within
<1>3. Buffer[off + 1] = stream.text[drained + (off + 1)]
  BY <1>1, <1>2, BufferIsText
<1>4. drained + off < Len(stream.text) /\ drained + off + 1 \in DOMAIN stream.text
  BY <1>1, TextIsSequence DEF Within
<1> QED BY <1>2, <1>3, <1>4 DEF Symbol, Symbols

(* What a token is read from is what stands in the text.                    *)
LEMMA TokenIsText ==
  ASSUME PositionInvariant, NEW start \in Nat, start <= off
  PROVE  SubSeq(Buffer, start + 1, off) = SubSeq(stream.text, drained + start + 1, drained + off)
<1> DEFINE s == SubSeq(Buffer, start + 1, off)
           t == SubSeq(stream.text, drained + start + 1, drained + off)
<1>1. Within /\ off \in Nat /\ off <= arrived - drained
  BY DEF PositionInvariant
<1>2. \A i \in start + 1 .. off : Buffer[i] = stream.text[drained + i] /\ Buffer[i] \in Symbols
  <2> SUFFICES ASSUME NEW i \in start + 1 .. off
               PROVE  Buffer[i] = stream.text[drained + i] /\ Buffer[i] \in Symbols
    OBVIOUS
  <2>1. i \in 1 .. arrived - drained /\ drained + i \in DOMAIN stream.text
    BY <1>1, TextIsSequence DEF Within
  <2> QED BY <1>1, <2>1, BufferIsText DEF Symbols
<1>3. \A i \in drained + start + 1 .. drained + off : stream.text[i] \in Symbols
  BY <1>1, TextIsSequence DEF Within, Symbols
<1>4. start + 1 \in Int /\ off \in Int /\ drained + start + 1 \in Int /\ drained + off \in Int
  BY <1>1 DEF Within
<1>5. /\ s \in Seq(Symbols) /\ Len(s) = IF start + 1 <= off THEN off - (start + 1) + 1 ELSE 0
      /\ \A i \in 1 .. off - (start + 1) + 1 : s[i] = Buffer[start + 1 + i - 1]
  BY <1>2, <1>4, SubSeqProperties
<1>6. /\ t \in Seq(Symbols)
      /\ Len(t) = IF drained + start + 1 <= drained + off
                  THEN (drained + off) - (drained + start + 1) + 1 ELSE 0
      /\ \A i \in 1 .. (drained + off) - (drained + start + 1) + 1 :
            t[i] = stream.text[drained + start + 1 + i - 1]
  BY <1>3, <1>4, SubSeqProperties
<1> HIDE DEF s, t
<1>7. Len(s) = off - start /\ Len(t) = off - start
  <2>1. start \in Nat /\ off \in Nat /\ drained \in Nat /\ start <= off
    BY <1>1 DEF Within
  <2> QED BY <1>5, <1>6, <2>1
<1>8. ASSUME NEW i \in 1 .. Len(s) PROVE s[i] = t[i]
  <2>1. drained \in Nat /\ i \in 1 .. off - start
    BY <1>1, <1>7 DEF Within
  <2>2. /\ i \in 1 .. off - (start + 1) + 1
        /\ i \in 1 .. (drained + off) - (drained + start + 1) + 1
        /\ start + i \in start + 1 .. off
        /\ start + 1 + i - 1 = start + i
        /\ drained + start + 1 + i - 1 = drained + (start + i)
    BY <1>1, <2>1
  <2>3. s[i] = Buffer[start + i] /\ t[i] = stream.text[drained + (start + i)]
    BY <1>5, <1>6, <2>2
  <2> QED BY <1>2, <2>2, <2>3
<1>9. s = t
  BY <1>5, <1>6, <1>7, <1>8, SeqEqual
<1> QED BY <1>9 DEF s, t

(* Only symbols of its kind were read of a token.                           *)
TokenRead ==
  place \in Tokens =>
    \A i \in drained + pStart + 1 .. drained + off : OfToken(place, stream.text[i])

LEMMA TokenReadKept ==
  ASSUME PositionInvariant, TokenRead, ~DrainsInToken, [Next]_vars
  PROVE  TokenRead'
<1>1. CASE Step
  <2>1. UNCHANGED <<stream, arrived, drained>> /\ off \in Nat
    BY <1>1, StepKinds DEF PositionInvariant
  <2>2. CASE ReadsSymbol \/ SavesNumber
    BY <2>2 DEF ReadsSymbol, SavesNumber, TokenRead, Tokens
  <2>3. CASE ReadsOfToken
    <3>1. /\ off < Len(Buffer) /\ off' = off + 1 /\ OfToken(place', Symbol)
          /\ pStart' = TokenFrom /\ (TokenStart \/ place' = place)
      BY <2>3 DEF ReadsOfToken
    <3>2. drained \in Nat /\ Symbol = stream.text[drained + off + 1]
      BY <3>1, SymbolIsText DEF PositionInvariant, Within
    <3>3. SUFFICES ASSUME place' \in Tokens, NEW i \in drained + pStart' + 1 .. drained + (off + 1)
                   PROVE  OfToken(place', stream.text[i])
      BY <2>1, <3>1 DEF TokenRead
    <3>4. CASE i = drained + off + 1
      BY <3>1, <3>2, <3>4
    <3>5. CASE i # drained + off + 1
      <4>1. pStart' \in Nat
        BY <2>1, <3>1 DEF TokenFrom, PositionInvariant
      <4>2. i \in drained + pStart' + 1 .. drained + off
        BY <2>1, <3>2, <3>3, <3>5, <4>1
      <4>3. ~TokenStart
        <5> SUFFICES ASSUME TokenStart PROVE FALSE
          OBVIOUS
        <5>1. pStart' = off
          BY <3>1 DEF TokenFrom
        <5> QED BY <2>1, <3>2, <4>2, <5>1
      <4>4. pStart' = pStart /\ place' = place /\ place \in Tokens
        BY <3>1, <4>3 DEF TokenFrom, TokenStart, Tokens
      <4> QED BY <4>2, <4>4 DEF TokenRead
    <3> QED BY <3>4, <3>5
  <2>4. CASE Return
    BY <2>4 DEF Return, position, TokenRead
  <2> QED BY <1>1, <2>1, <2>2, <2>3, <2>4, StepKinds
<1>2. CASE Drain
  BY <1>2 DEF Drain, TokenStart, TokenRead, Tokens
<1>3. CASE (\E n \in 1 .. Len(stream.text) : Process(n)) \/ ErrorCallback \/ UNCHANGED vars
  BY <1>3 DEF Process, ErrorCallback, vars, position, TokenRead
<1> QED BY <1>1, <1>2, <1>3 DEF Next

-----------------------------------------------------------------------------
(* The containers that are open: arrays and objects, the root is an array.  *)

IsContainer(c) ==
  c = [type |-> c.type, entries |-> c.entries] /\ c.type \in {"array", "object"}

Containers(s) ==
  /\ Sequence(s) /\ Len(s) > 0
  /\ \A i \in 1 .. Len(s) : IsContainer(s[i])
  /\ s[1].type = "array"

LEMMA ContainerFilled ==
  ASSUME NEW c, IsContainer(c), NEW name, NEW value
  PROVE  /\ IsContainer(With(c, name, value)) /\ With(c, name, value).type = c.type
         /\ IsContainer(Without(c, name)) /\ Without(c, name).type = c.type
         /\ IsContainer(LastReplaced(c, value)) /\ LastReplaced(c, value).type = c.type
<1>1. ASSUME NEW entries
      PROVE  /\ IsContainer([c EXCEPT !.entries = entries])
             /\ [c EXCEPT !.entries = entries].type = c.type
  BY DEF IsContainer
<1>2. IsContainer(Without(c, name)) /\ Without(c, name).type = c.type
  BY <1>1 DEF Without
<1>3. ASSUME NEW d, IsContainer(d), NEW entries
      PROVE  /\ IsContainer([d EXCEPT !.entries = entries])
             /\ [d EXCEPT !.entries = entries].type = d.type
  BY <1>3 DEF IsContainer
<1>4. IsContainer(With(c, name, value)) /\ With(c, name, value).type = c.type
  BY <1>2, <1>3 DEF With
<1>5. IsContainer(LastReplaced(c, value)) /\ LastReplaced(c, value).type = c.type
  BY <1>1 DEF LastReplaced
<1> QED BY <1>2, <1>4, <1>5

LEMMA EmptyIsContainer ==
  ASSUME NEW type \in {"array", "object"}
  PROVE  IsContainer(Empty(type)) /\ Empty(type).type = type
BY DEF IsContainer, Empty

LEMMA ContainerPushed ==
  ASSUME NEW s, Containers(s), NEW c, IsContainer(c)
  PROVE  /\ Containers(Append(s, c)) /\ Last(Append(s, c)) = c
         /\ Len(Append(s, c)) = Len(s) + 1 /\ Len(s) \in Nat
<1>1. PICK S : s \in Seq(S)
  BY DEF Containers, Sequence
<1>2. s \in Seq(S \cup {c}) /\ c \in S \cup {c} /\ Len(s) \in Nat /\ Len(s) > 0
  BY <1>1, SeqMonotonic, LenProperties DEF Containers
<1> DEFINE t == Append(s, c)
<1>3. /\ Len(t) = Len(s) + 1 /\ t[Len(s) + 1] = c /\ Sequence(t)
      /\ \A i \in 1 .. Len(s) : t[i] = s[i]
  BY <1>2, AppendProperties, AppendIsSequence DEF Containers
<1> HIDE DEF t
<1>4. t[1] = s[1] /\ \A i \in 1 .. Len(t) : IsContainer(t[i])
  BY <1>2, <1>3 DEF Containers
<1>5. Containers(t) /\ Last(t) = c
  BY <1>2, <1>3, <1>4 DEF Containers, Last
<1> QED BY <1>2, <1>3, <1>5 DEF t

LEMMA ContainerPopped ==
  ASSUME NEW s, Containers(s), Len(s) # 1
  PROVE  Containers(Front(s)) /\ Len(Front(s)) = Len(s) - 1 /\ Len(s) \in Nat
<1>1. PICK S : s \in Seq(S)
  BY DEF Containers, Sequence
<1>2. Len(s) \in Nat /\ Len(s) > 1 /\ \A i \in 1 .. Len(s) - 1 : s[i] \in S
  <2>1. Len(s) \in Nat
    BY <1>1, LenProperties
  <2>2. Len(s) > 1
    BY <2>1 DEF Containers
  <2>3. \A i \in 1 .. Len(s) - 1 : i \in 1 .. Len(s)
    BY <2>1
  <2> QED BY <1>1, <2>1, <2>2, <2>3, ElementOfSeq
<1>3. \A i \in 1 .. Len(s) - 1 - 1 + 1 : SubSeq(s, 1, Len(s) - 1)[i] = s[1 + i - 1]
  BY <1>2, SubSeqProperties
<1>4. \A i \in 1 .. Len(s) - 1 : Front(s)[i] = s[i]
  BY <1>2, <1>3 DEF Front
<1>5. Sequence(Front(s)) /\ Len(Front(s)) = Len(s) - 1
  BY FrontIsSequence DEF Containers
<1> QED BY <1>2, <1>4, <1>5 DEF Containers

LEMMA ContainerIsLast ==
  ASSUME NEW s, Containers(s)
  PROVE  IsContainer(Last(s)) /\ (Len(s) = 1 => Last(s).type = "array")
<1>1. Len(s) \in Nat /\ Len(s) > 0
  BY AppendIsSequence DEF Containers
<1> QED BY <1>1 DEF Containers, Last

LEMMA ContainerReplaced ==
  ASSUME NEW s, Containers(s), NEW c, IsContainer(c), c.type = Last(s).type
  PROVE  /\ Containers(Append(Front(s), c)) /\ Last(Append(Front(s), c)) = c
         /\ Len(Append(Front(s), c)) = Len(s)
<1>1. CASE Len(s) # 1
  BY <1>1, ContainerPopped, ContainerPushed
<1>2. CASE Len(s) = 1
  <2>1. Front(s) = << >>
    BY <1>2, SubSeqEmpty DEF Front
  <2>2. Append(Front(s), c) = <<c>>
    BY <2>1
  <2>3. c.type = "array"
    BY <1>2, ContainerIsLast
  <2>4. Sequence(<<c>>) /\ Len(<<c>>) = 1 /\ <<c>>[1] = c
    BY SingletonIsSequence
  <2> QED BY <1>2, <2>2, <2>3, <2>4 DEF Containers, Last
<1> QED BY <1>1, <1>2

(* Every way to fill, open and close a container keeps the stack one of     *)
(* arrays and objects.                                                      *)
LEMMA PutKeeps ==
  ASSUME Containers(open), NEW value
  PROVE  /\ Containers(Put(open, value)) /\ Len(Put(open, value)) = Len(open)
         /\ Last(Put(open, value)).type = Last(open).type
         /\ Containers(Append(Front(open), Without(Last(open), pName)))
BY ContainerIsLast, ContainerFilled, ContainerReplaced DEF Put

LEMMA OpenedKeeps ==
  ASSUME Containers(open), NEW type \in {"array", "object"}, Opened(type)
  PROVE  Containers(open') /\ Last(open').type = type
<1>1. Containers(Put(open, Empty(type)))
  BY PutKeeps
<1>2. IsContainer(Empty(type)) /\ Empty(type).type = type
  BY EmptyIsContainer
<1> QED BY <1>1, <1>2, ContainerPushed DEF Opened

LEMMA DeliverKeeps ==
  ASSUME NEW root, IsContainer(root), root.type = "array", Deliver(root)
  PROVE  Containers(open') /\ Last(open').type = "array" /\ Len(open') = 1
<1> DEFINE c == [root EXCEPT !.entries = Tail(@)]
<1>1. IsContainer(c) /\ c.type = "array"
  <2>1. ASSUME NEW e
        PROVE  /\ IsContainer([root EXCEPT !.entries = e])
               /\ [root EXCEPT !.entries = e].type = "array"
    BY DEF IsContainer
  <2> QED BY <2>1
<1>2. open' = <<c>>
  BY DEF Deliver
<1> HIDE DEF c
<1>3. Sequence(<<c>>) /\ Len(<<c>>) = 1 /\ <<c>>[1] = c
  BY SingletonIsSequence
<1> QED BY <1>1, <1>2, <1>3 DEF Containers, Last

LEMMA ClosedKeeps ==
  ASSUME Containers(open), stream \in Streams, Machine \in {"array", "object"}, Closed
  PROVE  /\ Containers(open')
         /\ place' = "next" \/ (place' = "value" /\ Last(open').type = "array")
<1>1. Len(open) # 1
  BY StreamsAssumption DEF Machine
<1> DEFINE outer == Front(open)
           filled == LastReplaced(Last(outer), Last(open))
<1>2. Containers(outer) /\ Len(outer) = Len(open) - 1 /\ Len(open) \in Nat
  BY <1>1, ContainerPopped
<1>3. IsContainer(Last(outer)) /\ (Len(outer) = 1 => Last(outer).type = "array")
  BY <1>2, ContainerIsLast
<1>4. IsContainer(filled) /\ filled.type = Last(outer).type
  BY <1>3, ContainerFilled
<1>5. CASE Len(open) = 2 /\ stream.entry = "stream"
  <2>1. Deliver(filled) /\ place' = "value"
    BY <1>5 DEF Closed
  <2>2. filled.type = "array"
    BY <1>2, <1>3, <1>4, <1>5
  <2> HIDE DEF filled, outer
  <2> QED BY <1>4, <2>1, <2>2, DeliverKeeps
<1>6. CASE ~(Len(open) = 2 /\ stream.entry = "stream")
  <2>1. open' = Append(Front(outer), filled) /\ place' = "next"
    BY <1>6 DEF Closed
  <2> HIDE DEF filled, outer
  <2> QED BY <1>2, <1>4, <2>1, ContainerReplaced
<1> QED BY <1>5, <1>6

(* Only json_parser_parse's text ends with a NUL.                           *)
LEMMA SingleIsRoot ==
  ASSUME Containers(open), stream \in Streams, "NUL" \in Delimiters
  PROVE  Len(open) = 1
BY ContainerIsLast, StreamsAssumption DEF Machine, Delimiters, IsContainer

LEMMA ContainersKept ==
  ASSUME Containers(open), stream \in Streams, [Next]_vars
  PROVE  Containers(open')
<1>1. CASE UNCHANGED open
  BY <1>1
<1>2. ASSUME NEW value, Stored(value) PROVE Containers(open')
  BY <1>2, PutKeeps DEF Stored
<1>3. CASE NotStored
  BY <1>3, PutKeeps DEF NotStored
<1>4. ASSUME NEW type \in {"array", "object"}, NEW symbol, Begin(type, symbol)
      PROVE  Containers(open')
  <2>1. CASE Pushed(type)
    BY <2>1, OpenedKeeps DEF Pushed
  <2>2. CASE open' = Put(open, Empty(type))
    BY <2>2, PutKeeps
  <2> QED BY <1>3, <1>4, <2>1, <2>2 DEF Begin
<1>5. ASSUME NEW type \in {"array", "object"}, NEW symbol, End(type, symbol)
      PROVE  Containers(open')
  BY <1>5, ClosedKeeps DEF End
<1>6. CASE EndSingle
  <2>1. place = "next" /\ "NUL" \in Follows /\ Deliver(Last(open))
    BY <1>6 DEF EndSingle, Reading
  <2>2. "NUL" \in Delimiters
    BY <2>1 DEF Follows
  <2>3. IsContainer(Last(open)) /\ Last(open).type = "array"
    BY <2>2, SingleIsRoot, ContainerIsLast
  <2> QED BY <2>1, <2>3, DeliverKeeps
<1>7. CASE Space \/ Separator \/ OpenQuote \/ Digit \/ TextSymbol
  BY <1>1, <1>7 DEF Space, Separator, OpenQuote, Digit, TextSymbol, Move
<1>8. ASSUME NEW values, NEW resume, NEW broken, Save(values, resume, broken)
      PROVE  Containers(open')
  BY <1>2, <1>3, <1>8 DEF Save
<1>9. CASE SaveInt \/ SaveNull
  BY <1>8, <1>9 DEF SaveInt, SaveNull
<1>10. CASE SaveString
  <2> DEFINE values == {JsonString(t) : t \in TextFrom(TokenFrom) \ {NoName}}
  <2>1. Save(values, off + 1, "next") \/ UNCHANGED open
    BY <1>10 DEF SaveString
  <2> HIDE DEF values
  <2> QED BY <1>1, <1>8, <2>1
<1>11. CASE SaveName \/ ParseError \/ Return
  BY <1>1, <1>11 DEF SaveName, ParseError, NoTransition, Return
<1>12. CASE \E n \in 1 .. Len(stream.text) : Process(n)
  BY <1>1, <1>12 DEF Process
<1>13. CASE Drain \/ ErrorCallback \/ UNCHANGED vars
  BY <1>1, <1>13 DEF Drain, ErrorCallback, vars
<1>14. CASE Begin("array", "[") \/ Begin("object", "{")
  BY <1>4, <1>14
<1>15. CASE End("array", "]") \/ End("object", "}")
  BY <1>5, <1>15
<1> QED BY <1>6, <1>7, <1>9, <1>10, <1>11, <1>12, <1>13, <1>14, <1>15 DEF Next, Step
-----------------------------------------------------------------------------
(* Tokens are what stands in the text.                                      *)

LEMMA TokenFromIs ==
  ASSUME PositionInvariant, ~DrainsInToken
  PROVE  TokenFrom \in Nat /\ TokenFrom <= off
BY DEF PositionInvariant, TokenFrom, TokenStart, Tokens

LEMMA TextIsToken ==
  ASSUME PositionInvariant, ~DrainsInToken
  PROVE  LET t == SubSeq(stream.text, drained + TokenFrom + 1, drained + off)
         IN  TextFrom(TokenFrom) = {t} /\ t # NoName
<1> DEFINE t == SubSeq(stream.text, drained + TokenFrom + 1, drained + off)
<1>1. TokenFrom \in Nat /\ TokenFrom <= off
  BY TokenFromIs
<1>2. TextFrom(TokenFrom) = {t}
  BY <1>1, TokenIsText DEF TextFrom
<1>3. drained + TokenFrom + 1 \in Int /\ drained + off \in Int
  BY <1>1 DEF PositionInvariant, Within
<1>4. \A i \in drained + TokenFrom + 1 .. drained + off : stream.text[i] \in Symbols
  <2> SUFFICES ASSUME NEW i \in drained + TokenFrom + 1 .. drained + off
               PROVE  i \in DOMAIN stream.text
    BY DEF Symbols
  <2>1. /\ drained \in Nat /\ off \in Nat /\ drained + off <= Len(stream.text)
        /\ DOMAIN stream.text = 1 .. Len(stream.text) /\ Len(stream.text) \in Nat
    BY TextIsSequence DEF PositionInvariant, Within
  <2> QED BY <1>1, <2>1
<1>5. t \in Seq(Symbols)
  BY <1>3, <1>4, SubSeqProperties
<1> HIDE DEF t
<1>6. t # NoName
  <2> SUFFICES ASSUME t = NoName PROVE FALSE
    OBVIOUS
  <2>1. Len(t) = 1
    BY DEF NoName
  <2>2. t[1] \in Symbols
    BY <1>5, <2>1, ElementOfSeq
  <2>3. NoName[1] \notin Symbols
    BY TextIsSequence DEF PositionInvariant
  <2> QED BY <2>2, <2>3
<1> QED BY <1>2, <1>6 DEF t

LEMMA DelimitersEndNumbers ==
  \A s \in Delimiters : s \notin Digits
BY DigitsAssumption DEF Delimiters

LEMMA NumberIsToken ==
  ASSUME PositionInvariant, TokenRead, ~DrainsInToken, place = "number",
         off < Len(Buffer), Symbol \in Delimiters
  PROVE  NumberFrom(pStart) =
           {SubSeq(stream.text, drained + pStart + 1, drained + off)}
<1> DEFINE ends == {i \in pStart + 1 .. Len(Buffer) : Buffer[i] \notin Digits}
           stop == CHOOSE i \in ends : \A j \in ends : i <= j
<1>1. /\ Within /\ off \in Nat /\ pStart \in Nat /\ pStart < off /\ off < arrived - drained
      /\ Len(Buffer) = arrived - drained /\ drained \in Nat
  BY BufferLength DEF PositionInvariant, Tokens, Within
<1>2. off + 1 \in ends
  BY <1>1, DelimitersEndNumbers DEF Symbol
<1>3. ASSUME NEW i \in ends PROVE off + 1 <= i
  <2> SUFFICES ASSUME i <= off PROVE FALSE
    BY <1>1
  <2>1. i \in 1 .. arrived - drained /\ drained + i \in drained + pStart + 1 .. drained + off
    BY <1>1
  <2>2. Buffer[i] = stream.text[drained + i]
    BY <1>1, <2>1, BufferIsText
  <2>3. OfToken("number", stream.text[drained + i])
    BY <2>1 DEF TokenRead, Tokens
  <2> QED BY <2>2, <2>3 DEF OfToken
<1>4. \A i \in ends : i \in Int
  BY <1>1
<1>5. stop = off + 1
  <2> HIDE DEF ends
  <2>1. \A i \in ends : (\A j \in ends : i <= j) => i = off + 1
    BY <1>1, <1>2, <1>3, <1>4
  <2> QED BY <1>2, <1>3, <2>1
<1>6. NumberFrom(pStart) = {SubSeq(Buffer, pStart + 1, stop - 1)}
  BY <1>2 DEF NumberFrom
<1> HIDE DEF stop, ends
<1>7. stop - 1 = off
  BY <1>1, <1>5
<1>8. SubSeq(Buffer, pStart + 1, off) = SubSeq(stream.text, drained + pStart + 1, drained + off)
  <2>1. pStart \in Nat /\ pStart <= off
    BY <1>1
  <2> QED BY <2>1, TokenIsText
<1> QED BY <1>6, <1>7, <1>8
-----------------------------------------------------------------------------
(* A value of an object has a name: only a failed allocation leaves one     *)
(* without.                                                                 *)

ValuePlaces == {"colon", "value", "number", "opened string", "string"}

NamesSound ==
  "internal" \notin error =>
    (Last(open).type = "object" /\ place \in ValuePlaces => pName # NoName)

LEMMA ValueOfObject ==
  ASSUME Containers(open), stream \in Streams, Last(open).type = "object"
  PROVE  Machine # "array" /\ (AtValue => place = "value")
BY StreamsAssumption DEF AtValue, Machine

LEMMA NamesKept ==
  ASSUME PositionInvariant, Containers(open), NamesSound, ~DrainsInToken, [Next]_vars
  PROVE  NamesSound'
<1> SUFFICES ASSUME "internal" \notin error', Last(open').type = "object", place' \in ValuePlaces
             PROVE  pName' # NoName
  BY DEF NamesSound
<1>1. stream \in Streams
  BY DEF PositionInvariant, Within
<1>2. ~Break
  BY DEF Break, HandleError
<1>3. ~NotStored
  BY <1>2 DEF NotStored
<1>4. ASSUME UNCHANGED <<open, pName, error>>, place \in ValuePlaces
      PROVE  pName' # NoName
  BY <1>4 DEF NamesSound
<1>5. ASSUME NEW type, NEW symbol
      PROVE  ~Begin(type, symbol)
  BY <1>2, <1>3 DEF Begin, Pushed, Opened, ValuePlaces
<1>6. ASSUME NEW type \in {"array", "object"}, NEW symbol, End(type, symbol)
      PROVE  FALSE
  BY <1>1, <1>6, ClosedKeeps DEF End, ValuePlaces
<1>7. ~EndSingle
  BY DEF EndSingle, ValuePlaces
<1>8. CASE Space
  BY <1>4, <1>8 DEF Space, Move
<1>9. CASE Separator
  <2>1. UNCHANGED <<open, pName, error>>
    BY <1>9 DEF Separator, Move
  <2>2. place = "colon"
    BY <1>1, <1>9, <2>1, ValueOfObject DEF Separator, Move, AfterComma, ValuePlaces
  <2> QED BY <1>4, <2>1, <2>2 DEF ValuePlaces
<1>10. CASE OpenQuote \/ Digit \/ TextSymbol
  <2>1. UNCHANGED <<open, pName, error>>
    BY <1>10 DEF OpenQuote, Digit, TextSymbol, Move
  <2>2. AtValue => place = "value"
    BY <1>1, <2>1, ValueOfObject
  <2>3. place \in ValuePlaces
    BY <1>10, <2>2 DEF OpenQuote, Digit, TextSymbol, Move, ValuePlaces
  <2> QED BY <1>4, <2>1, <2>3
<1>11. ASSUME NEW values, NEW resume, NEW broken PROVE ~Save(values, resume, broken)
  BY <1>3 DEF Save, ValuePlaces
<1>12. ~SaveInt /\ ~SaveNull
  BY <1>11 DEF SaveInt, SaveNull
<1>13. ~SaveString
  BY <1>2, <1>11 DEF SaveString
<1>14. CASE SaveName
  BY <1>2, <1>14 DEF SaveName
<1>15. ~ParseError
  BY DEF ParseError, NoTransition, ValuePlaces
<1>16. CASE UNCHANGED <<open, pName, error, place>>
  BY <1>4, <1>16
<1>17. CASE Return \/ (\E n \in 1 .. Len(stream.text) : Process(n)) \/ Drain \/ ErrorCallback
            \/ UNCHANGED vars
  BY <1>16, <1>17 DEF Return, Process, Drain, ErrorCallback, vars
<1>18. ~(Begin("array", "[") \/ Begin("object", "{"))
  BY <1>5
<1>19. ~(End("array", "]") \/ End("object", "}"))
  BY <1>6
<1> QED BY <1>7, <1>8, <1>9, <1>10, <1>12, <1>13, <1>14, <1>15, <1>17, <1>18, <1>19 DEF Next, Step
-----------------------------------------------------------------------------
(* The parser reads the text as JsonText does.                              *)

At == drained + (IF TokenStart THEN off ELSE pStart)

LEMMA SameGrammar ==
  /\ Text!Machine = Machine /\ Text!Delimiters = Delimiters /\ Text!Follows = Follows
  /\ (Text!AtValue <=> AtValue) /\ (Text!TokenStart <=> TokenStart)
  /\ (Text!RunsErr <=> RunsErr)
  /\ Text!AfterComma = AfterComma /\ (Text!Nameless <=> Nameless) /\ (Text!NameUsed <=> NameUsed)
<1> USE DEF Text!Last, Last, Text!NoName, NoName
<1>1. Text!Machine = Machine
  BY DEF Text!Machine, Machine
<1>2. Text!Delimiters = Delimiters
  BY <1>1, Zenon DEF Text!Delimiters, Delimiters
<1>3. Text!ValueStarts = ValueStarts
  BY DEF Text!ValueStarts, ValueStarts
<1>4. Text!Follows = Follows
  BY <1>1, <1>2, <1>3, Zenon DEF Text!Follows, Follows
<1>5. (Text!AtValue <=> AtValue) /\ (Text!TokenStart <=> TokenStart)
  BY <1>1 DEF Text!AtValue, AtValue, Text!TokenStart, TokenStart
<1>6. Text!AfterComma = AfterComma
  BY <1>1 DEF Text!AfterComma, AfterComma
<1>7. (Text!Nameless <=> Nameless) /\ (Text!NameUsed <=> NameUsed)
  BY DEF Text!Nameless, Nameless, Text!NameUsed, NameUsed
<1>8. Text!RunsErr <=> RunsErr
  BY <1>1 DEF Text!RunsErr, RunsErr
<1> QED BY <1>1, <1>2, <1>4, <1>5, <1>6, <1>7, <1>8

LEMMA SameContainers ==
  /\ \A s, v : Text!Put(s, v) = Put(s, v)
  /\ \A v : Text!Deliver(v) <=> Deliver(v)
  /\ \A t : Text!Opened(t) <=> Opened(t)
  /\ Text!Closed <=> Closed
<1> USE DEF Text!Last, Last, Text!Front, Front, Text!NoName, NoName
<1>1. \A s, v : Text!Put(s, v) = Put(s, v)
  BY Zenon DEF Text!Put, Put, Text!With, With, Text!Without, Without, Text!NoName, NoName
<1>2. \A v : Text!Deliver(v) <=> Deliver(v)
  BY DEF Text!Deliver, Deliver
<1>3. \A t : Text!Empty(t) = Empty(t)
  BY DEF Text!Empty, Empty
<1>4. \A t : Text!Opened(t) <=> Opened(t)
  BY <1>1, <1>3, SameGrammar DEF Text!Opened, Opened
<1>5. Text!Closed <=> Closed
  BY <1>2 DEF Text!Closed, Closed, Text!LastReplaced, LastReplaced
<1> QED BY <1>1, <1>2, <1>4, <1>5

LEMMA ReadsText ==
  ASSUME PositionInvariant, NEW symbols, Reading(symbols), NEW n \in Nat, At + n = drained + off
  PROVE  Text!Reads(n, symbols)
<1>1. off < Len(Buffer) /\ Symbol \in symbols \cap Follows
  BY DEF Reading
<1>2. Symbol = stream.text[drained + off + 1] /\ drained + off < Len(stream.text)
  BY <1>1, SymbolIsText
<1>3. At + n < Len(stream.text) /\ stream.text[At + n + 1] \in symbols \cap Text!Follows
  BY <1>1, <1>2, SameGrammar
<1> QED BY <1>3 DEF Text!Reads, At

LEMMA GoesText ==
  ASSUME NEW n, NEW next, place' = next, At' = At + n, UNCHANGED <<stream, failures, error>>
  PROVE  Text!Goes(n, next)
BY DEF Text!Goes, At

(* Between tokens, before and after.                                        *)
LEMMA BetweenTokens ==
  /\ TokenStart => At = drained + off
  /\ place' \notin Tokens /\ drained' = drained => At' = drained + off'
BY DEF At, TokenStart, Tokens

LEMMA FailedText ==
  ASSUME failures \in Nat, Break, Spend \/ failures' = failures - 1
  PROVE  Text!GiveUp
BY DEF Break, HandleError, Spend, Text!GiveUp

LEMMA ContainerText ==
  ASSUME PositionInvariant, failures \in Nat, Containers(open), NamesSound, "internal" \notin error
  PROVE  /\ Begin("array", "[") \/ Begin("object", "{") => Text!Next
         /\ End("array", "]") \/ End("object", "}") => Text!Next
         /\ EndSingle => Text!Next
<1>1. stream \in Streams /\ drained \in Nat /\ off \in Nat
  BY DEF PositionInvariant, Within
<1>2. ASSUME NEW type, NEW symbol, Begin(type, symbol)
      PROVE  Text!Begin(type, symbol) \/ Text!GiveUp
  <2>1. /\ AtValue /\ Reading({symbol}) /\ off' = off + 1 /\ NameUsed
        /\ UNCHANGED <<stream, drained, delivered>>
    BY <1>2 DEF Begin
  <2>2. TokenStart /\ ~Nameless
    <3>1. place # "number" /\ place \notin {"string", "name"}
      BY <2>1 DEF AtValue
    <3>2. ~Nameless
      BY <1>1, <2>1, ValueOfObject DEF Nameless, NamesSound, ValuePlaces
    <3> QED BY <3>1, <3>2 DEF TokenStart
  <2>3. CASE Pushed(type)
    <3>1. Opened(type) /\ UNCHANGED <<error, failures>> /\ place' \notin Tokens
      BY <2>3 DEF Pushed, Opened, Tokens
    <3>2. At = drained + off /\ At' = At + 1
      BY <1>1, <2>1, <2>2, <3>1, BetweenTokens
    <3>3. Text!Reads(0, {symbol})
      BY <1>1, <2>1, <3>2, ReadsText
    <3> QED BY <2>1, <3>1, <3>2, <3>3, SameGrammar, SameContainers DEF Text!Begin, At
  <2>4. CASE NotStored
    BY <2>2, <2>4, FailedText DEF NotStored
  <2>5. CASE Spend /\ Break
    BY <2>5, FailedText
  <2> QED BY <1>2, <2>3, <2>4, <2>5 DEF Begin
<1>3. ASSUME NEW type \in {"array", "object"}, NEW symbol, End(type, symbol)
      PROVE  Text!End(type, symbol)
  <2>1. /\ Machine = type /\ place \in {"start", "next"} /\ Reading({symbol}) /\ Closed
        /\ off' = off + 1 /\ UNCHANGED <<stream, drained, pName, error, failures>>
    BY <1>3 DEF End
  <2>2. TokenStart /\ place' \notin Tokens
    BY <2>1, <1>1, ClosedKeeps DEF TokenStart, Tokens
  <2>3. At = drained + off /\ At' = At + 1
    BY <1>1, <2>1, <2>2, BetweenTokens
  <2>4. Text!Reads(0, {symbol})
    BY <1>1, <2>1, <2>3, ReadsText
  <2> QED BY <2>1, <2>3, <2>4, SameGrammar, SameContainers DEF Text!End, At
<1>4. ASSUME EndSingle PROVE Text!EndSingle
  <2>1. /\ place = "next" /\ Reading({"NUL"}) /\ Deliver(Last(open)) /\ off' = off + 1
        /\ place' = "end" /\ UNCHANGED <<stream, drained, pName, error, failures>>
    BY <1>4 DEF EndSingle
  <2>2. At = drained + off /\ At' = At + 1
    BY <1>1, <2>1, BetweenTokens DEF TokenStart, Tokens
  <2>3. Text!Reads(0, {"NUL"}) /\ Text!Goes(1, "end")
    BY <1>1, <2>1, <2>2, ReadsText, GoesText
  <2>4. Text!Deliver(Text!Last(open))
    BY <2>1, SameContainers DEF Text!Last, Last
  <2> QED BY <2>1, <2>3, <2>4 DEF Text!EndSingle
<1> QED BY <1>2, <1>3, <1>4 DEF Text!Next

LEMMA PunctuationText ==
  ASSUME PositionInvariant, Space \/ Separator \/ OpenQuote
  PROVE  Text!Punctuation
<1>1. drained \in Nat /\ off \in Nat
  BY DEF PositionInvariant, Within
<1>2. ASSUME NEW symbols, Reading(symbols), NEW next, next \notin Tokens, Move(next), TokenStart
      PROVE  Text!Reads(0, symbols) /\ Text!Goes(1, next)
  <2>1. off' = off + 1 /\ place' = next /\ UNCHANGED <<stream, drained, error, failures>>
    BY <1>2 DEF Move
  <2>2. At = drained + off /\ At' = At + 1
    BY <1>1, <1>2, <2>1, BetweenTokens
  <2> QED BY <1>1, <1>2, <2>1, <2>2, ReadsText, GoesText
<1>3. UNCHANGED <<open, pName, delivered>>
  BY DEF Space, Separator, OpenQuote, Move
<1>4. CASE Space
  <2>1. /\ place \in {"start", "value", "member", "colon", "next"}
        /\ Reading({" "}) /\ Move(place)
    BY <1>4 DEF Space
  <2>2. TokenStart /\ place \notin Tokens
    BY <2>1 DEF TokenStart, Tokens
  <2>3. Text!Reads(0, {" "}) /\ Text!Goes(1, place)
    BY <1>2, <2>1, <2>2
  <2> QED BY <1>3, <2>1, <2>3 DEF Text!Punctuation
<1>5. CASE place = "next" /\ Reading({","}) /\ Move(AfterComma)
  <2>1. TokenStart /\ AfterComma \notin Tokens
    BY <1>5 DEF TokenStart, Tokens, AfterComma
  <2>2. Text!Reads(0, {","}) /\ Text!Goes(1, AfterComma)
    BY <1>2, <1>5, <2>1
  <2> QED BY <1>3, <1>5, <2>2, SameGrammar DEF Text!Punctuation
<1>6. CASE place = "colon" /\ Reading({":"}) /\ Move("value")
  <2>1. TokenStart /\ "value" \notin Tokens
    BY <1>6 DEF TokenStart, Tokens
  <2>2. Text!Reads(0, {":"}) /\ Text!Goes(1, "value")
    BY <1>2, <1>6, <2>1
  <2> QED BY <1>3, <1>6, <2>2 DEF Text!Punctuation
<1>7. CASE AtValue /\ Reading({"quote"}) /\ Move("opened string")
  <2>1. TokenStart /\ "opened string" \notin Tokens
    BY <1>7 DEF TokenStart, Tokens, AtValue
  <2>2. Text!Reads(0, {"quote"}) /\ Text!Goes(1, "opened string")
    BY <1>2, <1>7, <2>1
  <2> QED BY <1>3, <1>7, <2>2, SameGrammar DEF Text!Punctuation
<1>8. CASE /\ place \in {"start", "member"} /\ Machine = "object"
           /\ Reading({"quote"}) /\ Move("opened name")
  <2>1. TokenStart /\ "opened name" \notin Tokens
    BY <1>8 DEF TokenStart, Tokens
  <2>2. Text!Reads(0, {"quote"}) /\ Text!Goes(1, "opened name")
    BY <1>2, <1>8, <2>1
  <2> QED BY <1>3, <1>8, <2>2, SameGrammar DEF Text!Punctuation
<1> QED BY <1>4, <1>5, <1>6, <1>7, <1>8 DEF Separator, OpenQuote

(* A symbol of a token begins it, or makes it longer, which is not seen.    *)
LEMMA TokenText ==
  ASSUME PositionInvariant, Digit \/ TextSymbol
  PROVE  Text!TokenBegins \/ UNCHANGED Text!vars
<1>1. drained \in Nat /\ off \in Nat
  BY DEF PositionInvariant, Within
<1>2. /\ UNCHANGED <<stream, drained, error, failures, open, pName, delivered>>
      /\ pStart' = TokenFrom /\ place' \in Tokens
  BY DEF Digit, TextSymbol, Move, Tokens
<1>3. CASE TokenStart
  <2>1. At = drained + off /\ At' = At + 0
    <3>1. ~TokenStart'
      BY <1>2 DEF TokenStart, Tokens
    <3>2. pStart' = off
      BY <1>2, <1>3 DEF TokenFrom
    <3> QED BY <1>1, <1>2, <1>3, <3>1, <3>2 DEF At
  <2>2. ASSUME NEW symbols, Reading(symbols) PROVE Text!Reads(0, symbols)
    BY <1>1, <2>1, <2>2, ReadsText
  <2>3. Text!Goes(0, place')
    BY <1>2, <2>1, GoesText
  <2>4. \/ AtValue /\ Reading(Digits) /\ place' = "number"
        \/ /\ Reading(Follows \ {"quote"})
           /\ \/ place = "opened string" /\ place' = "string"
              \/ place = "opened name" /\ place' = "name"
    BY <1>3 DEF Digit, TextSymbol, Move, TokenStart
  <2> QED BY <1>2, <2>2, <2>3, <2>4, SameGrammar DEF Text!TokenBegins
<1>4. CASE ~TokenStart
  <2>1. place' = place /\ pStart' = pStart
    BY <1>2, <1>4 DEF Digit, TextSymbol, Move, TokenStart, AtValue, TokenFrom
  <2>2. UNCHANGED (drained + (IF TokenStart THEN off ELSE pStart))
    BY <1>2, <1>4, <2>1 DEF TokenStart
  <2> QED BY <1>2, <2>1, <2>2 DEF Text!vars
<1> QED BY <1>3, <1>4

(* A value that was read is added or no memory is left for it.              *)
LEMMA SaveText ==
  ASSUME failures \in Nat, ~Nameless, NEW values, NEW resume, NEW broken,
         Save(values, resume, broken)
  PROVE  \/ Text!GiveUp
         \/ /\ \E value \in values : Text!Adds(value)
            /\ place' = "next" /\ off' = resume /\ UNCHANGED <<stream, drained, error, failures>>
<1>1. NameUsed /\ UNCHANGED <<stream, drained, delivered>>
  BY DEF Save
<1>2. CASE NotStored
  BY <1>2, FailedText DEF NotStored
<1>3. ASSUME NEW value \in values, Stored(value), place' = "next", off' = resume
      PROVE  Text!Adds(value) /\ UNCHANGED <<error, failures>>
  BY <1>1, <1>3, SameGrammar, SameContainers DEF Stored, Text!Adds
<1> QED BY <1>1, <1>2, <1>3 DEF Save

(* The symbols of the token being read.                                     *)
TokenSize == off - TokenFrom

LEMMA TokenSizeText ==
  ASSUME PositionInvariant, TokenRead, ~DrainsInToken
  PROVE  /\ TokenSize \in Nat /\ TokenSize \in 0 .. Len(stream.text)
         /\ At + TokenSize = drained + off
         /\ TokenSize = 0 <=> TokenStart
         /\ Text!TokenOf(TokenSize) =
              SubSeq(stream.text, drained + TokenFrom + 1, drained + off)
         /\ place = "number" => Text!OnlyDigits(TokenSize)
         /\ place # "number" => Text!NoQuote(TokenSize)
<1>1. /\ drained \in Nat /\ off \in Nat /\ arrived \in Nat /\ off <= arrived - drained
      /\ arrived <= Len(stream.text) /\ Len(stream.text) \in Nat
  BY BufferLength DEF PositionInvariant, Within
<1>2. TokenFrom \in Nat /\ TokenFrom <= off /\ (~TokenStart => TokenFrom < off)
  BY TokenFromIs DEF PositionInvariant, TokenFrom, TokenStart, Tokens
<1>3. At = drained + TokenFrom /\ (TokenStart => TokenFrom = off)
  BY DEF At, TokenFrom
<1>4. /\ TokenSize \in Nat /\ TokenSize \in 0 .. Len(stream.text)
      /\ At + TokenSize = drained + off
      /\ TokenSize = 0 <=> TokenStart
  BY <1>1, <1>2, <1>3 DEF TokenSize
<1>5. Text!TokenOf(TokenSize) = SubSeq(stream.text, drained + TokenFrom + 1, drained + off)
  <2>1. Text!TokenOf(TokenSize) = SubSeq(stream.text, At + 1, At + TokenSize)
    BY DEF Text!TokenOf, At
  <2> QED BY <1>3, <1>4, <2>1
<1>6. \A i \in At + 1 .. At + TokenSize : place \in Tokens /\ OfToken(place, stream.text[i])
  <2> SUFFICES ASSUME NEW i \in At + 1 .. At + TokenSize
               PROVE  place \in Tokens /\ OfToken(place, stream.text[i])
    OBVIOUS
  <2>1. i \in drained + TokenFrom + 1 .. drained + off
    BY <1>3, <1>4
  <2>2. ~TokenStart
    BY <1>1, <1>3, <2>1
  <2>3. place \in Tokens /\ TokenFrom = pStart
    BY <2>2 DEF TokenStart, Tokens, TokenFrom
  <2> QED BY <2>1, <2>3 DEF TokenRead
<1>7. place = "number" => Text!OnlyDigits(TokenSize)
  BY <1>6 DEF Text!OnlyDigits, OfToken, At
<1>8. place # "number" => Text!NoQuote(TokenSize)
  BY <1>6 DEF Text!NoQuote, OfToken, At
<1> QED BY <1>4, <1>5, <1>7, <1>8

(* The assumptions of the cases below.                                      *)
Readable ==
  /\ PositionInvariant /\ TokenRead /\ ~DrainsInToken
  /\ failures \in Nat /\ Containers(open) /\ NamesSound /\ "internal" \notin error

LEMMA ValueNamed ==
  ASSUME Readable, AtValue \/ place \in ValuePlaces
  PROVE  ~Nameless
<1>1. stream \in Streams
  BY DEF Readable, PositionInvariant, Within
<1> QED BY <1>1, ValueOfObject DEF Readable, Nameless, NamesSound, ValuePlaces

LEMMA SaveIntText ==
  ASSUME Readable, SaveInt
  PROVE  Text!Number(TokenSize) \/ Text!GiveUp
<1> DEFINE n == TokenSize
           token == SubSeq(stream.text, drained + pStart + 1, drained + off)
<1>1. place = "number" /\ Reading(Delimiters) /\ ~Nameless /\ ~TokenStart
  BY ValueNamed DEF SaveInt, ValuePlaces, TokenStart
<1>2. PICK broken : Save({JsonInt(digits) : digits \in NumberFrom(pStart)}, off, broken)
  BY DEF SaveInt
<1>3. /\ n \in 0 .. Len(stream.text) /\ At + n = drained + off /\ n # 0
      /\ Text!TokenOf(n) = token /\ Text!OnlyDigits(n)
  BY <1>1, TokenSizeText DEF Readable, TokenFrom
<1>4. NumberFrom(pStart) = {token}
  BY <1>1, NumberIsToken DEF Readable, Reading
<1>5. n > 0 /\ Text!Reads(n, Delimiters)
  BY <1>1, <1>3, ReadsText DEF Readable
<1> HIDE DEF n, token
<1>6. CASE ~Text!GiveUp
  <2>1. /\ Text!Adds(JsonInt(token)) /\ place' = "next" /\ off' = off
        /\ UNCHANGED <<stream, drained, error, failures>>
    BY <1>1, <1>2, <1>4, <1>6, SaveText DEF Readable
  <2>2. At' = At + n
    BY <1>3, <2>1, BetweenTokens DEF Tokens
  <2>3. Text!Goes(n, "next")
    BY <2>1, <2>2, GoesText
  <2>4. Text!JsonInt(token) = JsonInt(token)
    BY DEF Text!JsonInt, JsonInt
  <2>5. Text!Number(n)
    BY <1>1, <1>3, <1>5, <2>1, <2>3, <2>4, SameGrammar DEF Text!Number
  <2> QED BY <2>5 DEF n
<1> QED BY <1>6

LEMMA SaveNullText ==
  ASSUME Readable, SaveNull
  PROVE  Text!Null \/ Text!GiveUp
<1>1. AtValue /\ Reading({"null"}) /\ ~Nameless /\ TokenStart
  BY ValueNamed DEF SaveNull, AtValue, TokenStart
<1>2. Save({JsonNull}, off + 1, "next")
  BY DEF SaveNull
<1>3. drained \in Nat /\ off \in Nat
  BY DEF Readable, PositionInvariant, Within
<1>4. CASE ~Text!GiveUp
  <2>1. /\ Text!Adds(JsonNull) /\ place' = "next" /\ off' = off + 1
        /\ UNCHANGED <<stream, drained, error, failures>>
    BY <1>1, <1>2, <1>4, SaveText DEF Readable
  <2>2. At = drained + off /\ At' = At + 1
    BY <1>1, <1>3, <2>1, BetweenTokens DEF Tokens
  <2>3. Text!Goes(1, "next") /\ Text!Reads(0, {"null"})
    BY <1>1, <1>3, <2>1, <2>2, GoesText, ReadsText DEF Readable
  <2>4. Text!JsonNull = JsonNull
    BY DEF Text!JsonNull, JsonNull
  <2> QED BY <1>1, <2>1, <2>3, <2>4, SameGrammar DEF Text!Null
<1> QED BY <1>4

LEMMA SaveStringText ==
  ASSUME Readable, SaveString
  PROVE  Text!String(TokenSize) \/ Text!GiveUp
<1> DEFINE n == TokenSize
           token == SubSeq(stream.text, drained + TokenFrom + 1, drained + off)
<1>1. /\ place \in {"opened string", "string"} /\ Reading({"quote"}) /\ ~Nameless
      /\ TokenStart <=> place = "opened string"
  BY ValueNamed DEF SaveString, ValuePlaces, TokenStart
<1>2. TextFrom(TokenFrom) = {token} /\ token # NoName
  BY TextIsToken DEF Readable
<1>3. /\ n \in Nat /\ n \in 0 .. Len(stream.text) /\ At + n = drained + off /\ Text!TokenOf(n) = token
      /\ n = 0 <=> place = "opened string"
      /\ Text!NoQuote(n)
  BY <1>1, TokenSizeText DEF Readable
<1>4. drained \in Nat /\ off \in Nat /\ At \in Int
  BY DEF At, Readable, PositionInvariant, Within
<1> HIDE DEF n
<1>5. n \in Nat /\ At + n = drained + off
  BY <1>3
<1>6. Text!Reads(n, {"quote"})
  BY <1>1, <1>3, <1>5, ReadsText DEF Readable
<1>7. \/ Save({JsonString(token)}, off + 1, "next")
      \/ failures' = failures - 1 /\ Break
  BY <1>2 DEF SaveString
<1> HIDE DEF token
<1>8. CASE ~Text!GiveUp
  <2>1. Save({JsonString(token)}, off + 1, "next")
    BY <1>7, <1>8, FailedText DEF Readable
  <2>2. /\ Text!Adds(JsonString(token)) /\ place' = "next" /\ off' = off + 1
        /\ UNCHANGED <<stream, drained, error, failures>>
    <3>1. failures \in Nat /\ ~Nameless
      BY <1>1 DEF Readable
    <3> QED BY <1>8, <2>1, <3>1, SaveText
  <2>3. At' = At + (n + 1)
    <3>1. At' = drained + off'
      BY <2>2, BetweenTokens DEF Tokens
    <3> QED BY <1>4, <1>5, <2>2, <3>1
  <2>4. Text!Goes(n + 1, "next")
    BY <2>2, <2>3, GoesText
  <2>5. Text!JsonString(token) = JsonString(token)
    BY DEF Text!JsonString, JsonString
  <2>6. Text!String(n)
    BY <1>1, <1>3, <1>6, <2>2, <2>4, <2>5 DEF Text!String
  <2> QED BY <2>6 DEF n
<1> QED BY <1>8

LEMMA SaveNameText ==
  ASSUME Readable, SaveName
  PROVE  Text!Name(TokenSize) \/ Text!GiveUp
<1> DEFINE n == TokenSize
           token == SubSeq(stream.text, drained + TokenFrom + 1, drained + off)
<1>1. /\ place \in {"opened name", "name"} /\ Reading({"quote"})
      /\ TokenStart <=> place = "opened name"
      /\ off' = off + 1 /\ place' = "colon" /\ UNCHANGED <<stream, drained, open, delivered>>
  BY DEF SaveName, TokenStart
<1>2. TextFrom(TokenFrom) = {token} /\ token # NoName
  BY TextIsToken DEF Readable
<1>3. /\ n \in Nat /\ n \in 0 .. Len(stream.text) /\ At + n = drained + off /\ Text!TokenOf(n) = token
      /\ n = 0 <=> place = "opened name"
      /\ Text!NoQuote(n)
  BY <1>1, TokenSizeText DEF Readable
<1>4. drained \in Nat /\ off \in Nat /\ At \in Int
  BY DEF At, Readable, PositionInvariant, Within
<1> HIDE DEF n
<1>5. n \in Nat /\ At + n = drained + off
  BY <1>3
<1>6. Text!Reads(n, {"quote"})
  BY <1>1, <1>3, <1>5, ReadsText DEF Readable
<1>7. \/ pName' = token /\ UNCHANGED <<error, failures>>
      \/ failures' = failures - 1 /\ Break
  BY <1>2 DEF SaveName
<1> HIDE DEF token
<1>8. CASE ~Text!GiveUp
  <2>1. pName' = token /\ UNCHANGED <<error, failures>>
    BY <1>7, <1>8, FailedText DEF Readable
  <2>2. At' = At + (n + 1)
    <3>1. At' = drained + off'
      BY <1>1, BetweenTokens DEF Tokens
    <3>2. off' = off + 1
      BY <1>1
    <3> QED BY <1>4, <1>5, <3>1, <3>2
  <2>3. Text!Goes(n + 1, "colon")
    BY <1>1, <2>1, <2>2, GoesText
  <2>4. Text!Name(n)
    BY <1>1, <1>3, <1>6, <2>1, <2>3 DEF Text!Name
  <2> QED BY <2>4 DEF n
<1> QED BY <1>8

LEMMA ParseErrorText ==
  ASSUME Readable, ParseError
  PROVE  Text!Malformed(TokenSize)
<1> DEFINE n == TokenSize
<1>1. /\ off < Len(Buffer) /\ place # "error" /\ Symbol \notin Follows
      /\ IF RunsErr THEN error' = error \cup {"parse"} /\ off' = off + 1
         ELSE UNCHANGED <<error, off>>
      /\ place' = "error"
      /\ UNCHANGED <<stream, drained, open, pName, delivered, failures>>
  BY DEF ParseError, NoTransition, HandleError
<1>2. /\ n \in 0 .. Len(stream.text) /\ At + n = drained + off
      /\ n = 0 <=> TokenStart
      /\ place = "number" => Text!OnlyDigits(n)
      /\ place # "number" => Text!NoQuote(n)
  BY TokenSizeText DEF Readable
<1>3. Symbol = stream.text[drained + off + 1] /\ drained + off < Len(stream.text)
  BY <1>1, SymbolIsText DEF Readable
<1>4. drained \in Nat /\ off \in Nat /\ At \in Int
  BY DEF At, Readable, PositionInvariant, Within
<1> HIDE DEF n
<1>5. At' = IF RunsErr THEN At + n + 1 ELSE At + n
  <2>1. At' = drained + off'
    BY <1>1, BetweenTokens DEF Tokens
  <2> QED BY <1>1, <1>2, <1>4, <2>1
<1>6. IF place = "number" THEN n > 0 /\ Text!OnlyDigits(n)
      ELSE IF TokenStart THEN n = 0 ELSE n > 0 /\ Text!NoQuote(n)
  BY <1>2 DEF TokenStart
<1>7. At + n < Len(stream.text) /\ stream.text[At + n + 1] \notin Text!Follows
  BY <1>1, <1>2, <1>3, SameGrammar
<1>8. Text!Malformed(n)
  BY <1>1, <1>5, <1>6, <1>7, SameGrammar DEF Text!Malformed, At
<1> QED BY <1>8 DEF n

LEMMA StepText ==
  ASSUME Readable, Step
  PROVE  Text!Next \/ UNCHANGED Text!vars
<1> DEFINE sizes == 0 .. Len(stream.text)
<1>1. TokenSize \in sizes
  BY TokenSizeText DEF Readable
<1>2. ASSUME NEW n \in sizes, Text!Number(n) \/ Text!String(n) \/ Text!Name(n) \/ Text!Malformed(n)
      PROVE  Text!Next
  BY <1>2 DEF Text!Next
<1>3. CASE \/ Begin("array", "[") \/ Begin("object", "{")
           \/ End("array", "]") \/ End("object", "}") \/ EndSingle
  BY <1>3, ContainerText DEF Readable
<1>4. CASE Space \/ Separator \/ OpenQuote
  BY <1>4, PunctuationText DEF Readable, Text!Next
<1>5. CASE Digit \/ TextSymbol
  BY <1>5, TokenText DEF Readable, Text!Next
<1>6. CASE SaveNull
  BY <1>6, SaveNullText DEF Text!Next
<1>7. CASE SaveInt \/ SaveString \/ SaveName \/ ParseError
  <2>1. \/ Text!GiveUp \/ Text!Number(TokenSize) \/ Text!String(TokenSize)
        \/ Text!Name(TokenSize) \/ Text!Malformed(TokenSize)
    BY <1>7, SaveIntText, SaveStringText, SaveNameText, ParseErrorText
  <2> QED BY <1>1, <1>2, <2>1 DEF Text!Next
<1>8. CASE Return
  BY <1>8 DEF Return, position, Text!vars, TokenStart
<1> QED BY <1>3, <1>4, <1>5, <1>6, <1>7, <1>8 DEF Step

LEMMA NextText ==
  ASSUME Readable \/ "internal" \in error, ErrorInvariant, ~DrainsInToken,
         PositionInvariant, [Next]_vars
  PROVE  Text!Next \/ UNCHANGED Text!vars
<1>1. CASE Step
  <2>1. CASE Readable
    BY <1>1, <2>1, StepText
  <2>2. CASE "internal" \in error
    <3>1. error \subseteq error'
      BY <1>1, StepErrors DEF Quiet, Raises, HandleError, ErrorInvariant
    <3> QED BY <2>2, <3>1 DEF Text!GiveUp, Text!Next
  <2> QED BY <2>1, <2>2
<1>2. CASE Drain
  <2>1. /\ TokenStart /\ drained' = drained + drainable /\ off' = off - drainable
        /\ UNCHANGED <<stream, place, open, pName, error, delivered, failures>>
    BY <1>2 DEF Drain
  <2>2. drained \in Nat /\ off \in Nat /\ drainable \in Nat
    BY DEF PositionInvariant, Within
  <2>3. drained' + off' = drained + off
    BY <2>1, <2>2
  <2> QED BY <2>1, <2>3 DEF Text!vars, TokenStart
<1>3. CASE (\E n \in 1 .. Len(stream.text) : Process(n)) \/ ErrorCallback \/ UNCHANGED vars
  BY <1>3 DEF Process, ErrorCallback, vars, position, Text!vars, TokenStart
<1> QED BY <1>1, <1>2, <1>3 DEF Next
-----------------------------------------------------------------------------
TextInvariant == ParserInvariant /\ TokenRead /\ Containers(open) /\ NamesSound

LEMMA TextInit == Init => TextInvariant /\ Text!Init
<1> SUFFICES ASSUME Init PROVE TextInvariant /\ Text!Init
  OBVIOUS
<1>1. /\ open = <<Empty("array")>> /\ place = "value" /\ stream \in Streams /\ drained = 0 /\ off = 0
      /\ pName = NoName /\ delivered = <<>> /\ error = {} /\ failures = Failures
  BY DEF Init
<1>2. TokenRead /\ TokenStart
  BY <1>1 DEF TokenRead, Tokens, TokenStart
<1>3. Containers(open) /\ NamesSound
  <2>1. IsContainer(Empty("array")) /\ Empty("array").type = "array"
    BY EmptyIsContainer
  <2>2. Containers(open)
    BY <1>1, <2>1, SingletonIsSequence DEF Containers
  <2> QED BY <1>1, <2>1, <2>2 DEF NamesSound, ValuePlaces, Last
<1>4. Text!Init
  <2>1. drained + (IF TokenStart THEN off ELSE pStart) = 0
    BY <1>1, <1>2
  <2>2. Text!Empty("array") = Empty("array") /\ Text!NoName = NoName
    BY DEF Text!Empty, Empty, Text!NoName, NoName
  <2> QED BY <1>1, <2>1, <2>2 DEF Text!Init
<1> QED BY <1>2, <1>3, <1>4, ParserInit DEF TextInvariant

(* However the text is cut into chunks and drained between tokens, the      *)
(* parser reads it as if all of it were there at once: every token is the   *)
(* run of symbols that stands in the text, containers and documents follow, *)
(* and an internal error comes of a failed allocation only                  *)
(* (json_parser.rl:55-160, 295-316, 346-365).                               *)
THEOREM TextRead ==
  ASSUME ~DrainsInToken
  PROVE  Spec => TextIsRead
<1>1. TextInvariant /\ [Next]_vars => TextInvariant'
  <2> SUFFICES ASSUME TextInvariant, [Next]_vars PROVE TextInvariant'
    OBVIOUS
  <2>1. stream \in Streams
    BY DEF TextInvariant, ParserInvariant, PositionInvariant, Within
  <2>2. ParserInvariant'
    BY PositionsKept, StackKept, ErrorsKept DEF TextInvariant, ParserInvariant
  <2> QED BY <2>1, <2>2, TokenReadKept, ContainersKept, NamesKept DEF TextInvariant, ParserInvariant
<1>2. TextInvariant /\ [Next]_vars => [Text!Next]_Text!vars
  <2> SUFFICES ASSUME TextInvariant, [Next]_vars PROVE Text!Next \/ UNCHANGED Text!vars
    OBVIOUS
  <2>1. failures \in Nat
    BY DEF TextInvariant, ParserInvariant, ErrorInvariant
  <2>2. Readable \/ "internal" \in error
    BY <2>1 DEF TextInvariant, ParserInvariant, Readable
  <2> QED BY <2>2, NextText DEF TextInvariant, ParserInvariant
<1> QED BY <1>1, <1>2, TextInit, PTL DEF Spec, TextIsRead, Text!Spec
=============================================================================
