---------------------------- MODULE JsonGrammar ----------------------------
(***************************************************************************)
(* The grammar of src/src/json.rl and what its actions build: where the    *)
(* parser is in a text, which symbols may follow there, and the containers *)
(* that are open.  Keywords are one symbol (no action runs inside them);   *)
(* floats and escape sequences are left out.                               *)
(***************************************************************************)
EXTENDS JsonValue, SequencesExt

CONSTANTS
  Streams,         \* what may be read: records [entry, text, documents, malformed]
  Digits           \* the symbols of a number

\* A text is a sequence of symbols, read by one of the two calls.
ASSUME StreamsAssumption ==
  \A s \in Streams : /\ s.entry \in {"stream", "single"}
                     /\ s.text \in Seq({s.text[i] : i \in DOMAIN s.text})
                     /\ NoName[1] \notin {s.text[i] : i \in DOMAIN s.text}

ASSUME DigitsAssumption ==
  Digits \cap {" ", ",", ":", "[", "]", "{", "}", "null", "quote", "NUL", "bad"} = {}

VARIABLES
  stream,     \* what the caller reads, one of Streams
  place,      \* jp->cs within the machine of the innermost container
  open,       \* jp->context_stack and, last, jp->cur_obj
  pName,      \* jp->p_name
  delivered   \* the documents given to s_cb

\* Which machine is running: main, single_json_value, array or object.
Machine == IF Len(open) = 1 THEN stream.entry ELSE Last(open).type

ValueStarts == Digits \cup {"null", "quote", "[", "{"}

\* What may follow a complete value: s_r_s, end_array, end_object or the NUL.
Delimiters ==
  CASE Machine = "array"  -> {" ", ",", "]"}
    [] Machine = "object" -> {" ", ",", "}"}
    [] Machine = "single" -> {"NUL"}
    [] OTHER              -> {}

\* The symbols json.rl has a transition for; every other one is an error.
Follows ==
  CASE place = "value"  -> (CASE Machine = "stream" -> {"[", "{"}
                              [] Machine = "single" -> ValueStarts
                              [] OTHER              -> ValueStarts \cup {" "})
    [] place = "start"  -> IF Machine = "array"
                           THEN ValueStarts \cup {" ", "]"}
                           ELSE {" ", "quote", "}"}
    [] place = "member" -> {" ", "quote"}
    [] place = "colon"  -> {" ", ":"}
    [] place = "next"   -> Delimiters
    [] place = "number" -> Digits \cup Delimiters
    [] place \in {"opened string", "string", "opened name", "name"} ->
         {stream.text[i] : i \in DOMAIN stream.text} \ {"NUL", "bad"}
    [] place \in {"end", "error"} -> {}

\* Whether a symbol that does not follow runs A_err.  In single_json_value,
\* $err(A_err) binds to the NUL alone: inside the value before it the machine
\* stops in its error state and tells nobody.
RunsErr == Machine # "single" \/ place \in {"number", "next", "end"}

AtValue == place = "value" \/ (place = "start" /\ Machine = "array")

\* A_save_start runs on the first symbol of a token, or on the closing quote
\* of an empty one.
TokenStart == place \notin {"number", "string", "name"}

AfterComma == IF Machine = "array" THEN "value" ELSE "member"

\* Where the enclosing machine goes on once a value has been read.
AfterValue == IF Machine = "stream" THEN "value" ELSE "next"

-----------------------------------------------------------------------------
(* What the actions of the grammar build.                                  *)

Put(containers, value) ==
  Append(Front(containers), With(Last(containers), pName, value))

\* object_add frees the name whether or not it stores the value.
NameUsed == pName' = IF Last(open).type = "object" THEN NoName ELSE pName

\* jp->add refuses a value without a name.
Nameless == Last(open).type = "object" /\ pName = NoName

\* handle_json_object: the first element of the root, not the last, is given
\* to the callback and removed.
Deliver(root) ==
  /\ delivered' = Append(delivered, root.entries[1].value)
  /\ open' = <<[root EXCEPT !.entries = Tail(@)]>>

\* begin: the new container is the last entry of its parent and jp->cur_obj.
Opened(type) ==
  /\ ~Nameless
  /\ open' = Append(Put(open, Empty(type)), Empty(type))
  /\ place' = "start"

\* The innermost container is complete; closing the outermost one of a stream
\* enters the final state of main, whose to-state action is A_final.
Closed ==
  LET outer == Front(open)
      filled == LastReplaced(Last(outer), Last(open))
  IN IF Len(open) = 2 /\ stream.entry = "stream"
     THEN Deliver(filled) /\ place' = "value"
     ELSE /\ open' = Append(Front(outer), filled)
          /\ place' = "next"
          /\ UNCHANGED delivered

=============================================================================
