----------------------------- MODULE JsonPrint -----------------------------
(***************************************************************************)
(* json_to_string of src/src/json.c: what is written for a value, symbol   *)
(* by symbol.  It is what the peer sends, hence what the parser reads.     *)
(***************************************************************************)
EXTENDS JsonValue, SequencesExt

Quoted(symbols) == <<"quote">> \o symbols \o <<"quote">>

\* array_print and object_print write ", " between two entries, and
\* print_object_entry the name, a colon and a space before the value.
RECURSIVE Printed(_)
Printed(value) ==
  LET Named(e) == (IF value.type = "object"
                   THEN Quoted(e.name) \o <<":", " ">>
                   ELSE <<>>) \o Printed(e.value)
      Entries == FlattenSeq([i \in DOMAIN value.entries |->
                   (IF i = 1 THEN <<>> ELSE <<",", " ">>)
                      \o Named(value.entries[i])])
  IN CASE value.type = "null"   -> <<"null">>
       [] value.type = "int"    -> value.text
       [] value.type = "string" -> Quoted(value.text)
       [] value.type = "array"  -> <<"[">> \o Entries \o <<"]">>
       [] value.type = "object" -> <<"{">> \o Entries \o <<"}">>


-----------------------------------------------------------------------------
\* Mutant of StringLength: the quotes of a name are not counted.
RECURSIVE StringLengthBare(_)
StringLengthBare(value) ==
  CASE value.type = "null"   -> 4
    [] value.type = "int"    -> Len(value.text)
    [] value.type = "string" -> Len(value.text) + 2
    [] OTHER -> FoldLeft(LAMBDA len, e :
                           len + StringLengthBare(e.value) + 2
                             + (IF value.type = "object" THEN Len(e.name) + 2 ELSE 0),
                         0, value.entries)

\* The *_string_length functions, which json_to_string allocates by: each
\* entry counts with a ", ", and two bytes less make room for the brackets.
RECURSIVE StringLength(_)
StringLength(value) ==
  CASE value.type = "null"   -> 4
    [] value.type = "int"    -> Len(value.text)
    [] value.type = "string" -> Len(value.text) + 2
    [] OTHER -> FoldLeft(LAMBDA len, e :
                           len + StringLength(e.value) + 2
                             + (IF value.type = "object" THEN Len(e.name) + 4 ELSE 0),
                         0, value.entries)

\* A keyword is one symbol here.
Bytes(symbols) ==
  FoldLeft(LAMBDA n, s : n + (IF s = "null" THEN 4 ELSE 1), 0, symbols)

RECURSIVE EmptyContainers(_)
EmptyContainers(value) ==
  IF value.type \notin {"array", "object"} THEN 0
  ELSE FoldLeft(LAMBDA n, e : n + EmptyContainers(e.value),
                IF value.entries = <<>> THEN 1 ELSE 0, value.entries)

=============================================================================
