----------------------------- MODULE JsonValue -----------------------------
(***************************************************************************)
(* JSON values as src/src/json.c keeps them, seen from the parser and the  *)
(* printer: a container is an ordered list of entries (array_list and      *)
(* object_list), a name or a string is a sequence of one-byte symbols, an  *)
(* integer is the sequence of its digits.  Doubles and booleans behave as  *)
(* the integers and null do here and are left out.                         *)
(***************************************************************************)
EXTENDS Naturals, Sequences

NoName == <<"no name">>

JsonNull == [type |-> "null"]
JsonInt(digits) == [type |-> "int", text |-> digits]
JsonString(symbols) == [type |-> "string", text |-> symbols]

\* A container without entries: json_array_new and json_object_new.
Empty(type) == [type |-> type, entries |-> <<>>]

\* json_object_del: at most one entry has the name, since json_object_add
\* removes it before adding; an array has no names to remove.
Without(container, name) ==
  IF container.type = "array"
  THEN container
  ELSE [container EXCEPT !.entries = SelectSeq(@, LAMBDA e : e.name # name)]

\* json_array_add and json_object_add when every allocation succeeds.
With(container, name, value) ==
  LET entry == [name |-> IF container.type = "array" THEN NoName ELSE name,
                value |-> value]
  IN [Without(container, name) EXCEPT !.entries = Append(@, entry)]

\* The last entry is the container being filled: the parser writes through
\* the pointer it added, so the entry always is what it points to.
LastReplaced(container, value) ==
  [container EXCEPT !.entries[Len(container.entries)].value = value]

=============================================================================
