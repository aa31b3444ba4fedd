---------------------------- MODULE MCJsonParser ----------------------------
(* Instances of JsonParser: the texts are what json_to_string prints.       *)
EXTENDS JsonParser, JsonPrint

Array(values) == [type |-> "array",
                  entries |-> [i \in DOMAIN values |->
                                 [name |-> NoName, value |-> values[i]]]]
Object(members) == [type |-> "object",
                    entries |-> [i \in DOMAIN members |->
                                   [name |-> members[i][1], value |-> members[i][2]]]]

Twelve == JsonInt(<<"1", "2">>)
Three == JsonInt(<<"3">>)

\* [12, [], null] and {"ab": "x", "c": [3]}, then an object with a number last.
Lists == Array(<<Twelve, Array(<<>>), JsonNull>>)
Members == Object(<<<<<<"a", "b">>, JsonString(<<"x", ",">>)>>,
                    <<<<"c">>, Array(<<Three>>)>>>>)
Numbers == Object(<<<<<<>>, Twelve>>>>)
Texts == Array(<<Three, JsonString(<<"x", "x", "x">>)>>)

StreamOf(documents) ==
  [entry |-> "stream", documents |-> documents, malformed |-> FALSE,
   text |-> FlattenSeq([i \in DOMAIN documents |-> Printed(documents[i])])]

\* The text cut after n symbols and continued with a byte no string may hold.
Damaged(document, n) ==
  [entry |-> "stream", documents |-> <<document>>, malformed |-> TRUE,
   text |-> Printed(document) \o SubSeq(Printed(document), 1, n)
              \o <<"bad">> \o Printed(document)]

SingleOf(document) ==
  [entry |-> "single", documents |-> <<document>>, malformed |-> FALSE,
   text |-> Printed(document) \o <<"NUL">>]

\* json_parser_parse rejects a truncated text (check_json_parser_parse.c).
TruncatedSingle(document, n) ==
  [entry |-> "single", documents |-> <<>>, malformed |-> TRUE,
   text |-> SubSeq(Printed(document), 1, n) \o <<"NUL">>]

MCStreams ==
  {StreamOf(<<Lists, Members>>), StreamOf(<<Numbers, Numbers>>)}
    \cup {Damaged(Numbers, n) : n \in 0 .. Len(Printed(Numbers)) - 1}
    \cup {SingleOf(d) : d \in {Lists, Members, Numbers, Twelve, JsonNull, JsonString(<<>>)}}
    \cup {TruncatedSingle(Members, n) : n \in 0 .. Len(Printed(Members)) - 1}
    \cup {TruncatedSingle(JsonString(<<"x">>), n) : n \in 1 .. 2}

MCTokens == {StreamOf(<<Texts>>)}

\* A document that was delivered, with what failed allocations left out of it,
\* prints into exactly the bytes that json_to_string allocates for it, but for
\* the brackets of its empty containers, which are not counted.
PrintedAsMeasured ==
  \A i \in DOMAIN delivered :
     LET d == delivered[i]
     IN Bytes(Printed(d)) = StringLength(d) + 2 * EmptyContainers(d)
=============================================================================
