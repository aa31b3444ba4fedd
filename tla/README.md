# libjsonrpc in TLA+

libjsonrpc is a single-threaded C library for JSON-RPC 2.0 on top of libevent:
a JSON value library, an incremental parser (Ragel), a protocol core with a
server and a client half, and transports over TCP, web sockets and HTTP. The
modules here model the parts of it whose correctness depends on the order of
callbacks, deferred calls, chunks of input and failures.

## The system

| Component | Code | State | Operations |
|---|---|---|---|
| Server half | `json_rpc.c` | method table; one `json_rpc_request` per document; deferred calls in the event loop | `json_rpc_add_method`, `_del_method`, `_free`, `_process_request`, `_return`, and the timer callback `deferred_callcb` |
| Client half | `json_rpc.c` | `result_cbs`: callbacks waiting for a response, by id | `json_rpc_preprocess_request`, `json_rpc_process_response`, `json_rpc_free` |
| Transport core | `json_rpc_tt.c` | a transport with read/write/free functions | `json_rpc_tt_send`, `json_rpc_tt_read`, `json_rpc_tt_result` |
| Stream transports | `json_rpc_tt_tcp.c`, `json_rpc_tt_ws.c` | a connection, for TCP also a parser | read, write and error callbacks |
| HTTP transport | `json_rpc_tt_http.c` | the `evhttp_request`s that wait for a reply | `json_rpc_call`, `jrpc_result` |
| Parser | `json_parser.rl`, `json.rl` | machine state and stacks; three positions in the caller's buffer; error flags | `json_parser_process`, `_drain`, `_parse`, `_free`, `handle_errorcb` |
| JSON values | `json.c` | reference-counted values; the entries of arrays and objects | constructors, access, adding and deleting, equality, printing, `json_ref_get`, `json_ref_put` |
| String functions | `string_functions.c` | the block a string is decoded into | `interpretate_esc_seq`, `string_copy` |

How they interact. A transport turns bytes into documents with the parser and
gives each to `json_rpc_tt_read`, which asks `json_rpc_is_response` whether it
belongs to the client or the server half. The server half creates a request,
classifies each call of the document and *defers* the application's method
with a timer (`event_once`). The method answers with `json_rpc_return`, at
once or later; that defers once more, to `single_result_cb` or
`batched_result_cb`, and the last result calls `user_cb`: the transport writes
the answer and puts it. All calls of a batch share one request and one field
`req->method_id`, which `deferred_callcb` sets before it runs a call.

What is hard: the order in which timers run; a request freed while calls still
point to it; results that are lost because an allocation failed; ids that must
be released once; callbacks that call the library again; responses that are
repeated or expected by nobody; chunks that end inside a token; drains; error
callbacks that run long after the error. `PROJECT.json` lists these hazards
with their lines.

What makes each component correct:

* server: one answer per document, complete, after all of its calls, each
  response under the id of its call; no use of a freed request; every document
  with calls to answer is answered;
* client: a callback runs once, for a response to its own id, and is not lost;
* transports: answers are recognised as answers, results reach the callback of
  their call, an HTTP request is replied to once with a status that fits;
* parser: the documents delivered are those written, however the text was cut
  and drained; errors are found, reported, and final;
* values: the count of a value is the number of references to it, in nested and
  shared containers too, and whatever allocations fail; the space measured for
  a text is what printing it takes;
* responses: built completely or not at all, without using a reference twice;
* strings: decoded as UTF-8, within the block allocated for them.

## Modules

| Module | Models | Notes |
|---|---|---|
| `JsonRpcMessages` | classification of documents, ids, equality of ids | pure operators: `EvalCallType`, `IsResponse`, `GetId`, `IdEquals` |
| `JsonRpcMessagesProofs` | lemmas about these operators and about lists | used by the proofs of both halves |
| `RpcService` | what `json_rpc_process_request` promises | abstract: a document is refused, or open until its results are there, or silent |
| `JsonRpcServer` | the server half | one action per API call and per kind of deferred call; refines `RpcService` |
| `JsonRpcServerProofs` | theorems about `JsonRpcServer` | types, lifetime of requests, refinement, answers |
| `CallTable` | what the client half promises | abstract: a map from ids to callbacks |
| `JsonRpcClient` | the client half | refines `CallTable` |
| `JsonRpcClientProofs` | theorems about `JsonRpcClient` | |
| `JsonRpcConnection` | two peers over a TCP or web socket transport | extends `JsonRpcServer`, with an instance of `JsonRpcClient`; adds `json_rpc_tt.c` and the two transports, their parse errors included |
| `JsonRpcConnectionProofs` | theorems about `JsonRpcConnection` | extends `JsonRpcServerProofs` |
| `JsonRpcHttp` | the HTTP transport | extends `JsonRpcServer` with replies |
| `JsonRpcHttpProofs` | theorems about `JsonRpcHttp` | extends `JsonRpcServerProofs` |
| `JsonHeap` | the values of `json.c` in memory, and what `json.h` asks of a client | operators from heap to heap, and a client that may do all the contract allows |
| `JsonRpcResponses` | the functions of `json_rpc.c` that build a response on that heap | one action per call of `json.c`, each of which may fail; refines `JsonHeap` |
| `JsonRpcResponsesProofs` | theorems about `JsonHeap` and `JsonRpcResponses` | |
| `StringFunctions` | `interpretate_esc_seq`, one action per kind of symbol | widths of `unsigned char` and `short`, and memory that is not zero |
| `StringFunctionsProofs` | theorems about `StringFunctions` | |
| `JsonValue`, `JsonPrint` | values, their text as `json_to_string` writes it, and the length it allocates for | `JsonPrint` is recursive and used by runs only |
| `JsonGrammar` | `json.rl`: which symbols may follow, and the containers its actions build | shared by the next two |
| `JsonText` | what `json_parser_process` promises | abstract: the text is read as if all of it were there, a token at a time |
| `JsonParser` | the incremental parser | one action per Ragel action; refines `JsonText` |
| `JsonParserProofs` | theorems about `JsonParser` | |
| `MC...` | finite instances | documents, texts and bounds of the runs |

Correspondence. In `JsonRpcServer`, `req[s]` is the `struct json_rpc_request`
of submission `s` (its `state` is the lifetime of the allocation), `queue` the
set of `deferred_call_data` in the event loop (a set, because timers of equal
delay have no order among them), `held` the requests that methods have kept,
`idrefs` the references taken on call ids, `answers` what `user_cb` was given.
A dispatched call is a record of `queue`; `RunMethod`, `RunKeeper`,
`RunNotification`, `SingleResult` and `BatchedResult` are `deferred_callcb`
with the function it runs. `ReturnLater` is `json_rpc_return` outside the
method. Failing allocations are counted in `faults`; each place where the code
tests for NULL or -1 has the alternative.

In `JsonRpcClient`, `running` has the frames of `json_rpc_process_response`
whose callbacks run, the innermost last: other actions are enabled in between,
which is what a callback may do, `json_rpc_process_response` with the next
response included. In a connection the event loop reads, so no callback nests
there. `completed` and `accepted` are history.

In `JsonParser`, `place` is `jp->cs` within the machine of the innermost
container, `open` the context stack with `cur_obj` last (the Ragel stack of
return states moves with it, since both are pushed and popped together),
`off`, `pStart` and `drainable` the three positions, and a step reads one
symbol. `running` is `json_parser_process` on the stack; `fbreak` ends it. A
leaving action such as `A_save_int` runs on the symbol after the token, and is
a step of its own before that symbol's step; nothing can come in between.
In `single_json_value` (`json_parser.rl:155`) `A_err` belongs to the NUL alone:
a symbol that is illegal in a value at the top of `json_parser_parse` stops the
machine without an error flag (`RunsErr`), which nobody sees, since that parser
is local and has no error callback.

In `JsonRpcHttp`, a submission of `JsonRpcServer` is one `evhttp_request`.
`unparsed` has the requests in whose body `json_parser_parse` found nothing:
they are replied to at once and never reach `json_rpc_process_request`, so their
`doc` stays NULL. Every other action is one of `JsonRpcServer` with the reply
that `jrpc_result` makes of the answer in the same step.

In `JsonRpcConnection`, `toServer` and `toClient` are the two directions of the
stream, documents in order. `transport` is chosen at the start. Over TCP a
parser reads all of the stream: after malformed text it stays silent, and its
timer sends `JSON_RPC_PARSE_ERROR` once (`parser`). Over web sockets every
message is parsed on its own and answered on its own. The server of the
connection is `JsonRpcServer` itself, the submissions of which are what
`json_rpc_tt_send` or another client (`RawDocuments`) puts on the stream. An
application sends valid calls, the ids of a batch differ, and it does not use
an id while a call under it is in flight (`Requests`, `ApplicationAssumption`,
`IdIsFree`). After a write that failed (`TtSendFails`) it may send under the
same id again, and then finds the callback of the first try still registered.
Other clients may send anything that is not answered under
ids of the application: nothing to call, or an invalid call
(`OtherClientsAssumption`).

In `JsonHeap`, a value has a type and a count, an entry the list it is in, its
value and its key; `owned` are the references of the client. `json_ref_put`
deletes recursively; the model deletes at once what the recursion reaches, the
least set of values whose count is used up by the put and by the deletion of the
others (`Deleted`). `json_object_add` deletes the old entry before memory can
fail. A response may be asked for without an id, as `json_rpc_return` does when
`req->method_id` is NULL: then both attempts fail and there is no response. In
`JsonRpcResponses`, `build` is the frame of the function at work: its object,
the value it made for the next member, and what it was given; `lost` counts
references that no variable and no value leads to any more.

In `StringFunctions`, a text gives for every offset what the code reads there;
`starts` are the offsets where its symbols and escapes begin. The other
offsets matter because of line 95: after a code of two bytes it is the pointer
`dest_off` that is incremented, and the increment of line 106 goes to the `int`
behind. Compiled with `gcc -O0` that is `off`, and the next byte of the text is
skipped, perhaps into the middle of a symbol; from `-O1` on it is neither
variable. `Code` has both. `clean` says whether memory held zeros before:
`strcat` and `sscanf` read bytes that nobody has set.

Names ending in what a variant does (`DispatchCallAnswersAll`, `WithoutHead`,
`JsonRefPutShallow`, ...) are plausible bugs of the definition after them; they
show that a property notices them and are used nowhere.

## Runs

`CHECK_DEADLOCK FALSE` everywhere: the documents, calls, texts and responses of
an instance are finite, and when all are dealt with the system rests. The
longest runs, `server_calls`, `http_posts` and `responses_heap`, take two to
three minutes on two cores; the others take little more than a minute or less.
Of the inductive invariants of the proofs, `RequestInvariant`,
`AnswerInvariant` and `HttpInvariant` are invariants of their runs;
`ConnectionInvariant`, `OwnIdsInvariant`, `KeptIdsInvariant` and `DecodedInv`
were model-checked on the instances of `connection_calls`, `http_posts` and
`string_texts` before they were proved.

| Run | Question |
|---|---|
| `server_calls` | two documents of eight kinds at once, methods that return at once or later, timers in any order, one failed allocation: type invariant, request lifetime, one complete answer, right ids, ids released once, `AnswerInvariant`, refinement of `RpcService` |
| `client_calls` | any responses in any order and up to two failed allocations: one callback per call, by id, none lost, refinement of `CallTable` |
| `connection_calls` | end to end over either transport, with other clients and malformed text on the stream, failed writes that are retried, and a connection that breaks: answers are responses, results reach their own callbacks, every call completes unless malformed text is ahead of it |
| `http_posts` | replies and statuses, one failed allocation; every post is replied to. Its documents have an invalid call ahead of and behind a call that may be kept, and two calls that both may be: a kept request has an id, unless the invalid call came first |
| `parser_texts` | all ways to cut texts, drains between tokens, damaged texts, one failed allocation, and `json_parser_parse`: documents whole and in order, refinement of `JsonText`, errors; the space measured for what was read |
| `responses_heap` | a response built from values that the application nests and shares, with up to two failed allocations: exact counts, nothing freed early, bounded loss, complete responses, the contract of `json.h` |
| `string_texts` | all texts of up to three units in clean and unclean memory: the block is kept, texts are decoded exactly |
| `server_async_batch`, `server_del_method`, `connection_empty`, `parser_token_drain`, `string_two_byte` | the findings below |

Bounds and why they are enough. Two submissions (`Subs`) are enough for one to
interfere with another through `queue`, `methods` and the lifetime of `jr`; they
are symmetric in `server_calls`, which has no liveness property. Batches of
three calls hold one of each kind (call, invalid, notification) and two that
reorder. `MaxMethods` is one, and two in `server_del_method`: an entry shadowed
by another of its name is never found, and `Offers` says which handlers a name
may get, so that one name returns at once and another at once or later. Three
client calls with two ids give replacement, reuse after completion and a batch
beside a single call; three responses let one be repeated around another. Two
sends over a connection are enough for one to overtake, break or spoil the
other. Parser texts have every kind of value, nested and empty containers, an
empty name, a number at the end of a container and a delimiter inside a string;
each is cut at every position, and the damaged ones have an illegal byte at
every position.

`responses_heap` has eight values and seven entries, what one response with its
error object and everything it may lose takes; before it the application may
make `MaxLive` = 2 values, hold one reference on each (`MaxOwned`), nest them
under one name (`ClientKeys`), and fail once (`ClientFaults`). Two failures in
all reach the second attempt of `json_rpc_return` and its failure.
`string_texts` has a symbol of each size, an escape, the escaped backslash
(the one escape that is read as another when it is entered in the middle) and
codes at both ends of each area of UTF-8; three of them put something before,
behind and between. Memory that is not clean holds one junk byte everywhere but
at one place, or everywhere, so that `strcat` may find any end.

Left out of instances on purpose: keepers in batches where `AnswerComplete`,
`ResponseIdsMatch` and `AnswerInvariant` are checked (in `server_calls` a
document with a call that may be kept has no other request, and no invalid call
ahead of it), because that is the first finding: two kept calls are answered
under one id, and after an invalid call the response of a kept one is missing.
`http_posts` has those documents, and `KeptRequestsHaveId` states the condition
(`StartsValid`) under which the id, and so the response, is there; empty batches
in `connection_calls`, because that is the third; drains inside tokens in
`parser_texts`, the fourth. `DecodedExactly` excepts codes of two bytes, the
fifth.

Fairness. `deferred_callcb` and `handle_errorcb` are timers of one microsecond
and libevent runs every timer that has expired, so each deferred call is weakly
fair. A method that keeps its request is expected to return in the end:
`ReturnLater` is weakly fair. In `JsonRpcConnection` both peers read what has
arrived and callbacks return; each of the three conditions names the variables
that all of its steps change, which is the same as naming them all and cheaper
to check. Nothing else is fair: no one has to send, to
register methods or to drain. `EveryCallCompletes` is about calls that are
valid ones. It excepts a connection that breaks, and on TCP malformed text that
is ahead of the call on the stream or was read before, since the parser is
silent from then on; malformed text behind a call excuses nothing. Liveness of
answers assumes memory (`EveryPostReplied` that nothing has failed), since a
lost deferred call is never made up. `NoCallbackLost`, `DocumentsInOrder` and
`NothingLeftUnparsed` make the same exception where a failed allocation may
lose something.

## Findings

1. `server_async_batch`: two calls of one batch whose methods return later are
   both answered under the id of the call that ran last (`json_rpc.c:341`). The
   same line loses the response of a kept call when an invalid call is ahead of
   it in the batch: that one runs with no id and leaves NULL in
   `req->method_id` (`json_rpc.c:175-176`). `KeptRequestsHaveId` states this as
   its exception.
2. `server_del_method`: `json_rpc_del_method` frees the server
   (`json_rpc.c:167`).
3. `connection_empty`: over TCP and web sockets the empty batch is taken for a
   response and never answered (`json_rpc_tt.c:30`, `json_rpc.c:434`); over
   HTTP it is answered.
4. `parser_token_drain`: `json_parser_drain` inside a token leaves `p_start`
   behind (`json_parser.rl:362`). No transport drains, so only applications
   that use the parser themselves are affected.
5. `string_two_byte`: what follows an escape for a symbol of two bytes is
   written over it, or loses a byte (`string_functions.c:95`).

Two more facts are stated by properties that hold. `PrintedAsMeasured`: the
length `json_to_string` allocates by is exact, but two short for each empty
array or object (`json.c:605-634`). `StaysInBlock`: `esc_seq` writes escapes
with `strcat` into a block without a terminator (`string_functions.c:63`), so
their place depends on what memory held, and nothing else leaves the block.

## Proofs

`JsonRpcServerProofs` proves, for all documents, methods, bounds and numbers
of failures that satisfy `ServerAssumption` and `DocumentsAssumption` (a
document has at most `MaxBatch` calls, NULL is no handler and no document):

* `TypeCorrect`: `Spec => []TypeOK`;
* `CountsCorrect`: `Spec => []RequestInvariant`;
* `ReferencesSafe`: `Spec => []ReferencedRequestsLive`;
* `AnsweredOnce`: `Spec => []AnsweredOnceAtTheEnd`;
* `ServiceImplemented`: `Spec => ServiceSpec`.

The argument. That a request is freed only when nothing points to it is not
inductive: `batched_result_cb` decides by counters. `RequestInvariant` relates
the two: a call has at most one reference to its request (one deferred call or
one keeper), and the results counted plus the calls that still have a
reference are at most `waiting_result_count`. A result moves one call from the
references to the count, so the sum never grows; when the count is full no
reference is left, which gives `ReferencedRequestsLive` and that the answer is
the last thing to happen. It is at most, not exactly, because a failed
allocation loses references. Dispatch establishes the bound, since only calls
in `Expected(d)` get a reference; the finiteness of the sets counted comes from
`Indices` being a finite interval. Refinement uses the invariant to show that a
result for an open document finds `remaining` at least 1, that only the last
one answers, and that every other step is a stutter. TLC checks
`RequestInvariant` as an invariant in `server_calls`.

What the answers say is proved under one more hypothesis:

* `AnswersCorrect`: `KeeperAlone /\ Spec => []AnswerInvariant`;
* `IdsMatch`, `AnswersComplete`, `IdsReleased`: the same for
  `ResponseIdsMatch`, `AnswerComplete` and `IdsReleasedOnce`.

`KeeperAlone` says that a call whose method may keep the request is the only
request of its document and that no invalid call precedes it. It is the line
between what the code does right and the first finding: `server_async_batch`
shows two kept calls under one id, and with an invalid call first the field
`req->method_id` is NULL when the kept call is dispatched. Methods that answer
before they return are not restricted, and they are what most servers have.
`AnswerInvariant` follows an answer on its way: a deferred method carries the id
of its own call, a deferred result is a response to its call or missing because
memory ran out, `result_batch` has responses to different calls of which none
is awaited, while memory lasts no other is missing, and the ids of all requests
are held exactly as long as the request lives. `NullAssumption` says that C's
NULL is neither a response nor a list of responses.

`AnswersOwnIds` needs no hypothesis about keepers: whatever is answered, in a
response, a batch or a deferred result, carries null or the id of a request of
the same document (`OwnIdsInvariant`). Answers never get into another document,
even where the first finding mixes up the calls of one.

`KeptHaveId`, `Spec => []KeptRequestsHaveId`, needs none either: in a document
whose first call that expects an answer is a valid one, any number of methods
may keep their requests, invalid calls may follow, timers may run in any order,
and still each of those methods finds an id of its document and gets its
response built while memory lasts. `KeptIdsInvariant` is why: dispatch leaves
the id of the last request in `req->method_id`, every call deferred after the
first valid one is deferred with an id, and so whichever timer writes the field
last writes one.

`JsonRpcHttpProofs` proves `HttpServes`, `HttpSpec => Spec`: the transport adds
replies and takes no freedom away from the server half that the server's
theorems rest on, so they all hold behind HTTP. From it follow `RepliesFit` and
`StatusesTell`, by `HttpInvariant`: the number of replies to a request is the
number of its answers, a live request expects a result (so a document of
notifications is answered only without memory), and the status agrees with the
answer. They do not need `KeeperAlone`.

`JsonRpcClientProofs` proves, for any messages, responses and failures:

* `ClientTypes`: `Spec => []TypeOK`;
* `IdsUnique`, `CallbacksRunOnce`, `CallbacksKept`: `UniqueIds`,
  `CompletedOnceByOwnId`, `NoCallbackLost`;
* `TableImplemented`: `Spec => TableSpec`.

The assumptions are that batches are lists (`ListsAssumption`) and that the ids
of one batch differ (`DistinctIdsAssumption`): `json_equals` on arrays asks that
each element of the first occurs in the second, which is an equivalence only
without repetitions: `[1, 1]` equals `[1, 2]` but not the other way round.
Equality of ids is then an equivalence, and the invariant (`ClientInvariant`)
says: entries have different ids and are of different calls; the call of an
entry was made and is not completed, and while memory lasts the id is its own;
no call is completed before it is made, or twice; and while memory lasts a
registered call is in the list, completed, or followed by one of an equal id.
For the refinement the list is read as the function from ids to sends; because
ids are unique, the first match is the only one, so taking it out leaves the
function undefined at exactly the ids equal to it.

`JsonRpcConnectionProofs` proves, end to end over either transport, for any
documents, other clients, malformed text, orders and breaks:

* `ConnectionTypes`, and `ConnectionServes`: the connection is a server
  (`ConnectionSpec => Spec`), so that every theorem about the server holds of it;
* `StreamsSound` and `CallbacksRegistered`;
* `AnswersRecognized`: `ConnectionSpec => []AnswersAreResponses`;
* `CallsComplete` and `CallbacksOwnResults`, under `KeeperAlone`: while memory
  lasts a call in flight has its callback and a callback is given the answer to
  its own call, and `CallbackGetsOwnResults`.

The invariant (`ConnectionInvariant`, `ConnectionCorrect`) has four parts. A
document reaches the server once (`ToServerSound`), its answer is put on the
client's stream once (`ToClientSound`). Callbacks are registered under the ids
of the messages the application sent (equal ones: a batch sent again may be
registered under the ids of the first try, in another order), and these are
different (`CallbacksSound`). A call on either stream or open at the server
still has its callback, and what a callback was given is the answer to its own
call (`CompletionSound`). Why a response finds its own callback:
`json_rpc_process_response` takes the first entry with an equal id; the call
answered has one, since it is in flight; no other entry has an equal id; and
null, under which invalid calls and malformed text are answered, is no id of an
application's call, so that the answers to other clients find no callback.

`JsonRpcResponsesProofs` first proves `HeapCorrect`: for any finite sets of
values and entries, any names and any number of failures, a client that keeps
the contract of `json.h` (`HeapNext`) finds every count exact, nothing freed
early or kept without a reference, and names unique. The heart of it is
`json_ref_put`. The values it deletes are a least fixpoint; the proof shows that
the fixpoint is itself closed, that a deleted value is owned by nobody and only
in lists that are deleted too, and that a value which stays loses exactly the
entries that go. A client may make cycles, which no count sees:
`FreedWithLastReference` therefore asks of a live value a reference, not a path
from the client.

Then it proves for the functions that build responses `LibraryKeepsContract`
(each step is a step of `JsonHeap` or a stutter), `ResponsesKeepCounts`,
`ResponsesKeepNames` and `ResponsesTypes`, which follow from it and
`HeapCorrect`, and `ResponsesHoldReferences`. The inductive invariant
(`ResponsesInvariant`) says that the references a frame stands for, with those
lost, are among those owned (`LocalReferences`): this is why a value may be
given away or put on every error path, when two local variables lead to the same
value too.

Two more invariants rest on it. `LossInvariant` counts the lost references, one
by one (`LostReferences`), against the failed allocations: `LossesBounded`, at
most two references for each. A result that was not in the object yet is lost
with all its members, if it is a container: it is one reference that nobody
puts. `MembersInvariant` follows which
members the object under construction has at each step, through the second
object of an error: `ResponsesAreComplete`, an action property.

`JsonParserProofs` proves, for all streams, cuts, drains and failures that
satisfy `StreamsAssumption` (a stream is a list of symbols) and
`DigitsAssumption`:

* `ParserTypes`: `Spec => []TypeOK`, which says that positions are in order and
  in the buffer and that the context stack is never popped empty;
* `TokensKept`: `Spec => []TokenStaysInBuffer`;
* `TokensWhole`: if the caller does not drain inside tokens, `p_start` is in the
  buffer, before the symbol read next, whenever a token is being read;
* `ReportsComplete`: `Spec => []LastReportComplete`;
* `ParseErrorsFinal`: `Spec => ParseErrorIsFinal`;
* `TextRead`: if the caller does not drain inside tokens, `Spec => TextIsRead`,
  the refinement of `JsonText`.

`ParserInvariant` has three parts: the positions with the place in the machine
(where a token is being read its start is not drainable), the stack of containers
(an `end` of an array or object is only read by its machine, which is not the
outermost), and the error flags with the timers, the last report and the error
state, which reads nothing.

`JsonText` has no chunks, no buffer and no drains: a number, a string or a name
is what stands in the text from its first symbol to its last, containers are
opened, filled and closed, documents delivered, and what is not in the grammar is
an error. Its position `at` is before the token being read, so the symbols of a
token are stutters and the action that saves it is the step that reads all of
it. `TextInvariant` adds to `ParserInvariant` what that step rests on: only
digits, or no closing quote, were read since the token began (`TokenRead`); the
stack holds arrays and objects, with an array as the root (`Containers`); and
where a value of an object is expected there is a name (`NamesSound`), so that no
value is refused, until an allocation has failed. From then on `JsonText`
promises only that the error stays. `StreamsAssumption` also keeps out of the
texts the symbol that stands for C's NULL, and `DigitsAssumption` separates digits
from the punctuation. With drains inside tokens the theorem is false: that is the
fourth finding.

`StringFunctionsProofs` proves `EscapesStayInBlock` for every text and whatever
memory held. The invariant: `off` is at the start of a unit, or, after a skip
in a code of two bytes, at least seven ahead of `dest_off`, so there is room for
what is read next; and in clean memory everything behind `dest_off` is zero but
for two bytes of such a code, when `off` is at least six ahead, so `strcat`
appends where there is room. The assumption on texts is what `json.rl` lets
pass between two quotes.

It also proves `TextsDecoded`, `Spec => []DecodedExactly`: a text without
escapes in any memory, and any text without NUL and without codes of two bytes
in clean memory, is decoded to exactly what it stands for. `DecodedInv` says
that what was written so far, followed by what the text stands for from `off`
on, is what all of it stands for, and that no byte written is a NUL. What a
text stands for is defined by recursion from its end; that this recursive
function exists is proved by a descent on the naturals (`DecodedExists`). That
the shifts and masks of `Code` are the areas of UTF-8 is `CodeIsUtf8`.

Only model-checked, and why:

* liveness (`EveryPostReplied`, `EveryCallCompletes`, `ErrorsReported`) and
  ENABLED are out of the reach of the prover;
* `DocumentsInOrder`, `NothingLeftUnparsed` and `PrintedAsMeasured` compare
  with documents of any depth that a recursive operator prints: induction over
  nested data, and an operator the prover does not reach. `TextRead` proves all
  that chunks, buffer and drains have to do with the first two; what is left to
  the run is that the text printed for a document, read as a whole, is that
  document.

## Not modelled

Floats and signs; escapes and multi-byte symbols in the parser's texts (the
parser hands them to `interpretate_esc_seq`, which `StringFunctions` models);
strings that need escapes when they are printed, which `string_print` does not
write; the depth limit of the parser; `json_parser_free` with an error callback
scheduled; the references of documents that arrive; what `sscanf` writes behind
the `short` it is given, and what lies behind a text when `esc_seq` is led past
its end; creation and release of transports; lists and logging; `main.c`, a
manual copy of the web socket tests. libevent, evhttp and libws are external
and appear as the order they leave open.

## Plan

1. Done: server, client, connection with both stream transports, HTTP, parser,
   values, responses on the heap, strings; theorems about all of them.
2. Transports: `json_rpc_tt_free` during requests and `json_parser_free` with a
   scheduled callback.
