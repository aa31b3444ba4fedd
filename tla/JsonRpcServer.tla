---------------------------- MODULE JsonRpcServer ----------------------------
(* The server half of json_rpc.c: the method table, the requests that         *)
(* json_rpc_process_request creates, the calls it defers to the event loop    *)
(* (add_method_to_queue, event_once) and the results that come back through   *)
(* json_rpc_return.  The library runs in one thread: an action is one call of *)
(* an API function by the application, or one deferred call that the event    *)
(* loop runs, with everything it calls.                                       *)
EXTENDS JsonRpcMessages, Integers

CONSTANTS
    Subs,         \* submissions: each is one call of json_rpc_process_request
    Documents,    \* the documents that may be submitted
    MethodNames,  \* values of the "method" member that may be registered
    Handlers,     \* the application's methods
    Offers,       \* the pairs of a name and a method it registers
    Keepers,      \* those that keep req and call json_rpc_return later
    MaxBatch,     \* bound: calls in one document
    MaxMethods,   \* bound: entries of one name in the method table
    MaxFaults,    \* bound: failed allocations
    NULL

ASSUME ServerAssumption ==
    /\ MaxBatch \in Nat
    /\ MaxMethods \in Nat
    /\ MaxFaults \in Nat
    /\ Keepers \subseteq Handlers
    /\ NULL \notin Handlers

(* A document has at most MaxBatch calls.                                     *)
ASSUME DocumentsAssumption ==
    \A d \in Documents :
        /\ d # NULL
        /\ Len(Calls(d)) \in 0 .. MaxBatch
        /\ DOMAIN Calls(d) = 1 .. Len(Calls(d))

VARIABLES
    jr,        \* lifetime of struct json_rpc: "live" or "freed"
    methods,   \* jr->methods: the handlers of each name, the newest first
    doc,       \* the document of each submission, NULL before it comes
    req,       \* struct json_rpc_request of each submission
    queue,     \* deferred calls: timers of one delay, run in any order
    held,      \* <<s, i>>: a Keeper still owes json_rpc_return for call i of s
    idrefs,    \* references the library holds on the id of call i of s
    answers,   \* what user_cb was given, in order, per submission
    faults     \* failed allocations so far

vars == <<jr, methods, doc, req, queue, held, idrefs, answers, faults>>
-----------------------------------------------------------------------------
Indices == 1 .. MaxBatch

(* A response carries the outcome of `call' under the id of call `id'; 0 is   *)
(* the JSON null of json_null_new.                                            *)
Response == [kind : {"result", "internal_error", "method_not_found", "invalid_request"},
             call : 0 .. MaxBatch, id : 0 .. MaxBatch]

Answer(k, i, m) == [kind |-> k, call |-> i, id |-> m]

(* C's NULL is neither a response nor a list of them.                         *)
ASSUME NullAssumption == NULL \notin Response \cup Seq(Response)

(* struct json_rpc_request.  method_id is the index of the call whose id the  *)
(* pointer leads to, 0 for NULL.                                              *)
Request == [state : {"none", "live", "freed"}, return_cb : {"single", "batched"},
            result_batch : Seq(Response), result_count : Nat,
            waiting_result_count : Nat, method_id : 0 .. MaxBatch]

NewRequest(cb, waiting, m) ==
    [state |-> "live", return_cb |-> cb, result_batch |-> << >>, result_count |-> 0,
     waiting_result_count |-> waiting, method_id |-> m]

NoRequest == [NewRequest("single", 0, 0) EXCEPT !.state = "none"]

(* struct deferred_call_data: a method or return_cb to run, req NULL (FALSE)  *)
(* for a notification, obj the response that return_cb gets, method_id the    *)
(* value of req->method_id when the call was deferred.                        *)
Deferred == [run : {"method", "return"}, sub : Subs, call : Indices, req : BOOLEAN,
             handler : Handlers \cup {NULL}, obj : Response \cup {NULL},
             method_id : 0 .. MaxBatch]

MethodCall(s, i, r, h, m) ==
    [run |-> "method", sub |-> s, call |-> i, req |-> r, handler |-> h,
     obj |-> NULL, method_id |-> m]

ReturnCall(s, i, o, m) ==
    [run |-> "return", sub |-> s, call |-> i, req |-> TRUE, handler |-> NULL,
     obj |-> o, method_id |-> m]

Init ==
    /\ jr = "live"
    /\ methods = [n \in MethodNames |-> << >>]
    /\ doc = [s \in Subs |-> NULL]
    /\ req = [s \in Subs |-> NoRequest]
    /\ queue = {}
    /\ held = {}
    /\ idrefs = [s \in Subs |-> [i \in Indices |-> 0]]
    /\ answers = [s \in Subs |-> << >>]
    /\ faults = 0
-----------------------------------------------------------------------------
(* The method table.                                                          *)
AddMethod(n, h) ==
    /\ jr = "live"
    /\ <<n, h>> \in Offers
    /\ Len(methods[n]) < MaxMethods
    /\ methods' = [methods EXCEPT ![n] = <<h>> \o @]
    /\ UNCHANGED <<jr, doc, req, queue, held, idrefs, answers, faults>>

JsonRpcFree ==
    /\ jr = "live"
    /\ jr' = "freed"
    /\ methods' = [n \in MethodNames |-> << >>]
    /\ UNCHANGED <<doc, req, queue, held, idrefs, answers, faults>>

(* json_rpc_del_method ends in free(jr), like json_rpc_free.                  *)
DelMethod(n) ==
    /\ jr = "live"
    /\ jr' = "freed"
    /\ methods' = [methods EXCEPT ![n] = << >>]
    /\ UNCHANGED <<doc, req, queue, held, idrefs, answers, faults>>

(* lookup_entry: the handler of the newest entry with the name, or NULL.      *)
LookupEntry(name) ==
    IF name \in MethodNames /\ methods[name] # << >> THEN Head(methods[name]) ELSE NULL
-----------------------------------------------------------------------------
(* At most MaxFaults allocations fail.                                        *)
Fail(n) ==
    /\ faults + n <= MaxFaults
    /\ faults' = faults + n

(* A user_cb that keeps the response.                                         *)
UserCbLeaks(s, res) ==
    /\ answers' = [answers EXCEPT ![s] = Append(@, res)]
    /\ UNCHANGED idrefs

(* user_cb, which for the transports is json_rpc_tt_result: it puts the       *)
(* response it was given, and with it one reference on each id in it.         *)
UserCb(s, res) ==
    LET items == IF res = NULL THEN << >> ELSE res
    IN  /\ answers' = [answers EXCEPT ![s] = Append(@, res)]
        /\ idrefs' = [idrefs EXCEPT ![s] = [i \in Indices |->
                @[i] - Cardinality({k \in DOMAIN items : items[k].id = i})]]

(* As MethodIdAt, with no id for a call that is not a request.                *)
MethodIdOfCall(d, i) ==
    IF i > 0 /\ EvalCallType(Calls(d)[i]) = "request" THEN i ELSE 0

(* req->method_id after the first i calls of d were dispatched: the id of the *)
(* last request among them.                                                   *)
MethodIdAt(d, i) ==
    LET Last(j) == /\ EvalCallType(Calls(d)[j]) = "request"
                   /\ \A k \in j + 1 .. i : EvalCallType(Calls(d)[k]) # "request"
    IN  IF \E j \in 1 .. i : Last(j) THEN CHOOSE j \in 1 .. i : Last(j) ELSE 0

(* As DispatchCall, with an error for the notification of an unknown method.  *)
DispatchCallAnswersAll(s, d, i, E) ==
    LET handler == LookupEntry(Member(Calls(d)[i], "method"))
        type == EvalCallType(Calls(d)[i])
    IN  IF type # "invalid" /\ handler # NULL
        THEN {MethodCall(s, i, type = "request", handler, IF type = "request" THEN i ELSE 0)}
        ELSE {ReturnCall(s, i, Answer("method_not_found", i, i), MethodIdAt(d, i))}

(* dispatch_call: what call i of d defers.  No response could be allocated    *)
(* for the calls in E.                                                        *)
DispatchCall(s, d, i, E) ==
    LET c == Calls(d)[i]
        type == EvalCallType(c)
        handler == LookupEntry(Member(c, "method"))
        Error(k, m) == IF i \in E THEN NULL ELSE Answer(k, i, m)
    IN  CASE type = "invalid" ->
                {ReturnCall(s, i, Error("invalid_request", 0), MethodIdAt(d, i))}
          [] type = "notification" /\ handler # NULL ->
                {MethodCall(s, i, FALSE, handler, 0)}
          [] type = "request" /\ handler # NULL ->
                {MethodCall(s, i, TRUE, handler, i)}
          [] type = "request" /\ handler = NULL ->
                {ReturnCall(s, i, Error("method_not_found", i), i)}
          [] OTHER -> {}

(* All calls of d are dispatched; the deferral of those in L fails.           *)
DispatchCalls(s, d) ==
    \E L, E \in SUBSET DOMAIN Calls(d) :
        /\ Fail(Cardinality(L) + Cardinality(E))
        /\ queue' = queue \cup UNION {DispatchCall(s, d, i, E) : i \in DOMAIN Calls(d) \ L}
        /\ idrefs' = [idrefs EXCEPT ![s] = [i \in Indices |->
              IF i \in DOMAIN Calls(d) /\ EvalCallType(Calls(d)[i]) = "request" THEN 1 ELSE 0]]

(* As Processed, with a result_batch that does not wait for errors, that      *)
(* waits for notifications too, and a count that starts one too low.          *)
ProcessedRequestsOnly(cb, d, waiting) ==
    LET calls == {i \in DOMAIN Calls(d) : EvalCallType(Calls(d)[i]) = "request"}
    IN  NewRequest(cb, Cardinality(calls), MethodIdAt(d, Len(Calls(d))))

ProcessedAll(cb, d, waiting) == NewRequest(cb, Len(Calls(d)), MethodIdAt(d, Len(Calls(d))))

ProcessedTooFew(cb, d, waiting) == NewRequest(cb, waiting - 1, MethodIdAt(d, Len(Calls(d))))

(* destroy_request at the end of processing when nothing is left to wait for. *)
Processed(cb, d, waiting) ==
    LET r == NewRequest(cb, waiting, MethodIdAt(d, Len(Calls(d))))
    IN  IF Expected(d) = {} THEN [r EXCEPT !.state = "freed"] ELSE r
-----------------------------------------------------------------------------
(* json_rpc_process_request, by what it finds.                                *)
Submit(s, d) ==
    /\ jr = "live"
    /\ doc[s] = NULL
    /\ doc' = [doc EXCEPT ![s] = d]
    /\ UNCHANGED <<jr, methods, held>>

ProcessSingleCall(s, d) ==
    /\ d.type = "object"
    /\ Submit(s, d)
    /\ DispatchCalls(s, d)
    /\ req' = [req EXCEPT ![s] = Processed("single", d, 0)]
    /\ UNCHANGED answers

ProcessBatchedCall(s, d) ==
    /\ Elements(d) # << >>
    /\ Submit(s, d)
    /\ DispatchCalls(s, d)
    /\ req' = [req EXCEPT ![s] = Processed("batched", d, Cardinality(Expected(d)))]
    /\ UNCHANGED answers

(* process_error_final: the response itself may fail to be allocated.         *)
ProcessErrorFinal(s, k, n) ==
    /\ \/ UserCb(s, <<Answer(k, 0, 0)>>) /\ Fail(n)
       \/ UserCb(s, NULL) /\ Fail(n + 1)
    /\ UNCHANGED <<req, queue>>

ProcessInvalid(s, d) ==
    /\ Calls(d) = << >>
    /\ Submit(s, d)
    /\ ProcessErrorFinal(s, "invalid_request", 0)

ProcessNoMemory(s, d) ==
    /\ Calls(d) # << >>
    /\ Submit(s, d)
    /\ ProcessErrorFinal(s, "internal_error", 1)
-----------------------------------------------------------------------------
(* As JsonRpcReturn, deferring the error and then the missing response too.   *)
JsonRpcReturnTwice(s, i, m, q) ==
    /\ queue' = q \cup {ReturnCall(s, i, Answer("internal_error", i, m), m),
                         ReturnCall(s, i, NULL, m)}
    /\ UNCHANGED faults

(* json_rpc_return for call i of s, while req->method_id is m: a result, an   *)
(* internal error when the method's result is NULL, or nothing when there is  *)
(* no id or no memory; then return_cb is deferred, unless that fails.         *)
JsonRpcReturn(s, i, m, q) ==
    \E o \in {Answer("result", i, m), Answer("internal_error", i, m), NULL}, lost \in BOOLEAN :
        /\ (o = NULL) \/ (m # 0)
        /\ Fail((IF o = NULL /\ m # 0 THEN 1 ELSE 0) + (IF lost THEN 1 ELSE 0))
        /\ queue' = IF lost THEN q ELSE q \cup {ReturnCall(s, i, o, m)}

(* deferred_callcb with a notification: the method gets no request, and       *)
(* json_rpc_return(NULL, ..) returns at once.                                 *)
RunNotification(e) ==
    /\ e \in queue
    /\ e.run = "method" /\ ~e.req
    /\ queue' = queue \ {e}
    /\ UNCHANGED <<jr, methods, doc, req, held, idrefs, answers, faults>>

(* deferred_callcb with a method that keeps the request.                      *)
RunKeeper(e) ==
    /\ e \in queue
    /\ e.run = "method" /\ e.req /\ e.handler \in Keepers
    /\ req' = [req EXCEPT ![e.sub].method_id = e.method_id]
    /\ queue' = queue \ {e}
    /\ held' = held \cup {<<e.sub, e.call>>}
    /\ UNCHANGED <<jr, methods, doc, idrefs, answers, faults>>

(* As RunMethod, without putting the id of the call back into the request.    *)
RunMethodStaleId(e) ==
    /\ e \in queue
    /\ e.run = "method" /\ e.req /\ e.handler \notin Keepers
    /\ JsonRpcReturn(e.sub, e.call, req[e.sub].method_id, queue \ {e})
    /\ UNCHANGED <<jr, methods, doc, req, held, idrefs, answers>>

(* deferred_callcb with a method that returns its result before it returns.   *)
RunMethod(e) ==
    /\ e \in queue
    /\ e.run = "method" /\ e.req /\ e.handler \notin Keepers
    /\ req' = [req EXCEPT ![e.sub].method_id = e.method_id]
    /\ JsonRpcReturn(e.sub, e.call, e.method_id, queue \ {e})
    /\ UNCHANGED <<jr, methods, doc, held, idrefs, answers>>

(* A Keeper calls json_rpc_return at last: it uses the req->method_id of now. *)
ReturnLater(s, i) ==
    /\ <<s, i>> \in held
    /\ held' = held \ {<<s, i>>}
    /\ JsonRpcReturn(s, i, req[s].method_id, queue)
    /\ UNCHANGED <<jr, methods, doc, req, idrefs, answers>>

(* As SingleResult, without destroy_request.                                  *)
SingleResultKeeps(e) ==
    /\ e \in queue
    /\ e.run = "return" /\ req[e.sub].return_cb = "single"
    /\ queue' = queue \ {e}
    /\ UserCb(e.sub, IF e.obj = NULL THEN NULL ELSE <<e.obj>>)
    /\ req' = [req EXCEPT ![e.sub].method_id = e.method_id]
    /\ UNCHANGED <<jr, methods, doc, held, faults>>

(* deferred_callcb with single_result_cb.                                     *)
SingleResult(e) ==
    /\ e \in queue
    /\ e.run = "return" /\ req[e.sub].return_cb = "single"
    /\ queue' = queue \ {e}
    /\ UserCb(e.sub, IF e.obj = NULL THEN NULL ELSE <<e.obj>>)
    /\ req' = [req EXCEPT ![e.sub].method_id = e.method_id, ![e.sub].state = "freed"]
    /\ UNCHANGED <<jr, methods, doc, held, faults>>

(* deferred_callcb with batched_result_cb: NULL, or a response for which no   *)
(* list entry can be allocated, is counted all the same.                      *)
BatchedResult(e) ==
    LET r == req[e.sub]
        last == r.result_count + 1 = r.waiting_result_count
    IN  /\ e \in queue
        /\ e.run = "return" /\ r.return_cb = "batched"
        /\ queue' = queue \ {e}
        /\ \E batch \in {r.result_batch} \cup
                        (IF e.obj = NULL THEN {} ELSE {Append(r.result_batch, e.obj)}) :
              /\ Fail(IF e.obj # NULL /\ batch = r.result_batch THEN 1 ELSE 0)
              /\ req' = [req EXCEPT ![e.sub] =
                    [r EXCEPT !.method_id = e.method_id, !.result_batch = batch,
                              !.result_count = @ + 1,
                              !.state = IF last THEN "freed" ELSE @]]
              /\ IF last THEN UserCb(e.sub, batch) ELSE UNCHANGED <<answers, idrefs>>
        /\ UNCHANGED <<jr, methods, doc, held>>
-----------------------------------------------------------------------------
RunDeferred(e) ==
    \/ RunNotification(e) \/ RunKeeper(e) \/ RunMethod(e)
    \/ SingleResult(e) \/ BatchedResult(e)

Process(s, d) ==
    \/ ProcessSingleCall(s, d) \/ ProcessBatchedCall(s, d)
    \/ ProcessInvalid(s, d) \/ ProcessNoMemory(s, d)

Next ==
    \/ \E n \in MethodNames : DelMethod(n) \/ \E h \in Handlers : AddMethod(n, h)
    \/ JsonRpcFree
    \/ \E s \in Subs, d \in Documents : Process(s, d)
    \/ \E e \in queue : RunDeferred(e)
    \/ \E s \in Subs, i \in Indices : ReturnLater(s, i)

Spec == Init /\ [][Next]_vars
-----------------------------------------------------------------------------
(* Every variable has its type: in particular result_count and the answers    *)
(* stay numbers and sequences of responses whatever fails in json_rpc.c.      *)
TypeOK ==
    /\ jr \in {"live", "freed"}
    /\ methods \in [MethodNames -> Seq(Handlers)]
    /\ doc \in [Subs -> Documents \cup {NULL}]
    /\ req \in [Subs -> Request]
    /\ queue \in SUBSET Deferred
    /\ held \in SUBSET (Subs \X Indices)
    /\ idrefs \in [Subs -> [Indices -> Int]]
    /\ answers \in [Subs -> Seq(Seq(Response) \cup {NULL})]
    /\ faults \in 0 .. MaxFaults

(* The calls of s that still point to its request: deferred, or kept by a     *)
(* method.                                                                    *)
Waiting(s) == {e \in queue : e.sub = s /\ e.req}
Kept(s) == {h \in held : h[1] = s}

Outstanding(s) == {e.call : e \in Waiting(s)} \cup {h[2] : h \in Kept(s)}

(* No use after free: single_result_cb and batched_result_cb free the request *)
(* only when no deferred call and no method has a pointer to it any more.     *)
ReferencedRequestsLive ==
    \A s \in Subs : Waiting(s) \cup Kept(s) # {} => req[s].state = "live"

(* user_cb is called at most once for a document, and if every call holds on  *)
(* to its request (nothing was lost) not before all of them have returned.    *)
AnsweredOnceAtTheEnd ==
    \A s \in Subs :
        /\ Len(answers[s]) <= 1
        /\ answers[s] # << >> => Waiting(s) = {} /\ Kept(s) = {} /\ req[s].state # "live"

(* While memory lasts an answer to a processed document has one response for  *)
(* every call that is not a notification, and none for a notification.  It    *)
(* takes KeeperAlone: an invalid call ahead of one whose method returns later *)
(* may cost that one its response.                                            *)
AnswerComplete ==
    \A s \in Subs : faults = 0 /\ answers[s] # << >> /\ req[s].state # "none" =>
        LET items == answers[s][1]
        IN  /\ items # NULL
            /\ {items[k].call : k \in DOMAIN items} = Expected(doc[s])
            /\ Len(items) = Cardinality(Expected(doc[s]))

(* A response carries the id of the call whose outcome it is (null when the   *)
(* call was not a valid one), in whatever order the deferred calls ran:       *)
(* deferred_callcb puts the right id back into the shared request.            *)
ResponseIdsMatch ==
    \A s \in Subs : \A k \in DOMAIN answers[s] :
        answers[s][k] # NULL =>
            \A l \in DOMAIN answers[s][k] :
                LET r == answers[s][k][l]
                IN  r.id = IF r.kind = "invalid_request" THEN 0 ELSE r.call

(* The calls of d that are answered under an id of their own.                 *)
RequestCalls(d) == {i \in DOMAIN Calls(d) : EvalCallType(Calls(d)[i]) = "request"}

(* The first call of d that expects an answer is a valid one.                 *)
StartsValid(d) ==
    \A i \in Expected(d) : \E j \in RequestCalls(d) : j <= i

(* An invalid call ahead of all valid ones is deferred with no id, and clears *)
(* req->method_id when it runs: then json_rpc_return builds no response for a *)
(* method that kept the request.  In every other document, whatever order the *)
(* deferred calls run in and however many are kept, such a method finds an id *)
(* of a call of its document, and no response is missing while memory lasts.  *)
KeptRequestsHaveId ==
    /\ \A h \in held :
          StartsValid(doc[h[1]]) => req[h[1]].method_id \in RequestCalls(doc[h[1]])
    /\ \A e \in queue :
          e.run = "return" /\ e.obj = NULL => ~StartsValid(doc[e.sub]) \/ faults > 0

(* A server goes with its methods: json_rpc_free frees every entry of the     *)
(* table first, and json_rpc_del_method of one name leaves the others in      *)
(* service.                                                                   *)
FreedWithItsMethods == jr = "freed" => \A n \in MethodNames : methods[n] = << >>

(* The id of a call is alive as long as the call is deferred or kept, it is   *)
(* never put more often than it was taken, and unless memory ran out every id *)
(* is released with the answer.                                               *)
IdsReleasedOnce ==
    \A s \in Subs :
        /\ \A i \in Indices : idrefs[s][i] >= 0
        /\ \A e \in Waiting(s) : e.run = "method" => idrefs[s][e.call] = 1
        /\ \A h \in Kept(s) : idrefs[s][h[2]] = 1
        /\ faults = 0 /\ Waiting(s) = {} /\ Kept(s) = {} => \A i \in Indices : idrefs[s][i] = 0
-----------------------------------------------------------------------------
(* Each call has at most one pointer to its request: one deferred call, or    *)
(* the method that kept it.                                                   *)
OneReferencePerCall ==
    /\ \A e, f \in queue : e.req /\ f.req /\ e.sub = f.sub /\ e.call = f.call => e = f
    /\ \A e \in queue : e.req => <<e.sub, e.call>> \notin held
    /\ \A e \in queue : e.run = "return" => e.req

(* A request outlives what refers to it: one call refers to a single request, *)
(* and as many as results are missing at most to that of a batch.             *)
RequestCounts(s) ==
    LET r == req[s]
    IN  /\ r.state # "live" => Outstanding(s) = {}
        /\ r.return_cb = "single" => Outstanding(s) \subseteq {1}
        /\ r.state = "live" /\ r.return_cb = "batched" =>
              r.result_count + Cardinality(Outstanding(s)) <= r.waiting_result_count
        /\ doc[s] = NULL => r.state = "none"
        /\ r.state = "live" \/ doc[s] = NULL => answers[s] = << >>
        /\ Len(answers[s]) <= 1

(* What makes ReferencedRequestsLive and AnsweredOnceAtTheEnd inductive: a    *)
(* request is freed with its last reference, because result_count and the     *)
(* references left add up to no more than waiting_result_count.               *)
RequestInvariant == OneReferencePerCall /\ \A s \in Subs : RequestCounts(s)
-----------------------------------------------------------------------------
(* The calls a method may keep.                                               *)
KeptCalls(d) ==
    {i \in RequestCalls(d) : \E h \in Keepers : <<Member(Calls(d)[i], "method"), h>> \in Offers}

(* A call that may be kept is the only request of its document, and no        *)
(* invalid call precedes it.  Otherwise a deferred call of the same batch     *)
(* changes, or clears, req->method_id before the method returns its result.   *)
KeeperAlone ==
    \A d \in Documents : \A i \in KeptCalls(d) : \A j \in Expected(d) \ {i} :
        j > i /\ j \notin RequestCalls(d)

(* r is a response to call i of d.                                            *)
ResponseTo(r, d, i) ==
    /\ r.call = i
    /\ r.kind = "invalid_request" <=> i \notin RequestCalls(d)
    /\ r.id = IF r.kind = "invalid_request" THEN 0 ELSE i

(* What a deferred call with a pointer to its request will answer: a method   *)
(* has its own id, and where a call is kept every deferred call puts back the *)
(* id of that one.                                                            *)
CallSound(e) ==
    LET d == doc[e.sub]
    IN  /\ e.call \in Expected(d)
        /\ \A i \in KeptCalls(d) : e.method_id = i
        /\ e.run = "method" =>
              /\ e.call \in RequestCalls(d) /\ e.method_id = e.call
              /\ <<Member(Calls(d)[e.call], "method"), e.handler>> \in Offers
        /\ e.run = "return" =>
              IF e.obj = NULL THEN faults > 0 ELSE ResponseTo(e.obj, d, e.call)

(* What a live request has: the responses of result_batch are to different    *)
(* calls, none of which is awaited; no other is missing while memory lasts;   *)
(* and the ids of all requests are still held.                                *)
BatchSound(s) ==
    LET r == req[s]
        b == req[s].result_batch
        expected == Expected(doc[s])
        requests == RequestCalls(doc[s])
        outstanding == Outstanding(s)
    IN  r.state = "live" =>
            /\ \A i \in KeptCalls(doc[s]) : r.method_id = i
            /\ \A k \in DOMAIN b :
                  b[k].call \in expected \ outstanding /\ ResponseTo(b[k], doc[s], b[k].call)
            /\ \A k, l \in DOMAIN b : b[k].call = b[l].call => k = l
            /\ faults = 0 =>
                  /\ Len(b) = r.result_count
                  /\ \A i \in expected \ outstanding : \E k \in DOMAIN b : b[k].call = i
            /\ IF r.return_cb = "single" THEN b = << >> /\ expected = {1}
               ELSE /\ r.waiting_result_count = Cardinality(expected)
                    /\ r.result_count < r.waiting_result_count
            /\ \A i \in Indices : idrefs[s][i] = IF i \in requests THEN 1 ELSE 0

(* Without a live request an id is held only because memory ran out.          *)
IdsSound(s) ==
    req[s].state # "live" =>
        \A i \in Indices : idrefs[s][i] = 0 \/ (idrefs[s][i] = 1 /\ faults > 0)

(* The answer to a document: responses to different calls of it, or an error  *)
(* under no id when it was refused.                                           *)
AnswerSound(s) ==
    \A n \in DOMAIN answers[s] : answers[s][n] # NULL =>
        LET items == answers[s][n]
        IN  IF req[s].state = "none"
            THEN \A k \in DOMAIN items : items[k].kind # "result" /\ items[k].id = 0
            ELSE /\ \A k \in DOMAIN items :
                       /\ items[k].call \in Expected(doc[s])
                       /\ ResponseTo(items[k], doc[s], items[k].call)
                 /\ \A k, l \in DOMAIN items : items[k].call = items[l].call => k = l

(* What makes AnswerComplete, ResponseIdsMatch and IdsReleasedOnce inductive, *)
(* with RequestInvariant: every answer is followed from the dispatch of its   *)
(* call through the queue and result_batch.                                   *)
AnswerInvariant ==
    /\ KeeperAlone
    /\ \A n \in MethodNames : \A k \in DOMAIN methods[n] : <<n, methods[n][k]>> \in Offers
    /\ \A e \in queue : e.req => CallSound(e)
    /\ \A h \in held : h[2] \in KeptCalls(doc[h[1]])
    /\ \A s \in Subs : BatchSound(s) /\ IdsSound(s) /\ AnswerSound(s)
    /\ ResponseIdsMatch /\ AnswerComplete
-----------------------------------------------------------------------------
(* m is the id of a call of d, or null.                                       *)
IdOf(m, d) == m = 0 \/ m \in RequestCalls(d)

(* A request and its answer: the ids are those of calls of its own document,  *)
(* or null; what is not an array of responses is a single one.                *)
OwnIds(s) ==
    LET r == req[s]
        d == doc[s]
    IN  /\ IF r.state = "none" THEN r = NoRequest
           ELSE r.return_cb = IF d.type = "object" THEN "single" ELSE "batched"
        /\ IdOf(r.method_id, d)
        /\ \A k \in DOMAIN r.result_batch : IdOf(r.result_batch[k].id, d)
        /\ \A n \in DOMAIN answers[s] : answers[s][n] # NULL =>
              /\ \A k \in DOMAIN answers[s][n] : IdOf(answers[s][n][k].id, d)
              /\ r.return_cb = "single" => Len(answers[s][n]) = 1

(* What the answers are whether or not calls are kept: even where a response  *)
(* carries the id of another call, both are calls of one document.            *)
OwnIdsInvariant ==
    /\ \A e \in queue : e.req =>
          /\ IdOf(e.method_id, doc[e.sub])
          /\ e.obj # NULL => IdOf(e.obj.id, doc[e.sub])
    /\ \A s \in Subs : OwnIds(s)

(* What makes KeptRequestsHaveId inductive: no deferred call and no request   *)
(* of a document that starts with a valid call is ever without an id.         *)
KeptIdsInvariant ==
    /\ \A e \in queue : e.req /\ StartsValid(doc[e.sub]) =>
          /\ e.method_id # 0
          /\ e.run = "return" /\ e.obj = NULL => faults > 0
    /\ \A s \in Subs :
          req[s].state = "live" /\ StartsValid(doc[s]) => req[s].method_id # 0
-----------------------------------------------------------------------------
(* The service the server half gives: a single request waits for one result.  *)
ServiceStatus(s) ==
    IF req[s].state = "live" THEN "open"
    ELSE IF answers[s] # << >> THEN "answered"
    ELSE IF doc[s] # NULL THEN "silent" ELSE "new"

ServiceRemaining(s) ==
    IF req[s].state # "live" THEN 0
    ELSE IF req[s].return_cb = "single" THEN 1
    ELSE req[s].waiting_result_count - req[s].result_count

Service == INSTANCE RpcService
    WITH status <- [s \in Subs |-> ServiceStatus(s)],
         remaining <- [s \in Subs |-> ServiceRemaining(s)],
         ResultCounts <- {Cardinality(Expected(d)) : d \in Documents}

(* json_rpc.c implements the service: results come one by one, the answer     *)
(* with the last, never twice and never for notifications alone.              *)
ServiceSpec == Service!Spec
=============================================================================
