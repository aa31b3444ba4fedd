--------------------------- MODULE JsonRpcResponses ---------------------------
(* How json_rpc.c builds its responses on the heap: prepare_response_object,  *)
(* create_error_object and prepare_error_response each make an object and add *)
(* members to it one by one, any allocation may fail, and what was built is   *)
(* put on the way out.  A step is one call of json.c; the client does nothing *)
(* while a response is being built.                                           *)
EXTENDS JsonHeap, Sequences

CONSTANTS
    MaxReturns,    \* bound: responses built
    ClientKeys,    \* bound: names the client uses
    MaxLive,       \* bound: values, and entries, the client makes
    ClientFaults   \* bound: allocations of the client that fail

ASSUME ResponsesAssumption ==
    /\ {"jsonrpc", "result", "error", "id", "message", "code"} \subseteq Keys
    /\ ClientKeys \subseteq Keys
    /\ MaxReturns \in Nat
    /\ ClientFaults \in Nat
    /\ MaxLive \in Nat

VARIABLES
    build,      \* the function at work and its local variables
    returned,   \* what the last call gave to return_cb, NULL for nothing
    lost,       \* of the references owned, those nobody will ever put
    returns     \* responses begun so far

vars == <<heap, owned, faults, build, returned, lost, returns>>
-----------------------------------------------------------------------------
(* fn is the function, at the number of members added, obj the object it      *)
(* makes, new a value made for the next member, err the error object; failed  *)
(* at the label `error'.                                                      *)
Idle == [fn |-> "none", at |-> 0, failed |-> FALSE, obj |-> NULL, new |-> NULL,
         err |-> NULL, id |-> NULL, res |-> NULL]

Members ==
    [prepare_response_object |-> <<"jsonrpc", "result", "id">>,
     create_error_object |-> <<"message", "code">>,
     prepare_error_response |-> <<"jsonrpc", "error", "id">>]

Adding == build.fn # "none" /\ ~build.failed /\ build.obj # NULL
          /\ build.at < Len(Members[build.fn])
Key == Members[build.fn][build.at + 1]

(* The value of the next member; NULL when the caller gave none.              *)
Member ==
    CASE Key = "result" -> build.res
      [] Key = "error" -> build.err
      [] Key = "id" -> build.id
      [] OTHER -> build.new

Init ==
    /\ HeapInit
    /\ build = Idle
    /\ returned = NULL
    /\ lost = [v \in Values |-> 0]
    /\ returns = 0
-----------------------------------------------------------------------------
Begin(fn, id, res) ==
    /\ build.fn = "none" /\ returns < MaxReturns
    /\ returns' = returns + 1
    /\ returned' = NULL
    /\ build' = [Idle EXCEPT !.fn = fn, !.id = id, !.res = res]
    /\ UNCHANGED <<heap, owned, lost>>

(* References that are not lost.                                              *)
Usable(v) == owned[v] - lost[v]

(* json_rpc_return: it is given the request's reference on the id and the     *)
(* method's on its result, if there is one.  The id is NULL once an invalid   *)
(* call of the same batch was answered.                                       *)
JsonRpcReturn(id, res) ==
    /\ id # NULL => Usable(id) > (IF res = id THEN 1 ELSE 0)
    /\ res # NULL => Usable(res) > 0
    /\ Begin("prepare_response_object", id, res)
    /\ UNCHANGED faults

(* process_error, and process_error_final without memory for a null id.       *)
ProcessError(id) ==
    /\ IF id = NULL THEN Fail ELSE Usable(id) > 0 /\ UNCHANGED faults
    /\ Begin("create_error_object", id, NULL)

MakeObject ==
    /\ build.fn # "none" /\ ~build.failed /\ build.obj = NULL
    /\ \/ New("object") /\ build' = [build EXCEPT !.obj = Fresh]
       \/ NoMemory /\ build' = [build EXCEPT !.failed = TRUE]
    /\ UNCHANGED <<returned, lost, returns>>

MakeValue ==
    /\ Adding
    /\ Key \in {"jsonrpc", "message", "code"} /\ build.new = NULL
    /\ \/ New("scalar") /\ build' = [build EXCEPT !.new = Fresh]
       \/ NoMemory /\ build' = [build EXCEPT !.failed = TRUE]
    /\ UNCHANGED <<returned, lost, returns>>

AddMember ==
    /\ Adding
    /\ Member # NULL
    /\ ObjectAdd(build.obj, Key, Member)
    /\ build' = IF owned' # owned
                THEN [build EXCEPT !.at = @ + 1, !.new = NULL]
                ELSE [build EXCEPT !.failed = TRUE]
    /\ UNCHANGED <<returned, lost, returns>>

(* As AddNull, going on without the member.                                   *)
AddNullSkips ==
    /\ Adding
    /\ Member = NULL /\ Key \in {"result", "id"}
    /\ build' = [build EXCEPT !.at = @ + 1]
    /\ UNCHANGED <<heap, owned, faults, returned, lost, returns>>

(* json_object_add refuses NULL.                                              *)
AddNull ==
    /\ Adding
    /\ Member = NULL /\ Key \in {"result", "id"}
    /\ build' = [build EXCEPT !.failed = TRUE]
    /\ UNCHANGED <<heap, owned, faults, returned, lost, returns>>

(* The object is complete: that of create_error_object is the error of the    *)
(* response to come.                                                          *)
Finish ==
    /\ build.fn # "none" /\ ~build.failed /\ build.obj # NULL
    /\ build.at = Len(Members[build.fn])
    /\ IF build.fn = "create_error_object"
       THEN /\ build' = [Idle EXCEPT !.fn = "prepare_error_response", !.id = build.id,
                                     !.err = build.obj]
            /\ UNCHANGED returned
       ELSE build' = Idle /\ returned' = build.obj
    /\ UNCHANGED <<heap, owned, faults, lost, returns>>

(* As PutError, at every failure of prepare_error_response.                   *)
PutErrorAlways ==
    /\ build.failed /\ build.err # NULL
    /\ RefPut(build.err)
    /\ build' = [build EXCEPT !.err = NULL]
    /\ UNCHANGED <<returned, lost, returns>>

(* The error path of prepare_error_response, until err is in the object.      *)
PutError ==
    /\ build.failed /\ build.err # NULL /\ build.at < 2
    /\ RefPut(build.err)
    /\ build' = [build EXCEPT !.err = NULL]
    /\ UNCHANGED <<returned, lost, returns>>

(* What the function forgets: a value it made and could not add, the result   *)
(* before it was added, and in the end the id.                                *)
Forgotten ==
    ({build.new} \cup (IF build.fn # "prepare_response_object" THEN {build.id}
                       ELSE IF build.at < 2 THEN {build.res} ELSE {})) \ {NULL}

(* As PutObject, without the second attempt of json_rpc_return.               *)
PutObjectGivesUp ==
    /\ build.failed /\ (build.err # NULL => build.at = 2)
    /\ IF build.obj = NULL THEN UNCHANGED heapVars ELSE RefPut(build.obj)
    /\ lost' = [v \in Values |-> lost[v] + (IF v \in Forgotten \cup {build.id} THEN 1 ELSE 0)]
    /\ build' = Idle
    /\ UNCHANGED <<returned, returns>>

(* The error path of every function; prepare_error_response is the second     *)
(* attempt of json_rpc_return.                                                *)
PutObject ==
    /\ build.failed /\ (build.err # NULL => build.at = 2)
    /\ IF build.obj = NULL THEN UNCHANGED heapVars ELSE RefPut(build.obj)
    /\ lost' = [v \in Values |-> lost[v] + (IF v \in Forgotten THEN 1 ELSE 0)]
    /\ build' = IF build.fn = "prepare_response_object"
                THEN [Idle EXCEPT !.fn = "create_error_object", !.id = build.id]
                ELSE Idle
    /\ UNCHANGED <<returned, returns>>

(* The client works on values and responses meanwhile.                         *)
ClientStep ==
    /\ build.fn = "none"
    /\ ClientNext(ClientKeys)
    /\ faults' = faults \/ faults' <= ClientFaults
    /\ \A v \in Values : owned'[v] >= lost[v]
    /\ \/ \A v \in Values : owned'[v] <= owned[v] /\ FreeEntries(heap) \subseteq FreeEntries(heap)'
       \/ /\ Cardinality(Live(heap)') <= MaxLive
          /\ Cardinality(Entries \ FreeEntries(heap)') <= MaxLive
    /\ UNCHANGED <<build, returned, lost, returns>>
-----------------------------------------------------------------------------
Next ==
    \/ \E id, res \in Values \cup {NULL} : JsonRpcReturn(id, res)
    \/ \E id \in Values \cup {NULL} : ProcessError(id)
    \/ MakeObject \/ MakeValue \/ AddMember \/ AddNull \/ Finish
    \/ PutError \/ PutObject
    \/ ClientStep

Spec == Init /\ [][Next]_vars
-----------------------------------------------------------------------------
(* The members of an object, by name.                                         *)
Names(c) == {heap.entry[e].key : e \in Contents(heap, c)}

(* A response is handed on only complete: with the version, the id, and       *)
(* either a result or an error that has its message and code.                 *)
ResponsesComplete ==
    [][returned' # NULL /\ returned' # returned =>
          \/ Names(returned') = {"jsonrpc", "result", "id"}
          \/ /\ Names(returned') = {"jsonrpc", "error", "id"}
             /\ \E e \in Contents(heap, returned') :
                   /\ heap.entry[e].key = "error"
                   /\ Names(heap.entry[e].obj) = {"message", "code"}]_vars

(* The references nobody will put, each by itself.                            *)
LostReferences == UNION {{v} \X (1 .. lost[v]) : v \in Values}

(* No reference is lost while memory lasts, not even when json_object_add     *)
(* refuses a NULL.  A failed allocation loses two at most: one on the value   *)
(* made for the next member, and one on the result that is not in the object  *)
(* yet, or on the id in the second attempt.  (The result may be a container:  *)
(* its members are leaked with it.)                                           *)
LostOnlyWithoutMemory ==
    /\ Cardinality(LostReferences) <= 2 * faults
    /\ \A v \in Values : lost[v] <= owned[v]

(* The references the local variables stand for: err, res and id until they   *)
(* are in the object.                                                         *)
One(x, v) == IF x = v THEN 1 ELSE 0

Held(b, v) ==
    One(b.obj, v) + One(b.new, v)
    + (IF b.at < 2 THEN One(b.err, v) + One(b.res, v) ELSE 0)
    + (IF b.at < 3 THEN One(b.id, v) ELSE 0)

(* Every local variable has a reference of its own, beside those that were    *)
(* lost: two of them may lead to one value, but then it counts both.          *)
LocalReferences ==
    \A v \in Values : Held(build, v) + lost[v] <= owned[v]

(* The library is a client of json.c that keeps the contract of HeapNext: it  *)
(* puts and gives away only references it holds, whatever fails on the way.   *)
KeepsContract == HeapSpec
=============================================================================
