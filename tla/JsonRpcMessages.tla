--------------------------- MODULE JsonRpcMessages ---------------------------
(* The JSON documents libjsonrpc looks at, and the pure functions json_rpc.c  *)
(* classifies them with.  A scalar is [type, val], an array [type, elems], an *)
(* object [type, members] with members a function from keys to values.  Only  *)
(* what the classification tests is kept: names and numbers are opaque.       *)
EXTENDS Naturals, Sequences, FiniteSets

Scalar(t, v) == [type |-> t, val |-> v]
Arr(es) == [type |-> "array", elems |-> es]
Obj(ms) == [type |-> "object", members |-> ms]

(* C's NULL: what json_object_get returns for an absent key, and json_type of *)
(* it (JSON_TYPE_DEFAULT_VALUE), which is the type of no value.               *)
Absent == [type |-> "default"]

Member(x, key) ==
    IF x.type = "object" /\ key \in DOMAIN x.members THEN x.members[key] ELSE Absent

Elements(x) == IF x.type = "array" THEN x.elems ELSE << >>

IsList(s) == Len(s) \in Nat /\ DOMAIN s = 1 .. Len(s)

Version == Scalar("string", "2.0")
-----------------------------------------------------------------------------
(* eval_call_type: what one call of a document is.                            *)
IsCall(x) ==
    /\ x.type = "object"
    /\ Member(x, "params").type \in {"default", "object", "array"}
    /\ Member(x, "jsonrpc") = Version
    /\ Member(x, "method").type = "string"
    /\ Member(x, "id").type \in {"default", "string", "int"}

EvalCallType(x) ==
    IF ~IsCall(x) THEN "invalid"
    ELSE IF Member(x, "id") = Absent THEN "notification" ELSE "request"

(* The calls json_rpc_process_request dispatches one by one: the object       *)
(* itself, or the elements of the batch.                                      *)
Calls(d) == IF d.type = "object" THEN <<d>> ELSE Elements(d)

(* The calls whose return value of dispatch_call is not notification_call:    *)
(* what process_batched_call counts.                                          *)
Expected(d) == {i \in DOMAIN Calls(d) : EvalCallType(Calls(d)[i]) # "notification"}
-----------------------------------------------------------------------------
(* is_response_single and json_rpc_is_response: how the transports tell a     *)
(* response from a request.  A batch with no elements passes the loop.        *)
IsErrorObjectWithData(e) == e.type = "object" /\ Member(e, "data") # Absent

IsErrorObject(e) ==
    /\ e.type = "object"
    /\ Member(e, "message").type = "string"
    /\ Member(e, "code").type = "int"

IsResponseSingle(x) ==
    /\ x.type = "object"
    /\ Member(x, "jsonrpc") = Version
    /\ Member(x, "id").type \in {"default", "string", "int", "boolean", "null"}
    /\ Member(x, "result") # Absent \/ IsErrorObject(Member(x, "error"))

IsResponse(x) ==
    \/ x.type = "object" /\ IsResponseSingle(x)
    \/ x.type = "array" /\ \A k \in DOMAIN x.elems : IsResponseSingle(x.elems[k])
-----------------------------------------------------------------------------
(* The numbers in S, in increasing order.                                     *)
Increasing(S) ==
    CHOOSE f \in [1 .. Cardinality(S) -> S] : \A p, q \in DOMAIN f : p < q => f[p] < f[q]

(* The elements of a batch whose id get_id finds.  Memory for the list        *)
(* entries of those in L failed: json_array_add is not checked.               *)
HaveIds(x, L) == {k \in DOMAIN Elements(x) \ L : Member(x.elems[k], "id") # Absent}

(* get_id: the id of a single message, the array of the ids present in a      *)
(* batch, or NULL when there is none.                                         *)
GetIdWithout(x, L) ==
    LET kept == HaveIds(x, L)
        order == Increasing(kept)
    IN  CASE x.type = "object" -> Member(x, "id")
          [] x.type = "array" /\ kept # {} ->
                Arr([n \in DOMAIN order |-> Member(x.elems[order[n]], "id")])
          [] OTHER -> Absent

GetId(x) == GetIdWithout(x, {})

(* json_equals on ids (scalars, and arrays of scalars): arrays are equal when *)
(* their lengths agree and each element of the first occurs in the second.    *)
IdEquals(a, b) ==
    IF a.type = "array"
    THEN /\ b.type = "array"
         /\ Len(a.elems) = Len(b.elems)
         /\ \A k \in DOMAIN a.elems : \E l \in DOMAIN b.elems : a.elems[k] = b.elems[l]
    ELSE a = b
=============================================================================
