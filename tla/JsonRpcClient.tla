---------------------------- MODULE JsonRpcClient ----------------------------
(* The client half of json_rpc.c: the list of callbacks waiting for a         *)
(* response (result_cbs), json_rpc_preprocess_request that registers one      *)
(* before a message is sent, and json_rpc_process_response that finds and     *)
(* runs one.  The peer is not trusted: any response may arrive at any time,   *)
(* and more than once.  A callback may use the library, even process another  *)
(* response: it runs in states of its own, between list_del and the end of    *)
(* json_rpc_process_response.                                                 *)
EXTENDS JsonRpcMessages

CONSTANTS
    Sends,         \* calls of json_rpc_preprocess_request by the application
    Requests,      \* the messages it may send: single or batched
    Responses,     \* the documents that may arrive
    MaxArrivals,   \* bound: responses that arrive
    MaxFaults,     \* bound: failed allocations
    NULL

ASSUME ClientAssumption ==
    /\ MaxArrivals \in Nat
    /\ MaxFaults \in Nat
    /\ NULL \notin Sends \cup Requests

VARIABLES
    jr,           \* lifetime of struct json_rpc: "live" or "freed"
    result_cbs,   \* the registrations [id, send], the newest first
    request,      \* what each call sent, NULL before
    accepted,     \* the calls that were registered, in order
    running,      \* the registrations whose callbacks run, one inside another
    completed,    \* the responses each call's callback was given
    arrivals,     \* responses that arrived so far
    faults        \* failed allocations so far

vars == <<jr, result_cbs, request, accepted, running, completed, arrivals, faults>>

Init ==
    /\ jr = "live"
    /\ result_cbs = << >>
    /\ request = [k \in Sends |-> NULL]
    /\ accepted = << >>
    /\ running = << >>
    /\ completed = [k \in Sends |-> << >>]
    /\ arrivals = 0
    /\ faults = 0
-----------------------------------------------------------------------------
(* At most MaxFaults allocations fail.                                        *)
Fail(n) ==
    /\ faults + n <= MaxFaults
    /\ faults' = faults + n

(* The entries of result_cbs whose id json_equals finds equal.                *)
Matches(id) == {p \in DOMAIN result_cbs : IdEquals(result_cbs[p].id, id)}

(* As FirstMatch, stopping at the head of the list whatever its id.           *)
FirstMatchHead(id) == 1

FirstMatch(id) == CHOOSE p \in Matches(id) : \A q \in Matches(id) : p <= q

(* As Without, cutting off the head whatever entry was found.                 *)
WithoutHead(seq, p) == Tail(seq)

Without(seq, p) == SubSeq(seq, 1, p - 1) \o SubSeq(seq, p + 1, Len(seq))

(* get_id, with what it finds when the array of a batch's ids, or entries of  *)
(* that array, cannot be allocated.                                           *)
IdFound(x, id) ==
    \/ \E L \in SUBSET DOMAIN Elements(x) :
          Fail(Cardinality(L)) /\ id = GetIdWithout(x, L)
    \/ id = Absent /\ x.type = "array" /\ Fail(1)

FoundIds(x) == {GetIdWithout(x, L) : L \in SUBSET DOMAIN Elements(x)} \cup {Absent}

(* ... and with the memory there is.                                          *)
FoundNow(x) ==
    LET Lost == {L \in SUBSET DOMAIN Elements(x) : faults + Cardinality(L) <= MaxFaults}
    IN  {GetIdWithout(x, L) : L \in Lost} \cup {Absent}

(* The ids calls may be registered under.                                     *)
Ids == (UNION {FoundIds(m) : m \in Requests}) \ {Absent}

(* Batches, and ids that are arrays, are lists.                               *)
ASSUME ListsAssumption ==
    \A x \in Requests \cup Responses :
        /\ IsList(Elements(x))
        /\ Member(x, "id").type = "array" => IsList(Member(x, "id").elems)

(* The application gives the calls of a batch different ids: the library      *)
(* does not look.  With [1, 1] and [1, 2] json_equals is not symmetric.       *)
ASSUME DistinctIdsAssumption ==
    \A id \in Ids : id.type = "array" =>
        \A k, l \in DOMAIN id.elems : id.elems[k] = id.elems[l] => k = l
-----------------------------------------------------------------------------
(* json_rpc_preprocess_request: -1 without an id, the callback of an equal id *)
(* replaced, or a new entry at the head of the list.                          *)
RefusedNot(id) ==
    /\ id = Absent
    /\ result_cbs' = <<[id |-> id, send |-> CHOOSE k \in Sends : TRUE]>> \o result_cbs
    /\ UNCHANGED accepted

Refused(id) ==
    /\ id = Absent
    /\ UNCHANGED <<result_cbs, accepted>>

(* As Replaced, with a second entry of the same id.                           *)
ReplacedNot(id, k) ==
    /\ id # Absent
    /\ Matches(id) # {}
    /\ result_cbs' = <<[id |-> id, send |-> k]>> \o result_cbs
    /\ accepted' = Append(accepted, k)

Replaced(id, k) ==
    /\ id # Absent
    /\ Matches(id) # {}
    /\ result_cbs' = [result_cbs EXCEPT ![FirstMatch(id)].send = k]
    /\ accepted' = Append(accepted, k)

Added(id, k) ==
    /\ id # Absent
    /\ Matches(id) = {}
    /\ result_cbs' = <<[id |-> id, send |-> k]>> \o result_cbs
    /\ accepted' = Append(accepted, k)

PreprocessRequest(k, m) ==
    /\ jr = "live"
    /\ request[k] = NULL
    /\ request' = [request EXCEPT ![k] = m]
    /\ \E id \in FoundNow(m) :
          /\ IdFound(m, id)
          /\ Refused(id) \/ Replaced(id, k) \/ Added(id, k)
    /\ UNCHANGED <<jr, running, completed, arrivals>>

(* The entry itself cannot be allocated: -1, and the list stays as it is.     *)
PreprocessNoMemory(k, m) ==
    /\ jr = "live"
    /\ request[k] = NULL
    /\ GetId(m) # Absent /\ Matches(GetId(m)) = {}
    /\ Fail(1)
    /\ request' = [request EXCEPT ![k] = m]
    /\ UNCHANGED <<jr, result_cbs, accepted, running, completed, arrivals>>
-----------------------------------------------------------------------------
Arrive ==
    /\ jr = "live"
    /\ arrivals < MaxArrivals
    /\ arrivals' = arrivals + 1
    /\ UNCHANGED <<jr, request, accepted>>

(* The callback of an entry is given a document.                              *)
Called(e, d) ==
    /\ running' = Append(running, e)
    /\ completed' = [completed EXCEPT ![e.send] = Append(@, d)]

(* As ProcessResponse, without list_del.                                      *)
ProcessResponseKeeps(d) ==
    /\ IsResponse(d)
    /\ Arrive
    /\ \E id \in FoundNow(d) :
          /\ IdFound(d, id)
          /\ id # Absent /\ Matches(id) # {}
          /\ Called(result_cbs[FirstMatch(id)], d)
    /\ UNCHANGED result_cbs

(* json_rpc_process_response: the entry leaves the list, then its callback    *)
(* is run.                                                                    *)
ProcessResponse(d) ==
    /\ IsResponse(d)
    /\ Arrive
    /\ \E id \in FoundNow(d) :
          /\ IdFound(d, id)
          /\ id # Absent /\ Matches(id) # {}
          /\ Called(result_cbs[FirstMatch(id)], d)
          /\ result_cbs' = Without(result_cbs, FirstMatch(id))

(* ... and without an id, or with one nobody waits for, nothing happens.      *)
DropResponse(d) ==
    /\ IsResponse(d)
    /\ Arrive
    /\ \E id \in FoundNow(d) :
          /\ IdFound(d, id)
          /\ id = Absent \/ Matches(id) = {}
    /\ UNCHANGED <<result_cbs, running, completed>>

(* As CallbackReturns, with the entry of the id removed only now.             *)
CallbackReturnsRemoves ==
    /\ running # << >>
    /\ running' = SubSeq(running, 1, Len(running) - 1)
    /\ LET last == running[Len(running)]
       IN  result_cbs' = SelectSeq(result_cbs, LAMBDA e : ~IdEquals(e.id, last.id))
    /\ UNCHANGED <<jr, request, accepted, completed, arrivals, faults>>

(* The innermost callback returns; process_response frees the entry it had    *)
(* removed.                                                                   *)
CallbackReturns ==
    /\ running # << >>
    /\ running' = SubSeq(running, 1, Len(running) - 1)
    /\ UNCHANGED <<jr, result_cbs, request, accepted, completed, arrivals, faults>>

(* json_rpc_free, which a callback may call too.                              *)
JsonRpcFree ==
    /\ jr = "live"
    /\ jr' = "freed"
    /\ result_cbs' = << >>
    /\ UNCHANGED <<request, accepted, running, completed, arrivals, faults>>

Next ==
    \/ \E k \in Sends, m \in Requests : PreprocessRequest(k, m) \/ PreprocessNoMemory(k, m)
    \/ \E d \in Responses : ProcessResponse(d) \/ DropResponse(d)
    \/ CallbackReturns
    \/ JsonRpcFree

Spec == Init /\ [][Next]_vars
-----------------------------------------------------------------------------
(* A registration has an id of a message.                                     *)
Entry == [id : Ids, send : Sends]

(* Every variable has its type: what is registered has the id of a message.   *)
TypeOK ==
    /\ jr \in {"live", "freed"}
    /\ result_cbs \in Seq(Entry)
    /\ request \in [Sends -> Requests \cup {NULL}]
    /\ accepted \in Seq(Sends)
    /\ running \in Seq(Entry)
    /\ completed \in [Sends -> Seq(Responses)]
    /\ arrivals \in 0 .. MaxArrivals
    /\ faults \in 0 .. MaxFaults

(* json_rpc_process_response finds the one callback an id can mean: no two    *)
(* entries of result_cbs have equal ids, although callbacks register new      *)
(* calls and equal ids are used again.                                        *)
UniqueIds ==
    \A p, q \in DOMAIN result_cbs : IdEquals(result_cbs[p].id, result_cbs[q].id) => p = q

(* A callback is run at most once, whatever the peer repeats and whatever     *)
(* fails, and while memory lasts it is given a response to its own message.   *)
CompletedOnceByOwnId ==
    \A k \in Sends :
        /\ Len(completed[k]) <= 1
        /\ \A r \in DOMAIN completed[k] :
              faults = 0 => IdEquals(GetId(request[k]), GetId(completed[k][r]))

(* No callback is lost while jr lives and memory lasts: a registered call is  *)
(* still waiting, or it was answered, or a later call took over its id.  In   *)
(* particular a call made in a callback under the id just answered stays      *)
(* registered.                                                                *)
NoCallbackLost ==
    jr = "live" /\ faults = 0 =>
        \A a \in DOMAIN accepted :
            LET k == accepted[a]
            IN  \/ \E p \in DOMAIN result_cbs : result_cbs[p].send = k
                \/ completed[k] # << >>
                \/ \E b \in DOMAIN accepted :
                      b > a /\ IdEquals(GetId(request[k]), GetId(request[accepted[b]]))

(* The list implements the map from ids to callbacks.                         *)
Table == INSTANCE CallTable
    WITH table <- [i \in Ids |-> IF Matches(i) = {} THEN NULL
                                 ELSE result_cbs[FirstMatch(i)].send],
         done <- {k \in Sends : completed[k] # << >>}

(* json_rpc.c implements the table of calls: a response runs exactly the      *)
(* callback registered last under its id.                                     *)
TableSpec == Table!Spec
=============================================================================
