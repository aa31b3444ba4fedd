------------------------- MODULE JsonRpcClientProofs -------------------------
(* Theorems about JsonRpcClient, for every set of calls, messages and         *)
(* responses, and every bound: its types, that no two registrations have      *)
(* equal ids, that a callback is run once and for its own message, that none  *)
(* is lost, and that the list of callbacks implements CallTable.              *)
EXTENDS JsonRpcClient, JsonRpcMessagesProofs

USE ClientAssumption

-----------------------------------------------------------------------------
(* The ids of requests and responses.                                         *)
LEMMA FoundIsId ==
    ASSUME NEW x \in Requests \cup Responses
    PROVE  /\ GetId(x) \in FoundIds(x)
           /\ \A id \in FoundIds(x) : IsId(id)
<1>1. GetId(x) \in FoundIds(x)
  BY DEF GetId, FoundIds
<1>2. \A id \in FoundIds(x) : IsId(id)
  <2> SUFFICES ASSUME NEW L \in SUBSET DOMAIN Elements(x) PROVE IsId(GetIdWithout(x, L))
    BY DEF FoundIds, IsId, Absent
  <2> QED BY ListsAssumption, GetIdIsId DEF IsId
<1> QED BY <1>1, <1>2

LEMMA FoundNowIs == ASSUME NEW x PROVE FoundNow(x) \subseteq FoundIds(x)
BY DEF FoundNow, FoundIds

LEMMA RegisteredIds ==
    ASSUME NEW i \in Ids
    PROVE  IsId(i) /\ Distinct(i) /\ i # Absent
<1>1. PICK m \in Requests : i \in FoundIds(m)
  BY DEF Ids
<1>2. i # Absent
  BY DEF Ids
<1> QED BY <1>1, <1>2, FoundIsId, DistinctIdsAssumption DEF Distinct

(* Two ids that equal a third one of a response or a request are equal.       *)
LEMMA IdsMeet ==
    ASSUME NEW i \in Ids, NEW j \in Ids, NEW c, IsId(c), IdEquals(i, c), IdEquals(j, c)
    PROVE  IdEquals(i, j)
<1>1. IdEquals(c, j)
  BY RegisteredIds, IdSymmetric
<1> QED BY <1>1, IdTransitive

(* get_id counts the entries it has no memory for; without a failure it finds *)
(* the id of the message.                                                     *)
LEMMA IdFoundFaults ==
    ASSUME NEW x \in Requests \cup Responses, NEW id, faults \in 0 .. MaxFaults, IdFound(x, id)
    PROVE  /\ faults' \in 0 .. MaxFaults /\ faults' >= faults
           /\ id \in FoundIds(x)
           /\ faults' = 0 => id = GetId(x)
<1>1. CASE id = Absent /\ Fail(1)
  <2>1. faults' = faults + 1 /\ faults + 1 <= MaxFaults
    BY <1>1 DEF Fail
  <2> QED BY <1>1, <2>1 DEF FoundIds
<1>2. ASSUME NEW L \in SUBSET DOMAIN Elements(x), id = GetIdWithout(x, L), Fail(Cardinality(L))
      PROVE  /\ faults' \in 0 .. MaxFaults /\ faults' >= faults
             /\ id \in FoundIds(x)
             /\ faults' = 0 => id = GetId(x)
  <2>1. IsFiniteSet(L)
    BY ListsAssumption, FS_Interval, FS_Subset DEF IsList
  <2>2. Cardinality(L) \in Nat /\ (Cardinality(L) = 0 => L = {})
    BY <2>1, FS_CardinalityType, FS_EmptySet
  <2>3. faults' = faults + Cardinality(L) /\ faults + Cardinality(L) <= MaxFaults
    BY <1>2 DEF Fail
  <2>4. id \in FoundIds(x)
    BY <1>2 DEF FoundIds
  <2>5. faults' = 0 => L = {}
    BY <2>2, <2>3
  <2>6. faults' = 0 => id = GetId(x)
    BY <1>2, <2>5 DEF GetId
  <2> QED BY <2>2, <2>3, <2>4, <2>6
<1> QED BY <1>1, <1>2 DEF IdFound
-----------------------------------------------------------------------------
(* The list of callbacks.                                                     *)

(* The entry the loop over the list stops at.                                 *)
LEMMA FirstMatchIs ==
    ASSUME result_cbs \in Seq(Entry), NEW id, Matches(id) # {}
    PROVE  /\ FirstMatch(id) \in 1 .. Len(result_cbs)
           /\ FirstMatch(id) \in Matches(id)
<1>1. Matches(id) \subseteq 1 .. Len(result_cbs)
  BY DEF Matches
<1>2. PICK p \in Matches(id) : \A q \in Matches(id) : p <= q
  BY <1>1, LeastExists
<1>3. FirstMatch(id) \in Matches(id)
  BY <1>2 DEF FirstMatch
<1> QED BY <1>1, <1>3

(* list_del leaves the other entries, in their order.                         *)
LEMMA EntryRemoved ==
    ASSUME NEW S, NEW s \in Seq(S), NEW p \in 1 .. Len(s)
    PROVE  /\ Without(s, p) \in Seq(S)
           /\ Len(Without(s, p)) = Len(s) - 1
           /\ \A q \in 1 .. Len(s) - 1 : Without(s, p)[q] = IF q < p THEN s[q] ELSE s[q + 1]
BY ListWithout DEF Without

(* Every entry of the list is one, with its parts.                            *)
LEMMA EntryType ==
    ASSUME result_cbs \in Seq(Entry), NEW p \in DOMAIN result_cbs
    PROVE  /\ result_cbs[p] \in Entry
           /\ result_cbs[p].id \in Ids /\ result_cbs[p].send \in Sends
<1>1. result_cbs[p] \in Entry
  BY ElementOfSeq
<1> QED BY <1>1 DEF Entry
-----------------------------------------------------------------------------
(* Types.                                                                     *)

LEMMA TypeInit == Init => TypeOK
<1> SUFFICES ASSUME Init PROVE TypeOK
  OBVIOUS
<1>1. << >> \in Seq(Entry) /\ << >> \in Seq(Sends) /\ << >> \in Seq(Responses)
  OBVIOUS
<1> QED BY <1>1 DEF Init, TypeOK

(* What json_rpc_preprocess_request does, with the id it found.               *)
LEMMA PreprocessIs ==
    ASSUME TypeOK, NEW k \in Sends, NEW m \in Requests, PreprocessRequest(k, m)
    PROVE  /\ faults' \in 0 .. MaxFaults /\ faults' >= faults
           /\ \E id \in FoundIds(m) :
                 /\ faults' = 0 => id = GetId(m)
                 /\ id # Absent => id \in Ids
                 /\ Refused(id) \/ Replaced(id, k) \/ Added(id, k)
<1>1. PICK id \in FoundIds(m) : IdFound(m, id) /\ (Refused(id) \/ Replaced(id, k) \/ Added(id, k))
  BY FoundNowIs DEF PreprocessRequest
<1>2. /\ faults' \in 0 .. MaxFaults /\ faults' >= faults
      /\ faults' = 0 => id = GetId(m)
  BY <1>1, IdFoundFaults DEF TypeOK
<1>3. id # Absent => id \in Ids
  BY <1>1 DEF Ids
<1> QED BY <1>1, <1>2, <1>3

(* ... and json_rpc_process_response, with the entry it found.                *)
LEMMA ProcessResponseIs ==
    ASSUME TypeOK, NEW d \in Responses, ProcessResponse(d)
    PROVE  /\ faults' \in 0 .. MaxFaults /\ faults' >= faults
           /\ \E p \in 1 .. Len(result_cbs), id \in FoundIds(d) :
                 /\ faults' = 0 => id = GetId(d)
                 /\ p \in Matches(id)
                 /\ running' = Append(running, result_cbs[p])
                 /\ result_cbs' = Without(result_cbs, p)
                 /\ completed' = [completed EXCEPT ![result_cbs[p].send] = Append(@, d)]
<1>1. PICK id \in FoundIds(d) :
        /\ IdFound(d, id) /\ id # Absent /\ Matches(id) # {}
        /\ running' = Append(running, result_cbs[FirstMatch(id)])
        /\ result_cbs' = Without(result_cbs, FirstMatch(id))
        /\ completed' = [completed EXCEPT ![result_cbs[FirstMatch(id)].send] = Append(@, d)]
  BY FoundNowIs DEF ProcessResponse, Called
<1>2. /\ faults' \in 0 .. MaxFaults /\ faults' >= faults
      /\ faults' = 0 => id = GetId(d)
  BY <1>1, IdFoundFaults DEF TypeOK
<1>3. FirstMatch(id) \in 1 .. Len(result_cbs) /\ FirstMatch(id) \in Matches(id)
  BY <1>1, FirstMatchIs DEF TypeOK
<1> QED BY <1>1, <1>2, <1>3

LEMMA TypePreprocess ==
    ASSUME TypeOK, NEW k \in Sends, NEW m \in Requests, PreprocessRequest(k, m)
    PROVE  TypeOK'
<1>1. PICK id \in FoundIds(m) :
        (id # Absent => id \in Ids) /\ (Refused(id) \/ Replaced(id, k) \/ Added(id, k))
  BY PreprocessIs
<1>2. CASE Refused(id)
  BY <1>2, PreprocessIs DEF Refused, PreprocessRequest, TypeOK
<1>3. CASE Replaced(id, k)
  <2> DEFINE p == FirstMatch(id)
  <2>1. p \in 1 .. Len(result_cbs)
    BY <1>3, FirstMatchIs DEF Replaced, TypeOK
  <2> HIDE DEF p
  <2>2. result_cbs[p] \in Entry
    BY <2>1, ElementOfSeq DEF TypeOK
  <2>3. [result_cbs[p] EXCEPT !.send = k] \in Entry
    BY <2>2 DEF Entry
  <2>4. result_cbs' = [result_cbs EXCEPT ![p] = [result_cbs[p] EXCEPT !.send = k]]
    BY <1>3, <2>1 DEF Replaced, TypeOK, p
  <2>5. result_cbs' \in Seq(Entry)
    BY <2>1, <2>3, <2>4, ExceptSeq DEF TypeOK
  <2>6. accepted' \in Seq(Sends)
    BY <1>3 DEF Replaced, TypeOK
  <2> QED BY <2>5, <2>6, PreprocessIs DEF PreprocessRequest, TypeOK
<1>4. CASE Added(id, k)
  <2>1. [id |-> id, send |-> k] \in Entry
    BY <1>1, <1>4 DEF Added, Entry
  <2>2. result_cbs' \in Seq(Entry)
    BY <1>4, <2>1, HeadAdded DEF Added, TypeOK
  <2>3. accepted' \in Seq(Sends)
    BY <1>4 DEF Added, TypeOK
  <2> QED BY <2>2, <2>3, PreprocessIs DEF PreprocessRequest, TypeOK
<1> QED BY <1>1, <1>2, <1>3, <1>4

LEMMA TypeProcessResponse ==
    ASSUME TypeOK, NEW d \in Responses, ProcessResponse(d)
    PROVE  TypeOK'
<1>1. /\ jr' = jr /\ request' = request /\ accepted' = accepted
      /\ arrivals' = arrivals + 1 /\ arrivals < MaxArrivals
  BY DEF ProcessResponse, Arrive
<1>2. PICK p \in 1 .. Len(result_cbs) :
        /\ running' = Append(running, result_cbs[p])
        /\ result_cbs' = Without(result_cbs, p)
        /\ completed' = [completed EXCEPT ![result_cbs[p].send] = Append(@, d)]
  BY ProcessResponseIs
<1>3. result_cbs[p] \in Entry /\ result_cbs[p].send \in Sends
  BY EntryType DEF TypeOK
<1>4. result_cbs' \in Seq(Entry) /\ running' \in Seq(Entry)
  BY <1>2, <1>3, EntryRemoved, AppendProperties DEF TypeOK
<1>5. Append(completed[result_cbs[p].send], d) \in Seq(Responses)
  BY <1>3 DEF TypeOK
<1>6. completed' \in [Sends -> Seq(Responses)]
  BY <1>2, <1>5 DEF TypeOK
<1>7. faults' \in 0 .. MaxFaults
  BY ProcessResponseIs
<1> QED BY <1>1, <1>2, <1>3, <1>4, <1>6, <1>7 DEF TypeOK

LEMMA DropIs ==
    ASSUME TypeOK, NEW d \in Responses, DropResponse(d)
    PROVE  /\ UNCHANGED <<jr, request, accepted, result_cbs, running, completed>>
           /\ faults' \in 0 .. MaxFaults /\ faults' >= faults
           /\ arrivals' \in 0 .. MaxArrivals
<1>1. PICK id \in FoundIds(d) : IdFound(d, id)
  BY FoundNowIs DEF DropResponse
<1>2. faults' \in 0 .. MaxFaults /\ faults' >= faults
  BY <1>1, IdFoundFaults DEF TypeOK
<1> QED BY <1>2 DEF DropResponse, Arrive, TypeOK

(* A step of Next, by the variables it changes.                               *)
LEMMA TypeStep == TypeOK /\ [Next]_vars => TypeOK'
<1> SUFFICES ASSUME TypeOK, [Next]_vars PROVE TypeOK'
  OBVIOUS
<1>1. ASSUME NEW k \in Sends, NEW m \in Requests, PreprocessRequest(k, m) PROVE TypeOK'
  BY <1>1, TypePreprocess
<1>2. ASSUME NEW k \in Sends, NEW m \in Requests, PreprocessNoMemory(k, m) PROVE TypeOK'
  BY <1>2 DEF PreprocessNoMemory, Fail, TypeOK
<1>3. ASSUME NEW d \in Responses, ProcessResponse(d) PROVE TypeOK'
  BY <1>3, TypeProcessResponse
<1>4. ASSUME NEW d \in Responses, DropResponse(d) PROVE TypeOK'
  BY <1>4, DropIs DEF TypeOK
<1>5. CASE CallbackReturns
  <2>1. running' \in Seq(Entry)
    BY <1>5, LastRemoved DEF CallbackReturns, TypeOK
  <2> QED BY <1>5, <2>1 DEF CallbackReturns, TypeOK
<1>6. CASE JsonRpcFree
  <2>1. << >> \in Seq(Entry)
    OBVIOUS
  <2> QED BY <1>6, <2>1 DEF JsonRpcFree, TypeOK
<1>7. CASE UNCHANGED vars
  BY <1>7 DEF vars, TypeOK
<1> QED BY <1>1, <1>2, <1>3, <1>4, <1>5, <1>6, <1>7 DEF Next

(* Every variable of the client half keeps its type, whatever the peer sends  *)
(* and whatever allocation fails.                                             *)
THEOREM ClientTypes == Spec => []TypeOK
<1> QED BY TypeInit, TypeStep, PTL DEF Spec
-----------------------------------------------------------------------------
(* Registrations.                                                             *)

(* Each call has one registration at most, made after it was sent; it is not  *)
(* completed while registered, and the entry has its id as long as no         *)
(* allocation failed.                                                         *)
EntryOfCall(p) ==
    LET k == result_cbs[p].send
    IN  /\ request[k] # NULL /\ completed[k] = << >>
        /\ faults = 0 => IdEquals(result_cbs[p].id, GetId(request[k]))

RegisteredOnce ==
    /\ \A p \in DOMAIN result_cbs : EntryOfCall(p)
    /\ \A p, q \in DOMAIN result_cbs : result_cbs[p].send = result_cbs[q].send => p = q
    /\ \A k \in Sends : request[k] = NULL => completed[k] = << >>
    /\ \A a \in DOMAIN accepted : request[accepted[a]] # NULL

(* The inductive invariant.                                                   *)
ClientInvariant == UniqueIds /\ RegisteredOnce /\ CompletedOnceByOwnId /\ NoCallbackLost

(* json_equals finds one entry at most.                                       *)
LEMMA MatchUnique ==
    ASSUME TypeOK, UniqueIds, NEW c, IsId(c), NEW p \in Matches(c), NEW q \in Matches(c)
    PROVE  p = q
<1>1. /\ p \in DOMAIN result_cbs /\ IdEquals(result_cbs[p].id, c)
      /\ q \in DOMAIN result_cbs /\ IdEquals(result_cbs[q].id, c)
  BY DEF Matches
<1>2. IdEquals(result_cbs[p].id, result_cbs[q].id)
  BY <1>1, EntryType, IdsMeet DEF TypeOK
<1> QED BY <1>1, <1>2 DEF UniqueIds

LEMMA FirstMatchUnique ==
    ASSUME TypeOK, UniqueIds, NEW c, IsId(c), NEW p \in Matches(c)
    PROVE  FirstMatch(c) = p
<1>1. FirstMatch(c) \in Matches(c)
  BY FirstMatchIs DEF TypeOK
<1> QED BY <1>1, MatchUnique

(* What a call of json_rpc_preprocess_request finds and leaves.               *)
LEMMA PreprocessCases ==
    ASSUME TypeOK, NEW k \in Sends, NEW m \in Requests, PreprocessRequest(k, m)
    PROVE  /\ request[k] = NULL /\ m # NULL /\ k # NULL
           /\ request' = [request EXCEPT ![k] = m]
           /\ jr' = jr /\ running' = running /\ completed' = completed
           /\ faults' = 0 => faults = 0
<1>1. faults' \in Nat /\ faults \in Nat /\ faults' >= faults
  BY PreprocessIs DEF TypeOK
<1> QED BY <1>1 DEF PreprocessRequest

LEMMA InvariantInit == Init => ClientInvariant
<1> SUFFICES ASSUME Init PROVE ClientInvariant
  OBVIOUS
<1>1. /\ DOMAIN result_cbs = {} /\ DOMAIN accepted = {}
      /\ \A k \in Sends : completed[k] = << >> /\ Len(completed[k]) = 0 /\ DOMAIN completed[k] = {}
  BY DEF Init
<1> QED BY <1>1 DEF ClientInvariant, UniqueIds, RegisteredOnce, CompletedOnceByOwnId, NoCallbackLost

(* A call that was turned down changes nothing for the others.                *)
LEMMA UnregisteredSent ==
    ASSUME TypeOK, ClientInvariant, NEW k \in Sends, NEW m, m # NULL, request[k] = NULL,
           jr' = jr, completed' = completed, result_cbs' = result_cbs, accepted' = accepted,
           faults' = 0 => faults = 0,
           \A l \in Sends : request'[l] = IF l = k THEN m ELSE request[l]
    PROVE  ClientInvariant'
<1>1. \A p \in DOMAIN result_cbs : result_cbs[p].send \in Sends /\ result_cbs[p].send # k
  BY EntryType DEF ClientInvariant, RegisteredOnce, EntryOfCall, TypeOK
<1>2. \A a \in DOMAIN accepted : accepted[a] \in Sends /\ accepted[a] # k
  BY DEF ClientInvariant, RegisteredOnce, TypeOK
<1>3. \A p \in DOMAIN result_cbs : EntryOfCall(p)'
  BY <1>1 DEF ClientInvariant, RegisteredOnce, EntryOfCall
<1>4. RegisteredOnce'
  BY <1>2, <1>3 DEF ClientInvariant, RegisteredOnce
<1>5. CompletedOnceByOwnId'
  <2>1. ASSUME NEW l \in Sends, NEW r \in DOMAIN completed[l] PROVE l # k
    BY <2>1 DEF ClientInvariant, RegisteredOnce
  <2> QED BY <2>1 DEF ClientInvariant, CompletedOnceByOwnId
<1>6. NoCallbackLost'
  <2>1. \A a \in DOMAIN accepted : request'[accepted[a]] = request[accepted[a]]
    BY <1>2
  <2> QED BY <2>1 DEF ClientInvariant, NoCallbackLost
<1> QED BY <1>4, <1>5, <1>6 DEF ClientInvariant, UniqueIds

(* A new entry has no equal in the list, in either direction.                 *)
LEMMA AddedUnique ==
    ASSUME TypeOK, UniqueIds, NEW k \in Sends, NEW id \in Ids, Added(id, k)
    PROVE  /\ result_cbs' \in Seq(Entry) /\ Len(result_cbs') = Len(result_cbs) + 1
           /\ result_cbs'[1] = [id |-> id, send |-> k]
           /\ \A p \in 1 .. Len(result_cbs) : result_cbs'[p + 1] = result_cbs[p]
           /\ \A p \in 2 .. Len(result_cbs') : result_cbs'[p] = result_cbs[p - 1]
           /\ UniqueIds'
<1> DEFINE e == [id |-> id, send |-> k]
<1>1. e \in Entry
  BY DEF Entry
<1>2. result_cbs' = <<e>> \o result_cbs
  BY DEF Added
<1>3. /\ result_cbs' \in Seq(Entry) /\ Len(result_cbs') = Len(result_cbs) + 1
      /\ result_cbs'[1] = e
      /\ \A p \in 1 .. Len(result_cbs) : result_cbs'[p + 1] = result_cbs[p]
      /\ \A p \in 2 .. Len(result_cbs') : result_cbs'[p] = result_cbs[p - 1]
  BY <1>1, <1>2, HeadAdded DEF TypeOK
<1>4. \A p \in 1 .. Len(result_cbs) : ~IdEquals(result_cbs[p].id, id)
  BY DEF Added, Matches, TypeOK
<1>5. \A p \in 1 .. Len(result_cbs) : ~IdEquals(id, result_cbs[p].id)
  <2> SUFFICES ASSUME NEW p \in 1 .. Len(result_cbs), IdEquals(id, result_cbs[p].id)
               PROVE  FALSE
    OBVIOUS
  <2>1. result_cbs[p].id \in Ids
    BY EntryType DEF TypeOK
  <2> QED BY <1>4, <2>1, RegisteredIds, IdSymmetric
<1>6. ASSUME NEW p \in DOMAIN result_cbs', NEW q \in DOMAIN result_cbs',
             IdEquals(result_cbs'[p].id, result_cbs'[q].id)
      PROVE  p = q
  <2>1. DOMAIN result_cbs' = 1 .. Len(result_cbs) + 1 /\ Len(result_cbs) \in Nat
    BY <1>3 DEF TypeOK
  <2>2. CASE p = 1 /\ q # 1
    <3>1. q - 1 \in 1 .. Len(result_cbs) /\ result_cbs'[q] = result_cbs[q - 1]
      BY <1>3, <2>1, <2>2
    <3> QED BY <1>3, <1>5, <1>6, <2>2, <3>1
  <2>3. CASE p # 1 /\ q = 1
    <3>1. p - 1 \in 1 .. Len(result_cbs) /\ result_cbs'[p] = result_cbs[p - 1]
      BY <1>3, <2>1, <2>3
    <3> QED BY <1>3, <1>4, <1>6, <2>3, <3>1
  <2>4. CASE p # 1 /\ q # 1
    <3>1. /\ p - 1 \in 1 .. Len(result_cbs) /\ result_cbs'[p] = result_cbs[p - 1]
          /\ q - 1 \in 1 .. Len(result_cbs) /\ result_cbs'[q] = result_cbs[q - 1]
      BY <1>3, <2>1, <2>4
    <3>2. DOMAIN result_cbs = 1 .. Len(result_cbs)
      BY DEF TypeOK
    <3>3. IdEquals(result_cbs[p - 1].id, result_cbs[q - 1].id)
      BY <1>6, <3>1
    <3>4. p - 1 = q - 1
      BY <3>1, <3>2, <3>3 DEF UniqueIds
    <3> QED BY <2>1, <3>4
  <2> QED BY <2>2, <2>3, <2>4
<1> QED BY <1>3, <1>6 DEF UniqueIds

LEMMA InvariantAdded ==
    ASSUME TypeOK, TypeOK', ClientInvariant, NEW k \in Sends, NEW m \in Requests, PreprocessRequest(k, m),
           NEW id \in Ids, Added(id, k), faults' = 0 => id = GetId(m)
    PROVE  ClientInvariant'
<1> DEFINE n == Len(result_cbs)
<1>1. /\ request[k] = NULL /\ m # NULL
      /\ request' = [request EXCEPT ![k] = m]
      /\ jr' = jr /\ completed' = completed
      /\ faults' = 0 => faults = 0
  BY PreprocessCases
<1>2. /\ n \in Nat /\ DOMAIN result_cbs = 1 .. n /\ DOMAIN result_cbs' = 1 .. n + 1
      /\ result_cbs'[1] = [id |-> id, send |-> k]
      /\ \A p \in 1 .. n : result_cbs'[p + 1] = result_cbs[p]
      /\ \A p \in 2 .. n + 1 : result_cbs'[p] = result_cbs[p - 1]
      /\ UniqueIds'
  <2>1. /\ result_cbs' \in Seq(Entry) /\ Len(result_cbs') = Len(result_cbs) + 1
        /\ result_cbs'[1] = [id |-> id, send |-> k]
        /\ \A p \in 1 .. Len(result_cbs) : result_cbs'[p + 1] = result_cbs[p]
        /\ \A p \in 2 .. Len(result_cbs') : result_cbs'[p] = result_cbs[p - 1]
        /\ UniqueIds'
    <3>1. UniqueIds
      BY DEF ClientInvariant
    <3> QED BY <3>1, AddedUnique, Zenon
  <2>2. /\ n \in Nat /\ DOMAIN result_cbs = 1 .. n
        /\ DOMAIN result_cbs' = 1 .. Len(result_cbs')
    BY <2>1 DEF TypeOK
  <2> QED BY <2>1, <2>2
<1>3. \A l \in Sends : request'[l] = IF l = k THEN m ELSE request[l]
  BY <1>1 DEF TypeOK
<1>4. \A p \in DOMAIN result_cbs : result_cbs[p].send \in Sends /\ result_cbs[p].send # k
  BY <1>1, EntryType DEF ClientInvariant, RegisteredOnce, EntryOfCall, TypeOK
<1>5. /\ accepted' = Append(accepted, k) /\ accepted \in Seq(Sends)
      /\ DOMAIN accepted = 1 .. Len(accepted) /\ Len(accepted) \in Nat
      /\ DOMAIN accepted' = 1 .. Len(accepted) + 1
      /\ accepted'[Len(accepted) + 1] = k
      /\ \A a \in 1 .. Len(accepted) : accepted'[a] = accepted[a] /\ accepted[a] \in Sends
  BY DEF Added, TypeOK
<1> HIDE DEF n
<1>6. \A a \in DOMAIN accepted : accepted[a] # k
  BY <1>1 DEF ClientInvariant, RegisteredOnce
<1>7. RegisteredOnce'
  <2>1. ASSUME NEW p \in DOMAIN result_cbs' PROVE EntryOfCall(p)'
    <3>1. CASE p = 1
      <4>1. completed[k] = << >>
        BY <1>1 DEF ClientInvariant, RegisteredOnce
      <4> QED BY <1>1, <1>2, <1>3, <3>1, <4>1, IdReflexive DEF EntryOfCall
    <3>2. CASE p # 1
      <4>1. p - 1 \in DOMAIN result_cbs /\ result_cbs'[p] = result_cbs[p - 1]
        BY <1>2, <3>2
      <4>2. EntryOfCall(p - 1)
        BY <4>1 DEF ClientInvariant, RegisteredOnce
      <4>3. result_cbs[p - 1].send # k /\ result_cbs[p - 1].send \in Sends
        BY <1>4, <4>1
      <4> QED BY <1>1, <1>3, <4>1, <4>2, <4>3 DEF EntryOfCall
    <3> QED BY <3>1, <3>2
  <2>2. ASSUME NEW p \in DOMAIN result_cbs', NEW q \in DOMAIN result_cbs',
               result_cbs'[p].send = result_cbs'[q].send
        PROVE  p = q
    <3>1. ASSUME NEW r \in DOMAIN result_cbs', r # 1
          PROVE  /\ r - 1 \in DOMAIN result_cbs /\ result_cbs'[r] = result_cbs[r - 1]
                 /\ result_cbs'[r].send # k
      BY <1>2, <1>4, <3>1
    <3>2. CASE p # 1 /\ q # 1
      <4>1. p - 1 = q - 1
        BY <2>2, <3>1, <3>2 DEF ClientInvariant, RegisteredOnce
      <4> QED BY <1>2, <4>1
    <3>3. result_cbs'[1].send = k
      BY <1>2
    <3> QED BY <2>2, <3>1, <3>2, <3>3
  <2>3. \A l \in Sends : request'[l] = NULL => completed'[l] = << >>
    BY <1>1, <1>3 DEF ClientInvariant, RegisteredOnce
  <2>4. \A a \in DOMAIN accepted' : request'[accepted'[a]] # NULL
    BY <1>1, <1>3, <1>5, <1>6 DEF ClientInvariant, RegisteredOnce
  <2> QED BY <2>1, <2>2, <2>3, <2>4 DEF RegisteredOnce
<1>8. CompletedOnceByOwnId'
  <2>1. ASSUME NEW l \in Sends, NEW r \in DOMAIN completed[l] PROVE l # k
    BY <1>1, <2>1 DEF ClientInvariant, RegisteredOnce
  <2> QED BY <1>1, <1>3, <2>1 DEF ClientInvariant, CompletedOnceByOwnId
<1>9. NoCallbackLost'
  <2> SUFFICES ASSUME jr' = "live", faults' = 0, NEW a \in DOMAIN accepted'
               PROVE  \/ \E p \in DOMAIN result_cbs' : result_cbs'[p].send = accepted'[a]
                      \/ completed'[accepted'[a]] # << >>
                      \/ \E b \in DOMAIN accepted' : b > a /\
                            IdEquals(GetId(request'[accepted'[a]]), GetId(request'[accepted'[b]]))
    BY DEF NoCallbackLost
  <2>1. CASE a = Len(accepted) + 1
    <3>1. 1 \in DOMAIN result_cbs' /\ result_cbs'[1].send = accepted'[a]
      BY <1>2, <1>5, <2>1
    <3> QED BY <3>1
  <2>2. CASE a # Len(accepted) + 1
    <3>1. a \in DOMAIN accepted /\ accepted'[a] = accepted[a] /\ accepted[a] \in Sends
      BY <1>5, <2>2
    <3>2. \/ \E p \in DOMAIN result_cbs : result_cbs[p].send = accepted[a]
          \/ completed[accepted[a]] # << >>
          \/ \E b \in DOMAIN accepted : b > a /\
                IdEquals(GetId(request[accepted[a]]), GetId(request[accepted[b]]))
      BY <1>1, <3>1 DEF ClientInvariant, NoCallbackLost
    <3>3. ASSUME NEW p \in DOMAIN result_cbs, result_cbs[p].send = accepted[a]
          PROVE  \E q \in DOMAIN result_cbs' : result_cbs'[q].send = accepted'[a]
      <4>1. p + 1 \in DOMAIN result_cbs' /\ result_cbs'[p + 1] = result_cbs[p]
        BY <1>2
      <4> QED BY <3>1, <3>3, <4>1
    <3>4. ASSUME NEW b \in DOMAIN accepted, b > a,
                 IdEquals(GetId(request[accepted[a]]), GetId(request[accepted[b]]))
          PROVE  b \in DOMAIN accepted' /\
                    IdEquals(GetId(request'[accepted'[a]]), GetId(request'[accepted'[b]]))
      <4>1. /\ b \in DOMAIN accepted' /\ accepted'[b] = accepted[b]
            /\ accepted[b] \in Sends
        BY <1>5
      <4>2. request'[accepted[a]] = request[accepted[a]] /\ request'[accepted[b]] = request[accepted[b]]
        BY <1>3, <1>6, <3>1, <4>1
      <4> QED BY <3>1, <3>4, <4>1, <4>2
    <3> QED BY <1>1, <3>1, <3>2, <3>3, <3>4
  <2> QED BY <2>1, <2>2
<1> QED BY <1>2, <1>7, <1>8, <1>9 DEF ClientInvariant

(* A call under an id that waits takes over the entry.                        *)
LEMMA ReplacedIs ==
    ASSUME TypeOK, NEW k \in Sends, NEW id, Replaced(id, k)
    PROVE  /\ FirstMatch(id) \in DOMAIN result_cbs
           /\ IdEquals(result_cbs[FirstMatch(id)].id, id)
           /\ DOMAIN result_cbs' = DOMAIN result_cbs
           /\ \A p \in DOMAIN result_cbs :
                 /\ result_cbs'[p].id = result_cbs[p].id
                 /\ result_cbs'[p].send = IF p = FirstMatch(id) THEN k ELSE result_cbs[p].send
<1>1. FirstMatch(id) \in Matches(id)
  BY FirstMatchIs DEF Replaced, TypeOK
<1>2. FirstMatch(id) \in DOMAIN result_cbs /\ IdEquals(result_cbs[FirstMatch(id)].id, id)
  BY <1>1 DEF Matches
<1> DEFINE f == FirstMatch(id)
<1>3. result_cbs' = [result_cbs EXCEPT ![f] = [result_cbs[f] EXCEPT !.send = k]]
  BY <1>2 DEF Replaced
<1>4. \A p \in DOMAIN result_cbs : result_cbs[p] \in Entry
  BY EntryType DEF TypeOK
<1> HIDE DEF f
<1>5. ASSUME NEW p \in DOMAIN result_cbs
      PROVE  /\ result_cbs'[p].id = result_cbs[p].id
             /\ result_cbs'[p].send = IF p = f THEN k ELSE result_cbs[p].send
  <2>1. CASE p = f
    <3>1. result_cbs'[p] = [result_cbs[p] EXCEPT !.send = k]
      BY <1>2, <1>3, <2>1
    <3> QED BY <1>4, <2>1, <3>1 DEF Entry
  <2>2. CASE p # f
    BY <1>3, <2>2
  <2> QED BY <2>1, <2>2
<1>6. DOMAIN result_cbs' = DOMAIN result_cbs
  BY <1>3
<1> QED BY <1>2, <1>5, <1>6 DEF f

LEMMA InvariantReplaced ==
    ASSUME TypeOK, TypeOK', ClientInvariant, NEW k \in Sends, NEW m \in Requests, PreprocessRequest(k, m),
           NEW id \in Ids, Replaced(id, k), faults' = 0 => id = GetId(m)
    PROVE  ClientInvariant'
<1> DEFINE f == FirstMatch(id)
<1>1. /\ request[k] = NULL /\ m # NULL
      /\ request' = [request EXCEPT ![k] = m]
      /\ jr' = jr /\ completed' = completed
      /\ faults' = 0 => faults = 0
  BY PreprocessCases
<1>2. /\ f \in DOMAIN result_cbs /\ IdEquals(result_cbs[f].id, id)
      /\ DOMAIN result_cbs' = DOMAIN result_cbs
      /\ \A p \in DOMAIN result_cbs :
            /\ result_cbs'[p].id = result_cbs[p].id
            /\ result_cbs'[p].send = IF p = f THEN k ELSE result_cbs[p].send
  BY ReplacedIs
<1>3. \A l \in Sends : request'[l] = IF l = k THEN m ELSE request[l]
  BY <1>1 DEF TypeOK
<1>4. \A p \in DOMAIN result_cbs : result_cbs[p].send \in Sends /\ result_cbs[p].send # k
  BY <1>1, EntryType DEF ClientInvariant, RegisteredOnce, EntryOfCall, TypeOK
<1>5. /\ accepted' = Append(accepted, k) /\ accepted \in Seq(Sends)
      /\ DOMAIN accepted = 1 .. Len(accepted) /\ Len(accepted) \in Nat
      /\ DOMAIN accepted' = 1 .. Len(accepted) + 1
      /\ accepted'[Len(accepted) + 1] = k
      /\ \A a \in 1 .. Len(accepted) : accepted'[a] = accepted[a] /\ accepted[a] \in Sends
  <2>1. accepted' = Append(accepted, k)
    BY DEF Replaced
  <2>2. accepted \in Seq(Sends)
    BY DEF TypeOK
  <2> QED BY <2>1, <2>2
<1> HIDE DEF f
<1>6. \A a \in DOMAIN accepted : accepted[a] # k
  BY <1>1 DEF ClientInvariant, RegisteredOnce
<1>7. UniqueIds'
  BY <1>2 DEF ClientInvariant, UniqueIds
<1>8. RegisteredOnce'
  <2>1. ASSUME NEW p \in DOMAIN result_cbs' PROVE EntryOfCall(p)'
    <3>1. CASE p = f
      <4>1. completed[k] = << >>
        BY <1>1 DEF ClientInvariant, RegisteredOnce
      <4> QED BY <1>1, <1>2, <1>3, <3>1, <4>1 DEF EntryOfCall
    <3>2. CASE p # f
      <4>1. EntryOfCall(p)
        BY <1>2, <2>1 DEF ClientInvariant, RegisteredOnce
      <4> QED BY <1>1, <1>2, <1>3, <1>4, <2>1, <3>2, <4>1 DEF EntryOfCall
    <3> QED BY <3>1, <3>2
  <2>2. ASSUME NEW p \in DOMAIN result_cbs', NEW q \in DOMAIN result_cbs',
               result_cbs'[p].send = result_cbs'[q].send
        PROVE  p = q
    BY <1>2, <1>4, <2>2 DEF ClientInvariant, RegisteredOnce
  <2>3. \A l \in Sends : request'[l] = NULL => completed'[l] = << >>
    BY <1>1, <1>3 DEF ClientInvariant, RegisteredOnce
  <2>4. \A a \in DOMAIN accepted' : request'[accepted'[a]] # NULL
    BY <1>1, <1>3, <1>5, <1>6 DEF ClientInvariant, RegisteredOnce
  <2> QED BY <2>1, <2>2, <2>3, <2>4 DEF RegisteredOnce
<1>9. CompletedOnceByOwnId'
  <2>1. ASSUME NEW l \in Sends, NEW r \in DOMAIN completed[l] PROVE l # k
    BY <1>1, <2>1 DEF ClientInvariant, RegisteredOnce
  <2> QED BY <1>1, <1>3, <2>1 DEF ClientInvariant, CompletedOnceByOwnId
<1>10. NoCallbackLost'
  <2> SUFFICES ASSUME jr' = "live", faults' = 0, NEW a \in DOMAIN accepted'
               PROVE  \/ \E p \in DOMAIN result_cbs' : result_cbs'[p].send = accepted'[a]
                      \/ completed'[accepted'[a]] # << >>
                      \/ \E b \in DOMAIN accepted' : b > a /\
                            IdEquals(GetId(request'[accepted'[a]]), GetId(request'[accepted'[b]]))
    BY DEF NoCallbackLost
  <2>1. CASE a = Len(accepted) + 1
    <3>1. f \in DOMAIN result_cbs' /\ result_cbs'[f].send = accepted'[a]
      BY <1>2, <1>5, <2>1
    <3> QED BY <3>1
  <2>2. CASE a # Len(accepted) + 1
    <3>1. a \in DOMAIN accepted /\ accepted'[a] = accepted[a] /\ accepted[a] \in Sends
      BY <1>5, <2>2
    <3>2. \/ \E p \in DOMAIN result_cbs : result_cbs[p].send = accepted[a]
          \/ completed[accepted[a]] # << >>
          \/ \E b \in DOMAIN accepted : b > a /\
                IdEquals(GetId(request[accepted[a]]), GetId(request[accepted[b]]))
      BY <1>1, <3>1 DEF ClientInvariant, NoCallbackLost
    <3>3. CASE result_cbs[f].send = accepted[a]
      <4> DEFINE l == accepted[a]
                 b == Len(accepted) + 1
      <4>1. IdEquals(result_cbs[f].id, GetId(request[l]))
        BY <1>1, <1>2, <3>3 DEF ClientInvariant, RegisteredOnce, EntryOfCall
      <4>2. IsId(result_cbs[f].id) /\ Distinct(result_cbs[f].id)
        BY <1>2, EntryType, RegisteredIds DEF TypeOK
      <4>3. IsId(GetId(request[l]))
        <5>1. request[l] \in Requests
          BY <1>2, <3>1, <3>3 DEF ClientInvariant, RegisteredOnce, EntryOfCall, TypeOK
        <5> QED BY <5>1, FoundIsId
      <4>4. IdEquals(GetId(request[l]), result_cbs[f].id)
        BY <4>1, <4>2, <4>3, IdSymmetric
      <4>5. IdEquals(GetId(request[l]), GetId(m))
        BY <1>2, <4>4, IdTransitive
      <4>6. b \in DOMAIN accepted' /\ b > a /\ accepted'[b] = k
        BY <1>5, <3>1
      <4>7. request'[k] = m /\ request'[l] = request[l]
        BY <1>3, <1>6, <3>1
      <4> QED BY <3>1, <4>5, <4>6, <4>7
    <3>4. ASSUME NEW p \in DOMAIN result_cbs, result_cbs[p].send = accepted[a], p # f
          PROVE  \E q \in DOMAIN result_cbs' : result_cbs'[q].send = accepted'[a]
      BY <1>2, <3>1, <3>4
    <3>5. ASSUME NEW b \in DOMAIN accepted, b > a,
                 IdEquals(GetId(request[accepted[a]]), GetId(request[accepted[b]]))
          PROVE  b \in DOMAIN accepted' /\
                    IdEquals(GetId(request'[accepted'[a]]), GetId(request'[accepted'[b]]))
      <4>1. b \in DOMAIN accepted' /\ accepted'[b] = accepted[b] /\ accepted[b] \in Sends
        BY <1>5
      <4>2. request'[accepted[a]] = request[accepted[a]] /\ request'[accepted[b]] = request[accepted[b]]
        BY <1>3, <1>6, <3>1, <4>1
      <4> QED BY <3>1, <3>5, <4>1, <4>2
    <3> QED BY <1>1, <3>1, <3>2, <3>3, <3>4, <3>5
  <2> QED BY <2>1, <2>2
<1> QED BY <1>7, <1>8, <1>9, <1>10 DEF ClientInvariant

LEMMA InvariantPreprocess ==
    ASSUME TypeOK, TypeOK', ClientInvariant, NEW k \in Sends, NEW m \in Requests, PreprocessRequest(k, m)
    PROVE  ClientInvariant'
<1>1. PICK id \in FoundIds(m) :
        /\ faults' = 0 => id = GetId(m)
        /\ id # Absent => id \in Ids
        /\ Refused(id) \/ Replaced(id, k) \/ Added(id, k)
  BY PreprocessIs
<1>2. CASE Added(id, k)
  BY <1>1, <1>2, InvariantAdded DEF Added
<1>3. CASE Replaced(id, k)
  BY <1>1, <1>3, InvariantReplaced DEF Replaced
<1>4. CASE Refused(id)
  <2>1. /\ request[k] = NULL /\ m # NULL
        /\ jr' = jr /\ completed' = completed /\ result_cbs' = result_cbs /\ accepted' = accepted
        /\ faults' = 0 => faults = 0
    BY <1>4, PreprocessCases DEF Refused
  <2>2. \A l \in Sends : request'[l] = IF l = k THEN m ELSE request[l]
    BY PreprocessCases DEF TypeOK
  <2> QED BY <2>1, <2>2, UnregisteredSent
<1> QED BY <1>1, <1>2, <1>3, <1>4

(* The place an entry had before entry p was removed, and the one it has      *)
(* after.                                                                     *)
Before(q, p) == IF q < p THEN q ELSE q + 1
After(r, p) == IF r < p THEN r ELSE r - 1

LEMMA RemovedIs ==
    ASSUME TypeOK, NEW p \in DOMAIN result_cbs, result_cbs' = Without(result_cbs, p)
    PROVE  /\ \A q \in DOMAIN result_cbs' :
                 /\ Before(q, p) \in DOMAIN result_cbs \ {p}
                 /\ result_cbs'[q] = result_cbs[Before(q, p)]
           /\ \A q, r \in DOMAIN result_cbs' : Before(q, p) = Before(r, p) => q = r
           /\ \A r \in DOMAIN result_cbs \ {p} :
                 After(r, p) \in DOMAIN result_cbs' /\ result_cbs'[After(r, p)] = result_cbs[r]
<1> DEFINE n == Len(result_cbs)
<1>1. n \in Nat /\ DOMAIN result_cbs = 1 .. n /\ p \in 1 .. n
  BY DEF TypeOK
<1>2. /\ result_cbs' \in Seq(Entry) /\ Len(result_cbs') = n - 1
      /\ \A q \in 1 .. n - 1 : result_cbs'[q] = IF q < p THEN result_cbs[q] ELSE result_cbs[q + 1]
  BY <1>1, EntryRemoved DEF TypeOK
<1>3. DOMAIN result_cbs' = 1 .. n - 1
  BY <1>2
<1> HIDE DEF n
<1>4. ASSUME NEW q \in DOMAIN result_cbs'
      PROVE  /\ Before(q, p) \in DOMAIN result_cbs \ {p}
             /\ result_cbs'[q] = result_cbs[Before(q, p)]
  BY <1>1, <1>2, <1>3 DEF Before
<1>5. \A q, r \in DOMAIN result_cbs' : Before(q, p) = Before(r, p) => q = r
  BY <1>1, <1>3 DEF Before
<1>6. ASSUME NEW r \in DOMAIN result_cbs \ {p}
      PROVE  After(r, p) \in DOMAIN result_cbs' /\ result_cbs'[After(r, p)] = result_cbs[r]
  <2>1. CASE r < p
    BY <1>1, <1>2, <1>3, <2>1 DEF After
  <2>2. CASE r > p
    <3>1. r - 1 \in 1 .. n - 1 /\ ~(r - 1 < p) /\ r - 1 + 1 = r /\ After(r, p) = r - 1
      BY <1>1, <2>2 DEF After
    <3> QED BY <1>2, <1>3, <3>1
  <2> QED BY <1>1, <2>1, <2>2
<1> QED BY <1>4, <1>5, <1>6

LEMMA InvariantProcessResponse ==
    ASSUME TypeOK, TypeOK', ClientInvariant, NEW d \in Responses, ProcessResponse(d)
    PROVE  ClientInvariant'
<1>1. PICK p \in DOMAIN result_cbs, id \in FoundIds(d) :
        /\ faults' = 0 => id = GetId(d)
        /\ p \in Matches(id)
        /\ result_cbs' = Without(result_cbs, p)
        /\ completed' = [completed EXCEPT ![result_cbs[p].send] = Append(@, d)]
  <2>1. DOMAIN result_cbs = 1 .. Len(result_cbs)
    BY DEF TypeOK
  <2> QED BY <2>1, ProcessResponseIs
<1> DEFINE k == result_cbs[p].send
<1>2. k \in Sends /\ result_cbs[p].id \in Ids
  BY EntryType DEF TypeOK
<1>3. /\ jr' = jr /\ request' = request /\ accepted' = accepted
      /\ faults' = 0 => faults = 0
  <2>1. jr' = jr /\ request' = request /\ accepted' = accepted
    BY DEF ProcessResponse, Arrive
  <2>2. faults' >= faults /\ faults' \in Nat /\ faults \in Nat
    BY ProcessResponseIs DEF TypeOK
  <2> QED BY <2>1, <2>2
<1>4. /\ \A q \in DOMAIN result_cbs' :
            /\ Before(q, p) \in DOMAIN result_cbs \ {p}
            /\ result_cbs'[q] = result_cbs[Before(q, p)]
      /\ \A q, r \in DOMAIN result_cbs' : Before(q, p) = Before(r, p) => q = r
      /\ \A r \in DOMAIN result_cbs \ {p} :
            After(r, p) \in DOMAIN result_cbs' /\ result_cbs'[After(r, p)] = result_cbs[r]
  BY <1>1, RemovedIs
<1>5. EntryOfCall(p)
  BY DEF ClientInvariant, RegisteredOnce
<1>6. completed[k] = << >> /\ request[k] # NULL
  BY <1>5 DEF EntryOfCall
<1>7. \A l \in Sends : completed'[l] = IF l = k THEN Append(<< >>, d) ELSE completed[l]
  BY <1>1, <1>2, <1>6 DEF TypeOK
<1>8. \A r \in DOMAIN result_cbs \ {p} : result_cbs[r].send # k /\ result_cbs[r].send \in Sends
  BY EntryType DEF ClientInvariant, RegisteredOnce, TypeOK
<1> HIDE DEF k
<1>9. UniqueIds'
  <2> SUFFICES ASSUME NEW q \in DOMAIN result_cbs', NEW r \in DOMAIN result_cbs',
                      IdEquals(result_cbs'[q].id, result_cbs'[r].id)
               PROVE  q = r
    BY DEF UniqueIds
  <2>1. Before(q, p) = Before(r, p)
    BY <1>4 DEF ClientInvariant, UniqueIds
  <2> QED BY <1>4, <2>1
<1>10. RegisteredOnce'
  <2>1. ASSUME NEW q \in DOMAIN result_cbs' PROVE EntryOfCall(q)'
    <3>1. EntryOfCall(Before(q, p)) /\ result_cbs[Before(q, p)].send # k
      BY <1>4, <1>8, <2>1 DEF ClientInvariant, RegisteredOnce
    <3>2. result_cbs[Before(q, p)].send \in Sends
      BY <1>4, <1>8, <2>1
    <3> QED BY <1>3, <1>4, <1>7, <2>1, <3>1, <3>2 DEF EntryOfCall
  <2>2. ASSUME NEW q \in DOMAIN result_cbs', NEW r \in DOMAIN result_cbs',
               result_cbs'[q].send = result_cbs'[r].send
        PROVE  q = r
    <3>1. Before(q, p) = Before(r, p)
      BY <1>4, <2>2 DEF ClientInvariant, RegisteredOnce
    <3> QED BY <1>4, <3>1
  <2>3. \A l \in Sends : request'[l] = NULL => completed'[l] = << >>
    BY <1>3, <1>6, <1>7 DEF ClientInvariant, RegisteredOnce
  <2>4. \A a \in DOMAIN accepted' : request'[accepted'[a]] # NULL
    BY <1>3 DEF ClientInvariant, RegisteredOnce
  <2> QED BY <2>1, <2>2, <2>3, <2>4 DEF RegisteredOnce
<1>11. CompletedOnceByOwnId'
  <2> SUFFICES ASSUME NEW l \in Sends
               PROVE  /\ Len(completed'[l]) <= 1
                      /\ \A r \in DOMAIN completed'[l] :
                            faults' = 0 => IdEquals(GetId(request'[l]), GetId(completed'[l][r]))
    BY DEF CompletedOnceByOwnId
  <2>1. CASE l # k
    BY <1>3, <1>7, <2>1 DEF ClientInvariant, CompletedOnceByOwnId
  <2>2. CASE l = k
    <3>1. completed'[l] = <<d>>
      BY <1>7, <2>2
    <3>2. faults' = 0 => IdEquals(GetId(request[k]), GetId(d))
      <4> SUFFICES ASSUME faults' = 0 PROVE IdEquals(GetId(request[k]), GetId(d))
        OBVIOUS
      <4>1. IdEquals(result_cbs[p].id, GetId(d))
        BY <1>1 DEF Matches
      <4>2. IdEquals(result_cbs[p].id, GetId(request[k]))
        BY <1>3, <1>5 DEF EntryOfCall, k
      <4>3. IsId(GetId(request[k]))
        <5>1. request[k] \in Requests
          BY <1>2, <1>6 DEF TypeOK
        <5> QED BY <5>1, FoundIsId
      <4>4. IdEquals(GetId(request[k]), result_cbs[p].id)
        BY <1>2, <4>2, <4>3, RegisteredIds, IdSymmetric
      <4> QED BY <4>1, <4>4, IdTransitive
    <3>3. Len(completed'[l]) = 1 /\ DOMAIN completed'[l] = {1} /\ completed'[l][1] = d
      BY <3>1
    <3> QED BY <1>3, <2>2, <3>2, <3>3
  <2> QED BY <2>1, <2>2
<1>12. NoCallbackLost'
  <2> SUFFICES ASSUME jr' = "live", faults' = 0, NEW a \in DOMAIN accepted
               PROVE  \/ \E q \in DOMAIN result_cbs' : result_cbs'[q].send = accepted[a]
                      \/ completed'[accepted[a]] # << >>
                      \/ \E b \in DOMAIN accepted : b > a /\
                            IdEquals(GetId(request[accepted[a]]), GetId(request[accepted[b]]))
    BY <1>3 DEF NoCallbackLost
  <2>1. accepted[a] \in Sends
    BY DEF TypeOK
  <2>2. CASE accepted[a] = k
    <3>1. completed'[k] # << >>
      <4>1. completed'[k] = Append(<< >>, d)
        BY <2>1, <2>2, <1>7
      <4> QED BY <4>1
    <3> QED BY <2>2, <3>1
  <2>3. CASE accepted[a] # k
    <3>1. \/ \E q \in DOMAIN result_cbs : result_cbs[q].send = accepted[a]
          \/ completed[accepted[a]] # << >>
          \/ \E b \in DOMAIN accepted : b > a /\
                IdEquals(GetId(request[accepted[a]]), GetId(request[accepted[b]]))
      BY <1>3 DEF ClientInvariant, NoCallbackLost
    <3>2. ASSUME NEW q \in DOMAIN result_cbs, result_cbs[q].send = accepted[a]
          PROVE  \E r \in DOMAIN result_cbs' : result_cbs'[r].send = accepted[a]
      <4>1. q \in DOMAIN result_cbs \ {p}
        BY <2>3, <3>2 DEF k
      <4> QED BY <1>4, <3>2, <4>1
    <3> QED BY <1>7, <2>1, <2>3, <3>1, <3>2
  <2> QED BY <2>2, <2>3
<1> QED BY <1>9, <1>10, <1>11, <1>12 DEF ClientInvariant

LEMMA InvariantStep == TypeOK /\ TypeOK' /\ ClientInvariant /\ [Next]_vars => ClientInvariant'
<1> SUFFICES ASSUME TypeOK, TypeOK', ClientInvariant, [Next]_vars PROVE ClientInvariant'
  OBVIOUS
<1>1. ASSUME NEW k \in Sends, NEW m \in Requests, PreprocessRequest(k, m) PROVE ClientInvariant'
  BY <1>1, InvariantPreprocess
<1>2. ASSUME NEW k \in Sends, NEW m \in Requests, PreprocessNoMemory(k, m) PROVE ClientInvariant'
  <2>1. /\ request[k] = NULL /\ m # NULL
        /\ jr' = jr /\ completed' = completed /\ result_cbs' = result_cbs /\ accepted' = accepted
        /\ request' = [request EXCEPT ![k] = m]
    BY <1>2 DEF PreprocessNoMemory
  <2>2. faults' # 0
    BY <1>2 DEF PreprocessNoMemory, Fail, TypeOK
  <2>3. \A l \in Sends : request'[l] = IF l = k THEN m ELSE request[l]
    BY <2>1 DEF TypeOK
  <2> QED BY <2>1, <2>2, <2>3, UnregisteredSent
<1>3. ASSUME NEW d \in Responses, ProcessResponse(d) PROVE ClientInvariant'
  BY <1>3, InvariantProcessResponse
<1>4. ASSUME jr' = jr, request' = request, accepted' = accepted, result_cbs' = result_cbs,
             completed' = completed, faults' >= faults
      PROVE  ClientInvariant'
  <2>1. faults' = 0 => faults = 0
    BY <1>4 DEF TypeOK
  <2>2. \A p \in DOMAIN result_cbs : EntryOfCall(p)'
    BY <1>4, <2>1 DEF ClientInvariant, RegisteredOnce, EntryOfCall
  <2>3. RegisteredOnce'
    BY <1>4, <2>2 DEF ClientInvariant, RegisteredOnce
  <2>4. UniqueIds' /\ CompletedOnceByOwnId'
    BY <1>4, <2>1 DEF ClientInvariant, UniqueIds, CompletedOnceByOwnId
  <2>5. NoCallbackLost'
    BY <1>4, <2>1 DEF ClientInvariant, NoCallbackLost
  <2> QED BY <2>3, <2>4, <2>5 DEF ClientInvariant
<1>5. ASSUME NEW d \in Responses, DropResponse(d) PROVE ClientInvariant'
  BY <1>4, <1>5, DropIs
<1>6. CASE CallbackReturns
  BY <1>4, <1>6 DEF CallbackReturns, TypeOK
<1>7. CASE JsonRpcFree
  <2>1. DOMAIN result_cbs' = {}
    BY <1>7 DEF JsonRpcFree
  <2>2. jr' # "live" /\ UNCHANGED <<request, accepted, completed, faults>>
    BY <1>7 DEF JsonRpcFree
  <2> QED BY <2>1, <2>2
       DEF ClientInvariant, UniqueIds, RegisteredOnce, CompletedOnceByOwnId, NoCallbackLost
<1>8. CASE UNCHANGED vars
  BY <1>4, <1>8 DEF vars, TypeOK
<1> QED BY <1>1, <1>2, <1>3, <1>5, <1>6, <1>7, <1>8 DEF Next

THEOREM ClientInvariantHolds == Spec => []ClientInvariant
<1> QED BY InvariantInit, InvariantStep, ClientTypes, PTL DEF Spec

(* No two callbacks wait under equal ids: replacing the callback of an equal  *)
(* id, and taking an entry out before its callback runs, keep them apart.     *)
THEOREM IdsUnique == Spec => []UniqueIds
<1>1. ClientInvariant => UniqueIds
  BY DEF ClientInvariant
<1> QED BY <1>1, ClientInvariantHolds, PTL

(* A callback runs once at most, whatever the peer repeats, with a response   *)
(* to its own message unless memory ran out.                                  *)
THEOREM CallbacksRunOnce == Spec => []CompletedOnceByOwnId
<1>1. ClientInvariant => CompletedOnceByOwnId
  BY DEF ClientInvariant
<1> QED BY <1>1, ClientInvariantHolds, PTL

(* No registered callback is forgotten while jr lives and memory lasts.       *)
THEOREM CallbacksKept == Spec => []NoCallbackLost
<1>1. ClientInvariant => NoCallbackLost
  BY DEF ClientInvariant
<1> QED BY <1>1, ClientInvariantHolds, PTL
-----------------------------------------------------------------------------
(* The table.                                                                 *)

(* The call registered under an id, or NULL, and the calls answered.          *)
CallOf(i) == IF Matches(i) = {} THEN NULL ELSE result_cbs[FirstMatch(i)].send
Answered == {k \in Sends : completed[k] # << >>}

(* The list as the table sees it, whatever the order of the entries.          *)
ListIsTable ==
    \A i \in Ids :
        /\ \A p \in DOMAIN result_cbs :
              IdEquals(result_cbs[p].id, i) => CallOf(i) = result_cbs[p].send
        /\ (\A p \in DOMAIN result_cbs : ~IdEquals(result_cbs[p].id, i)) => CallOf(i) = NULL

LEMMA UniqueIdsListIsTable == TypeOK /\ UniqueIds => ListIsTable
<1> SUFFICES ASSUME TypeOK, UniqueIds, NEW i \in Ids
             PROVE  /\ \A p \in DOMAIN result_cbs :
                          IdEquals(result_cbs[p].id, i) => CallOf(i) = result_cbs[p].send
                    /\ (\A p \in DOMAIN result_cbs : ~IdEquals(result_cbs[p].id, i))
                          => CallOf(i) = NULL
  BY DEF ListIsTable
<1>1. ASSUME NEW p \in DOMAIN result_cbs, IdEquals(result_cbs[p].id, i)
      PROVE  CallOf(i) = result_cbs[p].send
  <2>1. p \in Matches(i)
    BY <1>1 DEF Matches
  <2>2. FirstMatch(i) = p
    BY <2>1, RegisteredIds, FirstMatchUnique
  <2> QED BY <2>1, <2>2 DEF CallOf
<1>2. (\A p \in DOMAIN result_cbs : ~IdEquals(result_cbs[p].id, i)) => CallOf(i) = NULL
  BY DEF CallOf, Matches
<1> QED BY <1>1, <1>2

LEMMA TableIdEquals == ASSUME NEW a, NEW b PROVE Table!IdEquals(a, b) <=> IdEquals(a, b)
BY DEF IdEquals, Table!IdEquals

(* A step of the list that gives a call to an id is a step of the table.      *)
LEMMA RegisterIs ==
    ASSUME NEW id \in Ids, NEW k \in Sends,
           k \notin Answered, \A j \in Ids : CallOf(j) # k, Answered' = Answered,
           \A j \in Ids : CallOf(j)' = IF IdEquals(id, j) THEN k ELSE CallOf(j)
    PROVE  Table!Next
<1>1. Table!Register(id, k)
  BY TableIdEquals DEF Table!Register, CallOf, Answered
<1> QED BY <1>1 DEF Table!Next

(* The first step of a proof about a registration.                            *)
LEMMA FreshCall ==
    ASSUME TypeOK, ClientInvariant, ListIsTable, NEW k \in Sends, request[k] = NULL
    PROVE  /\ k \notin Answered
           /\ \A j \in Ids : CallOf(j) # k
<1>1. k \notin Answered
  BY DEF ClientInvariant, RegisteredOnce, Answered
<1>2. ASSUME NEW j \in Ids PROVE CallOf(j) # k
  <2>1. CASE \E p \in DOMAIN result_cbs : IdEquals(result_cbs[p].id, j)
    <3>1. PICK p \in DOMAIN result_cbs : IdEquals(result_cbs[p].id, j)
      BY <2>1
    <3>2. CallOf(j) = result_cbs[p].send
      BY <3>1 DEF ListIsTable
    <3>3. request[result_cbs[p].send] # NULL
      BY DEF ClientInvariant, RegisteredOnce, EntryOfCall
    <3> QED BY <3>2, <3>3
  <2>2. CASE \A p \in DOMAIN result_cbs : ~IdEquals(result_cbs[p].id, j)
    BY <2>2, ClientAssumption DEF ListIsTable
  <2> QED BY <2>1, <2>2
<1> QED BY <1>1, <1>2

LEMMA AddedRegisters ==
    ASSUME TypeOK, TypeOK', ClientInvariant, ListIsTable, ListIsTable',
           NEW k \in Sends, request[k] = NULL, completed' = completed,
           NEW id \in Ids, Added(id, k)
    PROVE  Table!Next
<1>1. k \notin Answered /\ (\A j \in Ids : CallOf(j) # k) /\ Answered' = Answered
  BY FreshCall DEF Answered
<1>2. /\ Len(result_cbs') = Len(result_cbs) + 1
      /\ result_cbs'[1] = [id |-> id, send |-> k]
      /\ \A p \in 1 .. Len(result_cbs) : result_cbs'[p + 1] = result_cbs[p]
      /\ \A p \in 2 .. Len(result_cbs') : result_cbs'[p] = result_cbs[p - 1]
  BY AddedUnique DEF ClientInvariant
<1>3. /\ Len(result_cbs) \in Nat
      /\ DOMAIN result_cbs = 1 .. Len(result_cbs) /\ DOMAIN result_cbs' = 1 .. Len(result_cbs')
  BY DEF TypeOK
<1>4. 1 \in DOMAIN result_cbs' /\ result_cbs'[1].id = id /\ result_cbs'[1].send = k
  BY <1>2, <1>3
<1>5. ASSUME NEW j \in Ids PROVE CallOf(j)' = IF IdEquals(id, j) THEN k ELSE CallOf(j)
  <2>1. CASE IdEquals(id, j)
    BY <1>4, <2>1 DEF ListIsTable
  <2>2. CASE ~IdEquals(id, j) /\ \E p \in DOMAIN result_cbs : IdEquals(result_cbs[p].id, j)
    <3>1. PICK p \in DOMAIN result_cbs : IdEquals(result_cbs[p].id, j)
      BY <2>2
    <3>2. p + 1 \in DOMAIN result_cbs' /\ result_cbs'[p + 1] = result_cbs[p]
      BY <1>2, <1>3
    <3>3. CallOf(j)' = result_cbs[p].send
      BY <3>1, <3>2 DEF ListIsTable
    <3>4. CallOf(j) = result_cbs[p].send
      BY <3>1 DEF ListIsTable
    <3> QED BY <2>2, <3>3, <3>4
  <2>3. CASE ~IdEquals(id, j) /\ \A p \in DOMAIN result_cbs : ~IdEquals(result_cbs[p].id, j)
    <3>1. ASSUME NEW p \in DOMAIN result_cbs' PROVE ~IdEquals(result_cbs'[p].id, j)
      <4>1. CASE p = 1
        BY <1>4, <2>3, <4>1
      <4>2. CASE p # 1
        <5>1. p \in 2 .. Len(result_cbs') /\ p - 1 \in DOMAIN result_cbs
          BY <1>2, <1>3, <4>2
        <5> QED BY <1>2, <2>3, <5>1
      <4> QED BY <4>1, <4>2
    <3>2. CallOf(j)' = NULL
      BY <3>1 DEF ListIsTable
    <3>3. CallOf(j) = NULL
      BY <2>3 DEF ListIsTable
    <3> QED BY <2>3, <3>2, <3>3
  <2> QED BY <2>1, <2>2, <2>3
<1> QED BY <1>1, <1>5, RegisterIs

LEMMA ReplacedRegisters ==
    ASSUME TypeOK, TypeOK', ClientInvariant, ListIsTable, ListIsTable',
           NEW k \in Sends, request[k] = NULL, completed' = completed,
           NEW id \in Ids, Replaced(id, k)
    PROVE  Table!Next
<1> DEFINE f == FirstMatch(id)
<1>1. k \notin Answered /\ (\A j \in Ids : CallOf(j) # k) /\ Answered' = Answered
  BY FreshCall DEF Answered
<1>2. /\ f \in DOMAIN result_cbs
      /\ IdEquals(result_cbs[f].id, id)
      /\ DOMAIN result_cbs' = DOMAIN result_cbs
      /\ \A p \in DOMAIN result_cbs :
            /\ result_cbs'[p].id = result_cbs[p].id
            /\ result_cbs'[p].send = IF p = f THEN k ELSE result_cbs[p].send
  BY ReplacedIs
<1>3. \A p \in DOMAIN result_cbs : result_cbs[p].id \in Ids
  BY EntryType DEF TypeOK
<1>4. \A p \in DOMAIN result_cbs :
         IdEquals(result_cbs[p].id, result_cbs[f].id) => p = f
  BY <1>2 DEF ClientInvariant, UniqueIds
<1> HIDE DEF f
<1>5. ASSUME NEW j \in Ids PROVE CallOf(j)' = IF IdEquals(id, j) THEN k ELSE CallOf(j)
  <2>1. CASE IdEquals(id, j)
    <3>1. IdEquals(result_cbs'[f].id, j)
      BY <1>2, <2>1, IdTransitive
    <3> QED BY <1>2, <2>1, <3>1 DEF ListIsTable
  <2>2. CASE ~IdEquals(id, j) /\ \E p \in DOMAIN result_cbs : IdEquals(result_cbs[p].id, j)
    <3>1. PICK p \in DOMAIN result_cbs : IdEquals(result_cbs[p].id, j)
      BY <2>2
    <3>2. p # f
      <4> SUFFICES ASSUME p = f PROVE FALSE
        OBVIOUS
      <4>1. IdEquals(id, result_cbs[f].id)
        BY <1>2, <1>3, RegisteredIds, IdSymmetric
      <4> QED BY <2>2, <3>1, <4>1, IdTransitive
    <3>3. CallOf(j)' = result_cbs[p].send
      BY <1>2, <3>1, <3>2 DEF ListIsTable
    <3>4. CallOf(j) = result_cbs[p].send
      BY <3>1 DEF ListIsTable
    <3> QED BY <2>2, <3>3, <3>4
  <2>3. CASE ~IdEquals(id, j) /\ \A p \in DOMAIN result_cbs : ~IdEquals(result_cbs[p].id, j)
    <3>1. \A p \in DOMAIN result_cbs' : ~IdEquals(result_cbs'[p].id, j)
      BY <1>2, <2>3
    <3>2. CallOf(j)' = NULL
      BY <3>1 DEF ListIsTable
    <3>3. CallOf(j) = NULL
      BY <2>3 DEF ListIsTable
    <3> QED BY <2>3, <3>2, <3>3
  <2> QED BY <2>1, <2>2, <2>3
<1> QED BY <1>1, <1>5, RegisterIs

LEMMA ProcessResponseCompletes ==
    ASSUME TypeOK, TypeOK', ClientInvariant, ListIsTable, ListIsTable',
           NEW d \in Responses, ProcessResponse(d)
    PROVE  Table!Next
<1>1. PICK p \in DOMAIN result_cbs :
        /\ result_cbs' = Without(result_cbs, p)
        /\ completed' = [completed EXCEPT ![result_cbs[p].send] = Append(@, d)]
  <2>1. DOMAIN result_cbs = 1 .. Len(result_cbs)
    BY DEF TypeOK
  <2> QED BY <2>1, ProcessResponseIs
<1>2. PICK i \in Ids, k \in Sends : i = result_cbs[p].id /\ k = result_cbs[p].send
  BY EntryType DEF TypeOK
<1>3. /\ \A q \in DOMAIN result_cbs' :
            /\ Before(q, p) \in DOMAIN result_cbs \ {p}
            /\ result_cbs'[q] = result_cbs[Before(q, p)]
      /\ \A r \in DOMAIN result_cbs \ {p} :
            After(r, p) \in DOMAIN result_cbs' /\ result_cbs'[After(r, p)] = result_cbs[r]
  BY <1>1, RemovedIs
<1>4. \A r \in DOMAIN result_cbs : result_cbs[r].id \in Ids
  BY EntryType DEF TypeOK
<1>5. \A r \in DOMAIN result_cbs \ {p} : ~IdEquals(result_cbs[r].id, i)
  BY <1>2 DEF ClientInvariant, UniqueIds
<1>6. CallOf(i) = k /\ k # NULL
  BY <1>2, IdReflexive, ClientAssumption DEF ListIsTable
<1>7. Answered' = Answered \cup {k}
  <2>1. \A l \in Sends : completed'[l] = IF l = k THEN Append(completed[k], d) ELSE completed[l]
    BY <1>1, <1>2 DEF TypeOK
  <2>2. Append(completed[k], d) # << >>
    <3>1. completed[k] \in Seq(Responses)
      BY <1>2 DEF TypeOK
    <3> QED BY <3>1
  <2> QED BY <1>2, <2>1, <2>2 DEF Answered
<1>8. ASSUME NEW j \in Ids PROVE CallOf(j)' = IF IdEquals(i, j) THEN NULL ELSE CallOf(j)
  <2>1. CASE IdEquals(i, j)
    <3>1. ASSUME NEW q \in DOMAIN result_cbs' PROVE ~IdEquals(result_cbs'[q].id, j)
      <4> DEFINE r == Before(q, p)
      <4>1. r \in DOMAIN result_cbs \ {p} /\ result_cbs'[q] = result_cbs[r]
        BY <1>3
      <4> HIDE DEF r
      <4>2. ~IdEquals(result_cbs[r].id, i) /\ result_cbs[r].id \in Ids
        BY <1>4, <1>5, <4>1
      <4>3. ~IdEquals(result_cbs[r].id, j)
        BY <1>2, <2>1, <4>2, RegisteredIds, IdsMeet
      <4> QED BY <4>1, <4>3
    <3> QED BY <2>1, <3>1 DEF ListIsTable
  <2>2. CASE ~IdEquals(i, j) /\ \E r \in DOMAIN result_cbs : IdEquals(result_cbs[r].id, j)
    <3>1. PICK r \in DOMAIN result_cbs : IdEquals(result_cbs[r].id, j)
      BY <2>2
    <3>2. r # p
      BY <1>2, <2>2, <3>1
    <3>3. After(r, p) \in DOMAIN result_cbs' /\ result_cbs'[After(r, p)] = result_cbs[r]
      BY <1>3, <3>2
    <3>4. CallOf(j)' = result_cbs[r].send
      BY <3>1, <3>3 DEF ListIsTable
    <3>5. CallOf(j) = result_cbs[r].send
      BY <3>1 DEF ListIsTable
    <3> QED BY <2>2, <3>4, <3>5
  <2>3. CASE ~IdEquals(i, j) /\ \A r \in DOMAIN result_cbs : ~IdEquals(result_cbs[r].id, j)
    <3>1. \A q \in DOMAIN result_cbs' : ~IdEquals(result_cbs'[q].id, j)
      BY <1>3, <2>3
    <3>2. CallOf(j)' = NULL
      BY <3>1 DEF ListIsTable
    <3>3. CallOf(j) = NULL
      BY <2>3 DEF ListIsTable
    <3> QED BY <2>3, <3>2, <3>3
  <2> QED BY <2>1, <2>2, <2>3
<1>9. Table!Complete(i)
  BY <1>2, <1>6, <1>7, <1>8, TableIdEquals DEF Table!Complete, CallOf, Answered
<1> QED BY <1>9 DEF Table!Next

LEMMA TableInit == Init => Table!Init
BY DEF Init, Table!Init, Matches

LEMMA TableStep ==
    TypeOK /\ TypeOK' /\ ClientInvariant /\ ListIsTable /\ ListIsTable' /\ [Next]_vars
        => [Table!Next]_(Table!vars)
<1> SUFFICES ASSUME TypeOK, TypeOK', ClientInvariant, ListIsTable, ListIsTable', [Next]_vars
             PROVE  [Table!Next]_(Table!vars)
  OBVIOUS
<1>1. ASSUME result_cbs' = result_cbs, completed' = completed
      PROVE  UNCHANGED Table!vars
  BY <1>1 DEF Table!vars, Matches, FirstMatch
<1>2. ASSUME NEW k \in Sends, NEW m \in Requests, PreprocessRequest(k, m)
      PROVE  [Table!Next]_(Table!vars)
  <2>1. request[k] = NULL /\ completed' = completed
    BY <1>2, PreprocessCases
  <2>2. PICK id \in FoundIds(m) :
          (id # Absent => id \in Ids) /\ (Refused(id) \/ Replaced(id, k) \/ Added(id, k))
    BY <1>2, PreprocessIs
  <2>3. CASE Refused(id)
    BY <1>1, <2>1, <2>3 DEF Refused
  <2>4. CASE Replaced(id, k)
    <3>1. id \in Ids
      BY <2>2, <2>4 DEF Replaced
    <3> QED BY <2>1, <2>4, <3>1, ReplacedRegisters
  <2>5. CASE Added(id, k)
    <3>1. id \in Ids
      BY <2>2, <2>5 DEF Added
    <3> QED BY <2>1, <2>5, <3>1, AddedRegisters
  <2> QED BY <2>2, <2>3, <2>4, <2>5
<1>3. ASSUME NEW k \in Sends, NEW m \in Requests, PreprocessNoMemory(k, m)
      PROVE  UNCHANGED Table!vars
  BY <1>1, <1>3 DEF PreprocessNoMemory
<1>4. ASSUME NEW d \in Responses, ProcessResponse(d) PROVE [Table!Next]_(Table!vars)
  BY <1>4, ProcessResponseCompletes
<1>5. ASSUME NEW d \in Responses, DropResponse(d) PROVE UNCHANGED Table!vars
  BY <1>1, <1>5, DropIs
<1>6. CASE CallbackReturns
  BY <1>1, <1>6 DEF CallbackReturns
<1>7. CASE JsonRpcFree
  <2>1. result_cbs' = << >> /\ completed' = completed
    BY <1>7 DEF JsonRpcFree
  <2>2. \A i \in Ids : CallOf(i)' = NULL
    BY <2>1 DEF CallOf, Matches
  <2>3. Table!Forget
    BY <2>1, <2>2 DEF Table!Forget, CallOf
  <2> QED BY <2>3 DEF Table!Next
<1>8. CASE UNCHANGED vars
  BY <1>1, <1>8 DEF vars
<1> QED BY <1>2, <1>3, <1>4, <1>5, <1>6, <1>7, <1>8 DEF Next

(* json_rpc.c implements the map from ids to callbacks: a message displaces   *)
(* the callback of an equal id, a response takes out and runs the one of its  *)
(* id.                                                                        *)
THEOREM TableImplemented == Spec => TableSpec
<1>1. ClientInvariant => UniqueIds
  BY DEF ClientInvariant
<1>2. TypeOK /\ UniqueIds => ListIsTable
  BY UniqueIdsListIsTable
<1> QED
  BY <1>1, <1>2, TableInit, TableStep, ClientTypes, ClientInvariantHolds, PTL
  DEF Spec, TableSpec, Table!Spec
=============================================================================
