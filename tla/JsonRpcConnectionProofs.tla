---------------------- MODULE JsonRpcConnectionProofs -----------------------
(* Theorems about JsonRpcConnection, for every set of calls, documents and    *)
(* transports: both peers go on as they do alone, documents and answers are   *)
(* delivered once, no answer is taken for a request, and a callback is given  *)
(* the results of its own call.                                               *)
EXTENDS JsonRpcConnection, JsonRpcServerProofs, JsonRpcMessagesProofs

(* Sequences.                                                                 *)

LEMMA FunctionList ==
    ASSUME NEW T, NEW n \in Nat, NEW s \in [1 .. n -> T]
    PROVE  s \in Seq(T)
BY SeqDef, Zenon

LEMMA OwnElements == \A S : \A s \in Seq(S) : s \in Seq(RangeOf(s))
<1>1. ASSUME NEW S, NEW s \in Seq(S) PROVE s \in Seq(RangeOf(s))
  <2>1. Len(s) \in Nat /\ s \in [1 .. Len(s) -> S]
    BY LenProperties
  <2>2. s \in [1 .. Len(s) -> RangeOf(s)]
    BY <2>1 DEF RangeOf
  <2> QED BY <2>1, <2>2, FunctionList
<1> QED BY <1>1

LEMMA AppendType ==
    ASSUME NEW s, s \in Seq(RangeOf(s)), NEW x
    PROVE  Append(s, x) \in Seq(RangeOf(Append(s, x)))
<1>1. s \in Seq(RangeOf(s) \cup {x})
  BY SeqMonotonic
<1>2. Append(s, x) \in Seq(RangeOf(s) \cup {x})
  BY <1>1, AppendProperties
<1> QED BY <1>2, OwnElements, Zenon

LEMMA TailType ==
    ASSUME NEW s, s \in Seq(RangeOf(s)), s # << >>
    PROVE  Tail(s) \in Seq(RangeOf(Tail(s)))
<1>1. Tail(s) \in Seq(RangeOf(s))
  BY HeadTailProperties
<1> QED BY <1>1, OwnElements, Zenon

-----------------------------------------------------------------------------
USE ConnectionAssumption, ServerAssumption

(* The client half: memory lasts, so that get_id finds every id.              *)

LEMMA SameIds ==
    /\ \A a, b : Client!IdEquals(a, b) <=> IdEquals(a, b)
    /\ \A x, L : Client!GetIdWithout(x, L) = GetIdWithout(x, L)
    /\ \A x : Client!GetId(x) = GetId(x) /\ Client!Elements(x) = Elements(x)
    /\ \A S : Client!Cardinality(S) = Cardinality(S)
    /\ Client!Absent = Absent
<1>1. \A a, b : Client!IdEquals(a, b) <=> IdEquals(a, b)
  BY DEF IdEquals, Client!IdEquals
<1>2. Client!Absent = Absent
  BY DEF Absent, Client!Absent
<1>3. \A x, key : Client!Member(x, key) = Member(x, key)
  BY <1>2 DEF Member, Client!Member
<1>4. \A x : Client!Elements(x) = Elements(x)
  BY DEF Elements, Client!Elements
<1>5. \A x, L : Client!HaveIds(x, L) = HaveIds(x, L)
  BY <1>2, <1>3, <1>4 DEF HaveIds, Client!HaveIds
<1>6. \A S : Client!Cardinality(S) = Cardinality(S) /\ Client!Increasing(S) = Increasing(S)
  <2>1. \A S : Client!Cardinality(S) = Cardinality(S)
    BY Zenon DEF Cardinality, Client!Cardinality
  <2> QED BY <2>1, Zenon DEF Increasing, Client!Increasing
<1>7. \A x, L : Client!GetIdWithout(x, L) = GetIdWithout(x, L)
  BY <1>2, <1>3, <1>5, <1>6 DEF GetIdWithout, Client!GetIdWithout, Arr, Client!Arr
<1> QED BY <1>1, <1>2, <1>4, <1>6, <1>7 DEF GetId, Client!GetId

LEMMA IdFoundIs ==
    ASSUME NEW x, IsList(Elements(x)), NEW id, Client!IdFound(x, id)
    PROVE  id = GetId(x)
<1>1. ASSUME NEW L \in SUBSET DOMAIN Elements(x), Client!Fail(Cardinality(L)), id = GetIdWithout(x, L)
      PROVE  id = GetId(x)
  <2>1. IsFiniteSet(DOMAIN Elements(x))
    BY FS_Interval DEF IsList
  <2>2. IsFiniteSet(L) /\ Cardinality(L) \in Nat
    BY <2>1, FS_Subset, FS_CardinalityType
  <2>3. Cardinality(L) = 0
    BY <1>1, <2>2 DEF Client!Fail
  <2>4. L = {}
    BY <2>2, <2>3, FS_EmptySet
  <2> QED BY <1>1, <2>4 DEF GetId
<1>2. ~Client!Fail(1)
  BY DEF Client!Fail
<1> QED BY <1>1, <1>2, SameIds DEF Client!IdFound

(* The entry the loop over the list stops at.                                 *)
LEMMA FirstMatchIs ==
    ASSUME result_cbs \in Seq(Registration), NEW id, Client!Matches(id) # {}
    PROVE  /\ Client!FirstMatch(id) \in Client!Matches(id)
           /\ Client!FirstMatch(id) \in 1 .. Len(result_cbs)
<1>1. Client!Matches(id) \subseteq 1 .. Len(result_cbs)
  BY DEF Client!Matches
<1>2. PICK p \in Client!Matches(id) : \A q \in Client!Matches(id) : p <= q
  BY <1>1, LeastExists
<1>3. Client!FirstMatch(id) \in Client!Matches(id)
  BY <1>2 DEF Client!FirstMatch
<1> QED BY <1>1, <1>3

(* json_rpc_preprocess_request registers a callback: at the head of the list, *)
(* or in the entry that has an equal id.                                      *)
AddsEntry(k, m) ==
    /\ GetId(m) # Absent /\ Client!Matches(GetId(m)) = {}
    /\ result_cbs' = <<[id |-> GetId(m), send |-> k]>> \o result_cbs
    /\ accepted' = Append(accepted, k)

TakesEntry(k, m) ==
    /\ GetId(m) # Absent
    /\ \E p \in Client!Matches(GetId(m)) : result_cbs' = [result_cbs EXCEPT ![p].send = k]
    /\ accepted' = Append(accepted, k)

LEMMA PreprocessIs ==
    ASSUME result_cbs \in Seq(Registration), NEW k \in Subs, NEW m, IsList(Elements(m)),
           Client!PreprocessRequest(k, m)
    PROVE  /\ request[k] = NULL /\ request' = [request EXCEPT ![k] = m]
           /\ UNCHANGED <<cjr, running, completed, arrivals>>
           /\ \/ GetId(m) = Absent /\ UNCHANGED <<result_cbs, accepted>>
              \/ AddsEntry(k, m)
              \/ TakesEntry(k, m)
<1>1. PICK id : /\ Client!IdFound(m, id)
                /\ Client!Refused(id) \/ Client!Replaced(id, k) \/ Client!Added(id, k)
  BY DEF Client!PreprocessRequest
<1>2. id = GetId(m)
  BY <1>1, IdFoundIs
<1>3. CASE Client!Refused(id)
  BY <1>2, <1>3, SameIds DEF Client!Refused, Client!PreprocessRequest
<1>4. CASE Client!Added(id, k)
  BY <1>2, <1>4, SameIds DEF Client!Added, Client!PreprocessRequest, AddsEntry
<1>5. CASE Client!Replaced(id, k)
  <2>1. Client!FirstMatch(id) \in Client!Matches(id)
    BY <1>5, FirstMatchIs DEF Client!Replaced
  <2> QED BY <1>2, <1>5, <2>1, SameIds DEF Client!Replaced, Client!PreprocessRequest, TakesEntry
<1> QED BY <1>1, <1>3, <1>4, <1>5

(* What the list looks like then.                                             *)
LEMMA AddsEntryIs ==
    ASSUME result_cbs \in Seq(Registration), NEW k \in Subs, NEW m \in Requests, AddsEntry(k, m)
    PROVE  /\ result_cbs' \in Seq(Registration)
           /\ 1 \in DOMAIN result_cbs' /\ result_cbs'[1] = [id |-> GetId(m), send |-> k]
           /\ \A p \in DOMAIN result_cbs :
                 p + 1 \in DOMAIN result_cbs' /\ result_cbs'[p + 1] = result_cbs[p]
           /\ \A p \in DOMAIN result_cbs' :
                 \/ p = 1
                 \/ p - 1 \in DOMAIN result_cbs /\ p \in Nat /\ result_cbs'[p] = result_cbs[p - 1]
<1> DEFINE e == [id |-> GetId(m), send |-> k]
<1>1. e \in Registration
  BY DEF Registration
<1>2. result_cbs' = <<e>> \o result_cbs
  BY DEF AddsEntry
<1> HIDE DEF e
<1>3. Len(result_cbs) \in Nat /\ DOMAIN result_cbs = 1 .. Len(result_cbs)
  BY LenProperties
<1>4. /\ result_cbs' \in Seq(Registration) /\ Len(result_cbs') = Len(result_cbs) + 1
      /\ result_cbs'[1] = e
      /\ \A p \in 1 .. Len(result_cbs) : result_cbs'[p + 1] = result_cbs[p]
      /\ \A p \in 2 .. Len(result_cbs') : result_cbs'[p] = result_cbs[p - 1]
  BY <1>1, <1>2, HeadAdded
<1>5. DOMAIN result_cbs' = 1 .. Len(result_cbs')
  BY <1>4, LenProperties
<1>6. \A p \in DOMAIN result_cbs :
        p + 1 \in DOMAIN result_cbs' /\ result_cbs'[p + 1] = result_cbs[p]
  BY <1>3, <1>4, <1>5
<1>7. \A p \in DOMAIN result_cbs' :
        \/ p = 1
        \/ p - 1 \in DOMAIN result_cbs /\ p \in Nat /\ result_cbs'[p] = result_cbs[p - 1]
  BY <1>3, <1>4, <1>5
<1>8. 1 \in DOMAIN result_cbs'
  BY <1>3, <1>4, <1>5
<1> QED BY <1>4, <1>6, <1>7, <1>8 DEF e

LEMMA TakesEntryIs ==
    ASSUME result_cbs \in Seq(Registration), NEW k \in Subs, NEW m \in Requests, TakesEntry(k, m)
    PROVE  /\ result_cbs' \in Seq(Registration)
           /\ DOMAIN result_cbs' = DOMAIN result_cbs
           /\ \E p \in Client!Matches(GetId(m)) :
                 /\ p \in DOMAIN result_cbs /\ IdEquals(result_cbs[p].id, GetId(m))
                 /\ \A q \in DOMAIN result_cbs :
                       /\ result_cbs'[q].id = result_cbs[q].id
                       /\ result_cbs'[q].send = IF q = p THEN k ELSE result_cbs[q].send
<1>1. PICK p \in Client!Matches(GetId(m)) : result_cbs' = [result_cbs EXCEPT ![p].send = k]
  BY DEF TakesEntry
<1>2. p \in DOMAIN result_cbs /\ IdEquals(result_cbs[p].id, GetId(m))
  BY SameIds DEF Client!Matches
<1>3. p \in 1 .. Len(result_cbs) /\ DOMAIN result_cbs = 1 .. Len(result_cbs)
  BY <1>2, LenProperties
<1>4. \A q \in DOMAIN result_cbs : result_cbs[q] \in [id : {GetId(r) : r \in Requests}, send : Subs]
  BY <1>3, ElementOfSeq DEF Registration
<1>5. [result_cbs[p] EXCEPT !.send = k] \in Registration
  BY <1>2, <1>4 DEF Registration
<1>6. result_cbs' = [result_cbs EXCEPT ![p] = [result_cbs[p] EXCEPT !.send = k]]
  BY <1>1, <1>3
<1>7. result_cbs' \in Seq(Registration)
  BY <1>3, <1>5, <1>6, ExceptSeq
<1>8. DOMAIN result_cbs' = DOMAIN result_cbs
  BY <1>1
<1>9. \A q \in DOMAIN result_cbs :
        /\ result_cbs'[q].id = result_cbs[q].id
        /\ result_cbs'[q].send = IF q = p THEN k ELSE result_cbs[q].send
  BY <1>2, <1>4, <1>6
<1> QED BY <1>2, <1>7, <1>8, <1>9

(* A response that is delivered: its entry p leaves the list.                 *)
DeliversTo(d, p) ==
    /\ running' = Append(running, result_cbs[p])
    /\ result_cbs' = SubSeq(result_cbs, 1, p - 1) \o SubSeq(result_cbs, p + 1, Len(result_cbs))
    /\ completed' = [completed EXCEPT ![result_cbs[p].send] = Append(@, d)]

(* json_rpc_process_response runs the callback of an equal id.                *)
LEMMA ProcessResponseIs ==
    ASSUME result_cbs \in Seq(Registration), NEW d, Client!ProcessResponse(d)
    PROVE  /\ UNCHANGED <<cjr, request, accepted>> /\ arrivals' = arrivals + 1
           /\ \E id : /\ Client!IdFound(d, id) /\ id # Absent
                      /\ \E p \in 1 .. Len(result_cbs) :
                            IdEquals(result_cbs[p].id, id) /\ DeliversTo(d, p)
<1>1. PICK id : /\ Client!IdFound(d, id)
                /\ id # Client!Absent /\ Client!Matches(id) # {}
                /\ Client!Called(result_cbs[Client!FirstMatch(id)], d)
                /\ result_cbs' = Client!Without(result_cbs, Client!FirstMatch(id))
  BY DEF Client!ProcessResponse
<1>2. /\ Client!FirstMatch(id) \in Client!Matches(id)
      /\ Client!FirstMatch(id) \in 1 .. Len(result_cbs)
  BY <1>1, FirstMatchIs
<1>3. DeliversTo(d, Client!FirstMatch(id))
  BY <1>1 DEF DeliversTo, Client!Called, Client!Without
<1>4. IdEquals(result_cbs[Client!FirstMatch(id)].id, id)
  BY <1>2, SameIds DEF Client!Matches
<1> QED BY <1>1, <1>2, <1>3, <1>4, SameIds DEF Client!ProcessResponse, Client!Arrive

LEMMA DropResponseIs ==
    ASSUME NEW d, Client!DropResponse(d)
    PROVE  /\ UNCHANGED <<cjr, request, accepted, result_cbs, running, completed>>
           /\ arrivals' = arrivals + 1
BY DEF Client!DropResponse, Client!Arrive

LEMMA DocumentLists ==
    ASSUME NEW d \in Documents
    PROVE  IsList(Elements(d))
<1>1. Len(Calls(d)) \in Nat /\ DOMAIN Calls(d) = 1 .. Len(Calls(d))
  BY CallIndices
<1> QED BY <1>1 DEF Calls, Elements, IsList
-----------------------------------------------------------------------------
(* Types.                                                                     *)

(* What is written to the client's stream.                                    *)
LEMMA TtWriteType ==
    ASSUME toClient \in Seq(RangeOf(toClient)), NEW k, NEW d, TtWrite(k, d)
    PROVE  toClient' \in Seq(RangeOf(toClient'))
BY AppendType DEF TtWrite

LEMMA TtResultType ==
    ASSUME toClient \in Seq(RangeOf(toClient)), NEW k, TtResult(k)
    PROVE  toClient' \in Seq(RangeOf(toClient'))
BY TtWriteType DEF TtResult

LEMMA TtReadType ==
    ASSUME toClient \in Seq(RangeOf(toClient)), NEW m, TtRead(m)
    PROVE  toClient' \in Seq(RangeOf(toClient'))
BY TtResultType DEF TtRead

(* A document is read from the server's stream.                               *)
LEMMA ReceiveType ==
    ASSUME ConnectionTypeOK, Receive
    PROVE  /\ UNCHANGED <<clientVars, open, transport>>
           /\ Head(toServer) \in SentDocument /\ toServer' \in Seq(SentDocument)
BY DEF Receive, ConnectionTypeOK

LEMMA TypeSend ==
    ASSUME ConnectionTypeOK, NEW k \in Subs, NEW m \in Requests,
           TtSend(k, m) \/ TtSendFails(k, m)
    PROVE  ConnectionTypeOK'
<1>1. m \in Documents /\ IsList(Elements(m))
  BY DocumentLists
<1>2. result_cbs \in Seq(Registration) /\ accepted \in Seq(Subs)
  BY DEF ConnectionTypeOK
<1>3. /\ request[k] = NULL /\ request' = [request EXCEPT ![k] = m]
      /\ UNCHANGED <<cjr, running, completed, arrivals>>
      /\ UNCHANGED <<result_cbs, accepted>> \/ AddsEntry(k, m) \/ TakesEntry(k, m)
  BY <1>1, <1>2, PreprocessIs DEF TtSend, TtSendFails
<1>4. result_cbs' \in Seq(Registration) /\ accepted' \in Seq(Subs)
  <2>1. CASE UNCHANGED <<result_cbs, accepted>>
    BY <1>2, <2>1
  <2>2. CASE AddsEntry(k, m)
    <3>1. accepted' \in Seq(Subs)
      BY <1>2, <2>2, AppendProperties DEF AddsEntry
    <3> QED BY <1>2, <2>2, <3>1, AddsEntryIs
  <2>3. CASE TakesEntry(k, m)
    <3>1. accepted' \in Seq(Subs)
      BY <1>2, <2>3, AppendProperties DEF TakesEntry
    <3> QED BY <1>2, <2>3, <3>1, TakesEntryIs
  <2> QED BY <1>3, <2>1, <2>2, <2>3
<1>5. toServer' \in Seq(SentDocument)
  <2>1. [send |-> k, doc |-> m] \in SentDocument
    BY <1>1 DEF SentDocument
  <2>2. toServer' = toServer \/ toServer' = Append(toServer, [send |-> k, doc |-> m])
    BY Zenon DEF TtSend, TtSendFails
  <2>3. toServer \in Seq(SentDocument)
    BY DEF ConnectionTypeOK
  <2> QED BY <2>1, <2>2, <2>3, AppendProperties
<1>6. UNCHANGED <<toClient, open, transport, parser>>
  BY DEF TtSend, TtSendFails, ttVars
<1>7. request' \in [Subs -> Documents \cup {NULL}]
  BY <1>1, <1>3 DEF ConnectionTypeOK
<1> QED BY <1>3, <1>4, <1>5, <1>6, <1>7 DEF ConnectionTypeOK

LEMMA TypeRead ==
    ASSUME ConnectionTypeOK, ReadResponse
    PROVE  ConnectionTypeOK'
<1> DEFINE d == Head(toClient).doc
<1>1. /\ UNCHANGED <<toServer, open, transport, parser>>
      /\ toClient # << >> /\ toClient' = Tail(toClient)
  BY DEF ReadResponse, ttVars
<1>2. toClient' \in Seq(RangeOf(toClient'))
  BY <1>1, TailType DEF ConnectionTypeOK
<1>3. CASE Client!DropResponse(d)
  BY <1>1, <1>2, <1>3, DropResponseIs DEF ConnectionTypeOK
<1>4. CASE Client!ProcessResponse(d)
  <2>1. UNCHANGED <<cjr, request, accepted>> /\ arrivals' = arrivals + 1
    BY <1>4, ProcessResponseIs DEF ConnectionTypeOK
  <2>2. PICK p \in 1 .. Len(result_cbs) : DeliversTo(d, p)
    BY <1>4, ProcessResponseIs DEF ConnectionTypeOK
  <2>3. result_cbs[p] \in Registration /\ result_cbs[p].send \in Subs
    <3>1. result_cbs[p] \in Registration
      BY <2>2, ElementOfSeq DEF ConnectionTypeOK
    <3> QED BY <3>1 DEF Registration
  <2>4. result_cbs' \in Seq(Registration) /\ running' \in Seq(Registration)
    BY <2>2, <2>3, ListWithout, AppendProperties DEF DeliversTo, ConnectionTypeOK
  <2>5. \A k \in Subs : completed'[k] \in Seq(RangeOf(completed'[k]))
    <3> TAKE k \in Subs
    <3>1. CASE k = result_cbs[p].send
      <4>1. completed'[k] = Append(completed[k], d)
        BY <2>2, <3>1 DEF DeliversTo, ConnectionTypeOK
      <4> QED BY <4>1, AppendType DEF ConnectionTypeOK
    <3>2. CASE k # result_cbs[p].send
      BY <2>2, <3>2 DEF DeliversTo, ConnectionTypeOK
    <3> QED BY <3>1, <3>2
  <2>6. DOMAIN completed' = Subs
    BY <2>2 DEF DeliversTo, ConnectionTypeOK
  <2> QED BY <1>1, <1>2, <2>1, <2>4, <2>5, <2>6 DEF ConnectionTypeOK
<1> QED BY <1>3, <1>4 DEF ReadResponse

LEMMA TypeTcpRead ==
    ASSUME ConnectionTypeOK, TcpRead
    PROVE  ConnectionTypeOK'
<1>1. /\ UNCHANGED <<clientVars, open, transport>> /\ toServer' \in Seq(SentDocument)
  BY ReceiveType DEF TcpRead
<1>2. toClient' \in Seq(RangeOf(toClient')) /\ parser' \in {"parsing", "failed", "reported"}
  BY TtReadType DEF TcpRead, ConnectionTypeOK
<1> QED BY <1>1, <1>2 DEF ConnectionTypeOK, clientVars

LEMMA TypeWsMessage ==
    ASSUME ConnectionTypeOK, WsMessage
    PROVE  ConnectionTypeOK'
<1>1. /\ UNCHANGED <<clientVars, open, transport, parser>> /\ toServer' \in Seq(SentDocument)
  BY ReceiveType DEF WsMessage
<1>2. toClient' \in Seq(RangeOf(toClient'))
  BY TtReadType, TtWriteType DEF WsMessage, ConnectionTypeOK
<1> QED BY <1>1, <1>2 DEF ConnectionTypeOK, clientVars

LEMMA TypeRawSend ==
    ASSUME ConnectionTypeOK, NEW k \in Subs, NEW d \in RawDocuments, RawSend(k, d)
    PROVE  ConnectionTypeOK'
<1>1. /\ UNCHANGED <<cjr, result_cbs, accepted, running, completed, arrivals>>
      /\ UNCHANGED <<toClient, open, transport, parser>>
      /\ request' = [request EXCEPT ![k] = d]
      /\ toServer' = Append(toServer, [send |-> k, doc |-> d])
  BY DEF RawSend, ttVars
<1>2. d \in Documents /\ [send |-> k, doc |-> d] \in SentDocument
  BY DEF RawDocuments, SentDocument
<1>3. toServer' \in Seq(SentDocument)
  BY <1>1, <1>2, AppendProperties DEF ConnectionTypeOK
<1>4. request' \in [Subs -> Documents \cup {NULL}]
  BY <1>1, <1>2 DEF ConnectionTypeOK
<1> QED BY <1>1, <1>3, <1>4 DEF ConnectionTypeOK

LEMMA ConnectionTypeInit == ConnectionInit => ConnectionTypeOK
<1> SUFFICES ASSUME ConnectionInit PROVE ConnectionTypeOK
  OBVIOUS
<1>1. /\ cjr = "live" /\ result_cbs = << >> /\ request = [k \in Subs |-> NULL]
      /\ accepted = << >> /\ running = << >> /\ completed = [k \in Subs |-> << >>] /\ arrivals = 0
      /\ toServer = << >> /\ toClient = << >> /\ open = TRUE /\ transport \in Transports
      /\ parser = "parsing"
  BY DEF ConnectionInit, Client!Init
<1> QED BY <1>1 DEF ConnectionTypeOK

LEMMA ConnectionTypeStep == ConnectionTypeOK /\ [ConnectionNext]_connectionVars => ConnectionTypeOK'
<1> SUFFICES ASSUME ConnectionTypeOK, [ConnectionNext]_connectionVars PROVE ConnectionTypeOK'
  OBVIOUS
<1>1. ASSUME NEW n \in MethodNames, NEW h \in Handlers, ServerAddMethod(n, h) PROVE ConnectionTypeOK'
  BY <1>1 DEF ServerAddMethod, ConnectionTypeOK, clientVars, ttVars
<1>2. ASSUME NEW k \in Subs, NEW i \in Indices, ServeDeferred(k, i) PROVE ConnectionTypeOK'
  BY <1>2, TtResultType DEF ServeDeferred, ConnectionTypeOK, clientVars, ttVars
<1>3. ASSUME NEW k \in Subs, NEW i \in Indices, ServeKept(k, i) PROVE ConnectionTypeOK'
  BY <1>3 DEF ServeKept, ConnectionTypeOK, clientVars, ttVars
<1>4. CASE TcpParseError
  BY <1>4, TtWriteType DEF TcpParseError, ConnectionTypeOK, clientVars
<1>5. CASE CallbackReturns
  <2>1. running' \in Seq(Registration)
    BY <1>5, LastRemoved DEF CallbackReturns, Client!CallbackReturns, ConnectionTypeOK
  <2> QED BY <1>5, <2>1 DEF CallbackReturns, Client!CallbackReturns, ConnectionTypeOK, ttVars
<1>6. CASE Break
  <2>1. << >> \in Seq(RangeOf(<< >>)) /\ << >> \in Seq(SentDocument)
    BY EmptySeq
  <2> QED BY <1>6, <2>1 DEF Break, ConnectionTypeOK, clientVars, ttVars
<1>7. CASE UNCHANGED connectionVars
  BY <1>7 DEF connectionVars, ConnectionTypeOK, clientVars, ttVars
<1> QED BY <1>1, <1>2, <1>3, <1>4, <1>5, <1>6, <1>7, TypeSend, TypeRawSend, TypeRead,
           TypeTcpRead, TypeWsMessage DEF ConnectionNext

(* The streams, the callbacks and the transports keep their types.            *)
THEOREM ConnectionTypes == ConnectionSpec => []ConnectionTypeOK
BY ConnectionTypeInit, ConnectionTypeStep, PTL DEF ConnectionSpec
-----------------------------------------------------------------------------
(* Both peers go on as they do alone.                                         *)

(* A document that is read is submitted, or none of the server's business.    *)
LEMMA TtReadIs ==
    ASSUME NEW m \in SentDocument, TtRead(m)
    PROVE  \/ UNCHANGED <<vars, toClient>>
           \/ /\ m.send \in Subs /\ m.doc \in Documents
              /\ Process(m.send, m.doc) /\ TtResult(m.send)
BY DEF TtRead, SentDocument

LEMMA ConnectionServesStep ==
    ConnectionTypeOK /\ [ConnectionNext]_connectionVars => [Next]_vars
<1> SUFFICES ASSUME ConnectionTypeOK, [ConnectionNext]_connectionVars PROVE [Next]_vars
  OBVIOUS
<1>1. ASSUME NEW m \in SentDocument, TtRead(m) PROVE [Next]_vars
  BY <1>1, TtReadIs, Zenon DEF Next
<1>2. ASSUME NEW n \in MethodNames, NEW h \in Handlers, ServerAddMethod(n, h) PROVE Next
  BY <1>2 DEF ServerAddMethod, Next
<1>3. ASSUME NEW k \in Subs, NEW i \in Indices, ServeDeferred(k, i) PROVE Next
  BY <1>3, Zenon DEF ServeDeferred, Next
<1>4. ASSUME NEW k \in Subs, NEW i \in Indices, ServeKept(k, i) PROVE Next
  BY <1>4, Zenon DEF ServeKept, Next
<1>5. CASE TcpRead
  <2>1. UNCHANGED vars \/ TtRead(Head(toServer))
    BY <1>5, Zenon DEF TcpRead
  <2>2. Head(toServer) \in SentDocument
    BY <1>5, ReceiveType DEF TcpRead
  <2> QED BY <1>1, <2>1, <2>2, Zenon
<1>6. CASE WsMessage
  <2>1. UNCHANGED vars \/ TtRead(Head(toServer))
    BY <1>6, Zenon DEF WsMessage
  <2>2. Head(toServer) \in SentDocument
    BY <1>6, ReceiveType DEF WsMessage
  <2> QED BY <1>1, <2>1, <2>2, Zenon
<1>7. ASSUME NEW k \in Subs, NEW m \in Requests, TtSend(k, m) \/ TtSendFails(k, m)
      PROVE  UNCHANGED vars
  BY <1>7, Zenon DEF TtSend, TtSendFails
<1>8. ASSUME NEW k \in Subs, NEW d \in RawDocuments, RawSend(k, d) PROVE UNCHANGED vars
  BY <1>8, Zenon DEF RawSend
<1>9. CASE TcpParseError \/ ReadResponse \/ CallbackReturns \/ Break
  BY <1>9, Zenon DEF TcpParseError, ReadResponse, CallbackReturns, Break
<1>10. CASE UNCHANGED connectionVars
  BY <1>10 DEF connectionVars
<1> QED BY <1>2, <1>3, <1>4, <1>5, <1>6, <1>7, <1>8, <1>9, <1>10, Zenon DEF ConnectionNext

(* Whatever is proved of JsonRpcServer holds of the peer that serves.         *)
THEOREM ConnectionServes == ConnectionSpec => Spec
<1>1. ConnectionInit => Init
  BY DEF ConnectionInit
<1> QED BY <1>1, ConnectionServesStep, ConnectionTypes, PTL DEF ConnectionSpec, Spec

(* The server's own invariants, which hold of every connection.               *)
ServerSound == TypeOK /\ RequestInvariant /\ OwnIdsInvariant

LEMMA ConnectionServerSound == ConnectionSpec => []ServerSound
BY ConnectionServes, TypeCorrect, CountsCorrect, AnswersOwnIds, PTL DEF ServerSound
-----------------------------------------------------------------------------
(* Documents and answers are put on the streams once.                         *)

StreamSound == ToServerSound /\ ToClientSound

(* t is s without its first c entries, or is empty.                           *)
Shrunk(s, t, c) ==
    /\ c \in Nat /\ DOMAIN t \subseteq Nat
    /\ \A n \in DOMAIN t : n + c \in DOMAIN s /\ t[n] = s[n + c]

LEMMA ShrunkIs ==
    ASSUME NEW S, NEW s \in Seq(S)
    PROVE  /\ Shrunk(s, s, 0) /\ Shrunk(s, << >>, 0)
           /\ s # << >> => Shrunk(s, Tail(s), 1)
BY DEF Shrunk

LEMMA ToServerShrinks ==
    ASSUME ConnectionTypeOK, ToServerSound, NEW c, Shrunk(toServer, toServer', c),
           request' = request, doc' = doc
    PROVE  ToServerSound'
<1>1. DOMAIN toServer' \subseteq Nat /\ c \in Nat
  BY DEF Shrunk
<1>2. \A n \in DOMAIN toServer' : n + c \in DOMAIN toServer /\ toServer'[n] = toServer[n + c]
  BY DEF Shrunk
<1>3. ASSUME NEW n \in DOMAIN toServer', NEW l \in DOMAIN toServer', toServer'[n].send = toServer'[l].send
      PROVE  n = l
  <2>1. n + c = l + c
    BY <1>2, <1>3 DEF ToServerSound
  <2> QED BY <1>1, <2>1
<1> QED BY <1>2, <1>3 DEF ToServerSound

(* A document is put on the server's stream.                                  *)
LEMMA ToServerSends ==
    ASSUME ConnectionTypeOK, ToServerSound, NEW k \in Subs, NEW d \in Documents,
           request[k] = NULL, request' = [request EXCEPT ![k] = d], doc' = doc,
           toServer' = toServer \/ toServer' = Append(toServer, [send |-> k, doc |-> d])
    PROVE  ToServerSound'
<1>1. \A n \in DOMAIN toServer :
        /\ toServer[n] \in SentDocument
        /\ toServer[n].send \in Subs /\ toServer[n].send # k
  <2> TAKE n \in DOMAIN toServer
  <2>1. toServer[n] \in SentDocument
    BY ElementOfSeq, LenProperties DEF ConnectionTypeOK
  <2>2. toServer[n].doc # NULL /\ toServer[n].send \in Subs
    BY <2>1, DocumentsAssumption DEF SentDocument
  <2> QED BY <2>1, <2>2 DEF ToServerSound
<1>2. doc[k] = NULL
  BY DEF ToServerSound
<1>3. \A t \in Subs : request'[t] = IF t = k THEN d ELSE request[t]
  BY DEF ConnectionTypeOK
<1>4. \A t \in Subs : doc'[t] # NULL => doc'[t] = request'[t]
  BY <1>2, <1>3 DEF ToServerSound
<1>5. CASE toServer' = toServer
  BY <1>1, <1>3, <1>4, <1>5 DEF ToServerSound
<1>6. CASE toServer' = Append(toServer, [send |-> k, doc |-> d])
  <2>1. /\ toServer \in Seq(SentDocument) /\ DOMAIN toServer' = 1 .. Len(toServer) + 1
        /\ DOMAIN toServer = 1 .. Len(toServer) /\ Len(toServer) \in Nat
        /\ \A n \in DOMAIN toServer : toServer'[n] = toServer[n]
        /\ toServer'[Len(toServer) + 1] = [send |-> k, doc |-> d]
    BY <1>6 DEF ConnectionTypeOK
  <2>2. \A n \in DOMAIN toServer' : n \in DOMAIN toServer \/ n = Len(toServer) + 1
    BY <2>1
  <2>3. \A n \in DOMAIN toServer' :
          doc'[toServer'[n].send] = NULL /\ request'[toServer'[n].send] = toServer'[n].doc
    BY <1>1, <1>2, <1>3, <2>1, <2>2 DEF ToServerSound
  <2>4. \A n, l \in DOMAIN toServer' : toServer'[n].send = toServer'[l].send => n = l
    BY <1>1, <2>1, <2>2 DEF ToServerSound
  <2> QED BY <1>4, <2>3, <2>4 DEF ToServerSound
<1> QED BY <1>5, <1>6

(* ... and taken from it, perhaps to be submitted.                            *)
LEMMA ToServerReceives ==
    ASSUME ConnectionTypeOK, TypeOK, ToServerSound, Receive,
           \/ doc' = doc
           \/ doc' = [doc EXCEPT ![Head(toServer).send] = Head(toServer).doc]
    PROVE  ToServerSound'
<1> DEFINE m == Head(toServer)
<1>1. /\ toServer \in Seq(SentDocument) /\ toServer # << >>
      /\ toServer' = Tail(toServer) /\ request' = request
  BY DEF Receive, clientVars, ConnectionTypeOK
<1>2. Shrunk(toServer, toServer', 1)
  BY <1>1, ShrunkIs
<1>3. CASE doc' = doc
  BY <1>1, <1>2, <1>3, ToServerShrinks
<1>4. CASE doc' = [doc EXCEPT ![m.send] = m.doc]
  <2>1. m = toServer[1] /\ 1 \in DOMAIN toServer /\ m.send \in Subs
    <3>1. m = toServer[1] /\ 1 \in DOMAIN toServer /\ m \in SentDocument
      BY <1>1
    <3> QED BY <3>1 DEF SentDocument
  <2>2. \A n \in DOMAIN toServer' :
          n + 1 \in DOMAIN toServer /\ toServer'[n] = toServer[n + 1] /\ toServer'[n].send # m.send
    <3> TAKE n \in DOMAIN toServer'
    <3>1. n \in Nat /\ n + 1 \in DOMAIN toServer /\ toServer'[n] = toServer[n + 1]
      BY <1>2 DEF Shrunk
    <3>2. n \in 1 .. Len(toServer')
      BY <1>1
    <3> QED BY <2>1, <3>1, <3>2 DEF ToServerSound
  <2>3. \A n, l \in DOMAIN toServer' : toServer'[n].send = toServer'[l].send => n = l
    <3> TAKE n, l \in DOMAIN toServer'
    <3> HAVE toServer'[n].send = toServer'[l].send
    <3>1. n + 1 = l + 1
      BY <2>2 DEF ToServerSound
    <3> QED BY <1>2, <3>1 DEF Shrunk
  <2>4. \A t \in Subs : doc'[t] = IF t = m.send THEN m.doc ELSE doc[t]
    BY <1>4 DEF TypeOK
  <2>5. \A n \in DOMAIN toServer' :
          doc'[toServer'[n].send] = NULL /\ request'[toServer'[n].send] = toServer'[n].doc
    BY <1>1, <1>4, <2>2 DEF ToServerSound, TypeOK
  <2>6. \A t \in Subs : doc'[t] # NULL => doc'[t] = request'[t]
    BY <1>1, <2>1, <2>4 DEF ToServerSound
  <2> QED BY <2>3, <2>5, <2>6 DEF ToServerSound
<1> QED BY <1>3, <1>4

(* Nothing happens any more to a submission that is answered.                 *)
AnsweredStay == \A t \in Subs : answers[t] # << >> => SameSubmission(t)

LEMMA ConcernsStay ==
    ASSUME NEW s, Concerns(s), answers[s] # << >> => SameSubmission(s)
    PROVE  AnsweredStay
BY DEF Concerns, AnsweredStay

LEMMA SameStay == vars' = vars => AnsweredStay
BY DEF vars, AnsweredStay, SameSubmission

(* What is on the client's stream, before and after a step.                   *)
Sent(e) ==
    IF e.send = NULL THEN e.doc = ParseError ELSE e.send \in Subs /\ AnswerTo(e.send, e.doc)

SentNext(e) ==
    IF e.send = NULL THEN e.doc = ParseError
    ELSE /\ e.send \in Subs
         /\ answers'[e.send] # << >> /\ answers'[e.send][1] # NULL
         /\ e.doc = AnswerDocument(e.send, doc'[e.send], req'[e.send], answers'[e.send][1])

LEMMA ToClientParts ==
    /\ ToClientSound <=>
          /\ \A n \in DOMAIN toClient : Sent(toClient[n])
          /\ \A n, l \in DOMAIN toClient :
                toClient[n].send = toClient[l].send => n = l \/ toClient[n].send = NULL
    /\ ToClientSound' <=>
          /\ \A n \in DOMAIN toClient' : SentNext(toClient'[n])
          /\ \A n, l \in DOMAIN toClient' :
                toClient'[n].send = toClient'[l].send => n = l \/ toClient'[n].send = NULL
BY Zenon DEF ToClientSound, Sent, SentNext, AnswerTo

LEMMA AnswerStays ==
    ASSUME AnsweredStay, NEW e, Sent(e)
    PROVE  SentNext(e)
BY DEF AnsweredStay, SameSubmission, AnswerTo, Sent, SentNext

LEMMA ToClientShrinks ==
    ASSUME ToClientSound, AnsweredStay, NEW c, Shrunk(toClient, toClient', c)
    PROVE  ToClientSound'
<1>1. DOMAIN toClient' \subseteq Nat /\ c \in Nat
  BY DEF Shrunk
<1>2. \A n \in DOMAIN toClient' : n + c \in DOMAIN toClient /\ toClient'[n] = toClient[n + c]
  BY DEF Shrunk
<1>3. \A n \in DOMAIN toClient' : SentNext(toClient'[n])
  BY <1>2, AnswerStays, ToClientParts
<1>4. ASSUME NEW n \in DOMAIN toClient', NEW l \in DOMAIN toClient', toClient'[n].send = toClient'[l].send
      PROVE  n = l \/ toClient'[n].send = NULL
  <2>1. n + c = l + c \/ toClient'[n].send = NULL
    BY <1>2, <1>4, ToClientParts
  <2> QED BY <1>1, <2>1
<1> QED BY <1>3, <1>4, ToClientParts

(* An answer is put on the client's stream.                                   *)
LEMMA ToClientAppends ==
    ASSUME toClient \in Seq(RangeOf(toClient)), ToClientSound, AnsweredStay,
           NEW e, SentNext(e), e.send # NULL => answers[e.send] = << >>,
           toClient' = toClient \/ toClient' = Append(toClient, e)
    PROVE  ToClientSound'
<1>1. CASE toClient' = toClient
  BY <1>1, ShrunkIs, ToClientShrinks
<1>2. CASE toClient' = Append(toClient, e)
  <2>1. /\ DOMAIN toClient' = 1 .. Len(toClient) + 1
        /\ DOMAIN toClient = 1 .. Len(toClient) /\ Len(toClient) \in Nat
        /\ \A n \in DOMAIN toClient : toClient'[n] = toClient[n]
        /\ toClient'[Len(toClient) + 1] = e
    BY <1>2
  <2>2. \A n \in DOMAIN toClient' : n \in DOMAIN toClient \/ n = Len(toClient) + 1
    BY <2>1
  <2>3. \A n \in DOMAIN toClient' : SentNext(toClient'[n])
    BY <2>1, <2>2, AnswerStays, ToClientParts
  <2>4. \A n \in DOMAIN toClient : toClient[n].send = NULL \/ toClient[n].send # e.send
    <3> TAKE n \in DOMAIN toClient
    <3>1. Sent(toClient[n])
      BY ToClientParts
    <3> QED BY <3>1 DEF Sent, AnswerTo
  <2>5. \A n, l \in DOMAIN toClient' :
          toClient'[n].send = toClient'[l].send => n = l \/ toClient'[n].send = NULL
    BY <2>1, <2>2, <2>4, ToClientParts
  <2> QED BY <2>3, <2>5, ToClientParts
<1> QED BY <1>1, <1>2

LEMMA ToClientError ==
    ASSUME toClient \in Seq(RangeOf(toClient)), ToClientSound, vars' = vars,
           TtWrite(NULL, ParseError)
    PROVE  ToClientSound'
<1> DEFINE e == [send |-> NULL, doc |-> ParseError]
<1>1. SentNext(e) /\ e.send = NULL
  BY DEF SentNext
<1>2. toClient' = toClient \/ toClient' = Append(toClient, e)
  BY DEF TtWrite
<1> HIDE DEF e
<1> QED BY <1>1, <1>2, SameStay, ToClientAppends

LEMMA ToClientResult ==
    ASSUME toClient \in Seq(RangeOf(toClient)), ToClientSound, NEW k, Concerns(k), TtResult(k)
    PROVE  ToClientSound'
<1> DEFINE res == answers'[k][Len(answers'[k])]
           e == [send |-> k, doc |-> AnswerDocument(k, doc'[k], req'[k], res)]
<1>1. k \in Subs /\ k # NULL
  BY DEF Concerns
<1>2. AnsweredStay
  BY ConcernsStay DEF Concerns
<1>3. CASE toClient' = toClient
  BY <1>2, <1>3, ShrunkIs, ToClientShrinks
<1>4. CASE toClient' # toClient
  <2>1. answers'[k] # answers[k] /\ res # NULL /\ TtWrite(k, AnswerDocument(k, doc'[k], req'[k], res))
    BY <1>4, Zenon DEF TtResult
  <2>2. answers[k] = << >> /\ \E r : answers'[k] = <<r>>
    BY <2>1 DEF Concerns, SameSubmission
  <2>3. answers'[k] # << >> /\ res = answers'[k][1]
    BY <2>2
  <2>4. toClient' = toClient \/ toClient' = Append(toClient, e)
    BY <2>1 DEF TtWrite
  <2>5. e.send = k /\ e.doc = AnswerDocument(k, doc'[k], req'[k], res)
    OBVIOUS
  <2> HIDE DEF e, res
  <2>6. SentNext(e)
    BY <1>1, <2>1, <2>3, <2>5 DEF SentNext
  <2> QED BY <1>2, <2>2, <2>4, <2>5, <2>6, ToClientAppends
<1> QED BY <1>3, <1>4

(* Both transports read a document: it is submitted, or of no concern to the  *)
(* server; or it is malformed.                                                *)
LEMMA ReadsIs ==
    ASSUME ConnectionTypeOK, TcpRead \/ WsMessage
    PROVE  /\ Receive /\ Head(toServer) \in SentDocument
           /\ \/ UNCHANGED <<vars, toClient>>
              \/ UNCHANGED vars /\ TtWrite(NULL, ParseError)
              \/ LET m == Head(toServer)
                 IN  m.send \in Subs /\ m.doc \in Documents /\ Process(m.send, m.doc) /\ TtResult(m.send)
<1>1. Receive /\ Head(toServer) \in SentDocument
  BY ReceiveType DEF TcpRead, WsMessage
<1>2. \/ UNCHANGED <<vars, toClient>> \/ TtRead(Head(toServer))
      \/ UNCHANGED vars /\ TtWrite(NULL, ParseError)
  BY Zenon DEF TcpRead, WsMessage
<1> QED BY <1>1, <1>2, TtReadIs, Zenon

(* What the application puts on the stream, and another client.               *)
LEMMA SendsIs ==
    ASSUME ConnectionTypeOK, NEW k \in Subs, NEW m,
           \/ m \in Requests /\ (TtSend(k, m) \/ TtSendFails(k, m))
           \/ m \in RawDocuments /\ RawSend(k, m)
    PROVE  /\ m \in Documents /\ request[k] = NULL /\ request' = [request EXCEPT ![k] = m]
           /\ UNCHANGED <<running, completed, vars, toClient>>
           /\ toServer' = toServer \/ toServer' = Append(toServer, [send |-> k, doc |-> m])
<1>1. CASE m \in Requests /\ (TtSend(k, m) \/ TtSendFails(k, m))
  <2>1. m \in Documents /\ IsList(Elements(m))
    BY <1>1, DocumentLists
  <2>2. /\ request[k] = NULL /\ request' = [request EXCEPT ![k] = m]
        /\ UNCHANGED <<running, completed>>
    BY <1>1, <2>1, PreprocessIs DEF TtSend, TtSendFails, ConnectionTypeOK
  <2>3. UNCHANGED <<vars, toClient>>
    BY <1>1, Zenon DEF TtSend, TtSendFails
  <2>4. toServer' = toServer \/ toServer' = Append(toServer, [send |-> k, doc |-> m])
    BY <1>1, Zenon DEF TtSend, TtSendFails
  <2> QED BY <2>1, <2>2, <2>3, <2>4
<1>2. CASE m \in RawDocuments /\ RawSend(k, m)
  <2>1. /\ request[k] = NULL /\ request' = [request EXCEPT ![k] = m]
        /\ UNCHANGED <<running, completed>> /\ UNCHANGED <<vars, toClient>>
        /\ toServer' = Append(toServer, [send |-> k, doc |-> m])
    BY <1>2, Zenon DEF RawSend
  <2> QED BY <1>2, <2>1 DEF RawDocuments
<1> QED BY <1>1, <1>2

(* The client's stream, and whether a step serves a submission.               *)
LEMMA ServesIs ==
    ASSUME ConnectionTypeOK, TypeOK, RequestInvariant,
           NEW k \in Subs, NEW i \in Indices, ServeDeferred(k, i) \/ ServeKept(k, i)
    PROVE  /\ Concerns(k) /\ doc' = doc
           /\ UNCHANGED <<clientVars, toServer, open, ttVars>>
           /\ TtResult(k) \/ (UNCHANGED <<toClient, answers, req>>)
<1>1. CASE ServeDeferred(k, i)
  <2>1. PICK e \in queue : e.sub = k /\ RunDeferred(e)
    BY <1>1, Zenon DEF ServeDeferred
  <2>2. Concerns(k) /\ doc' = doc
    BY <2>1, DeferredConcerns, Zenon
  <2> QED BY <1>1, <2>2 DEF ServeDeferred
<1>2. CASE ServeKept(k, i)
  <2>1. Concerns(k) /\ doc' = doc /\ req' = req /\ answers' = answers
    BY <1>2, KeptConcerns, Zenon DEF ServeKept
  <2> QED BY <1>2, <2>1 DEF ServeKept
<1> QED BY <1>1, <1>2

LEMMA StreamInit == ConnectionInit => StreamSound
<1> SUFFICES ASSUME ConnectionInit PROVE StreamSound
  OBVIOUS
<1>1. toServer = << >> /\ toClient = << >> /\ doc = [s \in Subs |-> NULL]
  BY DEF ConnectionInit, Init
<1>2. \A n : n \notin DOMAIN << >>
  OBVIOUS
<1> QED BY <1>1, <1>2 DEF StreamSound, ToServerSound, ToClientSound

LEMMA StreamReads ==
    ASSUME ConnectionTypeOK, TypeOK, RequestInvariant, StreamSound, TcpRead \/ WsMessage
    PROVE  StreamSound'
<1> DEFINE m == Head(toServer)
<1>1. /\ Receive /\ m \in SentDocument
      /\ \/ UNCHANGED <<vars, toClient>>
         \/ UNCHANGED vars /\ TtWrite(NULL, ParseError)
         \/ m.send \in Subs /\ m.doc \in Documents /\ Process(m.send, m.doc) /\ TtResult(m.send)
  BY ReadsIs
<1>2. toClient \in Seq(RangeOf(toClient)) /\ ToServerSound /\ ToClientSound
  BY DEF ConnectionTypeOK, StreamSound
<1>3. CASE UNCHANGED <<vars, toClient>>
  <2>1. ToServerSound'
    BY <1>1, <1>2, <1>3, ToServerReceives DEF vars
  <2>2. ToClientSound'
    BY <1>2, <1>3, SameStay, ShrunkIs, ToClientShrinks
  <2> QED BY <2>1, <2>2 DEF StreamSound
<1>4. CASE UNCHANGED vars /\ TtWrite(NULL, ParseError)
  <2>1. ToServerSound'
    BY <1>1, <1>2, <1>4, ToServerReceives DEF vars
  <2>2. ToClientSound'
    BY <1>2, <1>4, ToClientError
  <2> QED BY <2>1, <2>2 DEF StreamSound
<1>5. CASE m.send \in Subs /\ m.doc \in Documents /\ Process(m.send, m.doc) /\ TtResult(m.send)
  <2>1. Concerns(m.send) /\ doc' = [doc EXCEPT ![m.send] = m.doc]
    BY <1>5, ProcessConcerns
  <2>2. ToServerSound'
    BY <1>1, <1>2, <2>1, ToServerReceives
  <2>3. ToClientSound'
    BY <1>2, <1>5, <2>1, ToClientResult
  <2> QED BY <2>2, <2>3 DEF StreamSound
<1> QED BY <1>1, <1>3, <1>4, <1>5

LEMMA StreamServes ==
    ASSUME ConnectionTypeOK, TypeOK, RequestInvariant, StreamSound,
           NEW k \in Subs, NEW i \in Indices, ServeDeferred(k, i) \/ ServeKept(k, i)
    PROVE  StreamSound'
<1>1. /\ Concerns(k) /\ doc' = doc /\ UNCHANGED <<clientVars, toServer>>
      /\ TtResult(k) \/ (UNCHANGED <<toClient, answers, req>>)
  BY ServesIs
<1>2. /\ toClient \in Seq(RangeOf(toClient)) /\ toServer \in Seq(SentDocument)
      /\ ToServerSound /\ ToClientSound
  BY DEF ConnectionTypeOK, StreamSound
<1>3. ToServerSound'
  BY <1>1, <1>2, ShrunkIs, ToServerShrinks DEF clientVars
<1>4. CASE TtResult(k)
  BY <1>1, <1>2, <1>3, <1>4, ToClientResult DEF StreamSound
<1>5. CASE UNCHANGED <<toClient, answers, req>>
  <2>1. AnsweredStay
    BY <1>1, <1>5 DEF AnsweredStay, SameSubmission
  <2>2. ToClientSound'
    BY <1>2, <1>5, <2>1, ShrunkIs, ToClientShrinks
  <2> QED BY <1>3, <2>2 DEF StreamSound
<1> QED BY <1>1, <1>4, <1>5

LEMMA StreamStep ==
    /\ ConnectionTypeOK /\ TypeOK /\ RequestInvariant /\ StreamSound
    /\ [ConnectionNext]_connectionVars
    => StreamSound'
<1> SUFFICES ASSUME ConnectionTypeOK, TypeOK, RequestInvariant, StreamSound,
                    [ConnectionNext]_connectionVars
             PROVE  StreamSound'
  OBVIOUS
<1>1. /\ toClient \in Seq(RangeOf(toClient)) /\ toServer \in Seq(SentDocument)
      /\ ToServerSound /\ ToClientSound
  BY DEF ConnectionTypeOK, StreamSound
<1>2. /\ Shrunk(toServer, toServer, 0) /\ Shrunk(toClient, toClient, 0)
      /\ Shrunk(toServer, << >>, 0) /\ Shrunk(toClient, << >>, 0)
      /\ toClient # << >> => Shrunk(toClient, Tail(toClient), 1)
  BY <1>1, ShrunkIs
<1>3. ASSUME NEW k \in Subs, NEW m,
             \/ m \in Requests /\ (TtSend(k, m) \/ TtSendFails(k, m))
             \/ m \in RawDocuments /\ RawSend(k, m)
      PROVE  StreamSound'
  <2>1. /\ m \in Documents /\ request[k] = NULL /\ request' = [request EXCEPT ![k] = m]
        /\ vars' = vars /\ toClient' = toClient
        /\ toServer' = toServer \/ toServer' = Append(toServer, [send |-> k, doc |-> m])
    BY <1>3, SendsIs
  <2>2. ToServerSound'
    BY <1>1, <2>1, ToServerSends DEF vars
  <2>3. ToClientSound'
    BY <1>1, <1>2, <2>1, SameStay, ToClientShrinks
  <2> QED BY <2>2, <2>3 DEF StreamSound
<1>4. ASSUME NEW n \in MethodNames, NEW h \in Handlers, ServerAddMethod(n, h) PROVE StreamSound'
  <2>1. UNCHANGED <<request, doc, req, answers, toServer, toClient>>
    BY <1>4 DEF ServerAddMethod, AddMethod, clientVars
  <2>2. AnsweredStay
    BY <2>1 DEF AnsweredStay, SameSubmission
  <2> QED BY <1>1, <1>2, <2>1, <2>2, ToServerShrinks, ToClientShrinks DEF StreamSound
<1>5. CASE TcpParseError
  <2>1. vars' = vars /\ request' = request /\ toServer' = toServer /\ TtWrite(NULL, ParseError)
    BY <1>5 DEF TcpParseError, clientVars
  <2>2. doc' = doc
    BY <2>1 DEF vars
  <2> QED BY <1>1, <1>2, <2>1, <2>2, ToServerShrinks, ToClientError DEF StreamSound
<1>6. ASSUME vars' = vars, request' = request,
             toServer' = toServer \/ toServer' = << >>,
             \/ toClient' = toClient \/ toClient' = << >>
             \/ toClient # << >> /\ toClient' = Tail(toClient)
      PROVE  StreamSound'
  <2>1. doc' = doc
    BY <1>6 DEF vars
  <2>2. ToServerSound'
    BY <1>1, <1>2, <1>6, <2>1, ToServerShrinks
  <2>3. ToClientSound'
    BY <1>1, <1>2, <1>6, SameStay, ToClientShrinks
  <2> QED BY <2>2, <2>3 DEF StreamSound
<1>7. CASE ReadResponse
  <2>1. request' = request
    BY <1>7, ProcessResponseIs, DropResponseIs DEF ReadResponse, ConnectionTypeOK
  <2> QED BY <1>6, <1>7, <2>1 DEF ReadResponse
<1>8. CASE CallbackReturns
  BY <1>6, <1>8 DEF CallbackReturns, Client!CallbackReturns
<1>9. CASE Break
  BY <1>6, <1>9 DEF Break, clientVars
<1>10. CASE UNCHANGED connectionVars
  BY <1>6, <1>10 DEF connectionVars, clientVars
<1> QED BY <1>3, <1>4, <1>5, <1>7, <1>8, <1>9, <1>10, StreamReads, StreamServes, Zenon DEF ConnectionNext

(* A document reaches the server once, and its answer is put on the client's  *)
(* stream once: what is on the stream for a send is what json_rpc.c gave      *)
(* user_cb for that send, in the form of its own document.                    *)
THEOREM StreamsSound == ConnectionSpec => [](ToServerSound /\ ToClientSound)
<1>1. ConnectionTypeOK /\ ServerSound /\ StreamSound /\ [ConnectionNext]_connectionVars => StreamSound'
  BY StreamStep DEF ServerSound
<1>2. StreamSound => ToServerSound /\ ToClientSound
  BY DEF StreamSound
<1> QED BY <1>1, <1>2, StreamInit, ConnectionTypes, ConnectionServerSound, PTL DEF ConnectionSpec
-----------------------------------------------------------------------------
(* Answers are responses to json_rpc_is_response.                             *)

ResponseId(d, r) == IF r.id = 0 THEN Scalar("null", "") ELSE Member(Calls(d)[r.id], "id")

(* What prepare_response_object and prepare_error_response build.             *)
LEMMA ResponseDocumentIs ==
    ASSUME NEW k, NEW d, NEW r
    PROVE  LET x == ResponseDocument(k, d, r)
           IN  /\ x.type = "object" /\ Member(x, "jsonrpc") = Version
               /\ Member(x, "id") = ResponseId(d, r)
               /\ r.kind = "result" => Member(x, "result") = Scalar("string", <<k, r.call>>)
               /\ r.kind # "result" =>
                     Member(x, "result") = Absent /\ IsErrorObject(Member(x, "error"))
<1> DEFINE x == ResponseDocument(k, d, r)
           e == Obj([message |-> Scalar("string", r.kind), code |-> Scalar("int", r.kind)])
<1>1. IsErrorObject(e)
  BY DEF IsErrorObject, Member, Obj, Scalar
<1>2. CASE r.kind = "result"
  <2>1. x = Obj([jsonrpc |-> Version, result |-> Scalar("string", <<k, r.call>>),
                 id |-> ResponseId(d, r)])
    BY <1>2 DEF ResponseDocument, ResponseId
  <2> HIDE DEF x
  <2>2. /\ x.type = "object" /\ Member(x, "jsonrpc") = Version /\ Member(x, "id") = ResponseId(d, r)
        /\ Member(x, "result") = Scalar("string", <<k, r.call>>)
    BY <2>1 DEF Obj, Member
  <2> QED BY <1>2, <2>2 DEF x
<1>3. CASE r.kind # "result"
  <2>1. x = Obj([jsonrpc |-> Version, error |-> e, id |-> ResponseId(d, r)])
    BY <1>3 DEF ResponseDocument, ResponseId
  <2> HIDE DEF x, e
  <2>2. /\ x.type = "object" /\ Member(x, "jsonrpc") = Version /\ Member(x, "id") = ResponseId(d, r)
        /\ Member(x, "result") = Absent /\ Member(x, "error") = e
    BY <2>1 DEF Obj, Member
  <2> QED BY <1>1, <1>3, <2>2 DEF x
<1> QED BY <1>2, <1>3

LEMMA ResponseIsObject ==
    \A k, d, r : /\ ResponseDocument(k, d, r).type = "object"
                 /\ Member(ResponseDocument(k, d, r), "id") = ResponseId(d, r)
BY ResponseDocumentIs

LEMMA ParseErrorIs ==
    /\ ParseError.type = "object" /\ Member(ParseError, "jsonrpc") = Version
    /\ Member(ParseError, "id") = Scalar("null", "") /\ Member(ParseError, "result") = Absent
    /\ IsErrorObject(Member(ParseError, "error"))
<1> DEFINE e == Obj([code |-> Scalar("int", "parse_error"), message |-> Scalar("string", "parse_error")])
<1>1. IsErrorObject(e)
  BY DEF IsErrorObject, Member, Obj, Scalar
<1> HIDE DEF e
<1>2. ParseError = Obj([id |-> Scalar("null", ""), jsonrpc |-> Version, error |-> e])
  BY DEF ParseError, e
<1> QED BY <1>1, <1>2 DEF Obj, Member

(* The id of a response is one json_rpc_is_response knows.                    *)
LEMMA ResponseIdIs ==
    ASSUME NEW d, NEW r, IdOf(r.id, d)
    PROVE  ResponseId(d, r).type \in {"default", "string", "int", "null"}
<1>1. CASE r.id = 0
  BY <1>1 DEF ResponseId, Scalar
<1>2. CASE r.id # 0
  <2> DEFINE c == Calls(d)[r.id]
  <2>1. EvalCallType(c) = "request"
    BY <1>2 DEF IdOf, RequestCalls
  <2>2. IsCall(c) /\ Member(c, "id") # Absent
    BY <2>1 DEF EvalCallType
  <2>3. Member(c, "id").type \in {"default", "string", "int"}
    BY <2>2 DEF IsCall
  <2> QED BY <1>2, <2>3 DEF ResponseId
<1> QED BY <1>1, <1>2

(* An answer is the response there is, or the array of those of a batch.      *)
AnswerOf(k, x, res) ==
    /\ answers[k] # << >> /\ answers[k][1] = res /\ res # NULL
    /\ \A n \in DOMAIN res : IdOf(res[n].id, doc[k])
    /\ \/ /\ x.type = "object" /\ Len(res) = 1 /\ x = ResponseDocument(k, doc[k], res[1])
          /\ req[k].state = "none" \/ req[k].return_cb = "single"
       \/ /\ x.type = "array" /\ DOMAIN x.elems = DOMAIN res /\ Len(x.elems) = Len(res)
          /\ \A n \in DOMAIN res : x.elems[n] = ResponseDocument(k, doc[k], res[n])
          /\ req[k].state # "none" /\ req[k].return_cb = "batched"

LEMMA AnswerIs ==
    ASSUME TypeOK, OwnIdsInvariant, NEW k \in Subs, NEW x, AnswerTo(k, x)
    PROVE  \E res \in Seq(Response) : AnswerOf(k, x, res)
<1> USE DEF AnswerOf
<1> DEFINE res == answers[k][1]
<1>1. /\ answers[k] # << >> /\ res # NULL
      /\ x = AnswerDocument(k, doc[k], req[k], res)
  BY DEF AnswerTo
<1>2. answers[k] \in Seq(Seq(Response) \cup {NULL}) /\ req[k].return_cb \in {"single", "batched"}
  BY DEF TypeOK, Request
<1>3. res \in Seq(Response) /\ 1 \in DOMAIN answers[k]
  BY <1>1, <1>2
<1>4. /\ \A n \in DOMAIN res : IdOf(res[n].id, doc[k])
      /\ req[k].return_cb = "single" => Len(res) = 1
      /\ req[k].state = "none" => req[k].return_cb = "single"
  BY <1>1, <1>3 DEF OwnIdsInvariant, OwnIds, NoRequest, NewRequest
<1>5. CASE req[k].state # "none" /\ req[k].return_cb = "batched"
  <2> DEFINE f == [n \in DOMAIN res |-> ResponseDocument(k, doc[k], res[n])]
  <2>1. x = Arr(f)
    BY <1>1, <1>5 DEF AnswerDocument
  <2>2. DOMAIN f = DOMAIN res /\ \A n \in DOMAIN res : f[n] = ResponseDocument(k, doc[k], res[n])
    OBVIOUS
  <2>3. DOMAIN res = 1 .. Len(res) /\ Len(res) \in Nat
    BY <1>3, LenProperties
  <2>4. Len(f) = Len(res)
    BY <2>3
  <2> HIDE DEF f
  <2>5. x.type = "array" /\ x.elems = f
    BY <2>1 DEF Arr
  <2> QED BY <1>1, <1>3, <1>4, <1>5, <2>2, <2>4, <2>5
<1>6. CASE ~(req[k].state # "none" /\ req[k].return_cb = "batched")
  <2>1. x = ResponseDocument(k, doc[k], res[1])
    BY <1>1, <1>6 DEF AnswerDocument
  <2>2. x.type = "object"
    BY <2>1, ResponseIsObject
  <2>3. Len(res) = 1 /\ (req[k].state = "none" \/ req[k].return_cb = "single")
    BY <1>2, <1>4, <1>6
  <2> QED BY <1>1, <1>3, <1>4, <2>1, <2>2, <2>3
<1> QED BY <1>5, <1>6

LEMMA ResponseRecognized ==
    ASSUME NEW k, NEW d, NEW r, IdOf(r.id, d)
    PROVE  IsResponseSingle(ResponseDocument(k, d, r))
<1> DEFINE x == ResponseDocument(k, d, r)
<1>1. /\ x.type = "object" /\ Member(x, "jsonrpc") = Version /\ Member(x, "id") = ResponseId(d, r)
      /\ r.kind = "result" => Member(x, "result") = Scalar("string", <<k, r.call>>)
      /\ r.kind # "result" => IsErrorObject(Member(x, "error"))
  BY ResponseDocumentIs
<1>2. Scalar("string", <<k, r.call>>) # Absent
  BY DEF Scalar, Absent
<1>3. ResponseId(d, r).type \in {"default", "string", "int", "boolean", "null"}
  BY ResponseIdIs
<1> HIDE DEF x
<1>4. IsResponseSingle(x)
  BY <1>1, <1>2, <1>3 DEF IsResponseSingle
<1> QED BY <1>4 DEF x

LEMMA AnswerRecognized ==
    ASSUME TypeOK, OwnIdsInvariant, NEW k \in Subs, NEW x, AnswerTo(k, x)
    PROVE  IsResponse(x)
<1> USE DEF AnswerOf
<1>1. PICK res \in Seq(Response) : AnswerOf(k, x, res)
  BY AnswerIs, Zenon
<1>2. \A n \in DOMAIN res : IsResponseSingle(ResponseDocument(k, doc[k], res[n]))
  BY <1>1, ResponseRecognized
<1>3. Len(res) = 1 => 1 \in DOMAIN res
  BY LenProperties
<1>4. CASE /\ x.type = "object" /\ Len(res) = 1
           /\ x = ResponseDocument(k, doc[k], res[1])
  <2>1. IsResponseSingle(x)
    BY <1>2, <1>3, <1>4
  <2> QED BY <1>4, <2>1 DEF IsResponse
<1>5. CASE /\ x.type = "array" /\ DOMAIN x.elems = DOMAIN res
           /\ \A n \in DOMAIN res : x.elems[n] = ResponseDocument(k, doc[k], res[n])
  <2>1. \A n \in DOMAIN x.elems : IsResponseSingle(x.elems[n])
    BY <1>2, <1>5, Zenon
  <2> QED BY <1>5, <2>1, Zenon DEF IsResponse
<1> QED BY <1>1, <1>4, <1>5, Zenon

(* Whatever is on the client's stream, json_rpc_is_response takes it for a    *)
(* response: what json_rpc.c answers with is never dispatched as a call, so   *)
(* that two peers cannot go on answering each other's answers.                *)
THEOREM AnswersRecognized == ConnectionSpec => []AnswersAreResponses
<1>1. ToClientSound /\ ServerSound => AnswersAreResponses
  <2> SUFFICES ASSUME ToClientSound, ServerSound, NEW n \in DOMAIN toClient
               PROVE  IsResponse(toClient[n].doc)
    BY DEF AnswersAreResponses
  <2>1. Sent(toClient[n])
    BY ToClientParts
  <2>2. IsResponse(ParseError)
    <3>1. Scalar("null", "").type = "null"
      BY DEF Scalar
    <3>2. IsResponseSingle(ParseError)
      BY <3>1, ParseErrorIs DEF IsResponseSingle
    <3> QED BY <3>2, ParseErrorIs DEF IsResponse
  <2> QED BY <2>1, <2>2, AnswerRecognized DEF Sent, ServerSound
<1> QED BY <1>1, StreamsSound, ConnectionServerSound, PTL
-----------------------------------------------------------------------------
(* Callbacks are registered under different ids.                              *)

(* The calls of the application are valid, and those of a batch have          *)
(* different ids.                                                             *)
LEMMA ValidCalls ==
    ASSUME NEW m \in Requests
    PROVE  /\ m \in Documents /\ IsList(Elements(m)) /\ Expected(m) = RequestCalls(m)
           /\ DOMAIN Calls(m) = 1 .. Len(Calls(m)) /\ Len(Calls(m)) \in Nat
           /\ \A i \in DOMAIN Calls(m) :
                 /\ Member(Calls(m)[i], "id").type \in {"default", "string", "int"}
                 /\ Member(Calls(m)[i], "id") # Absent <=> i \in Expected(m)
           /\ \A i, j \in Expected(m) :
                 Member(Calls(m)[i], "id") = Member(Calls(m)[j], "id") => i = j
<1>1. /\ m \in Documents /\ IsList(Elements(m))
      /\ DOMAIN Calls(m) = 1 .. Len(Calls(m)) /\ Len(Calls(m)) \in Nat
  BY DocumentLists, CallIndices
<1>2. ASSUME NEW i \in DOMAIN Calls(m)
      PROVE  /\ Member(Calls(m)[i], "id").type \in {"default", "string", "int"}
             /\ Member(Calls(m)[i], "id") # Absent <=> i \in Expected(m)
             /\ i \in Expected(m) <=> i \in RequestCalls(m)
  <2>1. EvalCallType(Calls(m)[i]) # "invalid"
    BY ApplicationAssumption
  <2> QED BY <2>1 DEF EvalCallType, IsCall, Expected, RequestCalls
<1>3. Expected(m) = RequestCalls(m)
  BY <1>2 DEF Expected, RequestCalls
<1> QED BY <1>1, <1>2, <1>3, ApplicationAssumption

(* The ids in a batch are those of its requests.                              *)
LEMMA BatchIds ==
    ASSUME NEW m \in Requests, m.type = "array"
    PROVE  /\ HaveIds(m, {}) = Expected(m) /\ Calls(m) = m.elems /\ Elements(m) = m.elems
           /\ IsList(m.elems)
<1>1. Calls(m) = m.elems /\ Elements(m) = m.elems
  BY DEF Calls, Elements
<1>2. HaveIds(m, {}) = Expected(m)
  BY <1>1, ValidCalls DEF HaveIds, Expected
<1> QED BY <1>1, <1>2, ValidCalls

(* A null is neither the id of a message of the application nor one of those  *)
(* of a batch.                                                                *)
NotNull(id) ==
    IF id.type = "array" THEN \A p \in DOMAIN id.elems : id.elems[p] # Scalar("null", "")
    ELSE id # Scalar("null", "")

LEMMA NullIs == Scalar("null", "").type = "null" /\ Scalar("null", "") # Absent /\ Absent.type = "default"
BY DEF Scalar, Absent

LEMMA RequestIds ==
    ASSUME NEW m \in Requests
    PROVE  IsId(GetId(m)) /\ Distinct(GetId(m)) /\ NotNull(GetId(m))
<1>1. CASE m.type = "object"
  <2>1. GetId(m) = Member(m, "id")
    BY <1>1 DEF GetId, GetIdWithout
  <2>2. Calls(m) = <<m>>
    BY <1>1 DEF Calls
  <2>3. 1 \in DOMAIN Calls(m) /\ Calls(m)[1] = m
    BY <2>2
  <2>4. GetId(m).type \in {"default", "string", "int"}
    BY <2>1, <2>3, ValidCalls
  <2> QED BY <2>4, NullIs DEF IsId, Distinct, NotNull
<1>2. CASE m.type = "array" /\ HaveIds(m, {}) # {}
  <2> DEFINE n == Cardinality(HaveIds(m, {}))
             id == GetId(m)
  <2>1. IsList(Elements(m))
    BY ValidCalls
  <2>2. id = GetIdWithout(m, {})
    BY DEF GetId
  <2>3. /\ id.type = "array" /\ n \in Nat /\ Len(id.elems) = n /\ DOMAIN id.elems = 1 .. n
        /\ \E f \in [1 .. n -> HaveIds(m, {})] :
              /\ \A p \in 1 .. n : id.elems[p] = Member(m.elems[f[p]], "id")
              /\ \A p, q \in 1 .. n : p < q => f[p] < f[q]
    BY <1>2, <2>1, <2>2, BatchId
  <2> HIDE DEF n, id
  <2>4. PICK f \in [1 .. n -> HaveIds(m, {})] :
          /\ \A p \in 1 .. n : id.elems[p] = Member(m.elems[f[p]], "id")
          /\ \A p, q \in 1 .. n : p < q => f[p] < f[q]
    BY <2>3
  <2>5. /\ HaveIds(m, {}) = Expected(m) /\ Calls(m) = m.elems
        /\ Expected(m) \subseteq DOMAIN Calls(m) /\ DOMAIN Calls(m) \subseteq Nat
    BY <1>2, BatchIds, ValidCalls DEF Expected
  <2>6. \A p, q \in 1 .. n : id.elems[p] = id.elems[q] => p = q
    <3> TAKE p, q \in 1 .. n
    <3> HAVE id.elems[p] = id.elems[q]
    <3>1. f[p] \in Expected(m) /\ f[q] \in Expected(m) /\ f[p] \in Nat /\ f[q] \in Nat
      BY <2>4, <2>5
    <3>2. f[p] = f[q]
      BY <2>4, <2>5, <3>1, ValidCalls
    <3> QED BY <2>3, <2>4, <3>1, <3>2
  <2>7. \A p \in 1 .. n : id.elems[p] # Scalar("null", "")
    <3> TAKE p \in 1 .. n
    <3>1. f[p] \in DOMAIN Calls(m) /\ id.elems[p] = Member(Calls(m)[f[p]], "id")
      BY <2>4, <2>5
    <3>2. id.elems[p].type \in {"default", "string", "int"}
      BY <3>1, ValidCalls
    <3> QED BY <3>2, NullIs
  <2>8. IsId(id) /\ Distinct(id) /\ NotNull(id)
    BY <2>3, <2>6, <2>7 DEF IsId, IsList, Distinct, NotNull
  <2> QED BY <2>8 DEF id
<1>3. CASE m.type # "object" /\ ~(m.type = "array" /\ HaveIds(m, {}) # {})
  <2>1. GetId(m) = Absent
    BY <1>3 DEF GetId, GetIdWithout
  <2> QED BY <2>1, NullIs DEF IsId, Distinct, NotNull
<1> QED BY <1>1, <1>2, <1>3

(* An entry of result_cbs, and how it looks after a step.                     *)
Registered(e) ==
    /\ e.send \in Subs /\ request[e.send] \in Requests /\ GetId(request[e.send]) # Absent
    /\ IdEquals(e.id, GetId(request[e.send]))

RegisteredNext(e) ==
    /\ e.send \in Subs /\ request'[e.send] \in Requests /\ GetId(request'[e.send]) # Absent
    /\ IdEquals(e.id, GetId(request'[e.send]))

LEMMA CallbackParts ==
    /\ ConnectionTypeOK =>
          (CallbacksSound <=>
              /\ \A p \in DOMAIN result_cbs : Registered(result_cbs[p])
              /\ \A p, q \in DOMAIN result_cbs :
                    IdEquals(result_cbs[p].id, result_cbs[q].id) => p = q)
    /\ ConnectionTypeOK' =>
          (CallbacksSound' <=>
              /\ \A p \in DOMAIN result_cbs' : RegisteredNext(result_cbs'[p])
              /\ \A p, q \in DOMAIN result_cbs' :
                    IdEquals(result_cbs'[p].id, result_cbs'[q].id) => p = q)
<1>1. ConnectionTypeOK => \A p \in DOMAIN result_cbs : result_cbs[p].send \in Subs
  <2> SUFFICES ASSUME ConnectionTypeOK, NEW p \in DOMAIN result_cbs PROVE result_cbs[p].send \in Subs
    OBVIOUS
  <2>1. result_cbs[p] \in Registration
    BY DEF ConnectionTypeOK
  <2> QED BY <2>1 DEF Registration
<1>2. ConnectionTypeOK' => \A p \in DOMAIN result_cbs' : result_cbs'[p].send \in Subs
  <2> SUFFICES ASSUME ConnectionTypeOK', NEW p \in DOMAIN result_cbs' PROVE result_cbs'[p].send \in Subs
    OBVIOUS
  <2>1. result_cbs'[p] \in Registration
    BY DEF ConnectionTypeOK
  <2> QED BY <2>1 DEF Registration
<1>3. Client!UniqueIds <=> \A p, q \in DOMAIN result_cbs :
                              IdEquals(result_cbs[p].id, result_cbs[q].id) => p = q
  BY SameIds, Zenon DEF Client!UniqueIds
<1>4. Client!UniqueIds' <=> \A p, q \in DOMAIN result_cbs' :
                              IdEquals(result_cbs'[p].id, result_cbs'[q].id) => p = q
  BY SameIds, Zenon DEF Client!UniqueIds
<1> QED BY <1>1, <1>2, <1>3, <1>4, Zenon DEF CallbacksSound, Registered, RegisteredNext

(* An entry has the id of a message of the application.                       *)
LEMMA EntryIds ==
    ASSUME ConnectionTypeOK, NEW p \in DOMAIN result_cbs
    PROVE  \E m \in Requests : result_cbs[p].id = GetId(m)
<1>1. result_cbs[p] \in Registration
  BY DEF ConnectionTypeOK
<1> QED BY <1>1 DEF Registration

(* What list_del leaves: every other entry.                                   *)
KeptAt(p, l) == IF l < p THEN l ELSE l + 1

LEMMA RemovedIs ==
    ASSUME ConnectionTypeOK, NEW d, NEW p \in 1 .. Len(result_cbs), DeliversTo(d, p)
    PROVE  /\ \A l \in DOMAIN result_cbs' :
                 /\ l \in Nat /\ KeptAt(p, l) \in DOMAIN result_cbs /\ KeptAt(p, l) # p
                 /\ result_cbs'[l] = result_cbs[KeptAt(p, l)]
           /\ \A l, q \in DOMAIN result_cbs' : KeptAt(p, l) = KeptAt(p, q) => l = q
           /\ \A q \in DOMAIN result_cbs \ {p} : \E l \in DOMAIN result_cbs' : result_cbs'[l] = result_cbs[q]
<1>1. /\ result_cbs \in Seq(Registration) /\ DOMAIN result_cbs = 1 .. Len(result_cbs)
      /\ Len(result_cbs) \in Nat
  BY LenProperties DEF ConnectionTypeOK
<1>2. /\ result_cbs' \in Seq(Registration) /\ Len(result_cbs') = Len(result_cbs) - 1
      /\ \A q \in 1 .. Len(result_cbs) - 1 :
            result_cbs'[q] = IF q < p THEN result_cbs[q] ELSE result_cbs[q + 1]
  BY <1>1, ListWithout DEF DeliversTo
<1>3. DOMAIN result_cbs' = 1 .. Len(result_cbs) - 1
  BY <1>2, LenProperties
<1>4. \A l \in DOMAIN result_cbs' :
        /\ l \in Nat /\ KeptAt(p, l) \in DOMAIN result_cbs /\ KeptAt(p, l) # p
        /\ result_cbs'[l] = result_cbs[KeptAt(p, l)]
  BY <1>1, <1>2, <1>3 DEF KeptAt
<1>5. \A l, q \in DOMAIN result_cbs' : KeptAt(p, l) = KeptAt(p, q) => l = q
  BY <1>1, <1>3 DEF KeptAt
<1>6. ASSUME NEW q \in DOMAIN result_cbs \ {p}
      PROVE  \E l \in DOMAIN result_cbs' : result_cbs'[l] = result_cbs[q]
  <2>1. CASE q < p
    BY <1>1, <1>2, <1>3, <2>1
  <2>2. CASE q > p
    <3>1. q - 1 \in 1 .. Len(result_cbs) - 1 /\ ~(q - 1 < p) /\ (q - 1) + 1 = q
      BY <1>1, <2>2
    <3> QED BY <1>2, <1>3, <3>1
  <2> QED BY <1>1, <2>1, <2>2
<1> QED BY <1>4, <1>5, <1>6

LEMMA CallbacksRemove ==
    ASSUME ConnectionTypeOK, ConnectionTypeOK', CallbacksSound, request' = request,
           NEW d, NEW p \in 1 .. Len(result_cbs), DeliversTo(d, p)
    PROVE  CallbacksSound'
<1>1. \A l \in DOMAIN result_cbs' : RegisteredNext(result_cbs'[l])
  <2> TAKE l \in DOMAIN result_cbs'
  <2>1. KeptAt(p, l) \in DOMAIN result_cbs /\ result_cbs'[l] = result_cbs[KeptAt(p, l)]
    BY RemovedIs
  <2>2. Registered(result_cbs[KeptAt(p, l)])
    BY <2>1, CallbackParts
  <2> QED BY <2>1, <2>2 DEF Registered, RegisteredNext
<1>2. \A l, q \in DOMAIN result_cbs' : IdEquals(result_cbs'[l].id, result_cbs'[q].id) => l = q
  <2> TAKE l, q \in DOMAIN result_cbs'
  <2> HAVE IdEquals(result_cbs'[l].id, result_cbs'[q].id)
  <2>1. /\ KeptAt(p, l) \in DOMAIN result_cbs /\ result_cbs'[l] = result_cbs[KeptAt(p, l)]
        /\ KeptAt(p, q) \in DOMAIN result_cbs /\ result_cbs'[q] = result_cbs[KeptAt(p, q)]
    BY RemovedIs
  <2>2. KeptAt(p, l) = KeptAt(p, q)
    BY <2>1, CallbackParts
  <2> QED BY <2>2, RemovedIs
<1> QED BY <1>1, <1>2, CallbackParts

(* A registration under an id nobody waits for, or in the entry of an equal   *)
(* id.                                                                        *)
LEMMA CallbacksSend ==
    ASSUME ConnectionTypeOK, ConnectionTypeOK', CallbacksSound,
           NEW k \in Subs, NEW m \in Requests, TtSend(k, m) \/ TtSendFails(k, m)
    PROVE  CallbacksSound'
<1>1. /\ \A p \in DOMAIN result_cbs : Registered(result_cbs[p])
      /\ \A p, q \in DOMAIN result_cbs : IdEquals(result_cbs[p].id, result_cbs[q].id) => p = q
  BY CallbackParts
<1>2. /\ m \in Documents /\ IsList(Elements(m)) /\ NULL \notin Requests
      /\ result_cbs \in Seq(Registration)
  BY DocumentsAssumption, ValidCalls DEF ConnectionTypeOK
<1>3. /\ request[k] = NULL /\ request' = [request EXCEPT ![k] = m]
      /\ UNCHANGED result_cbs \/ AddsEntry(k, m) \/ TakesEntry(k, m)
  <2>1. Client!PreprocessRequest(k, m)
    BY Zenon DEF TtSend, TtSendFails
  <2> QED BY <1>2, <2>1, PreprocessIs
<1>4. \A t \in Subs : request'[t] = IF t = k THEN m ELSE request[t]
  BY <1>3 DEF ConnectionTypeOK
<1>5. \A e : Registered(e) => RegisteredNext(e)
  BY <1>2, <1>3, <1>4 DEF Registered, RegisteredNext
<1>6. CASE UNCHANGED result_cbs
  BY <1>1, <1>5, <1>6, CallbackParts
<1>7. CASE AddsEntry(k, m)
  <2> DEFINE e == [id |-> GetId(m), send |-> k]
  <2>1. RegisteredNext(e)
    BY <1>2, <1>4, <1>7, IdReflexive DEF AddsEntry, RegisteredNext
  <2>2. e.id = GetId(m)
    OBVIOUS
  <2>3. /\ result_cbs'[1] = e
        /\ \A p \in DOMAIN result_cbs' :
              \/ p = 1
              \/ p - 1 \in DOMAIN result_cbs /\ p \in Nat /\ result_cbs'[p] = result_cbs[p - 1]
    BY <1>2, <1>7, AddsEntryIs
  <2> HIDE DEF e
  <2>4. \A p \in DOMAIN result_cbs' : RegisteredNext(result_cbs'[p])
    BY <1>1, <1>5, <2>1, <2>3
  <2>5. ASSUME NEW q \in DOMAIN result_cbs
        PROVE  ~IdEquals(result_cbs[q].id, GetId(m)) /\ ~IdEquals(GetId(m), result_cbs[q].id)
    <3>1. ~IdEquals(result_cbs[q].id, GetId(m))
      BY <1>7, SameIds DEF AddsEntry, Client!Matches
    <3>2. IsId(result_cbs[q].id)
      BY EntryIds, RequestIds
    <3>3. IsId(GetId(m)) /\ Distinct(GetId(m))
      BY RequestIds
    <3> QED BY <3>1, <3>2, <3>3, IdSymmetric
  <2>6. \A p, q \in DOMAIN result_cbs' : IdEquals(result_cbs'[p].id, result_cbs'[q].id) => p = q
    <3> TAKE p, q \in DOMAIN result_cbs'
    <3> HAVE IdEquals(result_cbs'[p].id, result_cbs'[q].id)
    <3>1. CASE p = 1 /\ q # 1
      BY <2>2, <2>3, <2>5, <3>1
    <3>2. CASE p # 1 /\ q = 1
      BY <2>2, <2>3, <2>5, <3>2
    <3>3. CASE p # 1 /\ q # 1
      <4>1. p - 1 = q - 1 /\ p \in Nat /\ q \in Nat
        BY <1>1, <2>3, <3>3
      <4> QED BY <4>1
    <3> QED BY <3>1, <3>2, <3>3
  <2> QED BY <2>4, <2>6, CallbackParts
<1>8. CASE TakesEntry(k, m)
  <2>1. DOMAIN result_cbs' = DOMAIN result_cbs
    BY <1>2, <1>8, TakesEntryIs
  <2>2. PICK p \in DOMAIN result_cbs :
          /\ IdEquals(result_cbs[p].id, GetId(m))
          /\ \A q \in DOMAIN result_cbs :
                /\ result_cbs'[q].id = result_cbs[q].id
                /\ result_cbs'[q].send = IF q = p THEN k ELSE result_cbs[q].send
    BY <1>2, <1>8, TakesEntryIs
  <2>3. ASSUME NEW q \in DOMAIN result_cbs PROVE RegisteredNext(result_cbs'[q])
    <3>1. CASE q = p
      BY <1>2, <1>4, <1>8, <2>2, <3>1 DEF TakesEntry, RegisteredNext
    <3>2. CASE q # p
      <4>1. RegisteredNext(result_cbs[q])
        BY <1>1, <1>5
      <4> QED BY <2>2, <3>2, <4>1 DEF RegisteredNext
    <3> QED BY <3>1, <3>2
  <2>4. \A q, l \in DOMAIN result_cbs' : IdEquals(result_cbs'[q].id, result_cbs'[l].id) => q = l
    BY <1>1, <2>1, <2>2
  <2> QED BY <2>1, <2>3, <2>4, CallbackParts
<1> QED BY <1>3, <1>6, <1>7, <1>8

(* Another client's documents do not disturb what is registered.              *)
LEMMA CallbacksRaw ==
    ASSUME ConnectionTypeOK, ConnectionTypeOK', CallbacksSound,
           NEW k \in Subs, NEW d \in RawDocuments, RawSend(k, d)
    PROVE  CallbacksSound'
<1>1. request[k] = NULL /\ request' = [request EXCEPT ![k] = d] /\ result_cbs' = result_cbs
  BY Zenon DEF RawSend
<1>2. \A t \in Subs : request'[t] = IF t = k THEN d ELSE request[t]
  BY <1>1 DEF ConnectionTypeOK
<1>3. NULL \notin Requests
  BY DocumentsAssumption
<1>4. \A e : Registered(e) => RegisteredNext(e)
  BY <1>1, <1>2, <1>3 DEF Registered, RegisteredNext
<1> QED BY <1>1, <1>4, CallbackParts
-----------------------------------------------------------------------------
(* A response finds the callback of its own call.                             *)

(* An id that is null, or has a null in it.                                   *)
HasNull(id) ==
    \/ id = Scalar("null", "")
    \/ id.type = "array" /\ \E p \in DOMAIN id.elems : id.elems[p] = Scalar("null", "")

LEMMA NullUnregistered ==
    ASSUME NEW m \in Requests, NEW id, IsId(id), HasNull(id)
    PROVE  ~IdEquals(GetId(m), id)
<1> SUFFICES ASSUME IdEquals(GetId(m), id) PROVE FALSE
  OBVIOUS
<1>1. IsId(GetId(m)) /\ Distinct(GetId(m)) /\ NotNull(GetId(m))
  BY RequestIds
<1>2. CASE id = Scalar("null", "")
  BY <1>1, <1>2, NullIs DEF IdEquals, NotNull
<1>3. CASE id.type = "array" /\ \E p \in DOMAIN id.elems : id.elems[p] = Scalar("null", "")
  <2>1. IdEquals(id, GetId(m))
    BY <1>1, IdSymmetric
  <2>2. GetId(m).type = "array" /\ \E l \in DOMAIN GetId(m).elems : GetId(m).elems[l] = Scalar("null", "")
    BY <1>3, <2>1, ZenonT(60) DEF IdEquals
  <2> QED BY <1>1, <2>2 DEF NotNull
<1> QED BY <1>2, <1>3 DEF HasNull

(* get_id of an answer: of the one response, or of those of a batch.          *)
LEMMA AnswerList ==
    ASSUME TypeOK, OwnIdsInvariant, NEW k \in Subs, NEW x, AnswerTo(k, x)
    PROVE  /\ IsList(Elements(x)) /\ IsId(GetId(x))
           /\ x.type = "object" => GetId(x) = ResponseId(doc[k], answers[k][1][1])
<1> USE DEF AnswerOf
<1>1. PICK res \in Seq(Response) : AnswerOf(k, x, res)
  BY AnswerIs, Zenon
<1>2. DOMAIN res = 1 .. Len(res) /\ Len(res) \in Nat
  BY LenProperties
<1>3. CASE x.type = "object"
  <2>1. Len(res) = 1 /\ x = ResponseDocument(k, doc[k], res[1]) /\ 1 \in DOMAIN res
    BY <1>1, <1>2, <1>3
  <2>2. GetId(x) = Member(x, "id") /\ Elements(x) = << >>
    BY <1>3 DEF GetId, GetIdWithout, Elements
  <2>3. GetId(x) = ResponseId(doc[k], res[1])
    BY <2>1, <2>2, ResponseIsObject
  <2>4. GetId(x).type \in {"default", "string", "int", "null"}
    BY <1>1, <2>1, <2>3, ResponseIdIs
  <2>5. IsList(Elements(x))
    BY <2>2 DEF IsList
  <2> QED BY <1>1, <2>3, <2>4, <2>5 DEF IsId
<1>4. CASE x.type = "array"
  <2>1. IsList(Elements(x))
    BY <1>1, <1>2, <1>4 DEF IsList, Elements
  <2>2. IsId(GetId(x))
    BY <1>4, <2>1, GetIdIsId DEF GetId
  <2> QED BY <1>4, <2>1, <2>2
<1> QED BY <1>1, <1>3, <1>4

(* While memory lasts a document that was dispatched is answered with one     *)
(* response to each of its calls but the notifications.                       *)
Items(k, res) ==
    /\ req[k].state = "none" => \A n \in DOMAIN res : res[n].kind # "result" /\ res[n].id = 0
    /\ req[k].state # "none" =>
          /\ \A n \in DOMAIN res :
                res[n].call \in Expected(doc[k]) /\ ResponseTo(res[n], doc[k], res[n].call)
          /\ \A n, l \in DOMAIN res : res[n].call = res[l].call => n = l
          /\ \A i \in Expected(doc[k]) : \E n \in DOMAIN res : res[n].call = i
          /\ Len(res) = Cardinality(Expected(doc[k]))

LEMMA AnswerItems ==
    ASSUME TypeOK, AnswerInvariant, faults = 0, NEW k \in Subs,
           NEW res, answers[k] # << >>, answers[k][1] = res, res # NULL
    PROVE  Items(k, res)
<1>1. 1 \in DOMAIN answers[k]
  BY DEF TypeOK
<1>2. AnswerSound(k) /\ AnswerComplete
  BY DEF AnswerInvariant
<1>3. IF req[k].state = "none" THEN \A n \in DOMAIN res : res[n].kind # "result" /\ res[n].id = 0
      ELSE /\ \A n \in DOMAIN res :
                 res[n].call \in Expected(doc[k]) /\ ResponseTo(res[n], doc[k], res[n].call)
           /\ \A n, l \in DOMAIN res : res[n].call = res[l].call => n = l
  BY <1>1, <1>2, Zenon DEF AnswerSound
<1>4. req[k].state # "none" =>
        /\ {res[n].call : n \in DOMAIN res} = Expected(doc[k])
        /\ Len(res) = Cardinality(Expected(doc[k]))
  BY <1>2, Zenon DEF AnswerComplete
<1>5. req[k].state # "none" => \A i \in Expected(doc[k]) : \E n \in DOMAIN res : res[n].call = i
  BY <1>4
<1> QED BY <1>3, <1>4, <1>5 DEF Items

(* A document that was refused, or that another client sent, is not answered  *)
(* under ids a call of the application could be registered under.             *)
LEMMA OtherAnswers ==
    ASSUME TypeOK, OwnIdsInvariant, AnswerInvariant, faults = 0,
           NEW k \in Subs, NEW x, AnswerTo(k, x), doc[k] \in Documents,
           doc[k] \in RawDocuments \/ req[k].state = "none", GetId(x) # Absent
    PROVE  HasNull(GetId(x))
<1> DEFINE d == doc[k]
<1> USE DEF AnswerOf
<1>1. PICK res \in Seq(Response) : AnswerOf(k, x, res)
  BY AnswerIs, Zenon
<1>2. DOMAIN res = 1 .. Len(res) /\ Len(res) \in Nat
  BY LenProperties
<1>3. CASE req[k].state = "none"
  <2>0. \A n \in DOMAIN res : res[n].id = 0
    <3>1. answers[k] # << >> /\ answers[k][1] = res /\ res # NULL
      BY <1>1
    <3>2. Items(k, res)
      BY <3>1, AnswerItems
    <3> QED BY <1>3, <3>2 DEF Items
  <2>1. 1 \in DOMAIN res /\ res[1].id = 0 /\ x.type = "object"
    BY <1>1, <1>2, <1>3, <2>0
  <2>2. GetId(x) = Scalar("null", "")
    BY <1>1, <2>1, AnswerList DEF ResponseId
  <2> QED BY <2>2 DEF HasNull
<1>4. CASE d \in RawDocuments /\ req[k].state # "none"
  <2>1. /\ \A n \in DOMAIN res : res[n].call \in Expected(d) /\ ResponseTo(res[n], d, res[n].call)
        /\ \A i \in Expected(d) : \E n \in DOMAIN res : res[n].call = i
    <3>1. answers[k] # << >> /\ answers[k][1] = res /\ res # NULL
      BY <1>1
    <3>2. req[k].state # "none"
      BY <1>4
    <3>3. Items(k, res)
      BY <3>1, AnswerItems
    <3> QED BY <3>2, <3>3 DEF Items
  <2>2. CASE Calls(d) = << >>
    <3>0. Expected(d) = {}
      BY <2>2 DEF Expected
    <3>1. DOMAIN res = {}
      BY <2>1, <3>0
    <3>2. x.type = "array" /\ DOMAIN x.elems = {}
      BY <1>1, <1>2, <3>1
    <3>3. HaveIds(x, {}) = {}
      BY <3>2 DEF HaveIds, Elements
    <3> QED BY <3>2, <3>3 DEF GetId, GetIdWithout
  <2>3. CASE \E i \in DOMAIN Calls(d) : EvalCallType(Calls(d)[i]) = "invalid"
    <3>1. PICK i \in DOMAIN Calls(d) : EvalCallType(Calls(d)[i]) = "invalid"
      BY <2>3
    <3>2. i \in Expected(d) /\ i \notin RequestCalls(d)
      BY <3>1 DEF Expected, RequestCalls
    <3>3. PICK n \in DOMAIN res : res[n].call = i
      BY <2>1, <3>2
    <3>4. res[n].id = 0
      BY <2>1, <3>2, <3>3 DEF ResponseTo
    <3>5. CASE x.type = "object"
      <4>1. n = 1
        BY <1>1, <1>2, <3>5
      <4> QED BY <1>1, <3>4, <3>5, <4>1, AnswerList DEF ResponseId, HasNull
    <3>6. CASE x.type = "array"
      <4>1. /\ x.elems[n] = ResponseDocument(k, d, res[n]) /\ DOMAIN x.elems = DOMAIN res
            /\ IsList(Elements(x)) /\ Elements(x) = x.elems
        BY <1>1, <3>6, AnswerList DEF Elements
      <4>2. Member(x.elems[n], "id") = Scalar("null", "")
        <5>1. ResponseId(d, res[n]) = Scalar("null", "")
          BY <3>4 DEF ResponseId
        <5>2. Member(x.elems[n], "id") = ResponseId(d, res[n])
          BY <4>1, ResponseIsObject
        <5> QED BY <5>1, <5>2
      <4>3. n \in HaveIds(x, {})
        BY <4>1, <4>2, NullIs DEF HaveIds
      <4> DEFINE c == Cardinality(HaveIds(x, {}))
                 id == GetId(x)
      <4>4. /\ id.type = "array" /\ DOMAIN id.elems = 1 .. c
            /\ \E f \in [1 .. c -> HaveIds(x, {})] :
                  /\ \A p \in 1 .. c : id.elems[p] = Member(x.elems[f[p]], "id")
                  /\ \A l \in HaveIds(x, {}) : \E p \in 1 .. c : f[p] = l
        BY <3>6, <4>1, <4>3, BatchId DEF GetId
      <4> HIDE DEF c, id
      <4>5. \E p \in DOMAIN id.elems : id.elems[p] = Scalar("null", "")
        <5>1. PICK f \in [1 .. c -> HaveIds(x, {})] :
                /\ \A p \in 1 .. c : id.elems[p] = Member(x.elems[f[p]], "id")
                /\ \A l \in HaveIds(x, {}) : \E p \in 1 .. c : f[p] = l
          BY <4>4
        <5>2. PICK p \in 1 .. c : f[p] = n
          BY <4>3, <5>1
        <5>3. id.elems[p] = Scalar("null", "")
          BY <4>2, <5>1, <5>2
        <5> QED BY <4>4, <5>3
      <4> QED BY <4>4, <4>5 DEF HasNull, id
    <3> QED BY <1>1, <3>5, <3>6
  <2> QED BY <1>4, <2>2, <2>3, OtherClientsAssumption
<1> QED BY <1>3, <1>4

(* A document of the application that was dispatched is answered under the    *)
(* ids of its own calls.                                                      *)
LEMMA OwnAnswers ==
    ASSUME TypeOK, OwnIdsInvariant, AnswerInvariant, faults = 0,
           NEW k \in Subs, NEW x, AnswerTo(k, x), doc[k] \in Requests,
           req[k].state # "none", GetId(x) # Absent
    PROVE  IdEquals(GetId(x), GetId(doc[k]))
<1> DEFINE d == doc[k]
<1>1. PICK res \in Seq(Response) : AnswerOf(k, x, res)
  BY AnswerIs, Zenon
<1>2. DOMAIN res = 1 .. Len(res) /\ Len(res) \in Nat
  BY LenProperties
<1>3. /\ \A n \in DOMAIN res : res[n].call \in Expected(d) /\ ResponseTo(res[n], d, res[n].call)
      /\ Len(res) = Cardinality(Expected(d))
  <2>1. answers[k] # << >> /\ answers[k][1] = res /\ res # NULL
    BY <1>1 DEF AnswerOf
  <2>2. Items(k, res)
    BY <2>1, AnswerItems
  <2> QED BY <2>2 DEF Items
<1>4. req[k].return_cb = IF d.type = "object" THEN "single" ELSE "batched"
  BY DEF OwnIdsInvariant, OwnIds
<1>5. ASSUME NEW n \in DOMAIN res
      PROVE  /\ res[n].call \in Expected(d)
             /\ ResponseId(d, res[n]) = Member(Calls(d)[res[n].call], "id")
  <2>1. res[n].call \in RequestCalls(d) /\ res[n].call # 0
    BY <1>3, ValidCalls DEF RequestCalls
  <2>2. res[n].id = res[n].call
    BY <1>3, <2>1 DEF ResponseTo
  <2> QED BY <1>3, <2>1, <2>2 DEF ResponseId
<1>6. CASE x.type = "object"
  <2>1. d.type = "object" /\ 1 \in DOMAIN res /\ answers[k][1] = res
    BY <1>1, <1>2, <1>4, <1>6 DEF AnswerOf
  <2>2. GetId(x) = ResponseId(d, res[1])
    BY <1>6, <2>1, AnswerList
  <2>3. Calls(d) = <<d>>
    BY <2>1 DEF Calls
  <2>4. res[1].call = 1
    BY <1>5, <2>1, <2>3 DEF Expected
  <2>5. GetId(x) = Member(d, "id")
    BY <1>5, <2>1, <2>2, <2>3, <2>4
  <2>6. GetId(d) = Member(d, "id")
    BY <2>1 DEF GetId, GetIdWithout
  <2> QED BY <2>5, <2>6, IdReflexive
<1>7. CASE x.type = "array"
  <2>1. /\ d.type # "object" /\ DOMAIN x.elems = DOMAIN res /\ Elements(x) = x.elems
        /\ IsList(Elements(x))
        /\ \A n \in DOMAIN res : x.elems[n] = ResponseDocument(k, d, res[n])
    BY <1>1, <1>4, <1>7, AnswerList DEF AnswerOf, Elements
  <2>2. HaveIds(x, {}) # {}
    BY <1>7 DEF GetId, GetIdWithout
  <2>3. d.type = "array"
    <3>1. PICK n : n \in DOMAIN res
      BY <2>1, <2>2 DEF HaveIds
    <3>2. DOMAIN Calls(d) # {}
      BY <1>5, <3>1 DEF Expected
    <3> QED BY <2>1, <3>2 DEF Calls, Elements
  <2>4. HaveIds(d, {}) = Expected(d) /\ Calls(d) = d.elems /\ IsList(Elements(d))
    BY <2>3, BatchIds DEF Elements
  <2>5. \A n \in DOMAIN res :
          /\ Member(x.elems[n], "id") = Member(d.elems[res[n].call], "id")
          /\ res[n].call \in HaveIds(d, {})
    BY <1>5, <2>1, <2>4, ResponseIsObject
  <2>6. HaveIds(x, {}) = 1 .. Len(res)
    <3>1. \A n \in DOMAIN res : Member(x.elems[n], "id") # Absent
      BY <2>5 DEF HaveIds
    <3> QED BY <1>2, <2>1, <3>1 DEF HaveIds
  <2> DEFINE a == GetId(x)
             b == GetId(d)
             c == Len(res)
  <2>7. Cardinality(HaveIds(x, {})) = c /\ Cardinality(HaveIds(d, {})) = c
    <3>1. Cardinality(1 .. c) = c
      <4>1. c \in Nat
        BY <1>2
      <4> HIDE DEF c
      <4> QED BY <4>1, FS_Interval
    <3> QED BY <1>3, <2>4, <2>6, <3>1
  <2>8. /\ a.type = "array" /\ Len(a.elems) = c /\ DOMAIN a.elems = 1 .. c
        /\ \E f \in [1 .. c -> HaveIds(x, {})] :
              \A p \in 1 .. c : a.elems[p] = Member(x.elems[f[p]], "id")
    BY <1>7, <2>1, <2>2, <2>7, BatchId DEF GetId
  <2>9. HaveIds(d, {}) # {}
    BY <2>2, <2>5, <2>6, <1>2
  <2>10. /\ b.type = "array" /\ Len(b.elems) = c /\ DOMAIN b.elems = 1 .. c
         /\ \E g \in [1 .. c -> HaveIds(d, {})] :
              /\ \A p \in 1 .. c : b.elems[p] = Member(d.elems[g[p]], "id")
              /\ \A l \in HaveIds(d, {}) : \E p \in 1 .. c : g[p] = l
    BY <2>3, <2>4, <2>7, <2>9, BatchId DEF GetId
  <2> HIDE DEF a, b, c, d
  <2>11. \A p \in 1 .. c : \E q \in 1 .. c : a.elems[p] = b.elems[q]
    <3> TAKE p \in 1 .. c
    <3>1. PICK f \in [1 .. c -> HaveIds(x, {})] :
            \A t \in 1 .. c : a.elems[t] = Member(x.elems[f[t]], "id")
      BY <2>8
    <3>2. PICK g \in [1 .. c -> HaveIds(d, {})] :
            /\ \A t \in 1 .. c : b.elems[t] = Member(d.elems[g[t]], "id")
            /\ \A l \in HaveIds(d, {}) : \E t \in 1 .. c : g[t] = l
      BY <2>10
    <3>3. f[p] \in DOMAIN res
      BY <1>2, <2>6, <3>1
    <3>4. PICK q \in 1 .. c : g[q] = res[f[p]].call
      BY <2>5, <3>2, <3>3
    <3>5. a.elems[p] = b.elems[q]
      BY <2>5, <3>1, <3>2, <3>3, <3>4
    <3> QED BY <3>5
  <2>12. IdEquals(a, b)
    BY <2>8, <2>10, <2>11, ZenonT(60) DEF IdEquals
  <2> QED BY <2>12 DEF a, b, d
<1> QED BY <1>1, <1>6, <1>7 DEF AnswerOf

(* What an answer says of its call: it has a null in its id, or the ids of    *)
(* the message that was sent.                                                 *)
LEMMA AnswerKnown ==
    ASSUME ConnectionTypeOK, ServerSound, AnswerInvariant, ToServerSound, faults = 0,
           NEW k \in Subs, NEW x, AnswerTo(k, x), GetId(x) # Absent
    PROVE  \/ HasNull(GetId(x))
           \/ request[k] \in Requests /\ IdEquals(GetId(x), GetId(request[k]))
<1>1. TypeOK /\ RequestInvariant /\ OwnIdsInvariant
  BY DEF ServerSound
<1>2. doc[k] # NULL
  BY <1>1 DEF AnswerTo, RequestInvariant, RequestCounts
<1>3. doc[k] = request[k] /\ doc[k] \in Documents
  BY <1>1, <1>2 DEF ToServerSound, TypeOK
<1>4. CASE doc[k] \in RawDocuments \/ req[k].state = "none"
  BY <1>1, <1>3, <1>4, OtherAnswers
<1>5. CASE doc[k] \in Requests /\ req[k].state # "none"
  BY <1>1, <1>3, <1>5, OwnAnswers
<1> QED BY <1>3, <1>4, <1>5 DEF RawDocuments

(* The callback that is found for a response is that of the call it answers:  *)
(* the call is still in flight, so its callback is registered, and only one   *)
(* callback has an equal id.                                                  *)
LEMMA FindsOwn ==
    ASSUME ConnectionTypeOK, ServerSound, AnswerInvariant, StreamSound, CallbacksSound,
           CompletionSound, faults = 0, NEW n \in DOMAIN toClient,
           GetId(toClient[n].doc) # Absent, NEW p \in DOMAIN result_cbs,
           IdEquals(result_cbs[p].id, GetId(toClient[n].doc))
    PROVE  /\ toClient[n].send = result_cbs[p].send
           /\ toClient[n].send \in Subs /\ AnswerTo(toClient[n].send, toClient[n].doc)
<1> DEFINE k == toClient[n].send
           x == toClient[n].doc
<1>2. Sent(toClient[n])
  BY ToClientParts DEF StreamSound
<1>3. ~(IsId(GetId(x)) /\ HasNull(GetId(x)))
  BY EntryIds, NullUnregistered
<1>4. k # NULL
  <2> SUFFICES ASSUME k = NULL PROVE FALSE
    OBVIOUS
  <2>1. x = ParseError
    BY <1>2 DEF Sent
  <2>2. GetId(x) = Scalar("null", "")
    BY <2>1, ParseErrorIs DEF GetId, GetIdWithout
  <2> QED BY <1>3, <2>2, NullIs DEF IsId, HasNull
<1>5. k \in Subs /\ AnswerTo(k, x)
  BY <1>2, <1>4 DEF Sent
<1>6. IsId(GetId(x))
  BY <1>5, AnswerList DEF ServerSound
<1>7. request[k] \in Requests /\ IdEquals(GetId(x), GetId(request[k]))
  BY <1>3, <1>5, <1>6, AnswerKnown DEF StreamSound
<1>8. PICK q \in DOMAIN result_cbs : result_cbs[q].send = k
  BY <1>5, <1>7 DEF CompletionSound, InFlight
<1>9. IdEquals(result_cbs[p].id, result_cbs[q].id)
  <2>1. Registered(result_cbs[q])
    BY CallbackParts
  <2>2. IsId(result_cbs[q].id) /\ Distinct(result_cbs[q].id) /\ IsId(GetId(request[k]))
    BY <1>7, EntryIds, RequestIds
  <2>3. IdEquals(GetId(request[k]), result_cbs[q].id)
    BY <1>8, <2>1, <2>2, IdSymmetric DEF Registered
  <2>4. IdEquals(result_cbs[p].id, GetId(request[k]))
    BY <1>7, IdTransitive
  <2> QED BY <2>3, <2>4, IdTransitive
<1>10. p = q
  BY <1>9, CallbackParts
<1> QED BY <1>5, <1>8, <1>10

LEMMA CallbacksRead ==
    ASSUME ConnectionTypeOK, ConnectionTypeOK', CallbacksSound, ReadResponse
    PROVE  CallbacksSound'
<1> DEFINE d == Head(toClient).doc
<1>1. CASE Client!DropResponse(d)
  <2>1. request' = request /\ result_cbs' = result_cbs
    BY <1>1, DropResponseIs
  <2>2. \A e : Registered(e) => RegisteredNext(e)
    BY <2>1 DEF Registered, RegisteredNext
  <2> QED BY <2>1, <2>2, CallbackParts
<1>2. CASE Client!ProcessResponse(d)
  <2>1. /\ request' = request
        /\ \E p \in 1 .. Len(result_cbs) : DeliversTo(d, p)
    BY <1>2, ProcessResponseIs DEF ConnectionTypeOK
  <2> HIDE DEF d
  <2> QED BY <2>1, CallbacksRemove
<1> QED BY <1>1, <1>2 DEF ReadResponse

LEMMA CallbacksInit == ConnectionInit => CallbacksSound
<1> SUFFICES ASSUME ConnectionInit PROVE CallbacksSound
  OBVIOUS
<1>1. result_cbs = << >>
  BY DEF ConnectionInit, Client!Init
<1>2. \A n : n \notin DOMAIN << >>
  OBVIOUS
<1> QED BY <1>1, <1>2 DEF CallbacksSound, Client!UniqueIds

LEMMA CallbacksStep ==
    /\ ConnectionTypeOK /\ ConnectionTypeOK' /\ CallbacksSound
    /\ [ConnectionNext]_connectionVars
    => CallbacksSound'
<1> SUFFICES ASSUME ConnectionTypeOK, ConnectionTypeOK', CallbacksSound,
                    [ConnectionNext]_connectionVars
             PROVE  CallbacksSound'
  OBVIOUS
<1>1. ASSUME UNCHANGED <<request, result_cbs>> PROVE CallbacksSound'
  <2>1. \A e : Registered(e) => RegisteredNext(e)
    BY <1>1 DEF Registered, RegisteredNext
  <2> QED BY <1>1, <2>1, CallbackParts
<1>2. ASSUME NEW n \in MethodNames, NEW h \in Handlers, ServerAddMethod(n, h) PROVE CallbacksSound'
  BY <1>1, <1>2 DEF ServerAddMethod, clientVars
<1>3. ASSUME NEW k \in Subs, NEW i \in Indices, ServeDeferred(k, i) \/ ServeKept(k, i)
      PROVE  CallbacksSound'
  BY <1>1, <1>3 DEF ServeDeferred, ServeKept, clientVars
<1>4. CASE TcpRead \/ WsMessage
  BY <1>1, <1>4 DEF TcpRead, WsMessage, Receive, clientVars
<1>5. CASE TcpParseError \/ Break
  BY <1>1, <1>5 DEF TcpParseError, Break, clientVars
<1>6. CASE CallbackReturns
  BY <1>1, <1>6 DEF CallbackReturns, Client!CallbackReturns
<1>7. CASE UNCHANGED connectionVars
  BY <1>1, <1>7 DEF connectionVars, clientVars
<1> QED BY <1>2, <1>3, <1>4, <1>5, <1>6, <1>7, CallbacksSend, CallbacksRaw, CallbacksRead,
           Zenon DEF ConnectionNext

(* The list of callbacks has one entry for an id, and under it the call of    *)
(* the application that was sent under it, whatever other clients send and    *)
(* whatever fails: that is what json_rpc_process_response relies on.          *)
THEOREM CallbacksRegistered == ConnectionSpec => []CallbacksSound
BY CallbacksInit, CallbacksStep, ConnectionTypes, PTL DEF ConnectionSpec
-----------------------------------------------------------------------------
(* Calls in flight keep their callbacks.                                      *)

(* InFlight and AnswerTo after a step, and the callback that waits.           *)
InFlightNext(k) ==
    \/ \E n \in DOMAIN toServer' : toServer'[n].send = k
    \/ doc'[k] # NULL /\ answers'[k] = << >>
    \/ \E n \in DOMAIN toClient' : toClient'[n].send = k

AnswerToNext(k, d) ==
    /\ answers'[k] # << >> /\ answers'[k][1] # NULL
    /\ d = AnswerDocument(k, doc'[k], req'[k], answers'[k][1])

Awaited(k) == \E p \in DOMAIN result_cbs : result_cbs[p].send = k
AwaitedNext(k) == \E p \in DOMAIN result_cbs' : result_cbs'[p].send = k

LEMMA CompletionParts ==
    /\ CompletionSound <=> (faults = 0 => \A k \in Subs :
          /\ InFlight(k) /\ request[k] \in Requests => Awaited(k)
          /\ \A n \in DOMAIN completed[k] : AnswerTo(k, completed[k][n]))
    /\ CompletionSound' <=> (faults' = 0 => \A k \in Subs :
          /\ InFlightNext(k) /\ request'[k] \in Requests => AwaitedNext(k)
          /\ \A n \in DOMAIN completed'[k] : AnswerToNext(k, completed'[k][n]))
<1>1. CompletionSound <=> (faults = 0 => \A k \in Subs :
          /\ InFlight(k) /\ request[k] \in Requests => Awaited(k)
          /\ \A n \in DOMAIN completed[k] : AnswerTo(k, completed[k][n]))
  BY Zenon DEF CompletionSound, Awaited
<1>2. CompletionSound' <=> (faults' = 0 => \A k \in Subs :
          /\ InFlightNext(k) /\ request'[k] \in Requests => AwaitedNext(k)
          /\ \A n \in DOMAIN completed'[k] : AnswerToNext(k, completed'[k][n]))
  BY Zenon DEF CompletionSound, AwaitedNext, InFlight, InFlightNext, AnswerTo, AnswerToNext
<1> QED BY <1>1, <1>2

(* A step of a server, or of a stream: nothing new is sent.                   *)
LEMMA CompletionFrame ==
    ASSUME TypeOK, faults' >= faults, faults' \in Nat, CompletionSound, AnsweredStay,
           UNCHANGED <<request, result_cbs, completed>>,
           \A k \in Subs : InFlightNext(k) => InFlight(k)
    PROVE  CompletionSound'
<1> SUFFICES ASSUME faults' = 0, NEW k \in Subs
             PROVE  /\ InFlightNext(k) /\ request'[k] \in Requests => AwaitedNext(k)
                    /\ \A n \in DOMAIN completed'[k] : AnswerToNext(k, completed'[k][n])
  BY CompletionParts
<1>1. faults = 0
  BY DEF TypeOK
<1>2. InFlightNext(k) /\ request'[k] \in Requests => AwaitedNext(k)
  BY <1>1, CompletionParts DEF Awaited, AwaitedNext
<1>3. \A d : AnswerTo(k, d) => AnswerToNext(k, d)
  BY DEF AnswerTo, AnswerToNext, AnsweredStay, SameSubmission
<1>4. \A n \in DOMAIN completed'[k] : AnswerToNext(k, completed'[k][n])
  BY <1>1, <1>3, CompletionParts
<1> QED BY <1>2, <1>4

LEMMA FlightFrame ==
    ASSUME NEW c, Shrunk(toServer, toServer', c),
           \A n \in DOMAIN toClient' :
              toClient'[n].send \in Subs => InFlight(toClient'[n].send),
           \A k \in Subs : doc'[k] # NULL /\ answers'[k] = << >> => InFlight(k)
    PROVE  \A k \in Subs : InFlightNext(k) => InFlight(k)
<1> SUFFICES ASSUME NEW k \in Subs, InFlightNext(k) PROVE InFlight(k)
  OBVIOUS
<1>1. ASSUME NEW n \in DOMAIN toServer', toServer'[n].send = k PROVE InFlight(k)
  BY <1>1 DEF Shrunk, InFlight
<1>2. ASSUME NEW n \in DOMAIN toClient', toClient'[n].send = k PROVE InFlight(k)
  BY <1>2
<1> QED BY <1>1, <1>2 DEF InFlightNext

(* What is written to the client's stream is of a call in flight.             *)
LEMMA WrittenInFlight ==
    ASSUME toClient \in Seq(RangeOf(toClient)), NEW e, e.send \in Subs => InFlight(e.send),
           \/ toClient' = toClient \/ toClient' = << >> \/ toClient' = Append(toClient, e)
           \/ toClient # << >> /\ toClient' = Tail(toClient)
    PROVE  \A n \in DOMAIN toClient' :
              toClient'[n].send \in Subs => InFlight(toClient'[n].send)
<1>1. \A n \in DOMAIN toClient : InFlight(toClient[n].send)
  BY DEF InFlight
<1>2. CASE toClient' = Append(toClient, e)
  <2>1. /\ DOMAIN toClient' = 1 .. Len(toClient) + 1
        /\ DOMAIN toClient = 1 .. Len(toClient) /\ Len(toClient) \in Nat
        /\ \A n \in DOMAIN toClient : toClient'[n] = toClient[n]
        /\ toClient'[Len(toClient) + 1] = e
    BY <1>2
  <2>2. \A n \in DOMAIN toClient' : n \in DOMAIN toClient \/ n = Len(toClient) + 1
    <3>1. \A l \in Nat : \A n \in 1 .. l + 1 : n \in 1 .. l \/ n = l + 1
      OBVIOUS
    <3> QED BY <2>1, <3>1, Zenon
  <2> QED BY <1>1, <2>1, <2>2
<1>3. CASE toClient' = toClient \/ toClient' = << >> \/ (toClient # << >> /\ toClient' = Tail(toClient))
  <2>1. \E c : Shrunk(toClient, toClient', c)
    BY <1>3, ShrunkIs
  <2> QED BY <1>1, <2>1 DEF Shrunk
<1> QED BY <1>2, <1>3

(* json_rpc_tt_result writes only the answer that user_cb was given.          *)
LEMMA ResultWritten ==
    ASSUME NEW k, TtResult(k)
    PROVE  \/ toClient' = toClient
           \/ /\ answers'[k] # answers[k]
              /\ \E e : e.send = k /\ toClient' = Append(toClient, e)
<1> DEFINE e(r) == [send |-> k, doc |-> AnswerDocument(k, doc'[k], req'[k], r)]
<1>1. \A r : e(r).send = k
  OBVIOUS
<1>2. toClient' = toClient \/
      (answers'[k] # answers[k] /\ \E r : toClient' = Append(toClient, e(r)))
  BY Zenon DEF TtResult, TtWrite
<1> HIDE DEF e
<1> QED BY <1>1, <1>2

LEMMA CompletionReads ==
    ASSUME ConnectionTypeOK, TypeOK, TypeOK', RequestInvariant, CompletionSound, TcpRead \/ WsMessage
    PROVE  CompletionSound'
<1> DEFINE m == Head(toServer)
<1>1. /\ Receive /\ m \in SentDocument
      /\ \/ UNCHANGED <<vars, toClient>>
         \/ UNCHANGED vars /\ TtWrite(NULL, ParseError)
         \/ m.send \in Subs /\ m.doc \in Documents /\ Process(m.send, m.doc) /\ TtResult(m.send)
  BY ReadsIs
<1>2. /\ UNCHANGED <<request, result_cbs, completed>>
      /\ toServer # << >> /\ toServer' = Tail(toServer)
      /\ toServer \in Seq(SentDocument) /\ toClient \in Seq(RangeOf(toClient))
  BY <1>1 DEF Receive, clientVars, ConnectionTypeOK
<1>3. Shrunk(toServer, toServer', 1) /\ InFlight(m.send)
  BY <1>2, ShrunkIs DEF InFlight
<1>4. faults \in Nat /\ faults' \in Nat
  BY DEF TypeOK
<1>5. CASE UNCHANGED vars /\ \E e : e.send = NULL /\ (toClient' = toClient \/ toClient' = Append(toClient, e))
  <2>1. AnsweredStay /\ faults' >= faults
    BY <1>4, <1>5, SameStay DEF vars
  <2>2. \A n \in DOMAIN toClient' : toClient'[n].send \in Subs => InFlight(toClient'[n].send)
    BY <1>2, <1>5, WrittenInFlight
  <2>3. \A k \in Subs : doc'[k] # NULL /\ answers'[k] = << >> => InFlight(k)
    BY <1>5 DEF vars, InFlight
  <2> QED BY <1>2, <1>3, <1>4, <2>1, <2>2, <2>3, FlightFrame, CompletionFrame
<1>6. CASE m.send \in Subs /\ m.doc \in Documents /\ Process(m.send, m.doc) /\ TtResult(m.send)
  <2>1. Concerns(m.send)
    BY <1>6, ProcessConcerns
  <2>2. AnsweredStay /\ faults' >= faults
    BY <2>1, ConcernsStay DEF Concerns
  <2>3. \A n \in DOMAIN toClient' : toClient'[n].send \in Subs => InFlight(toClient'[n].send)
    BY <1>2, <1>3, <1>6, ResultWritten, WrittenInFlight
  <2>4. \A k \in Subs : doc'[k] # NULL /\ answers'[k] = << >> => InFlight(k)
    BY <1>3, <2>1 DEF Concerns, SameSubmission, InFlight
  <2> QED BY <1>2, <1>3, <1>4, <2>2, <2>3, <2>4, FlightFrame, CompletionFrame
<1>7. UNCHANGED <<vars, toClient>> \/ (UNCHANGED vars /\ TtWrite(NULL, ParseError)) =>
      UNCHANGED vars /\ \E e : e.send = NULL /\ (toClient' = toClient \/ toClient' = Append(toClient, e))
  <2> DEFINE e == [send |-> NULL, doc |-> ParseError]
  <2>1. e.send = NULL /\ (TtWrite(NULL, ParseError) => toClient' = toClient \/ toClient' = Append(toClient, e))
    BY DEF TtWrite
  <2> HIDE DEF e
  <2> QED BY <2>1
<1> QED BY <1>1, <1>5, <1>6, <1>7

LEMMA CompletionServes ==
    ASSUME ConnectionTypeOK, TypeOK, TypeOK', RequestInvariant, RequestInvariant', CompletionSound,
           NEW k \in Subs, NEW i \in Indices, ServeDeferred(k, i) \/ ServeKept(k, i)
    PROVE  CompletionSound'
<1>1. /\ Concerns(k) /\ doc' = doc /\ UNCHANGED <<clientVars, toServer>>
      /\ TtResult(k) \/ (UNCHANGED <<toClient, answers, req>>)
  BY ServesIs
<1>2. /\ UNCHANGED <<request, result_cbs, completed, toServer>>
      /\ toServer \in Seq(SentDocument) /\ toClient \in Seq(RangeOf(toClient))
  BY <1>1 DEF clientVars, ConnectionTypeOK
<1>3. Shrunk(toServer, toServer', 0)
  BY <1>2, ShrunkIs
<1>4. faults \in Nat /\ faults' \in Nat /\ faults' >= faults /\ AnsweredStay
  BY <1>1, ConcernsStay DEF TypeOK, Concerns
<1>5. answers'[k] # answers[k] => InFlight(k)
  <2> SUFFICES ASSUME answers'[k] # answers[k] PROVE InFlight(k)
    OBVIOUS
  <2>1. answers[k] = << >> /\ answers'[k] # << >>
    BY <1>1 DEF Concerns, SameSubmission
  <2>2. doc'[k] # NULL
    BY <2>1 DEF RequestInvariant, RequestCounts
  <2> QED BY <1>1, <2>1, <2>2 DEF InFlight
<1>6. \A n \in DOMAIN toClient' : toClient'[n].send \in Subs => InFlight(toClient'[n].send)
  <2>1. toClient' = toClient \/ \E e : e.send = k /\ InFlight(k) /\ toClient' = Append(toClient, e)
    BY <1>1, <1>5, ResultWritten
  <2>2. CASE toClient' = toClient
    BY <2>2 DEF InFlight
  <2> QED BY <1>2, <2>1, <2>2, WrittenInFlight
<1>7. \A t \in Subs : doc'[t] # NULL /\ answers'[t] = << >> => InFlight(t)
  BY <1>1 DEF Concerns, SameSubmission, InFlight
<1> QED BY <1>2, <1>3, <1>4, <1>6, <1>7, FlightFrame, CompletionFrame

(* A document that was not sent yet is nowhere.                               *)
LEMMA Unsent ==
    ASSUME ConnectionTypeOK, TypeOK, RequestInvariant, StreamSound, NEW k \in Subs, request[k] = NULL
    PROVE  /\ doc[k] = NULL
           /\ \A n \in DOMAIN toServer : toServer[n].send # k
           /\ \A n \in DOMAIN toClient : toClient[n].send # k
<1>1. doc[k] = NULL
  BY DEF StreamSound, ToServerSound
<1>2. ASSUME NEW n \in DOMAIN toServer PROVE toServer[n].send # k
  <2>1. toServer[n] \in SentDocument
    BY ElementOfSeq, LenProperties DEF ConnectionTypeOK
  <2>2. toServer[n].doc # NULL
    BY <2>1, DocumentsAssumption DEF SentDocument
  <2> QED BY <2>2 DEF StreamSound, ToServerSound
<1>3. ASSUME NEW n \in DOMAIN toClient PROVE toClient[n].send # k
  <2>1. Sent(toClient[n])
    BY ToClientParts DEF StreamSound
  <2>2. answers[k] = << >>
    BY <1>1 DEF RequestInvariant, RequestCounts
  <2> QED BY <2>1, <2>2 DEF Sent, AnswerTo
<1> QED BY <1>1, <1>2, <1>3

(* A callback is registered before the message is written, and no call in     *)
(* flight loses its own.                                                      *)
LEMMA CompletionSends ==
    ASSUME ConnectionTypeOK, TypeOK, RequestInvariant, StreamSound, CallbacksSound, CompletionSound,
           NEW k \in Subs, NEW m \in Requests, TtSend(k, m) \/ TtSendFails(k, m)
    PROVE  CompletionSound'
<1>1. /\ m \in Documents /\ request[k] = NULL /\ request' = [request EXCEPT ![k] = m]
      /\ UNCHANGED <<completed, vars, toClient>>
      /\ toServer' = toServer \/ toServer' = Append(toServer, [send |-> k, doc |-> m])
  BY SendsIs
<1>2. /\ result_cbs \in Seq(Registration) /\ IdIsFree(GetId(m))
      /\ UNCHANGED <<result_cbs, accepted>> \/ AddsEntry(k, m) \/ TakesEntry(k, m)
  <2>1. IdIsFree(GetId(m)) /\ Client!PreprocessRequest(k, m)
    BY Zenon DEF TtSend, TtSendFails
  <2>2. IsList(Elements(m)) /\ result_cbs \in Seq(Registration)
    BY ValidCalls DEF ConnectionTypeOK
  <2> QED BY <2>1, <2>2, PreprocessIs
<1>3. ASSUME NEW t \in Subs, Awaited(t), InFlight(t) PROVE AwaitedNext(t)
  <2>1. PICK p \in DOMAIN result_cbs : result_cbs[p].send = t
    BY <1>3 DEF Awaited
  <2>2. CASE UNCHANGED <<result_cbs, accepted>>
    BY <2>1, <2>2 DEF AwaitedNext
  <2>3. CASE AddsEntry(k, m)
    <3>1. p + 1 \in DOMAIN result_cbs' /\ result_cbs'[p + 1] = result_cbs[p]
      BY <1>2, <2>3, AddsEntryIs
    <3> QED BY <2>1, <3>1 DEF AwaitedNext
  <2>4. CASE TakesEntry(k, m)
    <3>1. PICK l \in Client!Matches(GetId(m)) :
            /\ DOMAIN result_cbs' = DOMAIN result_cbs
            /\ \A q \in DOMAIN result_cbs :
                  result_cbs'[q].send = IF q = l THEN k ELSE result_cbs[q].send
      BY <1>2, <2>4, TakesEntryIs
    <3>2. ~InFlight(result_cbs[l].send)
      BY <1>2 DEF IdIsFree
    <3>3. p # l
      BY <1>3, <2>1, <3>2
    <3> QED BY <2>1, <3>1, <3>3 DEF AwaitedNext
  <2> QED BY <1>2, <2>2, <2>3, <2>4
<1>4. toServer' = toServer \/ AwaitedNext(k)
  <2>1. CASE UNCHANGED <<result_cbs, accepted>>
    BY <2>1, Zenon DEF TtSend, TtSendFails
  <2>2. CASE AddsEntry(k, m)
    <3>1. 1 \in DOMAIN result_cbs' /\ result_cbs'[1].send = k
      <4>1. 1 \in DOMAIN result_cbs' /\ result_cbs'[1] = [id |-> GetId(m), send |-> k]
        BY <1>2, <2>2, AddsEntryIs
      <4> QED BY <4>1
    <3> QED BY <3>1 DEF AwaitedNext
  <2>3. CASE TakesEntry(k, m)
    <3>1. \E q \in DOMAIN result_cbs' : result_cbs'[q].send = k
      BY <1>2, <2>3, TakesEntryIs
    <3> QED BY <3>1 DEF AwaitedNext
  <2> QED BY <1>2, <2>1, <2>2, <2>3
<1>5. ASSUME NEW t \in Subs, InFlightNext(t) PROVE AwaitedNext(t) \/ InFlight(t)
  <2>1. CASE toServer' = toServer
    BY <1>1, <1>5, <2>1 DEF vars, InFlightNext, InFlight
  <2>2. CASE t = k
    BY <1>4, <2>1, <2>2
  <2>3. CASE t # k /\ toServer' = Append(toServer, [send |-> k, doc |-> m])
    <3>1. /\ DOMAIN toServer' = 1 .. Len(toServer) + 1
          /\ DOMAIN toServer = 1 .. Len(toServer) /\ Len(toServer) \in Nat
          /\ \A n \in DOMAIN toServer : toServer'[n] = toServer[n]
          /\ toServer'[Len(toServer) + 1] = [send |-> k, doc |-> m]
      BY <2>3 DEF ConnectionTypeOK
    <3>2. \A n \in DOMAIN toServer' : n \in DOMAIN toServer \/ toServer'[n].send = k
      <4>1. \A l \in Nat : \A n \in 1 .. l + 1 : n \in 1 .. l \/ n = l + 1
        OBVIOUS
      <4>2. toServer'[Len(toServer) + 1].send = k
        BY <3>1
      <4> QED BY <3>1, <4>1, <4>2, Zenon
    <3> QED BY <1>1, <1>5, <2>3, <3>1, <3>2 DEF vars, InFlightNext, InFlight
  <2> QED BY <1>1, <2>1, <2>2, <2>3
<1> SUFFICES ASSUME faults' = 0, NEW t \in Subs
             PROVE  /\ InFlightNext(t) /\ request'[t] \in Requests => AwaitedNext(t)
                    /\ \A n \in DOMAIN completed'[t] : AnswerToNext(t, completed'[t][n])
  BY CompletionParts
<1>6. faults = 0
  BY <1>1 DEF vars
<1>7. InFlightNext(t) /\ request'[t] \in Requests => AwaitedNext(t)
  <2> SUFFICES ASSUME InFlight(t), request'[t] \in Requests PROVE AwaitedNext(t)
    BY <1>5
  <2>1. t # k
    BY <1>1, Unsent DEF InFlight
  <2>2. request[t] \in Requests
    BY <1>1, <2>1 DEF ConnectionTypeOK
  <2>3. Awaited(t)
    BY <1>6, <2>2, CompletionParts
  <2> QED BY <1>3, <2>3
<1>8. \A d : AnswerTo(t, d) => AnswerToNext(t, d)
  BY <1>1 DEF vars, AnswerTo, AnswerToNext
<1>9. \A n \in DOMAIN completed'[t] : AnswerToNext(t, completed'[t][n])
  BY <1>1, <1>6, <1>8, CompletionParts
<1> QED BY <1>7, <1>9

LEMMA CompletionRaw ==
    ASSUME ConnectionTypeOK, TypeOK, CompletionSound,
           NEW k \in Subs, NEW d \in RawDocuments, RawSend(k, d)
    PROVE  CompletionSound'
<1>1. /\ request' = [request EXCEPT ![k] = d] /\ toServer' = Append(toServer, [send |-> k, doc |-> d])
      /\ UNCHANGED <<completed, result_cbs, vars, toClient>>
  BY Zenon DEF RawSend
<1> SUFFICES ASSUME faults' = 0, NEW t \in Subs
             PROVE  /\ InFlightNext(t) /\ request'[t] \in Requests => AwaitedNext(t)
                    /\ \A n \in DOMAIN completed'[t] : AnswerToNext(t, completed'[t][n])
  BY CompletionParts
<1>2. faults = 0
  BY <1>1 DEF vars
<1>3. InFlightNext(t) /\ request'[t] \in Requests => AwaitedNext(t)
  <2> SUFFICES ASSUME InFlightNext(t), request'[t] \in Requests PROVE AwaitedNext(t)
    OBVIOUS
  <2>1. t # k /\ request[t] \in Requests
    BY <1>1 DEF ConnectionTypeOK, RawDocuments
  <2>2. InFlight(t)
    <3>1. /\ DOMAIN toServer' = 1 .. Len(toServer) + 1
          /\ DOMAIN toServer = 1 .. Len(toServer) /\ Len(toServer) \in Nat
          /\ \A n \in DOMAIN toServer : toServer'[n] = toServer[n]
          /\ toServer'[Len(toServer) + 1] = [send |-> k, doc |-> d]
      BY <1>1 DEF ConnectionTypeOK
    <3>2. \A n \in DOMAIN toServer' : n \in DOMAIN toServer \/ toServer'[n].send = k
      <4>1. \A l \in Nat : \A n \in 1 .. l + 1 : n \in 1 .. l \/ n = l + 1
        OBVIOUS
      <4>2. toServer'[Len(toServer) + 1].send = k
        BY <3>1
      <4> QED BY <3>1, <4>1, <4>2, Zenon
    <3> QED BY <1>1, <2>1, <3>1, <3>2 DEF vars, InFlightNext, InFlight
  <2> QED BY <1>1, <1>2, <2>1, <2>2, CompletionParts DEF Awaited, AwaitedNext
<1>4. \A x : AnswerTo(t, x) => AnswerToNext(t, x)
  BY <1>1 DEF vars, AnswerTo, AnswerToNext
<1> QED BY <1>1, <1>2, <1>3, <1>4, CompletionParts

(* What the client reads is a list where it is an array.                      *)
LEMMA SentList ==
    ASSUME TypeOK, OwnIdsInvariant, NEW e, Sent(e)
    PROVE  IsList(Elements(e.doc))
<1>1. CASE e.send = NULL
  <2>1. Elements(e.doc) = << >>
    BY <1>1, ParseErrorIs DEF Sent, Elements
  <2> QED BY <2>1 DEF IsList
<1>2. CASE e.send # NULL
  BY <1>2, AnswerList DEF Sent
<1> QED BY <1>1, <1>2

(* The callback of an answer is run and leaves the list, and nothing of its   *)
(* call is in flight any more.                                                *)
LEMMA CompletionDelivers ==
    ASSUME ConnectionTypeOK, ServerSound, StreamSound, CallbacksSound, CompletionSound, AnswerInvariant,
           faults = 0, vars' = vars, request' = request, toServer' = toServer,
           toClient # << >>, toClient' = Tail(toClient), GetId(toClient[1].doc) # Absent,
           NEW p \in 1 .. Len(result_cbs), IdEquals(result_cbs[p].id, GetId(toClient[1].doc)),
           DeliversTo(toClient[1].doc, p)
    PROVE  CompletionSound'
<1> DEFINE k == result_cbs[p].send
           d == toClient[1].doc
<1>1. /\ toClient \in Seq(RangeOf(toClient)) /\ 1 \in DOMAIN toClient
      /\ Shrunk(toClient, toClient', 1)
      /\ p \in DOMAIN result_cbs
  BY ShrunkIs DEF ConnectionTypeOK
<1>2. toClient[1].send = k /\ k \in Subs /\ AnswerTo(k, d)
  BY <1>1, FindsOwn
<1>3. /\ doc' = doc /\ answers' = answers /\ req' = req
      /\ \A t, x : AnswerTo(t, x) => AnswerToNext(t, x)
  BY DEF vars, AnswerTo, AnswerToNext
<1> SUFFICES ASSUME faults' = 0, NEW t \in Subs
             PROVE  /\ InFlightNext(t) /\ request'[t] \in Requests => AwaitedNext(t)
                    /\ \A n \in DOMAIN completed'[t] : AnswerToNext(t, completed'[t][n])
  BY CompletionParts
<1>4. \A n \in DOMAIN toClient' : n + 1 \in DOMAIN toClient /\ n + 1 # 1 /\ toClient'[n] = toClient[n + 1]
  BY <1>1 DEF Shrunk
<1>5. ~InFlightNext(k)
  <2>1. doc[k] # NULL /\ answers[k] # << >>
    BY <1>2 DEF AnswerTo, ServerSound, RequestInvariant, RequestCounts
  <2>2. \A n \in DOMAIN toServer : toServer[n].send # k
    BY <2>1 DEF StreamSound, ToServerSound
  <2>3. \A n \in DOMAIN toClient' : toClient'[n].send # k
    <3>1. k # NULL
      BY <1>2
    <3> QED BY <1>1, <1>2, <1>4, <3>1 DEF StreamSound, ToClientSound
  <2> QED BY <1>3, <2>1, <2>2, <2>3 DEF InFlightNext
<1>6. InFlightNext(t) /\ request'[t] \in Requests => AwaitedNext(t)
  <2> SUFFICES ASSUME InFlightNext(t), request'[t] \in Requests PROVE AwaitedNext(t)
    OBVIOUS
  <2>1. t # k
    BY <1>5
  <2>2. InFlight(t)
    BY <1>3, <1>4 DEF InFlightNext, InFlight
  <2>3. PICK q \in DOMAIN result_cbs : result_cbs[q].send = t
    BY <2>2, CompletionParts DEF Awaited
  <2>4. \E l \in DOMAIN result_cbs' : result_cbs'[l] = result_cbs[q]
    BY <2>1, <2>3, RemovedIs
  <2> QED BY <2>3, <2>4 DEF AwaitedNext
<1>7. \A n \in DOMAIN completed'[t] : AnswerToNext(t, completed'[t][n])
  <2>1. \A n \in DOMAIN completed[t] : AnswerToNext(t, completed[t][n])
    BY <1>3, CompletionParts
  <2>2. CASE t # k
    BY <2>1, <2>2 DEF DeliversTo, ConnectionTypeOK
  <2>3. CASE t = k
    <3> DEFINE c == completed[t]
    <3>1. completed'[t] = Append(c, d) /\ c \in Seq(RangeOf(c))
      BY <2>3 DEF DeliversTo, ConnectionTypeOK
    <3> HIDE DEF c, d
    <3>2. \A n \in DOMAIN completed'[t] : (n \in DOMAIN c /\ completed'[t][n] = c[n]) \/ completed'[t][n] = d
      BY <3>1
    <3> QED BY <1>2, <1>3, <2>1, <2>3, <3>2 DEF c, d
  <2> QED BY <2>2, <2>3
<1> QED BY <1>6, <1>7

LEMMA CompletionRead ==
    ASSUME ConnectionTypeOK, ServerSound, TypeOK', StreamSound, CallbacksSound, CompletionSound,
           faults = 0 => AnswerInvariant, ReadResponse
    PROVE  CompletionSound'
<1> DEFINE d == Head(toClient).doc
<1>1. /\ vars' = vars /\ toServer' = toServer /\ toClient # << >> /\ toClient' = Tail(toClient)
      /\ Client!DropResponse(d) \/ Client!ProcessResponse(d)
  BY Zenon DEF ReadResponse
<1>2. /\ TypeOK /\ OwnIdsInvariant
      /\ toClient \in Seq(RangeOf(toClient)) /\ toServer \in Seq(SentDocument)
      /\ 1 \in DOMAIN toClient /\ d = toClient[1].doc
  BY <1>1 DEF ServerSound, ConnectionTypeOK
<1>3. CASE Client!DropResponse(d)
  <2>1. UNCHANGED <<request, result_cbs, completed>>
    BY <1>3, DropResponseIs
  <2>2. AnsweredStay /\ faults' >= faults /\ faults' \in Nat
    BY <1>1, <1>2, SameStay DEF vars, TypeOK
  <2>3. Shrunk(toServer, toServer', 0)
    BY <1>1, <1>2, ShrunkIs
  <2>4. \A n \in DOMAIN toClient' : toClient'[n].send \in Subs => InFlight(toClient'[n].send)
    <3>1. Shrunk(toClient, toClient', 1)
      BY <1>1, <1>2, ShrunkIs
    <3> QED BY <3>1 DEF Shrunk, InFlight
  <2>5. \A k \in Subs : doc'[k] # NULL /\ answers'[k] = << >> => InFlight(k)
    BY <1>1 DEF vars, InFlight
  <2> QED BY <1>2, <2>1, <2>2, <2>3, <2>4, <2>5, FlightFrame, CompletionFrame
<1>4. CASE Client!ProcessResponse(d) /\ faults = 0
  <2>1. Sent(toClient[1])
    BY <1>2, ToClientParts DEF StreamSound
  <2>2. IsList(Elements(d))
    BY <1>2, <2>1, SentList
  <2>3. /\ request' = request
        /\ \E id : /\ Client!IdFound(d, id) /\ id # Absent
                   /\ \E p \in 1 .. Len(result_cbs) :
                         IdEquals(result_cbs[p].id, id) /\ DeliversTo(d, p)
    BY <1>4, ProcessResponseIs DEF ConnectionTypeOK
  <2>4. PICK id : /\ Client!IdFound(d, id) /\ id # Absent
                  /\ \E p \in 1 .. Len(result_cbs) :
                        IdEquals(result_cbs[p].id, id) /\ DeliversTo(d, p)
    BY <2>3
  <2>5. id = GetId(d)
    BY <2>2, <2>4, IdFoundIs
  <2>6. PICK p \in 1 .. Len(result_cbs) : IdEquals(result_cbs[p].id, GetId(d)) /\ DeliversTo(d, p)
    BY <2>4, <2>5
  <2>7. /\ GetId(toClient[1].doc) # Absent /\ DeliversTo(toClient[1].doc, p)
        /\ IdEquals(result_cbs[p].id, GetId(toClient[1].doc))
    BY <1>2, <2>4, <2>5, <2>6
  <2> QED BY <1>1, <1>4, <2>3, <2>7, CompletionDelivers
<1>5. CASE faults # 0
  <2>1. faults' # 0
    BY <1>1, <1>5 DEF vars
  <2> QED BY <2>1 DEF CompletionSound
<1> QED BY <1>1, <1>3, <1>4, <1>5

(* What no step does to the streams, the callbacks and the answers at once.   *)
LEMMA CompletionRest ==
    ASSUME ConnectionTypeOK, TypeOK, TypeOK', CompletionSound,
           UNCHANGED <<request, result_cbs, completed, doc, req, answers, faults>>,
           toServer' = toServer \/ toServer' = << >>,
           \/ toClient' = toClient \/ toClient' = << >>
           \/ \E e : e.send = NULL /\ toClient' = Append(toClient, e)
    PROVE  CompletionSound'
<1>1. toServer \in Seq(SentDocument) /\ toClient \in Seq(RangeOf(toClient))
  BY DEF ConnectionTypeOK
<1>2. \E c : Shrunk(toServer, toServer', c)
  BY <1>1, ShrunkIs
<1>3. \A n \in DOMAIN toClient' : toClient'[n].send \in Subs => InFlight(toClient'[n].send)
  <2>1. \E e : /\ e.send = NULL
               /\ toClient' = toClient \/ toClient' = << >> \/ toClient' = Append(toClient, e)
    <3> DEFINE e == [send |-> NULL]
    <3>1. e.send = NULL
      OBVIOUS
    <3> HIDE DEF e
    <3> QED BY <3>1
  <2> QED BY <1>1, <2>1, WrittenInFlight
<1>4. /\ AnsweredStay /\ faults' >= faults /\ faults' \in Nat
      /\ \A k \in Subs : doc'[k] # NULL /\ answers'[k] = << >> => InFlight(k)
  BY DEF AnsweredStay, SameSubmission, TypeOK, InFlight
<1> QED BY <1>2, <1>3, <1>4, FlightFrame, CompletionFrame

LEMMA CompletionInit == ConnectionInit => CompletionSound
<1> SUFFICES ASSUME ConnectionInit, NEW k \in Subs
             PROVE  ~InFlight(k) /\ completed[k] = << >>
  <2>1. \A n : n \notin DOMAIN << >>
    OBVIOUS
  <2> QED BY <2>1 DEF CompletionSound
<1>1. /\ toServer = << >> /\ toClient = << >> /\ doc = [s \in Subs |-> NULL]
      /\ completed = [s \in Subs |-> << >>]
  BY DEF ConnectionInit, Init, Client!Init
<1>2. \A n : n \notin DOMAIN << >>
  OBVIOUS
<1> QED BY <1>1, <1>2 DEF InFlight

(* The parts that make up the induction for CompletionSound.                  *)
ServedSound == ConnectionTypeOK /\ ServerSound /\ StreamSound /\ CallbacksSound

LEMMA CompletionStep ==
    /\ ServedSound /\ ServedSound' /\ AnswerInvariant /\ CompletionSound
    /\ [ConnectionNext]_connectionVars
    => CompletionSound'
<1> SUFFICES ASSUME ServedSound, ServedSound', AnswerInvariant, CompletionSound,
                    [ConnectionNext]_connectionVars
             PROVE  CompletionSound'
  OBVIOUS
<1>1. /\ ConnectionTypeOK /\ ServerSound /\ TypeOK /\ RequestInvariant /\ StreamSound /\ CallbacksSound
      /\ TypeOK' /\ RequestInvariant'
  BY DEF ServedSound, ServerSound
<1>2. ASSUME NEW n \in MethodNames, NEW h \in Handlers, ServerAddMethod(n, h) PROVE CompletionSound'
  BY <1>1, <1>2, CompletionRest DEF ServerAddMethod, AddMethod, clientVars
<1>3. CASE TcpParseError
  <2> DEFINE e == [send |-> NULL, doc |-> ParseError]
  <2>1. e.send = NULL /\ (toClient' = toClient \/ toClient' = Append(toClient, e))
    BY <1>3 DEF TcpParseError, TtWrite
  <2> HIDE DEF e
  <2> QED BY <1>1, <1>3, <2>1, CompletionRest DEF TcpParseError, clientVars, vars
<1>4. CASE CallbackReturns
  BY <1>1, <1>4, CompletionRest DEF CallbackReturns, Client!CallbackReturns, vars
<1>5. CASE Break
  BY <1>1, <1>5, CompletionRest DEF Break, clientVars, vars
<1>6. CASE UNCHANGED connectionVars
  BY <1>1, <1>6, CompletionRest DEF connectionVars, clientVars, vars
<1> QED BY <1>1, <1>2, <1>3, <1>4, <1>5, <1>6, CompletionSends, CompletionRaw, CompletionReads,
           CompletionServes, CompletionRead, Zenon DEF ConnectionNext

LEMMA ConnectionServedSound == ConnectionSpec => []ServedSound
BY ConnectionTypes, ConnectionServerSound, StreamsSound, CallbacksRegistered, PTL
   DEF ServedSound, StreamSound

(* While memory lasts a call in flight has its callback, and a callback was   *)
(* given the answer to its own call: an answer is never delivered before the  *)
(* callback is registered, nor under the id of another call.                  *)
THEOREM CallsComplete == KeeperAlone /\ ConnectionSpec => []CompletionSound
<1>1. KeeperAlone /\ ConnectionSpec => []AnswerInvariant
  BY ConnectionServes, AnswersCorrect, PTL
<1> QED BY <1>1, CompletionInit, CompletionStep, ConnectionServedSound, PTL DEF ConnectionSpec

(* The inductive invariant of the connection.                                 *)
THEOREM ConnectionCorrect == KeeperAlone /\ ConnectionSpec => []ConnectionInvariant
<1>1. ServedSound /\ CompletionSound => ConnectionInvariant
  BY DEF ServedSound, StreamSound, ConnectionInvariant
<1> QED BY <1>1, CallsComplete, ConnectionServedSound, PTL

(* What a callback was given says whose result it is.                         *)
LEMMA ResultsOwn ==
    ASSUME ServedSound, AnswerInvariant, CompletionSound
    PROVE  CallbackGetsOwnResults
<1> SUFFICES ASSUME faults = 0, NEW k \in Subs, NEW n \in DOMAIN completed[k],
                    NEW r \in Results(completed[k][n])
             PROVE  /\ Member(r, "result").val[1] = k
                    /\ Member(Calls(request[k])[Member(r, "result").val[2]], "id") = Member(r, "id")
  BY DEF CallbackGetsOwnResults
<1> DEFINE x == completed[k][n]
           d == doc[k]
<1>1. TypeOK /\ RequestInvariant /\ OwnIdsInvariant /\ ToServerSound
  BY DEF ServedSound, ServerSound, StreamSound
<1>2. AnswerTo(k, x)
  BY CompletionParts
<1>3. PICK res \in Seq(Response) : AnswerOf(k, x, res)
  BY <1>1, <1>2, AnswerIs, Zenon
<1>4. Items(k, res)
  <2>1. answers[k] # << >> /\ answers[k][1] = res /\ res # NULL
    BY <1>3 DEF AnswerOf
  <2> QED BY <1>1, <2>1, AnswerItems
<1>5. d = request[k] /\ d \in Documents
  <2>1. d # NULL
    BY <1>1, <1>2 DEF AnswerTo, RequestInvariant, RequestCounts
  <2> QED BY <1>1, <2>1 DEF ToServerSound, TypeOK
<1>6. PICK l \in DOMAIN res : r = ResponseDocument(k, d, res[l])
  <2>1. DOMAIN res = 1 .. Len(res) /\ Len(res) \in Nat
    BY LenProperties
  <2>2. CASE x.type = "object"
    <3>1. r = x /\ x = ResponseDocument(k, d, res[1]) /\ 1 \in DOMAIN res
      BY <1>3, <2>1, <2>2 DEF Results, AnswerOf
    <3> QED BY <3>1
  <2>3. CASE x.type = "array"
    <3>1. /\ \E l \in DOMAIN x.elems : r = x.elems[l]
          /\ DOMAIN x.elems = DOMAIN res
          /\ \A l \in DOMAIN res : x.elems[l] = ResponseDocument(k, d, res[l])
      BY <1>3, <2>3 DEF Results, AnswerOf
    <3> QED BY <3>1
  <2> QED BY <1>3, <2>2, <2>3 DEF AnswerOf
<1> DEFINE i == res[l].call
<1>7. Member(r, "result") # Absent
  BY DEF Results
<1>8. res[l].kind = "result" /\ Member(r, "result") = Scalar("string", <<k, i>>)
  BY <1>6, <1>7, ResponseDocumentIs
<1>9. i \in Expected(d) /\ ResponseTo(res[l], d, i)
  BY <1>4, <1>8 DEF Items
<1>10. res[l].id = i /\ i # 0
  <2>1. i \in Indices
    BY <1>5, <1>9, CallIndices
  <2> QED BY <1>8, <1>9, <2>1 DEF ResponseTo, Indices
<1>11. Member(r, "id") = Member(Calls(d)[i], "id")
  <2>1. Member(ResponseDocument(k, d, res[l]), "id") = ResponseId(d, res[l])
    BY ResponseIsObject
  <2>2. ResponseId(d, res[l]) = Member(Calls(d)[i], "id")
    BY <1>10 DEF ResponseId
  <2> HIDE DEF d, i
  <2> QED BY <1>6, <2>1, <2>2
<1>12. Member(r, "result").val = <<k, i>>
  BY <1>8 DEF Scalar
<1> QED BY <1>5, <1>11, <1>12

(* End to end: a callback is given the results of the calls it was registered *)
(* for, each under the id of its call, whatever was deferred, reordered, kept *)
(* alone, dropped with the connection or sent by other clients.               *)
THEOREM CallbacksOwnResults == KeeperAlone /\ ConnectionSpec => []CallbackGetsOwnResults
<1>1. KeeperAlone /\ ConnectionSpec => []AnswerInvariant
  BY ConnectionServes, AnswersCorrect, PTL
<1> QED BY <1>1, ResultsOwn, CallsComplete, ConnectionServedSound, PTL
=============================================================================
