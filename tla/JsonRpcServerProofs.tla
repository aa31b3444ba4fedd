------------------------- MODULE JsonRpcServerProofs -------------------------
(* Theorems about JsonRpcServer, for every set of submissions, documents and  *)
(* methods, and every bound: its types, that a request is freed with its last *)
(* reference and answered once, that it implements RpcService, and what the   *)
(* answers say: which call a response is for, under which id, that none is    *)
(* missing while memory lasts, and that the ids are released with the answer. *)
(* The last hold where a method that keeps its request is alone with it       *)
(* (KeeperAlone); that ids stay in their documents, and are there when a      *)
(* method that kept its request asks for one, hold wherever it is not.        *)
EXTENDS JsonRpcServer, FiniteSetTheorems, NaturalsInduction, WellFoundedInduction,
        TLAPS

USE ServerAssumption

-----------------------------------------------------------------------------
(* What the helpers return.                                                   *)

(* dispatch_call returns one of three values.                                 *)
LEMMA CallTypes ==
    ASSUME NEW x
    PROVE  EvalCallType(x) \in {"invalid", "notification", "request"}
BY DEF EvalCallType

(* The calls of a document have indices, and so do the expected ones.         *)
LEMMA CallIndices ==
    ASSUME NEW d \in Documents
    PROVE  /\ d # NULL
           /\ Len(Calls(d)) \in 0 .. MaxBatch
           /\ DOMAIN Calls(d) = 1 .. Len(Calls(d))
           /\ DOMAIN Calls(d) \subseteq Indices
           /\ Expected(d) \subseteq DOMAIN Calls(d)
BY DocumentsAssumption DEF Indices, Expected

(* The number of results to wait for is a number.                             *)
LEMMA ExpectedCount ==
    ASSUME NEW d \in Documents
    PROVE  IsFiniteSet(Expected(d)) /\ Cardinality(Expected(d)) \in Nat
<1>1. IsFiniteSet(1 .. Len(Calls(d)))
  BY CallIndices, FS_Interval
<1>2. Expected(d) \subseteq 1 .. Len(Calls(d))
  BY CallIndices
<1>3. IsFiniteSet(Expected(d))
  BY <1>1, <1>2, FS_Subset
<1> QED BY <1>3, FS_CardinalityType

(* req->method_id points to the id of a call, or is NULL.                     *)
LEMMA MethodIdType ==
    ASSUME NEW d, NEW i \in 0 .. MaxBatch
    PROVE  MethodIdAt(d, i) \in 0 .. MaxBatch
<1> DEFINE Last(j) == /\ EvalCallType(Calls(d)[j]) = "request"
                      /\ \A k \in j + 1 .. i : EvalCallType(Calls(d)[k]) # "request"
<1>1. CASE \E j \in 1 .. i : Last(j)
  <2>1. (CHOOSE j \in 1 .. i : Last(j)) \in 1 .. i
    BY <1>1
  <2> QED BY <1>1, <2>1 DEF MethodIdAt
<1>2. CASE ~ \E j \in 1 .. i : Last(j)
  BY <1>2 DEF MethodIdAt
<1> QED BY <1>1, <1>2

(* lookup_entry finds a handler or NULL.                                      *)
LEMMA LookupType ==
    ASSUME TypeOK, NEW name
    PROVE  LookupEntry(name) \in Handlers \cup {NULL}
<1> SUFFICES ASSUME name \in MethodNames, methods[name] # << >>
             PROVE  Head(methods[name]) \in Handlers
  BY DEF LookupEntry
<1>1. methods[name] \in Seq(Handlers)
  BY DEF TypeOK
<1> QED BY <1>1

(* dispatch_call defers at most one call, and one with a request only if a    *)
(* result is expected.                                                        *)
LEMMA DispatchCallType ==
    ASSUME TypeOK, NEW s \in Subs, NEW d \in Documents, NEW i \in DOMAIN Calls(d), NEW E
    PROVE  /\ DispatchCall(s, d, i, E) \subseteq Deferred
           /\ \A e, f \in DispatchCall(s, d, i, E) : e = f
           /\ \A e \in DispatchCall(s, d, i, E) :
                 e.sub = s /\ e.call = i /\ (e.req => i \in Expected(d)) /\ (e.run = "return" => e.req)
<1> DEFINE c == Calls(d)[i]
           handler == LookupEntry(Member(c, "method"))
           m == MethodIdAt(d, i)
           inv == IF i \in E THEN NULL ELSE Answer("invalid_request", i, 0)
           unk == IF i \in E THEN NULL ELSE Answer("method_not_found", i, i)
<1> HIDE DEF c, handler, m
<1>1. i \in Indices /\ i \in 0 .. MaxBatch
  BY CallIndices DEF Indices
<1>2. m \in 0 .. MaxBatch
  BY <1>1, MethodIdType DEF m
<1>3. handler \in Handlers \cup {NULL}
  BY LookupType DEF handler
<1>4. inv \in Response \cup {NULL} /\ unk \in Response \cup {NULL}
  BY <1>1 DEF Answer, Response
<1>5. ReturnCall(s, i, inv, m) \in Deferred /\ ReturnCall(s, i, unk, i) \in Deferred
  BY <1>1, <1>2, <1>4 DEF ReturnCall, Deferred
<1>6. MethodCall(s, i, FALSE, handler, 0) \in Deferred /\ MethodCall(s, i, TRUE, handler, i) \in Deferred
  BY <1>1, <1>3 DEF MethodCall, Deferred
<1>7. EvalCallType(c) \in {"invalid", "notification", "request"}
  BY CallTypes
<1>8. EvalCallType(c) # "notification" => i \in Expected(d)
  BY DEF Expected, c
<1>9. ASSUME NEW x \in Deferred, DispatchCall(s, d, i, E) \subseteq {x},
             x.sub = s, x.call = i, x.req => i \in Expected(d), x.run = "return" => x.req
      PROVE  /\ DispatchCall(s, d, i, E) \subseteq Deferred
             /\ \A e, f \in DispatchCall(s, d, i, E) : e = f
             /\ \A e \in DispatchCall(s, d, i, E) :
                   e.sub = s /\ e.call = i /\ (e.req => i \in Expected(d)) /\ (e.run = "return" => e.req)
  <2>1. \A e \in DispatchCall(s, d, i, E) : e = x
    BY <1>9
  <2>2. ASSUME NEW e \in DispatchCall(s, d, i, E)
        PROVE  e.sub = s /\ e.call = i /\ (e.req => i \in Expected(d)) /\ (e.run = "return" => e.req)
    BY <1>9, <2>1, Zenon
  <2>3. DispatchCall(s, d, i, E) \subseteq Deferred
    BY <1>9
  <2>4. \A e, f \in DispatchCall(s, d, i, E) : e = f
    BY <2>1
  <2> QED BY <2>2, <2>3, <2>4, Zenon
<1>10. CASE EvalCallType(c) = "invalid"
  <2> DEFINE x == ReturnCall(s, i, inv, m)
  <2>1. DispatchCall(s, d, i, E) \subseteq {x}
    BY <1>10 DEF DispatchCall, c, m
  <2>2. x \in Deferred /\ x.sub = s /\ x.call = i /\ x.req
    BY <1>5 DEF ReturnCall
  <2> QED BY <2>1, <2>2, <1>8, <1>9, <1>10
<1>11. CASE EvalCallType(c) = "notification"
  <2> DEFINE x == MethodCall(s, i, FALSE, handler, 0)
  <2>1. DispatchCall(s, d, i, E) \subseteq {x}
    BY <1>11 DEF DispatchCall, c, handler
  <2>2. x \in Deferred /\ x.sub = s /\ x.call = i /\ x.run = "method" /\ ~x.req
    BY <1>6 DEF MethodCall
  <2> HIDE DEF x
  <2> QED BY <2>1, <2>2, <1>9
<1>12. CASE EvalCallType(c) = "request" /\ handler # NULL
  <2> DEFINE x == MethodCall(s, i, TRUE, handler, i)
  <2>1. DispatchCall(s, d, i, E) \subseteq {x}
    BY <1>12 DEF DispatchCall, c, handler
  <2>2. x \in Deferred /\ x.sub = s /\ x.call = i /\ x.run = "method"
    BY <1>6 DEF MethodCall
  <2> QED BY <2>1, <2>2, <1>8, <1>9, <1>12
<1>13. CASE EvalCallType(c) = "request" /\ handler = NULL
  <2> DEFINE x == ReturnCall(s, i, unk, i)
  <2>1. DispatchCall(s, d, i, E) \subseteq {x}
    BY <1>13 DEF DispatchCall, c, handler
  <2>2. x \in Deferred /\ x.sub = s /\ x.call = i /\ x.req
    BY <1>5 DEF ReturnCall
  <2> QED BY <2>1, <2>2, <1>8, <1>9, <1>13
<1> QED BY <1>7, <1>10, <1>11, <1>12, <1>13

(* json_rpc_return defers at most one call, of the same index.                *)
LEMMA JsonRpcReturnType ==
    ASSUME TypeOK, NEW s \in Subs, NEW i \in Indices, NEW m \in 0 .. MaxBatch, NEW q,
           JsonRpcReturn(s, i, m, q)
    PROVE  /\ faults' \in 0 .. MaxFaults
           /\ q \subseteq Deferred => queue' \subseteq Deferred
           /\ \/ queue' = q
              \/ \E o \in Response \cup {NULL} :
                    queue' = q \cup {ReturnCall(s, i, o, m)} /\ ReturnCall(s, i, o, m) \in Deferred
<1>1. PICK o \in {Answer("result", i, m), Answer("internal_error", i, m), NULL}, lost \in BOOLEAN :
        /\ Fail((IF o = NULL /\ m # 0 THEN 1 ELSE 0) + (IF lost THEN 1 ELSE 0))
        /\ queue' = IF lost THEN q ELSE q \cup {ReturnCall(s, i, o, m)}
  BY DEF JsonRpcReturn
<1>2. o \in Response \cup {NULL}
  BY DEF Answer, Response, Indices
<1>3. ReturnCall(s, i, o, m) \in Deferred
  BY <1>2 DEF ReturnCall, Deferred
<1>4. faults' \in 0 .. MaxFaults
  BY <1>1 DEF Fail, TypeOK
<1>5. q \subseteq Deferred => queue' \subseteq Deferred
  BY <1>1, <1>3
<1> QED BY <1>1, <1>2, <1>3, <1>4, <1>5

(* user_cb is given an answer, and idrefs stays a count.                      *)
LEMMA UserCbType ==
    ASSUME TypeOK, NEW s \in Subs, NEW res \in Seq(Response) \cup {NULL}, UserCb(s, res)
    PROVE  /\ answers' \in [Subs -> Seq(Seq(Response) \cup {NULL})]
           /\ idrefs' \in [Subs -> [Indices -> Int]]
<1> DEFINE items == IF res = NULL THEN << >> ELSE res
           With(i) == {k \in DOMAIN items : items[k].id = i}
<1>1. IsFiniteSet(DOMAIN items)
  <2>1. items \in Seq(Response)
    OBVIOUS
  <2>2. DOMAIN items = 1 .. Len(items) /\ Len(items) \in Nat
    BY <2>1
  <2> QED BY <2>2, FS_Interval
<1>2. \A i : Cardinality(With(i)) \in Nat
  <2> TAKE i
  <2>1. With(i) \subseteq DOMAIN items
    OBVIOUS
  <2>2. IsFiniteSet(With(i))
    BY <1>1, <2>1, FS_Subset
  <2> QED BY <2>2, FS_CardinalityType
<1>3. answers' \in [Subs -> Seq(Seq(Response) \cup {NULL})]
  BY DEF UserCb, TypeOK
<1>4. idrefs' = [idrefs EXCEPT ![s] = [i \in Indices |-> @[i] - Cardinality(With(i))]]
  BY DEF UserCb
<1>5. idrefs' \in [Subs -> [Indices -> Int]]
  <2> HIDE DEF With, items
  <2>1. [i \in Indices |-> idrefs[s][i] - Cardinality(With(i))] \in [Indices -> Int]
    BY <1>2 DEF TypeOK
  <2> QED BY <1>4, <2>1 DEF TypeOK
<1> QED BY <1>3, <1>5

(* The calls of a document are deferred for its submission only, at most one  *)
(* for each, with a request where a result is expected.                       *)
LEMMA DispatchCallsType ==
    ASSUME TypeOK, NEW s \in Subs, NEW d \in Documents, DispatchCalls(s, d)
    PROVE  /\ queue' \subseteq Deferred
           /\ idrefs' \in [Subs -> [Indices -> Int]]
           /\ faults' \in 0 .. MaxFaults
           /\ \A e \in queue' \ queue : e.sub = s /\ (e.req => e.call \in Expected(d))
           /\ \A e \in queue' \ queue : e.run = "return" => e.req
           /\ \A e, f \in queue' \ queue : e.call = f.call => e = f
           /\ queue \subseteq queue'
<1>1. PICK L \in SUBSET DOMAIN Calls(d), E \in SUBSET DOMAIN Calls(d) :
        /\ Fail(Cardinality(L) + Cardinality(E))
        /\ queue' = queue \cup UNION {DispatchCall(s, d, i, E) : i \in DOMAIN Calls(d) \ L}
        /\ idrefs' = [idrefs EXCEPT ![s] = [i \in Indices |->
              IF i \in DOMAIN Calls(d) /\ EvalCallType(Calls(d)[i]) = "request" THEN 1 ELSE 0]]
  BY DEF DispatchCalls
<1>2. faults' \in 0 .. MaxFaults
  <2>1. IsFiniteSet(DOMAIN Calls(d))
    BY CallIndices, FS_Interval
  <2>2. Cardinality(L) \in Nat /\ Cardinality(E) \in Nat
    BY <2>1, FS_Subset, FS_CardinalityType
  <2> QED BY <1>1, <2>2 DEF Fail, TypeOK
<1>3. idrefs' \in [Subs -> [Indices -> Int]]
  <2>1. [i \in Indices |-> IF i \in DOMAIN Calls(d) /\ EvalCallType(Calls(d)[i]) = "request"
                           THEN 1 ELSE 0] \in [Indices -> Int]
    OBVIOUS
  <2> QED BY <1>1, <2>1 DEF TypeOK
<1>4. \A e \in queue' \ queue : \E i \in DOMAIN Calls(d) : e \in DispatchCall(s, d, i, E)
  BY <1>1
<1>5. ASSUME NEW e \in queue' \ queue
      PROVE  /\ e \in Deferred /\ e.sub = s /\ (e.req => e.call \in Expected(d))
             /\ e.run = "return" => e.req
  <2>1. PICK i \in DOMAIN Calls(d) : e \in DispatchCall(s, d, i, E)
    BY <1>4
  <2>2. /\ e \in Deferred /\ e.sub = s /\ e.call = i
       /\ (e.req => i \in Expected(d)) /\ (e.run = "return" => e.req)
    BY <2>1, DispatchCallType, ZenonT(40)
  <2> QED BY <2>2, Zenon
<1>6. ASSUME NEW e \in queue' \ queue, NEW f \in queue' \ queue, e.call = f.call
      PROVE  e = f
  <2>1. PICK i \in DOMAIN Calls(d) : e \in DispatchCall(s, d, i, E)
    BY <1>4
  <2>2. PICK j \in DOMAIN Calls(d) : f \in DispatchCall(s, d, j, E)
    BY <1>4
  <2>3. e.call = i /\ f.call = j
    <3>1. e.call = i
      BY <2>1, DispatchCallType, ZenonT(40)
    <3>2. f.call = j
      BY <2>2, DispatchCallType, ZenonT(40)
    <3> QED BY <3>1, <3>2
  <2>4. i = j
    BY <2>3, <1>6
  <2>5. e \in DispatchCall(s, d, i, E) /\ f \in DispatchCall(s, d, i, E)
    BY <2>1, <2>2, <2>4
  <2>6. \A a, b \in DispatchCall(s, d, i, E) : a = b
    BY DispatchCallType, Zenon
  <2> QED BY <2>5, <2>6, Zenon
<1>7. queue \subseteq queue'
  BY <1>1
<1>8. queue' \subseteq Deferred
  BY <1>5 DEF TypeOK
<1> QED BY <1>2, <1>3, <1>5, <1>6, <1>7, <1>8, Zenon

(* A request stays one when deferred_callcb and the result callbacks write it.*)
LEMMA MethodIdUpdate ==
    ASSUME NEW r \in Request, NEW m \in 0 .. MaxBatch
    PROVE  [r EXCEPT !.method_id = m] \in Request
BY DEF Request

LEMMA FreeUpdate ==
    ASSUME NEW r \in Request, NEW m \in 0 .. MaxBatch
    PROVE  [r EXCEPT !.method_id = m, !.state = "freed"] \in Request
BY DEF Request

LEMMA BatchUpdate ==
    ASSUME NEW r \in Request, NEW m \in 0 .. MaxBatch, NEW b \in Seq(Response), NEW n \in Nat,
           NEW st \in {"none", "live", "freed"}
    PROVE  [r EXCEPT !.method_id = m, !.result_batch = b, !.result_count = n,
                     !.state = st] \in Request
BY DEF Request

(* The request after processing is one.                                       *)
LEMMA ProcessedType ==
    ASSUME NEW d \in Documents, NEW cb \in {"single", "batched"}, NEW n \in Nat
    PROVE  /\ Processed(cb, d, n) \in Request
           /\ Processed(cb, d, n).return_cb = cb
           /\ Processed(cb, d, n).waiting_result_count = n
           /\ Processed(cb, d, n).result_count = 0
           /\ Processed(cb, d, n).state = IF Expected(d) = {} THEN "freed" ELSE "live"
<1> DEFINE m == MethodIdAt(d, Len(Calls(d)))
<1>1. m \in 0 .. MaxBatch
  BY CallIndices, MethodIdType
<1> HIDE DEF m
<1>2. << >> \in Seq(Response)
  OBVIOUS
<1>3. NewRequest(cb, n, m) \in Request
  BY <1>1, <1>2 DEF NewRequest, Request
<1> DEFINE r == NewRequest(cb, n, m)
<1>4. r.return_cb = cb /\ r.waiting_result_count = n /\ r.result_count = 0 /\ r.state = "live"
  BY DEF NewRequest
<1>5. Processed(cb, d, n) = IF Expected(d) = {} THEN [r EXCEPT !.state = "freed"] ELSE r
  BY DEF Processed, m
<1> HIDE DEF r
<1>6. r \in Request
  BY <1>3 DEF r
<1> QED BY <1>4, <1>5, <1>6 DEF Request
-----------------------------------------------------------------------------
(* Type correctness.                                                          *)

LEMMA TypeInit == Init => TypeOK
<1> SUFFICES ASSUME Init PROVE TypeOK
  OBVIOUS
<1>1. NoRequest \in Request
  <2>1. << >> \in Seq(Response)
    OBVIOUS
  <2> DEFINE r == NewRequest("single", 0, 0)
  <2>2. r \in Request
    BY <2>1 DEF NewRequest, Request
  <2>3. NoRequest = [r EXCEPT !.state = "none"]
    BY DEF NoRequest
  <2> HIDE DEF r
  <2> QED BY <2>2, <2>3 DEF Request
<1>2. \A S : << >> \in Seq(S)
  OBVIOUS
<1> QED BY <1>1, <1>2 DEF Init, TypeOK

LEMMA TypeProcess ==
    ASSUME TypeOK, NEW s \in Subs, NEW d \in Documents, Process(s, d)
    PROVE  TypeOK'
<1>1. doc' \in [Subs -> Documents \cup {NULL}] /\ UNCHANGED <<jr, methods, held>>
  BY DEF Process, ProcessSingleCall, ProcessBatchedCall, ProcessInvalid, ProcessNoMemory,
         Submit, TypeOK
<1>2. CASE ProcessSingleCall(s, d)
  <2>1. Processed("single", d, 0) \in Request
    BY ProcessedType
  <2>2. req' \in [Subs -> Request] /\ UNCHANGED answers
    BY <1>2, <2>1 DEF ProcessSingleCall, TypeOK
  <2>3. queue' \subseteq Deferred /\ idrefs' \in [Subs -> [Indices -> Int]] /\ faults' \in 0 .. MaxFaults
    BY <1>2, DispatchCallsType DEF ProcessSingleCall
  <2> QED BY <1>1, <2>2, <2>3 DEF TypeOK
<1>3. CASE ProcessBatchedCall(s, d)
  <2>1. Cardinality(Expected(d)) \in Nat
    BY ExpectedCount
  <2>2. Processed("batched", d, Cardinality(Expected(d))) \in Request
    BY <2>1, ProcessedType
  <2>3. req' \in [Subs -> Request] /\ UNCHANGED answers
    BY <1>3, <2>2 DEF ProcessBatchedCall, TypeOK
  <2>4. queue' \subseteq Deferred /\ idrefs' \in [Subs -> [Indices -> Int]] /\ faults' \in 0 .. MaxFaults
    BY <1>3, DispatchCallsType DEF ProcessBatchedCall
  <2> QED BY <1>1, <2>3, <2>4 DEF TypeOK
<1>4. CASE ProcessInvalid(s, d) \/ ProcessNoMemory(s, d)
  <2>1. PICK k \in {"invalid_request", "internal_error"}, n \in {0, 1} : ProcessErrorFinal(s, k, n)
    BY <1>4 DEF ProcessInvalid, ProcessNoMemory
  <2>2. <<Answer(k, 0, 0)>> \in Seq(Response)
    BY DEF Answer, Response
  <2>3. answers' \in [Subs -> Seq(Seq(Response) \cup {NULL})] /\ idrefs' \in [Subs -> [Indices -> Int]]
    BY <2>1, <2>2, UserCbType DEF ProcessErrorFinal
  <2>4. faults' \in 0 .. MaxFaults /\ UNCHANGED <<req, queue>>
    BY <2>1 DEF ProcessErrorFinal, Fail, TypeOK
  <2> QED BY <1>1, <2>3, <2>4 DEF TypeOK
<1> QED BY <1>2, <1>3, <1>4 DEF Process

LEMMA TypeDeferred ==
    ASSUME TypeOK, NEW e \in queue, RunDeferred(e)
    PROVE  TypeOK'
<1>1. /\ e \in Deferred /\ e.sub \in Subs /\ e.call \in Indices
      /\ e.method_id \in 0 .. MaxBatch /\ e.obj \in Response \cup {NULL}
  BY DEF TypeOK, Deferred
<1>2. CASE RunNotification(e)
  BY <1>2 DEF RunNotification, TypeOK
<1>3. CASE RunKeeper(e)
  <2>1. req' = [req EXCEPT ![e.sub] = [req[e.sub] EXCEPT !.method_id = e.method_id]]
    BY <1>3 DEF RunKeeper
  <2>2. req' \in [Subs -> Request]
    BY <1>1, <2>1, MethodIdUpdate DEF TypeOK
  <2>3. held' \subseteq Subs \X Indices
    BY <1>1, <1>3 DEF RunKeeper, TypeOK
  <2> QED BY <1>3, <2>2, <2>3 DEF RunKeeper, TypeOK
<1>4. CASE RunMethod(e)
  <2>1. req' = [req EXCEPT ![e.sub] = [req[e.sub] EXCEPT !.method_id = e.method_id]]
    BY <1>4 DEF RunMethod
  <2>2. req' \in [Subs -> Request]
    BY <1>1, <2>1, MethodIdUpdate DEF TypeOK
  <2>3. JsonRpcReturn(e.sub, e.call, e.method_id, queue \ {e})
    BY <1>4 DEF RunMethod
  <2>4. queue \ {e} \subseteq Deferred
    BY DEF TypeOK
  <2>5. faults' \in 0 .. MaxFaults /\ queue' \subseteq Deferred
    BY <1>1, <2>3, <2>4, JsonRpcReturnType, Zenon
  <2> QED BY <1>4, <2>2, <2>5 DEF RunMethod, TypeOK
<1>5. CASE SingleResult(e)
  <2> DEFINE res == IF e.obj = NULL THEN NULL ELSE <<e.obj>>
  <2>1. req' = [req EXCEPT ![e.sub] = [req[e.sub] EXCEPT !.method_id = e.method_id,
                                                         !.state = "freed"]]
    BY <1>1, <1>5 DEF SingleResult, TypeOK
  <2>2. req' \in [Subs -> Request]
    BY <1>1, <2>1, FreeUpdate DEF TypeOK
  <2>3. res \in Seq(Response) \cup {NULL}
    BY <1>1
  <2>4. UserCb(e.sub, res)
    BY <1>5 DEF SingleResult
  <2> HIDE DEF res
  <2>5. answers' \in [Subs -> Seq(Seq(Response) \cup {NULL})] /\ idrefs' \in [Subs -> [Indices -> Int]]
    BY <1>1, <2>3, <2>4, UserCbType
  <2> QED BY <1>5, <2>2, <2>5 DEF SingleResult, TypeOK
<1>6. CASE BatchedResult(e)
  <2> DEFINE r == req[e.sub]
             last == r.result_count + 1 = r.waiting_result_count
  <2>1. PICK batch \in {r.result_batch} \cup
                       (IF e.obj = NULL THEN {} ELSE {Append(r.result_batch, e.obj)}) :
          /\ Fail(IF e.obj # NULL /\ batch = r.result_batch THEN 1 ELSE 0)
          /\ req' = [req EXCEPT ![e.sub] =
                [r EXCEPT !.method_id = e.method_id, !.result_batch = batch,
                          !.result_count = @ + 1,
                          !.state = IF last THEN "freed" ELSE @]]
          /\ IF last THEN UserCb(e.sub, batch) ELSE UNCHANGED <<answers, idrefs>>
    BY <1>6 DEF BatchedResult
  <2>2. r \in Request /\ r.result_batch \in Seq(Response) /\ r.result_count \in Nat
    BY <1>1 DEF TypeOK, Request
  <2>3. batch \in Seq(Response)
    <3>1. batch = r.result_batch \/ (e.obj # NULL /\ batch = Append(r.result_batch, e.obj))
      BY <2>1
    <3> HIDE DEF r
    <3> QED BY <1>1, <2>2, <3>1, SMTT(30)
  <2>4. req' \in [Subs -> Request]
    <3> DEFINE n == r.result_count + 1
               st == IF last THEN "freed" ELSE r.state
    <3>1. n \in Nat /\ st \in {"none", "live", "freed"}
      BY <2>2 DEF Request
    <3>2. req' = [req EXCEPT ![e.sub] = [r EXCEPT !.method_id = e.method_id,
                    !.result_batch = batch, !.result_count = n, !.state = st]]
      BY <2>1
    <3> HIDE DEF r, n, st
    <3>3. [r EXCEPT !.method_id = e.method_id, !.result_batch = batch, !.result_count = n,
                    !.state = st] \in Request
      BY <1>1, <2>2, <2>3, <3>1, BatchUpdate
    <3> QED BY <3>2, <3>3 DEF TypeOK
  <2>5. faults' \in 0 .. MaxFaults
    BY <2>1 DEF Fail, TypeOK
  <2>6. answers' \in [Subs -> Seq(Seq(Response) \cup {NULL})] /\ idrefs' \in [Subs -> [Indices -> Int]]
    BY <1>1, <2>1, <2>3, UserCbType DEF TypeOK
  <2> QED BY <1>6, <2>4, <2>5, <2>6 DEF BatchedResult, TypeOK
<1> QED BY <1>2, <1>3, <1>4, <1>5, <1>6 DEF RunDeferred

LEMMA TypeStep == TypeOK /\ [Next]_vars => TypeOK'
<1> SUFFICES ASSUME TypeOK, [Next]_vars PROVE TypeOK'
  OBVIOUS
<1>1. ASSUME NEW n \in MethodNames, NEW h \in Handlers, AddMethod(n, h) PROVE TypeOK'
  <2>1. <<h>> \o methods[n] \in Seq(Handlers)
    BY <1>1 DEF TypeOK
  <2> QED BY <1>1, <2>1 DEF AddMethod, TypeOK
<1>2. ASSUME NEW n \in MethodNames, DelMethod(n) PROVE TypeOK'
  <2>1. << >> \in Seq(Handlers)
    OBVIOUS
  <2> QED BY <1>2, <2>1 DEF DelMethod, TypeOK
<1>3. CASE JsonRpcFree
  <2>1. << >> \in Seq(Handlers)
    OBVIOUS
  <2> QED BY <1>3, <2>1 DEF JsonRpcFree, TypeOK
<1>4. ASSUME NEW s \in Subs, NEW i \in Indices, ReturnLater(s, i) PROVE TypeOK'
  <2>1. req[s].method_id \in 0 .. MaxBatch
    BY DEF TypeOK, Request
  <2>2. JsonRpcReturn(s, i, req[s].method_id, queue) /\ queue \subseteq Deferred
    BY <1>4 DEF ReturnLater, TypeOK
  <2>3. faults' \in 0 .. MaxFaults /\ queue' \subseteq Deferred
    BY <2>1, <2>2, JsonRpcReturnType, Zenon
  <2> QED BY <1>4, <2>3 DEF ReturnLater, TypeOK
<1>5. CASE UNCHANGED vars
  BY <1>5 DEF vars, TypeOK
<1> QED BY <1>1, <1>2, <1>3, <1>4, <1>5, TypeProcess, TypeDeferred DEF Next

(* Every variable keeps its type, for any documents, methods and bounds.      *)
THEOREM TypeCorrect == Spec => []TypeOK
BY TypeInit, TypeStep, PTL DEF Spec
-----------------------------------------------------------------------------
(* References to requests.                                                    *)

(* The calls of s that the deferred calls q or the methods in h refer to.     *)
OutstandingIn(q, h, s) ==
    {c \in Indices : (\E e \in q : e.req /\ e.sub = s /\ e.call = c) \/ <<s, c>> \in h}

OutstandingSound ==
    \A s \in Subs : /\ Outstanding(s) = OutstandingIn(queue, held, s)
                    /\ IsFiniteSet(Outstanding(s))
                    /\ Cardinality(Outstanding(s)) \in Nat

LEMMA OutstandingNow ==
    TypeOK => OutstandingSound
<1> SUFFICES ASSUME TypeOK, NEW s \in Subs
             PROVE  /\ Outstanding(s) = OutstandingIn(queue, held, s)
                    /\ IsFiniteSet(Outstanding(s))
                    /\ Cardinality(Outstanding(s)) \in Nat
  BY DEF OutstandingSound
<1>1. Outstanding(s) \subseteq OutstandingIn(queue, held, s)
  <2>1. ASSUME NEW e \in queue, e.sub = s, e.req
        PROVE  e.call \in OutstandingIn(queue, held, s)
    BY <2>1 DEF TypeOK, Deferred, OutstandingIn
  <2>2. ASSUME NEW h \in held, h[1] = s
        PROVE  h[2] \in OutstandingIn(queue, held, s)
    <3>1. h = <<s, h[2]>> /\ h[2] \in Indices
      BY <2>2 DEF TypeOK
    <3> QED BY <3>1 DEF OutstandingIn
  <2> QED BY <2>1, <2>2 DEF Outstanding, Waiting, Kept
<1>2. OutstandingIn(queue, held, s) \subseteq Outstanding(s)
  <2> SUFFICES ASSUME NEW c \in OutstandingIn(queue, held, s)
               PROVE  c \in Outstanding(s)
    OBVIOUS
  <2>1. (\E e \in queue : e.req /\ e.sub = s /\ e.call = c) \/ <<s, c>> \in held
    BY Zenon DEF OutstandingIn
  <2>2. ASSUME NEW e \in queue, e.req, e.sub = s, e.call = c
        PROVE  c \in Outstanding(s)
    BY <2>2 DEF Outstanding, Waiting
  <2>3. CASE <<s, c>> \in held
    <3>1. <<s, c>>[1] = s /\ <<s, c>>[2] = c
      OBVIOUS
    <3> QED BY <2>3, <3>1 DEF Outstanding, Kept
  <2> QED BY <2>1, <2>2, <2>3, Zenon
<1>3. IsFiniteSet(OutstandingIn(queue, held, s))
  <2>1. IsFiniteSet(Indices)
    BY FS_Interval DEF Indices
  <2>2. OutstandingIn(queue, held, s) \subseteq Indices
    BY DEF OutstandingIn
  <2> QED BY <2>1, <2>2, FS_Subset
<1>4. Cardinality(OutstandingIn(queue, held, s)) \in Nat
  BY <1>3, FS_CardinalityType
<1>5. Outstanding(s) = OutstandingIn(queue, held, s)
  BY <1>1, <1>2
<1> QED BY <1>3, <1>4, <1>5

LEMMA OutstandingNext ==
    TypeOK' => OutstandingSound'
BY OutstandingNow, PTL

(* A step that refers to a request no more than before, and leaves its        *)
(* counters, its document and its answers alone.                              *)
LEMMA CountsFrame ==
    ASSUME TypeOK, TypeOK', NEW s \in Subs, RequestCounts(s),
           Outstanding(s)' \subseteq Outstanding(s),
           doc'[s] = doc[s], answers'[s] = answers[s],
           req'[s].state = req[s].state, req'[s].return_cb = req[s].return_cb,
           req'[s].result_count = req[s].result_count,
           req'[s].waiting_result_count = req[s].waiting_result_count
    PROVE  RequestCounts(s)'
<1>1. Cardinality(Outstanding(s)') <= Cardinality(Outstanding(s))
  BY OutstandingNow, FS_Subset DEF OutstandingSound
<1>2. /\ Cardinality(Outstanding(s)) \in Nat /\ Cardinality(Outstanding(s)') \in Nat
      /\ req[s].result_count \in Nat /\ req[s].waiting_result_count \in Nat
  BY OutstandingNow, OutstandingNext DEF OutstandingSound, TypeOK, Request
<1> QED BY <1>1, <1>2 DEF RequestCounts

(* One reference of call i of s0 moves, to another deferred call or a method, *)
(* or is dropped: no call gains a reference.                                  *)
LEMMA OutstandingMove ==
    ASSUME TypeOK, TypeOK', NEW s0 \in Subs, NEW i0 \in Outstanding(s0),
           \A f \in queue' \ queue : f.sub = s0 /\ f.call = i0,
           held' \subseteq held \cup {<<s0, i0>>}
    PROVE  \A s \in Subs : Outstanding(s)' \subseteq Outstanding(s)
<1> SUFFICES ASSUME NEW s \in Subs, NEW c \in OutstandingIn(queue', held', s)
             PROVE  c \in OutstandingIn(queue, held, s)
  BY OutstandingNow, OutstandingNext DEF OutstandingSound
<1>1. i0 \in OutstandingIn(queue, held, s0)
  BY OutstandingNow DEF OutstandingSound
<1>2. c \in Indices /\ ((\E e \in queue' : e.req /\ e.sub = s /\ e.call = c) \/ <<s, c>> \in held')
  BY Zenon DEF OutstandingIn
<1>3. ASSUME NEW e \in queue', e.req, e.sub = s, e.call = c
      PROVE  c \in OutstandingIn(queue, held, s)
  <2>1. CASE e \in queue
    BY <1>2, <1>3, <2>1, Zenon DEF OutstandingIn
  <2>2. CASE e \notin queue
    <3>1. e.sub = s0 /\ e.call = i0
      BY <2>2
    <3>2. s = s0 /\ c = i0
      BY <1>3, <3>1, Zenon
    <3> QED BY <1>1, <3>2, Zenon
  <2> QED BY <2>1, <2>2
<1>4. CASE <<s, c>> \in held'
  <2>1. CASE <<s, c>> \in held
    BY <1>2, <2>1, Zenon DEF OutstandingIn
  <2>2. CASE <<s, c>> = <<s0, i0>>
    <3>1. s = s0 /\ c = i0
      BY <2>2
    <3> QED BY <1>1, <3>1
  <2> QED BY <1>4, <2>1, <2>2
<1> QED BY <1>2, <1>3, <1>4, Zenon
-----------------------------------------------------------------------------
(* Steps that take references away, or move one.                              *)

(* What each request needs for CountsFrame to apply to it.                    *)
SameCounters ==
    /\ UNCHANGED <<doc, answers>>
    /\ \A s \in Subs : /\ req'[s].state = req[s].state
                      /\ req'[s].return_cb = req[s].return_cb
                      /\ req'[s].result_count = req[s].result_count
                      /\ req'[s].waiting_result_count = req[s].waiting_result_count

LEMMA CountersOfMethodId ==
    ASSUME TypeOK, NEW s \in Subs, NEW m, UNCHANGED <<doc, answers>>,
           req' = [req EXCEPT ![s].method_id = m]
    PROVE  SameCounters
BY DEF SameCounters, TypeOK, Request

LEMMA QuietStep ==
    ASSUME TypeOK, TypeOK', RequestInvariant,
           queue' \subseteq queue, UNCHANGED <<doc, req, held, answers>>
    PROVE  RequestInvariant'
<1>1. OneReferencePerCall'
  <2>1. \A e, f \in queue' : e.req /\ f.req /\ e.sub = f.sub /\ e.call = f.call => e = f
    BY Zenon DEF RequestInvariant, OneReferencePerCall
  <2>2. \A e \in queue' : e.req => <<e.sub, e.call>> \notin held'
    BY Zenon DEF RequestInvariant, OneReferencePerCall
  <2>3. \A e \in queue' : e.run = "return" => e.req
    BY Zenon DEF RequestInvariant, OneReferencePerCall
  <2> QED BY <2>1, <2>2, <2>3, Zenon DEF OneReferencePerCall
<1>2. \A s \in Subs : Outstanding(s)' \subseteq Outstanding(s)
  <2>1. \A s : OutstandingIn(queue', held', s) \subseteq OutstandingIn(queue, held, s)
    BY Zenon DEF OutstandingIn
  <2> QED BY <2>1, OutstandingNow, OutstandingNext DEF OutstandingSound
<1>3. \A s \in Subs : RequestCounts(s)'
  BY <1>2, CountsFrame DEF RequestInvariant
<1> QED BY <1>1, <1>3 DEF RequestInvariant

(* deferred_callcb takes e out of the queue; json_rpc_return may put the      *)
(* deferral of return_cb in for the same call.                                *)
LEMMA ReturnStep ==
    ASSUME TypeOK, TypeOK', RequestInvariant, SameCounters,
           NEW s0 \in Subs, NEW i0 \in Outstanding(s0), NEW q \in SUBSET queue,
           \A f \in q : f.req => ~(f.sub = s0 /\ f.call = i0),
           held' \subseteq held, <<s0, i0>> \notin held',
           NEW o, NEW m, queue' = q \/ queue' = q \cup {ReturnCall(s0, i0, o, m)}
    PROVE  RequestInvariant'
<1> DEFINE x == ReturnCall(s0, i0, o, m)
<1>1. x.sub = s0 /\ x.call = i0 /\ x.run = "return" /\ x.req
  BY DEF ReturnCall
<1> HIDE DEF x
<1>2. \A f \in queue' : f \in q \/ f = x
  BY DEF x
<1>3. \A s \in Subs : Outstanding(s)' \subseteq Outstanding(s)
  <2>1. \A f \in queue' \ queue : f.sub = s0 /\ f.call = i0
    BY <1>1, <1>2
  <2> QED BY <2>1, OutstandingMove
<1>4. OneReferencePerCall'
  <2>1. ASSUME NEW e \in queue', NEW f \in queue', e.req, f.req, e.sub = f.sub, e.call = f.call
        PROVE  e = f
    <3>1. CASE e \in q /\ f \in q
      BY <2>1, <3>1, Zenon DEF RequestInvariant, OneReferencePerCall
    <3>2. CASE e = x
      <4>1. f.sub = s0 /\ f.call = i0
        BY <1>1, <2>1, <3>2, Zenon
      <4>2. f \notin q
        BY <2>1, <4>1, Zenon
      <4> QED BY <1>2, <3>2, <4>2, Zenon
    <3>3. CASE f = x
      <4>1. e.sub = s0 /\ e.call = i0
        BY <1>1, <2>1, <3>3, Zenon
      <4>2. e \notin q
        BY <2>1, <4>1, Zenon
      <4> QED BY <1>2, <3>3, <4>2, Zenon
    <3> QED BY <1>2, <3>1, <3>2, <3>3, Zenon
  <2>2. ASSUME NEW e \in queue', e.req
        PROVE  <<e.sub, e.call>> \notin held'
    <3>1. CASE e \in q
      BY <2>2, <3>1, Zenon DEF RequestInvariant, OneReferencePerCall
    <3>2. CASE e = x
      <4>1. <<e.sub, e.call>> = <<s0, i0>>
        BY <1>1, <3>2
      <4> QED BY <4>1
    <3> QED BY <1>2, <3>1, <3>2, Zenon
  <2>3. ASSUME NEW e \in queue', e.run = "return"
        PROVE  e.req
    <3>1. CASE e \in q
      BY <2>3, <3>1, Zenon DEF RequestInvariant, OneReferencePerCall
    <3>2. CASE e = x
      BY <1>1, <3>2, Zenon
    <3> QED BY <1>2, <3>1, <3>2, Zenon
  <2> QED BY <2>1, <2>2, <2>3, Zenon DEF OneReferencePerCall
<1>5. \A s \in Subs : RequestCounts(s)'
  BY <1>3, CountsFrame DEF RequestInvariant, SameCounters
<1> QED BY <1>4, <1>5 DEF RequestInvariant

(* The reference of a deferred call is the only one of that call.             *)
LEMMA OnlyReference ==
    ASSUME TypeOK, RequestInvariant, NEW e \in queue, e.req
    PROVE  /\ e.sub \in Subs /\ e.call \in Outstanding(e.sub)
           /\ \A f \in queue \ {e} : f.req => ~(f.sub = e.sub /\ f.call = e.call)
           /\ <<e.sub, e.call>> \notin held
<1>1. e.sub \in Subs
  BY DEF TypeOK, Deferred
<1>2. e.call \in Outstanding(e.sub)
  BY Zenon DEF Outstanding, Waiting
<1>3. \A f \in queue \ {e} : f.req => ~(f.sub = e.sub /\ f.call = e.call)
  <2> SUFFICES ASSUME NEW f \in queue, f # e, f.req, f.sub = e.sub, f.call = e.call
               PROVE  FALSE
    BY Zenon
  <2> QED BY Zenon DEF RequestInvariant, OneReferencePerCall
<1>4. <<e.sub, e.call>> \notin held
  BY Zenon DEF RequestInvariant, OneReferencePerCall
<1> QED BY <1>1, <1>2, <1>3, <1>4, Zenon

LEMMA CountsMethod ==
    ASSUME TypeOK, TypeOK', RequestInvariant, NEW e \in queue, RunMethod(e)
    PROVE  RequestInvariant'
<1>1. e.req /\ e.sub \in Subs /\ e.call \in Indices /\ e.method_id \in 0 .. MaxBatch
  BY Zenon DEF RunMethod, TypeOK, Deferred
<1>2. SameCounters
  BY <1>1, CountersOfMethodId DEF RunMethod
<1>3. JsonRpcReturn(e.sub, e.call, e.method_id, queue \ {e}) /\ UNCHANGED held
  BY DEF RunMethod
<1> DEFINE q == queue \ {e}
<1>4. PICK o : queue' = q \/ queue' = q \cup {ReturnCall(e.sub, e.call, o, e.method_id)}
  BY <1>1, <1>3, JsonRpcReturnType, Zenon
<1>5. /\ e.call \in Outstanding(e.sub) /\ <<e.sub, e.call>> \notin held
      /\ \A f \in q : f.req => ~(f.sub = e.sub /\ f.call = e.call)
  BY <1>1, OnlyReference, Zenon
<1>6. q \in SUBSET queue
  OBVIOUS
<1> HIDE DEF q
<1> QED BY <1>1, <1>2, <1>3, <1>4, <1>5, <1>6, ReturnStep

LEMMA CountsReturnLater ==
    ASSUME TypeOK, TypeOK', RequestInvariant, NEW s \in Subs, NEW i \in Indices, ReturnLater(s, i)
    PROVE  RequestInvariant'
<1>1. SameCounters /\ JsonRpcReturn(s, i, req[s].method_id, queue)
  BY DEF ReturnLater, SameCounters
<1>2. held' \subseteq held /\ <<s, i>> \notin held' /\ <<s, i>> \in held
  BY DEF ReturnLater
<1>3. req[s].method_id \in 0 .. MaxBatch
  BY DEF TypeOK, Request
<1>4. PICK o : queue' = queue \/ queue' = queue \cup {ReturnCall(s, i, o, req[s].method_id)}
  BY <1>1, <1>3, JsonRpcReturnType, Zenon
<1>5. i \in Outstanding(s)
  <2>1. i \in OutstandingIn(queue, held, s)
    BY <1>2 DEF OutstandingIn
  <2> QED BY <2>1, OutstandingNow DEF OutstandingSound
<1>6. \A f \in queue : f.req => ~(f.sub = s /\ f.call = i)
  <2> SUFFICES ASSUME NEW f \in queue, f.req, f.sub = s, f.call = i
               PROVE  FALSE
    BY Zenon
  <2>1. <<f.sub, f.call>> \notin held
    BY Zenon DEF RequestInvariant, OneReferencePerCall
  <2> QED BY <1>2, <2>1, Zenon
<1> QED BY <1>1, <1>2, <1>4, <1>5, <1>6, ReturnStep

LEMMA CountsKeeper ==
    ASSUME TypeOK, TypeOK', RequestInvariant, NEW e \in queue, RunKeeper(e)
    PROVE  RequestInvariant'
<1>1. e.req /\ e.sub \in Subs
  BY Zenon DEF RunKeeper, TypeOK, Deferred
<1>2. SameCounters
  BY <1>1, CountersOfMethodId DEF RunKeeper
<1>3. queue' = queue \ {e} /\ held' = held \cup {<<e.sub, e.call>>}
  BY DEF RunKeeper
<1>4. /\ e.call \in Outstanding(e.sub)
      /\ \A f \in queue' : f.req => ~(f.sub = e.sub /\ f.call = e.call)
  BY <1>1, <1>3, OnlyReference, Zenon
<1>5. \A s \in Subs : Outstanding(s)' \subseteq Outstanding(s)
  BY <1>1, <1>3, <1>4, OutstandingMove
<1>6. OneReferencePerCall'
  <2>1. queue' \subseteq queue
    BY <1>3
  <2>2. ASSUME NEW f \in queue', f.req
        PROVE  <<f.sub, f.call>> \notin held'
    <3>1. <<f.sub, f.call>> \notin held
      BY <2>1, <2>2, Zenon DEF RequestInvariant, OneReferencePerCall
    <3>2. ~(f.sub = e.sub /\ f.call = e.call)
      BY <1>4, <2>2, Zenon
    <3> QED BY <1>3, <3>1, <3>2
  <2>3. \A f, g \in queue' : f.req /\ g.req /\ f.sub = g.sub /\ f.call = g.call => f = g
    BY <2>1, Zenon DEF RequestInvariant, OneReferencePerCall
  <2>4. \A f \in queue' : f.run = "return" => f.req
    BY <2>1, Zenon DEF RequestInvariant, OneReferencePerCall
  <2> QED BY <2>2, <2>3, <2>4, Zenon DEF OneReferencePerCall
<1>7. \A s \in Subs : RequestCounts(s)'
  BY <1>2, <1>5, CountsFrame DEF RequestInvariant, SameCounters
<1> QED BY <1>6, <1>7 DEF RequestInvariant
-----------------------------------------------------------------------------
(* The result callbacks drop the reference they were deferred with.           *)

LEMMA DroppedReference ==
    ASSUME TypeOK, TypeOK', RequestInvariant, NEW e \in queue, e.req,
           queue' = queue \ {e}, held' = held
    PROVE  /\ OneReferencePerCall'
           /\ \A s \in Subs : Outstanding(s)' \subseteq Outstanding(s)
           /\ e.call \notin Outstanding(e.sub)'
<1>1. /\ e.sub \in Subs /\ e.call \in Outstanding(e.sub) /\ <<e.sub, e.call>> \notin held
      /\ \A f \in queue' : f.req => ~(f.sub = e.sub /\ f.call = e.call)
  BY OnlyReference, Zenon
<1>2. OneReferencePerCall'
  <2>1. queue' \subseteq queue
    OBVIOUS
  <2>2. \A f, g \in queue' : f.req /\ g.req /\ f.sub = g.sub /\ f.call = g.call => f = g
    BY <2>1, Zenon DEF RequestInvariant, OneReferencePerCall
  <2>3. \A f \in queue' : f.req => <<f.sub, f.call>> \notin held'
    BY <2>1, Zenon DEF RequestInvariant, OneReferencePerCall
  <2>4. \A f \in queue' : f.run = "return" => f.req
    BY <2>1, Zenon DEF RequestInvariant, OneReferencePerCall
  <2> QED BY <2>2, <2>3, <2>4, Zenon DEF OneReferencePerCall
<1>3. \A s \in Subs : Outstanding(s)' \subseteq Outstanding(s)
  BY <1>1, OutstandingMove
<1>4. e.call \notin Outstanding(e.sub)'
  <2>1. e.call \notin OutstandingIn(queue', held', e.sub)
    BY <1>1, Zenon DEF OutstandingIn
  <2> QED BY <1>1, <2>1, OutstandingNext DEF OutstandingSound
<1> QED BY <1>2, <1>3, <1>4

(* A request that is referred to is live, was submitted and has no answer.    *)
LEMMA ReferredTo ==
    ASSUME TypeOK, RequestInvariant, NEW s \in Subs, Outstanding(s) # {}
    PROVE  req[s].state = "live" /\ doc[s] # NULL /\ answers[s] = << >>
BY DEF RequestInvariant, RequestCounts

(* A method that keeps a request refers to it.                                *)
LEMMA KeptOutstanding ==
    ASSUME TypeOK, NEW s, NEW i, <<s, i>> \in held
    PROVE  s \in Subs /\ i \in Outstanding(s)
<1>1. s \in Subs /\ i \in Indices
  BY DEF TypeOK
<1>2. i \in OutstandingIn(queue, held, s)
  BY <1>1 DEF OutstandingIn
<1> QED BY <1>1, <1>2, OutstandingNow DEF OutstandingSound

LEMMA CountsSingle ==
    ASSUME TypeOK, TypeOK', RequestInvariant, NEW e \in queue, SingleResult(e)
    PROVE  RequestInvariant'
<1>1. e.req /\ e.sub \in Subs /\ e.call \in Outstanding(e.sub)
  BY OnlyReference, Zenon DEF SingleResult, RequestInvariant, OneReferencePerCall
<1>2. /\ OneReferencePerCall'
      /\ \A s \in Subs : Outstanding(s)' \subseteq Outstanding(s)
      /\ e.call \notin Outstanding(e.sub)'
  BY <1>1, DroppedReference DEF SingleResult
<1>3. PICK res : UserCb(e.sub, res)
  BY DEF SingleResult
<1>4. /\ req' = [req EXCEPT ![e.sub].method_id = e.method_id, ![e.sub].state = "freed"]
      /\ req[e.sub].return_cb = "single" /\ UNCHANGED doc
  BY DEF SingleResult
<1>5. \A s \in Subs \ {e.sub} : RequestCounts(s)'
  <2> TAKE s \in Subs \ {e.sub}
  <2>1. req'[s] = req[s] /\ answers'[s] = answers[s]
    BY <1>1, <1>3, <1>4 DEF TypeOK, UserCb
  <2> QED BY <1>2, <1>4, <2>1, CountsFrame DEF RequestInvariant
<1>6. RequestCounts(e.sub)'
  <2>1. doc[e.sub] # NULL /\ answers[e.sub] = << >>
    BY <1>1, ReferredTo
  <2>2. Outstanding(e.sub)' = {}
    BY <1>1, <1>2, <1>4 DEF RequestInvariant, RequestCounts
  <2>3. req'[e.sub].state = "freed"
    BY <1>1, <1>4 DEF TypeOK, Request
  <2>4. answers'[e.sub] = Append(<< >>, res)
    BY <1>1, <1>3, <2>1 DEF UserCb, TypeOK
  <2>5. Len(answers'[e.sub]) = 1
    BY <2>4
  <2> QED BY <1>4, <2>1, <2>2, <2>3, <2>5 DEF RequestCounts
<1> QED BY <1>1, <1>2, <1>5, <1>6 DEF RequestInvariant

LEMMA CountsBatched ==
    ASSUME TypeOK, TypeOK', RequestInvariant, NEW e \in queue, BatchedResult(e)
    PROVE  RequestInvariant'
<1> DEFINE r == req[e.sub]
           last == r.result_count + 1 = r.waiting_result_count
<1>1. e.req /\ e.sub \in Subs /\ e.call \in Outstanding(e.sub)
  BY OnlyReference, Zenon DEF BatchedResult, RequestInvariant, OneReferencePerCall
<1>2. /\ OneReferencePerCall'
      /\ \A s \in Subs : Outstanding(s)' \subseteq Outstanding(s)
      /\ e.call \notin Outstanding(e.sub)'
  BY <1>1, DroppedReference DEF BatchedResult
<1>3. PICK batch :
        /\ req' = [req EXCEPT ![e.sub] =
              [r EXCEPT !.method_id = e.method_id, !.result_batch = batch,
                        !.result_count = @ + 1,
                        !.state = IF last THEN "freed" ELSE @]]
        /\ IF last THEN UserCb(e.sub, batch) ELSE UNCHANGED <<answers, idrefs>>
  BY DEF BatchedResult
<1>4. r.return_cb = "batched" /\ UNCHANGED doc
  BY DEF BatchedResult
<1>5. \A s \in Subs \ {e.sub} : RequestCounts(s)'
  <2> TAKE s \in Subs \ {e.sub}
  <2>1. req'[s] = req[s] /\ answers'[s] = answers[s]
    BY <1>1, <1>3 DEF TypeOK, UserCb
  <2> QED BY <1>2, <1>4, <2>1, CountsFrame DEF RequestInvariant
<1>6. RequestCounts(e.sub)'
  <2>1. r.state = "live" /\ doc[e.sub] # NULL /\ answers[e.sub] = << >>
    BY <1>1, ReferredTo
  <2>2. /\ req'[e.sub].return_cb = "batched"
        /\ req'[e.sub].result_count = r.result_count + 1
        /\ req'[e.sub].waiting_result_count = r.waiting_result_count
        /\ req'[e.sub].state = IF last THEN "freed" ELSE "live"
    BY <1>1, <1>3, <1>4, <2>1, SMTT(30) DEF TypeOK, Request
  <2>3. /\ r.result_count \in Nat /\ r.waiting_result_count \in Nat
        /\ r.result_count + Cardinality(Outstanding(e.sub)) <= r.waiting_result_count
    BY <1>1, <1>4, <2>1 DEF RequestInvariant, RequestCounts, TypeOK, Request
  <2>4. Cardinality(Outstanding(e.sub)') <= Cardinality(Outstanding(e.sub)) - 1
    <3> DEFINE O == Outstanding(e.sub)
               P == Outstanding(e.sub)'
    <3>1. IsFiniteSet(O) /\ e.call \in O /\ P \subseteq O \ {e.call}
      BY <1>1, <1>2, OutstandingNow DEF OutstandingSound
    <3> HIDE DEF O, P
    <3>2. IsFiniteSet(O \ {e.call}) /\ Cardinality(O \ {e.call}) = Cardinality(O) - 1
      BY <3>1, FS_RemoveElement
    <3>3. Cardinality(P) <= Cardinality(O \ {e.call})
      BY <3>1, <3>2, FS_Subset
    <3> QED BY <3>2, <3>3 DEF O, P
  <2>5. /\ Cardinality(Outstanding(e.sub)) \in Nat /\ Cardinality(Outstanding(e.sub)') \in Nat
        /\ IsFiniteSet(Outstanding(e.sub)')
    BY <1>1, OutstandingNow, OutstandingNext DEF OutstandingSound
  <2> HIDE DEF r
  <2>6. req'[e.sub].state = "live" =>
          req'[e.sub].result_count + Cardinality(Outstanding(e.sub)') <= req'[e.sub].waiting_result_count
    BY <2>2, <2>3, <2>4, <2>5
  <2>7. CASE last
    <3>1. Cardinality(Outstanding(e.sub)') = 0
      BY <2>3, <2>4, <2>5, <2>7
    <3>2. Outstanding(e.sub)' = {}
      BY <2>5, <3>1, FS_EmptySet
    <3>3. answers'[e.sub] = Append(<< >>, batch)
      BY <1>1, <1>3, <2>1, <2>7 DEF UserCb, TypeOK
    <3>4. Len(answers'[e.sub]) = 1
      BY <3>3
    <3> QED BY <1>4, <2>1, <2>2, <2>7, <3>2, <3>4 DEF RequestCounts
  <2>8. CASE ~last
    <3>1. answers'[e.sub] = << >>
      BY <1>3, <2>1, <2>8
    <3> QED BY <1>4, <2>1, <2>2, <2>6, <2>8, <3>1 DEF RequestCounts
  <2> QED BY <2>7, <2>8
<1> QED BY <1>1, <1>2, <1>5, <1>6 DEF RequestInvariant
-----------------------------------------------------------------------------
(* Processing a document makes the references of its calls.                   *)

(* A submission that was not made has no references.                          *)
LEMMA NothingBefore ==
    ASSUME TypeOK, RequestInvariant, NEW s \in Subs, doc[s] = NULL
    PROVE  /\ Outstanding(s) = {} /\ answers[s] = << >> /\ req[s].state = "none"
           /\ \A e \in queue : e.sub = s => ~e.req
           /\ \A i : <<s, i>> \notin held
<1>1. Outstanding(s) = {} /\ answers[s] = << >> /\ req[s].state = "none"
  BY DEF RequestInvariant, RequestCounts
<1>2. \A e \in queue : e.sub = s => ~e.req
  BY <1>1, Zenon DEF Outstanding, Waiting
<1>3. ASSUME NEW i, <<s, i>> \in held
      PROVE  FALSE
  <2>1. i \in Indices
    BY <1>3 DEF TypeOK
  <2>2. i \in OutstandingIn(queue, held, s)
    BY <1>3, <2>1 DEF OutstandingIn
  <2> QED BY <1>1, <2>2, OutstandingNow DEF OutstandingSound
<1> QED BY <1>1, <1>2, <1>3, Zenon

LEMMA CountsDispatched ==
    ASSUME TypeOK, TypeOK', RequestInvariant, NEW s \in Subs, NEW d \in Documents,
           Submit(s, d), DispatchCalls(s, d), UNCHANGED answers,
           NEW cb \in {"single", "batched"}, NEW n \in Nat,
           req' = [req EXCEPT ![s] = Processed(cb, d, n)],
           cb = "single" => Expected(d) \subseteq {1},
           cb = "batched" => n = Cardinality(Expected(d))
    PROVE  RequestInvariant'
<1>1. doc[s] = NULL /\ doc' = [doc EXCEPT ![s] = d] /\ held' = held /\ d # NULL
  BY CallIndices DEF Submit
<1>2. /\ Outstanding(s) = {} /\ answers[s] = << >>
      /\ \A e \in queue : e.sub = s => ~e.req
      /\ \A i : <<s, i>> \notin held
  BY <1>1, NothingBefore, Zenon
<1>3. /\ \A e \in queue' \ queue : e.sub = s /\ (e.req => e.call \in Expected(d))
      /\ \A e \in queue' \ queue : e.run = "return" => e.req
      /\ \A e, f \in queue' \ queue : e.call = f.call => e = f
  BY DispatchCallsType, Zenon
<1>4. OneReferencePerCall'
  <2>1. ASSUME NEW e \in queue', NEW f \in queue', e.req, f.req, e.sub = f.sub, e.call = f.call
        PROVE  e = f
    <3>1. CASE e \in queue /\ f \in queue
      BY <2>1, <3>1, Zenon DEF RequestInvariant, OneReferencePerCall
    <3>2. CASE e \notin queue /\ f \notin queue
      <4>1. e \in queue' \ queue /\ f \in queue' \ queue
        BY <3>2
      <4> QED BY <1>3, <2>1, <4>1, Zenon
    <3>3. CASE e \in queue /\ f \notin queue
      <4>1. f.sub = s
        BY <1>3, <3>3
      <4> QED BY <1>2, <2>1, <3>3, <4>1, Zenon
    <3>4. CASE e \notin queue /\ f \in queue
      <4>1. e.sub = s
        BY <1>3, <3>4
      <4> QED BY <1>2, <2>1, <3>4, <4>1, Zenon
    <3> QED BY <3>1, <3>2, <3>3, <3>4
  <2>2. ASSUME NEW e \in queue', e.req
        PROVE  <<e.sub, e.call>> \notin held'
    <3>1. CASE e \in queue
      BY <1>1, <2>2, <3>1, Zenon DEF RequestInvariant, OneReferencePerCall
    <3>2. CASE e \notin queue
      <4>1. e.sub = s
        BY <1>3, <3>2
      <4> QED BY <1>1, <1>2, <4>1
    <3> QED BY <3>1, <3>2
  <2>3. ASSUME NEW e \in queue', e.run = "return"
        PROVE  e.req
    <3>1. CASE e \in queue
      BY <2>3, <3>1, Zenon DEF RequestInvariant, OneReferencePerCall
    <3>2. CASE e \notin queue
      <4>1. e \in queue' \ queue
        BY <3>2
      <4> QED BY <1>3, <2>3, <4>1, Zenon
    <3> QED BY <3>1, <3>2, Zenon
  <2> QED BY <2>1, <2>2, <2>3, Zenon DEF OneReferencePerCall
<1>5. \A t \in Subs \ {s} : RequestCounts(t)'
  <2> TAKE t \in Subs \ {s}
  <2>1. OutstandingIn(queue', held', t) \subseteq OutstandingIn(queue, held, t)
    <3> SUFFICES ASSUME NEW c \in OutstandingIn(queue', held', t)
                 PROVE  c \in OutstandingIn(queue, held, t)
      OBVIOUS
    <3>1. c \in Indices /\ ((\E e \in queue' : e.req /\ e.sub = t /\ e.call = c) \/ <<t, c>> \in held)
      BY <1>1, Zenon DEF OutstandingIn
    <3>2. ASSUME NEW e \in queue', e.req, e.sub = t, e.call = c
          PROVE  c \in OutstandingIn(queue, held, t)
      <4>1. e \in queue
        BY <1>3, <3>2
      <4> QED BY <3>1, <3>2, <4>1, Zenon DEF OutstandingIn
    <3> QED BY <3>1, <3>2, Zenon DEF OutstandingIn
  <2>2. Outstanding(t)' \subseteq Outstanding(t)
    BY <2>1, OutstandingNow, OutstandingNext DEF OutstandingSound
  <2>3. req'[t] = req[t] /\ doc'[t] = doc[t] /\ answers'[t] = answers[t]
    BY <1>1 DEF TypeOK
  <2> QED BY <2>2, <2>3, CountsFrame DEF RequestInvariant
<1>6. RequestCounts(s)'
  <2>1. Outstanding(s)' \subseteq Expected(d)
    <3> SUFFICES ASSUME NEW c \in OutstandingIn(queue', held', s)
                 PROVE  c \in Expected(d)
      BY OutstandingNext DEF OutstandingSound
    <3>1. PICK e \in queue' : e.req /\ e.sub = s /\ e.call = c
      BY <1>1, <1>2, Zenon DEF OutstandingIn
    <3>2. e \notin queue
      BY <1>2, <3>1, Zenon
    <3>3. e \in queue' \ queue
      BY <3>2
    <3> QED BY <1>3, <3>1, <3>3, Zenon
  <2>2. /\ req'[s].return_cb = cb /\ req'[s].waiting_result_count = n
        /\ req'[s].result_count = 0
        /\ req'[s].state = IF Expected(d) = {} THEN "freed" ELSE "live"
    <3>1. req'[s] = Processed(cb, d, n)
      BY DEF TypeOK
    <3> QED BY <3>1, ProcessedType
  <2>3. Cardinality(Outstanding(s)') <= Cardinality(Expected(d))
    BY <2>1, ExpectedCount, FS_Subset
  <2>4. Cardinality(Outstanding(s)') \in Nat /\ Cardinality(Expected(d)) \in Nat
    BY OutstandingNext, ExpectedCount DEF OutstandingSound
  <2>5. doc'[s] # NULL /\ answers'[s] = << >>
    BY <1>1, <1>2 DEF TypeOK
  <2> QED BY <2>1, <2>2, <2>3, <2>4, <2>5 DEF RequestCounts
<1> QED BY <1>4, <1>5, <1>6 DEF RequestInvariant

LEMMA CountsProcess ==
    ASSUME TypeOK, TypeOK', RequestInvariant, NEW s \in Subs, NEW d \in Documents, Process(s, d)
    PROVE  RequestInvariant'
<1>1. CASE ProcessSingleCall(s, d)
  <2>1. Calls(d) = <<d>>
    BY <1>1 DEF ProcessSingleCall, Calls
  <2>2. Expected(d) \subseteq {1}
    BY <2>1, CallIndices
  <2> QED BY <1>1, <2>2, CountsDispatched DEF ProcessSingleCall
<1>2. CASE ProcessBatchedCall(s, d)
  <2>1. Cardinality(Expected(d)) \in Nat
    BY ExpectedCount
  <2> QED BY <1>2, <2>1, CountsDispatched DEF ProcessBatchedCall
<1>3. CASE ProcessInvalid(s, d) \/ ProcessNoMemory(s, d)
  <2>1. /\ doc[s] = NULL /\ doc' = [doc EXCEPT ![s] = d] /\ held' = held
        /\ UNCHANGED <<req, queue>> /\ d # NULL
    BY <1>3, CallIndices DEF ProcessInvalid, ProcessNoMemory, Submit, ProcessErrorFinal
  <2>2. PICK res : UserCb(s, res)
    BY <1>3 DEF ProcessInvalid, ProcessNoMemory, ProcessErrorFinal
  <2>3. Outstanding(s) = {} /\ answers[s] = << >> /\ req[s].state = "none"
    BY <2>1, NothingBefore, Zenon
  <2>4. OneReferencePerCall'
    BY <2>1, Zenon DEF RequestInvariant, OneReferencePerCall
  <2>5. \A t \in Subs : Outstanding(t)' = Outstanding(t)
    BY <2>1 DEF Outstanding, Waiting, Kept
  <2>6. \A t \in Subs \ {s} : RequestCounts(t)'
    <3> TAKE t \in Subs \ {s}
    <3>1. doc'[t] = doc[t] /\ answers'[t] = answers[t]
      BY <2>1, <2>2 DEF TypeOK, UserCb
    <3> QED BY <2>1, <2>5, <3>1, CountsFrame DEF RequestInvariant
  <2>7. RequestCounts(s)'
    <3>1. answers'[s] = Append(<< >>, res)
      BY <2>2, <2>3 DEF TypeOK, UserCb
    <3>2. Len(answers'[s]) = 1 /\ doc'[s] # NULL /\ req'[s].state = "none"
      BY <2>1, <2>3, <3>1 DEF TypeOK
    <3>3. Outstanding(s)' = {}
      BY <2>3, <2>5
    <3> QED BY <3>2, <3>3 DEF RequestCounts
  <2> QED BY <2>4, <2>6, <2>7 DEF RequestInvariant
<1> QED BY <1>1, <1>2, <1>3 DEF Process
-----------------------------------------------------------------------------
(* The inductive invariant.                                                   *)

LEMMA CountsInit == Init => RequestInvariant
<1> SUFFICES ASSUME Init PROVE RequestInvariant
  OBVIOUS
<1>1. OneReferencePerCall
  BY DEF Init, OneReferencePerCall
<1>2. \A s \in Subs : Outstanding(s) = {}
  BY DEF Init, Outstanding, Waiting, Kept
<1>3. \A s \in Subs : req[s].state = "none" /\ answers[s] = << >>
  BY DEF Init, NoRequest, NewRequest
<1>4. \A s \in Subs : RequestCounts(s)
  BY <1>2, <1>3 DEF RequestCounts
<1> QED BY <1>1, <1>4 DEF RequestInvariant

LEMMA CountsStep == TypeOK /\ TypeOK' /\ RequestInvariant /\ [Next]_vars => RequestInvariant'
<1> SUFFICES ASSUME TypeOK, TypeOK', RequestInvariant, [Next]_vars PROVE RequestInvariant'
  OBVIOUS
<1>1. ASSUME NEW n \in MethodNames, NEW h \in Handlers, AddMethod(n, h) PROVE RequestInvariant'
  BY <1>1, QuietStep DEF AddMethod
<1>2. ASSUME NEW n \in MethodNames, DelMethod(n) PROVE RequestInvariant'
  BY <1>2, QuietStep DEF DelMethod
<1>3. CASE JsonRpcFree
  BY <1>3, QuietStep DEF JsonRpcFree
<1>4. ASSUME NEW e \in queue, RunNotification(e) PROVE RequestInvariant'
  BY <1>4, QuietStep DEF RunNotification
<1>5. CASE UNCHANGED vars
  BY <1>5, QuietStep DEF vars
<1>6. ASSUME NEW e \in queue, RunDeferred(e) PROVE RequestInvariant'
  BY <1>4, <1>6, CountsKeeper, CountsMethod, CountsSingle, CountsBatched DEF RunDeferred
<1> QED BY <1>1, <1>2, <1>3, <1>5, <1>6, CountsProcess, CountsReturnLater DEF Next

(* A batch misses at least as many results as calls refer to its request.     *)
THEOREM CountsCorrect == Spec => []RequestInvariant
<1>1. Init => TypeOK /\ RequestInvariant
  BY TypeInit, CountsInit
<1>2. TypeOK /\ RequestInvariant /\ [Next]_vars => TypeOK' /\ RequestInvariant'
  BY TypeStep, CountsStep
<1> QED BY <1>1, <1>2, PTL DEF Spec

LEMMA WaitingOutstanding ==
    ASSUME NEW s, Outstanding(s) = {}
    PROVE  Waiting(s) = {} /\ Kept(s) = {}
BY DEF Outstanding

(* No deferred call and no method has a pointer to a freed request.           *)
THEOREM ReferencesSafe == Spec => []ReferencedRequestsLive
<1>1. RequestInvariant => ReferencedRequestsLive
  BY WaitingOutstanding DEF RequestInvariant, RequestCounts, ReferencedRequestsLive, Outstanding
<1> QED BY <1>1, CountsCorrect, PTL

(* user_cb is called at most once, when nothing refers to the request.        *)
THEOREM AnsweredOnce == Spec => []AnsweredOnceAtTheEnd
<1>1. TypeOK /\ RequestInvariant => AnsweredOnceAtTheEnd
  BY WaitingOutstanding DEF RequestInvariant, RequestCounts, AnsweredOnceAtTheEnd
<1> QED BY <1>1, TypeCorrect, CountsCorrect, PTL
-----------------------------------------------------------------------------
(* The server half implements RpcService.                                     *)

StatusNow == [s \in Subs |-> ServiceStatus(s)]
RemainingNow == [s \in Subs |-> ServiceRemaining(s)]

(* What the service shows of a submission whose request, document and answers *)
(* do not change.                                                             *)
LEMMA ServiceFrame ==
    ASSUME NEW s \in Subs, doc'[s] = doc[s], answers'[s] = answers[s],
           req'[s].state = req[s].state, req'[s].return_cb = req[s].return_cb,
           req'[s].result_count = req[s].result_count,
           req'[s].waiting_result_count = req[s].waiting_result_count
    PROVE  ServiceStatus(s)' = ServiceStatus(s) /\ ServiceRemaining(s)' = ServiceRemaining(s)
BY DEF ServiceStatus, ServiceRemaining

(* A step that concerns the submission s only.                                *)
LEMMA ServiceAt ==
    ASSUME NEW s \in Subs, NEW v, NEW n,
           ServiceStatus(s)' = v, ServiceRemaining(s)' = n,
           \A t \in Subs \ {s} : /\ ServiceStatus(t)' = ServiceStatus(t)
                                /\ ServiceRemaining(t)' = ServiceRemaining(t)
    PROVE  /\ StatusNow' = [StatusNow EXCEPT ![s] = v] /\ RemainingNow' = [RemainingNow EXCEPT ![s] = n]
           /\ StatusNow[s] = ServiceStatus(s) /\ RemainingNow[s] = ServiceRemaining(s)
BY DEF StatusNow, RemainingNow

LEMMA ServiceStutter ==
    ASSUME SameCounters
    PROVE  UNCHANGED <<StatusNow, RemainingNow>>
<1>1. \A s \in Subs : ServiceStatus(s)' = ServiceStatus(s) /\ ServiceRemaining(s)' = ServiceRemaining(s)
  BY ServiceFrame DEF SameCounters
<1> QED BY <1>1 DEF StatusNow, RemainingNow

LEMMA ServiceInit == Init => Service!Init
<1> SUFFICES ASSUME Init PROVE Service!Init
  OBVIOUS
<1>1. \A s \in Subs : req[s].state = "none" /\ answers[s] = << >> /\ doc[s] = NULL
  BY DEF Init, NoRequest, NewRequest
<1>2. \A s \in Subs : ServiceStatus(s) = "new" /\ ServiceRemaining(s) = 0
  BY <1>1 DEF ServiceStatus, ServiceRemaining
<1> QED BY <1>2 DEF Service!Init

LEMMA FinishOf ==
    ASSUME NEW s \in Subs, StatusNow[s] = "open",
           RemainingNow' = [RemainingNow EXCEPT ![s] = RemainingNow[s] - 1],
           StatusNow' = [StatusNow EXCEPT ![s] = IF RemainingNow[s] = 1 THEN "answered" ELSE "open"]
    PROVE  Service!Finish(s)
BY DEF Service!Finish, StatusNow, RemainingNow

(* A result callback is the Finish of its submission.                         *)
LEMMA ServiceFinish ==
    ASSUME TypeOK, RequestInvariant, NEW e \in queue, SingleResult(e) \/ BatchedResult(e)
    PROVE  Service!Finish(e.sub) /\ e.sub \in Subs
<1> DEFINE s == e.sub
           r == req[s]
<1>1. e.req /\ s \in Subs /\ e.call \in Outstanding(s)
  BY OnlyReference, Zenon DEF SingleResult, BatchedResult, RequestInvariant, OneReferencePerCall
<1>2. r.state = "live" /\ doc[s] # NULL /\ answers[s] = << >>
  BY <1>1, ReferredTo
<1>3. ServiceStatus(s) = "open"
  BY <1>2 DEF ServiceStatus
<1>4. \A t \in Subs \ {s} : req'[t] = req[t] /\ answers'[t] = answers[t] /\ doc'[t] = doc[t]
  BY <1>1 DEF TypeOK, SingleResult, BatchedResult, UserCb
<1>5. \A t \in Subs \ {s} : ServiceStatus(t)' = ServiceStatus(t) /\ ServiceRemaining(t)' = ServiceRemaining(t)
  BY <1>4, ServiceFrame
<1>6. CASE SingleResult(e)
  <2>1. PICK res : UserCb(s, res)
    BY <1>6 DEF SingleResult
  <2>2. answers'[s] = Append(<< >>, res) /\ req'[s].state = "freed"
    BY <1>1, <1>2, <1>6, <2>1 DEF UserCb, SingleResult, TypeOK, Request
  <2>3. answers'[s] # << >>
    BY <2>2
  <2>4. ServiceStatus(s)' = "answered" /\ ServiceRemaining(s)' = 0
    BY <2>2, <2>3 DEF ServiceStatus, ServiceRemaining
  <2>5. ServiceRemaining(s) = 1
    BY <1>2, <1>6 DEF ServiceRemaining, SingleResult
  <2>6. /\ StatusNow' = [StatusNow EXCEPT ![s] = "answered"] /\ RemainingNow' = [RemainingNow EXCEPT ![s] = 0]
        /\ StatusNow[s] = "open" /\ RemainingNow[s] = 1
    BY <1>1, <1>3, <1>5, <2>4, <2>5, ServiceAt
  <2>7. RemainingNow' = [RemainingNow EXCEPT ![s] = RemainingNow[s] - 1]
    BY <2>6
  <2>8. s \in Subs
    BY <1>1
  <2> HIDE DEF s
  <2> QED BY <2>6, <2>7, <2>8, FinishOf DEF s
<1>7. CASE BatchedResult(e)
  <2> DEFINE last == r.result_count + 1 = r.waiting_result_count
  <2>1. PICK batch :
          /\ req' = [req EXCEPT ![s] =
                [r EXCEPT !.method_id = e.method_id, !.result_batch = batch,
                          !.result_count = @ + 1,
                          !.state = IF last THEN "freed" ELSE @]]
          /\ IF last THEN UserCb(s, batch) ELSE UNCHANGED <<answers, idrefs>>
    BY <1>7 DEF BatchedResult
  <2>2. r.return_cb = "batched" /\ r.result_count \in Nat /\ r.waiting_result_count \in Nat
    BY <1>1, <1>7 DEF BatchedResult, TypeOK, Request
  <2>3. /\ req'[s].return_cb = "batched" /\ req'[s].result_count = r.result_count + 1
        /\ req'[s].waiting_result_count = r.waiting_result_count
        /\ req'[s].state = IF last THEN "freed" ELSE "live"
    BY <1>1, <1>2, <2>1, <2>2 DEF TypeOK, Request
  <2>4. ServiceRemaining(s) = r.waiting_result_count - r.result_count
    BY <1>2, <2>2 DEF ServiceRemaining
  <2>5. CASE last
    <3>1. answers'[s] = Append(<< >>, batch)
      BY <1>1, <1>2, <2>1, <2>5 DEF UserCb, TypeOK
    <3>2. answers'[s] # << >>
      BY <3>1
    <3>3. ServiceStatus(s)' = "answered" /\ ServiceRemaining(s)' = 0
      BY <2>3, <2>5, <3>2 DEF ServiceStatus, ServiceRemaining
    <3>4. ServiceRemaining(s) = 1
      BY <2>2, <2>4, <2>5
    <3>5. /\ StatusNow' = [StatusNow EXCEPT ![s] = "answered"] /\ RemainingNow' = [RemainingNow EXCEPT ![s] = 0]
          /\ StatusNow[s] = "open" /\ RemainingNow[s] = 1
      BY <1>1, <1>3, <1>5, <3>3, <3>4, ServiceAt
    <3>6. RemainingNow' = [RemainingNow EXCEPT ![s] = RemainingNow[s] - 1]
      BY <3>5
    <3>7. s \in Subs
      BY <1>1
    <3> HIDE DEF s
    <3> QED BY <3>5, <3>6, <3>7, FinishOf DEF s
  <2>6. CASE ~last
    <3>1. ServiceStatus(s)' = "open"
      BY <2>3, <2>6 DEF ServiceStatus
    <3>2. ServiceRemaining(s)' = r.waiting_result_count - (r.result_count + 1)
      BY <2>3, <2>6 DEF ServiceRemaining
    <3>3. ServiceRemaining(s)' = ServiceRemaining(s) - 1 /\ ServiceRemaining(s) # 1
      BY <2>2, <2>4, <2>6, <3>2
    <3>4. /\ StatusNow' = [StatusNow EXCEPT ![s] = "open"]
          /\ RemainingNow' = [RemainingNow EXCEPT ![s] = ServiceRemaining(s) - 1]
          /\ StatusNow[s] = "open" /\ RemainingNow[s] = ServiceRemaining(s)
      BY <1>1, <1>3, <1>5, <3>1, <3>3, ServiceAt
    <3> QED BY <1>1, <3>3, <3>4, FinishOf
  <2> QED BY <2>5, <2>6
<1> QED BY <1>1, <1>6, <1>7

LEMMA AcceptOf ==
    ASSUME NEW s \in Subs, NEW d \in Documents, StatusNow[s] = "new",
           RemainingNow' = [RemainingNow EXCEPT ![s] = Cardinality(Expected(d))],
           StatusNow' = [StatusNow EXCEPT ![s] = IF Cardinality(Expected(d)) = 0 THEN "silent" ELSE "open"]
    PROVE  Service!Accept(s)
BY DEF Service!Accept, StatusNow, RemainingNow

LEMMA RefuseOf ==
    ASSUME NEW s \in Subs, StatusNow[s] = "new", UNCHANGED RemainingNow,
           StatusNow' = [StatusNow EXCEPT ![s] = "answered"]
    PROVE  Service!Refuse(s)
BY DEF Service!Refuse, StatusNow, RemainingNow

(* json_rpc_process_request accepts or refuses its document.                  *)
LEMMA ServiceProcess ==
    ASSUME TypeOK, RequestInvariant, NEW s \in Subs, NEW d \in Documents, Process(s, d)
    PROVE  Service!Accept(s) \/ Service!Refuse(s)
<1>1. doc[s] = NULL /\ doc' = [doc EXCEPT ![s] = d] /\ d # NULL
  BY CallIndices DEF Process, ProcessSingleCall, ProcessBatchedCall, ProcessInvalid,
                     ProcessNoMemory, Submit
<1>2. answers[s] = << >> /\ req[s].state = "none"
  BY <1>1, NothingBefore, Zenon
<1>3. ServiceStatus(s) = "new" /\ ServiceRemaining(s) = 0 /\ doc'[s] # NULL
  BY <1>1, <1>2 DEF ServiceStatus, ServiceRemaining, TypeOK
<1>4. \A t \in Subs \ {s} : req'[t] = req[t] /\ answers'[t] = answers[t] /\ doc'[t] = doc[t]
  BY <1>1 DEF TypeOK, Process, ProcessSingleCall, ProcessBatchedCall, ProcessInvalid,
              ProcessNoMemory, ProcessErrorFinal, UserCb
<1>5. \A t \in Subs \ {s} : ServiceStatus(t)' = ServiceStatus(t) /\ ServiceRemaining(t)' = ServiceRemaining(t)
  BY <1>4, ServiceFrame
<1>6. ASSUME NEW cb \in {"single", "batched"}, NEW n \in Nat, UNCHANGED answers,
             req' = [req EXCEPT ![s] = Processed(cb, d, n)],
             cb = "single" => Expected(d) \subseteq {1},
             cb = "batched" => n = Cardinality(Expected(d))
      PROVE  Service!Accept(s)
  <2>1. req'[s] = Processed(cb, d, n)
    BY <1>6 DEF TypeOK
  <2>2. /\ req'[s].return_cb = cb /\ req'[s].waiting_result_count = n
        /\ req'[s].result_count = 0
        /\ req'[s].state = IF Expected(d) = {} THEN "freed" ELSE "live"
    BY <2>1, ProcessedType
  <2>3. Cardinality(Expected(d)) = 0 <=> Expected(d) = {}
    BY ExpectedCount, FS_EmptySet
  <2>4. cb = "single" /\ Expected(d) # {} => Cardinality(Expected(d)) = 1
    <3>1. cb = "single" /\ Expected(d) # {} => Expected(d) = {1}
      BY <1>6
    <3> QED BY <3>1, FS_Singleton
  <2>5. ServiceStatus(s)' = IF Cardinality(Expected(d)) = 0 THEN "silent" ELSE "open"
    BY <1>2, <1>3, <1>6, <2>2, <2>3 DEF ServiceStatus
  <2>6. ServiceRemaining(s)' = Cardinality(Expected(d))
    BY <1>6, <2>2, <2>3, <2>4, ExpectedCount DEF ServiceRemaining
  <2>7. /\ StatusNow' = [StatusNow EXCEPT ![s] = IF Cardinality(Expected(d)) = 0 THEN "silent" ELSE "open"]
        /\ RemainingNow' = [RemainingNow EXCEPT ![s] = Cardinality(Expected(d))]
        /\ StatusNow[s] = "new"
    BY <1>3, <1>5, <2>5, <2>6, ServiceAt
  <2> QED BY <2>7, AcceptOf
<1>7. CASE ProcessSingleCall(s, d)
  <2>1. Calls(d) = <<d>>
    BY <1>7 DEF ProcessSingleCall, Calls
  <2>2. Expected(d) \subseteq {1}
    BY <2>1, CallIndices
  <2> QED BY <1>6, <1>7, <2>2 DEF ProcessSingleCall
<1>8. CASE ProcessBatchedCall(s, d)
  <2>1. Cardinality(Expected(d)) \in Nat
    BY ExpectedCount
  <2> QED BY <1>6, <1>8, <2>1 DEF ProcessBatchedCall
<1>9. CASE ProcessInvalid(s, d) \/ ProcessNoMemory(s, d)
  <2>1. PICK res : UserCb(s, res) /\ UNCHANGED req
    BY <1>9 DEF ProcessInvalid, ProcessNoMemory, ProcessErrorFinal
  <2>2. answers'[s] = Append(<< >>, res)
    BY <1>2, <2>1 DEF TypeOK, UserCb
  <2>3. answers'[s] # << >>
    BY <2>2
  <2>4. ServiceStatus(s)' = "answered" /\ ServiceRemaining(s)' = 0
    BY <1>2, <2>1, <2>3 DEF ServiceStatus, ServiceRemaining
  <2>5. /\ StatusNow' = [StatusNow EXCEPT ![s] = "answered"] /\ RemainingNow' = [RemainingNow EXCEPT ![s] = 0]
        /\ StatusNow[s] = "new" /\ RemainingNow[s] = 0
    BY <1>3, <1>5, <2>4, ServiceAt
  <2>6. UNCHANGED RemainingNow
    BY <2>5 DEF RemainingNow
  <2> QED BY <2>5, <2>6, RefuseOf
<1> QED BY <1>7, <1>8, <1>9 DEF Process

LEMMA ServiceStep ==
    TypeOK /\ RequestInvariant /\ [Next]_vars => [Service!Next]_(Service!vars)
<1> SUFFICES ASSUME TypeOK, RequestInvariant, [Next]_vars
             PROVE  [Service!Next]_(Service!vars)
  OBVIOUS
<1>1. ASSUME SameCounters PROVE UNCHANGED Service!vars
  BY <1>1, ServiceStutter DEF Service!vars, StatusNow, RemainingNow
<1>2. ASSUME NEW s \in Subs, NEW i \in Indices, ReturnLater(s, i) PROVE SameCounters
  BY <1>2 DEF ReturnLater, SameCounters
<1>3. CASE \/ \E n \in MethodNames : DelMethod(n) \/ \E h \in Handlers : AddMethod(n, h)
           \/ JsonRpcFree \/ UNCHANGED vars
  <2>1. SameCounters
    BY <1>3 DEF DelMethod, AddMethod, JsonRpcFree, vars, SameCounters
  <2> QED BY <1>1, <2>1
<1>4. ASSUME NEW e \in queue, RunNotification(e) \/ RunKeeper(e) \/ RunMethod(e)
      PROVE  SameCounters
  <2>1. e.sub \in Subs
    BY DEF TypeOK, Deferred
  <2>2. CASE RunNotification(e)
    BY <2>2 DEF RunNotification, SameCounters
  <2>3. CASE RunKeeper(e)
    BY <2>1, <2>3, CountersOfMethodId DEF RunKeeper
  <2>4. CASE RunMethod(e)
    BY <2>1, <2>4, CountersOfMethodId DEF RunMethod
  <2> QED BY <1>4, <2>2, <2>3, <2>4
<1>5. ASSUME NEW e \in queue, SingleResult(e) \/ BatchedResult(e) PROVE Service!Next
  BY <1>5, ServiceFinish DEF Service!Next
<1>6. ASSUME NEW s \in Subs, NEW d \in Documents, Process(s, d) PROVE Service!Next
  BY <1>6, ServiceProcess DEF Service!Next
<1> QED BY <1>1, <1>2, <1>3, <1>4, <1>5, <1>6 DEF Next, RunDeferred

(* The server half implements RpcService, whatever is submitted, registered   *)
(* and freed, and whatever allocation fails.                                  *)
THEOREM ServiceImplemented == Spec => ServiceSpec
<1>1. TypeOK /\ RequestInvariant /\ [Next]_vars => [Service!Next]_(Service!vars)
  BY ServiceStep
<1> QED BY <1>1, ServiceInit, TypeCorrect, CountsCorrect, PTL DEF Spec, ServiceSpec, Service!Spec
-----------------------------------------------------------------------------
(* Documents.                                                                 *)

(* Requests are calls a result is expected of, and kept calls are requests.   *)
LEMMA RequestsExpected ==
    ASSUME NEW d \in Documents
    PROVE  /\ KeptCalls(d) \subseteq RequestCalls(d)
           /\ RequestCalls(d) \subseteq Expected(d)
           /\ Expected(d) \subseteq DOMAIN Calls(d)
           /\ DOMAIN Calls(d) = 1 .. Len(Calls(d)) /\ Len(Calls(d)) \in 0 .. MaxBatch
           /\ \A j \in Expected(d) : j \in RequestCalls(d) <=> EvalCallType(Calls(d)[j]) = "request"
           /\ \A j \in DOMAIN Calls(d) : EvalCallType(Calls(d)[j]) = "request" => j \in RequestCalls(d)
BY CallIndices DEF KeptCalls, RequestCalls, Expected

(* Where a call may be kept, its id is in the request from then on.           *)
LEMMA MethodIdKept ==
    ASSUME KeeperAlone, NEW d \in Documents, NEW i \in KeptCalls(d),
           NEW j \in 1 .. Len(Calls(d)), i <= j
    PROVE  MethodIdAt(d, j) = i
<1> DEFINE Last(m) == /\ EvalCallType(Calls(d)[m]) = "request"
                      /\ \A k \in m + 1 .. j : EvalCallType(Calls(d)[k]) # "request"
<1>1. /\ i \in RequestCalls(d) /\ i \in 1 .. Len(Calls(d)) /\ Len(Calls(d)) \in Nat
      /\ EvalCallType(Calls(d)[i]) = "request"
  BY RequestsExpected DEF RequestCalls
<1>2. \A m \in 1 .. j : EvalCallType(Calls(d)[m]) = "request" => m = i
  <2> SUFFICES ASSUME NEW m \in 1 .. j, EvalCallType(Calls(d)[m]) = "request", m # i
               PROVE  FALSE
    OBVIOUS
  <2>1. m \in RequestCalls(d) /\ m \in Expected(d)
    BY <1>1, RequestsExpected
  <2> QED BY <2>1 DEF KeeperAlone
<1>3. Last(i) /\ i \in 1 .. j
  BY <1>1, <1>2
<1>4. \A m \in 1 .. j : Last(m) => m = i
  BY <1>2
<1>5. (CHOOSE m \in 1 .. j : Last(m)) = i
  BY <1>3, <1>4
<1> QED BY <1>3, <1>5 DEF MethodIdAt
-----------------------------------------------------------------------------
(* Deferred calls.                                                            *)

(* Every entry of the method table was registered by the application.         *)
MethodsOffered ==
    \A n \in MethodNames : \A k \in DOMAIN methods[n] : <<n, methods[n][k]>> \in Offers

LEMMA LookupOffered ==
    ASSUME TypeOK, MethodsOffered, NEW name, LookupEntry(name) # NULL
    PROVE  <<name, LookupEntry(name)>> \in Offers
<1>1. name \in MethodNames /\ methods[name] # << >> /\ LookupEntry(name) = Head(methods[name])
  BY DEF LookupEntry
<1>2. methods[name] \in Seq(Handlers)
  BY <1>1 DEF TypeOK
<1>3. 1 \in DOMAIN methods[name] /\ Head(methods[name]) = methods[name][1]
  BY <1>1, <1>2
<1> QED BY <1>1, <1>3 DEF MethodsOffered

(* A response is no NULL.                                                     *)
LEMMA AnswerNotNull ==
    ASSUME NEW k \in {"result", "internal_error", "method_not_found", "invalid_request"},
           NEW i \in 0 .. MaxBatch, NEW m \in 0 .. MaxBatch
    PROVE  /\ Answer(k, i, m) \in Response /\ Answer(k, i, m) # NULL
           /\ Answer(k, i, m).kind = k /\ Answer(k, i, m).call = i /\ Answer(k, i, m).id = m
<1>1. Answer(k, i, m) \in Response
  BY DEF Answer, Response
<1> QED BY <1>1, NullAssumption DEF Answer

(* What dispatch_call defers for call i of d is sound; only an allocation     *)
(* that fails leaves it without a response.                                   *)
SoundFor(e, d, i, nomem) ==
    /\ e.call = i /\ i \in Expected(d)
    /\ \A k \in KeptCalls(d) : e.method_id = k
    /\ e.run = "method" =>
          /\ i \in RequestCalls(d) /\ e.method_id = i
          /\ <<Member(Calls(d)[i], "method"), e.handler>> \in Offers
    /\ e.run = "return" => IF e.obj = NULL THEN nomem ELSE ResponseTo(e.obj, d, i)

LEMMA DispatchCallSound ==
    ASSUME TypeOK, KeeperAlone, MethodsOffered,
           NEW s \in Subs, NEW d \in Documents, NEW i \in DOMAIN Calls(d), NEW E
    PROVE  /\ \A e \in DispatchCall(s, d, i, E) : e.sub = s /\ (e.req => SoundFor(e, d, i, i \in E))
           /\ i \in Expected(d) =>
                 \E e \in DispatchCall(s, d, i, E) : e.req /\ e.sub = s /\ e.call = i
<1> DEFINE c == Calls(d)[i]
           handler == LookupEntry(Member(c, "method"))
           m == MethodIdAt(d, i)
           inv == IF i \in E THEN NULL ELSE Answer("invalid_request", i, 0)
           unk == IF i \in E THEN NULL ELSE Answer("method_not_found", i, i)
           Goal == /\ \A e \in DispatchCall(s, d, i, E) :
                         e.sub = s /\ (e.req => SoundFor(e, d, i, i \in E))
                   /\ i \in Expected(d) =>
                         \E e \in DispatchCall(s, d, i, E) : e.req /\ e.sub = s /\ e.call = i
<1>1. i \in 0 .. MaxBatch /\ i \in 1 .. Len(Calls(d)) /\ Len(Calls(d)) \in Nat /\ MaxBatch \in Nat
  BY CallIndices
<1>2. ASSUME NEW x, DispatchCall(s, d, i, E) = {x}, x.req, x.sub = s, SoundFor(x, d, i, i \in E)
      PROVE  Goal
  <2>1. x.call = i
    BY <1>2, Zenon DEF SoundFor
  <2>2. \A e \in DispatchCall(s, d, i, E) : e.sub = s /\ (e.req => SoundFor(e, d, i, i \in E))
    BY <1>2, Zenon
  <2>3. \E e \in DispatchCall(s, d, i, E) : e.req /\ e.sub = s /\ e.call = i
    BY <1>2, <2>1, Zenon
  <2> QED BY <2>2, <2>3, Zenon
<1>3. CASE EvalCallType(c) = "invalid"
  <2> DEFINE x == ReturnCall(s, i, inv, m)
  <2>1. DispatchCall(s, d, i, E) = {x}
    BY <1>3 DEF DispatchCall
  <2>2. i \in Expected(d) /\ i \notin RequestCalls(d)
    BY <1>3 DEF Expected, RequestCalls
  <2>3. \A k \in KeptCalls(d) : m = k
    <3> TAKE k \in KeptCalls(d)
    <3>1. k \in RequestCalls(d) /\ k \in 1 .. Len(Calls(d))
      BY RequestsExpected
    <3>2. i > k
      BY <2>2, <3>1 DEF KeeperAlone
    <3> QED BY <1>1, <3>1, <3>2, MethodIdKept
  <2>4. (inv = NULL /\ i \in E) \/ (inv # NULL /\ ResponseTo(inv, d, i))
    BY <1>1, <2>2, AnswerNotNull DEF ResponseTo
  <2> HIDE DEF inv, m
  <2>5. x.sub = s /\ x.req /\ x.call = i /\ x.method_id = m /\ x.obj = inv /\ x.run = "return"
    BY DEF ReturnCall
  <2> HIDE DEF x
  <2>6. SoundFor(x, d, i, i \in E)
    BY <2>2, <2>3, <2>4, <2>5 DEF SoundFor
  <2> HIDE DEF Goal
  <2> QED BY <1>2, <2>1, <2>5, <2>6
<1>4. CASE EvalCallType(c) = "notification"
  <2>1. i \notin Expected(d)
    BY <1>4 DEF Expected
  <2>2. DispatchCall(s, d, i, E) \subseteq {MethodCall(s, i, FALSE, handler, 0)}
    BY <1>4 DEF DispatchCall
  <2>3. MethodCall(s, i, FALSE, handler, 0).sub = s /\ ~MethodCall(s, i, FALSE, handler, 0).req
    BY DEF MethodCall
  <2>4. ASSUME NEW e \in DispatchCall(s, d, i, E) PROVE e.sub = s /\ ~e.req
    <3>1. e = MethodCall(s, i, FALSE, handler, 0)
      BY <2>2
    <3> QED BY <2>3, <3>1, Zenon
  <2> QED BY <2>1, <2>4, Zenon
<1>5. ASSUME EvalCallType(c) = "request"
      PROVE  /\ i \in Expected(d) /\ i \in RequestCalls(d)
             /\ \A k \in KeptCalls(d) : i = k
  <2>1. i \in Expected(d) /\ i \in RequestCalls(d)
    BY <1>5 DEF Expected, RequestCalls
  <2> QED BY <2>1 DEF KeeperAlone
<1>6. CASE EvalCallType(c) = "request" /\ handler # NULL
  <2> DEFINE x == MethodCall(s, i, TRUE, handler, i)
  <2>1. DispatchCall(s, d, i, E) = {x}
    BY <1>6 DEF DispatchCall
  <2>2. <<Member(c, "method"), handler>> \in Offers
    BY <1>6, LookupOffered
  <2> HIDE DEF handler
  <2>3. x.sub = s /\ x.req /\ x.call = i /\ x.method_id = i /\ x.handler = handler /\ x.run = "method"
    BY DEF MethodCall
  <2> HIDE DEF x
  <2>4. SoundFor(x, d, i, i \in E)
    BY <1>5, <1>6, <2>2, <2>3 DEF SoundFor
  <2> HIDE DEF Goal
  <2> QED BY <1>2, <2>1, <2>3, <2>4
<1>7. CASE EvalCallType(c) = "request" /\ handler = NULL
  <2> DEFINE x == ReturnCall(s, i, unk, i)
  <2>1. DispatchCall(s, d, i, E) = {x}
    BY <1>7 DEF DispatchCall
  <2>2. (unk = NULL /\ i \in E) \/ (unk # NULL /\ ResponseTo(unk, d, i))
    BY <1>1, <1>5, <1>7, AnswerNotNull DEF ResponseTo
  <2> HIDE DEF unk
  <2>3. x.sub = s /\ x.req /\ x.call = i /\ x.method_id = i /\ x.obj = unk /\ x.run = "return"
    BY DEF ReturnCall
  <2> HIDE DEF x
  <2>4. SoundFor(x, d, i, i \in E)
    BY <1>5, <1>7, <2>2, <2>3 DEF SoundFor
  <2> HIDE DEF Goal
  <2> QED BY <1>2, <2>1, <2>3, <2>4
<1> QED BY <1>3, <1>4, <1>6, <1>7, CallTypes

(* All the calls json_rpc_process_request defers are sound, and while memory  *)
(* lasts there is one for every call that expects a result.                   *)
LEMMA DispatchCallsSound ==
    ASSUME TypeOK, KeeperAlone, MethodsOffered,
           NEW s \in Subs, NEW d \in Documents, DispatchCalls(s, d)
    PROVE  /\ faults' \in Nat /\ faults' >= faults
           /\ \A e \in queue' \ queue : e.sub = s /\ (e.req => SoundFor(e, d, e.call, faults' > 0))
           /\ faults' = 0 => \A i \in Expected(d) :
                 \E e \in queue' : e.req /\ e.sub = s /\ e.call = i
           /\ idrefs' = [idrefs EXCEPT ![s] = [i \in Indices |->
                 IF i \in RequestCalls(d) THEN 1 ELSE 0]]
<1>1. PICK L \in SUBSET DOMAIN Calls(d), E \in SUBSET DOMAIN Calls(d) :
        /\ Fail(Cardinality(L) + Cardinality(E))
        /\ queue' = queue \cup UNION {DispatchCall(s, d, i, E) : i \in DOMAIN Calls(d) \ L}
        /\ idrefs' = [idrefs EXCEPT ![s] = [i \in Indices |->
              IF i \in DOMAIN Calls(d) /\ EvalCallType(Calls(d)[i]) = "request" THEN 1 ELSE 0]]
  BY DEF DispatchCalls
<1>2. IsFiniteSet(L) /\ IsFiniteSet(E)
  <2>1. IsFiniteSet(DOMAIN Calls(d))
    BY CallIndices, FS_Interval
  <2> QED BY <2>1, FS_Subset
<1>3. /\ Cardinality(L) \in Nat /\ Cardinality(E) \in Nat
      /\ Cardinality(L) = 0 <=> L = {}
      /\ Cardinality(E) = 0 <=> E = {}
  BY <1>2, FS_CardinalityType, FS_EmptySet
<1>4. /\ faults' \in Nat /\ faults' >= faults
      /\ L # {} \/ E # {} => faults' > 0
  BY <1>1, <1>3 DEF Fail, TypeOK
<1>5. ASSUME NEW e \in queue' \ queue
      PROVE  e.sub = s /\ (e.req => SoundFor(e, d, e.call, faults' > 0))
  <2>1. PICK i \in DOMAIN Calls(d) : e \in DispatchCall(s, d, i, E)
    BY <1>1
  <2>2. e.sub = s /\ (e.req => SoundFor(e, d, i, i \in E))
    BY <2>1, DispatchCallSound, Zenon
  <2>3. i \in E => faults' > 0
    BY <1>4
  <2>4. e.req => SoundFor(e, d, e.call, faults' > 0)
    BY <2>2, <2>3 DEF SoundFor
  <2> QED BY <2>2, <2>4
<1>6. ASSUME faults' = 0, NEW i \in Expected(d)
      PROVE  \E e \in queue' : e.req /\ e.sub = s /\ e.call = i
  <2>1. L = {} /\ i \in DOMAIN Calls(d)
    BY <1>4, <1>6, CallIndices
  <2>2. PICK e \in DispatchCall(s, d, i, E) : e.req /\ e.sub = s /\ e.call = i
    <3>1. i \in Expected(d) => \E e \in DispatchCall(s, d, i, E) : e.req /\ e.sub = s /\ e.call = i
      BY <2>1, DispatchCallSound
    <3> QED BY <3>1, Zenon
  <2>3. e \in queue'
    BY <1>1, <2>1, <2>2
  <2> QED BY <2>2, <2>3, Zenon
<1>7. idrefs' = [idrefs EXCEPT ![s] = [i \in Indices |-> IF i \in RequestCalls(d) THEN 1 ELSE 0]]
  BY <1>1 DEF RequestCalls
<1> QED BY <1>4, <1>5, <1>6, <1>7

(* json_rpc_return with the id of its call in the request: what it defers is  *)
(* sound, and nothing is deferred only without memory.                        *)
LEMMA JsonRpcReturnSound ==
    ASSUME TypeOK, NEW s \in Subs, NEW d \in Documents, NEW i \in RequestCalls(d),
           \A k \in KeptCalls(d) : i = k, NEW q, JsonRpcReturn(s, i, i, q)
    PROVE  /\ faults' \in Nat /\ faults' >= faults
           /\ \A x \in queue' : x \in q \/ (x.sub = s /\ x.req /\ SoundFor(x, d, i, faults' > 0))
           /\ q \subseteq queue'
           /\ faults' = 0 => \E x \in queue' : x.req /\ x.sub = s /\ x.call = i
<1>1. PICK o \in {Answer("result", i, i), Answer("internal_error", i, i), NULL}, lost \in BOOLEAN :
        /\ Fail((IF o = NULL /\ i # 0 THEN 1 ELSE 0) + (IF lost THEN 1 ELSE 0))
        /\ queue' = IF lost THEN q ELSE q \cup {ReturnCall(s, i, o, i)}
  BY DEF JsonRpcReturn
<1>2. i \in Expected(d) /\ i \in 1 .. MaxBatch /\ i \in 0 .. MaxBatch
  BY RequestsExpected
<1>3. /\ faults' \in Nat /\ faults' >= faults
      /\ (o = NULL \/ lost) => faults' > 0
  BY <1>1, <1>2 DEF Fail, TypeOK
<1>4. o = NULL \/ (o # NULL /\ ResponseTo(o, d, i))
  BY <1>1, <1>2, AnswerNotNull DEF ResponseTo
<1> DEFINE x == ReturnCall(s, i, o, i)
<1>5. x.sub = s /\ x.req /\ x.call = i /\ x.method_id = i /\ x.obj = o /\ x.run = "return"
  BY DEF ReturnCall
<1>6. queue' = IF lost THEN q ELSE q \cup {x}
  BY <1>1
<1> HIDE DEF x
<1>7. SoundFor(x, d, i, faults' > 0)
  BY <1>2, <1>3, <1>4, <1>5 DEF SoundFor
<1>8. \A y \in queue' : y \in q \/ (y.sub = s /\ y.req /\ SoundFor(y, d, i, faults' > 0))
  BY <1>5, <1>6, <1>7, Zenon
<1>9. q \subseteq queue'
  BY <1>6
<1>10. faults' = 0 => \E y \in queue' : y.req /\ y.sub = s /\ y.call = i
  <2> SUFFICES ASSUME faults' = 0 PROVE \E y \in queue' : y.req /\ y.sub = s /\ y.call = i
    OBVIOUS
  <2>1. x \in queue'
    BY <1>3, <1>6
  <2> QED BY <1>5, <2>1, Zenon
<1> QED BY <1>3, <1>8, <1>9, <1>10
-----------------------------------------------------------------------------
(* Responses.                                                                 *)

(* Responses to different calls of d, and to all of them.                     *)
Responding(items, d) ==
    /\ \A k \in DOMAIN items :
          items[k].call \in Expected(d) /\ ResponseTo(items[k], d, items[k].call)
    /\ \A k, l \in DOMAIN items : items[k].call = items[l].call => k = l

Exhaustive(items, d) == \A i \in Expected(d) : \E k \in DOMAIN items : items[k].call = i

(* json_rpc_tt_result gives up one reference on the id of each response.      *)
LEMMA IdsPut ==
    ASSUME NEW d \in Documents, NEW items \in Seq(Response), Responding(items, d), NEW i \in Indices
    PROVE  LET c == Cardinality({k \in DOMAIN items : items[k].id = i})
           IN  /\ c = 0 \/ (c = 1 /\ i \in RequestCalls(d))
               /\ i \in RequestCalls(d) /\ Exhaustive(items, d) => c = 1
<1> DEFINE K == {k \in DOMAIN items : items[k].id = i}
<1>1. i # 0
  BY DEF Indices
<1>2. \A k \in K : items[k].call = i /\ i \in RequestCalls(d)
  BY <1>1 DEF Responding, ResponseTo
<1>3. CASE K = {}
  <2>1. Cardinality(K) = 0
    BY <1>3, FS_EmptySet
  <2>2. ASSUME i \in RequestCalls(d), Exhaustive(items, d) PROVE FALSE
    <3>1. i \in Expected(d)
      BY <2>2, RequestsExpected
    <3>2. PICK k \in DOMAIN items : items[k].call = i
      BY <2>2, <3>1 DEF Exhaustive
    <3>3. items[k].id = i
      BY <2>2, <3>2 DEF Responding, ResponseTo
    <3> QED BY <1>3, <3>2, <3>3
  <2> QED BY <2>1, <2>2
<1>4. CASE K # {}
  <2>1. PICK k : k \in K
    BY <1>4
  <2>2. K = {k}
    BY <1>2, <2>1 DEF Responding
  <2>3. Cardinality(K) = 1
    BY <2>2, FS_Singleton
  <2> QED BY <1>2, <2>1, <2>3
<1> QED BY <1>3, <1>4

(* A complete answer has exactly one response for every expected call.        *)
LEMMA AnswerLength ==
    ASSUME NEW d \in Documents, NEW items \in Seq(Response), Responding(items, d), Exhaustive(items, d)
    PROVE  /\ {items[k].call : k \in DOMAIN items} = Expected(d)
           /\ Len(items) = Cardinality(Expected(d))
<1>1. {items[k].call : k \in DOMAIN items} = Expected(d)
  BY DEF Responding, Exhaustive
<1> DEFINE f == [k \in 1 .. Len(items) |-> items[k].call]
<1>2. DOMAIN items = 1 .. Len(items) /\ Len(items) \in Nat
  OBVIOUS
<1>3. f \in [1 .. Len(items) -> Expected(d)]
  BY <1>2 DEF Responding
<1>4. f \in Surjection(1 .. Len(items), Expected(d))
  BY <1>2, <1>3 DEF Exhaustive, Surjection
<1>5. f \in Injection(1 .. Len(items), Expected(d))
  BY <1>2, <1>3 DEF Responding, Injection, IsInjective
<1>6. IsFiniteSet(1 .. Len(items)) /\ Cardinality(1 .. Len(items)) = Len(items)
  <2>1. /\ IsFiniteSet(1 .. Len(items))
        /\ Cardinality(1 .. Len(items)) = IF 1 > Len(items) THEN 0 ELSE Len(items) - 1 + 1
    <3>1. 1 \in Int /\ Len(items) \in Int
      BY <1>2
    <3> QED BY <3>1, FS_Interval, Zenon
  <2> QED BY <1>2, <2>1
<1>7. Cardinality(Expected(d)) = Cardinality(1 .. Len(items))
  BY <1>4, <1>5, <1>6, FS_Surjection
<1> QED BY <1>1, <1>6, <1>7

(* A response to another call is added.                                       *)
LEMMA ResponseAdded ==
    ASSUME NEW d \in Documents, NEW b \in Seq(Response), Responding(b, d),
           NEW r \in Response, r.call \in Expected(d), ResponseTo(r, d, r.call),
           \A k \in DOMAIN b : b[k].call # r.call
    PROVE  /\ Append(b, r) \in Seq(Response) /\ Len(Append(b, r)) = Len(b) + 1
           /\ Responding(Append(b, r), d)
           /\ \A k \in DOMAIN Append(b, r) : \/ k \in DOMAIN b /\ Append(b, r)[k] = b[k]
                                             \/ Append(b, r)[k] = r
           /\ \A i : i = r.call \/ (\E k \in DOMAIN b : b[k].call = i) =>
                 \E k \in DOMAIN Append(b, r) : Append(b, r)[k].call = i
<1> DEFINE a == Append(b, r)
<1>1. /\ a \in Seq(Response) /\ Len(a) = Len(b) + 1 /\ Len(b) \in Nat
      /\ DOMAIN a = 1 .. Len(b) + 1 /\ DOMAIN b = 1 .. Len(b)
      /\ a[Len(b) + 1] = r
      /\ \A k \in 1 .. Len(b) : a[k] = b[k]
  OBVIOUS
<1> HIDE DEF a
<1>2. \A k \in DOMAIN a : (k \in DOMAIN b /\ a[k] = b[k]) \/ (k = Len(b) + 1 /\ a[k] = r)
  BY <1>1
<1>3. Responding(a, d)
  <2>1. \A k \in DOMAIN a : a[k].call \in Expected(d) /\ ResponseTo(a[k], d, a[k].call)
    <3> SUFFICES ASSUME NEW k \in DOMAIN a
                 PROVE  a[k].call \in Expected(d) /\ ResponseTo(a[k], d, a[k].call)
      OBVIOUS
    <3>1. CASE k \in DOMAIN b /\ a[k] = b[k]
      BY <3>1, Zenon DEF Responding
    <3>2. CASE a[k] = r
      BY <3>2, Zenon
    <3> QED BY <1>2, <3>1, <3>2
  <2>2. \A k, l \in DOMAIN a : a[k].call = a[l].call => k = l
    <3> SUFFICES ASSUME NEW k \in DOMAIN a, NEW l \in DOMAIN a, a[k].call = a[l].call
                 PROVE  k = l
      OBVIOUS
    <3>1. CASE k \in DOMAIN b /\ a[k] = b[k] /\ l \in DOMAIN b /\ a[l] = b[l]
      BY <3>1, Zenon DEF Responding
    <3>2. CASE k \in DOMAIN b /\ a[k] = b[k] /\ a[l] = r
      BY <3>2, Zenon
    <3>3. CASE l \in DOMAIN b /\ a[l] = b[l] /\ a[k] = r
      BY <3>3, Zenon
    <3>4. CASE k = Len(b) + 1 /\ l = Len(b) + 1
      BY <3>4
    <3> QED BY <1>2, <3>1, <3>2, <3>3, <3>4
  <2> QED BY <2>1, <2>2, Zenon DEF Responding
<1>4. ASSUME NEW i, i = r.call \/ (\E k \in DOMAIN b : b[k].call = i)
      PROVE  \E k \in DOMAIN a : a[k].call = i
  <2>1. Len(b) + 1 \in DOMAIN a /\ DOMAIN b \subseteq DOMAIN a
    BY <1>1
  <2>2. CASE i = r.call
    BY <1>1, <2>1, <2>2, Zenon
  <2>3. ASSUME NEW k \in DOMAIN b, b[k].call = i
        PROVE  \E l \in DOMAIN a : a[l].call = i
    <3>1. k \in DOMAIN a /\ a[k] = b[k]
      BY <1>1, <2>1
    <3> QED BY <2>3, <3>1, Zenon
  <2> QED BY <1>4, <2>2, <2>3, Zenon
<1> QED BY <1>1, <1>2, <1>3, <1>4 DEF a
-----------------------------------------------------------------------------
(* The invariant, submission by submission.                                   *)

QueueSound == \A e \in queue : e.req => CallSound(e)
HeldSound == \A h \in held : h[2] \in KeptCalls(doc[h[1]])

AnswerMatches(s) ==
    \A k \in DOMAIN answers[s] :
        answers[s][k] # NULL =>
            \A l \in DOMAIN answers[s][k] :
                answers[s][k][l].id = IF answers[s][k][l].kind = "invalid_request"
                                      THEN 0 ELSE answers[s][k][l].call

AnswerWhole(s) ==
    faults = 0 /\ answers[s] # << >> /\ req[s].state # "none" =>
        /\ answers[s][1] # NULL
        /\ {answers[s][1][k].call : k \in DOMAIN answers[s][1]} = Expected(doc[s])
        /\ Len(answers[s][1]) = Cardinality(Expected(doc[s]))

SubSound(s) ==
    BatchSound(s) /\ IdsSound(s) /\ AnswerSound(s) /\ AnswerMatches(s) /\ AnswerWhole(s)

LEMMA InvariantParts ==
    AnswerInvariant <=> /\ KeeperAlone /\ MethodsOffered /\ QueueSound /\ HeldSound
                        /\ \A s \in Subs : SubSound(s)
BY DEF AnswerInvariant, MethodsOffered, QueueSound, HeldSound, SubSound, AnswerMatches,
       AnswerWhole, ResponseIdsMatch, AnswerComplete

LEMMA InvariantPartsNext ==
    AnswerInvariant' <=> /\ KeeperAlone /\ MethodsOffered' /\ QueueSound' /\ HeldSound'
                         /\ \A s \in Subs : SubSound(s)'
BY DEF AnswerInvariant, MethodsOffered, QueueSound, HeldSound, SubSound, AnswerMatches,
       AnswerWhole, ResponseIdsMatch, AnswerComplete, KeeperAlone, KeptCalls, RequestCalls

LEMMA CallSoundFor ==
    ASSUME NEW e \in queue
    PROVE  CallSound(e) <=> SoundFor(e, doc[e.sub], e.call, faults > 0)
BY DEF CallSound, SoundFor

LEMMA QueueFrame ==
    ASSUME TypeOK, TypeOK', QueueSound, faults' >= faults,
           \A e \in queue' : e.req => \/ e \in queue /\ doc'[e.sub] = doc[e.sub]
                                      \/ SoundFor(e, doc'[e.sub], e.call, faults' > 0)
    PROVE  QueueSound'
<1> SUFFICES ASSUME NEW e \in queue', e.req PROVE CallSound(e)'
  BY Zenon DEF QueueSound
<1>1. faults > 0 => faults' > 0
  BY DEF TypeOK
<1>2. CASE e \in queue /\ doc'[e.sub] = doc[e.sub]
  <2>1. CallSound(e)
    BY <1>2, Zenon DEF QueueSound
  <2> QED BY <1>1, <1>2, <2>1 DEF CallSound
<1>3. CASE SoundFor(e, doc'[e.sub], e.call, faults' > 0)
  BY <1>3, Zenon DEF CallSound, SoundFor
<1> QED BY <1>2, <1>3, Zenon

(* A request that keeps its results and counters, whose reference of a call   *)
(* is lost only without memory.                                               *)
LEMMA SubFrame ==
    ASSUME TypeOK, TypeOK', NEW s \in Subs, SubSound(s),
           doc'[s] = doc[s], answers'[s] = answers[s], idrefs'[s] = idrefs[s],
           req'[s].state = req[s].state, req'[s].return_cb = req[s].return_cb,
           req'[s].result_count = req[s].result_count,
           req'[s].waiting_result_count = req[s].waiting_result_count,
           req'[s].result_batch = req[s].result_batch,
           req[s].state = "live" => \A i \in KeptCalls(doc[s]) : req'[s].method_id = i,
           Outstanding(s)' \subseteq Outstanding(s),
           faults' >= faults, faults' = 0 => Outstanding(s) \subseteq Outstanding(s)'
    PROVE  SubSound(s)'
<1>1. /\ faults \in Nat /\ faults' \in Nat
      /\ faults' = 0 => faults = 0
  BY DEF TypeOK
<1>2. BatchSound(s)'
  <2> SUFFICES ASSUME req'[s].state = "live" PROVE BatchSound(s)'
    BY DEF BatchSound
  <2>1. \A i \in KeptCalls(doc'[s]) : req'[s].method_id = i
    OBVIOUS
  <2>2. \A k \in DOMAIN req'[s].result_batch :
          /\ req'[s].result_batch[k].call \in Expected(doc'[s]) \ Outstanding(s)'
          /\ ResponseTo(req'[s].result_batch[k], doc'[s], req'[s].result_batch[k].call)
    BY DEF SubSound, BatchSound
  <2>3. \A k, l \in DOMAIN req'[s].result_batch :
          req'[s].result_batch[k].call = req'[s].result_batch[l].call => k = l
    BY DEF SubSound, BatchSound
  <2>4. faults' = 0 =>
          /\ Len(req'[s].result_batch) = req'[s].result_count
          /\ \A i \in Expected(doc'[s]) \ Outstanding(s)' :
                \E k \in DOMAIN req'[s].result_batch : req'[s].result_batch[k].call = i
    BY <1>1 DEF SubSound, BatchSound
  <2>5. /\ IF req'[s].return_cb = "single"
           THEN req'[s].result_batch = << >> /\ Expected(doc'[s]) = {1}
           ELSE /\ req'[s].waiting_result_count = Cardinality(Expected(doc'[s]))
                /\ req'[s].result_count < req'[s].waiting_result_count
        /\ \A i \in Indices : idrefs'[s][i] = IF i \in RequestCalls(doc'[s]) THEN 1 ELSE 0
    BY DEF SubSound, BatchSound
  <2> QED BY <2>1, <2>2, <2>3, <2>4, <2>5 DEF BatchSound
<1>3. IdsSound(s)'
  BY <1>1 DEF SubSound, IdsSound
<1>4. AnswerMatches(s)' /\ AnswerWhole(s)'
  BY <1>1 DEF SubSound, AnswerMatches, AnswerWhole
<1>5. AnswerSound(s)'
  BY DEF SubSound, AnswerSound
<1> QED BY <1>2, <1>3, <1>4, <1>5 DEF SubSound
-----------------------------------------------------------------------------
(* Steps that leave the counters alone.                                       *)

LEMMA AnswersInit == KeeperAlone /\ Init => AnswerInvariant
<1> SUFFICES ASSUME KeeperAlone, Init PROVE AnswerInvariant
  OBVIOUS
<1>1. MethodsOffered /\ QueueSound /\ HeldSound
  BY DEF Init, MethodsOffered, QueueSound, HeldSound
<1>2. ASSUME NEW s \in Subs PROVE SubSound(s)
  <2>1. req[s].state = "none" /\ answers[s] = << >> /\ \A i \in Indices : idrefs[s][i] = 0
    BY DEF Init, NoRequest, NewRequest
  <2> QED BY <2>1 DEF SubSound, BatchSound, IdsSound, AnswerSound, AnswerMatches, AnswerWhole
<1> QED BY <1>1, <1>2, InvariantParts

(* Nothing that refers to a request changes.                                  *)
LEMMA AnswersQuiet ==
    ASSUME TypeOK, TypeOK', AnswerInvariant, MethodsOffered',
           queue' \subseteq queue, \A e \in queue \ queue' : ~e.req,
           UNCHANGED <<doc, req, held, idrefs, answers, faults>>
    PROVE  AnswerInvariant'
<1>1. KeeperAlone /\ QueueSound /\ HeldSound /\ \A s \in Subs : SubSound(s)
  BY InvariantParts
<1>2. \A s \in Subs : Outstanding(s)' = Outstanding(s)
  <2>1. \A s : OutstandingIn(queue', held', s) = OutstandingIn(queue, held, s)
    <3> TAKE s
    <3>1. ASSUME NEW c \in Indices, NEW e \in queue, e.req, e.sub = s, e.call = c
          PROVE  \E f \in queue' : f.req /\ f.sub = s /\ f.call = c
      BY <3>1, Zenon
    <3>2. \A c \in Indices : (\E e \in queue : e.req /\ e.sub = s /\ e.call = c)
                             <=> (\E e \in queue' : e.req /\ e.sub = s /\ e.call = c)
      BY <3>1, Zenon
    <3> QED BY <3>2 DEF OutstandingIn
  <2> QED BY <2>1, OutstandingNow, OutstandingNext DEF OutstandingSound
<1>3. /\ faults \in Nat /\ faults' = faults
  BY DEF TypeOK
<1>4. ASSUME NEW s \in Subs PROVE SubSound(s)'
  <2>1. req[s].state = "live" => \A i \in KeptCalls(doc[s]) : req'[s].method_id = i
    BY <1>1 DEF SubSound, BatchSound
  <2> QED BY <1>1, <1>2, <1>3, <2>1, SubFrame
<1>5. QueueSound'
  <2>1. faults' >= faults /\ \A e \in queue' : e.req => e \in queue /\ doc'[e.sub] = doc[e.sub]
    BY <1>3
  <2> QED BY <1>1, <2>1, QueueFrame, Zenon
<1>6. HeldSound'
  BY <1>1 DEF HeldSound
<1> QED BY <1>1, <1>4, <1>5, <1>6, InvariantPartsNext

(* The deferred calls and methods that refer to a request have its document.  *)
LEMMA ReferredDocument ==
    ASSUME TypeOK, RequestInvariant, NEW s \in Subs, Outstanding(s) # {}
    PROVE  doc[s] \in Documents
BY ReferredTo DEF TypeOK

(* No call but i0 of s0 loses a reference.                                    *)
LEMMA OutstandingKept ==
    ASSUME TypeOK, TypeOK', NEW s0 \in Subs, NEW i0,
           \A e \in queue \ queue' : e.req => e.sub = s0 /\ e.call = i0,
           \A h \in held \ held' : h = <<s0, i0>>
    PROVE  \A s \in Subs : \A c \in Outstanding(s) : c \in Outstanding(s)' \/ (s = s0 /\ c = i0)
<1> SUFFICES ASSUME NEW s \in Subs, NEW c \in OutstandingIn(queue, held, s)
             PROVE  c \in OutstandingIn(queue', held', s) \/ (s = s0 /\ c = i0)
  BY OutstandingNow, OutstandingNext DEF OutstandingSound
<1>1. c \in Indices /\ ((\E e \in queue : e.req /\ e.sub = s /\ e.call = c) \/ <<s, c>> \in held)
  BY Zenon DEF OutstandingIn
<1>2. ASSUME NEW e \in queue, e.req, e.sub = s, e.call = c
      PROVE  c \in OutstandingIn(queue', held', s) \/ (s = s0 /\ c = i0)
  <2>1. CASE e \in queue'
    BY <1>1, <1>2, <2>1, Zenon DEF OutstandingIn
  <2>2. CASE e \notin queue'
    <3>1. e \in queue \ queue'
      BY <2>2
    <3> QED BY <1>2, <3>1, Zenon
  <2> QED BY <2>1, <2>2
<1>3. CASE <<s, c>> \in held
  <2>1. CASE <<s, c>> \in held'
    BY <1>1, <2>1, Zenon DEF OutstandingIn
  <2>2. CASE <<s, c>> \notin held'
    <3>1. <<s, c>> = <<s0, i0>>
      BY <1>3, <2>2
    <3> QED BY <3>1
  <2> QED BY <2>1, <2>2
<1> QED BY <1>1, <1>2, <1>3, Zenon

(* The reference of call i0 of s0 moves from a deferred method to the method  *)
(* that keeps it, or to its deferred response, or memory ran out.             *)
LEMMA AnswersMove ==
    ASSUME TypeOK, TypeOK', RequestInvariant, AnswerInvariant,
           NEW s0 \in Subs, NEW i0 \in Outstanding(s0), NEW m, \A k \in KeptCalls(doc[s0]) : m = k,
           UNCHANGED <<methods, doc, idrefs, answers>>,
           req' = [req EXCEPT ![s0].method_id = m], faults' >= faults,
           \A e \in queue \ queue' : e.req => e.sub = s0 /\ e.call = i0,
           \A e \in queue' \ queue : e.sub = s0 /\ e.call = i0 /\ SoundFor(e, doc[s0], i0, faults' > 0),
           \A h \in held \ held' : h = <<s0, i0>>,
           \A h \in held' \ held : h = <<s0, i0>> /\ i0 \in KeptCalls(doc[s0]),
           faults' = 0 => (\E e \in queue' : e.req /\ e.sub = s0 /\ e.call = i0) \/ <<s0, i0>> \in held'
    PROVE  AnswerInvariant'
<1>1. KeeperAlone /\ MethodsOffered /\ QueueSound /\ HeldSound /\ \A s \in Subs : SubSound(s)
  BY InvariantParts
<1>2. \A s \in Subs : Outstanding(s)' \subseteq Outstanding(s)
  <2>1. \A f \in queue' \ queue : f.sub = s0 /\ f.call = i0
    OBVIOUS
  <2>2. held' \subseteq held \cup {<<s0, i0>>}
    OBVIOUS
  <2> QED BY <2>1, <2>2, OutstandingMove
<1>3. faults' = 0 => \A s \in Subs : Outstanding(s) \subseteq Outstanding(s)'
  <2> SUFFICES ASSUME faults' = 0 PROVE \A s \in Subs : Outstanding(s) \subseteq Outstanding(s)'
    OBVIOUS
  <2>1. i0 \in OutstandingIn(queue', held', s0)
    <3>1. i0 \in Indices
      BY OutstandingNow DEF OutstandingSound, OutstandingIn
    <3> QED BY <3>1, Zenon DEF OutstandingIn
  <2>2. i0 \in Outstanding(s0)'
    BY <2>1, OutstandingNext DEF OutstandingSound
  <2>3. \A s \in Subs : \A c \in Outstanding(s) : c \in Outstanding(s)' \/ (s = s0 /\ c = i0)
    BY OutstandingKept
  <2> QED BY <2>2, <2>3
<1>4. ASSUME NEW s \in Subs PROVE SubSound(s)'
  <2>1. /\ req'[s].state = req[s].state /\ req'[s].return_cb = req[s].return_cb
        /\ req'[s].result_count = req[s].result_count
        /\ req'[s].waiting_result_count = req[s].waiting_result_count
        /\ req'[s].result_batch = req[s].result_batch
        /\ req'[s].method_id = IF s = s0 THEN m ELSE req[s].method_id
    BY DEF TypeOK, Request
  <2>2. req[s].state = "live" => \A i \in KeptCalls(doc[s]) : req'[s].method_id = i
    BY <1>1, <2>1 DEF SubSound, BatchSound
  <2> QED BY <1>1, <1>2, <1>3, <2>1, <2>2, SubFrame
<1>5. QueueSound'
  <2>1. ASSUME NEW e \in queue', e.req
        PROVE  \/ e \in queue /\ doc'[e.sub] = doc[e.sub]
               \/ SoundFor(e, doc'[e.sub], e.call, faults' > 0)
    <3>1. CASE e \in queue
      BY <3>1
    <3>2. CASE e \notin queue
      <4>1. e.sub = s0 /\ e.call = i0 /\ SoundFor(e, doc[s0], i0, faults' > 0)
        BY <3>2
      <4> QED BY <4>1, Zenon
    <3> QED BY <3>1, <3>2
  <2> QED BY <1>1, <2>1, QueueFrame, Zenon
<1>6. HeldSound'
  <2> SUFFICES ASSUME NEW h \in held' PROVE h[2] \in KeptCalls(doc[h[1]])
    BY DEF HeldSound
  <2>1. CASE h \in held
    BY <1>1, <2>1 DEF HeldSound
  <2>2. CASE h \notin held
    <3>1. h = <<s0, i0>> /\ i0 \in KeptCalls(doc[s0])
      BY <2>2
    <3> QED BY <3>1
  <2> QED BY <2>1, <2>2
<1>7. MethodsOffered'
  BY <1>1 DEF MethodsOffered
<1> QED BY <1>1, <1>4, <1>5, <1>6, <1>7, InvariantPartsNext

(* What a deferred method is, and whom it answers.                            *)
LEMMA DeferredMethod ==
    ASSUME TypeOK, RequestInvariant, AnswerInvariant,
           NEW e \in queue, e.req, e.run = "method"
    PROVE  /\ e.sub \in Subs /\ doc[e.sub] \in Documents
           /\ e.call \in Outstanding(e.sub) /\ <<e.sub, e.call>> \notin held
           /\ e.call \in RequestCalls(doc[e.sub]) /\ e.method_id = e.call
           /\ \A k \in KeptCalls(doc[e.sub]) : e.call = k
           /\ e.handler \in Keepers => e.call \in KeptCalls(doc[e.sub])
<1>1. e.sub \in Subs /\ e.call \in Outstanding(e.sub) /\ <<e.sub, e.call>> \notin held
  BY OnlyReference, Zenon
<1>2. doc[e.sub] \in Documents
  BY <1>1, ReferredDocument
<1>3. CallSound(e)
  BY Zenon DEF AnswerInvariant
<1>4. /\ e.call \in RequestCalls(doc[e.sub]) /\ e.method_id = e.call
      /\ \A k \in KeptCalls(doc[e.sub]) : e.method_id = k
      /\ <<Member(Calls(doc[e.sub])[e.call], "method"), e.handler>> \in Offers
  BY <1>3, Zenon DEF CallSound
<1>5. e.handler \in Keepers => e.call \in KeptCalls(doc[e.sub])
  BY <1>4 DEF KeptCalls
<1> QED BY <1>1, <1>2, <1>4, <1>5, Zenon

LEMMA AnswersKeeper ==
    ASSUME TypeOK, TypeOK', RequestInvariant, AnswerInvariant, NEW e \in queue, RunKeeper(e)
    PROVE  AnswerInvariant'
<1>1. e.run = "method" /\ e.req /\ e.handler \in Keepers
  BY Zenon DEF RunKeeper
<1> DEFINE s0 == e.sub
           i0 == e.call
<1>2. /\ s0 \in Subs /\ i0 \in Outstanding(s0) /\ e.method_id = i0 /\ i0 \in KeptCalls(doc[s0])
      /\ \A k \in KeptCalls(doc[s0]) : i0 = k
  BY <1>1, DeferredMethod, Zenon
<1>3. /\ req' = [req EXCEPT ![s0].method_id = i0] /\ queue' = queue \ {e}
      /\ held' = held \cup {<<s0, i0>>} /\ UNCHANGED <<methods, doc, idrefs, answers, faults>>
  BY <1>2 DEF RunKeeper
<1>4. faults' >= faults
  BY <1>3 DEF TypeOK
<1>5. /\ \A f \in queue \ queue' : f.req => f.sub = s0 /\ f.call = i0
      /\ queue' \ queue = {} /\ held \ held' = {}
      /\ \A h \in held' \ held : h = <<s0, i0>> /\ i0 \in KeptCalls(doc[s0])
      /\ <<s0, i0>> \in held'
  BY <1>2, <1>3
<1> HIDE DEF s0, i0
<1> QED BY <1>2, <1>3, <1>4, <1>5, AnswersMove

LEMMA AnswersMethod ==
    ASSUME TypeOK, TypeOK', RequestInvariant, AnswerInvariant, NEW e \in queue, RunMethod(e)
    PROVE  AnswerInvariant'
<1>1. e.run = "method" /\ e.req
  BY Zenon DEF RunMethod
<1> DEFINE s0 == e.sub
           i0 == e.call
           d == doc[s0]
           q == queue \ {e}
<1>2. /\ s0 \in Subs /\ i0 \in Outstanding(s0) /\ e.method_id = i0 /\ d \in Documents
      /\ i0 \in RequestCalls(d) /\ \A k \in KeptCalls(d) : i0 = k
  BY <1>1, DeferredMethod, Zenon
<1>3. /\ req' = [req EXCEPT ![s0].method_id = i0] /\ JsonRpcReturn(s0, i0, i0, q)
      /\ UNCHANGED <<methods, doc, held, idrefs, answers>>
  BY <1>2 DEF RunMethod
<1> HIDE DEF s0, i0, d, q
<1>4. /\ faults' \in Nat /\ faults' >= faults
      /\ \A x \in queue' : x \in q \/ (x.sub = s0 /\ x.req /\ SoundFor(x, d, i0, faults' > 0))
      /\ q \subseteq queue'
      /\ faults' = 0 => \E x \in queue' : x.req /\ x.sub = s0 /\ x.call = i0
  BY <1>2, <1>3, JsonRpcReturnSound
<1>5. ASSUME NEW f \in queue \ queue' PROVE f.sub = s0 /\ f.call = i0
  <2>1. f = e
    BY <1>4 DEF q
  <2> QED BY <2>1 DEF s0, i0
<1>6. ASSUME NEW f \in queue' \ queue
      PROVE  f.sub = s0 /\ f.call = i0 /\ SoundFor(f, d, i0, faults' > 0)
  <2>1. f \notin q
    BY DEF q
  <2>2. f.sub = s0 /\ SoundFor(f, d, i0, faults' > 0)
    BY <1>4, <2>1, Zenon
  <2> QED BY <2>2, Zenon DEF SoundFor
<1>7. /\ \A f \in queue \ queue' : f.req => f.sub = s0 /\ f.call = i0
      /\ \A f \in queue' \ queue :
            f.sub = s0 /\ f.call = i0 /\ SoundFor(f, doc[s0], i0, faults' > 0)
      /\ \A k \in KeptCalls(doc[s0]) : i0 = k
  BY <1>2, <1>5, <1>6, Zenon DEF d
<1>8. held \ held' = {} /\ held' \ held = {} /\ UNCHANGED <<methods, doc, idrefs, answers>>
  BY <1>3
<1>9. faults' = 0 => (\E f \in queue' : f.req /\ f.sub = s0 /\ f.call = i0) \/ <<s0, i0>> \in held'
  BY <1>4
<1>10. /\ \A h \in held \ held' : h = <<s0, i0>>
       /\ \A h \in held' \ held : h = <<s0, i0>> /\ i0 \in KeptCalls(doc[s0])
  BY <1>8, Zenon
<1>11. /\ s0 \in Subs /\ i0 \in Outstanding(s0) /\ faults' >= faults
       /\ req' = [req EXCEPT ![s0].method_id = i0]
       /\ UNCHANGED <<methods, doc, idrefs, answers>>
  BY <1>2, <1>3, <1>4, <1>8
<1> QED BY <1>7, <1>9, <1>10, <1>11, AnswersMove, Zenon

(* A kept call finds its own id in the request.                               *)
LEMMA KeptCall ==
    ASSUME TypeOK, RequestInvariant, AnswerInvariant, NEW s, NEW i, <<s, i>> \in held
    PROVE  /\ s \in Subs /\ i \in Outstanding(s) /\ doc[s] \in Documents
           /\ i \in RequestCalls(doc[s]) /\ req[s].method_id = i
           /\ \A k \in KeptCalls(doc[s]) : i = k
<1>1. s \in Subs /\ i \in Indices
  BY DEF TypeOK
<1>2. i \in Outstanding(s)
  <2>1. i \in OutstandingIn(queue, held, s)
    BY <1>1 DEF OutstandingIn
  <2> QED BY <1>1, <2>1, OutstandingNow DEF OutstandingSound
<1>3. doc[s] \in Documents /\ req[s].state = "live"
  BY <1>1, <1>2, ReferredDocument, ReferredTo
<1>4. i \in KeptCalls(doc[s])
  <2>1. <<s, i>>[1] = s /\ <<s, i>>[2] = i
    OBVIOUS
  <2> QED BY <2>1 DEF AnswerInvariant
<1>5. \A k \in KeptCalls(doc[s]) : req[s].method_id = k
  BY <1>1, <1>3 DEF AnswerInvariant, BatchSound
<1>6. i \in RequestCalls(doc[s])
  BY <1>3, <1>4, RequestsExpected
<1> QED BY <1>1, <1>2, <1>3, <1>4, <1>5, <1>6

LEMMA AnswersReturnLater ==
    ASSUME TypeOK, TypeOK', RequestInvariant, AnswerInvariant,
           NEW s \in Subs, NEW i \in Indices, ReturnLater(s, i)
    PROVE  AnswerInvariant'
<1>1. <<s, i>> \in held /\ held' = held \ {<<s, i>>} /\ UNCHANGED <<methods, doc, req, idrefs, answers>>
  BY DEF ReturnLater
<1>2. /\ i \in Outstanding(s) /\ doc[s] \in Documents /\ i \in RequestCalls(doc[s])
      /\ req[s].method_id = i /\ \A k \in KeptCalls(doc[s]) : i = k
  BY <1>1, KeptCall
<1>3. JsonRpcReturn(s, i, i, queue)
  BY <1>2 DEF ReturnLater
<1>4. /\ faults' \in Nat /\ faults' >= faults
      /\ \A x \in queue' : x \in queue \/ (x.sub = s /\ x.req /\ SoundFor(x, doc[s], i, faults' > 0))
      /\ queue \subseteq queue'
      /\ faults' = 0 => \E x \in queue' : x.req /\ x.sub = s /\ x.call = i
  BY <1>2, <1>3, JsonRpcReturnSound
<1>5. req' = [req EXCEPT ![s].method_id = i]
  <2>1. [req[s] EXCEPT !.method_id = i] = req[s]
    BY <1>2 DEF TypeOK, Request
  <2> QED BY <1>1, <2>1 DEF TypeOK
<1>6. ASSUME NEW f \in queue' \ queue
      PROVE  f.sub = s /\ f.call = i /\ SoundFor(f, doc[s], i, faults' > 0)
  <2>1. f.sub = s /\ SoundFor(f, doc[s], i, faults' > 0)
    BY <1>4
  <2> QED BY <2>1, Zenon DEF SoundFor
<1>7. \A h \in held \ held' : h = <<s, i>>
  BY <1>1
<1>8. \A f \in queue \ queue' : f.req => f.sub = s /\ f.call = i
  BY <1>4
<1>9. \A h \in held' \ held : h = <<s, i>> /\ i \in KeptCalls(doc[s])
  BY <1>1
<1>10. \A f \in queue' \ queue : f.sub = s /\ f.call = i /\ SoundFor(f, doc[s], i, faults' > 0)
  BY <1>6
<1>11. faults' = 0 => (\E f \in queue' : f.req /\ f.sub = s /\ f.call = i) \/ <<s, i>> \in held'
  BY <1>4, Zenon
<1>12. UNCHANGED <<methods, doc, idrefs, answers>> /\ faults' >= faults
  BY <1>1, <1>4
<1> QED BY <1>2, <1>5, <1>7, <1>8, <1>9, <1>10, <1>11, <1>12, AnswersMove
-----------------------------------------------------------------------------
(* Results.                                                                   *)

(* user_cb is given the responses to the calls of a live request: all of them *)
(* while memory lasts.                                                        *)
LEMMA Delivered ==
    ASSUME TypeOK, TypeOK', NEW s \in Subs, SubSound(s), NEW d \in Documents, doc[s] = d,
           req[s].state = "live", answers[s] = << >>, doc' = doc, req'[s].state = "freed",
           faults' >= faults, NEW res \in Seq(Response) \cup {NULL}, UserCb(s, res),
           res = NULL => faults' > 0,
           res # NULL => Responding(res, d) /\ (faults' = 0 => Exhaustive(res, d))
    PROVE  SubSound(s)'
<1> DEFINE items == IF res = NULL THEN << >> ELSE res
           Put(i) == Cardinality({k \in DOMAIN items : items[k].id = i})
<1>1. faults' \in Nat
  BY DEF TypeOK
<1>2. \A i \in Indices : idrefs'[s][i] = idrefs[s][i] - Put(i)
  <2>1. idrefs' = [idrefs EXCEPT ![s] = [i \in Indices |-> @[i] - Put(i)]]
    BY DEF UserCb
  <2> HIDE DEF Put
  <2> QED BY <2>1 DEF TypeOK
<1>3. answers'[s] = <<res>>
  <2>1. answers' = [answers EXCEPT ![s] = Append(<< >>, res)]
    BY DEF UserCb
  <2> QED BY <2>1 DEF TypeOK
<1>4. ASSUME NEW i \in Indices
      PROVE  idrefs'[s][i] = 0 \/ (idrefs'[s][i] = 1 /\ faults' > 0)
  <2>1. idrefs[s][i] = IF i \in RequestCalls(d) THEN 1 ELSE 0
    BY DEF SubSound, BatchSound
  <2>2. CASE res = NULL
    <3>1. {k \in DOMAIN items : items[k].id = i} = {}
      BY <2>2
    <3>2. Put(i) = 0
      BY <3>1, FS_EmptySet
    <3> HIDE DEF Put
    <3> QED BY <1>2, <2>1, <2>2, <3>2
  <2>3. CASE res # NULL
    <3>1. items = res /\ items \in Seq(Response)
      BY <2>3
    <3>2. /\ Put(i) = 0 \/ (Put(i) = 1 /\ i \in RequestCalls(d))
          /\ i \in RequestCalls(d) /\ Exhaustive(items, d) => Put(i) = 1
      BY <2>3, <3>1, IdsPut
    <3> HIDE DEF Put, items
    <3> QED BY <1>1, <1>2, <2>1, <2>3, <3>1, <3>2
  <2> QED BY <2>2, <2>3
<1>5. BatchSound(s)' /\ IdsSound(s)'
  BY <1>4 DEF BatchSound, IdsSound
<1>6. DOMAIN answers'[s] = {1} /\ answers'[s][1] = res /\ answers'[s] # << >>
  BY <1>3
<1>7. AnswerMatches(s)'
  <2> SUFFICES ASSUME res # NULL, NEW l \in DOMAIN res
               PROVE  res[l].id = IF res[l].kind = "invalid_request" THEN 0 ELSE res[l].call
    BY <1>6 DEF AnswerMatches
  <2> QED BY DEF Responding, ResponseTo
<1>8. AnswerWhole(s)'
  <2> SUFFICES ASSUME faults' = 0
               PROVE  /\ res # NULL
                      /\ {res[k].call : k \in DOMAIN res} = Expected(d)
                      /\ Len(res) = Cardinality(Expected(d))
    BY <1>6 DEF AnswerWhole
  <2> QED BY AnswerLength
<1>9. AnswerSound(s)'
  BY <1>6 DEF AnswerSound, Responding
<1> QED BY <1>5, <1>7, <1>8, <1>9 DEF SubSound

(* A deferred response, and the request it is for.                            *)
LEMMA DeferredResponse ==
    ASSUME TypeOK, RequestInvariant, AnswerInvariant, NEW e \in queue, e.run = "return"
    PROVE  /\ e.req /\ e.sub \in Subs /\ e.call \in Outstanding(e.sub)
           /\ doc[e.sub] \in Documents /\ req[e.sub].state = "live" /\ answers[e.sub] = << >>
           /\ e.call \in Expected(doc[e.sub])
           /\ \A k \in KeptCalls(doc[e.sub]) : e.method_id = k
           /\ e.obj = NULL => faults > 0
           /\ e.obj # NULL => ResponseTo(e.obj, doc[e.sub], e.call) /\ e.obj \in Response
<1>1. e.req
  BY Zenon DEF RequestInvariant, OneReferencePerCall
<1>2. e.sub \in Subs /\ e.call \in Outstanding(e.sub)
  BY <1>1, OnlyReference, Zenon
<1>3. doc[e.sub] \in Documents /\ req[e.sub].state = "live" /\ answers[e.sub] = << >>
  BY <1>2, ReferredDocument, ReferredTo
<1>4. CallSound(e)
  BY <1>1, Zenon DEF AnswerInvariant
<1>5. e.obj \in Response \cup {NULL}
  BY DEF TypeOK, Deferred
<1>6. /\ e.call \in Expected(doc[e.sub])
      /\ \A k \in KeptCalls(doc[e.sub]) : e.method_id = k
      /\ IF e.obj = NULL THEN faults > 0 ELSE ResponseTo(e.obj, doc[e.sub], e.call)
  BY <1>4, Zenon DEF CallSound
<1> QED BY <1>1, <1>2, <1>3, <1>5, <1>6

(* The reference of a result goes, and no other.                              *)
LEMMA ResultReference ==
    ASSUME TypeOK, TypeOK', RequestInvariant, NEW e \in queue, e.req,
           queue' = queue \ {e}, held' = held
    PROVE  /\ \A s \in Subs \ {e.sub} : Outstanding(s)' = Outstanding(s)
           /\ Outstanding(e.sub)' = Outstanding(e.sub) \ {e.call}
<1>1. e.sub \in Subs
  BY OnlyReference
<1>2. /\ \A s \in Subs : Outstanding(s)' \subseteq Outstanding(s)
      /\ e.call \notin Outstanding(e.sub)'
  BY DroppedReference
<1>3. \A s \in Subs : \A c \in Outstanding(s) : c \in Outstanding(s)' \/ (s = e.sub /\ c = e.call)
  <2>1. /\ \A f \in queue \ queue' : f.req => f.sub = e.sub /\ f.call = e.call
        /\ \A h \in held \ held' : h = <<e.sub, e.call>>
    OBVIOUS
  <2> QED BY <1>1, <2>1, OutstandingKept
<1> QED BY <1>1, <1>2, <1>3

(* A result is delivered or collected: the request of e is sound, and the     *)
(* rest stays.                                                                *)
LEMMA AnswersResult ==
    ASSUME TypeOK, TypeOK', RequestInvariant, AnswerInvariant,
           NEW e \in queue, e.req, queue' = queue \ {e}, UNCHANGED <<methods, doc, held>>,
           faults' >= faults, SubSound(e.sub)',
           \A s \in Subs \ {e.sub} : /\ req'[s] = req[s] /\ answers'[s] = answers[s]
                                    /\ idrefs'[s] = idrefs[s]
    PROVE  AnswerInvariant'
<1>1. KeeperAlone /\ MethodsOffered /\ QueueSound /\ HeldSound /\ \A s \in Subs : SubSound(s)
  BY InvariantParts
<1>2. ASSUME NEW s \in Subs, s # e.sub PROVE SubSound(s)'
  <2>1. Outstanding(s)' = Outstanding(s)
    BY <1>2, ResultReference
  <2>2. req[s].state = "live" => \A i \in KeptCalls(doc[s]) : req'[s].method_id = i
    BY <1>1, <1>2 DEF SubSound, BatchSound
  <2>3. req'[s] = req[s] /\ answers'[s] = answers[s] /\ idrefs'[s] = idrefs[s] /\ doc'[s] = doc[s]
    BY <1>2
  <2> QED BY <1>1, <2>1, <2>2, <2>3, SubFrame
<1>3. QueueSound'
  <2>1. \A f \in queue' : f \in queue /\ doc'[f.sub] = doc[f.sub]
    OBVIOUS
  <2> QED BY <1>1, <2>1, QueueFrame, Zenon
<1>4. HeldSound' /\ MethodsOffered'
  BY <1>1 DEF HeldSound, MethodsOffered
<1> QED BY <1>1, <1>2, <1>3, <1>4, InvariantPartsNext

LEMMA AnswersSingle ==
    ASSUME TypeOK, TypeOK', RequestInvariant, AnswerInvariant, NEW e \in queue, SingleResult(e)
    PROVE  AnswerInvariant'
<1> DEFINE s == e.sub
           d == doc[s]
           res == IF e.obj = NULL THEN NULL ELSE <<e.obj>>
<1>1. /\ e.run = "return" /\ req[s].return_cb = "single" /\ queue' = queue \ {e}
      /\ UserCb(s, res) /\ UNCHANGED <<jr, methods, doc, held, faults>>
      /\ req' = [req EXCEPT ![s].method_id = e.method_id, ![s].state = "freed"]
  BY DEF SingleResult
<1>2. /\ e.req /\ s \in Subs /\ d \in Documents /\ req[s].state = "live" /\ answers[s] = << >>
      /\ e.obj = NULL => faults > 0
      /\ e.obj # NULL => ResponseTo(e.obj, d, e.call) /\ e.obj \in Response
      /\ e.call \in Expected(d)
  BY <1>1, DeferredResponse
<1>3. SubSound(s)
  BY <1>2, InvariantParts
<1>4. Expected(d) = {1}
  BY <1>1, <1>2, <1>3 DEF SubSound, BatchSound
<1>5. req'[s].state = "freed" /\ faults' >= faults /\ faults' = faults
  BY <1>1, <1>2 DEF TypeOK, Request
<1>6. \A t \in Subs \ {s} : req'[t] = req[t] /\ answers'[t] = answers[t] /\ idrefs'[t] = idrefs[t]
  BY <1>1, <1>2 DEF TypeOK, UserCb
<1>7. /\ res \in Seq(Response) \cup {NULL}
      /\ res = NULL => faults' > 0
      /\ res # NULL => Responding(res, d) /\ Exhaustive(res, d)
  <2>1. CASE e.obj = NULL
    BY <1>2, <1>5, <2>1
  <2>2. CASE e.obj # NULL
    <3>1. res = <<e.obj>> /\ DOMAIN res = {1} /\ res[1] = e.obj
      BY <2>2
    <3>2. res \in Seq(Response)
      BY <1>2, <2>2, <3>1
    <3>3. e.obj.call = e.call /\ e.call = 1
      BY <1>2, <1>4, <2>2 DEF ResponseTo
    <3>4. Responding(res, d) /\ Exhaustive(res, d)
      BY <1>2, <1>4, <2>2, <3>1, <3>3 DEF Responding, Exhaustive
    <3>5. res # NULL
      BY <3>2, NullAssumption
    <3> QED BY <3>2, <3>4, <3>5
  <2> QED BY <2>1, <2>2
<1> HIDE DEF s, d, res
<1>8. SubSound(s)'
  BY <1>1, <1>2, <1>3, <1>5, <1>7, Delivered DEF d
<1> QED BY <1>1, <1>2, <1>5, <1>6, <1>8, AnswersResult DEF s

(* batched_result_cb adds the response to result_batch, or memory ran out.    *)
LEMMA BatchGrows ==
    ASSUME TypeOK, TypeOK', RequestInvariant, AnswerInvariant, NEW e \in queue, e.run = "return",
           req[e.sub].return_cb = "batched",
           NEW batch \in {req[e.sub].result_batch} \cup
                         (IF e.obj = NULL THEN {} ELSE {Append(req[e.sub].result_batch, e.obj)}),
           Fail(IF e.obj # NULL /\ batch = req[e.sub].result_batch THEN 1 ELSE 0)
    PROVE  /\ faults' >= faults /\ batch \in Seq(Response) /\ Responding(batch, doc[e.sub])
           /\ \A k \in DOMAIN batch : batch[k].call \notin Outstanding(e.sub) \ {e.call}
           /\ faults' = 0 =>
                 /\ Len(batch) = req[e.sub].result_count + 1
                 /\ \A i \in Expected(doc[e.sub]) :
                       \/ i \in Outstanding(e.sub) \ {e.call}
                       \/ \E k \in DOMAIN batch : batch[k].call = i
<1> DEFINE s == e.sub
           b == req[s].result_batch
           d == doc[s]
           O == Outstanding(s)
<1>1. /\ s \in Subs /\ e.call \in O /\ d \in Documents /\ req[s].state = "live"
      /\ e.call \in Expected(d)
      /\ e.obj = NULL => faults > 0
      /\ e.obj # NULL => ResponseTo(e.obj, d, e.call) /\ e.obj \in Response
  BY DeferredResponse
<1>2. b \in Seq(Response) /\ req[s].result_count \in Nat
  BY <1>1 DEF TypeOK, Request
<1>3. SubSound(s)
  BY <1>1, InvariantParts
<1>4. /\ Responding(b, d)
      /\ \A k \in DOMAIN b : b[k].call \notin O
      /\ faults = 0 =>
            /\ Len(b) = req[s].result_count
            /\ \A i \in Expected(d) : i \in O \/ \E k \in DOMAIN b : b[k].call = i
  BY <1>1, <1>3 DEF SubSound, BatchSound, Responding
<1>5. faults' >= faults /\ faults' \in Nat /\ faults \in Nat
  BY DEF Fail, TypeOK
<1>f. Fail(IF e.obj # NULL /\ batch = b THEN 1 ELSE 0)
  OBVIOUS
<1>b. batch = b \/ (e.obj # NULL /\ batch = Append(b, e.obj))
  OBVIOUS
<1> HIDE DEF s, b, d, O
<1>6. CASE batch = b
  <2>1. faults' > 0
    BY <1>1, <1>5, <1>6, <1>f DEF Fail
  <2> QED BY <1>2, <1>4, <1>5, <1>6, <2>1 DEF s, d, O
<1>7. CASE e.obj # NULL /\ batch = Append(b, e.obj)
  <2>1. ResponseTo(e.obj, d, e.call) /\ e.obj \in Response /\ e.obj.call = e.call
    BY <1>1, <1>7 DEF ResponseTo
  <2>2. \A k \in DOMAIN b : b[k].call # e.call
    BY <1>1, <1>4
  <2>3. /\ batch \in Seq(Response) /\ Len(batch) = Len(b) + 1
        /\ Responding(batch, d)
        /\ \A k \in DOMAIN batch : (k \in DOMAIN b /\ batch[k] = b[k]) \/ batch[k] = e.obj
        /\ \A i : i = e.call \/ (\E k \in DOMAIN b : b[k].call = i) =>
              \E k \in DOMAIN batch : batch[k].call = i
    <3> DEFINE o == e.obj
    <3>1. /\ o \in Response /\ o.call \in Expected(d) /\ ResponseTo(o, d, o.call)
          /\ \A k \in DOMAIN b : b[k].call # o.call
      BY <1>1, <2>1, <2>2
    <3>2. batch = Append(b, o) /\ o.call = e.call
      BY <1>7, <2>1
    <3> HIDE DEF o
    <3>3. /\ batch \in Seq(Response) /\ Len(batch) = Len(b) + 1
          /\ Responding(batch, d)
          /\ \A k \in DOMAIN batch : (k \in DOMAIN b /\ batch[k] = b[k]) \/ batch[k] = o
          /\ \A i : i = o.call \/ (\E k \in DOMAIN b : b[k].call = i) =>
                \E k \in DOMAIN batch : batch[k].call = i
      <4>1. d \in Documents /\ b \in Seq(Response) /\ Responding(b, d)
        BY <1>1, <1>2, <1>4
      <4>2. /\ Append(b, o) \in Seq(Response) /\ Len(Append(b, o)) = Len(b) + 1
            /\ Responding(Append(b, o), d)
            /\ \A k \in DOMAIN Append(b, o) : \/ k \in DOMAIN b /\ Append(b, o)[k] = b[k]
                                              \/ Append(b, o)[k] = o
            /\ \A i : i = o.call \/ (\E k \in DOMAIN b : b[k].call = i) =>
                  \E k \in DOMAIN Append(b, o) : Append(b, o)[k].call = i
        BY <3>1, <4>1, ResponseAdded
      <4> QED BY <3>2, <4>2, Zenon
    <3> QED BY <3>2, <3>3 DEF o
  <2>4. \A k \in DOMAIN batch : batch[k].call \notin O \ {e.call}
    <3> SUFFICES ASSUME NEW k \in DOMAIN batch PROVE batch[k].call \notin O \ {e.call}
      OBVIOUS
    <3>1. CASE k \in DOMAIN b /\ batch[k] = b[k]
      BY <1>4, <3>1
    <3>2. CASE batch[k] = e.obj
      BY <2>1, <3>2
    <3> QED BY <2>3, <3>1, <3>2
  <2>5. ASSUME faults' = 0
        PROVE  /\ Len(batch) = req[s].result_count + 1
               /\ \A i \in Expected(d) :
                     i \in O \ {e.call} \/ \E k \in DOMAIN batch : batch[k].call = i
    <3>1. faults = 0
      BY <1>5, <2>5
    <3>2. Len(batch) = req[s].result_count + 1
      BY <1>4, <2>3, <3>1
    <3>3. ASSUME NEW i \in Expected(d), i \notin O \ {e.call}
          PROVE  \E k \in DOMAIN batch : batch[k].call = i
      <4>1. i = e.call \/ \E k \in DOMAIN b : b[k].call = i
        BY <1>4, <3>1, <3>3
      <4> QED BY <2>3, <4>1, Zenon
    <3> QED BY <3>2, <3>3
  <2> QED BY <1>5, <2>3, <2>4, <2>5 DEF s, d, O
<1> QED BY <1>b, <1>6, <1>7

LEMMA AnswersBatched ==
    ASSUME TypeOK, TypeOK', RequestInvariant, AnswerInvariant, NEW e \in queue, BatchedResult(e)
    PROVE  AnswerInvariant'
<1> DEFINE s == e.sub
           r == req[s]
           d == doc[s]
           last == r.result_count + 1 = r.waiting_result_count
<1>1. /\ e.run = "return" /\ r.return_cb = "batched" /\ queue' = queue \ {e}
      /\ UNCHANGED <<jr, methods, doc, held>>
  BY DEF BatchedResult
<1>2. PICK batch \in {r.result_batch} \cup
                     (IF e.obj = NULL THEN {} ELSE {Append(r.result_batch, e.obj)}) :
        /\ Fail(IF e.obj # NULL /\ batch = r.result_batch THEN 1 ELSE 0)
        /\ req' = [req EXCEPT ![s] =
              [r EXCEPT !.method_id = e.method_id, !.result_batch = batch,
                        !.result_count = @ + 1,
                        !.state = IF last THEN "freed" ELSE @]]
        /\ IF last THEN UserCb(s, batch) ELSE UNCHANGED <<answers, idrefs>>
  BY DEF BatchedResult
<1>3. /\ e.req /\ s \in Subs /\ d \in Documents /\ r.state = "live" /\ answers[s] = << >>
      /\ \A k \in KeptCalls(d) : e.method_id = k
  BY <1>1, DeferredResponse
<1>4. /\ faults' >= faults /\ batch \in Seq(Response) /\ Responding(batch, d)
      /\ \A k \in DOMAIN batch : batch[k].call \notin Outstanding(s) \ {e.call}
      /\ faults' = 0 =>
            /\ Len(batch) = r.result_count + 1
            /\ \A i \in Expected(d) :
                  i \in Outstanding(s) \ {e.call} \/ \E k \in DOMAIN batch : batch[k].call = i
  BY <1>1, <1>2, BatchGrows
<1>5. SubSound(s)
  BY <1>3, InvariantParts
<1>6. r.waiting_result_count = Cardinality(Expected(d)) /\ r.result_count < r.waiting_result_count
  BY <1>1, <1>3, <1>5 DEF SubSound, BatchSound
<1>7. r.result_count \in Nat /\ r.waiting_result_count \in Nat
  BY <1>3 DEF TypeOK, Request
<1>8. /\ req'[s].return_cb = "batched" /\ req'[s].result_count = r.result_count + 1
      /\ req'[s].waiting_result_count = r.waiting_result_count
      /\ req'[s].method_id = e.method_id /\ req'[s].result_batch = batch
      /\ req'[s].state = IF last THEN "freed" ELSE "live"
  <2> DEFINE n == r.result_count + 1
             st == IF last THEN "freed" ELSE r.state
  <2>1. req'[s] = [r EXCEPT !.method_id = e.method_id, !.result_batch = batch,
                            !.result_count = n, !.state = st]
    BY <1>2, <1>3 DEF TypeOK
  <2>2. r \in Request
    BY <1>3 DEF TypeOK
  <2> HIDE DEF r, n, st
  <2>3. /\ req'[s].return_cb = r.return_cb /\ req'[s].result_count = n
        /\ req'[s].waiting_result_count = r.waiting_result_count
        /\ req'[s].method_id = e.method_id /\ req'[s].result_batch = batch
        /\ req'[s].state = st
    BY <2>1, <2>2, SMTT(30) DEF Request
  <2> QED BY <1>1, <1>3, <2>3 DEF n, st
<1>9. \A t \in Subs \ {s} : req'[t] = req[t] /\ answers'[t] = answers[t] /\ idrefs'[t] = idrefs[t]
  BY <1>2, <1>3 DEF TypeOK, UserCb
<1>10. Outstanding(s)' = Outstanding(s) \ {e.call}
  BY <1>1, <1>3, ResultReference
<1> HIDE DEF s, r, d
<1>11. CASE last
  <2>1. RequestInvariant'
    BY CountsBatched
  <2>2. Outstanding(s)' = {}
    BY <1>3, <1>8, <1>11, <2>1 DEF RequestInvariant, RequestCounts
  <2>3. faults' = 0 => Exhaustive(batch, d)
    BY <1>4, <1>10, <2>2 DEF Exhaustive
  <2>4. batch # NULL /\ UserCb(s, batch)
    BY <1>2, <1>4, <1>11, NullAssumption
  <2> HIDE DEF last
  <2>5. SubSound(s)'
    <3>1. req[s].state = "live" /\ doc[s] = d
      BY <1>3 DEF r, d
    <3>2. req'[s].state = "freed" /\ doc' = doc
      BY <1>1, <1>8, <1>11
    <3> QED BY <1>3, <1>4, <1>5, <2>3, <2>4, <3>1, <3>2, Delivered
  <2> QED BY <1>1, <1>3, <1>4, <1>9, <2>5, AnswersResult DEF s
<1>12. CASE ~last
  <2>1. req'[s].state = "live" /\ doc' = doc /\ answers' = answers /\ idrefs' = idrefs
    BY <1>1, <1>2, <1>8, <1>12
  <2>2. req'[s].result_count < req'[s].waiting_result_count
    BY <1>6, <1>7, <1>8, <1>12
  <2>3. \A i \in Indices : idrefs[s][i] = IF i \in RequestCalls(d) THEN 1 ELSE 0
    BY <1>3, <1>5 DEF SubSound, BatchSound, r, d
  <2> HIDE DEF last
  <2>4. BatchSound(s)'
    <3>1. doc'[s] = d
      BY <2>1 DEF d
    <3>2. \A i \in KeptCalls(d) : req'[s].method_id = i
      BY <1>3, <1>8
    <3>3. \A k \in DOMAIN batch :
            batch[k].call \in Expected(d) \ Outstanding(s)' /\ ResponseTo(batch[k], d, batch[k].call)
      BY <1>4, <1>10 DEF Responding
    <3>4. \A k, l \in DOMAIN batch : batch[k].call = batch[l].call => k = l
      BY <1>4 DEF Responding
    <3>5. faults' = 0 =>
            /\ Len(batch) = req'[s].result_count
            /\ \A i \in Expected(d) \ Outstanding(s)' : \E k \in DOMAIN batch : batch[k].call = i
      BY <1>4, <1>8, <1>10
    <3> QED BY <1>6, <1>8, <2>1, <2>2, <2>3, <3>1, <3>2, <3>3, <3>4, <3>5 DEF BatchSound
  <2>5. SubSound(s)'
    <3>1. answers'[s] = << >>
      BY <1>3, <2>1
    <3> QED BY <2>1, <2>4, <3>1 DEF SubSound, IdsSound, AnswerSound, AnswerMatches, AnswerWhole
  <2> QED BY <1>1, <1>3, <1>4, <1>9, <2>5, AnswersResult DEF s
<1> QED BY <1>11, <1>12
-----------------------------------------------------------------------------
(* Processing a document.                                                     *)

(* The other submissions do not see a document come.                          *)
LEMMA OthersUndisturbed ==
    ASSUME TypeOK, TypeOK', AnswerInvariant, NEW s \in Subs, queue \subseteq queue',
           \A e \in queue' \ queue : e.sub = s, held' = held, faults' >= faults,
           \A t \in Subs \ {s} : /\ doc'[t] = doc[t] /\ req'[t] = req[t]
                                /\ answers'[t] = answers[t] /\ idrefs'[t] = idrefs[t]
    PROVE  \A t \in Subs \ {s} : SubSound(t)'
<1> TAKE t \in Subs \ {s}
<1>1. SubSound(t)
  BY InvariantParts
<1>2. \A c \in Indices : (\E e \in queue : e.req /\ e.sub = t /\ e.call = c)
                         <=> (\E e \in queue' : e.req /\ e.sub = t /\ e.call = c)
  <2> TAKE c \in Indices
  <2>1. ASSUME NEW e \in queue', e.req, e.sub = t, e.call = c
        PROVE  \E f \in queue : f.req /\ f.sub = t /\ f.call = c
    <3>1. e \in queue
      BY <2>1
    <3> QED BY <2>1, <3>1, Zenon
  <2>2. ASSUME NEW e \in queue, e.req, e.sub = t, e.call = c
        PROVE  \E f \in queue' : f.req /\ f.sub = t /\ f.call = c
    <3>1. e \in queue'
      BY <2>2
    <3> QED BY <2>2, <3>1, Zenon
  <2> QED BY <2>1, <2>2, Zenon
<1>3. OutstandingIn(queue', held', t) = OutstandingIn(queue, held, t)
  BY <1>2 DEF OutstandingIn
<1>4. Outstanding(t)' = Outstanding(t)
  BY <1>3, OutstandingNow, OutstandingNext DEF OutstandingSound
<1>5. req[t].state = "live" => \A i \in KeptCalls(doc[t]) : req'[t].method_id = i
  BY <1>1 DEF SubSound, BatchSound
<1> QED BY <1>1, <1>4, <1>5, SubFrame

(* The calls that are deferred, and that their request waits for, are all     *)
(* that expect a result while memory lasts.                                   *)
LEMMA AnswersDispatched ==
    ASSUME TypeOK, TypeOK', RequestInvariant, AnswerInvariant, NEW s \in Subs, NEW d \in Documents,
           Submit(s, d), DispatchCalls(s, d), UNCHANGED answers,
           NEW cb \in {"single", "batched"}, NEW n \in Nat,
           req' = [req EXCEPT ![s] = Processed(cb, d, n)],
           cb = "single" => Expected(d) \subseteq {1},
           cb = "batched" => n = Cardinality(Expected(d))
    PROVE  AnswerInvariant'
<1>1. /\ doc[s] = NULL /\ doc' = [doc EXCEPT ![s] = d] /\ held' = held /\ methods' = methods
  BY DEF Submit
<1>2. KeeperAlone /\ MethodsOffered /\ QueueSound /\ HeldSound
  BY InvariantParts
<1>3. /\ answers[s] = << >>
      /\ \A e \in queue : e.sub = s => ~e.req
      /\ \A i : <<s, i>> \notin held
  BY <1>1, NothingBefore, Zenon
<1>4. queue \subseteq queue'
  BY DispatchCallsType
<1>5. /\ faults' \in Nat /\ faults' >= faults
      /\ \A e \in queue' \ queue : e.sub = s /\ (e.req => SoundFor(e, d, e.call, faults' > 0))
      /\ faults' = 0 => \A i \in Expected(d) : \E e \in queue' : e.req /\ e.sub = s /\ e.call = i
      /\ idrefs' = [idrefs EXCEPT ![s] = [i \in Indices |-> IF i \in RequestCalls(d) THEN 1 ELSE 0]]
  BY <1>2, DispatchCallsSound
<1>6. \A t \in Subs \ {s} : SubSound(t)'
  <2>1. \A t \in Subs \ {s} : /\ doc'[t] = doc[t] /\ req'[t] = req[t]
                              /\ answers'[t] = answers[t] /\ idrefs'[t] = idrefs[t]
    BY <1>1, <1>5 DEF TypeOK
  <2> QED BY <1>1, <1>4, <1>5, <2>1, OthersUndisturbed
<1>7. SubSound(s)'
  <2>1. doc'[s] = d /\ answers'[s] = << >>
    BY <1>1, <1>3 DEF TypeOK
  <2>2. \A i \in Indices : idrefs'[s][i] = IF i \in RequestCalls(d) THEN 1 ELSE 0
    BY <1>5 DEF TypeOK
  <2>3. req'[s] = Processed(cb, d, n)
    BY DEF TypeOK
  <2>4. /\ req'[s].return_cb = cb /\ req'[s].waiting_result_count = n
        /\ req'[s].result_count = 0
        /\ req'[s].state = IF Expected(d) = {} THEN "freed" ELSE "live"
    BY <2>3, ProcessedType
  <2>5. req'[s].result_batch = << >> /\ req'[s].method_id = MethodIdAt(d, Len(Calls(d)))
    BY <2>3 DEF Processed, NewRequest
  <2>6. CASE Expected(d) = {}
    <3>1. RequestCalls(d) = {}
      BY <2>6, RequestsExpected
    <3> QED BY <2>1, <2>2, <2>4, <2>6, <3>1
            DEF SubSound, BatchSound, IdsSound, AnswerSound, AnswerMatches, AnswerWhole
  <2>7. CASE Expected(d) # {}
    <3>1. \A i \in KeptCalls(d) : req'[s].method_id = i
      <4> TAKE i \in KeptCalls(d)
      <4>1. i \in 1 .. Len(Calls(d)) /\ Len(Calls(d)) \in Nat
        BY RequestsExpected
      <4> QED BY <1>2, <2>5, <4>1, MethodIdKept
    <3>2. ASSUME faults' = 0 PROVE \A i \in Expected(d) : i \in Outstanding(s)'
      <4> SUFFICES ASSUME NEW i \in Expected(d) PROVE i \in OutstandingIn(queue', held', s)
        BY OutstandingNext DEF OutstandingSound
      <4>1. i \in Indices
        BY CallIndices
      <4>2. \E e \in queue' : e.req /\ e.sub = s /\ e.call = i
        BY <1>5, <3>2
      <4> QED BY <4>1, <4>2 DEF OutstandingIn
    <3>3. IF cb = "single" THEN Expected(d) = {1}
          ELSE n = Cardinality(Expected(d)) /\ 0 < n
      <4>1. Cardinality(Expected(d)) \in Nat /\ Cardinality(Expected(d)) # 0
        BY <2>7, ExpectedCount, FS_EmptySet
      <4> QED BY <2>7, <4>1
    <3>4. req'[s].state = "live" /\ DOMAIN req'[s].result_batch = {} /\ Len(req'[s].result_batch) = 0
      BY <2>4, <2>5, <2>7
    <3>5. BatchSound(s)'
      BY <2>1, <2>2, <2>4, <2>5, <3>1, <3>2, <3>3, <3>4 DEF BatchSound
    <3> QED BY <2>1, <3>4, <3>5 DEF SubSound, IdsSound, AnswerSound, AnswerMatches, AnswerWhole
  <2> QED BY <2>6, <2>7
<1>8. QueueSound'
  <2>1. ASSUME NEW e \in queue', e.req
        PROVE  \/ e \in queue /\ doc'[e.sub] = doc[e.sub]
               \/ SoundFor(e, doc'[e.sub], e.call, faults' > 0)
    <3>1. CASE e \in queue
      <4>1. e.sub # s /\ e.sub \in Subs
        BY <1>3, <2>1, <3>1, Zenon DEF TypeOK, Deferred
      <4> QED BY <1>1, <3>1, <4>1 DEF TypeOK
    <3>2. CASE e \notin queue
      <4>1. e \in queue' \ queue
        BY <3>2
      <4>2. e.sub = s /\ SoundFor(e, d, e.call, faults' > 0)
        BY <1>5, <2>1, <4>1, Zenon
      <4>3. doc'[s] = d
        BY <1>1 DEF TypeOK
      <4> QED BY <4>2, <4>3, Zenon
    <3> QED BY <3>1, <3>2
  <2> QED BY <1>2, <1>5, <2>1, QueueFrame, Zenon
<1>9. HeldSound'
  <2> SUFFICES ASSUME NEW h \in held PROVE h[2] \in KeptCalls(doc'[h[1]])
    BY <1>1 DEF HeldSound
  <2>1. h[1] # s /\ h[1] \in Subs
    BY <1>3 DEF TypeOK
  <2>2. doc'[h[1]] = doc[h[1]]
    BY <1>1, <2>1 DEF TypeOK
  <2> QED BY <1>2, <2>2 DEF HeldSound
<1>10. MethodsOffered'
  BY <1>1, <1>2 DEF MethodsOffered
<1> QED BY <1>2, <1>6, <1>7, <1>8, <1>9, <1>10, InvariantPartsNext

(* A document that is refused is answered with an error for no call of it.    *)
LEMMA AnswersRefused ==
    ASSUME TypeOK, TypeOK', RequestInvariant, AnswerInvariant, NEW s \in Subs, NEW d \in Documents,
           Submit(s, d), NEW k \in {"invalid_request", "internal_error"}, NEW n \in Nat,
           ProcessErrorFinal(s, k, n)
    PROVE  AnswerInvariant'
<1>1. /\ doc[s] = NULL /\ doc' = [doc EXCEPT ![s] = d] /\ held' = held /\ methods' = methods
      /\ UNCHANGED <<req, queue>>
  BY DEF Submit, ProcessErrorFinal
<1>2. KeeperAlone /\ MethodsOffered /\ QueueSound /\ HeldSound /\ SubSound(s)
  BY InvariantParts
<1>3. /\ answers[s] = << >> /\ req[s].state = "none"
      /\ \A e \in queue : e.sub = s => ~e.req
      /\ \A i : <<s, i>> \notin held
  BY <1>1, NothingBefore, Zenon
<1>4. faults' >= faults /\ faults \in Nat /\ faults' \in Nat
  BY DEF ProcessErrorFinal, Fail, TypeOK
<1>5. PICK res \in {<<Answer(k, 0, 0)>>, NULL} : UserCb(s, res)
  BY DEF ProcessErrorFinal
<1> DEFINE items == IF res = NULL THEN << >> ELSE res
           Put(i) == Cardinality({j \in DOMAIN items : items[j].id = i})
<1>6. /\ Answer(k, 0, 0).id = 0 /\ Answer(k, 0, 0).call = 0 /\ Answer(k, 0, 0).kind # "result"
      /\ <<Answer(k, 0, 0)>> # NULL
  <2>1. /\ Answer(k, 0, 0) \in Response /\ Answer(k, 0, 0).id = 0 /\ Answer(k, 0, 0).call = 0
        /\ Answer(k, 0, 0).kind # "result"
    BY AnswerNotNull
  <2>2. <<Answer(k, 0, 0)>> \in Seq(Response)
    BY <2>1
  <2> QED BY <2>1, <2>2, NullAssumption
<1>7. \A j \in DOMAIN items :
        items[j].id = 0 /\ items[j].call = 0 /\ items[j].kind # "result"
  <2> DEFINE a == Answer(k, 0, 0)
  <2>1. items = << >> \/ items = <<a>>
    BY <1>5
  <2> HIDE DEF a, items
  <2>2. CASE items = << >>
    BY <2>2
  <2>3. CASE items = <<a>>
    <3>1. \A j \in DOMAIN items : items[j] = a
      BY <2>3
    <3> QED BY <1>6, <3>1 DEF a
  <2> QED BY <2>1, <2>2, <2>3
<1> HIDE DEF items
<1>8. \A i \in Indices : Put(i) = 0
  <2> TAKE i \in Indices
  <2>1. {j \in DOMAIN items : items[j].id = i} = {}
    BY <1>7 DEF Indices
  <2> QED BY <2>1, FS_EmptySet
<1>9. idrefs' = [idrefs EXCEPT ![s] = [i \in Indices |-> @[i] - Put(i)]]
  BY <1>5 DEF UserCb, items
<1> HIDE DEF Put
<1>10. \A i \in Indices : idrefs'[s][i] = idrefs[s][i]
  BY <1>8, <1>9 DEF TypeOK
<1>11. answers' = [answers EXCEPT ![s] = Append(<< >>, res)]
  BY <1>3, <1>5 DEF UserCb
<1>12. \A t \in Subs \ {s} : SubSound(t)'
  <2>1. \A t \in Subs \ {s} : /\ doc'[t] = doc[t] /\ req'[t] = req[t]
                              /\ answers'[t] = answers[t] /\ idrefs'[t] = idrefs[t]
    BY <1>1, <1>9, <1>11 DEF TypeOK
  <2>2. queue \subseteq queue' /\ \A e \in queue' \ queue : e.sub = s
    BY <1>1
  <2> QED BY <1>1, <1>4, <2>1, <2>2, OthersUndisturbed
<1>13. SubSound(s)'
  <2>1. DOMAIN answers'[s] = {1} /\ answers'[s][1] = res
    BY <1>11 DEF TypeOK
  <2>2. req'[s].state = "none"
    BY <1>1, <1>3
  <2>3. AnswerMatches(s)'
    <3> SUFFICES ASSUME res # NULL, NEW l \in DOMAIN res
                 PROVE  res[l].id = IF res[l].kind = "invalid_request" THEN 0 ELSE res[l].call
      BY <2>1 DEF AnswerMatches
    <3> QED BY <1>7 DEF items
  <2>4. IdsSound(s)'
    BY <1>2, <1>3, <1>4, <1>10 DEF SubSound, IdsSound
  <2>5. AnswerSound(s)'
    <3> SUFFICES ASSUME res # NULL, NEW l \in DOMAIN res
                 PROVE  res[l].kind # "result" /\ res[l].id = 0
      BY <2>1, <2>2 DEF AnswerSound
    <3> QED BY <1>7 DEF items
  <2> QED BY <2>2, <2>3, <2>4, <2>5 DEF SubSound, BatchSound, AnswerWhole
<1>14. QueueSound'
  <2>1. ASSUME NEW e \in queue', e.req
        PROVE  e \in queue /\ doc'[e.sub] = doc[e.sub]
    <3>1. e \in queue /\ e.sub # s /\ e.sub \in Subs
      BY <1>1, <1>3, <2>1, Zenon DEF TypeOK, Deferred
    <3> QED BY <1>1, <3>1 DEF TypeOK
  <2> QED BY <1>2, <1>4, <2>1, QueueFrame, Zenon
<1>15. HeldSound'
  <2> SUFFICES ASSUME NEW h \in held PROVE h[2] \in KeptCalls(doc'[h[1]])
    BY <1>1 DEF HeldSound
  <2>1. h[1] # s /\ h[1] \in Subs
    BY <1>3 DEF TypeOK
  <2>2. doc'[h[1]] = doc[h[1]]
    BY <1>1, <2>1 DEF TypeOK
  <2> QED BY <1>2, <2>2 DEF HeldSound
<1>16. MethodsOffered'
  BY <1>1, <1>2 DEF MethodsOffered
<1> QED BY <1>2, <1>12, <1>13, <1>14, <1>15, <1>16, InvariantPartsNext

LEMMA AnswersProcess ==
    ASSUME TypeOK, TypeOK', RequestInvariant, AnswerInvariant,
           NEW s \in Subs, NEW d \in Documents, Process(s, d)
    PROVE  AnswerInvariant'
<1>1. CASE ProcessSingleCall(s, d)
  <2>1. Calls(d) = <<d>>
    BY <1>1 DEF ProcessSingleCall, Calls
  <2>2. Expected(d) \subseteq {1}
    BY <2>1, CallIndices
  <2> QED BY <1>1, <2>2, AnswersDispatched DEF ProcessSingleCall
<1>2. CASE ProcessBatchedCall(s, d)
  <2>1. Cardinality(Expected(d)) \in Nat
    BY ExpectedCount
  <2> QED BY <1>2, <2>1, AnswersDispatched DEF ProcessBatchedCall
<1>3. CASE ProcessInvalid(s, d)
  BY <1>3, AnswersRefused DEF ProcessInvalid
<1>4. CASE ProcessNoMemory(s, d)
  BY <1>4, AnswersRefused DEF ProcessNoMemory
<1> QED BY <1>1, <1>2, <1>3, <1>4 DEF Process
-----------------------------------------------------------------------------
(* The inductive invariant.                                                   *)

LEMMA AnswersStep ==
    TypeOK /\ TypeOK' /\ RequestInvariant /\ AnswerInvariant /\ [Next]_vars => AnswerInvariant'
<1> SUFFICES ASSUME TypeOK, TypeOK', RequestInvariant, AnswerInvariant, [Next]_vars
             PROVE  AnswerInvariant'
  OBVIOUS
<1>0. MethodsOffered /\ \A e \in queue \ queue : ~e.req
  BY InvariantParts
<1>1. ASSUME NEW n \in MethodNames, NEW h \in Handlers, AddMethod(n, h) PROVE AnswerInvariant'
  <2>1. /\ methods' = [methods EXCEPT ![n] = <<h>> \o @] /\ <<n, h>> \in Offers
        /\ UNCHANGED <<doc, req, queue, held, idrefs, answers, faults>>
    BY <1>1 DEF AddMethod
  <2>2. MethodsOffered'
    <3> SUFFICES ASSUME NEW m \in MethodNames, NEW k \in DOMAIN methods'[m]
                 PROVE  <<m, methods'[m][k]>> \in Offers
      BY DEF MethodsOffered
    <3>1. CASE m # n
      BY <1>0, <2>1, <3>1 DEF MethodsOffered, TypeOK
    <3>2. CASE m = n
      <4> DEFINE q == methods[n]
      <4>1. q \in Seq(Handlers) /\ methods'[n] = <<h>> \o q
        BY <2>1 DEF TypeOK
      <4>2. \A j \in DOMAIN q : <<n, q[j]>> \in Offers
        BY <1>0 DEF MethodsOffered
      <4> HIDE DEF q
      <4>3. methods'[n][k] = h \/ (k - 1 \in DOMAIN q /\ methods'[n][k] = q[k - 1])
        BY <3>2, <4>1
      <4> QED BY <2>1, <3>2, <4>2, <4>3
    <3> QED BY <3>1, <3>2
  <2> QED BY <1>0, <2>1, <2>2, AnswersQuiet
<1>2. ASSUME NEW n \in MethodNames, DelMethod(n) PROVE AnswerInvariant'
  <2>1. methods' = [methods EXCEPT ![n] = << >>]
    BY <1>2 DEF DelMethod
  <2>2. MethodsOffered'
    BY <1>0, <2>1 DEF MethodsOffered, TypeOK
  <2> QED BY <1>0, <1>2, <2>2, AnswersQuiet DEF DelMethod
<1>3. CASE JsonRpcFree
  <2>1. MethodsOffered'
    BY <1>3 DEF JsonRpcFree, MethodsOffered
  <2> QED BY <1>0, <1>3, <2>1, AnswersQuiet DEF JsonRpcFree
<1>4. ASSUME NEW e \in queue, RunNotification(e) PROVE AnswerInvariant'
  <2>1. MethodsOffered'
    BY <1>0, <1>4 DEF RunNotification, MethodsOffered
  <2>2. queue' \subseteq queue /\ \A f \in queue \ queue' : ~f.req
    BY <1>4, Zenon DEF RunNotification
  <2> QED BY <1>4, <2>1, <2>2, AnswersQuiet DEF RunNotification
<1>5. CASE UNCHANGED vars
  <2>1. MethodsOffered'
    BY <1>0, <1>5 DEF vars, MethodsOffered
  <2> QED BY <1>0, <1>5, <2>1, AnswersQuiet DEF vars
<1>6. ASSUME NEW e \in queue, RunDeferred(e) PROVE AnswerInvariant'
  BY <1>4, <1>6, AnswersKeeper, AnswersMethod, AnswersSingle, AnswersBatched DEF RunDeferred
<1> QED BY <1>1, <1>2, <1>3, <1>5, <1>6, AnswersProcess, AnswersReturnLater DEF Next

(* Every answer is followed from the dispatch of its call to user_cb.         *)
THEOREM AnswersCorrect == KeeperAlone /\ Spec => []AnswerInvariant
<1>1. KeeperAlone /\ Init => AnswerInvariant
  BY AnswersInit
<1>2. TypeOK /\ TypeOK' /\ RequestInvariant /\ AnswerInvariant /\ [Next]_vars => AnswerInvariant'
  BY AnswersStep
<1> QED BY <1>1, <1>2, TypeCorrect, CountsCorrect, PTL DEF Spec

(* A response carries the id of the call whose outcome it is, in whatever     *)
(* order the deferred calls of a batch ran.                                   *)
THEOREM IdsMatch == KeeperAlone /\ Spec => []ResponseIdsMatch
<1>1. AnswerInvariant => ResponseIdsMatch
  BY DEF AnswerInvariant
<1> QED BY <1>1, AnswersCorrect, PTL

(* While memory lasts a processed document is answered with one response for  *)
(* every call that is not a notification, and with no other, where a method   *)
(* that keeps its request is alone with it (KeeperAlone).                     *)
THEOREM AnswersComplete == KeeperAlone /\ Spec => []AnswerComplete
<1>1. AnswerInvariant => AnswerComplete
  BY DEF AnswerInvariant
<1> QED BY <1>1, AnswersCorrect, PTL

(* A request to which nothing refers any more was freed, unless a result was  *)
(* lost: result_count has then reached waiting_result_count.                  *)
LEMMA NothingLeftUnanswered ==
    ASSUME TypeOK, RequestInvariant, AnswerInvariant, NEW s \in Subs, faults = 0,
           Outstanding(s) = {}
    PROVE  req[s].state # "live"
<1> SUFFICES ASSUME req[s].state = "live" PROVE FALSE
  OBVIOUS
<1> DEFINE b == req[s].result_batch
           d == doc[s]
<1>1. d \in Documents
  BY DEF RequestInvariant, RequestCounts, TypeOK
<1>2. b \in Seq(Response) /\ req[s].result_count \in Nat
  BY DEF TypeOK, Request
<1>3. SubSound(s)
  BY InvariantParts
<1>4. Responding(b, d) /\ Exhaustive(b, d) /\ Len(b) = req[s].result_count
  BY <1>3 DEF SubSound, BatchSound, Responding, Exhaustive
<1>5. CASE req[s].return_cb = "single"
  <2>1. b = << >> /\ 1 \in Expected(d)
    BY <1>3, <1>5 DEF SubSound, BatchSound
  <2> QED BY <1>4, <2>1 DEF Exhaustive
<1>6. CASE req[s].return_cb # "single"
  <2>1. req[s].result_count < Cardinality(Expected(d))
    BY <1>3, <1>6 DEF SubSound, BatchSound
  <2>2. Len(b) = Cardinality(Expected(d))
    BY <1>1, <1>2, <1>4, AnswerLength
  <2> QED BY <1>2, <1>4, <2>1, <2>2
<1> QED BY <1>5, <1>6

(* The id of a call is held while the call is deferred or kept, it is never   *)
(* put more often than it was taken, and while memory lasts every id is       *)
(* released with the answer.                                                  *)
THEOREM IdsReleased == KeeperAlone /\ Spec => []IdsReleasedOnce
<1>1. TypeOK /\ RequestInvariant /\ AnswerInvariant => IdsReleasedOnce
  <2> SUFFICES ASSUME TypeOK, RequestInvariant, AnswerInvariant, NEW s \in Subs
               PROVE  /\ \A i \in Indices : idrefs[s][i] >= 0
                      /\ \A e \in Waiting(s) : e.run = "method" => idrefs[s][e.call] = 1
                      /\ \A h \in Kept(s) : idrefs[s][h[2]] = 1
                      /\ faults = 0 /\ Waiting(s) = {} /\ Kept(s) = {} =>
                            \A i \in Indices : idrefs[s][i] = 0
    BY DEF IdsReleasedOnce
  <2>1. /\ req[s].state = "live" =>
              \A i \in Indices : idrefs[s][i] = IF i \in RequestCalls(doc[s]) THEN 1 ELSE 0
        /\ req[s].state # "live" =>
              \A i \in Indices : idrefs[s][i] = 0 \/ (idrefs[s][i] = 1 /\ faults > 0)
    BY DEF AnswerInvariant, BatchSound, IdsSound
  <2>2. \A i \in Indices : idrefs[s][i] >= 0
    BY <2>1
  <2>3. \A i \in Outstanding(s) :
          req[s].state = "live" /\ (i \in RequestCalls(doc[s]) => idrefs[s][i] = 1)
    <3> TAKE i \in Outstanding(s)
    <3>1. req[s].state = "live"
      BY ReferredTo
    <3>2. i \in Indices
      BY OutstandingNow DEF OutstandingSound, OutstandingIn
    <3> QED BY <2>1, <3>1, <3>2
  <2>4. ASSUME NEW e \in Waiting(s), e.run = "method" PROVE idrefs[s][e.call] = 1
    <3>1. e \in queue /\ e.req /\ e.sub = s
      BY Zenon DEF Waiting
    <3>2. e.call \in Outstanding(e.sub) /\ e.call \in RequestCalls(doc[e.sub])
      BY <2>4, <3>1, DeferredMethod, Zenon
    <3> QED BY <2>3, <3>1, <3>2, Zenon
  <2>5. ASSUME NEW h \in Kept(s) PROVE idrefs[s][h[2]] = 1
    <3>1. h \in held /\ h[1] = s /\ h = <<h[1], h[2]>>
      BY DEF Kept, TypeOK
    <3>2. h[2] \in Outstanding(s) /\ h[2] \in RequestCalls(doc[s])
      BY <3>1, KeptCall
    <3> QED BY <2>3, <3>2
  <2>6. ASSUME faults = 0, Waiting(s) = {}, Kept(s) = {}
        PROVE  \A i \in Indices : idrefs[s][i] = 0
    <3>1. Outstanding(s) = {}
      BY <2>6 DEF Outstanding
    <3>2. req[s].state # "live"
      BY <2>6, <3>1, NothingLeftUnanswered
    <3> QED BY <2>1, <2>6, <3>2
  <2> QED BY <2>2, <2>4, <2>5, <2>6
<1> QED BY <1>1, AnswersCorrect, TypeCorrect, CountsCorrect, PTL
-----------------------------------------------------------------------------
(* What the actions of the server do to a submission.                         *)

SameSubmission(s) == doc'[s] = doc[s] /\ req'[s] = req[s] /\ answers'[s] = answers[s]

LEMMA UserCbAnswers ==
    ASSUME TypeOK, NEW s \in Subs, answers[s] = << >>, NEW r, UserCb(s, r)
    PROVE  answers'[s] = <<r>> /\ \A t \in Subs \ {s} : answers'[t] = answers[t]
BY DEF UserCb, TypeOK

(* Memory that ran out stays counted.                                         *)
LEMMA FailGrows ==
    ASSUME TypeOK, NEW n \in Nat, Fail(n)
    PROVE  faults' >= faults /\ (n > 0 => faults' > 0)
BY DEF Fail, TypeOK

LEMMA DispatchGrows ==
    ASSUME TypeOK, NEW s \in Subs, NEW d \in Documents, DispatchCalls(s, d)
    PROVE  faults' >= faults
<1>1. PICK L \in SUBSET DOMAIN Calls(d), E \in SUBSET DOMAIN Calls(d) :
        Fail(Cardinality(L) + Cardinality(E))
  BY DEF DispatchCalls
<1>2. IsFiniteSet(DOMAIN Calls(d))
  BY CallIndices, FS_Interval
<1>3. Cardinality(L) + Cardinality(E) \in Nat
  BY <1>2, FS_Subset, FS_CardinalityType
<1> QED BY <1>1, <1>3, FailGrows

LEMMA ReturnGrows ==
    ASSUME TypeOK, NEW s, NEW i, NEW m, NEW q, JsonRpcReturn(s, i, m, q)
    PROVE  faults' >= faults
<1>1. PICK o \in {Answer("result", i, m), Answer("internal_error", i, m), NULL}, lost \in BOOLEAN :
        Fail((IF o = NULL /\ m # 0 THEN 1 ELSE 0) + (IF lost THEN 1 ELSE 0))
  BY DEF JsonRpcReturn
<1> QED BY <1>1, FailGrows

(* A method that runs changes only the id in its request.                     *)
LEMMA MethodConcerns ==
    ASSUME TypeOK, RequestInvariant, NEW e \in queue, RunKeeper(e) \/ RunMethod(e)
    PROVE  /\ e.req /\ e.run = "method" /\ e.sub \in Subs
           /\ req[e.sub].state = "live" /\ answers[e.sub] = << >>
           /\ doc' = doc /\ answers' = answers /\ faults' >= faults
           /\ req'[e.sub] = [req[e.sub] EXCEPT !.method_id = e.method_id]
           /\ \A t \in Subs \ {e.sub} : SameSubmission(t)
<1>1. e.req /\ e.run = "method" /\ e.sub \in Subs /\ e.call \in Outstanding(e.sub)
  BY OnlyReference, Zenon DEF RunKeeper, RunMethod
<1>2. req[e.sub].state = "live" /\ answers[e.sub] = << >>
  BY <1>1, ReferredTo
<1>3. /\ doc' = doc /\ answers' = answers
      /\ req' = [req EXCEPT ![e.sub].method_id = e.method_id]
  BY Zenon DEF RunKeeper, RunMethod
<1>4. /\ req'[e.sub] = [req[e.sub] EXCEPT !.method_id = e.method_id]
      /\ \A t \in Subs \ {e.sub} : SameSubmission(t)
  BY <1>1, <1>3 DEF TypeOK, SameSubmission
<1>5. faults' >= faults
  BY ReturnGrows DEF RunKeeper, RunMethod, TypeOK
<1> QED BY <1>1, <1>2, <1>3, <1>4, <1>5

(* single_result_cb answers its own submission, with the response it got.     *)
LEMMA SingleConcerns ==
    ASSUME TypeOK, RequestInvariant, NEW e \in queue, SingleResult(e)
    PROVE  /\ e.req /\ e.sub \in Subs
           /\ req[e.sub].state = "live" /\ answers[e.sub] = << >>
           /\ doc' = doc /\ faults' = faults
           /\ answers'[e.sub] = <<IF e.obj = NULL THEN NULL ELSE <<e.obj>> >>
           /\ req'[e.sub] = [req[e.sub] EXCEPT !.method_id = e.method_id, !.state = "freed"]
           /\ req[e.sub].return_cb = "single"
           /\ \A t \in Subs \ {e.sub} : SameSubmission(t)
<1> DEFINE s == e.sub
           r == IF e.obj = NULL THEN NULL ELSE <<e.obj>>
<1>1. e.req /\ s \in Subs /\ e.call \in Outstanding(s)
  BY OnlyReference, Zenon DEF SingleResult, RequestInvariant, OneReferencePerCall
<1>2. req[s].state = "live" /\ answers[s] = << >>
  BY <1>1, ReferredTo
<1>3. UserCb(s, r) /\ doc' = doc /\ faults' = faults /\ req[s].return_cb = "single"
  BY DEF SingleResult
<1> HIDE DEF r
<1>4. answers'[s] = <<r>> /\ \A t \in Subs \ {s} : answers'[t] = answers[t]
  BY <1>1, <1>2, <1>3, UserCbAnswers
<1>5. req' = [req EXCEPT ![s].method_id = e.method_id, ![s].state = "freed"]
  BY DEF SingleResult
<1>6. /\ req'[s] = [req[s] EXCEPT !.method_id = e.method_id, !.state = "freed"]
      /\ \A t \in Subs \ {s} : req'[t] = req[t]
  BY <1>1, <1>5 DEF TypeOK, Request
<1>7. \A t \in Subs \ {s} : SameSubmission(t)
  BY <1>3, <1>4, <1>6 DEF SameSubmission
<1> QED BY <1>1, <1>2, <1>3, <1>4, <1>6, <1>7 DEF r

(* What batched_result_cb makes of the list of responses.                     *)
BatchAfter(e, batch) ==
    \/ batch = req[e.sub].result_batch
    \/ e.obj # NULL /\ batch = Append(req[e.sub].result_batch, e.obj)

LastResult(e) == req[e.sub].result_count + 1 = req[e.sub].waiting_result_count

LEMMA BatchedConcerns ==
    ASSUME TypeOK, RequestInvariant, NEW e \in queue, BatchedResult(e)
    PROVE  /\ e.req /\ e.sub \in Subs
           /\ req[e.sub].state = "live" /\ answers[e.sub] = << >>
           /\ doc' = doc /\ faults' >= faults
           /\ req[e.sub].return_cb = "batched" /\ req'[e.sub].return_cb = "batched"
           /\ req'[e.sub].method_id = e.method_id
           /\ req'[e.sub].state = IF LastResult(e) THEN "freed" ELSE "live"
           /\ \E batch \in Seq(Response) :
                 /\ BatchAfter(e, batch) /\ req'[e.sub].result_batch = batch
                 /\ answers'[e.sub] = IF LastResult(e) THEN <<batch>> ELSE << >>
           /\ \A t \in Subs \ {e.sub} : SameSubmission(t)
<1> DEFINE s == e.sub
<1>1. e.req /\ s \in Subs /\ e.call \in Outstanding(s)
  BY OnlyReference, Zenon DEF BatchedResult, RequestInvariant, OneReferencePerCall
<1>2. req[s].state = "live" /\ answers[s] = << >> /\ req[s] \in Request
  BY <1>1, ReferredTo DEF TypeOK
<1>3. doc' = doc /\ req[s].return_cb = "batched"
  BY DEF BatchedResult
<1>4. PICK batch \in {req[s].result_batch} \cup
                        (IF e.obj = NULL THEN {} ELSE {Append(req[s].result_batch, e.obj)}) :
        /\ Fail(IF e.obj # NULL /\ batch = req[s].result_batch THEN 1 ELSE 0)
        /\ req' = [req EXCEPT ![s] =
              [req[s] EXCEPT !.method_id = e.method_id, !.result_batch = batch,
                             !.result_count = @ + 1,
                             !.state = IF LastResult(e) THEN "freed" ELSE @]]
        /\ IF LastResult(e) THEN UserCb(s, batch) ELSE UNCHANGED <<answers, idrefs>>
  BY DEF BatchedResult, LastResult
<1>5. faults' >= faults
  BY <1>4, FailGrows
<1>6. BatchAfter(e, batch)
  BY <1>4, Zenon DEF BatchAfter
<1>7. batch \in Seq(Response)
  <2>1. req[s].result_batch \in Seq(Response) /\ e.obj \in Response \cup {NULL}
    BY <1>2 DEF Request, TypeOK, Deferred
  <2> QED BY <1>6, <2>1 DEF BatchAfter
<1>8. /\ req'[s].return_cb = "batched" /\ req'[s].method_id = e.method_id
      /\ req'[s].result_batch = batch
      /\ req'[s].state = IF LastResult(e) THEN "freed" ELSE "live"
      /\ \A t \in Subs \ {s} : req'[t] = req[t]
  BY <1>1, <1>2, <1>3, <1>4 DEF TypeOK, Request
<1>9. /\ answers'[s] = IF LastResult(e) THEN <<batch>> ELSE << >>
      /\ \A t \in Subs \ {s} : answers'[t] = answers[t]
  <2>1. CASE LastResult(e)
    BY <1>1, <1>2, <1>4, <2>1, UserCbAnswers
  <2>2. CASE ~LastResult(e)
    BY <1>2, <1>4, <2>2
  <2> QED BY <2>1, <2>2
<1>10. \A t \in Subs \ {s} : SameSubmission(t)
  BY <1>3, <1>8, <1>9 DEF SameSubmission
<1> QED BY <1>1, <1>2, <1>3, <1>5, <1>6, <1>7, <1>8, <1>9, <1>10

(* A step of the server that concerns one submission: it leaves the others    *)
(* alone, and this one too once it is answered.                               *)
Concerns(s) ==
    /\ s \in Subs /\ faults' >= faults
    /\ \A t \in Subs \ {s} : SameSubmission(t)
    /\ \/ SameSubmission(s)
       \/ answers[s] = << >> /\ (answers'[s] = << >> \/ \E r : answers'[s] = <<r>>)

LEMMA DeferredConcerns ==
    ASSUME TypeOK, RequestInvariant, NEW e \in queue, RunDeferred(e)
    PROVE  Concerns(e.sub) /\ doc' = doc
<1>1. e.sub \in Subs
  BY DEF TypeOK, Deferred
<1>2. CASE RunNotification(e)
  BY <1>1, <1>2 DEF RunNotification, Concerns, SameSubmission, TypeOK
<1>3. CASE RunKeeper(e) \/ RunMethod(e)
  BY <1>3, MethodConcerns DEF Concerns
<1>4. CASE SingleResult(e)
  <2>1. faults' >= faults
    <3>1. faults' = faults
      BY <1>4, SingleConcerns
    <3> QED BY <3>1 DEF TypeOK
  <2>2. answers[e.sub] = << >> /\ \E r : answers'[e.sub] = <<r>>
    BY <1>4, SingleConcerns, Zenon
  <2> QED BY <1>1, <1>4, <2>1, <2>2, SingleConcerns, Zenon DEF Concerns
<1>5. CASE BatchedResult(e)
  BY <1>5, BatchedConcerns DEF Concerns
<1> QED BY <1>2, <1>3, <1>4, <1>5 DEF RunDeferred

LEMMA KeptConcerns ==
    ASSUME TypeOK, NEW s \in Subs, NEW i, ReturnLater(s, i)
    PROVE  Concerns(s) /\ doc' = doc /\ req' = req /\ answers' = answers
<1>1. faults' >= faults
  BY ReturnGrows DEF ReturnLater
<1> QED BY <1>1 DEF ReturnLater, Concerns, SameSubmission

LEMMA ProcessConcerns ==
    ASSUME TypeOK, RequestInvariant, NEW s \in Subs, NEW d \in Documents, Process(s, d)
    PROVE  /\ Concerns(s)
           /\ doc[s] = NULL /\ doc' = [doc EXCEPT ![s] = d] /\ answers[s] = << >>
<1>1. doc[s] = NULL /\ doc' = [doc EXCEPT ![s] = d]
  BY DEF Process, ProcessSingleCall, ProcessBatchedCall, ProcessInvalid, ProcessNoMemory, Submit
<1>2. answers[s] = << >> /\ \A t \in Subs \ {s} : doc'[t] = doc[t]
  BY <1>1, NothingBefore DEF TypeOK
<1>3. CASE ProcessSingleCall(s, d) \/ ProcessBatchedCall(s, d)
  <2>1. DispatchCalls(s, d) /\ answers' = answers /\ \A t \in Subs \ {s} : req'[t] = req[t]
    BY <1>3 DEF ProcessSingleCall, ProcessBatchedCall, TypeOK
  <2>2. faults' >= faults
    BY <2>1, DispatchGrows
  <2>3. \A t \in Subs \ {s} : SameSubmission(t)
    BY <1>2, <2>1 DEF SameSubmission
  <2> QED BY <1>1, <1>2, <2>1, <2>2, <2>3 DEF Concerns
<1>4. CASE ProcessInvalid(s, d) \/ ProcessNoMemory(s, d)
  <2>1. PICK n, r : n \in Nat /\ UserCb(s, r) /\ Fail(n) /\ req' = req
    BY <1>4 DEF ProcessInvalid, ProcessNoMemory, ProcessErrorFinal
  <2>2. answers'[s] = <<r>> /\ \A t \in Subs \ {s} : answers'[t] = answers[t]
    BY <1>2, <2>1, UserCbAnswers
  <2>3. faults' >= faults
    BY <2>1, FailGrows
  <2>4. \A t \in Subs \ {s} : SameSubmission(t)
    BY <1>2, <2>1, <2>2 DEF SameSubmission
  <2> QED BY <1>1, <1>2, <2>2, <2>3, <2>4 DEF Concerns
<1> QED BY <1>1, <1>2, <1>3, <1>4 DEF Process
-----------------------------------------------------------------------------
(* The ids of responses, whether or not calls are kept.                       *)

(* The ids in a deferred call are those of calls of d, or null.               *)
CallOwn(e, d) == IdOf(e.method_id, d) /\ (e.obj # NULL => IdOf(e.obj.id, d))

LEMMA MethodIdOwn ==
    ASSUME NEW d \in Documents, NEW i \in 0 .. Len(Calls(d))
    PROVE  IdOf(MethodIdAt(d, i), d)
<1> DEFINE Last(j) == /\ EvalCallType(Calls(d)[j]) = "request"
                      /\ \A k \in j + 1 .. i : EvalCallType(Calls(d)[k]) # "request"
<1>1. CASE \E j \in 1 .. i : Last(j)
  <2>1. MethodIdAt(d, i) \in 1 .. i /\ Last(MethodIdAt(d, i))
    BY <1>1 DEF MethodIdAt
  <2>2. MethodIdAt(d, i) \in DOMAIN Calls(d)
    BY <2>1, CallIndices
  <2> QED BY <2>1, <2>2 DEF IdOf, RequestCalls
<1>2. CASE ~\E j \in 1 .. i : Last(j)
  <2>1. MethodIdAt(d, i) = 0
    BY <1>2 DEF MethodIdAt
  <2> QED BY <2>1 DEF IdOf
<1> QED BY <1>1, <1>2

LEMMA DispatchOwn ==
    ASSUME NEW s \in Subs, NEW d \in Documents, NEW i \in DOMAIN Calls(d), NEW E,
           NEW e \in DispatchCall(s, d, i, E), e.req
    PROVE  CallOwn(e, d)
<1> DEFINE type == EvalCallType(Calls(d)[i])
           handler == LookupEntry(Member(Calls(d)[i], "method"))
           Error(k, m) == IF i \in E THEN NULL ELSE Answer(k, i, m)
<1>1. IdOf(MethodIdAt(d, i), d) /\ IdOf(0, d)
  <2>1. i \in 0 .. Len(Calls(d))
    BY CallIndices
  <2> QED BY <2>1, MethodIdOwn DEF IdOf
<1>2. CASE type = "invalid"
  <2>1. e = ReturnCall(s, i, Error("invalid_request", 0), MethodIdAt(d, i))
    BY <1>2 DEF DispatchCall
  <2>2. e.method_id = MethodIdAt(d, i) /\ e.obj = Error("invalid_request", 0)
    BY <2>1 DEF ReturnCall
  <2> QED BY <1>1, <2>2 DEF CallOwn, Answer
<1>3. CASE type = "notification"
  <2>1. e \in {MethodCall(s, i, FALSE, handler, 0)}
    BY <1>3 DEF DispatchCall
  <2> QED BY <2>1 DEF MethodCall
<1>4. CASE type = "request"
  <2>1. IdOf(i, d)
    BY <1>4 DEF IdOf, RequestCalls
  <2>2. CASE handler # NULL
    <3>1. e = MethodCall(s, i, TRUE, handler, i)
      BY <1>4, <2>2 DEF DispatchCall
    <3> QED BY <2>1, <3>1 DEF MethodCall, CallOwn
  <2>3. CASE handler = NULL
    <3>1. e = ReturnCall(s, i, Error("method_not_found", i), i)
      BY <1>4, <2>3 DEF DispatchCall
    <3>2. e.method_id = i /\ e.obj = Error("method_not_found", i)
      BY <3>1 DEF ReturnCall
    <3> QED BY <2>1, <3>2 DEF CallOwn, Answer
  <2> QED BY <2>2, <2>3
<1> QED BY <1>2, <1>3, <1>4, CallTypes

(* What concerns the submission s leaves the others theirs.                   *)
LEMMA OwnStep ==
    ASSUME TypeOK, TypeOK', OwnIdsInvariant, NEW s \in Subs, OwnIds(s)',
           \A t \in Subs \ {s} : SameSubmission(t),
           \A e \in queue' : e.req => \/ e \in queue /\ doc'[e.sub] = doc[e.sub]
                                      \/ CallOwn(e, doc'[e.sub])
    PROVE  OwnIdsInvariant'
<1>1. ASSUME NEW e \in queue', e.req PROVE CallOwn(e, doc'[e.sub])
  BY <1>1, Zenon DEF OwnIdsInvariant, CallOwn
<1>2. \A t \in Subs \ {s} : OwnIds(t)'
  BY DEF OwnIdsInvariant, OwnIds, SameSubmission, IdOf, RequestCalls
<1> QED BY <1>1, <1>2 DEF OwnIdsInvariant, CallOwn, IdOf, RequestCalls

LEMMA ReturnOwn ==
    ASSUME TypeOK, NEW s \in Subs, NEW i \in Indices, NEW m, IdOf(m, doc[s]), NEW q,
           JsonRpcReturn(s, i, m, q)
    PROVE  \A e \in queue' : e \in q \/ (e.sub = s /\ CallOwn(e, doc[s]))
<1>1. PICK o \in {Answer("result", i, m), Answer("internal_error", i, m), NULL}, lost \in BOOLEAN :
        queue' = IF lost THEN q ELSE q \cup {ReturnCall(s, i, o, m)}
  BY DEF JsonRpcReturn
<1>2. ReturnCall(s, i, o, m).sub = s /\ CallOwn(ReturnCall(s, i, o, m), doc[s])
  BY <1>1 DEF ReturnCall, CallOwn, Answer
<1> QED BY <1>1, <1>2

LEMMA OwnMethod ==
    ASSUME TypeOK, TypeOK', RequestInvariant, OwnIdsInvariant, NEW e \in queue,
           RunKeeper(e) \/ RunMethod(e)
    PROVE  OwnIdsInvariant'
<1> DEFINE s == e.sub
<1>1. /\ e.req /\ s \in Subs /\ req[s].state = "live"
      /\ doc' = doc /\ answers' = answers
      /\ req'[s] = [req[s] EXCEPT !.method_id = e.method_id]
      /\ \A t \in Subs \ {s} : SameSubmission(t)
  BY MethodConcerns
<1>2. IdOf(e.method_id, doc[s]) /\ OwnIds(s) /\ req[s] \in Request
  BY <1>1, Zenon DEF OwnIdsInvariant, TypeOK
<1>3. /\ req'[s].method_id = e.method_id /\ req'[s].state = "live"
      /\ req'[s].return_cb = req[s].return_cb /\ req'[s].result_batch = req[s].result_batch
  BY <1>1, <1>2 DEF Request
<1>4. OwnIds(s)'
  <2>1. /\ req'[s].return_cb = IF doc'[s].type = "object" THEN "single" ELSE "batched"
        /\ IdOf(req'[s].method_id, doc'[s])
    BY <1>1, <1>2, <1>3 DEF OwnIds
  <2>2. \A k \in DOMAIN req'[s].result_batch : IdOf(req'[s].result_batch[k].id, doc'[s])
    BY <1>1, <1>2, <1>3 DEF OwnIds
  <2>3. \A n \in DOMAIN answers'[s] : answers'[s][n] # NULL =>
           /\ \A k \in DOMAIN answers'[s][n] : IdOf(answers'[s][n][k].id, doc'[s])
           /\ req'[s].return_cb = "single" => Len(answers'[s][n]) = 1
    BY <1>1, <1>2, <1>3 DEF OwnIds
  <2>4. req'[s].state # "none"
    BY <1>3
  <2> QED BY <2>1, <2>2, <2>3, <2>4, Zenon DEF OwnIds, IdOf, RequestCalls
<1>5. \A x \in queue' : x \in queue \/ (x.sub = s /\ CallOwn(x, doc[s]))
  <2>1. CASE RunKeeper(e)
    BY <2>1 DEF RunKeeper
  <2>2. CASE RunMethod(e)
    <3>1. e.call \in Indices /\ JsonRpcReturn(s, e.call, e.method_id, queue \ {e})
      BY <2>2 DEF RunMethod, TypeOK, Deferred
    <3>2. \A x \in queue' : x \in queue \ {e} \/ (x.sub = s /\ CallOwn(x, doc[s]))
      BY <1>1, <1>2, <3>1, ReturnOwn
    <3> QED BY <3>2
  <2> QED BY <2>1, <2>2
<1> QED BY <1>1, <1>4, <1>5, OwnStep

LEMMA OwnReturnLater ==
    ASSUME TypeOK, TypeOK', OwnIdsInvariant,
           NEW s \in Subs, NEW i \in Indices, ReturnLater(s, i)
    PROVE  OwnIdsInvariant'
<1>1. /\ UNCHANGED <<doc, req, answers>> /\ JsonRpcReturn(s, i, req[s].method_id, queue)
      /\ OwnIds(s) /\ IdOf(req[s].method_id, doc[s])
  BY DEF ReturnLater, OwnIdsInvariant, OwnIds
<1>2. OwnIds(s)'
  BY <1>1 DEF OwnIds, IdOf, RequestCalls
<1>3. \A x \in queue' : x \in queue \/ (x.sub = s /\ CallOwn(x, doc[s]))
  BY <1>1, ReturnOwn
<1>4. \A t \in Subs \ {s} : SameSubmission(t)
  BY <1>1 DEF SameSubmission
<1> QED BY <1>1, <1>2, <1>3, <1>4, OwnStep

LEMMA OwnSingle ==
    ASSUME TypeOK, TypeOK', RequestInvariant, OwnIdsInvariant, NEW e \in queue, SingleResult(e)
    PROVE  OwnIdsInvariant'
<1> DEFINE s == e.sub
           res == IF e.obj = NULL THEN NULL ELSE <<e.obj>>
<1>1. /\ e.req /\ s \in Subs /\ req[s].state = "live"
      /\ doc' = doc /\ answers'[s] = <<res>>
      /\ req'[s] = [req[s] EXCEPT !.method_id = e.method_id, !.state = "freed"]
      /\ \A t \in Subs \ {s} : SameSubmission(t)
  BY SingleConcerns
<1>2. CallOwn(e, doc[s]) /\ OwnIds(s) /\ req[s] \in Request
  BY <1>1, Zenon DEF OwnIdsInvariant, TypeOK, CallOwn
<1>3. /\ req'[s].method_id = e.method_id /\ req'[s].state = "freed"
      /\ req'[s].return_cb = req[s].return_cb /\ req'[s].result_batch = req[s].result_batch
  BY <1>1, <1>2 DEF Request
<1>4. res # NULL => Len(res) = 1 /\ \A k \in DOMAIN res : IdOf(res[k].id, doc[s])
  BY <1>2 DEF CallOwn
<1> HIDE DEF res
<1>5. OwnIds(s)'
  <2>1. /\ req'[s].return_cb = IF doc'[s].type = "object" THEN "single" ELSE "batched"
        /\ IdOf(req'[s].method_id, doc'[s])
    BY <1>1, <1>2, <1>3 DEF OwnIds, CallOwn
  <2>2. \A k \in DOMAIN req'[s].result_batch : IdOf(req'[s].result_batch[k].id, doc'[s])
    BY <1>1, <1>2, <1>3 DEF OwnIds
  <2>3. \A n \in DOMAIN answers'[s] : answers'[s][n] = res
    BY <1>1
  <2>4. \A n \in DOMAIN answers'[s] : answers'[s][n] # NULL =>
           /\ \A k \in DOMAIN answers'[s][n] : IdOf(answers'[s][n][k].id, doc'[s])
           /\ Len(answers'[s][n]) = 1
    BY <1>1, <1>4, <2>3
  <2>5. req'[s].state # "none"
    BY <1>3
  <2> QED BY <2>1, <2>2, <2>4, <2>5, Zenon DEF OwnIds, IdOf, RequestCalls
<1>6. queue' \subseteq queue
  BY DEF SingleResult
<1> QED BY <1>1, <1>5, <1>6, OwnStep

LEMMA OwnBatched ==
    ASSUME TypeOK, TypeOK', RequestInvariant, OwnIdsInvariant, NEW e \in queue, BatchedResult(e)
    PROVE  OwnIdsInvariant'
<1> DEFINE s == e.sub
<1>1. /\ e.req /\ s \in Subs /\ req[s].state = "live" /\ doc' = doc
      /\ req[s].return_cb = "batched" /\ req'[s].return_cb = "batched"
      /\ req'[s].method_id = e.method_id /\ req'[s].state # "none"
      /\ \A t \in Subs \ {s} : SameSubmission(t)
  BY BatchedConcerns
<1>2. PICK batch \in Seq(Response) :
        /\ BatchAfter(e, batch) /\ req'[s].result_batch = batch
        /\ answers'[s] = IF LastResult(e) THEN <<batch>> ELSE << >>
  BY BatchedConcerns
<1>3. CallOwn(e, doc[s]) /\ OwnIds(s)
  BY <1>1, Zenon DEF OwnIdsInvariant, CallOwn
<1>4. \A k \in DOMAIN batch : IdOf(batch[k].id, doc[s])
  <2>1. req[s].result_batch \in Seq(Response) /\ \A k \in DOMAIN req[s].result_batch :
            IdOf(req[s].result_batch[k].id, doc[s])
    BY <1>1, <1>3 DEF OwnIds, TypeOK, Request
  <2>2. CASE e.obj # NULL /\ batch = Append(req[s].result_batch, e.obj)
    BY <1>3, <2>1, <2>2 DEF CallOwn
  <2> QED BY <1>2, <2>1, <2>2 DEF BatchAfter
<1>5. \A n \in DOMAIN answers'[s] : answers'[s][n] = batch
  BY <1>2
<1>6. OwnIds(s)'
  <2>1. /\ req'[s].return_cb = IF doc'[s].type = "object" THEN "single" ELSE "batched"
        /\ IdOf(req'[s].method_id, doc'[s])
    BY <1>1, <1>3 DEF OwnIds, CallOwn
  <2>2. \A k \in DOMAIN req'[s].result_batch : IdOf(req'[s].result_batch[k].id, doc'[s])
    BY <1>1, <1>2, <1>4
  <2>3. \A n \in DOMAIN answers'[s] : \A k \in DOMAIN answers'[s][n] : IdOf(answers'[s][n][k].id, doc'[s])
    BY <1>1, <1>4, <1>5
  <2>4. req'[s].state # "none" /\ req'[s].return_cb # "single"
    BY <1>1
  <2> QED BY <2>1, <2>2, <2>3, <2>4, Zenon DEF OwnIds, IdOf, RequestCalls
<1>7. queue' \subseteq queue
  BY DEF BatchedResult
<1> QED BY <1>1, <1>6, <1>7, OwnStep

LEMMA OwnDispatched ==
    ASSUME TypeOK, TypeOK', RequestInvariant, OwnIdsInvariant, NEW s \in Subs, NEW d \in Documents,
           Submit(s, d), DispatchCalls(s, d), UNCHANGED answers,
           NEW cb, NEW n, req' = [req EXCEPT ![s] = Processed(cb, d, n)],
           cb = IF d.type = "object" THEN "single" ELSE "batched"
    PROVE  OwnIdsInvariant'
<1>1. doc[s] = NULL /\ doc'[s] = d /\ \A t \in Subs \ {s} : SameSubmission(t)
  BY DEF Submit, TypeOK, SameSubmission
<1>2. answers'[s] = << >> /\ \A e \in queue : e.sub = s => ~e.req
  BY <1>1, NothingBefore, Zenon
<1>3. /\ req'[s].return_cb = cb /\ req'[s].state # "none" /\ req'[s].result_batch = << >>
      /\ req'[s].method_id = MethodIdAt(d, Len(Calls(d)))
  <2>1. req'[s] = Processed(cb, d, n)
    BY DEF TypeOK
  <2> QED BY <2>1 DEF Processed, NewRequest
<1>4. IdOf(MethodIdAt(d, Len(Calls(d))), d)
  BY MethodIdOwn, CallIndices
<1>5. OwnIds(s)'
  <2>1. /\ req'[s].return_cb = IF doc'[s].type = "object" THEN "single" ELSE "batched"
        /\ IdOf(req'[s].method_id, doc'[s])
    BY <1>1, <1>3, <1>4
  <2>2. DOMAIN req'[s].result_batch = {} /\ DOMAIN answers'[s] = {} /\ req'[s].state # "none"
    BY <1>2, <1>3
  <2> QED BY <2>1, <2>2, Zenon DEF OwnIds, IdOf, RequestCalls
<1>6. ASSUME NEW e \in queue', e.req
      PROVE  (e \in queue /\ doc'[e.sub] = doc[e.sub]) \/ CallOwn(e, doc'[e.sub])
  <2>1. CASE e \in queue
    BY <1>1, <1>2, <1>6, <2>1 DEF SameSubmission, TypeOK, Deferred
  <2>2. CASE e \notin queue
    <3>0. PICK L \in SUBSET DOMAIN Calls(d), E \in SUBSET DOMAIN Calls(d) :
            queue' = queue \cup UNION {DispatchCall(s, d, i, E) : i \in DOMAIN Calls(d) \ L}
      BY DEF DispatchCalls
    <3>1. PICK i \in DOMAIN Calls(d) : e \in DispatchCall(s, d, i, E)
      BY <1>6, <2>2, <3>0
    <3>2. e.sub = s
      BY <3>1, DispatchCallType
    <3> QED BY <1>1, <1>6, <3>1, <3>2, DispatchOwn
  <2> QED BY <2>1, <2>2
<1> QED BY <1>1, <1>5, <1>6, OwnStep

LEMMA OwnProcess ==
    ASSUME TypeOK, TypeOK', RequestInvariant, OwnIdsInvariant,
           NEW s \in Subs, NEW d \in Documents, Process(s, d)
    PROVE  OwnIdsInvariant'
<1>1. CASE ProcessSingleCall(s, d)
  BY <1>1, OwnDispatched DEF ProcessSingleCall
<1>2. CASE ProcessBatchedCall(s, d)
  <2>1. d.type # "object"
    BY <1>2 DEF ProcessBatchedCall, Elements
  <2> QED BY <1>2, <2>1, OwnDispatched DEF ProcessBatchedCall
<1>3. CASE ProcessInvalid(s, d) \/ ProcessNoMemory(s, d)
  <2>1. PICK k, r : /\ r = NULL \/ r = <<Answer(k, 0, 0)>>
                    /\ UserCb(s, r) /\ Submit(s, d) /\ UNCHANGED <<req, queue>>
    BY <1>3, Zenon DEF ProcessInvalid, ProcessNoMemory, ProcessErrorFinal
  <2>2. doc[s] = NULL /\ doc'[s] = d /\ \A t \in Subs \ {s} : doc'[t] = doc[t]
    BY <2>1 DEF Submit, TypeOK
  <2>3. answers[s] = << >> /\ req[s].state = "none" /\ \A e \in queue : e.sub = s => ~e.req
    BY <2>2, NothingBefore, Zenon
  <2>4. answers'[s] = <<r>> /\ \A t \in Subs \ {s} : answers'[t] = answers[t]
    BY <2>1, <2>3, UserCbAnswers
  <2>5. r # NULL => Len(r) = 1 /\ \A l \in DOMAIN r : r[l].id = 0
    BY <2>1 DEF Answer
  <2>6. req'[s] = NoRequest /\ NoRequest.method_id = 0 /\ NoRequest.result_batch = << >>
    BY <2>1, <2>3 DEF OwnIdsInvariant, OwnIds, NoRequest, NewRequest
  <2>7. OwnIds(s)'
    BY <2>2, <2>4, <2>5, <2>6 DEF OwnIds, IdOf, NoRequest, NewRequest
  <2>8. \A t \in Subs \ {s} : SameSubmission(t)
    BY <2>1, <2>2, <2>4 DEF SameSubmission
  <2>9. ASSUME NEW e \in queue', e.req PROVE e \in queue /\ doc'[e.sub] = doc[e.sub]
    BY <2>1, <2>2, <2>3, <2>9 DEF TypeOK, Deferred
  <2> QED BY <2>7, <2>8, <2>9, OwnStep
<1> QED BY <1>1, <1>2, <1>3 DEF Process

(* A step that gives no answer and leaves documents and requests alone.       *)
LEMMA OwnQuiet ==
    ASSUME OwnIdsInvariant, queue' \subseteq queue, UNCHANGED <<doc, req, answers>>
    PROVE  OwnIdsInvariant'
<1>1. \A s \in Subs : OwnIds(s)'
  BY DEF OwnIdsInvariant, OwnIds, IdOf, RequestCalls
<1>2. ASSUME NEW e \in queue', e.req PROVE CallOwn(e, doc'[e.sub])
  BY <1>2, Zenon DEF OwnIdsInvariant, CallOwn
<1> QED BY <1>1, <1>2 DEF OwnIdsInvariant, CallOwn, IdOf, RequestCalls

LEMMA OwnInit == Init => OwnIdsInvariant
BY DEF Init, OwnIdsInvariant, OwnIds, NoRequest, NewRequest, IdOf

LEMMA OwnIdsStep ==
    TypeOK /\ TypeOK' /\ RequestInvariant /\ OwnIdsInvariant /\ [Next]_vars => OwnIdsInvariant'
<1> SUFFICES ASSUME TypeOK, TypeOK', RequestInvariant, OwnIdsInvariant, [Next]_vars
             PROVE  OwnIdsInvariant'
  OBVIOUS
<1>1. ASSUME NEW n \in MethodNames, NEW h \in Handlers, AddMethod(n, h) PROVE OwnIdsInvariant'
  BY <1>1, OwnQuiet DEF AddMethod
<1>2. ASSUME NEW n \in MethodNames, DelMethod(n) PROVE OwnIdsInvariant'
  BY <1>2, OwnQuiet DEF DelMethod
<1>3. CASE JsonRpcFree
  BY <1>3, OwnQuiet DEF JsonRpcFree
<1>4. ASSUME NEW e \in queue, RunNotification(e) PROVE OwnIdsInvariant'
  BY <1>4, OwnQuiet DEF RunNotification
<1>5. CASE UNCHANGED vars
  BY <1>5, OwnQuiet DEF vars
<1>6. ASSUME NEW e \in queue, RunDeferred(e) PROVE OwnIdsInvariant'
  BY <1>4, <1>6, OwnMethod, OwnSingle, OwnBatched DEF RunDeferred
<1> QED BY <1>1, <1>2, <1>3, <1>5, <1>6, OwnProcess, OwnReturnLater DEF Next

(* The ids in an answer are those of calls of the document it answers, or     *)
(* null, whatever methods keep requests: where the shared req->method_id is   *)
(* changed under a method, a response may have the id of another call, but of *)
(* the same document.                                                         *)
THEOREM AnswersOwnIds == Spec => []OwnIdsInvariant
<1>1. Init => TypeOK /\ RequestInvariant /\ OwnIdsInvariant
  BY TypeInit, CountsInit, OwnInit
<1>2. TypeOK /\ RequestInvariant /\ OwnIdsInvariant /\ [Next]_vars =>
        TypeOK' /\ RequestInvariant' /\ OwnIdsInvariant'
  BY TypeStep, CountsStep, OwnIdsStep
<1> QED BY <1>1, <1>2, PTL DEF Spec
-----------------------------------------------------------------------------
(* The id that a method finds in the request it kept.                         *)

(* e carries an id if the first call of d that expects an answer is valid,    *)
(* and a result only lacks its response after f > 0 failed allocations.       *)
KeepsId(e, d, f) ==
    StartsValid(d) =>
        /\ e.method_id # 0
        /\ e.run = "return" /\ e.obj = NULL => f > 0

(* The greatest of some indices.                                              *)
LEMMA GreatestExists ==
    ASSUME NEW n \in Nat, NEW M \in SUBSET (1 .. n), M # {}
    PROVE  \E p \in M : \A q \in M : q <= p
<1> DEFINE R == {ss \in Nat \X Nat : ss[1] < ss[2]}
           D == {n - p : p \in M}
<1>1. IsWellFoundedOn(R, Nat)
  BY NatLessThanWellFounded DEF OpToRel
<1>2. D \subseteq Nat /\ D # {}
  <2>1. \A p \in M : n - p \in Nat
    OBVIOUS
  <2>2. PICK p \in M : TRUE
    OBVIOUS
  <2>3. n - p \in D
    OBVIOUS
  <2> QED BY <2>1, <2>3
<1>3. \A p, q \in Nat : q < p => <<q, p>> \in R
  OBVIOUS
<1> HIDE DEF R
<1>4. PICK m \in D : \A k \in D : ~(<<k, m>> \in R)
  <2> HIDE DEF D
  <2> QED BY <1>1, <1>2, WFMin
<1>5. PICK p \in M : m = n - p
  OBVIOUS
<1>6. ASSUME NEW q \in M PROVE q <= p
  <2>1. n - q \in D /\ n - q \in Nat /\ m \in Nat
    OBVIOUS
  <2> HIDE DEF D
  <2>2. ~(n - q < m)
    BY <1>3, <1>4, <2>1
  <2> QED BY <1>5, <2>2
<1> QED BY <1>6

(* req->method_id has an id from the first expected call on.                  *)
LEMMA MethodIdSet ==
    ASSUME NEW d \in Documents, StartsValid(d), NEW i \in 0 .. Len(Calls(d)),
           NEW k \in Expected(d), k <= i
    PROVE  MethodIdAt(d, i) # 0
<1> DEFINE M == {j \in 1 .. i : EvalCallType(Calls(d)[j]) = "request"}
           Last(j) == /\ EvalCallType(Calls(d)[j]) = "request"
                      /\ \A l \in j + 1 .. i : EvalCallType(Calls(d)[l]) # "request"
<1>1. PICK j \in RequestCalls(d) : j <= k
  BY DEF StartsValid
<1>2. j \in M
  BY <1>1, CallIndices DEF RequestCalls
<1>3. i \in Nat
  BY CallIndices
<1>4. PICK p \in M : \A q \in M : q <= p
  <2>1. M \in SUBSET (1 .. i) /\ M # {}
    BY <1>2
  <2> HIDE DEF M
  <2> QED BY <1>3, <2>1, GreatestExists
<1>5. p \in 1 .. i /\ Last(p)
  BY <1>3, <1>4
<1>6. MethodIdAt(d, i) \in 1 .. i
  <2>1. MethodIdAt(d, i) = CHOOSE m \in 1 .. i : Last(m)
    BY <1>5 DEF MethodIdAt
  <2>2. (CHOOSE m \in 1 .. i : Last(m)) \in 1 .. i
    <3> HIDE DEF Last
    <3> QED BY <1>5
  <2> QED BY <2>1, <2>2
<1> QED BY <1>3, <1>6

LEMMA DispatchKeepsId ==
    ASSUME NEW s \in Subs, NEW d \in Documents, NEW i \in DOMAIN Calls(d), NEW E,
           NEW e \in DispatchCall(s, d, i, E), e.req, NEW f, i \in E => f > 0
    PROVE  KeepsId(e, d, f)
<1> DEFINE type == EvalCallType(Calls(d)[i])
           handler == LookupEntry(Member(Calls(d)[i], "method"))
           Error(k, m) == IF i \in E THEN NULL ELSE Answer(k, i, m)
<1>1. i \in 1 .. Len(Calls(d)) /\ Len(Calls(d)) \in Nat
  BY CallIndices
<1>2. \A k, m : Error(k, m) = NULL /\ k \in {"invalid_request", "method_not_found"}
                  /\ m \in {0, i} => f > 0
  BY <1>1, CallIndices, NullAssumption DEF Answer, Response
<1>3. CASE type = "invalid"
  <2>1. e = ReturnCall(s, i, Error("invalid_request", 0), MethodIdAt(d, i))
    BY <1>3 DEF DispatchCall
  <2>2. e.method_id = MethodIdAt(d, i) /\ e.obj = Error("invalid_request", 0)
    BY <2>1 DEF ReturnCall
  <2>3. i \in Expected(d) /\ i \in 0 .. Len(Calls(d)) /\ i <= i
    BY <1>1, <1>3 DEF Expected
  <2>4. StartsValid(d) => MethodIdAt(d, i) # 0
    BY <2>3, MethodIdSet
  <2> QED BY <1>2, <2>2, <2>4 DEF KeepsId
<1>4. CASE type = "notification"
  <2>1. e \in {MethodCall(s, i, FALSE, handler, 0)}
    BY <1>4 DEF DispatchCall
  <2> QED BY <2>1 DEF MethodCall
<1>5. CASE type = "request"
  <2>1. i # 0
    BY <1>1
  <2>2. CASE handler # NULL
    <3>1. e = MethodCall(s, i, TRUE, handler, i)
      BY <1>5, <2>2 DEF DispatchCall
    <3> QED BY <2>1, <3>1 DEF MethodCall, KeepsId
  <2>3. CASE handler = NULL
    <3>1. e = ReturnCall(s, i, Error("method_not_found", i), i)
      BY <1>5, <2>3 DEF DispatchCall
    <3>2. e.method_id = i /\ e.obj = Error("method_not_found", i)
      BY <3>1 DEF ReturnCall
    <3> QED BY <1>2, <2>1, <3>2 DEF KeepsId
  <2> QED BY <2>2, <2>3
<1> QED BY <1>3, <1>4, <1>5, CallTypes

(* What json_rpc_return defers.                                               *)
LEMMA ReturnKeepsId ==
    ASSUME TypeOK, NEW s \in Subs, NEW i \in Indices, NEW d, NEW m \in 0 .. MaxBatch,
           StartsValid(d) => m # 0, NEW q, JsonRpcReturn(s, i, m, q)
    PROVE  \A e \in queue' : e \in q \/ (e.sub = s /\ KeepsId(e, d, faults'))
<1>1. PICK o \in {Answer("result", i, m), Answer("internal_error", i, m), NULL}, lost \in BOOLEAN :
        /\ Fail((IF o = NULL /\ m # 0 THEN 1 ELSE 0) + (IF lost THEN 1 ELSE 0))
        /\ queue' = IF lost THEN q ELSE q \cup {ReturnCall(s, i, o, m)}
  BY DEF JsonRpcReturn
<1>2. o = NULL /\ m # 0 => faults' > 0
  BY <1>1 DEF Fail, TypeOK
<1>3. ReturnCall(s, i, o, m).sub = s /\ KeepsId(ReturnCall(s, i, o, m), d, faults')
  BY <1>2 DEF ReturnCall, KeepsId
<1> QED BY <1>1, <1>3

(* What concerns the submission s leaves the others theirs.                   *)
KeepsOwnId(s) == req[s].state = "live" /\ StartsValid(doc[s]) => req[s].method_id # 0

LEMMA KeptStep ==
    ASSUME TypeOK, TypeOK', KeptIdsInvariant, NEW s \in Subs, KeepsOwnId(s)',
           \A t \in Subs \ {s} : SameSubmission(t), faults' >= faults,
           \A e \in queue' : e.req => \/ e \in queue /\ doc'[e.sub] = doc[e.sub]
                                      \/ KeepsId(e, doc'[e.sub], faults')
    PROVE  KeptIdsInvariant'
<1>1. ASSUME NEW e \in queue', e.req PROVE KeepsId(e, doc'[e.sub], faults')
  <2>1. CASE e \in queue /\ doc'[e.sub] = doc[e.sub]
    <3>1. KeepsId(e, doc'[e.sub], faults)
      BY <1>1, <2>1, Zenon DEF KeptIdsInvariant, KeepsId
    <3>2. faults > 0 => faults' > 0
      BY DEF TypeOK
    <3> QED BY <3>1, <3>2, Zenon DEF KeepsId
  <2> QED BY <1>1, <2>1
<1>2. \A t \in Subs \ {s} : KeepsOwnId(t)'
  BY DEF KeptIdsInvariant, KeepsOwnId, SameSubmission, StartsValid, RequestCalls, Expected
<1> QED BY <1>1, <1>2 DEF KeptIdsInvariant, KeepsId, KeepsOwnId, StartsValid, RequestCalls, Expected

LEMMA KeptMethod ==
    ASSUME TypeOK, TypeOK', RequestInvariant, KeptIdsInvariant, NEW e \in queue,
           RunKeeper(e) \/ RunMethod(e)
    PROVE  KeptIdsInvariant'
<1> DEFINE s == e.sub
<1>1. /\ e.req /\ s \in Subs /\ doc' = doc /\ faults' >= faults
      /\ req'[s] = [req[s] EXCEPT !.method_id = e.method_id]
      /\ \A t \in Subs \ {s} : SameSubmission(t)
  BY MethodConcerns
<1>2. StartsValid(doc[s]) => e.method_id # 0
  BY <1>1, Zenon DEF KeptIdsInvariant
<1>3. e.call \in Indices /\ e.method_id \in 0 .. MaxBatch /\ req[s] \in Request
  BY <1>1, Zenon DEF TypeOK, Deferred
<1>4. KeepsOwnId(s)'
  <2>1. req'[s].method_id = e.method_id
    BY <1>1, <1>3 DEF Request
  <2> QED BY <1>1, <1>2, <2>1 DEF KeepsOwnId, StartsValid, RequestCalls, Expected
<1>5. \A x \in queue' : x \in queue \/ (x.sub = s /\ KeepsId(x, doc[s], faults'))
  <2>1. CASE RunKeeper(e)
    BY <2>1 DEF RunKeeper
  <2>2. CASE RunMethod(e)
    <3>1. JsonRpcReturn(s, e.call, e.method_id, queue \ {e})
      BY <2>2 DEF RunMethod
    <3>2. \A x \in queue' : x \in queue \ {e} \/ (x.sub = s /\ KeepsId(x, doc[s], faults'))
      BY <1>1, <1>2, <1>3, <3>1, ReturnKeepsId
    <3> QED BY <3>2
  <2> QED BY <2>1, <2>2
<1> QED BY <1>1, <1>4, <1>5, KeptStep

LEMMA KeptReturnLater ==
    ASSUME TypeOK, TypeOK', RequestInvariant, KeptIdsInvariant,
           NEW s \in Subs, NEW i \in Indices, ReturnLater(s, i)
    PROVE  KeptIdsInvariant'
<1>1. /\ UNCHANGED <<doc, req, answers>> /\ JsonRpcReturn(s, i, req[s].method_id, queue)
      /\ <<s, i>> \in held
  BY DEF ReturnLater
<1>2. req[s].state = "live"
  BY <1>1, KeptOutstanding, ReferredTo
<1>3. req[s].method_id \in 0 .. MaxBatch
  BY DEF TypeOK, Request
<1>4. KeepsOwnId(s) /\ (StartsValid(doc[s]) => req[s].method_id # 0)
  BY <1>2 DEF KeptIdsInvariant, KeepsOwnId
<1>5. KeepsOwnId(s)'
  BY <1>1, <1>4 DEF KeepsOwnId, StartsValid, RequestCalls, Expected
<1>6. \A x \in queue' : x \in queue \/ (x.sub = s /\ KeepsId(x, doc[s], faults'))
  BY <1>1, <1>3, <1>4, ReturnKeepsId
<1>7. faults' >= faults
  BY <1>1, ReturnGrows
<1>8. \A t \in Subs \ {s} : SameSubmission(t)
  BY <1>1 DEF SameSubmission
<1> QED BY <1>1, <1>5, <1>6, <1>7, <1>8, KeptStep

LEMMA KeptResult ==
    ASSUME TypeOK, TypeOK', RequestInvariant, KeptIdsInvariant, NEW e \in queue,
           SingleResult(e) \/ BatchedResult(e)
    PROVE  KeptIdsInvariant'
<1> DEFINE s == e.sub
<1>1. /\ e.req /\ s \in Subs /\ doc' = doc
      /\ req'[s].method_id = e.method_id
      /\ \A t \in Subs \ {s} : SameSubmission(t)
  <2>1. CASE SingleResult(e)
    <3>1. /\ e.req /\ s \in Subs /\ doc' = doc
          /\ req'[s] = [req[s] EXCEPT !.method_id = e.method_id, !.state = "freed"]
          /\ \A t \in Subs \ {s} : SameSubmission(t)
      BY <2>1, SingleConcerns
    <3>2. req[s] \in Request
      BY <3>1 DEF TypeOK
    <3> QED BY <3>1, <3>2 DEF Request
  <2>2. CASE BatchedResult(e)
    BY <2>2, BatchedConcerns
  <2> QED BY <2>1, <2>2
<1>2. StartsValid(doc[s]) => e.method_id # 0
  BY <1>1, Zenon DEF KeptIdsInvariant
<1>3. KeepsOwnId(s)'
  BY <1>1, <1>2 DEF KeepsOwnId, StartsValid, RequestCalls, Expected
<1>4. faults' >= faults
  <2>1. Concerns(e.sub)
    BY DeferredConcerns DEF RunDeferred
  <2> QED BY <2>1 DEF Concerns
<1>5. queue' \subseteq queue
  BY DEF SingleResult, BatchedResult
<1> QED BY <1>1, <1>3, <1>4, <1>5, KeptStep

LEMMA KeptDispatched ==
    ASSUME TypeOK, TypeOK', RequestInvariant, KeptIdsInvariant,
           NEW s \in Subs, NEW d \in Documents,
           Submit(s, d), DispatchCalls(s, d), UNCHANGED answers,
           NEW cb, NEW n, req' = [req EXCEPT ![s] = Processed(cb, d, n)]
    PROVE  KeptIdsInvariant'
<1>1. doc[s] = NULL /\ doc'[s] = d /\ \A t \in Subs \ {s} : SameSubmission(t)
  BY DEF Submit, TypeOK, SameSubmission
<1>2. \A e \in queue : e.sub = s => ~e.req
  BY <1>1, NothingBefore, Zenon
<1>3. /\ req'[s].method_id = MethodIdAt(d, Len(Calls(d)))
      /\ req'[s].state = IF Expected(d) = {} THEN "freed" ELSE "live"
  <2>1. req'[s] = Processed(cb, d, n)
    BY DEF TypeOK
  <2> QED BY <2>1 DEF Processed, NewRequest
<1>4. KeepsOwnId(s)'
  <2>1. SUFFICES ASSUME req'[s].state = "live", StartsValid(d) PROVE req'[s].method_id # 0
    BY <1>1 DEF KeepsOwnId, StartsValid, RequestCalls, Expected
  <2>2. PICK k \in Expected(d) : k \in 1 .. Len(Calls(d))
    BY <1>3, <2>1, CallIndices
  <2>3. Len(Calls(d)) \in 0 .. Len(Calls(d)) /\ k <= Len(Calls(d))
    BY <2>2, CallIndices
  <2> QED BY <1>3, <2>1, <2>3, MethodIdSet
<1>5. faults' >= faults
  BY DispatchGrows
<1>6. PICK L \in SUBSET DOMAIN Calls(d), E \in SUBSET DOMAIN Calls(d) :
        /\ Fail(Cardinality(L) + Cardinality(E))
        /\ queue' = queue \cup UNION {DispatchCall(s, d, i, E) : i \in DOMAIN Calls(d) \ L}
  BY DEF DispatchCalls
<1>7. E # {} => faults' > 0
  <2>1. IsFiniteSet(DOMAIN Calls(d))
    BY CallIndices, FS_Interval
  <2>2. IsFiniteSet(L) /\ IsFiniteSet(E) /\ Cardinality(L) \in Nat /\ Cardinality(E) \in Nat
    BY <2>1, FS_Subset, FS_CardinalityType
  <2>3. E # {} => Cardinality(E) # 0
    BY <2>2, FS_EmptySet
  <2> QED BY <1>6, <2>2, <2>3 DEF Fail, TypeOK
<1>8. ASSUME NEW e \in queue', e.req
      PROVE  (e \in queue /\ doc'[e.sub] = doc[e.sub]) \/ KeepsId(e, doc'[e.sub], faults')
  <2>1. CASE e \in queue
    BY <1>1, <1>2, <1>8, <2>1 DEF SameSubmission, TypeOK, Deferred
  <2>2. CASE e \notin queue
    <3>1. PICK i \in DOMAIN Calls(d) : e \in DispatchCall(s, d, i, E)
      BY <1>6, <1>8, <2>2
    <3>2. e.sub = s
      BY <3>1, DispatchCallType
    <3>3. i \in E => faults' > 0
      BY <1>7
    <3> QED BY <1>1, <1>8, <3>1, <3>2, <3>3, DispatchKeepsId
  <2> QED BY <2>1, <2>2
<1> QED BY <1>1, <1>4, <1>5, <1>8, KeptStep

LEMMA KeptProcess ==
    ASSUME TypeOK, TypeOK', RequestInvariant, KeptIdsInvariant,
           NEW s \in Subs, NEW d \in Documents, Process(s, d)
    PROVE  KeptIdsInvariant'
<1>1. CASE ProcessSingleCall(s, d)
  BY <1>1, KeptDispatched DEF ProcessSingleCall
<1>2. CASE ProcessBatchedCall(s, d)
  BY <1>2, KeptDispatched DEF ProcessBatchedCall
<1>3. CASE ProcessInvalid(s, d) \/ ProcessNoMemory(s, d)
  <2>1. Submit(s, d) /\ UNCHANGED <<req, queue>>
    BY <1>3 DEF ProcessInvalid, ProcessNoMemory, ProcessErrorFinal
  <2>2. doc[s] = NULL /\ \A t \in Subs \ {s} : doc'[t] = doc[t]
    BY <2>1 DEF Submit, TypeOK
  <2>3. req[s].state = "none" /\ \A e \in queue : e.sub = s => ~e.req
    BY <2>2, NothingBefore, Zenon
  <2>4. KeepsOwnId(s)'
    BY <2>1, <2>3 DEF KeepsOwnId
  <2>5. faults' >= faults /\ \A t \in Subs \ {s} : SameSubmission(t)
    BY ProcessConcerns DEF Concerns
  <2>6. ASSUME NEW e \in queue', e.req PROVE e \in queue /\ doc'[e.sub] = doc[e.sub]
    BY <2>1, <2>2, <2>3, <2>6 DEF TypeOK, Deferred
  <2> QED BY <2>4, <2>5, <2>6, KeptStep
<1> QED BY <1>1, <1>2, <1>3 DEF Process

(* A step that leaves documents and requests alone.                           *)
LEMMA KeptQuiet ==
    ASSUME KeptIdsInvariant, queue' \subseteq queue, UNCHANGED <<doc, req, faults>>
    PROVE  KeptIdsInvariant'
<1>1. \A s \in Subs : KeepsOwnId(s)'
  BY DEF KeptIdsInvariant, KeepsOwnId, StartsValid, RequestCalls, Expected
<1>2. ASSUME NEW e \in queue', e.req PROVE KeepsId(e, doc'[e.sub], faults')
  BY <1>2, Zenon DEF KeptIdsInvariant, KeepsId
<1> QED BY <1>1, <1>2 DEF KeptIdsInvariant, KeepsId, KeepsOwnId, StartsValid, RequestCalls, Expected

LEMMA KeptInit == Init => KeptIdsInvariant
BY DEF Init, KeptIdsInvariant, NoRequest, NewRequest

LEMMA KeptIdsStep ==
    TypeOK /\ TypeOK' /\ RequestInvariant /\ KeptIdsInvariant /\ [Next]_vars => KeptIdsInvariant'
<1> SUFFICES ASSUME TypeOK, TypeOK', RequestInvariant, KeptIdsInvariant, [Next]_vars
             PROVE  KeptIdsInvariant'
  OBVIOUS
<1>1. ASSUME NEW n \in MethodNames, NEW h \in Handlers, AddMethod(n, h) PROVE KeptIdsInvariant'
  BY <1>1, KeptQuiet DEF AddMethod
<1>2. ASSUME NEW n \in MethodNames, DelMethod(n) PROVE KeptIdsInvariant'
  BY <1>2, KeptQuiet DEF DelMethod
<1>3. CASE JsonRpcFree
  BY <1>3, KeptQuiet DEF JsonRpcFree
<1>4. ASSUME NEW e \in queue, RunNotification(e) PROVE KeptIdsInvariant'
  BY <1>4, KeptQuiet DEF RunNotification
<1>5. CASE UNCHANGED vars
  BY <1>5, KeptQuiet DEF vars
<1>6. ASSUME NEW e \in queue, RunDeferred(e) PROVE KeptIdsInvariant'
  BY <1>4, <1>6, KeptMethod, KeptResult DEF RunDeferred
<1> QED BY <1>1, <1>2, <1>3, <1>5, <1>6, KeptProcess, KeptReturnLater DEF Next

(* In a document whose first expected call is valid a method that kept its    *)
(* request finds the id of a call of that document, and no response is        *)
(* missing while memory lasts, however many methods keep their requests.      *)
THEOREM KeptHaveId == Spec => []KeptRequestsHaveId
<1>1. Init => TypeOK /\ RequestInvariant /\ KeptIdsInvariant
  BY TypeInit, CountsInit, KeptInit
<1>2. TypeOK /\ RequestInvariant /\ KeptIdsInvariant /\ [Next]_vars =>
        TypeOK' /\ RequestInvariant' /\ KeptIdsInvariant'
  BY TypeStep, CountsStep, KeptIdsStep
<1>3. TypeOK /\ RequestInvariant /\ OwnIdsInvariant /\ KeptIdsInvariant => KeptRequestsHaveId
  <2> SUFFICES ASSUME TypeOK, RequestInvariant, OwnIdsInvariant, KeptIdsInvariant
               PROVE  KeptRequestsHaveId
    OBVIOUS
  <2>1. ASSUME NEW h \in held, StartsValid(doc[h[1]])
        PROVE  req[h[1]].method_id \in RequestCalls(doc[h[1]])
    <3>1. h[1] \in Subs /\ h = <<h[1], h[2]>>
      BY DEF TypeOK
    <3>2. req[h[1]].state = "live"
      BY <3>1, KeptOutstanding, ReferredTo
    <3>3. req[h[1]].method_id # 0
      BY <2>1, <3>1, <3>2 DEF KeptIdsInvariant
    <3>4. IdOf(req[h[1]].method_id, doc[h[1]])
      BY <3>1 DEF OwnIdsInvariant, OwnIds
    <3> QED BY <3>3, <3>4 DEF IdOf
  <2>2. ASSUME NEW e \in queue, e.run = "return", e.obj = NULL, StartsValid(doc[e.sub])
        PROVE  faults > 0
    <3>1. e.req
      BY <2>2, Zenon DEF RequestInvariant, OneReferencePerCall
    <3> QED BY <2>2, <3>1, Zenon DEF KeptIdsInvariant
  <2> QED BY <2>1, <2>2, Zenon DEF KeptRequestsHaveId
<1> QED BY <1>1, <1>2, <1>3, AnswersOwnIds, PTL DEF Spec
=============================================================================
