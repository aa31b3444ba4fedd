-------------------------- MODULE JsonRpcHttpProofs --------------------------
(* Theorems about JsonRpcHttp: behind HTTP the server half does what          *)
(* JsonRpcServer says, every request is replied to at most once, and with the *)
(* status its answer calls for.                                               *)
EXTENDS JsonRpcHttp, JsonRpcServerProofs

USE ServerAssumption

-----------------------------------------------------------------------------
(* The server half.                                                           *)

LEMMA HttpServesStep == [HttpNext]_httpVars => [Next]_vars
<1> SUFFICES ASSUME [HttpNext]_httpVars PROVE [Next]_vars
  OBVIOUS
<1>1. ASSUME NEW n \in MethodNames, NEW h \in Handlers, HttpAddMethod(n, h) PROVE Next
  BY <1>1 DEF HttpAddMethod, Next
<1>2. ASSUME NEW s \in Subs, NEW d \in Documents, HttpCall(s, d) PROVE Next
  BY <1>2, Zenon DEF HttpCall, Next
<1>3. ASSUME NEW s \in Subs, HttpParseError(s) PROVE UNCHANGED vars
  BY <1>3, Zenon DEF HttpParseError
<1>4. ASSUME NEW s \in Subs, NEW i \in Indices, HttpDeferred(s, i) PROVE Next
  BY <1>4, Zenon DEF HttpDeferred, Next
<1>5. ASSUME NEW s \in Subs, NEW i \in Indices, HttpKept(s, i) PROVE Next
  BY <1>5, Zenon DEF HttpKept, Next
<1>6. ASSUME UNCHANGED httpVars PROVE UNCHANGED vars
  BY <1>6 DEF httpVars
<1> QED BY <1>1, <1>2, <1>3, <1>4, <1>5, <1>6, Zenon DEF HttpNext

(* Whatever is proved of JsonRpcServer holds behind HTTP too: the transport   *)
(* only replies, and keeps documents that cannot be parsed away from it.      *)
THEOREM HttpServes == HttpSpec => Spec
<1>1. HttpInit => Init
  BY DEF HttpInit
<1> QED BY <1>1, HttpServesStep, PTL DEF HttpSpec, Spec

(* No deferred call and no method refers to a freed request behind HTTP.      *)
THEOREM HttpReferencesSafe == HttpSpec => []ReferencedRequestsLive
BY HttpServes, ReferencesSafe, PTL
-----------------------------------------------------------------------------
(* What the actions of the server do to a submission.                         *)

(* An answer to a single request, or to a document without calls.             *)
Lone(r) == r = NULL \/ \E o \in Response : r = <<o>>

(* The step has not answered s, and has not brought its request to life.      *)
Unanswered(s) ==
    /\ answers'[s] = answers[s]
    /\ req'[s].state = "live" => Expected(doc'[s]) # {}

(* The step has answered s with r.                                            *)
AnsweredWith(s, r) ==
    /\ answers[s] = << >> /\ answers'[s] = <<r>>
    /\ r \in Seq(Response) \cup {NULL}
    /\ req'[s].state # "live"
    /\ ~(req'[s].state # "none" /\ req'[s].return_cb = "batched") => Lone(r)
    /\ faults' = 0 => ~OnlyNotifies(doc'[s])

LEMMA LoneAnswer ==
    ASSUME NEW o \in Response
    PROVE  Lone(<<o>>) /\ <<o>> \in Seq(Response)
BY DEF Lone

(* A document with calls is accepted: its request lives while it expects a    *)
(* result, and a single call is answered on its own.                          *)
LEMMA AcceptedSubmission ==
    ASSUME TypeOK, NEW s \in Subs, NEW d \in Documents, Submit(s, d), UNCHANGED answers,
           NEW cb, NEW n, req' = [req EXCEPT ![s] = Processed(cb, d, n)]
    PROVE  /\ Unanswered(s) /\ req'[s].return_cb = cb
           /\ \A t \in Subs \ {s} : SameSubmission(t)
<1>1. doc'[s] = d /\ req'[s] = Processed(cb, d, n)
  BY DEF Submit, TypeOK
<1>2. Processed(cb, d, n).return_cb = cb
  BY DEF Processed, NewRequest
<1>3. Processed(cb, d, n).state = "live" => Expected(d) # {}
  BY DEF Processed, NewRequest
<1>4. \A t \in Subs \ {s} : SameSubmission(t)
  BY DEF SameSubmission, Submit, TypeOK
<1> QED BY <1>1, <1>2, <1>3, <1>4 DEF Unanswered

(* A document without calls, or without memory for its request, is refused.   *)
LEMMA RefusedSubmission ==
    ASSUME TypeOK, RequestInvariant, NEW s \in Subs, NEW d \in Documents, Submit(s, d),
           NEW k \in {"invalid_request", "internal_error"}, NEW n \in Nat,
           ProcessErrorFinal(s, k, n), Calls(d) = << >> \/ n > 0
    PROVE  /\ \E r : AnsweredWith(s, r)
           /\ req'[s] = req[s] /\ faults' >= faults
           /\ \A t \in Subs \ {s} : SameSubmission(t)
<1>1. doc[s] = NULL /\ doc'[s] = d /\ \A t \in Subs \ {s} : doc'[t] = doc[t]
  BY DEF Submit, TypeOK
<1>2. answers[s] = << >> /\ req[s].state = "none"
  BY <1>1, NothingBefore, Zenon
<1>3. PICK r : /\ UserCb(s, r) /\ UNCHANGED req
               /\ (r = NULL /\ Fail(n + 1)) \/ (r = <<Answer(k, 0, 0)>> /\ Fail(n))
  BY Zenon DEF ProcessErrorFinal
<1>4. Lone(r) /\ r \in Seq(Response) \cup {NULL}
  <2>1. Answer(k, 0, 0) \in Response
    BY DEF Answer, Response
  <2> QED BY <1>3, <2>1, LoneAnswer DEF Lone
<1>5. faults' >= faults /\ (faults' = 0 => Calls(d) = << >>)
  <2>1. faults' >= faults /\ (n > 0 => faults' > 0)
    BY <1>3, FailGrows
  <2> QED BY <2>1
<1>6. answers'[s] = <<r>> /\ \A t \in Subs \ {s} : answers'[t] = answers[t]
  BY <1>2, <1>3, UserCbAnswers
<1>7. faults' = 0 => ~OnlyNotifies(doc'[s])
  BY <1>1, <1>5 DEF OnlyNotifies
<1>8. AnsweredWith(s, r)
  BY <1>2, <1>3, <1>4, <1>6, <1>7 DEF AnsweredWith
<1>9. \A t \in Subs \ {s} : SameSubmission(t)
  BY <1>1, <1>3, <1>6 DEF SameSubmission
<1> QED BY <1>3, <1>5, <1>8, <1>9

(* json_rpc_process_request: a document is accepted or answered at once.      *)
LEMMA ProcessDelivers ==
    ASSUME TypeOK, RequestInvariant, NEW s \in Subs, NEW d \in Documents, Process(s, d)
    PROVE  /\ doc[s] = NULL /\ doc'[s] = d /\ d # NULL /\ faults' >= faults
           /\ Unanswered(s) \/ \E r : AnsweredWith(s, r)
           /\ d.type = "object" => req'[s].return_cb \in {"single", req[s].return_cb}
           /\ \A t \in Subs \ {s} : SameSubmission(t)
<1>1. doc[s] = NULL /\ doc'[s] = d /\ d # NULL /\ Submit(s, d)
  BY CallIndices DEF Process, ProcessSingleCall, ProcessBatchedCall, ProcessInvalid,
                     ProcessNoMemory, Submit, TypeOK
<1>2. CASE ProcessSingleCall(s, d)
  <2>1. Unanswered(s) /\ req'[s].return_cb = "single" /\ \A t \in Subs \ {s} : SameSubmission(t)
    BY <1>1, <1>2, AcceptedSubmission DEF ProcessSingleCall
  <2>2. faults' >= faults
    BY <1>2, DispatchGrows DEF ProcessSingleCall
  <2> QED BY <1>1, <2>1, <2>2
<1>3. CASE ProcessBatchedCall(s, d)
  <2>1. Unanswered(s) /\ \A t \in Subs \ {s} : SameSubmission(t)
    BY <1>1, <1>3, AcceptedSubmission DEF ProcessBatchedCall
  <2>2. faults' >= faults
    BY <1>3, DispatchGrows DEF ProcessBatchedCall
  <2>3. d.type # "object"
    BY <1>3 DEF ProcessBatchedCall, Elements
  <2> QED BY <1>1, <2>1, <2>2, <2>3
<1>4. CASE ProcessInvalid(s, d)
  <2>1. ProcessErrorFinal(s, "invalid_request", 0) /\ Calls(d) = << >>
    BY <1>4 DEF ProcessInvalid
  <2>2. /\ \E r : AnsweredWith(s, r)
        /\ req'[s] = req[s] /\ faults' >= faults
        /\ \A t \in Subs \ {s} : SameSubmission(t)
    BY <1>1, <2>1, RefusedSubmission
  <2> QED BY <1>1, <2>2
<1>5. CASE ProcessNoMemory(s, d)
  <2>1. ProcessErrorFinal(s, "internal_error", 1)
    BY <1>5 DEF ProcessNoMemory
  <2>2. /\ \E r : AnsweredWith(s, r)
        /\ req'[s] = req[s] /\ faults' >= faults
        /\ \A t \in Subs \ {s} : SameSubmission(t)
    BY <1>1, <2>1, RefusedSubmission
  <2> QED BY <1>1, <2>2
<1> QED BY <1>2, <1>3, <1>4, <1>5 DEF Process
(* A method may change the id in its request, and nothing else of it.         *)
Undisturbed(s) ==
    /\ doc'[s] = doc[s] /\ answers'[s] = answers[s]
    /\ req'[s].return_cb = req[s].return_cb
    /\ req'[s].state = "live" => req[s].state = "live"

LEMMA UndisturbedMethodId ==
    ASSUME TypeOK, NEW s \in Subs, NEW m, UNCHANGED <<doc, answers>>,
           req' = [req EXCEPT ![s].method_id = m]
    PROVE  \A t \in Subs : Undisturbed(t)
<1>1. \A t \in Subs : req'[t].return_cb = req[t].return_cb /\ req'[t].state = req[t].state
  BY DEF TypeOK, Request
<1> QED BY <1>1 DEF Undisturbed

(* A result callback answers its own submission only, and only while its      *)
(* request is live.                                                           *)
LEMMA SingleDelivers ==
    ASSUME TypeOK, RequestInvariant, NEW e \in queue, SingleResult(e),
           Expected(doc[e.sub]) # {}
    PROVE  /\ \A t \in Subs \ {e.sub} : SameSubmission(t)
           /\ doc' = doc /\ faults' = faults
           /\ req'[e.sub].return_cb = req[e.sub].return_cb
           /\ \E r : AnsweredWith(e.sub, r)
<1> DEFINE s == e.sub
           r == IF e.obj = NULL THEN NULL ELSE <<e.obj>>
<1>1. e.req /\ s \in Subs /\ e.call \in Outstanding(s)
  BY OnlyReference, Zenon DEF SingleResult, RequestInvariant, OneReferencePerCall
<1>2. answers[s] = << >>
  BY <1>1, ReferredTo
<1>3. e.obj \in Response \cup {NULL}
  BY DEF TypeOK, Deferred
<1>4. Lone(r) /\ r \in Seq(Response) \cup {NULL}
  BY <1>3, LoneAnswer DEF Lone
<1>5. UserCb(s, r) /\ doc' = doc /\ faults' = faults
  BY DEF SingleResult
<1> HIDE DEF r
<1>6. answers'[s] = <<r>> /\ \A t \in Subs \ {s} : answers'[t] = answers[t]
  BY <1>1, <1>2, <1>5, UserCbAnswers
<1>7. req' = [req EXCEPT ![s].method_id = e.method_id, ![s].state = "freed"]
  BY DEF SingleResult
<1>8. /\ req'[s].state = "freed" /\ req'[s].return_cb = req[s].return_cb
      /\ \A t \in Subs \ {s} : req'[t] = req[t]
  BY <1>1, <1>7 DEF TypeOK, Request
<1>9. ~OnlyNotifies(doc'[s])
  BY <1>5 DEF OnlyNotifies
<1>10. AnsweredWith(s, r)
  BY <1>2, <1>4, <1>6, <1>8, <1>9 DEF AnsweredWith
<1>11. \A t \in Subs \ {s} : SameSubmission(t)
  BY <1>5, <1>6, <1>8 DEF SameSubmission
<1> QED BY <1>5, <1>8, <1>10, <1>11

LEMMA BatchedDelivers ==
    ASSUME TypeOK, RequestInvariant, NEW e \in queue, BatchedResult(e),
           Expected(doc[e.sub]) # {}
    PROVE  /\ \A t \in Subs \ {e.sub} : SameSubmission(t)
           /\ doc' = doc /\ faults' >= faults
           /\ req'[e.sub].return_cb = req[e.sub].return_cb
           /\ Undisturbed(e.sub) \/ \E r : AnsweredWith(e.sub, r)
<1> DEFINE s == e.sub
           last == req[s].result_count + 1 = req[s].waiting_result_count
<1>1. e.req /\ s \in Subs /\ e.call \in Outstanding(s)
  BY OnlyReference, Zenon DEF BatchedResult, RequestInvariant, OneReferencePerCall
<1>2. answers[s] = << >> /\ req[s].state = "live" /\ req[s] \in Request
  BY <1>1, ReferredTo DEF TypeOK
<1>3. e.obj \in Response \cup {NULL}
  BY DEF TypeOK, Deferred
<1>4. doc' = doc /\ req[s].return_cb = "batched"
  BY DEF BatchedResult
<1>5. PICK batch \in {req[s].result_batch} \cup
                        (IF e.obj = NULL THEN {} ELSE {Append(req[s].result_batch, e.obj)}) :
        /\ Fail(IF e.obj # NULL /\ batch = req[s].result_batch THEN 1 ELSE 0)
        /\ req' = [req EXCEPT ![s] =
              [req[s] EXCEPT !.method_id = e.method_id, !.result_batch = batch,
                             !.result_count = @ + 1,
                             !.state = IF last THEN "freed" ELSE @]]
        /\ IF last THEN UserCb(s, batch) ELSE UNCHANGED <<answers, idrefs>>
  BY DEF BatchedResult
<1> HIDE DEF last
<1>6. faults' >= faults
  BY <1>5, FailGrows
<1>7. batch \in Seq(Response)
  <2>1. req[s].result_batch \in Seq(Response)
    BY <1>2 DEF Request
  <2>2. CASE batch = req[s].result_batch
    BY <2>1, <2>2
  <2>3. CASE e.obj # NULL /\ batch = Append(req[s].result_batch, e.obj)
    <3>1. e.obj \in Response
      BY <1>3, <2>3
    <3> QED BY <2>1, <2>3, <3>1
  <2>4. batch = req[s].result_batch \/ (e.obj # NULL /\ batch = Append(req[s].result_batch, e.obj))
    BY <1>5, Zenon
  <2> QED BY <2>2, <2>3, <2>4
<1>8. /\ req'[s].return_cb = "batched"
      /\ req'[s].state = IF last THEN "freed" ELSE "live"
      /\ \A t \in Subs \ {s} : req'[t] = req[t]
  BY <1>1, <1>2, <1>4, <1>5 DEF TypeOK, Request
<1>9. CASE last
  <2>1. answers'[s] = <<batch>> /\ \A t \in Subs \ {s} : answers'[t] = answers[t]
    BY <1>1, <1>2, <1>5, <1>9, UserCbAnswers
  <2>2. ~OnlyNotifies(doc'[s])
    BY <1>4 DEF OnlyNotifies
  <2>3. AnsweredWith(s, batch)
    BY <1>2, <1>7, <1>8, <1>9, <2>1, <2>2 DEF AnsweredWith
  <2>4. \A t \in Subs \ {s} : SameSubmission(t)
    BY <1>4, <1>8, <2>1 DEF SameSubmission
  <2> QED BY <1>4, <1>6, <1>8, <2>3, <2>4
<1>10. CASE ~last
  <2>1. answers' = answers
    BY <1>5, <1>10
  <2>2. Undisturbed(s)
    BY <1>2, <1>4, <1>8, <2>1 DEF Undisturbed
  <2>3. \A t \in Subs \ {s} : SameSubmission(t)
    BY <1>4, <1>8, <2>1 DEF SameSubmission
  <2> QED BY <1>4, <1>6, <1>8, <2>2, <2>3
<1> QED BY <1>9, <1>10
-----------------------------------------------------------------------------
(* The inductive invariant.                                                   *)

(* A submission nobody answers or replies to stays sound.                     *)
LEMMA ReplyFrame ==
    ASSUME TypeOK, TypeOK', NEW s \in Subs, ReplySound(s), Undisturbed(s),
           replies'[s] = replies[s], s \in unparsed' <=> s \in unparsed, faults' >= faults
    PROVE  ReplySound(s)'
<1>1. faults' = 0 => faults = 0
  BY DEF TypeOK
<1> QED BY <1>1 DEF ReplySound, Undisturbed, TellsOutcome, OnlyNotifies

(* The reply to an answer has one of four statuses, and tells the outcome.    *)
LEMMA StatusOfAnswer ==
    ASSUME NEW s \in Subs, NEW r, AnsweredWith(s, r)
    PROVE  /\ Status(req'[s], r) \in Statuses
           /\ req'[s].return_cb = "single" /\ Status(req'[s], r) # 500 =>
                 (Status(req'[s], r) = 200 <=> (r # NULL /\ r[1].kind = "result"))
<1>1. CASE r = NULL
  BY <1>1 DEF Status, Statuses
<1>2. CASE r # NULL /\ req'[s].state # "none" /\ req'[s].return_cb = "batched"
  BY <1>2 DEF Status, Statuses
<1>3. CASE r # NULL /\ ~(req'[s].state # "none" /\ req'[s].return_cb = "batched")
  <2>1. PICK o \in Response : r = <<o>>
    BY <1>3 DEF AnsweredWith, Lone
  <2>2. r[1] = o /\ o.kind \in {"result", "internal_error", "method_not_found", "invalid_request"}
    BY <2>1 DEF Response
  <2> DEFINE k == r[1].kind
  <2>3. Status(req'[s], r) = CASE k = "result" -> 200
                    [] k = "invalid_request" -> 400
                    [] k = "method_not_found" -> 404
                    [] k = "internal_error" -> 500
    BY <1>3 DEF Status
  <2> QED BY <1>3, <2>2, <2>3 DEF Statuses
<1> QED BY <1>1, <1>2, <1>3

(* An answer is passed on with its status, or as an internal error.           *)
LEMMA ReplyDelivered ==
    ASSUME TypeOK', HttpInvariant, NEW s \in Subs, NEW r, AnsweredWith(s, r), JrpcResult(s),
           s \notin unparsed, unparsed' = unparsed,
           doc'[s] # NULL, doc'[s].type = "object" => req'[s].return_cb = "single"
    PROVE  /\ replies' \in [Subs -> Seq(Statuses)] /\ ReplySound(s)'
           /\ \A t \in Subs \ {s} : replies'[t] = replies[t]
<1>1. replies \in [Subs -> Seq(Statuses)] /\ replies[s] = << >> /\ answers[s] = << >>
  <2>1. replies \in [Subs -> Seq(Statuses)] /\ answers[s] = << >> /\ Len(replies[s]) = Len(answers[s])
    BY DEF HttpInvariant, ReplySound, AnsweredWith
  <2> QED BY <2>1
<1>2. answers'[s] = <<r>> /\ answers'[s] # answers[s] /\ Len(answers'[s]) = 1 /\ answers'[s][1] = r
  BY DEF AnsweredWith
<1>3. PICK x : SendReply(s, x) /\ x \in {Status(req'[s], r), 500}
  BY <1>2 DEF JrpcResult
<1>4. /\ x \in Statuses
      /\ req'[s].return_cb = "single" /\ x # 500 => (x = 200 <=> (r # NULL /\ r[1].kind = "result"))
  <2>1. 500 \in Statuses
    BY DEF Statuses
  <2> QED BY <1>3, <2>1, StatusOfAnswer
<1>5. /\ replies' \in [Subs -> Seq(Statuses)] /\ replies'[s] = <<x>>
      /\ \A t \in Subs \ {s} : replies'[t] = replies[t]
  BY <1>1, <1>3, <1>4 DEF SendReply
<1>6. Len(replies'[s]) = 1 /\ replies'[s][1] = x
  BY <1>5
<1>7. doc'[s].type = "object" => TellsOutcome(s)'
  BY <1>2, <1>4, <1>6 DEF TellsOutcome
<1>8. answers'[s] # << >> /\ faults' = 0 => ~OnlyNotifies(doc[s])'
  BY DEF AnsweredWith, OnlyNotifies
<1>9. req'[s].state # "live"
  BY DEF AnsweredWith
<1> QED BY <1>2, <1>5, <1>6, <1>7, <1>8, <1>9 DEF ReplySound
LEMMA HttpInvariantInit == HttpInit => HttpInvariant
<1> SUFFICES ASSUME HttpInit PROVE HttpInvariant
  OBVIOUS
<1>1. replies \in [Subs -> Seq(Statuses)] /\ unparsed = {}
  BY DEF HttpInit
<1>2. ASSUME NEW s \in Subs PROVE ReplySound(s)
  <2>1. replies[s] = << >> /\ answers[s] = << >> /\ s \notin unparsed
    BY DEF HttpInit, Init
  <2>2. req[s].state = "none" /\ req[s].return_cb = "single"
    BY DEF HttpInit, Init, NoRequest, NewRequest
  <2> QED BY <2>1, <2>2 DEF ReplySound
<1> QED BY <1>1, <1>2 DEF HttpInvariant

(* The submissions a step does not concern.                                   *)
LEMMA OthersSound ==
    ASSUME TypeOK, TypeOK', HttpInvariant, NEW s \in Subs,
           \A t \in Subs \ {s} : SameSubmission(t) /\ replies'[t] = replies[t],
           unparsed' \subseteq unparsed \cup {s}, unparsed \subseteq unparsed', faults' >= faults,
           replies' \in [Subs -> Seq(Statuses)], ReplySound(s)'
    PROVE  HttpInvariant'
<1>1. ASSUME NEW t \in Subs \ {s} PROVE ReplySound(t)'
  <2>1. Undisturbed(t)
    BY DEF SameSubmission, Undisturbed
  <2>2. ReplySound(t) /\ replies'[t] = replies[t] /\ (t \in unparsed' <=> t \in unparsed)
    BY DEF HttpInvariant
  <2> QED BY <2>1, <2>2, ReplyFrame
<1>2. \A t \in Subs : ReplySound(t)'
  BY <1>1
<1> QED BY <1>2 DEF HttpInvariant

(* json_rpc_call with a document.                                             *)
LEMMA HttpCallSound ==
    ASSUME TypeOK, TypeOK', RequestInvariant, HttpInvariant,
           NEW s \in Subs, NEW d \in Documents, HttpCall(s, d)
    PROVE  HttpInvariant'
<1>1. Process(s, d) /\ JrpcResult(s) /\ s \notin unparsed /\ unparsed' = unparsed
  BY DEF HttpCall
<1>2. /\ doc[s] = NULL /\ doc'[s] = d /\ d # NULL /\ faults' >= faults
      /\ Unanswered(s) \/ \E r : AnsweredWith(s, r)
      /\ d.type = "object" => req'[s].return_cb \in {"single", req[s].return_cb}
      /\ \A t \in Subs \ {s} : SameSubmission(t)
  BY <1>1, ProcessDelivers
<1>3. /\ ReplySound(s) /\ req[s].return_cb = "single" /\ answers[s] = << >>
      /\ replies \in [Subs -> Seq(Statuses)]
  <2>1. ReplySound(s) /\ replies \in [Subs -> Seq(Statuses)]
    BY DEF HttpInvariant
  <2>2. answers[s] = << >>
    BY <1>2, NothingBefore, Zenon
  <2> QED BY <1>2, <2>1, <2>2 DEF ReplySound
<1>4. d.type = "object" => req'[s].return_cb = "single"
  BY <1>2, <1>3
<1>5. CASE Unanswered(s)
  <2>1. replies' = replies
    BY <1>1, <1>5 DEF JrpcResult, Unanswered
  <2>2. Len(replies'[s]) = Len(answers'[s]) /\ answers'[s] = << >>
    BY <1>1, <1>3, <1>5, <2>1 DEF ReplySound, Unanswered
  <2>3. ReplySound(s)'
    BY <1>1, <1>2, <1>4, <1>5, <2>2 DEF ReplySound, Unanswered
  <2> QED BY <1>1, <1>2, <1>3, <2>1, <2>3, OthersSound
<1>6. CASE \E r : AnsweredWith(s, r)
  <2>1. PICK r : AnsweredWith(s, r)
    BY <1>6
  <2>2. /\ replies' \in [Subs -> Seq(Statuses)] /\ ReplySound(s)'
        /\ \A t \in Subs \ {s} : replies'[t] = replies[t]
    BY <1>1, <1>2, <1>4, <2>1, ReplyDelivered
  <2> QED BY <1>1, <1>2, <2>2, OthersSound
<1> QED BY <1>2, <1>5, <1>6

(* json_rpc_call without one.                                                 *)
LEMMA HttpParseErrorSound ==
    ASSUME TypeOK, TypeOK', RequestInvariant, HttpInvariant, NEW s \in Subs, HttpParseError(s)
    PROVE  HttpInvariant'
<1>1. /\ doc[s] = NULL /\ s \notin unparsed /\ unparsed' = unparsed \cup {s}
      /\ SendReply(s, 500) /\ UNCHANGED <<doc, req, answers, faults>>
  BY DEF HttpParseError, vars
<1>2. answers[s] = << >>
  BY <1>1, NothingBefore, Zenon
<1>3. ReplySound(s) /\ replies \in [Subs -> Seq(Statuses)] /\ 500 \in Statuses
  BY DEF HttpInvariant, Statuses
<1>4. replies[s] = << >>
  <2>1. Len(replies[s]) = 0
    BY <1>1, <1>2, <1>3 DEF ReplySound
  <2> QED BY <1>3, <2>1
<1>5. /\ replies' \in [Subs -> Seq(Statuses)] /\ replies'[s] = <<500>>
      /\ \A t \in Subs \ {s} : replies'[t] = replies[t]
  BY <1>1, <1>3, <1>4 DEF SendReply
<1>6. Len(replies'[s]) = 1
  BY <1>5
<1>7. ReplySound(s)'
  BY <1>1, <1>2, <1>3, <1>6 DEF ReplySound
<1>8. \A t \in Subs \ {s} : SameSubmission(t)
  BY <1>1 DEF SameSubmission
<1>9. faults' >= faults
  BY <1>1 DEF TypeOK
<1> QED BY <1>1, <1>5, <1>7, <1>8, <1>9, OthersSound

(* Nobody is answered, and no request comes to life.                          *)
LEMMA HttpQuiet ==
    ASSUME TypeOK, TypeOK', HttpInvariant, UNCHANGED <<unparsed, replies>>, faults' >= faults,
           \A s \in Subs : Undisturbed(s)
    PROVE  HttpInvariant'
<1>1. \A s \in Subs : ReplySound(s)'
  BY ReplyFrame DEF HttpInvariant
<1> QED BY <1>1 DEF HttpInvariant

(* A deferred call.                                                           *)
LEMMA HttpDeferredSound ==
    ASSUME TypeOK, TypeOK', RequestInvariant, HttpInvariant,
           NEW s \in Subs, NEW i \in Indices, HttpDeferred(s, i)
    PROVE  HttpInvariant'
<1>1. PICK e \in queue : e.sub = s /\ RunDeferred(e)
  BY Zenon DEF HttpDeferred
<1>2. JrpcResult(s) /\ unparsed' = unparsed
  BY DEF HttpDeferred
<1>3. replies \in [Subs -> Seq(Statuses)] /\ ReplySound(s)
  BY DEF HttpInvariant
<1>4. CASE RunNotification(e)
  <2>1. faults' >= faults /\ \A t \in Subs : Undisturbed(t)
    BY <1>4 DEF RunNotification, Undisturbed, TypeOK
  <2>2. replies' = replies
    BY <1>2, <1>4 DEF RunNotification, JrpcResult
  <2> QED BY <1>2, <2>1, <2>2, HttpQuiet
<1>5. CASE RunKeeper(e)
  <2>1. \A t \in Subs : Undisturbed(t)
    BY <1>1, <1>5, UndisturbedMethodId DEF RunKeeper
  <2>2. replies' = replies /\ faults' >= faults
    BY <1>2, <1>5 DEF RunKeeper, JrpcResult, TypeOK
  <2> QED BY <1>2, <2>1, <2>2, HttpQuiet
<1>6. CASE RunMethod(e)
  <2>1. \A t \in Subs : Undisturbed(t)
    BY <1>1, <1>6, UndisturbedMethodId DEF RunMethod
  <2>2. faults' >= faults
    BY <1>6, ReturnGrows DEF RunMethod
  <2>3. replies' = replies
    BY <1>2, <1>6 DEF RunMethod, JrpcResult
  <2> QED BY <1>2, <2>1, <2>2, <2>3, HttpQuiet
<1>7. CASE SingleResult(e) \/ BatchedResult(e)
  <2>1. e.req /\ e.call \in Outstanding(s)
    BY <1>1, <1>7, OnlyReference, Zenon
       DEF SingleResult, BatchedResult, RequestInvariant, OneReferencePerCall
  <2>2. req[s].state = "live" /\ doc[s] # NULL /\ answers[s] = << >>
    BY <2>1, ReferredTo
  <2>3. Expected(doc[s]) # {}
    BY <1>3, <2>2 DEF ReplySound
  <2>4. s \notin unparsed
    BY <1>3, <2>2 DEF ReplySound
  <2>5. /\ \A t \in Subs \ {s} : SameSubmission(t)
        /\ doc' = doc /\ faults' >= faults
        /\ req'[s].return_cb = req[s].return_cb
        /\ Undisturbed(s) \/ \E r : AnsweredWith(s, r)
    <3>1. CASE SingleResult(e)
      <4>1. /\ \A t \in Subs \ {s} : SameSubmission(t)
            /\ doc' = doc /\ faults' = faults
            /\ req'[s].return_cb = req[s].return_cb
            /\ \E r : AnsweredWith(s, r)
        BY <1>1, <2>3, <3>1, SingleDelivers
      <4> QED BY <4>1 DEF TypeOK
    <3>2. CASE BatchedResult(e)
      BY <1>1, <2>3, <3>2, BatchedDelivers
    <3> QED BY <1>7, <3>1, <3>2
  <2>6. doc'[s] # NULL /\ (doc'[s].type = "object" => req'[s].return_cb = "single")
    BY <1>3, <2>2, <2>5 DEF ReplySound
  <2>7. CASE Undisturbed(s)
    <3>1. replies' = replies
      BY <1>2, <2>7 DEF JrpcResult, Undisturbed
    <3>2. ReplySound(s)'
      BY <1>2, <1>3, <2>5, <2>7, <3>1, ReplyFrame
    <3> QED BY <1>2, <1>3, <2>5, <3>1, <3>2, OthersSound
  <2>8. CASE \E r : AnsweredWith(s, r)
    <3>1. PICK r : AnsweredWith(s, r)
      BY <2>8
    <3>2. /\ replies' \in [Subs -> Seq(Statuses)] /\ ReplySound(s)'
          /\ \A t \in Subs \ {s} : replies'[t] = replies[t]
      BY <1>2, <2>4, <2>6, <3>1, ReplyDelivered
    <3> QED BY <1>2, <2>5, <3>2, OthersSound
  <2> QED BY <2>5, <2>7, <2>8
<1> QED BY <1>1, <1>4, <1>5, <1>6, <1>7 DEF RunDeferred

LEMMA HttpInvariantStep ==
    TypeOK /\ TypeOK' /\ RequestInvariant /\ HttpInvariant /\ [HttpNext]_httpVars => HttpInvariant'
<1> SUFFICES ASSUME TypeOK, TypeOK', RequestInvariant, HttpInvariant, [HttpNext]_httpVars
             PROVE  HttpInvariant'
  OBVIOUS
<1>1. ASSUME NEW n \in MethodNames, NEW h \in Handlers, HttpAddMethod(n, h) PROVE HttpInvariant'
  <2>1. UNCHANGED <<unparsed, replies>> /\ faults' >= faults /\ \A s \in Subs : Undisturbed(s)
    BY <1>1 DEF HttpAddMethod, AddMethod, Undisturbed, TypeOK
  <2> QED BY <2>1, HttpQuiet
<1>2. ASSUME NEW s \in Subs, NEW i \in Indices, HttpKept(s, i) PROVE HttpInvariant'
  <2>1. UNCHANGED <<unparsed, replies>> /\ ReturnLater(s, i)
    BY <1>2 DEF HttpKept
  <2>2. faults' >= faults
    BY <2>1, ReturnGrows DEF ReturnLater
  <2>3. \A t \in Subs : Undisturbed(t)
    BY <2>1 DEF ReturnLater, Undisturbed
  <2> QED BY <2>1, <2>2, <2>3, HttpQuiet
<1>3. ASSUME UNCHANGED httpVars PROVE HttpInvariant'
  <2>1. UNCHANGED <<unparsed, replies>> /\ faults' >= faults /\ \A s \in Subs : Undisturbed(s)
    BY <1>3 DEF httpVars, vars, Undisturbed, TypeOK
  <2> QED BY <2>1, HttpQuiet
<1> QED BY <1>1, <1>2, <1>3, HttpCallSound, HttpParseErrorSound, HttpDeferredSound, Zenon
        DEF HttpNext

(* The replies to a request follow its answers.                               *)
THEOREM HttpCorrect == HttpSpec => []HttpInvariant
<1>1. TypeOK /\ TypeOK' /\ RequestInvariant /\ HttpInvariant /\ [HttpNext]_httpVars => HttpInvariant'
  BY HttpInvariantStep
<1> QED BY <1>1, HttpInvariantInit, HttpServes, TypeCorrect, CountsCorrect, PTL DEF HttpSpec

(* No request is replied to twice, and while memory lasts none that only      *)
(* notifies is replied to at all.                                             *)
THEOREM RepliesFit == HttpSpec => []RepliesFitDocument
<1>1. RequestInvariant /\ HttpInvariant => RepliesFitDocument
  <2> SUFFICES ASSUME RequestInvariant, HttpInvariant, NEW s \in Subs
               PROVE  /\ Len(replies[s]) <= 1
                      /\ replies[s] # << >> /\ faults = 0 => ~OnlyNotifies(doc[s])
    BY DEF RepliesFitDocument
  <2>1. Len(answers[s]) <= 1 /\ ReplySound(s) /\ replies[s] \in Seq(Statuses)
    BY DEF RequestInvariant, RequestCounts, HttpInvariant
  <2>2. CASE s \in unparsed
    <3>1. doc[s] = NULL /\ Len(replies[s]) = 1
      BY <2>1, <2>2 DEF ReplySound
    <3>2. ~OnlyNotifies(doc[s])
      BY <3>1 DEF OnlyNotifies
    <3> QED BY <3>1, <3>2
  <2>3. CASE s \notin unparsed
    <3>1. Len(replies[s]) = Len(answers[s])
      BY <2>1, <2>3 DEF ReplySound
    <3>2. replies[s] # << >> => answers[s] # << >>
      BY <2>1, <3>1
    <3> QED BY <2>1, <3>1, <3>2 DEF ReplySound
  <2> QED BY <2>2, <2>3
<1> QED BY <1>1, HttpCorrect, HttpServes, CountsCorrect, PTL

(* The status of a reply is 200 if and only if its call ran to a result,      *)
(* unless the reply is an internal error.                                     *)
THEOREM StatusesTell == HttpSpec => []StatusTellsOutcome
<1>1. HttpInvariant => StatusTellsOutcome
  <2> SUFFICES ASSUME HttpInvariant, NEW s \in Subs, replies[s] # << >>, s \notin unparsed,
                      doc[s].type = "object"
               PROVE  TellsOutcome(s)
    BY DEF StatusTellsOutcome, TellsOutcome
  <2>1. ReplySound(s) /\ replies[s] \in Seq(Statuses)
    BY DEF HttpInvariant
  <2>2. answers[s] # << >>
    BY <2>1 DEF ReplySound
  <2> QED BY <2>1, <2>2 DEF ReplySound
<1> QED BY <1>1, HttpCorrect, PTL
=============================================================================
