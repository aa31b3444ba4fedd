----------------------------- MODULE JsonRpcHttp -----------------------------
(* The HTTP transport (json_rpc_tt_http.c) on top of the server half: every   *)
(* POST carries one document, and the evhttp_request waits until jrpc_result  *)
(* replies to it.  A submission of JsonRpcServer is one HTTP request.         *)
EXTENDS JsonRpcServer

VARIABLES
    unparsed,    \* the requests in whose body json_parser_parse found no document
    replies      \* the statuses each HTTP request was replied with

httpVars == <<vars, unparsed, replies>>

HttpInit ==
    /\ Init
    /\ unparsed = {}
    /\ replies = [s \in Subs |-> << >>]

SendReply(s, status) == replies' = [replies EXCEPT ![s] = Append(@, status)]

(* As Status, success for every answer there is.                              *)
StatusOk(r, res) == IF res = NULL THEN 500 ELSE 200

(* get_status_and_reason: a batch is 200, a single error has its own status.  *)
Status(r, res) ==
    CASE res = NULL -> 500
      [] res # NULL /\ r.state # "none" /\ r.return_cb = "batched" -> 200
      [] OTHER -> CASE res[1].kind = "result" -> 200
                    [] res[1].kind = "invalid_request" -> 400
                    [] res[1].kind = "method_not_found" -> 404
                    [] res[1].kind = "internal_error" -> 500

(* As JrpcResult, with a reply for requests that are freed without an answer. *)
JrpcResultAlways(s) ==
    IF req'[s].state = "live" \/ req'[s] = req[s] THEN UNCHANGED replies
    ELSE SendReply(s, 200)

(* jrpc_result and send_reply: no memory for the reason makes any answer an   *)
(* internal error.                                                            *)
JrpcResult(s) ==
    LET given == answers'[s]
    IN  IF given = answers[s]
        THEN UNCHANGED replies
        ELSE \/ SendReply(s, Status(req'[s], given[Len(given)]))
             \/ MaxFaults > 0 /\ SendReply(s, 500)

(* json_rpc_call: the body is parsed and processed, or refused.               *)
HttpCall(s, d) ==
    /\ s \notin unparsed
    /\ Process(s, d)
    /\ JrpcResult(s)
    /\ UNCHANGED unparsed

HttpParseError(s) ==
    /\ jr = "live" /\ doc[s] = NULL /\ s \notin unparsed
    /\ unparsed' = unparsed \cup {s}
    /\ SendReply(s, 500)
    /\ UNCHANGED vars

HttpDeferred(s, i) ==
    /\ \E e \in queue : e.sub = s /\ e.call = i /\ RunDeferred(e)
    /\ JrpcResult(s)
    /\ UNCHANGED unparsed

HttpKept(s, i) == ReturnLater(s, i) /\ UNCHANGED <<unparsed, replies>>

HttpAddMethod(n, h) == AddMethod(n, h) /\ UNCHANGED <<unparsed, replies>>

HttpNext ==
    \/ \E n \in MethodNames, h \in Handlers : HttpAddMethod(n, h)
    \/ \E s \in Subs, d \in Documents : HttpCall(s, d)
    \/ \E s \in Subs : HttpParseError(s)
    \/ \E s \in Subs, i \in Indices : HttpDeferred(s, i) \/ HttpKept(s, i)

HttpSpec == HttpInit /\ [][HttpNext]_httpVars

(* evhttp's event loop runs what is due; methods return.                      *)
HttpFairness ==
    \A s \in Subs, i \in Indices :
        WF_httpVars(HttpDeferred(s, i)) /\ WF_httpVars(HttpKept(s, i))

HttpFairSpec == HttpSpec /\ HttpFairness
-----------------------------------------------------------------------------
(* A document that gets no reply: a notification, or a batch of them.         *)
OnlyNotifies(d) == d # NULL /\ Calls(d) # << >> /\ Expected(d) = {}

(* evhttp_send_reply disposes of the request: it is called at most once,      *)
(* whatever fails and however late methods return, and while memory lasts     *)
(* never for a document of notifications only.                                *)
RepliesFitDocument ==
    \A s \in Subs :
        /\ Len(replies[s]) <= 1
        /\ replies[s] # << >> /\ faults = 0 => ~OnlyNotifies(doc[s])

(* Success is never reported to a caller when its only call did not run to a  *)
(* result, and a call that has run is never refused as invalid or unknown.    *)
StatusTellsOutcome ==
    \A s \in Subs : replies[s] # << >> /\ s \notin unparsed /\ doc[s].type = "object" =>
        LET ran == answers[s][1] # NULL /\ answers[s][1][1].kind = "result"
        IN  replies[s][1] # 500 => (replies[s][1] = 200 <=> ran)

(* Whoever posts a document with a call, or none that can be parsed, gets a   *)
(* reply while memory lasts.                                                  *)
EveryPostReplied ==
    \A s \in Subs :
        (s \in unparsed \/ (doc[s] # NULL /\ ~OnlyNotifies(doc[s])))
            ~> (replies[s] # << >> \/ faults > 0)
-----------------------------------------------------------------------------
Statuses == {200, 400, 404, 500}

(* What StatusTellsOutcome says of the reply to a request.                    *)
TellsOutcome(s) ==
    LET ran == answers[s][1] # NULL /\ answers[s][1][1].kind = "result"
    IN  replies[s][1] # 500 => (replies[s][1] = 200 <=> ran)

(* A request is replied to when json_rpc.c calls user_cb for it, except that  *)
(* one without a document is replied to at once and json_rpc.c does not learn *)
(* of it; only a document that expects a result has a live request.           *)
ReplySound(s) ==
    /\ IF s \in unparsed THEN doc[s] = NULL /\ Len(replies[s]) = 1
       ELSE Len(replies[s]) = Len(answers[s])
    /\ doc[s] = NULL \/ doc[s].type = "object" => req[s].return_cb = "single"
    /\ req[s].state = "live" => Expected(doc[s]) # {}
    /\ answers[s] # << >> /\ faults = 0 => ~OnlyNotifies(doc[s])
    /\ answers[s] # << >> /\ doc[s].type = "object" => TellsOutcome(s)

(* What makes RepliesFitDocument and StatusTellsOutcome inductive, with the   *)
(* RequestInvariant of the server: the replies follow the answers.            *)
HttpInvariant ==
    /\ replies \in [Subs -> Seq(Statuses)]
    /\ unparsed \subseteq Subs
    /\ \A s \in Subs : ReplySound(s)
=============================================================================
