-------------------------- MODULE JsonRpcConnection --------------------------
(* Two peers over a TCP or web socket transport: json_rpc_tt.c,               *)
(* json_rpc_tt_tcp.c and json_rpc_tt_ws.c with the client half of json_rpc.c  *)
(* at one end and the server half at the other.  (Each peer has both halves;  *)
(* the two directions share nothing but the stream.)  Documents arrive whole, *)
(* in order, until the connection breaks; JsonParser is how TCP finds them.   *)
EXTENDS JsonRpcServer

(* A submission of JsonRpcServer is a call of json_rpc_tt_send, or a document *)
(* that another client puts on the stream.                                    *)
CONSTANTS
    Requests,      \* the documents the application sends with json_rpc_tt_send
    Transports,    \* the transports the peers may use: "tcp", "ws"
    MayBreak       \* whether the connection may break and writes may fail

VARIABLES
    cjr, result_cbs, request, accepted, running, completed, arrivals, \* client
    toServer,      \* documents on their way, with the send they are of
    toClient,      \* answers on their way, and whose they are
    open,          \* whether the connection is up
    transport,     \* the transport in use
    parser         \* the server's parser: "parsing", "failed" with a timer
                   \* for e_cb, or "reported"; web sockets have none

ASSUME ConnectionAssumption ==
    /\ Transports \subseteq {"tcp", "ws"}
    /\ Requests \subseteq Documents
    /\ NULL \notin Subs

(* What an application sends: valid calls, those of a batch under different   *)
(* ids.  An invalid call is answered under a null id, not under its own.      *)
ASSUME ApplicationAssumption ==
    \A m \in Requests :
        /\ \A i \in DOMAIN Calls(m) : EvalCallType(Calls(m)[i]) # "invalid"
        /\ \A i, j \in Expected(m) :
              Member(Calls(m)[i], "id") = Member(Calls(m)[j], "id") => i = j

(* What a client that does not use the library may send.  It takes care not   *)
(* to be answered under the ids of the application's calls.                   *)
RawDocuments == Documents \ Requests

ASSUME OtherClientsAssumption ==
    \A d \in RawDocuments :
        Calls(d) = << >> \/ \E i \in DOMAIN Calls(d) : EvalCallType(Calls(d)[i]) = "invalid"

clientVars == <<cjr, result_cbs, request, accepted, running, completed, arrivals>>
ttVars == <<transport, parser>>
connectionVars == <<clientVars, vars, toServer, toClient, open, ttVars>>

Client == INSTANCE JsonRpcClient
    WITH Sends <- Subs, jr <- cjr, faults <- 0, MaxFaults <- 0,
         Responses <- {}, MaxArrivals <- Cardinality(Subs)

ConnectionInit ==
    /\ Client!Init
    /\ Init
    /\ toServer = << >>
    /\ toClient = << >>
    /\ open = TRUE
    /\ transport \in Transports
    /\ parser = "parsing"
-----------------------------------------------------------------------------
(* As ResponseDocument, without the message of an error.                      *)
ResponseDocumentNoMessage(k, d, r) ==
    LET id == IF r.id = 0 THEN Scalar("null", "") ELSE Member(Calls(d)[r.id], "id")
        error == Obj([code |-> Scalar("int", r.kind)])
    IN  IF r.kind = "result"
        THEN Obj([jsonrpc |-> Version, result |-> Scalar("string", <<k, r.call>>), id |-> id])
        ELSE Obj([jsonrpc |-> Version, error |-> error, id |-> id])

(* The document json_rpc.c builds for a response r to document d of send k    *)
(* (prepare_response_object, prepare_error_response).  A result says of which *)
(* call it is.                                                                *)
ResponseDocument(k, d, r) ==
    LET id == IF r.id = 0 THEN Scalar("null", "") ELSE Member(Calls(d)[r.id], "id")
        error == Obj([message |-> Scalar("string", r.kind), code |-> Scalar("int", r.kind)])
    IN  IF r.kind = "result"
        THEN Obj([jsonrpc |-> Version, result |-> Scalar("string", <<k, r.call>>), id |-> id])
        ELSE Obj([jsonrpc |-> Version, error |-> error, id |-> id])

(* An answer is an array when a batch was processed.                          *)
AnswerDocument(k, d, r, res) ==
    IF r.state # "none" /\ r.return_cb = "batched"
    THEN Arr([n \in DOMAIN res |-> ResponseDocument(k, d, res[n])])
    ELSE ResponseDocument(k, d, res[1])

(* What no parser finds a document in, and JSON_RPC_PARSE_ERROR.              *)
Malformed == [type |-> "malformed"]

ParseError ==
    Obj([id |-> Scalar("null", ""), jsonrpc |-> Version,
         error |-> Obj([code |-> Scalar("int", "parse_error"),
                        message |-> Scalar("string", "parse_error")])])

(* tt_bufevent_write and tt_ws_write: nothing is sent when the peer is gone.  *)
TtWrite(k, d) ==
    toClient' = IF open THEN Append(toClient, [send |-> k, doc |-> d]) ELSE toClient

(* json_rpc_tt_result: a NULL answer is not written.                          *)
TtResult(k) ==
    LET given == answers'[k]
        res == given[Len(given)]
    IN  IF given = answers[k] \/ res = NULL THEN UNCHANGED toClient
        ELSE TtWrite(k, AnswerDocument(k, doc'[k], req'[k], res))

(* The document of k is on its way, or is being served, or its answer is on   *)
(* its way back.                                                              *)
InFlight(k) ==
    \/ \E n \in DOMAIN toServer : toServer[n].send = k
    \/ doc[k] # NULL /\ answers[k] = << >>
    \/ \E n \in DOMAIN toClient : toClient[n].send = k

(* No call under an equal id is on its way.  After a failed write the id may  *)
(* be used again: the callback that stayed behind is replaced.                *)
IdIsFree(id) == \A p \in Client!Matches(id) : ~InFlight(result_cbs[p].send)

(* json_rpc_tt_send: the callback is registered, then the message written. An *)
(* application does not use an id again while its call may be answered.       *)
TtSend(k, m) ==
    /\ IdIsFree(GetId(m))
    /\ Client!PreprocessRequest(k, m)
    /\ toServer' = IF accepted' = accepted \/ ~open THEN toServer
                   ELSE Append(toServer, [send |-> k, doc |-> m])
    /\ UNCHANGED <<vars, toClient, open, ttVars>>

(* The write fails: -1, and the callback stays registered.                    *)
TtSendFails(k, m) ==
    /\ MayBreak
    /\ IdIsFree(GetId(m))
    /\ Client!PreprocessRequest(k, m)
    /\ UNCHANGED <<vars, toServer, toClient, open, ttVars>>

(* Another client puts a document on the stream; it gets no callbacks.        *)
RawSend(k, d) ==
    /\ open
    /\ request[k] = NULL
    /\ request' = [request EXCEPT ![k] = d]
    /\ toServer' = Append(toServer, [send |-> k, doc |-> d])
    /\ UNCHANGED <<cjr, result_cbs, accepted, running, completed, arrivals,
                   vars, toClient, open, ttVars>>

(* json_rpc_tt_read at the server: what json_rpc_is_response takes for a      *)
(* response goes to json_rpc_process_response, which knows no such id.        *)
TtRead(m) ==
    \/ /\ IsResponse(m.doc)
       /\ UNCHANGED <<vars, toClient>>
    \/ /\ ~IsResponse(m.doc)
       /\ Process(m.send, m.doc)
       /\ TtResult(m.send)

Receive ==
    /\ toServer # << >>
    /\ toServer' = Tail(toServer)
    /\ UNCHANGED <<clientVars, open, transport>>

(* bufevent_readcb: json_parser_process gives whole documents to              *)
(* json_objectcb until it comes to an error, and nothing from then on.        *)
TcpRead ==
    /\ transport = "tcp"
    /\ Receive
    /\ LET m == Head(toServer)
       IN  CASE parser # "parsing" -> UNCHANGED <<vars, toClient, parser>>
             [] parser = "parsing" /\ m.doc = Malformed ->
                   parser' = "failed" /\ UNCHANGED <<vars, toClient>>
             [] OTHER -> TtRead(m) /\ UNCHANGED parser

(* json_errorcb, from the timer of the parser.                                *)
TcpParseError ==
    /\ parser = "failed"
    /\ parser' = "reported"
    /\ TtWrite(NULL, ParseError)
    /\ UNCHANGED <<clientVars, vars, toServer, open, transport>>

(* ws_messagecb: every message is parsed on its own.                          *)
WsMessage ==
    /\ transport = "ws"
    /\ Receive
    /\ LET m == Head(toServer)
       IN  IF m.doc = Malformed
           THEN TtWrite(NULL, ParseError) /\ UNCHANGED vars
           ELSE TtRead(m)
    /\ UNCHANGED parser

(* The server's event loop and its application.                               *)
ServeDeferred(k, i) ==
    /\ \E e \in queue : e.sub = k /\ e.call = i /\ RunDeferred(e)
    /\ TtResult(k)
    /\ UNCHANGED <<clientVars, toServer, open, ttVars>>

ServeKept(k, i) ==
    /\ ReturnLater(k, i)
    /\ UNCHANGED <<clientVars, toServer, toClient, open, ttVars>>

ServerAddMethod(n, h) ==
    /\ AddMethod(n, h)
    /\ UNCHANGED <<clientVars, toServer, toClient, open, ttVars>>

(* json_rpc_tt_read at the client, whose event loop runs one callback at a    *)
(* time.                                                                      *)
ReadResponse ==
    /\ toClient # << >> /\ running = << >>
    /\ toClient' = Tail(toClient)
    /\ LET d == Head(toClient).doc IN Client!ProcessResponse(d) \/ Client!DropResponse(d)
    /\ UNCHANGED <<vars, toServer, open, ttVars>>

CallbackReturns ==
    /\ Client!CallbackReturns
    /\ UNCHANGED <<vars, toServer, toClient, open, ttVars>>

(* The connection breaks with documents in both directions; the transports    *)
(* are freed when no request refers to them any more.                         *)
Break ==
    /\ MayBreak /\ open
    /\ open' = FALSE
    /\ toServer' = << >> /\ toClient' = << >>
    /\ UNCHANGED <<clientVars, vars, ttVars>>

ConnectionNext ==
    \/ \E k \in Subs, m \in Requests : TtSend(k, m) \/ TtSendFails(k, m)
    \/ \E k \in Subs, d \in RawDocuments : RawSend(k, d)
    \/ \E n \in MethodNames, h \in Handlers : ServerAddMethod(n, h)
    \/ \E k \in Subs, i \in Indices : ServeDeferred(k, i) \/ ServeKept(k, i)
    \/ TcpRead \/ TcpParseError \/ WsMessage \/ ReadResponse \/ CallbackReturns
    \/ Break

ConnectionSpec == ConnectionInit /\ [][ConnectionNext]_connectionVars

(* Both event loops run what is due, methods and callbacks return.  (Each of  *)
(* these steps changes the variables named with it.)                          *)
ConnectionFairness ==
    /\ WF_<<toClient, running>>(ReadResponse \/ CallbackReturns)
    /\ WF_toServer(TcpRead \/ WsMessage)
    /\ WF_<<queue, held>>(\E k \in Subs, i \in Indices : ServeDeferred(k, i) \/ ServeKept(k, i))

ConnectionFairSpec == ConnectionSpec /\ ConnectionFairness
-----------------------------------------------------------------------------
(* No answer is mistaken for a request: everything json_rpc.c answers with is *)
(* a response to json_rpc_is_response, so peers never answer answers.         *)
AnswersAreResponses ==
    \A n \in DOMAIN toClient : IsResponse(toClient[n].doc)

(* The responses of a document that carry a result.                           *)
Results(d) ==
    LET rs == IF d.type = "object" THEN {d} ELSE {d.elems[n] : n \in DOMAIN d.elems}
    IN  {r \in rs : Member(r, "result") # Absent}

(* A callback is given the results of the calls it was registered for, each   *)
(* under the id of its call, through both peers, deferral, reordering within  *)
(* a batch and the use of an id again.  (A batch that lost responses is taken *)
(* for the answer to another with fewer calls.)                               *)
CallbackGetsOwnResults ==
    faults = 0 => \A k \in Subs : \A n \in DOMAIN completed[k] :
        \A r \in Results(completed[k][n]) :
            LET from == Member(r, "result").val
            IN  /\ from[1] = k
                /\ Member(Calls(request[k])[from[2]], "id") = Member(r, "id")

(* A call that was written has its callback run in the end, unless the        *)
(* connection breaks or, on TCP, malformed text is ahead of it on the stream  *)
(* or was read before.  Text that follows the call takes nothing from it,     *)
(* although the parser of the peer fails while the call is being served.      *)
EveryCallCompletes ==
    \A k \in Subs :
        (/\ \E a \in DOMAIN accepted : accepted[a] = k
         /\ \E n \in DOMAIN toServer :
               /\ toServer[n].send = k
               /\ transport = "tcp" =>
                     parser = "parsing" /\ \A l \in 1 .. n - 1 : toServer[l].doc # Malformed)
            ~> (completed[k] # << >> \/ ~open)

(* A batch without calls is an invalid request, and is answered as one.       *)
EmptyBatchAnswered ==
    \A k \in Subs : (request[k] = Arr(<< >>)) ~> (answers[k] # << >>)
-----------------------------------------------------------------------------
SentDocument == [send : Subs, doc : Documents]
Registration == [id : {GetId(m) : m \in Requests}, send : Subs]
RangeOf(s) == {s[n] : n \in DOMAIN s}

(* Every variable of the connection has its type; the documents json_rpc.c    *)
(* builds are those of the sequence they are in.                              *)
ConnectionTypeOK ==
    /\ cjr = "live"
    /\ result_cbs \in Seq(Registration)
    /\ request \in [Subs -> Documents \cup {NULL}]
    /\ accepted \in Seq(Subs)
    /\ running \in Seq(Registration)
    /\ DOMAIN completed = Subs /\ \A k \in Subs : completed[k] \in Seq(RangeOf(completed[k]))
    /\ arrivals \in Nat
    /\ toServer \in Seq(SentDocument)
    /\ toClient \in Seq(RangeOf(toClient))
    /\ open \in BOOLEAN
    /\ transport \in Transports
    /\ parser \in {"parsing", "failed", "reported"}

(* d is what json_rpc.c answered k with.                                      *)
AnswerTo(k, d) ==
    /\ answers[k] # << >> /\ answers[k][1] # NULL
    /\ d = AnswerDocument(k, doc[k], req[k], answers[k][1])

(* A document reaches the server once.                                        *)
ToServerSound ==
    /\ \A n \in DOMAIN toServer :
          doc[toServer[n].send] = NULL /\ request[toServer[n].send] = toServer[n].doc
    /\ \A n, l \in DOMAIN toServer : toServer[n].send = toServer[l].send => n = l
    /\ \A k \in Subs : doc[k] # NULL => doc[k] = request[k]

(* An answer is put on the stream once.                                       *)
ToClientSound ==
    /\ \A n \in DOMAIN toClient :
          IF toClient[n].send = NULL THEN toClient[n].doc = ParseError
          ELSE toClient[n].send \in Subs /\ AnswerTo(toClient[n].send, toClient[n].doc)
    /\ \A n, l \in DOMAIN toClient :
          toClient[n].send = toClient[l].send => n = l \/ toClient[n].send = NULL

(* Callbacks are registered under different ids, equal to those of the        *)
(* messages they wait for.                                                    *)
CallbacksSound ==
    /\ \A p \in DOMAIN result_cbs :
          LET k == result_cbs[p].send
          IN  /\ request[k] \in Requests /\ GetId(request[k]) # Absent
              /\ IdEquals(result_cbs[p].id, GetId(request[k]))
    /\ Client!UniqueIds

(* While memory lasts a call in flight has its callback, and what a callback  *)
(* was given is the answer to its own call.                                   *)
CompletionSound ==
    faults = 0 => \A k \in Subs :
        /\ InFlight(k) /\ request[k] \in Requests =>
              \E p \in DOMAIN result_cbs : result_cbs[p].send = k
        /\ \A n \in DOMAIN completed[k] : AnswerTo(k, completed[k][n])

(* What makes CallbackGetsOwnResults and AnswersAreResponses inductive, with  *)
(* the invariants of the server: a response finds the callback of its own     *)
(* call because that one is registered still, and no other has an equal id.   *)
ConnectionInvariant ==
    ToServerSound /\ ToClientSound /\ CallbacksSound /\ CompletionSound
=============================================================================
