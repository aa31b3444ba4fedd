--------------------------- MODULE MCJsonRpcClient ---------------------------
(* Small instances of JsonRpcClient: single and batched calls that share ids, *)
(* a notification, and the responses to them, complete and incomplete.        *)
EXTENDS JsonRpcClient

Id(n) == Scalar("int", n)
Method == Scalar("string", "m")
Call(n) == Obj([jsonrpc |-> Version, method |-> Method, id |-> Id(n)])
Notify == Obj([jsonrpc |-> Version, method |-> Method])

Result(id) == Obj([jsonrpc |-> Version, id |-> id, result |-> Scalar("int", "0")])
NoIdResult == Obj([jsonrpc |-> Version, result |-> Scalar("int", "0")])
ErrorResult ==
    Obj([jsonrpc |-> Version, id |-> Scalar("null", ""),
         error |-> Obj([message |-> Scalar("string", "Invalid request"),
                        code |-> Scalar("int", "-32600")])])

MCRequests == { Call("1"), Arr(<<Call("1"), Call("2"), Notify>>), Notify }

MCResponses ==
    { Result(Id("1")), NoIdResult, ErrorResult,
      Arr(<<Result(Id("2")), Result(Id("1"))>>),
      Arr(<<Result(Id("1")), ErrorResult>>) }
=============================================================================
