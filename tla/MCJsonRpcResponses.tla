-------------------------- MODULE MCJsonRpcResponses --------------------------
(* A small heap: enough for one response with all that may be lost on the way *)
(* to it, beside the client's values.                                         *)
EXTENDS JsonRpcResponses

MCKeys == {"jsonrpc", "result", "error", "id", "message", "code"}
=============================================================================
