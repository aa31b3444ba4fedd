------------------------- MODULE MCJsonRpcConnection -------------------------
(* Small instances of JsonRpcConnection: two calls of which either may be a   *)
(* batch, of a registered method ("m") or of none ("x").                      *)
EXTENDS JsonRpcConnection

CONSTANTS sync, keep    \* a method that returns at once, and one that keeps req

Name(n) == Scalar("string", n)
Call(n, id) == Obj([id |-> Scalar("int", id), jsonrpc |-> Version, method |-> Name(n)])
Notify(n) == Obj([jsonrpc |-> Version, method |-> Name(n)])

MCMethodNames == {Name("m"), Name("s")}

(* "s" is answered at once, "m" later.                                        *)
MCOffers == {<<Name("m"), keep>>, <<Name("s"), sync>>}

(* A document with a call of "m" has no other request.                        *)
MCRequests ==
    { Call("m", "1"), Arr(<<Call("s", "1"), Call("x", "2"), Notify("m")>>) }

(* What only another client would send: what is not JSON, a batch with an     *)
(* invalid call, a response.                                                  *)
MCRawDocuments ==
    { Malformed, Arr(<<Call("m", "1"), Scalar("int", "7")>>),
      Obj([id |-> Scalar("int", "1"), jsonrpc |-> Version, result |-> Name("r")]) }

MCDocuments == MCRequests \cup MCRawDocuments

MCEmptyBatch == MCRequests \cup { Arr(<< >>) }
=============================================================================
