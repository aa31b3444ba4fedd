--------------------------- MODULE MCJsonRpcServer ---------------------------
(* Small instances of JsonRpcServer: documents whose calls are valid, are     *)
(* invalid, notify, or name no method.                                        *)
EXTENDS JsonRpcServer, TLC

CONSTANTS sync, keep    \* a method that returns at once, and one that keeps req

Name(n) == Scalar("string", n)
Call(n, id) == Obj([id |-> Scalar("int", id), jsonrpc |-> Version, method |-> Name(n)])
Notify(n) == Obj([jsonrpc |-> Version, method |-> Name(n)])
Invalid(id) == Obj([id |-> Scalar("int", id), jsonrpc |-> Version])

MCMethodNames == {Name("m"), Name("s")}

(* "s" is answered at once, "m" at once or later.                             *)
MCOffers == {<<Name("m"), sync>>, <<Name("m"), keep>>, <<Name("s"), sync>>}

(* Every kind of call alone and beside another; "x" is never registered.  A   *)
(* document with a call of "m" has no other request.                          *)
MCDocuments ==
    { Call("m", "1"), Notify("m"), Invalid("1"), Arr(<< >>),
      Arr(<<Call("s", "1"), Call("s", "2")>>),
      Arr(<<Call("m", "1"), Invalid("2"), Notify("m")>>),
      Arr(<<Call("x", "1"), Call("s", "2"), Scalar("string", "a")>>),
      Arr(<<Notify("m"), Notify("x")>>) }

Symmetry == Permutations(Subs)

(* A batch of two calls of which either may be kept.                          *)
MCBatch == { Arr(<<Call("m", "1"), Call("m", "8")>>) }
=============================================================================
