---------------------------- MODULE MCJsonRpcHttp ----------------------------
(* Small instances of JsonRpcHttp: posts of every kind of document.           *)
EXTENDS JsonRpcHttp

CONSTANTS sync, keep    \* a method that returns at once, and one that keeps req

Name(n) == Scalar("string", n)
Call(n, id) == Obj([id |-> Scalar("int", id), jsonrpc |-> Version, method |-> Name(n)])
Notify(n) == Obj([jsonrpc |-> Version, method |-> Name(n)])

MCMethodNames == {Name("m")}
MCOffers == MCMethodNames \X Handlers

(* Calls alone and in batches: with an invalid one ahead of or behind one     *)
(* that may be kept, and two that both may be.                                *)
MCDocuments ==
    { Call("m", "1"), Call("x", "1"), Notify("m"), Arr(<< >>), Scalar("int", "7"),
      Arr(<<Notify("m")>>),
      Arr(<<Scalar("int", "7"), Notify("x"), Call("m", "1")>>),
      Arr(<<Call("m", "1"), Scalar("int", "7")>>),
      Arr(<<Call("m", "1"), Call("m", "2")>>) }
=============================================================================
