------------------------------ MODULE CallTable ------------------------------
(* What the client half of json_rpc.c promises: a map from ids to callbacks.  *)
(* A call registers its callback under its id, displacing the one that was    *)
(* there; a response takes the callback of its id out and runs it, once.      *)
EXTENDS JsonRpcMessages

CONSTANTS Sends,   \* the calls an application makes
          Ids,     \* the ids they are made under
          NULL

VARIABLES table,   \* the call registered under each id, or NULL
          done     \* the calls whose callback was run

vars == <<table, done>>

Init == table = [i \in Ids |-> NULL] /\ done = {}

Register(i, k) ==
    /\ k \notin done
    /\ \A j \in Ids : table[j] # k
    /\ table' = [j \in Ids |-> IF IdEquals(i, j) THEN k ELSE table[j]]
    /\ UNCHANGED done

Complete(i) ==
    /\ table[i] # NULL
    /\ done' = done \cup {table[i]}
    /\ table' = [j \in Ids |-> IF IdEquals(i, j) THEN NULL ELSE table[j]]

Forget ==
    /\ table' = [i \in Ids |-> NULL]
    /\ UNCHANGED done

Next ==
    \/ \E i \in Ids : Complete(i) \/ \E k \in Sends : Register(i, k)
    \/ Forget

Spec == Init /\ [][Next]_vars
=============================================================================
