------------------------------ MODULE RpcService ------------------------------
(* What json_rpc_process_request promises the caller of one document: the     *)
(* document is either turned down at once, or its calls are worked on in any  *)
(* order and the one answer is given with the last of them, or it holds only  *)
(* notifications and there is never an answer.                                *)
EXTENDS Naturals

CONSTANTS Subs,           \* the submissions: one json_rpc_process_request each
          ResultCounts    \* numbers of results a document may call for

VARIABLES status,     \* "new", "open", "answered" or "silent", per submission
          remaining   \* results still missing, per submission

vars == <<status, remaining>>

Init ==
    /\ status = [s \in Subs |-> "new"]
    /\ remaining = [s \in Subs |-> 0]

\* A document with calls to answer, or one with notifications only.
Accept(s) ==
    /\ status[s] = "new"
    /\ \E n \in ResultCounts :
          /\ remaining' = [remaining EXCEPT ![s] = n]
          /\ status' = [status EXCEPT ![s] = IF n = 0 THEN "silent" ELSE "open"]

\* Not a request at all, or no memory to work on it: one error, at once.
Refuse(s) ==
    /\ status[s] = "new"
    /\ status' = [status EXCEPT ![s] = "answered"]
    /\ UNCHANGED remaining

\* One more call has its result; the last one brings the answer.
Finish(s) ==
    /\ status[s] = "open"
    /\ remaining' = [remaining EXCEPT ![s] = @ - 1]
    /\ status' = [status EXCEPT ![s] = IF remaining[s] = 1 THEN "answered" ELSE "open"]

Next == \E s \in Subs : Accept(s) \/ Refuse(s) \/ Finish(s)

Spec == Init /\ [][Next]_vars

FairSpec == Spec /\ \A s \in Subs : WF_vars(Finish(s))
=============================================================================
