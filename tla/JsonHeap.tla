------------------------------- MODULE JsonHeap -------------------------------
(* The values of json.c in memory: every struct json_object counts the        *)
(* references to it, the entries of arrays and objects among them, and is     *)
(* deleted with its contents by the json_ref_put of the last one.  The        *)
(* application and the library are one client here, which holds `owned'       *)
(* references.  The operators take a heap and give the heap after a call.     *)
EXTENDS Integers, FiniteSets

CONSTANTS
    Values,      \* what json_object_create may allocate
    Entries,     \* array_list_entry and object_list_entry structs
    Keys,        \* the names in objects
    MaxOwned,    \* bound: references the client holds on one value
    MaxFaults,   \* bound: failed allocations
    NULL

ASSUME HeapAssumption ==
    /\ IsFiniteSet(Values)
    /\ IsFiniteSet(Entries)
    /\ NULL \notin Values \cup Entries \cup Keys
    /\ MaxOwned \in Nat
    /\ MaxFaults \in Nat

VARIABLES
    heap,     \* the values and the entries of their lists
    owned,    \* references the client holds on each value
    faults    \* failed allocations so far

heapVars == <<heap, owned, faults>>
-----------------------------------------------------------------------------
Value == [type : {"free", "scalar", "array", "object"}, ref_count : Int]

(* An entry is in the list of a container, or lost: allocated and in no list. *)
(* The key of an array's entry is NULL.                                       *)
Entry == [state : {"free", "linked", "lost"}, list : Values \cup {NULL},
          obj : Values \cup {NULL}, key : Keys \cup {NULL}]

Heap == [value : [Values -> Value], entry : [Entries -> Entry]]

FreeValue == [type |-> "free", ref_count |-> 0]
FreeEntry == [state |-> "free", list |-> NULL, obj |-> NULL, key |-> NULL]

Live(h) == {v \in Values : h.value[v].type # "free"}
FreeEntries(h) == {e \in Entries : h.entry[e].state = "free"}

(* The entries for v in the lists of the containers in S.                     *)
EntriesFor(h, S, v) ==
    {e \in Entries : /\ h.entry[e].state = "linked"
                     /\ h.entry[e].list \in S
                     /\ h.entry[e].obj = v}

Contents(h, c) == {e \in Entries : h.entry[e].state = "linked" /\ h.entry[e].list = c}

HeapInit ==
    /\ heap = [value |-> [v \in Values |-> FreeValue],
               entry |-> [e \in Entries |-> FreeEntry]]
    /\ owned = [v \in Values |-> 0]
    /\ faults = 0
-----------------------------------------------------------------------------
(* json_object_create, in the space v.                                        *)
Created(h, v, type) ==
    [h EXCEPT !.value[v] = [type |-> type, ref_count |-> 1]]

JsonRefGet(h, v) == [h EXCEPT !.value[v].ref_count = @ + 1]

(* How often v is put when x is put and the values in S are deleted.          *)
Puts(h, S, x, v) == Cardinality(EntriesFor(h, S, v)) + (IF v = x THEN 1 ELSE 0)

(* The containers with something in their lists.                              *)
Holders(h) == {h.entry[e].list : e \in {f \in Entries : h.entry[f].state = "linked"}}

(* S has every such container that is out of references when x is put and     *)
(* those in S are deleted.                                                    *)
DeletionClosed(h, S, x) ==
    \A v \in Holders(h) : h.value[v].ref_count <= Puts(h, S, x, v) => v \in S

(* What json_ref_put deletes: the least such set, since delete_array and      *)
(* delete_object put what is in their lists, and with it all other values     *)
(* that run out of references.                                                *)
DeletedHolders(h, x) ==
    {v \in Holders(h) : \A S \in SUBSET Holders(h) : DeletionClosed(h, S, x) => v \in S}

Deleted(h, x) ==
    LET D == DeletedHolders(h, x)
    IN  {v \in Live(h) : h.value[v].ref_count <= Puts(h, D, x, v)}

(* As JsonRefPut, deleting a container before its contents lost a reference.  *)
JsonRefPutShallow(h, x) ==
    IF h.value[x].ref_count > 1 THEN [h EXCEPT !.value[x].ref_count = @ - 1]
    ELSE [value |-> [h.value EXCEPT ![x] = FreeValue],
          entry |-> [e \in Entries |->
                       IF h.entry[e].list = x THEN FreeEntry ELSE h.entry[e]]]

JsonRefPut(h, x) ==
    LET D == Deleted(h, x)
    IN  [value |-> [v \in Values |->
                      IF v \in D THEN FreeValue
                      ELSE [h.value[v] EXCEPT !.ref_count = @ - Puts(h, D, x, v)]],
         entry |-> [e \in Entries |->
                      IF h.entry[e].list \in D THEN FreeEntry ELSE h.entry[e]]]

(* list_add_tail of an allocated entry; the reference passes to the list.     *)
Linked(h, e, c, k, v) ==
    [h EXCEPT !.entry[e] = [state |-> "linked", list |-> c, obj |-> v, key |-> k]]

(* list_del and free of an entry and json_ref_put of its value.               *)
Unlinked(h, e) == JsonRefPut([h EXCEPT !.entry[e] = FreeEntry], h.entry[e].obj)

(* json_object_del: the first entry with the key, if there is one.            *)
Named(h, c, k) == {e \in Contents(h, c) : h.entry[e].key = k}

JsonObjectDel(h, c, k) ==
    IF Named(h, c, k) = {} THEN h
    ELSE Unlinked(h, CHOOSE e \in Named(h, c, k) : TRUE)
-----------------------------------------------------------------------------
(* At most MaxFaults allocations fail.                                        *)
Fail ==
    /\ faults < MaxFaults
    /\ faults' = faults + 1

NoMemory == Fail /\ UNCHANGED <<heap, owned>>

Free == Values \ Live(heap)
Fresh == CHOOSE v \in Free : TRUE
FreshEntry(h) == CHOOSE e \in FreeEntries(h) : TRUE

(* json_int_new, .., json_array_new and json_object_new.                      *)
New(type) ==
    /\ Free # {}
    /\ heap' = Created(heap, Fresh, type)
    /\ owned' = [owned EXCEPT ![Fresh] = 1]
    /\ UNCHANGED faults

RefGet(v) ==
    /\ heap' = JsonRefGet(heap, v)
    /\ owned' = [owned EXCEPT ![v] = @ + 1]
    /\ UNCHANGED faults

RefPut(v) ==
    /\ owned' = [owned EXCEPT ![v] = @ - 1]
    /\ heap' = JsonRefPut(heap, v)
    /\ UNCHANGED faults

(* json_array_add or json_object_add when there is memory: the reference on v *)
(* passes to the container in heap h.                                         *)
Add(h, c, k, v) ==
    /\ FreeEntries(h) # {}
    /\ owned' = [owned EXCEPT ![v] = @ - 1]
    /\ UNCHANGED faults
    /\ heap' = Linked(h, FreshEntry(h), c, k, v)

ArrayAdd(c, v) == Add(heap, c, NULL, v) \/ NoMemory

ArrayDel(e) ==
    /\ UNCHANGED <<owned, faults>>
    /\ heap' = Unlinked(heap, e)

ObjectDel(c, k) ==
    /\ UNCHANGED <<owned, faults>>
    /\ heap' = JsonObjectDel(heap, c, k)

(* json_object_add without memory for the entry, or for its key: then the     *)
(* entry is lost.                                                             *)
AddFails(h) ==
    /\ Fail
    /\ UNCHANGED owned
    /\ \/ heap' = h
       \/ FreeEntries(h) # {} /\ heap' = [h EXCEPT !.entry[FreshEntry(h)].state = "lost"]

(* As ObjectAdd, leaving the entry with the key where it is.                  *)
ObjectAddKeeps(c, k, v) == Add(heap, c, k, v) \/ AddFails(heap)

(* json_object_add: the entry with the key is deleted before memory can fail. *)
ObjectAdd(c, k, v) ==
    \/ Add(JsonObjectDel(heap, c, k), c, k, v)
    \/ AddFails(JsonObjectDel(heap, c, k))
-----------------------------------------------------------------------------
(* What json.h asks of its client: it holds a reference on the container it   *)
(* changes, and on the value whose reference it gives away or puts; values    *)
(* that it finds, perhaps by json_array_get, it may keep.                     *)
Holds(c, type) == owned[c] > 0 /\ heap.value[c].type = type

ClientNext(names) ==
    \/ NoMemory
    \/ \E type \in {"scalar", "array", "object"} : New(type)
    \/ \E v \in Live(heap) : owned[v] < MaxOwned /\ RefGet(v)
    \/ \E v \in Values : owned[v] > 0 /\ RefPut(v)
    \/ \E c, v \in Values : Holds(c, "array") /\ owned[v] > 0 /\ ArrayAdd(c, v)
    \/ \E c \in Values : Holds(c, "array") /\ \E e \in Contents(heap, c) : ArrayDel(e)
    \/ \E c \in Values, k \in names : Holds(c, "object") /\ ObjectDel(c, k)
    \/ \E c, v \in Values, k \in names :
          Holds(c, "object") /\ owned[v] > 0 /\ ObjectAdd(c, k, v)

HeapNext == ClientNext(Keys)

HeapSpec == HeapInit /\ [][HeapNext]_heapVars
-----------------------------------------------------------------------------
(* Values, entries, counts and references have their types.                   *)
HeapTypeOK ==
    /\ heap \in Heap
    /\ owned \in [Values -> Nat]
    /\ faults \in 0 .. MaxFaults

(* ref_count is the number of references to a value: those of the client and  *)
(* those of the lists it is in, whatever was added, replaced, nested, deleted *)
(* with its container or refused for lack of memory.                          *)
CountsExact ==
    \A v \in Live(heap) :
        heap.value[v].ref_count = owned[v] + Cardinality(EntriesFor(heap, Live(heap), v))

(* A value is freed with its last reference, and not before: what an entry or *)
(* the client refers to is live, and what nobody refers to is free.           *)
FreedWithLastReference ==
    /\ \A v \in Values : owned[v] > 0 => v \in Live(heap)
    /\ \A e \in Entries : heap.entry[e].state = "linked" =>
          heap.entry[e].list \in Live(heap) /\ heap.entry[e].obj \in Live(heap)
    /\ \A v \in Live(heap) : owned[v] > 0 \/ EntriesFor(heap, Live(heap), v) # {}

(* An object has one entry for a name at most, an array none with a name.     *)
NamesUnique ==
    \A e, f \in Entries :
        LET d == heap.entry[e]
        IN  d.state = "linked" =>
              /\ d.key = NULL <=> heap.value[d.list].type = "array"
              /\ e # f /\ heap.entry[f].state = "linked" /\ heap.entry[f].list = d.list =>
                    d.key = NULL \/ heap.entry[f].key # d.key
=============================================================================
