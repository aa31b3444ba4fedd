------------------------ MODULE JsonRpcResponsesProofs ------------------------
(* Proofs that reference counting in json.c is right for every heap, and that *)
(* the functions that build responses use json.c by its contract, so that it  *)
(* stays right whatever allocation fails.                                     *)
EXTENDS JsonRpcResponses, FiniteSetTheorems, TLAPS

-----------------------------------------------------------------------------
(* JsonHeap.                                                                  *)

(* The invariants, of any heap and any references o of the client, to speak   *)
(* of the heap in the middle of a call.                                       *)
Consistent(h, o) ==
    /\ h \in Heap
    /\ o \in [Values -> Nat]
    /\ \A v \in Live(h) :
          h.value[v].ref_count = o[v] + Cardinality(EntriesFor(h, Live(h), v))
    /\ \A v \in Values : o[v] > 0 => v \in Live(h)
    /\ \A e \in Entries : h.entry[e].state = "linked" =>
          h.entry[e].list \in Live(h) /\ h.entry[e].obj \in Live(h)
    /\ \A v \in Live(h) : o[v] > 0 \/ EntriesFor(h, Live(h), v) # {}
    /\ \A e, f \in Entries :
          h.entry[e].state = "linked" =>
              /\ h.entry[e].key = NULL <=> h.value[h.entry[e].list].type = "array"
              /\ e # f /\ h.entry[f].state = "linked" /\ h.entry[f].list = h.entry[e].list =>
                    h.entry[e].key = NULL \/ h.entry[f].key # h.entry[e].key

LEMMA EntriesFinite ==
    ASSUME NEW h, NEW S, NEW v
    PROVE  /\ IsFiniteSet(EntriesFor(h, S, v))
           /\ Cardinality(EntriesFor(h, S, v)) \in Nat
<1>1. EntriesFor(h, S, v) \in SUBSET Entries
  BY DEF EntriesFor
<1>2. IsFiniteSet(EntriesFor(h, S, v))
  BY <1>1, FS_Subset, HeapAssumption
<1> QED BY <1>2, FS_CardinalityType

(* Deleting more containers puts a value at least as often.                   *)
LEMMA PutsMonotone ==
    ASSUME NEW h, NEW x, NEW v, NEW S, NEW T, S \subseteq T
    PROVE  /\ Puts(h, S, x, v) \in Nat
           /\ Puts(h, S, x, v) <= Puts(h, T, x, v)
<1>1. EntriesFor(h, S, v) \in SUBSET EntriesFor(h, T, v)
  BY DEF EntriesFor
<1>2. Cardinality(EntriesFor(h, S, v)) <= Cardinality(EntriesFor(h, T, v))
  BY <1>1, EntriesFinite, FS_Subset
<1>3. Cardinality(EntriesFor(h, S, v)) \in Nat /\ Cardinality(EntriesFor(h, T, v)) \in Nat
  BY EntriesFinite
<1> QED BY <1>2, <1>3 DEF Puts

(* The least set is a fixpoint: a container is in it exactly when it is out   *)
(* of references.                                                             *)
LEMMA DeletedHoldersFixpoint ==
    ASSUME NEW h \in Heap, NEW x \in Values, Holders(h) \subseteq Values,
           NEW v \in Holders(h)
    PROVE  v \in DeletedHolders(h, x) <=>
               h.value[v].ref_count <= Puts(h, DeletedHolders(h, x), x, v)
<1> DEFINE D == DeletedHolders(h, x)
           F(S) == {w \in Holders(h) : h.value[w].ref_count <= Puts(h, S, x, w)}
<1>1. \A w \in Holders(h) : h.value[w].ref_count \in Int
  BY DEF Heap, Value
<1>2. \A S, T : S \subseteq T => F(S) \subseteq F(T)
  <2> SUFFICES ASSUME NEW S, NEW T, S \subseteq T, NEW w \in F(S)
               PROVE  w \in F(T)
    OBVIOUS
  <2>1. Puts(h, S, x, w) \in Nat /\ Puts(h, S, x, w) <= Puts(h, T, x, w)
    BY PutsMonotone
  <2>2. Puts(h, T, x, w) \in Nat
    BY PutsMonotone
  <2> QED BY <1>1, <2>1, <2>2
<1>3. \A S \in SUBSET Holders(h) : DeletionClosed(h, S, x) <=> F(S) \subseteq S
  BY DEF DeletionClosed
<1>4. D \in SUBSET Holders(h)
  BY DEF DeletedHolders
<1>5. F(D) \subseteq D
  <2> SUFFICES ASSUME NEW w \in F(D), NEW S \in SUBSET Holders(h), DeletionClosed(h, S, x)
               PROVE  w \in S
    BY DEF DeletedHolders
  <2>1. D \subseteq S
    BY DEF DeletedHolders
  <2>2. F(D) \subseteq F(S)
    BY <2>1, <1>2
  <2> QED BY <2>2, <1>3
<1>6. D \subseteq F(D)
  <2>1. F(F(D)) \subseteq F(D)
    BY <1>2, <1>5
  <2>2. F(D) \in SUBSET Holders(h) /\ DeletionClosed(h, F(D), x)
    BY <2>1, <1>3
  <2> HIDE DEF F
  <2> QED BY <2>2 DEF DeletedHolders
<1> QED BY <1>5, <1>6

(* What json_ref_put deletes are the values it puts as often as they are      *)
(* referred to.                                                               *)
LEMMA DeletedFixpoint ==
    ASSUME NEW h \in Heap, NEW x \in Values, Holders(h) \subseteq Live(h),
           NEW v \in Live(h)
    PROVE  v \in Deleted(h, x) <=> h.value[v].ref_count <= Puts(h, Deleted(h, x), x, v)
<1> DEFINE D == DeletedHolders(h, x)
           E == Deleted(h, x)
<1>1. Live(h) \subseteq Values
  BY DEF Live
<1>2. \A w \in Holders(h) : w \in D <=> w \in E
  BY <1>1, DeletedHoldersFixpoint DEF Deleted
<1>3. D \subseteq Holders(h)
  BY DEF DeletedHolders
<1>4. EntriesFor(h, D, v) = EntriesFor(h, E, v)
  BY <1>2, <1>3 DEF EntriesFor, Holders
<1>5. Puts(h, D, x, v) = Puts(h, E, x, v)
  BY <1>4 DEF Puts
<1> QED BY <1>5 DEF Deleted

(* json_ref_put by a client that holds a reference.                           *)
LEMMA PutConsistent ==
    ASSUME NEW h, NEW o, Consistent(h, o), NEW x \in Values, o[x] > 0
    PROVE  /\ Consistent(JsonRefPut(h, x), [o EXCEPT ![x] = @ - 1])
           /\ \A v \in Live(JsonRefPut(h, x)) :
                 v \in Live(h) /\ JsonRefPut(h, x).value[v].type = h.value[v].type
           /\ \A e \in Entries : JsonRefPut(h, x).entry[e] \in {h.entry[e], FreeEntry}
<1> DEFINE D == Deleted(h, x)
           g == JsonRefPut(h, x)
           p == [o EXCEPT ![x] = @ - 1]
           IsX(v) == IF v = x THEN 1 ELSE 0
           In(v) == EntriesFor(h, Live(h), v)
           Cut(v) == EntriesFor(h, D, v)
<1> USE HeapAssumption
<1>1. /\ h \in Heap /\ o \in [Values -> Nat] /\ p \in [Values -> Nat]
      /\ Live(h) \subseteq Values /\ D \subseteq Live(h)
      /\ \A v \in Values : p[v] = o[v] - IsX(v)
      /\ \A v \in Values : h.value[v].ref_count \in Int
  BY DEF Consistent, Live, Deleted, Heap, Value
<1>2. Holders(h) \subseteq Live(h)
  BY DEF Consistent, Holders
<1>3. \A v \in Live(h) : v \in D <=> h.value[v].ref_count <= Puts(h, D, x, v)
  BY <1>1, <1>2, DeletedFixpoint
<1>4. \A v : /\ Cardinality(In(v)) \in Nat /\ Cardinality(Cut(v)) \in Nat
             /\ IsFiniteSet(In(v)) /\ Cut(v) \in SUBSET In(v)
             /\ Cardinality(Cut(v)) <= Cardinality(In(v))
             /\ Cardinality(Cut(v)) = Cardinality(In(v)) => Cut(v) = In(v)
             /\ Cardinality(In(v) \ Cut(v)) = Cardinality(In(v)) - Cardinality(Cut(v))
  <2> TAKE v
  <2>1. Cardinality(In(v)) \in Nat /\ Cardinality(Cut(v)) \in Nat /\ IsFiniteSet(In(v))
    BY EntriesFinite
  <2>2. Cut(v) \in SUBSET In(v)
    BY <1>1 DEF EntriesFor
  <2>3. /\ Cardinality(Cut(v)) <= Cardinality(In(v))
        /\ Cardinality(In(v)) = Cardinality(Cut(v)) => In(v) = Cut(v)
    BY <2>1, <2>2, FS_Subset
  <2>4. In(v) \cap Cut(v) = Cut(v)
    BY <2>2
  <2>5. Cardinality(In(v) \ Cut(v)) = Cardinality(In(v)) - Cardinality(Cut(v))
    BY <2>1, <2>4, FS_Difference
  <2> QED BY <2>1, <2>2, <2>3, <2>5
<1>5. \A v : Puts(h, D, x, v) = Cardinality(Cut(v)) + IsX(v)
  BY DEF Puts
<1>6. /\ \A v \in Values : h.value[v].type \in {"free", "scalar", "array", "object"}
      /\ \A v \in Live(h) : h.value[v].ref_count = o[v] + Cardinality(In(v))
      /\ \A v \in Values : o[v] > 0 => v \in Live(h)
  BY <1>1 DEF Consistent, Heap, Value
<1>7. \A v \in D : p[v] = 0 /\ Cut(v) = In(v)
  <2> TAKE v \in D
  <2>1. o[v] + Cardinality(In(v)) <= Cardinality(Cut(v)) + IsX(v)
    BY <1>1, <1>3, <1>5, <1>6
  <2>2. o[v] \in Nat /\ o[v] >= IsX(v)
    BY <1>1
  <2> QED BY <2>1, <2>2, <1>1, <1>4
<1>8. \A v \in Live(h) \ D : o[v] + Cardinality(In(v)) > Cardinality(Cut(v)) + IsX(v)
  BY <1>1, <1>3, <1>4, <1>5, <1>6
<1>9. /\ \A v \in Values : g.value[v] = IF v \in D THEN FreeValue
             ELSE [h.value[v] EXCEPT !.ref_count = @ - Puts(h, D, x, v)]
      /\ \A e \in Entries : g.entry[e] = IF h.entry[e].list \in D THEN FreeEntry
                                          ELSE h.entry[e]
  BY DEF JsonRefPut
<1>10. \A v \in Values \ D : /\ g.value[v].type = h.value[v].type
                             /\ g.value[v].ref_count = h.value[v].ref_count - (Cardinality(Cut(v)) + IsX(v))
  <2> TAKE v \in Values \ D
  <2> DEFINE n == Puts(h, D, x, v)
  <2>1. g.value[v] = [h.value[v] EXCEPT !.ref_count = @ - n]
    BY <1>9
  <2>2. h.value[v] \in Value
    BY <1>1 DEF Heap
  <2>3. n = Cardinality(Cut(v)) + IsX(v)
    BY <1>5
  <2> HIDE DEF n, g
  <2>4. g.value[v].type = h.value[v].type /\ g.value[v].ref_count = h.value[v].ref_count - n
    BY <2>1, <2>2 DEF Value
  <2> QED BY <2>3, <2>4
<1> HIDE DEF g
<1>11. Live(g) = Live(h) \ D
  <2>1. \A v \in Values \ D : g.value[v].type # "free" <=> h.value[v].type # "free"
    BY <1>10
  <2>2. \A v \in D : g.value[v].type = "free"
    <3> TAKE v \in D
    <3>1. v \in Values
      BY <1>1
    <3>2. g.value[v] = FreeValue
      BY <3>1, <1>9
    <3> QED BY <3>2 DEF FreeValue
  <2> QED BY <2>1, <2>2, <1>1 DEF Live
<1>12. g \in Heap
  <2>1. \A v \in Values : g.value[v] \in Value
    <3> TAKE v \in Values
    <3> DEFINE n == Puts(h, D, x, v)
    <3>1. n \in Int
      BY <1>4, <1>5
    <3>2. h.value[v] \in Value
      BY <1>1 DEF Heap
    <3>3. g.value[v] = IF v \in D THEN FreeValue ELSE [h.value[v] EXCEPT !.ref_count = @ - n]
      BY <1>9
    <3> HIDE DEF n
    <3> QED BY <3>1, <3>2, <3>3 DEF Value, FreeValue
  <2>2. \A e \in Entries : g.entry[e] \in Entry
    BY <1>1, <1>9 DEF Heap, Entry, FreeEntry
  <2>3. g = [value |-> [v \in Values |-> g.value[v]], entry |-> [e \in Entries |-> g.entry[e]]]
    BY DEF g, JsonRefPut
  <2> QED BY <2>1, <2>2, <2>3 DEF Heap
<1>13. \A v \in Live(g) : EntriesFor(g, Live(g), v) = In(v) \ Cut(v)
  <2> SUFFICES ASSUME NEW v \in Live(g), NEW e \in Entries
               PROVE  e \in EntriesFor(g, Live(g), v) <=> e \in In(v) \ Cut(v)
    BY DEF EntriesFor
  <2>1. CASE h.entry[e].list \in D
    BY <2>1, <1>9 DEF EntriesFor, FreeEntry
  <2>2. CASE h.entry[e].list \notin D
    <3>1. g.entry[e] = h.entry[e]
      BY <2>2, <1>9
    <3> QED BY <2>2, <3>1, <1>11 DEF EntriesFor
  <2> QED BY <2>1, <2>2
<1>14. \A v \in Live(g) : g.value[v].ref_count = p[v] + Cardinality(EntriesFor(g, Live(g), v))
  <2> TAKE v \in Live(g)
  <2>1. v \in Live(h) /\ v \in Values \ D
    BY <1>1, <1>11
  <2>2. h.value[v].ref_count = o[v] + Cardinality(In(v))
    BY <2>1, <1>6
  <2>3. Cardinality(EntriesFor(g, Live(g), v)) = Cardinality(In(v)) - Cardinality(Cut(v))
    BY <1>4, <1>13
  <2>4. g.value[v].ref_count = h.value[v].ref_count - (Cardinality(Cut(v)) + IsX(v))
    BY <2>1, <1>10
  <2>5. p[v] = o[v] - IsX(v) /\ o[v] \in Int
    BY <2>1, <1>1
  <2>6. Cardinality(In(v)) \in Int /\ Cardinality(Cut(v)) \in Int /\ IsX(v) \in Int
    BY <1>4
  <2> HIDE DEF In, Cut, IsX, p
  <2> QED BY <2>2, <2>3, <2>4, <2>5, <2>6
<1>15. \A v \in Values : p[v] > 0 => v \in Live(g)
  BY <1>1, <1>6, <1>7, <1>11
<1>16. \A e \in Entries : g.entry[e].state = "linked" =>
          /\ g.entry[e] = h.entry[e] /\ h.entry[e].list \notin D
          /\ g.entry[e].list \in Live(g) /\ g.entry[e].obj \in Live(g)
  <2> SUFFICES ASSUME NEW e \in Entries, g.entry[e].state = "linked"
               PROVE  /\ g.entry[e] = h.entry[e] /\ h.entry[e].list \notin D
                      /\ g.entry[e].list \in Live(g) /\ g.entry[e].obj \in Live(g)
    OBVIOUS
  <2>1. g.entry[e] = h.entry[e] /\ h.entry[e].list \notin D
    BY <1>9 DEF FreeEntry
  <2>2. h.entry[e].list \in Live(h) /\ h.entry[e].obj \in Live(h)
    BY <2>1 DEF Consistent
  <2>3. e \in In(h.entry[e].obj) /\ e \notin Cut(h.entry[e].obj)
    BY <2>1, <2>2 DEF EntriesFor
  <2>4. h.entry[e].obj \notin D
    BY <2>3, <1>7
  <2> QED BY <2>1, <2>2, <2>4, <1>11
<1>17. \A v \in Live(g) : p[v] > 0 \/ EntriesFor(g, Live(g), v) # {}
  <2> SUFFICES ASSUME NEW v \in Live(g), EntriesFor(g, Live(g), v) = {}
               PROVE  p[v] > 0
    BY <1>1
  <2>1. Cut(v) = In(v)
    BY <1>4, <1>13
  <2> QED BY <2>1, <1>1, <1>4, <1>8, <1>11
<1>18. \A e, f \in Entries :
          g.entry[e].state = "linked" =>
              /\ g.entry[e].key = NULL <=> g.value[g.entry[e].list].type = "array"
              /\ e # f /\ g.entry[f].state = "linked" /\ g.entry[f].list = g.entry[e].list =>
                    g.entry[e].key = NULL \/ g.entry[f].key # g.entry[e].key
  <2> SUFFICES ASSUME NEW e \in Entries, NEW f \in Entries, g.entry[e].state = "linked"
               PROVE  /\ g.entry[e].key = NULL <=> g.value[g.entry[e].list].type = "array"
                      /\ e # f /\ g.entry[f].state = "linked" /\ g.entry[f].list = g.entry[e].list =>
                            g.entry[e].key = NULL \/ g.entry[f].key # g.entry[e].key
    OBVIOUS
  <2>1. g.entry[e] = h.entry[e] /\ h.entry[e].list \in Live(h) \ D
    BY <1>16, <1>11
  <2>2. g.value[h.entry[e].list].type = h.value[h.entry[e].list].type
    BY <2>1, <1>1, <1>10
  <2>3. g.entry[f].state = "linked" => g.entry[f] = h.entry[f]
    BY <1>16
  <2> HIDE DEF g, D
  <2> QED BY <2>1, <2>2, <2>3 DEF Consistent
<1> HIDE DEF p
<1>19. Consistent(g, p)
  BY <1>1, <1>12, <1>14, <1>15, <1>16, <1>17, <1>18 DEF Consistent
<1>20. \A v \in Live(g) : v \in Live(h) /\ g.value[v].type = h.value[v].type
  BY <1>1, <1>10, <1>11
<1>21. \A e \in Entries : g.entry[e] \in {h.entry[e], FreeEntry}
  BY <1>9
<1> QED BY <1>19, <1>20, <1>21 DEF g, p

(* An entry taken out of its list hands its reference back.                   *)
LEMMA TakenOutConsistent ==
    ASSUME NEW h, NEW o, Consistent(h, o), NEW e \in Entries,
           h.entry[e].state = "linked"
    PROVE  LET v == h.entry[e].obj
           IN  Consistent([h EXCEPT !.entry[e] = FreeEntry], [o EXCEPT ![v] = @ + 1])
<1> DEFINE v == h.entry[e].obj
           g == [h EXCEPT !.entry[e] = FreeEntry]
           p == [o EXCEPT ![v] = @ + 1]
<1> USE HeapAssumption
<1>1. /\ h \in Heap /\ o \in [Values -> Nat] /\ Live(h) \subseteq Values
      /\ v \in Live(h) /\ h.entry[e].list \in Live(h)
  BY DEF Consistent, Live
<1>2. /\ g.value = h.value
      /\ \A f \in Entries : g.entry[f] = IF f = e THEN FreeEntry ELSE h.entry[f]
      /\ Live(g) = Live(h)
  BY <1>1 DEF Heap, Live
<1>3. g \in Heap
  BY <1>1 DEF Heap, Entry, FreeEntry
<1>4. p \in [Values -> Nat] /\ \A w \in Values : p[w] = o[w] + (IF w = v THEN 1 ELSE 0)
  BY <1>1
<1> HIDE DEF v, g, p
<1>5. \A w : EntriesFor(g, Live(g), w) = EntriesFor(h, Live(h), w) \ {e}
  <2> SUFFICES ASSUME NEW w, NEW f \in Entries
               PROVE  f \in EntriesFor(g, Live(g), w) <=> f \in EntriesFor(h, Live(h), w) \ {e}
    BY DEF EntriesFor
  <2> QED BY <1>2 DEF EntriesFor, FreeEntry
<1>6. \A w : e \in EntriesFor(h, Live(h), w) <=> w = v
  BY <1>1 DEF EntriesFor, v
<1>7. ASSUME NEW w \in Live(g)
      PROVE  /\ g.value[w].ref_count = p[w] + Cardinality(EntriesFor(g, Live(g), w))
             /\ p[w] > 0 \/ EntriesFor(g, Live(g), w) # {}
  <2>1. w \in Live(h) /\ w \in Values /\ o[w] \in Nat
    BY <1>1, <1>2
  <2>2. /\ IsFiniteSet(EntriesFor(h, Live(h), w))
        /\ Cardinality(EntriesFor(h, Live(h), w)) \in Nat
    BY EntriesFinite
  <2>3. Cardinality(EntriesFor(g, Live(g), w)) =
           Cardinality(EntriesFor(h, Live(h), w)) - (IF w = v THEN 1 ELSE 0)
    BY <2>2, <1>5, <1>6, FS_RemoveElement
  <2>4. g.value[w].ref_count = o[w] + Cardinality(EntriesFor(h, Live(h), w))
    BY <2>1, <1>2 DEF Consistent
  <2>5. p[w] > 0 \/ EntriesFor(g, Live(g), w) # {}
    BY <2>1, <1>4, <1>5, <1>6 DEF Consistent
  <2> QED BY <2>1, <2>2, <2>3, <2>4, <2>5, <1>4
<1>8. \A w \in Values : p[w] > 0 => w \in Live(g)
  BY <1>1, <1>2, <1>4 DEF Consistent
<1>9. \A f \in Entries : g.entry[f].state = "linked" =>
          g.entry[f] = h.entry[f] /\ g.entry[f].list \in Live(g) /\ g.entry[f].obj \in Live(g)
  BY <1>2 DEF Consistent, FreeEntry
<1>10. \A d, f \in Entries :
          g.entry[d].state = "linked" =>
              /\ g.entry[d].key = NULL <=> g.value[g.entry[d].list].type = "array"
              /\ d # f /\ g.entry[f].state = "linked" /\ g.entry[f].list = g.entry[d].list =>
                    g.entry[d].key = NULL \/ g.entry[f].key # g.entry[d].key
  BY <1>2, <1>9 DEF Consistent
<1> QED BY <1>3, <1>4, <1>7, <1>8, <1>9, <1>10 DEF Consistent, v, g, p

(* json_array_del and the inner loop of json_object_del.                      *)
LEMMA UnlinkedConsistent ==
    ASSUME NEW h, NEW o, Consistent(h, o), NEW e \in Entries,
           h.entry[e].state = "linked"
    PROVE  /\ Consistent(Unlinked(h, e), o)
           /\ \A v \in Live(Unlinked(h, e)) :
                 v \in Live(h) /\ Unlinked(h, e).value[v].type = h.value[v].type
           /\ \A f \in Entries : Unlinked(h, e).entry[f] \in {h.entry[f], FreeEntry}
           /\ Unlinked(h, e).entry[e] = FreeEntry
<1> DEFINE x == h.entry[e].obj
           g == [h EXCEPT !.entry[e] = FreeEntry]
           p == [o EXCEPT ![x] = @ + 1]
           u == Unlinked(h, e)
<1>1. h \in Heap /\ o \in [Values -> Nat] /\ x \in Values
  BY DEF Consistent, Live
<1>2. /\ g.value = h.value /\ Live(g) = Live(h)
      /\ \A f \in Entries : g.entry[f] \in {h.entry[f], FreeEntry}
      /\ g.entry[e] = FreeEntry
  BY <1>1 DEF Heap, Live
<1>3. Consistent(g, p)
  BY TakenOutConsistent
<1>4. p[x] > 0 /\ [p EXCEPT ![x] = @ - 1] = o
  <2> DEFINE q == [p EXCEPT ![x] = @ - 1]
  <2> HIDE DEF x
  <2>1. p \in [Values -> Nat] /\ p[x] > 0
    BY <1>1
  <2>2. q \in [Values -> Int] /\ \A w \in Values : q[w] = o[w]
    BY <1>1
  <2> HIDE DEF q
  <2>3. q = o
    BY <1>1, <2>2
  <2> QED BY <2>1, <2>3 DEF q
<1>5. u = JsonRefPut(g, x)
  BY DEF Unlinked
<1> HIDE DEF x, g, p, u
<1>6. /\ Consistent(u, o)
      /\ \A v \in Live(u) : v \in Live(g) /\ u.value[v].type = g.value[v].type
      /\ \A f \in Entries : u.entry[f] \in {g.entry[f], FreeEntry}
  BY <1>1, <1>3, <1>4, <1>5, PutConsistent
<1> QED BY <1>2, <1>6 DEF u

(* json_object_del, on a container the client holds.                          *)
LEMMA ObjectDelConsistent ==
    ASSUME NEW h, NEW o, Consistent(h, o), NEW c, NEW k
    PROVE  /\ Consistent(JsonObjectDel(h, c, k), o)
           /\ \A v \in Live(JsonObjectDel(h, c, k)) :
                 v \in Live(h) /\ JsonObjectDel(h, c, k).value[v].type = h.value[v].type
           /\ k # NULL => Named(JsonObjectDel(h, c, k), c, k) = {}
<1> DEFINE e == CHOOSE f \in Named(h, c, k) : TRUE
           u == Unlinked(h, e)
<1>1. CASE Named(h, c, k) = {}
  BY <1>1 DEF JsonObjectDel
<1>2. CASE Named(h, c, k) # {}
  <2>1. /\ e \in Entries /\ h.entry[e].state = "linked"
        /\ h.entry[e].list = c /\ h.entry[e].key = k
    BY <1>2 DEF Named, Contents
  <2>2. JsonObjectDel(h, c, k) = u
    BY <1>2 DEF JsonObjectDel
  <2> HIDE DEF e
  <2>3. /\ Consistent(u, o)
        /\ \A v \in Live(u) : v \in Live(h) /\ u.value[v].type = h.value[v].type
        /\ \A f \in Entries : u.entry[f] \in {h.entry[f], FreeEntry}
        /\ u.entry[e] = FreeEntry
    BY <2>1, UnlinkedConsistent
  <2> HIDE DEF u
  <2>4. ASSUME k # NULL, NEW f \in Named(u, c, k)
        PROVE  FALSE
    <3>1. f \in Entries /\ u.entry[f].state = "linked" /\ u.entry[f].list = c /\ u.entry[f].key = k
      BY DEF Named, Contents
    <3>2. f # e /\ u.entry[f] = h.entry[f]
      BY <2>3, <3>1 DEF FreeEntry
    <3> QED BY <2>1, <2>4, <3>1, <3>2 DEF Consistent
  <2> QED BY <2>2, <2>3, <2>4
<1> QED BY <1>1, <1>2

(* list_add_tail of a value whose reference the client gives away.            *)
LEMMA LinkedConsistent ==
    ASSUME NEW h, NEW o, Consistent(h, o),
           NEW c \in Live(h), NEW v \in Values, o[v] > 0,
           NEW e \in FreeEntries(h),
           NEW k \in Keys \cup {NULL}, k = NULL <=> h.value[c].type = "array",
           k # NULL => Named(h, c, k) = {}
    PROVE  Consistent(Linked(h, e, c, k, v), [o EXCEPT ![v] = @ - 1])
<1> DEFINE g == Linked(h, e, c, k, v)
           p == [o EXCEPT ![v] = @ - 1]
<1> USE HeapAssumption
<1>1. /\ h \in Heap /\ o \in [Values -> Nat] /\ Live(h) \subseteq Values
      /\ v \in Live(h) /\ e \in Entries /\ h.entry[e].state = "free"
  BY DEF Consistent, Live, FreeEntries
<1>2. /\ g.value = h.value
      /\ \A f \in Entries : g.entry[f] =
            IF f = e THEN [state |-> "linked", list |-> c, obj |-> v, key |-> k] ELSE h.entry[f]
      /\ Live(g) = Live(h)
  BY <1>1 DEF Heap, Live, Linked
<1>3. g \in Heap
  BY <1>1 DEF Heap, Entry, Linked
<1>4. p \in [Values -> Nat] /\ \A w \in Values : p[w] = o[w] - (IF w = v THEN 1 ELSE 0)
  BY <1>1
<1> HIDE DEF g, p
<1>5. \A w : EntriesFor(g, Live(g), w) =
               EntriesFor(h, Live(h), w) \cup (IF w = v THEN {e} ELSE {})
  <2> SUFFICES ASSUME NEW w, NEW f \in Entries
               PROVE  f \in EntriesFor(g, Live(g), w) <=>
                        f \in EntriesFor(h, Live(h), w) \/ (w = v /\ f = e)
    BY <1>1 DEF EntriesFor
  <2>1. CASE f = e
    BY <2>1, <1>1, <1>2 DEF EntriesFor
  <2>2. CASE f # e
    BY <2>2, <1>2 DEF EntriesFor
  <2> QED BY <2>1, <2>2
<1>6. \A w : e \notin EntriesFor(h, Live(h), w)
  BY <1>1 DEF EntriesFor
<1>7. ASSUME NEW w \in Live(g)
      PROVE  /\ g.value[w].ref_count = p[w] + Cardinality(EntriesFor(g, Live(g), w))
             /\ p[w] > 0 \/ EntriesFor(g, Live(g), w) # {}
  <2>1. w \in Live(h) /\ w \in Values /\ o[w] \in Nat
    BY <1>1, <1>2
  <2>2. /\ IsFiniteSet(EntriesFor(h, Live(h), w))
        /\ Cardinality(EntriesFor(h, Live(h), w)) \in Nat
    BY EntriesFinite
  <2>3. Cardinality(EntriesFor(g, Live(g), w)) =
           Cardinality(EntriesFor(h, Live(h), w)) + (IF w = v THEN 1 ELSE 0)
    <3>1. Cardinality(EntriesFor(h, Live(h), w) \cup {e}) = Cardinality(EntriesFor(h, Live(h), w)) + 1
      BY <2>2, <1>6, FS_AddElement
    <3>2. w # v => EntriesFor(g, Live(g), w) = EntriesFor(h, Live(h), w)
      BY <1>5
    <3>3. w = v => EntriesFor(g, Live(g), w) = EntriesFor(h, Live(h), w) \cup {e}
      BY <1>5
    <3>4. CASE w = v
      BY <2>2, <3>1, <3>3, <3>4
    <3>5. CASE w # v
      BY <2>2, <3>2, <3>5
    <3> QED BY <3>4, <3>5
  <2>4. g.value[w].ref_count = o[w] + Cardinality(EntriesFor(h, Live(h), w))
    BY <2>1, <1>2 DEF Consistent
  <2>5. p[w] > 0 \/ EntriesFor(g, Live(g), w) # {}
    <3>1. CASE w = v
      <4>1. e \in EntriesFor(g, Live(g), w)
        BY <1>5, <3>1
      <4> QED BY <4>1
    <3>2. CASE w # v
      <4>1. o[w] > 0 \/ EntriesFor(h, Live(h), w) # {}
        BY <2>1 DEF Consistent
      <4>2. p[w] = o[w]
        BY <2>1, <1>4, <3>2
      <4>3. EntriesFor(g, Live(g), w) = EntriesFor(h, Live(h), w)
        BY <1>5, <3>2
      <4> QED BY <4>1, <4>2, <4>3
    <3> QED BY <3>1, <3>2
  <2> QED BY <2>1, <2>2, <2>3, <2>4, <2>5, <1>4
<1>8. \A w \in Values : p[w] > 0 => w \in Live(g)
  BY <1>1, <1>2, <1>4 DEF Consistent
<1>9. \A f \in Entries : g.entry[f].state = "linked" =>
          g.entry[f].list \in Live(g) /\ g.entry[f].obj \in Live(g)
  BY <1>1, <1>2 DEF Consistent
<1>10. \A f \in Entries : h.entry[f].state = "linked" /\ h.entry[f].list = c /\ k # NULL =>
            h.entry[f].key # k
  BY DEF Named, Contents
<1>11. \A d, f \in Entries :
          g.entry[d].state = "linked" =>
              /\ g.entry[d].key = NULL <=> g.value[g.entry[d].list].type = "array"
              /\ d # f /\ g.entry[f].state = "linked" /\ g.entry[f].list = g.entry[d].list =>
                    g.entry[d].key = NULL \/ g.entry[f].key # g.entry[d].key
  <2> SUFFICES ASSUME NEW d \in Entries, NEW f \in Entries, g.entry[d].state = "linked"
               PROVE  /\ g.entry[d].key = NULL <=> g.value[g.entry[d].list].type = "array"
                      /\ d # f /\ g.entry[f].state = "linked" /\ g.entry[f].list = g.entry[d].list =>
                            g.entry[d].key = NULL \/ g.entry[f].key # g.entry[d].key
    OBVIOUS
  <2>1. CASE d = e
    BY <2>1, <1>2, <1>10
  <2>2. CASE d # e /\ f # e
    BY <2>2, <1>2 DEF Consistent
  <2>3. CASE d # e /\ f = e
    <3>1. g.entry[d] = h.entry[d] /\ h.entry[d].state = "linked"
      BY <2>3, <1>2
    <3>2. h.entry[d].key = NULL <=> h.value[h.entry[d].list].type = "array"
      BY <3>1 DEF Consistent
    <3>3. h.entry[d].list = c => h.entry[d].key = NULL \/ h.entry[d].key # k
      BY <3>1, <1>10
    <3>4. g.entry[f].list = c /\ g.entry[f].key = k
      BY <2>3, <1>2
    <3> QED BY <3>1, <3>2, <3>3, <3>4, <1>2
  <2> QED BY <2>1, <2>2, <2>3
<1> QED BY <1>3, <1>4, <1>7, <1>8, <1>9, <1>11 DEF Consistent, g, p

(* A new value is referred to by the client alone.                            *)
LEMMA CreatedConsistent ==
    ASSUME NEW h, NEW o, Consistent(h, o),
           NEW v \in Values \ Live(h), NEW t \in {"scalar", "array", "object"}
    PROVE  Consistent(Created(h, v, t), [o EXCEPT ![v] = 1])
<1> DEFINE g == Created(h, v, t)
           p == [o EXCEPT ![v] = 1]
<1>1. /\ h \in Heap /\ o \in [Values -> Nat] /\ Live(h) \subseteq Values
      /\ h.value[v].type = "free" /\ o[v] = 0
  BY DEF Consistent, Live
<1>2. /\ g.entry = h.entry
      /\ \A w \in Values : g.value[w] = IF w = v THEN [type |-> t, ref_count |-> 1] ELSE h.value[w]
      /\ g \in Heap
      /\ p \in [Values -> Nat] /\ \A w \in Values : p[w] = IF w = v THEN 1 ELSE o[w]
  BY <1>1, SMTT(30) DEF Heap, Value, Created
<1> HIDE DEF g, p
<1>3. Live(g) = Live(h) \cup {v}
  <2>1. \A w \in Values : g.value[w].type # "free" <=> h.value[w].type # "free" \/ w = v
    BY <1>2
  <2> QED BY <2>1 DEF Live
<1>4. \A w : EntriesFor(g, Live(g), w) = EntriesFor(h, Live(h), w)
  BY <1>2, <1>3 DEF EntriesFor, Consistent
<1>5. EntriesFor(h, Live(h), v) = {}
  BY <1>1 DEF EntriesFor, Consistent, Live
<1>6. \A w \in Live(g) : /\ g.value[w].ref_count = p[w] + Cardinality(EntriesFor(g, Live(g), w))
                         /\ p[w] > 0 \/ EntriesFor(g, Live(g), w) # {}
  <2> TAKE w \in Live(g)
  <2>1. CASE w = v
    BY <2>1, <1>2, <1>4, <1>5, FS_EmptySet, SMTT(30)
  <2>2. CASE w # v
    BY <2>2, <1>1, <1>2, <1>3, <1>4 DEF Consistent
  <2> QED BY <2>1, <2>2
<1>7. \A e \in Entries : g.entry[e].state = "linked" =>
         /\ g.entry[e].list \in Live(g) /\ g.entry[e].obj \in Live(g)
         /\ g.value[g.entry[e].list].type = h.value[h.entry[e].list].type
  BY <1>1, <1>2, <1>3 DEF Consistent
<1>8. \A w \in Values : p[w] > 0 => w \in Live(g)
  BY <1>2, <1>3 DEF Consistent
<1> QED BY <1>2, <1>6, <1>7, <1>8 DEF Consistent, g, p

LEMMA RefGetConsistent ==
    ASSUME NEW h, NEW o, Consistent(h, o), NEW v \in Live(h)
    PROVE  Consistent(JsonRefGet(h, v), [o EXCEPT ![v] = @ + 1])
<1> DEFINE g == JsonRefGet(h, v)
           p == [o EXCEPT ![v] = @ + 1]
<1>1. /\ h \in Heap /\ o \in [Values -> Nat] /\ Live(h) \subseteq Values
  BY DEF Consistent, Live
<1>2. /\ g.entry = h.entry
      /\ \A w \in Values : /\ g.value[w].type = h.value[w].type
                           /\ g.value[w].ref_count = h.value[w].ref_count + (IF w = v THEN 1 ELSE 0)
      /\ g \in Heap
      /\ p \in [Values -> Nat] /\ \A w \in Values : p[w] = o[w] + (IF w = v THEN 1 ELSE 0)
  <2> DEFINE n == h.value[v].ref_count + 1
  <2>1. h.value[v] \in Value /\ v \in Values /\ n \in Int
    BY <1>1 DEF Heap, Value
  <2>2. g = [h EXCEPT !.value[v] = [@ EXCEPT !.ref_count = n]]
    BY <1>1 DEF JsonRefGet, Heap
  <2> HIDE DEF n, g
  <2>3. g.entry = h.entry /\ g \in Heap
    BY <1>1, <2>1, <2>2 DEF Heap, Value
  <2>4. \A w \in Values : g.value[w] = IF w = v THEN [h.value[v] EXCEPT !.ref_count = n] ELSE h.value[w]
    BY <1>1, <2>1, <2>2 DEF Heap
  <2>5. \A w \in Values : h.value[w] \in [type : {"free", "scalar", "array", "object"}, ref_count : Int]
    BY <1>1 DEF Heap, Value
  <2>6. \A w \in Values : /\ g.value[w].type = h.value[w].type
                           /\ g.value[w].ref_count = h.value[w].ref_count + (IF w = v THEN 1 ELSE 0)
    BY <2>4, <2>5 DEF n
  <2>7. p \in [Values -> Nat] /\ \A w \in Values : p[w] = o[w] + (IF w = v THEN 1 ELSE 0)
    BY <1>1
  <2> QED BY <2>3, <2>6, <2>7
<1> HIDE DEF g, p
<1>3. Live(g) = Live(h)
  BY <1>2 DEF Live
<1>4. \A w : EntriesFor(g, Live(g), w) = EntriesFor(h, Live(h), w)
  BY <1>2, <1>3 DEF EntriesFor
<1>5. \A w \in Live(g) : /\ g.value[w].ref_count = p[w] + Cardinality(EntriesFor(g, Live(g), w))
                         /\ p[w] > 0 \/ EntriesFor(g, Live(g), w) # {}
  <2> TAKE w \in Live(g)
  <2>1. w \in Values /\ o[w] \in Nat /\ Cardinality(EntriesFor(h, Live(h), w)) \in Nat
    BY <1>1, <1>3, EntriesFinite
  <2>2. /\ h.value[w].ref_count = o[w] + Cardinality(EntriesFor(h, Live(h), w))
        /\ o[w] > 0 \/ EntriesFor(h, Live(h), w) # {}
    BY <1>3 DEF Consistent
  <2> QED BY <2>1, <2>2, <1>2, <1>4
<1>6. \A w \in Values : p[w] > 0 => w \in Live(g)
  BY <1>1, <1>2, <1>3 DEF Consistent
<1>7. \A e \in Entries : g.entry[e].state = "linked" =>
         /\ g.entry[e].list \in Live(g) /\ g.entry[e].obj \in Live(g)
         /\ g.value[g.entry[e].list].type = h.value[h.entry[e].list].type
  BY <1>1, <1>2, <1>3 DEF Consistent
<1> QED BY <1>2, <1>5, <1>6, <1>7 DEF Consistent, g, p

(* An entry for whose key there is no memory is in no list.                   *)
LEMMA LostConsistent ==
    ASSUME NEW h, NEW o, Consistent(h, o), NEW e \in FreeEntries(h)
    PROVE  Consistent([h EXCEPT !.entry[e].state = "lost"], o)
<1> DEFINE g == [h EXCEPT !.entry[e].state = "lost"]
<1>1. h \in Heap /\ e \in Entries /\ h.entry[e].state = "free"
  BY DEF Consistent, FreeEntries
<1>2. /\ g.value = h.value /\ g \in Heap
      /\ \A f \in Entries : f # e => g.entry[f] = h.entry[f]
      /\ g.entry[e].state = "lost"
  BY <1>1 DEF Heap, Entry
<1> HIDE DEF g
<1>3. Live(g) = Live(h)
  BY <1>2 DEF Live
<1>4. \A w : EntriesFor(g, Live(g), w) = EntriesFor(h, Live(h), w)
  <2> SUFFICES ASSUME NEW w, NEW f \in Entries
               PROVE  f \in EntriesFor(g, Live(g), w) <=> f \in EntriesFor(h, Live(h), w)
    BY DEF EntriesFor
  <2> QED BY <1>1, <1>2, <1>3 DEF EntriesFor
<1>5. \A f \in Entries : g.entry[f].state = "linked" => g.entry[f] = h.entry[f]
  BY <1>2
<1>6. \A w \in Live(g) :
          /\ g.value[w].ref_count = o[w] + Cardinality(EntriesFor(g, Live(g), w))
          /\ o[w] > 0 \/ EntriesFor(g, Live(g), w) # {}
  BY <1>2, <1>3, <1>4 DEF Consistent
<1>7. \A f \in Entries : g.entry[f].state = "linked" =>
          g.entry[f].list \in Live(g) /\ g.entry[f].obj \in Live(g)
  BY <1>3, <1>5 DEF Consistent
<1>8. \A d, f \in Entries :
          g.entry[d].state = "linked" =>
              /\ g.entry[d].key = NULL <=> g.value[g.entry[d].list].type = "array"
              /\ d # f /\ g.entry[f].state = "linked" /\ g.entry[f].list = g.entry[d].list =>
                    g.entry[d].key = NULL \/ g.entry[f].key # g.entry[d].key
  <2> SUFFICES ASSUME NEW d \in Entries, NEW f \in Entries, g.entry[d].state = "linked"
               PROVE  /\ g.entry[d].key = NULL <=> g.value[g.entry[d].list].type = "array"
                      /\ d # f /\ g.entry[f].state = "linked" /\ g.entry[f].list = g.entry[d].list =>
                            g.entry[d].key = NULL \/ g.entry[f].key # g.entry[d].key
    OBVIOUS
  <2>1. g.entry[d] = h.entry[d] /\ h.entry[d].state = "linked"
    BY <1>5
  <2>2. h.entry[d].key = NULL <=> h.value[h.entry[d].list].type = "array"
    BY <2>1 DEF Consistent
  <2>3. CASE g.entry[f].state = "linked"
    <3>1. g.entry[f] = h.entry[f] /\ h.entry[f].state = "linked"
      BY <1>5, <2>3
    <3>2. d # f /\ h.entry[f].list = h.entry[d].list =>
             h.entry[d].key = NULL \/ h.entry[f].key # h.entry[d].key
      BY <2>1, <3>1 DEF Consistent
    <3> QED BY <1>2, <2>1, <2>2, <3>1, <3>2
  <2>4. CASE g.entry[f].state # "linked"
    BY <1>2, <2>1, <2>2, <2>4
  <2> QED BY <2>3, <2>4
<1>9. g \in Heap /\ o \in [Values -> Nat] /\ \A w \in Values : o[w] > 0 => w \in Live(g)
  BY <1>2, <1>3 DEF Consistent
<1> QED BY <1>6, <1>7, <1>8, <1>9 DEF Consistent, g
-----------------------------------------------------------------------------
LEMMA HeapInitConsistent == HeapInit => Consistent(heap, owned)
<1> SUFFICES ASSUME HeapInit PROVE Consistent(heap, owned)
  OBVIOUS
<1>1. heap \in Heap /\ owned \in [Values -> Nat]
  BY DEF HeapInit, Heap, Value, Entry, FreeValue, FreeEntry
<1>2. Live(heap) = {}
  BY DEF HeapInit, Live, FreeValue
<1>3. \A e \in Entries : heap.entry[e].state # "linked"
  BY DEF HeapInit, FreeEntry
<1>4. \A v \in Values : owned[v] = 0
  BY DEF HeapInit
<1> QED BY <1>1, <1>2, <1>3, <1>4 DEF Consistent

(* Each call of json.h by a client that keeps its side of the contract.       *)
LEMMA ClientNextConsistent ==
    ASSUME Consistent(heap, owned), ClientNext(Keys)
    PROVE  Consistent(heap, owned)'
<1> USE HeapAssumption
<1>1. Live(heap) \subseteq Values /\ FreeEntries(heap) \subseteq Entries
  BY DEF Live, FreeEntries
<1>2. ASSUME NoMemory PROVE Consistent(heap, owned)'
  BY <1>2 DEF NoMemory
<1>3. ASSUME NEW t \in {"scalar", "array", "object"}, New(t) PROVE Consistent(heap, owned)'
  <2>1. Fresh \in Values \ Live(heap)
    BY <1>3 DEF New, Fresh, Free
  <2> QED BY <2>1, <1>3, CreatedConsistent DEF New
<1>4. ASSUME NEW v \in Live(heap), RefGet(v) PROVE Consistent(heap, owned)'
  BY <1>4, RefGetConsistent DEF RefGet
<1>5. ASSUME NEW v \in Values, owned[v] > 0, RefPut(v) PROVE Consistent(heap, owned)'
  BY <1>5, PutConsistent DEF RefPut
<1>6. ASSUME NEW c \in Values, NEW v \in Values, Holds(c, "array"), owned[v] > 0, ArrayAdd(c, v)
      PROVE  Consistent(heap, owned)'
  <2>1. CASE NoMemory
    BY <2>1, <1>2
  <2>2. CASE Add(heap, c, NULL, v)
    <3>1. FreshEntry(heap) \in FreeEntries(heap)
      BY <2>2 DEF Add, FreshEntry
    <3>2. c \in Live(heap) /\ heap.value[c].type = "array"
      BY <1>6 DEF Holds, Live
    <3> QED BY <2>2, <3>1, <3>2, <1>6, LinkedConsistent DEF Add
  <2> QED BY <1>6, <2>1, <2>2 DEF ArrayAdd
<1>7. ASSUME NEW c \in Values, NEW e \in Contents(heap, c), ArrayDel(e)
      PROVE  Consistent(heap, owned)'
  <2>1. e \in Entries /\ heap.entry[e].state = "linked"
    BY DEF Contents
  <2> QED BY <2>1, <1>7, UnlinkedConsistent DEF ArrayDel
<1>8. ASSUME NEW c \in Values, NEW k \in Keys, ObjectDel(c, k) PROVE Consistent(heap, owned)'
  BY <1>8, ObjectDelConsistent DEF ObjectDel
<1>9. ASSUME NEW c \in Values, NEW v \in Values, NEW k \in Keys,
             Holds(c, "object"), owned[v] > 0, ObjectAdd(c, k, v)
      PROVE  Consistent(heap, owned)'
  <2> DEFINE h == JsonObjectDel(heap, c, k)
  <2>1. /\ Consistent(h, owned) /\ Named(h, c, k) = {}
        /\ \A w \in Live(h) : h.value[w].type = heap.value[w].type
    BY ObjectDelConsistent
  <2>2. c \in Live(h) /\ h.value[c].type = "object"
    BY <2>1, <1>9 DEF Holds, Consistent
  <2> HIDE DEF h
  <2>3. CASE Add(h, c, k, v)
    <3>1. FreshEntry(h) \in FreeEntries(h)
      BY <2>3 DEF Add, FreshEntry
    <3> QED BY <2>1, <2>2, <2>3, <3>1, <1>9, LinkedConsistent DEF Add
  <2>4. CASE AddFails(h)
    <3>1. CASE FreeEntries(h) # {} /\ heap' = [h EXCEPT !.entry[FreshEntry(h)].state = "lost"]
      <4>1. FreshEntry(h) \in FreeEntries(h)
        BY <3>1 DEF FreshEntry
      <4> QED BY <2>1, <2>4, <3>1, <4>1, LostConsistent DEF AddFails
    <3>2. CASE heap' = h
      BY <2>1, <2>4, <3>2 DEF AddFails
    <3> QED BY <2>4, <3>1, <3>2 DEF AddFails
  <2> QED BY <1>9, <2>3, <2>4 DEF ObjectAdd, h
<1> QED BY <1>2, <1>3, <1>4, <1>5, <1>6, <1>7, <1>8, <1>9 DEF ClientNext

LEMMA ConsistentIs ==
    Consistent(heap, owned) =>
        CountsExact /\ FreedWithLastReference /\ NamesUnique
BY DEF Consistent, CountsExact, FreedWithLastReference, NamesUnique

LEMMA FaultsBounded ==
    /\ HeapInit => faults \in 0 .. MaxFaults
    /\ faults \in 0 .. MaxFaults /\ [HeapNext]_heapVars => faults' \in 0 .. MaxFaults
<1> USE HeapAssumption
<1>1. HeapInit => faults \in 0 .. MaxFaults
  BY DEF HeapInit
<1>2. ASSUME faults \in 0 .. MaxFaults, [HeapNext]_heapVars
      PROVE  faults' \in 0 .. MaxFaults
  <2>1. Fail \/ UNCHANGED faults
    BY <1>2 DEF HeapNext, ClientNext, heapVars, NoMemory, New, RefGet, RefPut, ArrayAdd,
                Add, ArrayDel, ObjectDel, ObjectAdd, AddFails
  <2> QED BY <1>2, <2>1 DEF Fail
<1> QED BY <1>1, <1>2

(* Whatever a client does that keeps its side of the contract, every count is *)
(* the number of references, nothing is used after it was freed or freed      *)
(* twice, and nothing without references stays.                               *)
THEOREM HeapCorrect ==
    HeapSpec => [](HeapTypeOK /\ CountsExact /\ FreedWithLastReference /\ NamesUnique)
<1> DEFINE I == Consistent(heap, owned) /\ faults \in 0 .. MaxFaults
<1>1. HeapInit => I
  BY HeapInitConsistent, FaultsBounded
<1>2. I /\ [HeapNext]_heapVars => I'
  <2> SUFFICES ASSUME I, [HeapNext]_heapVars PROVE Consistent(heap, owned)'
    BY FaultsBounded
  <2>1. CASE HeapNext
    BY <2>1, ClientNextConsistent DEF HeapNext
  <2>2. CASE UNCHANGED heapVars
    BY <2>2 DEF heapVars
  <2> QED BY <2>1, <2>2
<1>3. I => HeapTypeOK /\ CountsExact /\ FreedWithLastReference /\ NamesUnique
  BY ConsistentIs DEF HeapTypeOK, Consistent
<1> QED BY <1>1, <1>2, <1>3, PTL DEF HeapSpec
-----------------------------------------------------------------------------
(* JsonRpcResponses.                                                          *)

Functions == {"none", "prepare_response_object", "create_error_object", "prepare_error_response"}

Builds == [fn : Functions, at : 0 .. 3, failed : BOOLEAN,
           obj : Values \cup {NULL}, new : Values \cup {NULL}, err : Values \cup {NULL},
           id : Values \cup {NULL}, res : Values \cup {NULL}]

(* What a function may rely on at each of its calls.                          *)
BuildInvariant ==
    /\ build \in Builds
    /\ lost \in [Values -> Nat]
    /\ build.fn = "none" => build = Idle
    /\ build.obj # NULL => heap.value[build.obj].type = "object"
    /\ build.fn # "prepare_error_response" => build.err = NULL
    /\ build.fn # "prepare_response_object" => build.res = NULL
    /\ build.fn = "create_error_object" => build.at <= 2
    /\ build.failed => build.at < 3
    /\ build.obj = NULL => build.at = 0
    /\ LocalReferences

Inv == Consistent(heap, owned) /\ BuildInvariant

LEMMA HeldIsSmall ==
    ASSUME NEW b \in Builds, NEW v \in Values
    PROVE  /\ Held(b, v) \in Nat
           /\ b.obj = v => Held(b, v) > 0
           /\ b.new = v => Held(b, v) > 0
           /\ b.at < 2 /\ v \in {b.err, b.res} => Held(b, v) > 0
           /\ b.at < 3 /\ b.id = v => Held(b, v) > 0
BY DEF Held, One, Builds

LEMMA MembersAre ==
    /\ Members.prepare_response_object = <<"jsonrpc", "result", "id">>
    /\ Members.create_error_object = <<"message", "code">>
    /\ Members.prepare_error_response = <<"jsonrpc", "error", "id">>
    /\ DOMAIN Members = {"prepare_response_object", "create_error_object", "prepare_error_response"}
BY DEF Members

(* No function adds more than three members.                                  *)
LEMMA AddingBelowThree ==
    ASSUME Adding, build \in Builds
    PROVE  build.fn # "none" /\ build.at < 3
<1> DEFINE n == Len(Members[build.fn])
<1>1. build.fn \in DOMAIN Members /\ build.at \in 0 .. 3 /\ build.at < n
  BY MembersAre DEF Adding, Builds, Functions
<1>2. /\ Len(<<"jsonrpc", "result", "id">>) = 3
      /\ Len(<<"message", "code">>) = 2
      /\ Len(<<"jsonrpc", "error", "id">>) = 3
  OBVIOUS
<1>3. \/ Members[build.fn] = <<"jsonrpc", "result", "id">>
      \/ Members[build.fn] = <<"message", "code">>
      \/ Members[build.fn] = <<"jsonrpc", "error", "id">>
  BY <1>1, MembersAre
<1>4. build.fn # "none"
  BY DEF Adding
<1>5. n = 3 \/ n = 2
  BY <1>2, <1>3, Zenon
<1> HIDE DEF n
<1> QED BY <1>1, <1>4, <1>5

(* The object and the next member are held when the member is added.          *)
LEMMA MemberHeld ==
    ASSUME Inv, Adding, Member # NULL
    PROVE  /\ Holds(build.obj, "object") /\ build.obj \in Values
           /\ Member \in Values /\ owned[Member] > 0
           /\ Key \in Keys
<1>1. /\ build \in Builds /\ build.fn \in DOMAIN Members
      /\ \A v \in Values : Held(build, v) <= owned[v] /\ owned[v] \in Nat /\ Held(build, v) \in Nat
  <2>1. build \in Builds /\ build.fn \in DOMAIN Members
    BY MembersAre DEF Inv, BuildInvariant, Builds, Functions, Adding
  <2>2. \A v \in Values : Held(build, v) + lost[v] <= owned[v] /\ lost[v] \in Nat /\ owned[v] \in Nat
    BY DEF Inv, BuildInvariant, LocalReferences, Consistent
  <2> QED BY <2>1, <2>2, HeldIsSmall
<1>2. build.obj \in Values /\ Holds(build.obj, "object")
  <2>1. build.obj \in Values /\ heap.value[build.obj].type = "object"
    BY <1>1 DEF Builds, Adding, Inv, BuildInvariant
  <2> QED BY <2>1, <1>1, HeldIsSmall DEF Holds
<1>3. /\ Key \in {"jsonrpc", "result", "id", "message", "code", "error"}
      /\ Key = "result" => build.at = 1
      /\ Key = "error" => build.at = 1
      /\ Key = "id" => build.at = 2
  <2>1. build.at \in 0 .. 3
    BY <1>1 DEF Builds
  <2> QED BY <1>1, <2>1, MembersAre DEF Key, Adding
<1>4. Member \in Values /\ owned[Member] > 0
  <2>1. CASE Key = "result"
    BY <1>1, <1>3, <2>1, HeldIsSmall DEF Member, Builds
  <2>2. CASE Key = "error"
    BY <1>1, <1>3, <2>2, HeldIsSmall DEF Member, Builds
  <2>3. CASE Key = "id"
    BY <1>1, <1>3, <2>3, HeldIsSmall DEF Member, Builds
  <2>4. CASE Key \notin {"result", "error", "id"}
    BY <1>1, <2>4, HeldIsSmall DEF Member, Builds
  <2> QED BY <2>1, <2>2, <2>3, <2>4
<1> QED BY <1>2, <1>3, <1>4, ResponsesAssumption

(* Every step is one call of json.h that its contract allows, or none.        *)
LEMMA StepIsHeapStep ==
    ASSUME Inv, [Next]_vars
    PROVE  [HeapNext]_heapVars
<1>1. /\ build \in Builds
      /\ \A v \in Values : Held(build, v) > 0 => owned[v] > 0
  <2>1. \A v \in Values : Held(build, v) + lost[v] <= owned[v] /\ lost[v] \in Nat /\ owned[v] \in Nat
    BY DEF Inv, BuildInvariant, LocalReferences, Consistent
  <2>2. build \in Builds
    BY DEF Inv, BuildInvariant
  <2> QED BY <2>1, <2>2, HeldIsSmall
<1>2. ASSUME NEW id \in Values \cup {NULL}, NEW res \in Values \cup {NULL}, JsonRpcReturn(id, res)
      PROVE  UNCHANGED heapVars
  BY <1>2 DEF JsonRpcReturn, Begin, heapVars
<1>3. ASSUME NEW id \in Values \cup {NULL}, ProcessError(id)
      PROVE  NoMemory \/ UNCHANGED heapVars
  BY <1>3 DEF ProcessError, Begin, heapVars, NoMemory
<1>4. CASE MakeObject
  BY <1>4 DEF MakeObject, HeapNext, ClientNext
<1>5. CASE MakeValue
  BY <1>5 DEF MakeValue, HeapNext, ClientNext
<1>6. CASE AddMember
  <2>1. /\ Holds(build.obj, "object") /\ build.obj \in Values
        /\ Member \in Values /\ owned[Member] > 0 /\ Key \in Keys
    BY <1>6, MemberHeld DEF AddMember
  <2> QED BY <2>1, <1>6 DEF AddMember, HeapNext, ClientNext
<1>7. CASE AddNull \/ Finish
  BY <1>7 DEF AddNull, Finish, heapVars
<1>8. CASE PutError
  <2>1. build.err \in Values /\ owned[build.err] > 0
    BY <1>1, <1>8, HeldIsSmall DEF PutError, Builds
  <2> QED BY <2>1, <1>8 DEF PutError, HeapNext, ClientNext
<1>9. CASE PutObject
  <2>1. CASE build.obj = NULL
    BY <2>1, <1>9 DEF PutObject
  <2>2. CASE build.obj # NULL
    <3>1. build.obj \in Values /\ owned[build.obj] > 0
      BY <1>1, <2>2, HeldIsSmall DEF Builds
    <3> QED BY <2>2, <3>1, <1>9 DEF PutObject, HeapNext, ClientNext
  <2> QED BY <2>1, <2>2
<1>10. CASE ClientStep
  <2>1. ClientNext(ClientKeys) => ClientNext(Keys)
    BY ResponsesAssumption DEF ClientNext
  <2> QED BY <1>10, <2>1 DEF ClientStep, HeapNext
<1>11. CASE UNCHANGED vars
  BY <1>11 DEF vars, heapVars
<1>12. HeapNext \/ NoMemory \/ UNCHANGED heapVars
  BY <1>2, <1>3, <1>4, <1>5, <1>6, <1>7, <1>8, <1>9, <1>10, <1>11 DEF Next
<1> QED BY <1>12 DEF HeapNext, ClientNext

(* Values that were owned keep their types when a member is added or put.     *)
LEMMA TypesKept ==
    ASSUME Inv, NEW c \in Values, owned'[c] > 0, Consistent(heap, owned)',
           \/ \E v \in Values : owned[v] > 0 /\ RefPut(v)
           \/ \E t \in {"scalar", "object"} : New(t) /\ c # Fresh
           \/ NoMemory
           \/ UNCHANGED heap
    PROVE  heap'.value[c].type = heap.value[c].type
<1>1. c \in Live(heap')
  BY DEF Consistent
<1>2. ASSUME NEW v \in Values, owned[v] > 0, RefPut(v)
      PROVE  heap'.value[c].type = heap.value[c].type
  BY <1>1, <1>2, PutConsistent DEF RefPut, Inv
<1>3. ASSUME NEW t \in {"scalar", "object"}, New(t), c # Fresh
      PROVE  heap'.value[c].type = heap.value[c].type
  <2>1. Fresh \in Values /\ heap \in Heap
    BY <1>3 DEF New, Free, Fresh, Inv, Consistent
  <2> QED BY <2>1, <1>3 DEF New, Created, Heap
<1>4. CASE NoMemory \/ UNCHANGED heap
  BY <1>4 DEF NoMemory
<1> QED BY <1>2, <1>3, <1>4

(* A value just made had no reference, so none of the variables led to it.    *)
LEMMA FreshUnheld ==
    ASSUME Inv, Free # {}
    PROVE  /\ Fresh \in Values \ Live(heap) /\ owned[Fresh] = 0 /\ lost[Fresh] = 0
           /\ Held(build, Fresh) = 0
<1>1. Fresh \in Values \ Live(heap)
  BY DEF Fresh, Free
<1>2. owned[Fresh] = 0
  BY <1>1 DEF Inv, Consistent
<1>3. Held(build, Fresh) + lost[Fresh] <= 0 /\ lost[Fresh] \in Nat /\ Held(build, Fresh) \in Nat
  BY <1>1, <1>2, HeldIsSmall DEF Inv, BuildInvariant, LocalReferences
<1> QED BY <1>1, <1>2, <1>3
-----------------------------------------------------------------------------
LEMMA BeginPreserves ==
    ASSUME Inv, Consistent(heap, owned)',
           \/ \E id, res \in Values \cup {NULL} : JsonRpcReturn(id, res)
           \/ \E id \in Values \cup {NULL} : ProcessError(id)
    PROVE  BuildInvariant'
<1> USE HeapAssumption
<1>1. /\ build.fn = "none" /\ build = Idle /\ lost \in [Values -> Nat] /\ owned \in [Values -> Nat]
      /\ \A v \in Values : lost[v] <= owned[v]
  <2>1. build.fn = "none" /\ build = Idle
    BY DEF JsonRpcReturn, ProcessError, Begin, Inv, BuildInvariant
  <2>2. \A v \in Values : Held(build, v) = 0
    BY <2>1 DEF Held, One, Idle
  <2> QED BY <2>1, <2>2 DEF Inv, BuildInvariant, LocalReferences, Consistent
<1>2. ASSUME NEW id \in Values \cup {NULL}, NEW res \in Values \cup {NULL}, JsonRpcReturn(id, res)
      PROVE  BuildInvariant'
  <2>1. build' = [Idle EXCEPT !.fn = "prepare_response_object", !.id = id, !.res = res]
    BY <1>2 DEF JsonRpcReturn, Begin
  <2>2. UNCHANGED <<heap, owned, lost>>
    BY <1>2 DEF JsonRpcReturn, Begin
  <2>3. \A v \in Values : Held(build', v) = One(id, v) + One(res, v)
    BY <2>1 DEF Held, One, Idle
  <2>4. /\ id # NULL => owned[id] - lost[id] > (IF res = id THEN 1 ELSE 0)
        /\ res # NULL => owned[res] - lost[res] > 0
    BY <1>2 DEF JsonRpcReturn, Usable
  <2>5. \A v \in Values : One(id, v) + One(res, v) + lost[v] <= owned[v]
    BY <1>1, <2>4 DEF One
  <2>6. LocalReferences'
    BY <2>2, <2>3, <2>5 DEF LocalReferences
  <2>7. /\ build'.fn = "prepare_response_object" /\ build'.obj = NULL /\ build'.err = NULL
        /\ ~build'.failed /\ build'.at = 0 /\ build' \in Builds
    <3>1. build' = [fn |-> "prepare_response_object", at |-> 0, failed |-> FALSE, obj |-> NULL,
                    new |-> NULL, err |-> NULL, id |-> id, res |-> res]
      BY <2>1 DEF Idle
    <3> QED BY <3>1 DEF Builds, Functions
  <2> QED BY <1>1, <2>2, <2>6, <2>7 DEF BuildInvariant
<1>3. ASSUME NEW id \in Values \cup {NULL}, ProcessError(id)
      PROVE  BuildInvariant'
  <2>1. build' = [Idle EXCEPT !.fn = "create_error_object", !.id = id, !.res = NULL]
    BY <1>3 DEF ProcessError, Begin
  <2>2. UNCHANGED <<heap, owned, lost>>
    BY <1>3 DEF ProcessError, Begin
  <2>3. \A v \in Values : Held(build', v) = One(id, v)
    BY <2>1 DEF Held, One, Idle
  <2>4. id # NULL => owned[id] - lost[id] > 0
    BY <1>3 DEF ProcessError, Usable
  <2>5. \A v \in Values : One(id, v) + lost[v] <= owned[v]
    BY <1>1, <2>4 DEF One
  <2>6. LocalReferences'
    BY <2>2, <2>3, <2>5 DEF LocalReferences
  <2>7. /\ build'.fn = "create_error_object" /\ build'.obj = NULL /\ build'.err = NULL
        /\ build'.res = NULL /\ build'.at = 0 /\ ~build'.failed /\ build' \in Builds
    <3>1. build' = [fn |-> "create_error_object", at |-> 0, failed |-> FALSE, obj |-> NULL,
                    new |-> NULL, err |-> NULL, id |-> id, res |-> NULL]
      BY <2>1 DEF Idle
    <3> QED BY <3>1 DEF Builds, Functions
  <2> QED BY <1>1, <2>2, <2>6, <2>7 DEF BuildInvariant
<1> QED BY <1>2, <1>3

LEMMA MakePreserves ==
    ASSUME Inv, Consistent(heap, owned)', MakeObject \/ MakeValue
    PROVE  BuildInvariant'
<1> USE HeapAssumption
<1>1. /\ build \in Builds /\ lost \in [Values -> Nat] /\ owned \in [Values -> Nat]
      /\ UNCHANGED lost
      /\ \A v \in Values : Held(build, v) + lost[v] <= owned[v] /\ Held(build, v) \in Nat
  BY HeldIsSmall DEF Inv, BuildInvariant, LocalReferences, Consistent, MakeObject, MakeValue
<1>2. CASE NoMemory /\ build' = [build EXCEPT !.failed = TRUE]
  <2>1. \A v \in Values : Held(build', v) = Held(build, v)
    BY <1>1, <1>2 DEF Held, Builds
  <2>2. LocalReferences'
    BY <1>1, <1>2, <2>1 DEF LocalReferences, NoMemory
  <2>3. build.fn # "none" /\ build.at < 3
    <3>1. CASE MakeObject
      BY <3>1 DEF MakeObject, Inv, BuildInvariant
    <3>2. CASE MakeValue
      BY <1>1, <3>2, AddingBelowThree DEF MakeValue
    <3> QED BY <3>1, <3>2
  <2> QED BY <1>1, <1>2, <2>2, <2>3 DEF BuildInvariant, NoMemory, Builds, Inv
<1>3. ASSUME NEW t \in {"scalar", "object"}, New(t),
             \/ t = "object" /\ build.obj = NULL /\ build' = [build EXCEPT !.obj = Fresh]
             \/ build.new = NULL /\ build' = [build EXCEPT !.new = Fresh]
      PROVE  BuildInvariant'
  <2>1. /\ Fresh \in Values \ Live(heap) /\ owned[Fresh] = 0 /\ lost[Fresh] = 0
        /\ Held(build, Fresh) = 0
    BY <1>3, FreshUnheld DEF New
  <2>2. \A v \in Values : owned'[v] = IF v = Fresh THEN 1 ELSE owned[v]
    BY <1>1, <1>3, <2>1 DEF New
  <2>3. \A v \in Values : Held(build', v) = Held(build, v) + One(Fresh, v)
    BY <1>1, <1>3, <2>1 DEF Held, One, Builds
  <2>4. LocalReferences'
    BY <1>1, <2>1, <2>2, <2>3 DEF LocalReferences, One
  <2>5. build'.obj # NULL => heap'.value[build'.obj].type = "object"
    <3>1. CASE build'.obj = Fresh /\ t = "object"
      BY <3>1, <2>1, <1>3 DEF New, Created, Inv, Consistent, Heap
    <3>2. CASE build'.obj = build.obj /\ build.obj # NULL
      <4>1. build.obj \in Values /\ Held(build, build.obj) > 0
        BY <1>1, <3>2, HeldIsSmall DEF Builds
      <4>2. build.obj # Fresh
        BY <2>1, <4>1
      <4>3. owned'[build.obj] > 0
        BY <1>1, <2>2, <4>1, <4>2
      <4> QED BY <1>3, <3>2, <4>1, <4>2, <4>3, TypesKept DEF Inv, BuildInvariant
    <3> QED BY <1>1, <1>3, <3>1, <3>2 DEF Builds
  <2>6. build' \in Builds /\ build'.fn = build.fn /\ build'.err = build.err
        /\ build'.res = build.res /\ build'.at = build.at /\ build.fn # "none"
        /\ build'.failed = build.failed /\ (build'.obj = NULL => build.obj = NULL)
    <3>1. build.fn # "none"
      BY DEF MakeObject, MakeValue, Adding
    <3>2. Fresh \in Values /\ build \in Builds
      BY <1>1, <2>1
    <3>3. CASE build.obj = NULL /\ build' = [build EXCEPT !.obj = Fresh]
      BY <3>1, <3>2, <3>3 DEF Builds
    <3>4. CASE build' = [build EXCEPT !.new = Fresh]
      BY <3>1, <3>2, <3>4 DEF Builds
    <3> QED BY <1>3, <3>3, <3>4
  <2> QED BY <1>1, <2>4, <2>5, <2>6 DEF BuildInvariant, Inv
<1> QED BY <1>2, <1>3 DEF MakeObject, MakeValue

LEMMA AddPreserves ==
    ASSUME Inv, Consistent(heap, owned)', AddMember
    PROVE  BuildInvariant'
<1> USE HeapAssumption
<1> DEFINE m == Member
           h == JsonObjectDel(heap, build.obj, Key)
<1>1. /\ build \in Builds /\ lost \in [Values -> Nat] /\ owned \in [Values -> Nat]
      /\ UNCHANGED lost
      /\ \A v \in Values : Held(build, v) + lost[v] <= owned[v] /\ Held(build, v) \in Nat
  BY HeldIsSmall DEF Inv, BuildInvariant, LocalReferences, Consistent, AddMember
<1>2. /\ Holds(build.obj, "object") /\ build.obj \in Values
      /\ m \in Values /\ owned[m] > 0 /\ Key \in Keys
  BY MemberHeld DEF AddMember
<1>3. build.fn \in DOMAIN Members /\ build.fn # "none" /\ build.at \in 0 .. 3
  BY <1>1, MembersAre DEF AddMember, Adding, Builds, Functions
<1>4. /\ Consistent(h, owned)
      /\ \A w \in Live(h) : h.value[w].type = heap.value[w].type
  BY ObjectDelConsistent DEF Inv
<1>5. build.obj \in Live(h) /\ h.value[build.obj].type = "object" /\ h \in Heap
  BY <1>2, <1>4 DEF Holds, Consistent
<1> HIDE DEF h
<1>6. CASE AddFails(h)
  <2>1. owned' = owned /\ build' = [build EXCEPT !.failed = TRUE]
    BY <1>6 DEF AddFails, AddMember
  <2>2. heap'.value = h.value
    BY <1>5, <1>6 DEF AddFails, Heap
  <2>3. \A v \in Values : Held(build', v) = Held(build, v)
    BY <1>1, <2>1 DEF Held, Builds
  <2>4. LocalReferences'
    BY <1>1, <2>1, <2>3 DEF LocalReferences
  <2>5. build.at < 3
    BY <1>1, AddingBelowThree DEF AddMember
  <2> QED BY <1>1, <1>3, <1>5, <2>1, <2>2, <2>4, <2>5 DEF BuildInvariant, Builds, Inv
<1>7. CASE Add(h, build.obj, Key, m)
  <2>1. \A v \in Values : owned'[v] = owned[v] - One(m, v)
    BY <1>1, <1>2, <1>7 DEF Add, One
  <2>2. build' = [build EXCEPT !.at = @ + 1, !.new = NULL]
    <3>1. owned'[m] # owned[m]
      BY <1>1, <1>2, <2>1 DEF One
    <3> HIDE DEF m
    <3> QED BY <3>1 DEF AddMember
  <2>3. heap'.value = h.value
    BY <1>5, <1>7 DEF Add, Linked, Heap
  <2>4. /\ build.at < Len(Members[build.fn])
        /\ Key = Members[build.fn][build.at + 1]
        /\ build.fn # "prepare_error_response" => build.err = NULL
        /\ build.fn # "prepare_response_object" => build.res = NULL
    BY DEF AddMember, Adding, Key, Inv, BuildInvariant
  <2>5. /\ build.fn = "prepare_response_object" =>
              \/ build.at = 0 /\ Key = "jsonrpc"
              \/ build.at = 1 /\ Key = "result"
              \/ build.at = 2 /\ Key = "id"
        /\ build.fn = "prepare_error_response" =>
              \/ build.at = 0 /\ Key = "jsonrpc"
              \/ build.at = 1 /\ Key = "error"
              \/ build.at = 2 /\ Key = "id"
        /\ build.fn = "create_error_object" =>
              \/ build.at = 0 /\ Key = "message"
              \/ build.at = 1 /\ Key = "code"
    BY <1>3, <2>4, MembersAre
  <2>6. /\ build'.at = build.at + 1 /\ build'.new = NULL /\ build'.obj = build.obj
        /\ build'.err = build.err /\ build'.res = build.res /\ build'.id = build.id
        /\ build'.fn = build.fn /\ build' \in Builds /\ ~build'.failed /\ build'.obj # NULL
    <3>1. build.at \in 0 .. 2
      BY <1>3, <2>5, MembersAre
    <3> DEFINE n == build.at + 1
    <3>2. n \in 0 .. 3
      BY <3>1
    <3>3. build' = [build EXCEPT !.at = n, !.new = NULL]
      BY <2>2
    <3> HIDE DEF n
    <3>4. build'.at = n /\ build' \in Builds /\ build'.new = NULL /\ build'.obj = build.obj
          /\ build'.err = build.err /\ build'.res = build.res /\ build'.id = build.id
          /\ build'.fn = build.fn /\ build'.failed = build.failed
      BY <1>1, <3>2, <3>3 DEF Builds
    <3>5. ~build.failed /\ build.obj # NULL
      BY DEF AddMember, Adding
    <3> QED BY <3>4, <3>5 DEF n
  <2>7. \A v \in Values : Held(build', v) + One(m, v) <= Held(build, v)
    <3> TAKE v \in Values
    <3>0. One(NULL, v) = 0
      BY DEF One
    <3>1. CASE Key \in {"jsonrpc", "message", "code"}
      <4>1. m = build.new
        BY <3>1 DEF Member
      <4>2. build.at = 1 => build.err = NULL /\ build.res = NULL
        BY <1>3, <2>4, <2>5, <3>1, MembersAre
      <4>3. build.at \in {0, 1}
        BY <1>3, <2>5, <3>1, MembersAre
      <4> HIDE DEF m
      <4> QED BY <2>6, <3>0, <4>1, <4>2, <4>3 DEF Held, One
    <3>2. CASE Key = "result"
      <4>1. m = build.res /\ build.at = 1 /\ build.err = NULL
        BY <1>3, <2>4, <2>5, <3>2, MembersAre DEF Member
      <4> HIDE DEF m
      <4> QED BY <2>6, <3>0, <4>1 DEF Held, One
    <3>3. CASE Key = "error"
      <4>1. m = build.err /\ build.at = 1 /\ build.res = NULL
        BY <1>3, <2>4, <2>5, <3>3, MembersAre DEF Member
      <4> HIDE DEF m
      <4> QED BY <2>6, <3>0, <4>1 DEF Held, One
    <3>4. CASE Key = "id"
      <4>1. m = build.id /\ build.at = 2
        BY <1>3, <2>4, <2>5, <3>4, MembersAre DEF Member
      <4> HIDE DEF m
      <4> QED BY <2>6, <3>0, <4>1 DEF Held, One
    <3> QED BY <1>3, <2>5, <3>1, <3>2, <3>3, <3>4, MembersAre
  <2>8. LocalReferences'
    <3> SUFFICES ASSUME NEW v \in Values PROVE Held(build', v) + lost'[v] <= owned'[v]
      BY DEF LocalReferences
    <3>1. Held(build', v) \in Nat /\ One(m, v) \in Nat
      BY <2>6, HeldIsSmall DEF One
    <3> HIDE DEF m
    <3> QED BY <1>1, <2>1, <2>7, <3>1
  <2> QED BY <1>1, <1>3, <1>5, <2>3, <2>4, <2>5, <2>6, <2>8, MembersAre DEF BuildInvariant
<1> QED BY <1>6, <1>7 DEF AddMember, ObjectAdd, h

(* The error path gives back what the local variables stand for, or counts it *)
(* among what is lost.                                                        *)
LEMMA PutPreserves ==
    ASSUME Inv, Consistent(heap, owned)', PutError \/ PutObject
    PROVE  BuildInvariant'
<1> USE HeapAssumption
<1>1. /\ build \in Builds /\ lost \in [Values -> Nat] /\ owned \in [Values -> Nat]
      /\ \A v \in Values : Held(build, v) + lost[v] <= owned[v] /\ Held(build, v) \in Nat
  BY HeldIsSmall DEF Inv, BuildInvariant, LocalReferences, Consistent
<1>2. /\ build.fn # "prepare_error_response" => build.err = NULL
      /\ build.fn # "prepare_response_object" => build.res = NULL
      /\ build.fn = "create_error_object" => build.at <= 2
      /\ build.obj # NULL => heap.value[build.obj].type = "object"
      /\ build.failed => build.at < 3
      /\ build.obj = NULL => build.at = 0
  BY DEF Inv, BuildInvariant
<1>3. build.failed /\ build.fn # "none"
  BY DEF PutError, PutObject, Inv, BuildInvariant, Idle
<1>4. CASE PutError
  <2>1. /\ build.err \in Values /\ build.at < 2
        /\ build' = [build EXCEPT !.err = NULL] /\ RefPut(build.err) /\ lost' = lost
    BY <1>1, <1>4 DEF PutError, Builds
  <2>2. /\ build' \in Builds /\ build'.fn = build.fn /\ build'.at = build.at
        /\ build'.obj = build.obj /\ build'.new = build.new /\ build'.err = NULL
        /\ build'.id = build.id /\ build'.res = build.res /\ build'.failed = build.failed
    BY <1>1, <2>1 DEF Builds
  <2>3. \A v \in Values : Held(build', v) + One(build.err, v) = Held(build, v)
    BY <2>1, <2>2 DEF Held, One
  <2>4. \A v \in Values : owned'[v] = owned[v] - One(build.err, v)
    BY <1>1, <2>1 DEF RefPut, One
  <2>5. \A v \in Values : One(build.err, v) \in Nat /\ Held(build', v) \in Nat
    BY <2>2, HeldIsSmall DEF One
  <2>6. LocalReferences'
    BY <1>1, <2>1, <2>3, <2>4, <2>5 DEF LocalReferences
  <2>7. build'.obj # NULL => heap'.value[build'.obj].type = "object"
    <3> SUFFICES ASSUME build.obj # NULL PROVE heap'.value[build.obj].type = "object"
      BY <2>2
    <3>1. build.obj \in Values /\ Held(build', build.obj) > 0
      BY <1>1, <2>2, HeldIsSmall DEF Builds
    <3>2. owned'[build.obj] > 0
      BY <1>1, <2>1, <2>5, <2>6, <3>1 DEF LocalReferences, Consistent
    <3>3. owned[build.err] > 0
      BY <1>1, <2>1, HeldIsSmall
    <3> QED BY <1>2, <2>1, <3>1, <3>2, <3>3, TypesKept
  <2> QED BY <1>1, <1>2, <1>3, <2>1, <2>2, <2>6, <2>7 DEF BuildInvariant
<1>5. CASE PutObject
  <2> DEFINE gone(v) == IF v \in Forgotten THEN 1 ELSE 0
  <2>1. \A v \in Values : lost'[v] = lost[v] + gone(v)
    BY <1>5 DEF PutObject
  <2>2. lost' \in [Values -> Nat]
    BY <1>1, <1>5 DEF PutObject
  <2>3. \A v \in Values : owned'[v] = owned[v] - One(build.obj, v)
    <3>1. CASE build.obj = NULL
      BY <1>1, <1>5, <3>1 DEF PutObject, heapVars, One
    <3>2. CASE build.obj # NULL
      BY <1>1, <1>5, <3>2 DEF PutObject, RefPut, One
    <3> QED BY <3>1, <3>2
  <2>4. \/ /\ build.fn = "prepare_response_object"
           /\ build' = [Idle EXCEPT !.fn = "create_error_object", !.id = build.id]
        \/ /\ build.fn # "prepare_response_object"
           /\ build' = Idle
    BY <1>5 DEF PutObject
  <2>5. /\ build' \in Builds /\ build'.obj = NULL /\ build'.err = NULL /\ build'.res = NULL
        /\ build'.new = NULL /\ build'.at = 0 /\ ~build'.failed
        /\ build.fn = "prepare_response_object" => build'.fn = "create_error_object" /\ build'.id = build.id
        /\ build.fn # "prepare_response_object" => build'.id = NULL
        /\ build'.fn = "none" => build' = Idle
        /\ build'.fn \in {"create_error_object", "none"}
    <3>1. CASE build.fn # "prepare_response_object"
      <4>1. build' = [fn |-> "none", at |-> 0, failed |-> FALSE, obj |-> NULL, new |-> NULL,
                      err |-> NULL, id |-> NULL, res |-> NULL]
        BY <2>4, <3>1 DEF Idle
      <4> QED BY <2>4, <3>1, <4>1 DEF Builds, Functions
    <3>2. CASE build.fn = "prepare_response_object"
      <4>1. build' = [fn |-> "create_error_object", at |-> 0, failed |-> FALSE, obj |-> NULL,
                      new |-> NULL, err |-> NULL, id |-> build.id, res |-> NULL]
        BY <2>4, <3>2 DEF Idle
      <4> QED BY <1>1, <3>2, <4>1 DEF Builds, Functions
    <3> QED BY <3>1, <3>2
  <2>6. \A v \in Values : Held(build', v) + gone(v) + One(build.obj, v) <= Held(build, v)
    <3> TAKE v \in Values
    <3>1. Held(build', v) = One(build'.id, v) /\ One(NULL, v) = 0
      BY <2>5 DEF Held, One
    <3>2. build.at \in 0 .. 3
      BY <1>1 DEF Builds
    <3>3. CASE build.fn = "prepare_response_object"
      <4>1. build.at < 3
        BY <1>2, <1>3
      <4>2. v \in Forgotten => v = build.new \/ (build.at < 2 /\ v = build.res)
        BY <3>3 DEF Forgotten
      <4> QED BY <2>5, <3>1, <3>2, <3>3, <4>1, <4>2 DEF Held, One
    <3>4. CASE build.fn # "prepare_response_object"
      <4>1. build.at < 3
        BY <1>2, <1>3
      <4>2. v \in Forgotten => v = build.new \/ v = build.id
        BY <3>4 DEF Forgotten
      <4> QED BY <2>5, <3>1, <3>2, <3>4, <4>1, <4>2 DEF Held, One
    <3> QED BY <3>3, <3>4
  <2>7. LocalReferences'
    <3> SUFFICES ASSUME NEW v \in Values PROVE Held(build', v) + lost'[v] <= owned'[v]
      BY DEF LocalReferences
    <3>1. Held(build', v) \in Nat /\ One(build.obj, v) \in Nat /\ gone(v) \in Nat
      BY <2>5, HeldIsSmall DEF One
    <3> HIDE DEF gone
    <3> QED BY <1>1, <2>1, <2>3, <2>6, <3>1
  <2> QED BY <2>2, <2>5, <2>7 DEF BuildInvariant
<1> QED BY <1>4, <1>5
(* create_error_object hands its object on; the rest keep theirs.             *)
LEMMA FinishPreserves ==
    ASSUME Inv, AddNull \/ Finish
    PROVE  BuildInvariant'
<1> USE HeapAssumption
<1>1. /\ build \in Builds /\ lost \in [Values -> Nat] /\ owned \in [Values -> Nat]
      /\ UNCHANGED <<heap, owned, lost>>
      /\ \A v \in Values : Held(build, v) + lost[v] <= owned[v] /\ Held(build, v) \in Nat
  BY HeldIsSmall DEF Inv, BuildInvariant, LocalReferences, Consistent, AddNull, Finish
<1>2. /\ build.fn # "prepare_error_response" => build.err = NULL
      /\ build.fn # "prepare_response_object" => build.res = NULL
      /\ build.fn = "create_error_object" => build.at <= 2
      /\ build.obj # NULL => heap.value[build.obj].type = "object"
      /\ build.obj = NULL => build.at = 0
  BY DEF Inv, BuildInvariant
<1>3. CASE AddNull
  <2>1. build' = [build EXCEPT !.failed = TRUE] /\ build.fn # "none" /\ build.at < 3
    BY <1>1, <1>3, AddingBelowThree DEF AddNull
  <2>2. /\ build' \in Builds /\ build'.fn = build.fn /\ build'.at = build.at
        /\ build'.obj = build.obj /\ build'.new = build.new /\ build'.err = build.err
        /\ build'.id = build.id /\ build'.res = build.res
    BY <1>1, <2>1 DEF Builds
  <2>3. \A v \in Values : Held(build', v) = Held(build, v)
    BY <2>2 DEF Held
  <2>4. LocalReferences'
    BY <1>1, <2>3 DEF LocalReferences
  <2> QED BY <1>1, <1>2, <2>1, <2>2, <2>4 DEF BuildInvariant
<1>4. CASE Finish /\ build.fn = "create_error_object"
  <2>1. build' = [Idle EXCEPT !.fn = "prepare_error_response", !.id = build.id, !.err = build.obj]
    BY <1>4 DEF Finish
  <2>2. build' = [fn |-> "prepare_error_response", at |-> 0, failed |-> FALSE, obj |-> NULL,
                  new |-> NULL, err |-> build.obj, id |-> build.id, res |-> NULL]
    BY <2>1 DEF Idle
  <2>3. build' \in Builds
    BY <1>1, <2>2 DEF Builds, Functions
  <2>4. \A v \in Values : Held(build', v) <= Held(build, v)
    <3> TAKE v \in Values
    <3>1. build.at <= 2 /\ build.at \in 0 .. 3
      BY <1>1, <1>2, <1>4 DEF Builds
    <3>2. Held(build', v) = One(build.obj, v) + One(build.id, v)
      BY <2>2 DEF Held, One
    <3> QED BY <3>1, <3>2 DEF Held, One
  <2>5. LocalReferences'
    <3> SUFFICES ASSUME NEW v \in Values PROVE Held(build', v) + lost'[v] <= owned'[v]
      BY DEF LocalReferences
    <3>1. Held(build', v) \in Nat
      BY <2>3, HeldIsSmall
    <3> QED BY <1>1, <2>4, <3>1
  <2> QED BY <1>1, <2>2, <2>3, <2>5 DEF BuildInvariant
<1>5. CASE Finish /\ build.fn # "create_error_object"
  <2>1. build' = Idle
    BY <1>5 DEF Finish
  <2>2. build' = [fn |-> "none", at |-> 0, failed |-> FALSE, obj |-> NULL, new |-> NULL,
                  err |-> NULL, id |-> NULL, res |-> NULL]
    BY <2>1 DEF Idle
  <2>3. build' \in Builds
    BY <2>2 DEF Builds, Functions
  <2>4. \A v \in Values : Held(build', v) = 0
    BY <2>2 DEF Held, One
  <2>5. LocalReferences'
    BY <1>1, <2>4 DEF LocalReferences
  <2> QED BY <1>1, <2>1, <2>2, <2>3, <2>5 DEF BuildInvariant
<1> QED BY <1>3, <1>4, <1>5

(* The client leaves what was lost alone.                                     *)
LEMMA ClientPreserves ==
    ASSUME Inv, Consistent(heap, owned)', ClientStep \/ UNCHANGED vars
    PROVE  BuildInvariant'
<1> USE HeapAssumption
<1>1. CASE ClientStep
  <2>1. build = Idle /\ build' = Idle /\ lost' = lost /\ lost \in [Values -> Nat]
    BY <1>1 DEF ClientStep, Inv, BuildInvariant
  <2>2. build' = [fn |-> "none", at |-> 0, failed |-> FALSE, obj |-> NULL, new |-> NULL,
                  err |-> NULL, id |-> NULL, res |-> NULL]
    BY <2>1 DEF Idle
  <2>3. build' \in Builds
    BY <2>2 DEF Builds, Functions
  <2>4. \A v \in Values : Held(build', v) = 0 /\ owned'[v] >= lost[v] /\ owned'[v] \in Nat
    BY <1>1, <2>2 DEF Held, One, ClientStep, Consistent
  <2>5. LocalReferences'
    BY <2>1, <2>4 DEF LocalReferences
  <2> QED BY <2>1, <2>2, <2>3, <2>5 DEF BuildInvariant
<1>2. CASE UNCHANGED vars
  BY <1>2 DEF vars, Inv, BuildInvariant, LocalReferences
<1> QED BY <1>1, <1>2

LEMMA InitInv == Init => Inv
<1> SUFFICES ASSUME Init PROVE Inv
  OBVIOUS
<1>1. Consistent(heap, owned)
  BY HeapInitConsistent DEF Init
<1>2. build = [fn |-> "none", at |-> 0, failed |-> FALSE, obj |-> NULL, new |-> NULL,
               err |-> NULL, id |-> NULL, res |-> NULL]
  BY DEF Init, Idle
<1>3. build \in Builds
  BY <1>2 DEF Builds, Functions
<1>4. LocalReferences
  BY <1>2, HeapAssumption DEF LocalReferences, Held, One, Init, HeapInit
<1>5. lost \in [Values -> Nat] /\ build = Idle
  BY DEF Init
<1> QED BY <1>1, <1>2, <1>3, <1>4, <1>5 DEF Inv, BuildInvariant

LEMMA InvStep == Inv /\ [Next]_vars => Inv'
<1> SUFFICES ASSUME Inv, [Next]_vars PROVE Inv'
  OBVIOUS
<1>1. Consistent(heap, owned)'
  BY StepIsHeapStep, ClientNextConsistent DEF Inv, HeapNext, heapVars
<1>2. BuildInvariant'
  BY <1>1, BeginPreserves, MakePreserves, AddPreserves, PutPreserves, FinishPreserves,
     ClientPreserves DEF Next
<1> QED BY <1>1, <1>2 DEF Inv

(* The invariant: counts are exact, and every local variable of a builder     *)
(* holds its reference.                                                       *)
THEOREM ResponsesInvariant == Spec => []Inv
<1> QED BY InitInv, InvStep, PTL DEF Spec

(* The library is a client of json.c that keeps its contract: it puts and     *)
(* gives away only references it holds, whatever allocation fails, so every   *)
(* property of HeapSpec is one of the program (json_rpc.c:336-351, 463-547).  *)
THEOREM LibraryKeepsContract == Spec => KeepsContract
<1>1. Init => HeapInit
  BY DEF Init
<1>2. Inv /\ [Next]_vars => [HeapNext]_heapVars
  BY StepIsHeapStep
<1> QED BY <1>1, <1>2, ResponsesInvariant, PTL DEF Spec, KeepsContract, HeapSpec

(* No reference count is ever wrong while responses are built, and no value   *)
(* is freed early or left behind by the last reference (json.c:352-369).      *)
THEOREM ResponsesKeepCounts ==
    Spec => [](CountsExact /\ FreedWithLastReference /\ NamesUnique)
<1> QED BY LibraryKeepsContract, HeapCorrect, PTL DEF KeepsContract

(* No object of a response has two members of one name: json_object_add takes *)
(* the old entry out before it can fail (json.c:309-330).                     *)
THEOREM ResponsesKeepNames == Spec => []NamesUnique
<1> QED BY ResponsesKeepCounts, PTL

(* Values, entries, counts and references keep their types while responses   *)
(* are built, and no more allocations fail than may (json_rpc.c:336-351,      *)
(* 463-547).                                                                  *)
THEOREM ResponsesTypes == Spec => []HeapTypeOK
<1> QED BY LibraryKeepsContract, HeapCorrect, PTL DEF KeepsContract

(* Every local variable has a reference of its own at each call: none is put  *)
(* twice or used after it was given away (json_rpc.c:336-351, 463-547).       *)
THEOREM ResponsesHoldReferences == Spec => []LocalReferences
<1>1. Inv => LocalReferences
  BY DEF Inv, BuildInvariant
<1> QED BY <1>1, ResponsesInvariant, PTL
-----------------------------------------------------------------------------
(* What is lost when an allocation fails.                                     *)

(* A value is made only for the members that are made of nothing, and each    *)
(* failed allocation pays for the two references that may be forgotten.       *)
LossInvariant ==
    /\ faults \in Nat
    /\ build.new # NULL => build.at = 0 \/ (build.fn = "create_error_object" /\ build.at = 1)
    /\ IsFiniteSet(LostReferences)
    /\ Cardinality(LostReferences) <= 2 * faults
    /\ build.failed /\ Forgotten # {} => Cardinality(LostReferences) + 2 <= 2 * faults

(* Two elements more.                                                         *)
LEMMA TwoMore ==
    ASSUME NEW T, IsFiniteSet(T), NEW a, NEW b, NEW S, S \subseteq (T \cup {a}) \cup {b}
    PROVE  IsFiniteSet(S) /\ Cardinality(S) <= Cardinality(T) + 2
<1>1. /\ IsFiniteSet(T \cup {a})
      /\ Cardinality(T \cup {a}) = IF a \in T THEN Cardinality(T) ELSE Cardinality(T) + 1
  BY FS_AddElement, Zenon
<1> DEFINE U == T \cup {a}
<1>2. /\ IsFiniteSet(U \cup {b})
      /\ Cardinality(U \cup {b}) = IF b \in U THEN Cardinality(U) ELSE Cardinality(U) + 1
  BY <1>1, FS_AddElement, Zenon
<1>3. IsFiniteSet(S) /\ Cardinality(S) <= Cardinality(U \cup {b})
  BY <1>2, FS_Subset, Zenon
<1>4. /\ Cardinality(T) \in Nat /\ Cardinality(S) \in Nat /\ Cardinality(U) \in Nat
      /\ Cardinality(U \cup {b}) \in Nat
  BY <1>1, <1>2, <1>3, FS_CardinalityType, Zenon
<1>5. Cardinality(U) = Cardinality(T) \/ Cardinality(U) = Cardinality(T) + 1
  BY <1>1
<1>6. \/ Cardinality(U \cup {b}) = Cardinality(U)
      \/ Cardinality(U \cup {b}) = Cardinality(U) + 1
  BY <1>2
<1> HIDE DEF U
<1> QED BY <1>3, <1>4, <1>5, <1>6

(* Forgetting takes one reference of each value.                              *)
LEMMA LostMore ==
    ASSUME lost \in [Values -> Nat], NEW F,
           lost' = [v \in Values |-> lost[v] + (IF v \in F THEN 1 ELSE 0)]
    PROVE  \A p \in LostReferences' :
               p \in LostReferences \/ \E v \in F : p = <<v, lost[v] + 1>>
<1> TAKE p \in LostReferences'
<1>1. PICK v \in Values : p \in {v} \X (1 .. lost'[v])
  BY DEF LostReferences
<1>2. PICK n \in 1 .. lost'[v] : p = <<v, n>>
  BY <1>1
<1>3. lost[v] \in Nat /\ lost'[v] = lost[v] + (IF v \in F THEN 1 ELSE 0)
  OBVIOUS
<1>4. CASE n \in 1 .. lost[v]
  <2>1. p \in {v} \X (1 .. lost[v])
    BY <1>2, <1>4
  <2> QED BY <2>1 DEF LostReferences
<1>5. CASE n \notin 1 .. lost[v]
  <2>1. v \in F /\ n = lost[v] + 1
    BY <1>2, <1>3, <1>5
  <2> QED BY <1>2, <2>1
<1> QED BY <1>4, <1>5

(* The names are those of the members, in their order.                        *)
LEMMA KeyIs ==
    ASSUME Adding, build \in Builds
    PROVE  \/ /\ build.fn = "prepare_response_object"
              /\ \/ build.at = 0 /\ Key = "jsonrpc"
                 \/ build.at = 1 /\ Key = "result"
                 \/ build.at = 2 /\ Key = "id"
           \/ /\ build.fn = "create_error_object"
              /\ \/ build.at = 0 /\ Key = "message"
                 \/ build.at = 1 /\ Key = "code"
           \/ /\ build.fn = "prepare_error_response"
              /\ \/ build.at = 0 /\ Key = "jsonrpc"
                 \/ build.at = 1 /\ Key = "error"
                 \/ build.at = 2 /\ Key = "id"
<1>1. /\ build.fn \in DOMAIN Members /\ build.at \in 0 .. 3
      /\ build.at < Len(Members[build.fn]) /\ Key = Members[build.fn][build.at + 1]
  BY MembersAre DEF Adding, Builds, Functions, Key
<1>2. CASE build.fn = "prepare_response_object"
  BY <1>1, <1>2, MembersAre
<1>3. CASE build.fn = "create_error_object"
  BY <1>1, <1>3, MembersAre
<1>4. CASE build.fn = "prepare_error_response"
  BY <1>1, <1>4, MembersAre
<1> QED BY <1>1, <1>2, <1>3, <1>4, MembersAre

(* A step that loses nothing, and either pays for what it may forget or has   *)
(* nothing to forget.                                                         *)
LEMMA LossFrame ==
    ASSUME Inv, LossInvariant, lost' = lost,
           \/ faults' = faults /\ (build'.failed => Forgotten' = {})
           \/ faults' = faults /\ build.failed /\ Forgotten' = Forgotten
           \/ faults' = faults + 1,
           build'.new # NULL =>
               build'.at = 0 \/ (build'.fn = "create_error_object" /\ build'.at = 1)
    PROVE  LossInvariant'
<1>1. LostReferences' = LostReferences
  BY DEF LostReferences
<1>2. Cardinality(LostReferences) \in Nat
  BY FS_CardinalityType DEF LossInvariant
<1> QED BY <1>1, <1>2 DEF LossInvariant

LEMMA LossStep ==
    ASSUME Inv, LossInvariant, [Next]_vars
    PROVE  LossInvariant'
<1> USE HeapAssumption
<1>1. /\ build \in Builds /\ lost \in [Values -> Nat] /\ faults \in Nat
      /\ build.new # NULL => build.at = 0 \/ (build.fn = "create_error_object" /\ build.at = 1)
      /\ build.fn = "none" => build = Idle
  BY DEF Inv, BuildInvariant, LossInvariant
<1>2. Idle.new = NULL /\ ~Idle.failed /\ Idle.fn = "none"
  BY DEF Idle
<1>3. ASSUME NEW id \in Values \cup {NULL}, NEW fn, NEW res, Begin(fn, id, res),
             faults' = faults \/ faults' = faults + 1
      PROVE  LossInvariant'
  <2>1. build'.new = NULL /\ ~build'.failed /\ lost' = lost
    BY <1>3 DEF Begin, Idle
  <2> QED BY <1>3, <2>1, LossFrame
<1>4. ASSUME NEW id \in Values \cup {NULL}, NEW res \in Values \cup {NULL}, JsonRpcReturn(id, res)
      PROVE  LossInvariant'
  BY <1>3, <1>4 DEF JsonRpcReturn
<1>5. ASSUME NEW id \in Values \cup {NULL}, ProcessError(id)
      PROVE  LossInvariant'
  BY <1>3, <1>5 DEF ProcessError, Fail
<1>6. CASE MakeObject
  <2>1. CASE New("object") /\ build' = [build EXCEPT !.obj = Fresh]
    <3>1. /\ build'.new = build.new /\ build'.at = build.at /\ build'.fn = build.fn
          /\ ~build'.failed /\ faults' = faults /\ lost' = lost
      BY <1>1, <1>6, <2>1 DEF MakeObject, New, Builds
    <3> QED BY <1>1, <3>1, LossFrame
  <2>2. CASE NoMemory /\ build' = [build EXCEPT !.failed = TRUE]
    <3>1. /\ build'.new = build.new /\ build'.at = build.at /\ build'.fn = build.fn
          /\ faults' = faults + 1 /\ lost' = lost
      BY <1>1, <1>6, <2>2 DEF MakeObject, NoMemory, Fail, Builds
    <3> QED BY <1>1, <3>1, LossFrame
  <2> QED BY <1>6, <2>1, <2>2 DEF MakeObject
<1>7. CASE MakeValue
  <2>1. CASE New("scalar") /\ build' = [build EXCEPT !.new = Fresh]
    <3>1. /\ build'.at = build.at /\ build'.fn = build.fn
          /\ ~build'.failed /\ faults' = faults /\ lost' = lost
      BY <1>1, <1>7, <2>1 DEF MakeValue, Adding, New, Builds
    <3>2. build.at = 0 \/ (build.fn = "create_error_object" /\ build.at = 1)
      BY <1>1, <1>7, KeyIs DEF MakeValue
    <3> QED BY <3>1, <3>2, LossFrame
  <2>2. CASE NoMemory /\ build' = [build EXCEPT !.failed = TRUE]
    <3>1. /\ build'.new = build.new /\ build'.at = build.at /\ build'.fn = build.fn
          /\ faults' = faults + 1 /\ lost' = lost
      BY <1>1, <1>7, <2>2 DEF MakeValue, NoMemory, Fail, Builds
    <3> QED BY <1>1, <3>1, LossFrame
  <2> QED BY <1>7, <2>1, <2>2 DEF MakeValue
<1>8. CASE AddMember
  <2> DEFINE h == JsonObjectDel(heap, build.obj, Key)
  <2>1. Add(h, build.obj, Key, Member) \/ AddFails(h)
    BY <1>8 DEF AddMember, ObjectAdd
  <2> HIDE DEF h
  <2>2. CASE AddFails(h)
    <3>1. owned' = owned /\ faults' = faults + 1
      BY <2>2 DEF AddFails, Fail
    <3>2. /\ build'.new = build.new /\ build'.at = build.at /\ build'.fn = build.fn /\ lost' = lost
      BY <1>1, <1>8, <3>1 DEF AddMember, Builds
    <3> QED BY <1>1, <3>1, <3>2, LossFrame
  <2>3. CASE Add(h, build.obj, Key, Member)
    <3>1. Member \in Values /\ owned \in [Values -> Nat]
      BY <1>8, MemberHeld DEF AddMember, Inv, Consistent
    <3>2. owned' # owned /\ faults' = faults
      BY <2>3, <3>1 DEF Add
    <3>3. build'.new = NULL /\ ~build'.failed /\ lost' = lost
      BY <1>1, <1>8, <3>2 DEF AddMember, Adding, Builds
    <3> QED BY <3>2, <3>3, LossFrame
  <2> QED BY <2>1, <2>2, <2>3
<1>9. CASE AddNull
  <2>1. /\ build' = [build EXCEPT !.failed = TRUE] /\ lost' = lost /\ faults' = faults
        /\ Adding /\ Member = NULL /\ Key \in {"result", "id"}
    BY <1>9 DEF AddNull
  <2>2. /\ build'.new = build.new /\ build'.at = build.at /\ build'.fn = build.fn
        /\ build'.id = build.id /\ build'.res = build.res
    BY <1>1, <2>1 DEF Builds
  <2>3. build.new = NULL /\ build.at \in {1, 2} /\ build.fn # "create_error_object"
    BY <1>1, <2>1, KeyIs
  <2>4. CASE build.fn = "prepare_response_object"
    <3>1. build.at < 2 => build.res = NULL
      BY <1>1, <2>1, <2>4, KeyIs DEF Member
    <3>2. Forgotten' = {}
      BY <2>2, <2>3, <2>4, <3>1 DEF Forgotten
    <3> QED BY <2>1, <2>2, <2>3, <3>2, LossFrame
  <2>5. CASE build.fn = "prepare_error_response"
    <3>1. build.id = NULL
      BY <1>1, <2>1, <2>5, KeyIs DEF Member
    <3>2. Forgotten' = {}
      BY <2>2, <2>3, <2>5, <3>1 DEF Forgotten
    <3> QED BY <2>1, <2>2, <2>3, <3>2, LossFrame
  <2> QED BY <1>1, <2>1, <2>3, <2>4, <2>5, KeyIs
<1>10. CASE Finish
  <2>1. lost' = lost /\ faults' = faults
    BY <1>10 DEF Finish
  <2>2. build'.new = NULL /\ ~build'.failed
    <3>1. CASE build.fn = "create_error_object"
      <4>1. build' = [Idle EXCEPT !.fn = "prepare_error_response", !.id = build.id,
                                  !.err = build.obj]
        BY <1>10, <3>1 DEF Finish
      <4> QED BY <4>1 DEF Idle
    <3>2. CASE build.fn # "create_error_object"
      BY <1>2, <1>10, <3>2 DEF Finish
    <3> QED BY <3>1, <3>2
  <2> QED BY <2>1, <2>2, LossFrame
<1>11. CASE PutError
  <2>1. /\ build' = [build EXCEPT !.err = NULL] /\ lost' = lost /\ faults' = faults /\ build.failed
    BY <1>11 DEF PutError, RefPut
  <2>2. /\ build'.new = build.new /\ build'.at = build.at /\ build'.fn = build.fn
        /\ build'.id = build.id /\ build'.res = build.res
    BY <1>1, <2>1 DEF Builds
  <2>3. Forgotten' = Forgotten
    BY <2>2 DEF Forgotten
  <2> QED BY <1>1, <2>1, <2>2, <2>3, LossFrame
<1>12. CASE PutObject
  <2>1. /\ build.failed /\ faults' = faults /\ build'.new = NULL /\ ~build'.failed
        /\ lost' = [v \in Values |-> lost[v] + (IF v \in Forgotten THEN 1 ELSE 0)]
    BY <1>12 DEF PutObject, RefPut, heapVars, Idle
  <2>2. PICK x, y : Forgotten \subseteq {x, y}
    BY DEF Forgotten
  <2>3. /\ IsFiniteSet(LostReferences')
        /\ Cardinality(LostReferences') <= Cardinality(LostReferences) + 2
        /\ Forgotten = {} => LostReferences' \subseteq LostReferences
    <3>1. \A p \in LostReferences' :
            p \in LostReferences \/ \E v \in Forgotten : p = <<v, lost[v] + 1>>
      BY <1>1, <2>1, LostMore
    <3>2. LostReferences' \subseteq (LostReferences \cup {<<x, lost[x] + 1>>}) \cup {<<y, lost[y] + 1>>}
      BY <2>2, <3>1
    <3>3. Forgotten = {} => LostReferences' \subseteq LostReferences
      BY <3>1
    <3>4. IsFiniteSet(LostReferences)
      BY DEF LossInvariant
    <3> DEFINE a == <<x, lost[x] + 1>>
               b == <<y, lost[y] + 1>>
    <3>5. LostReferences' \subseteq (LostReferences \cup {a}) \cup {b}
      BY <3>2
    <3> HIDE DEF a, b
    <3>6. /\ IsFiniteSet(LostReferences')
          /\ Cardinality(LostReferences') <= Cardinality(LostReferences) + 2
      BY <3>4, <3>5, TwoMore, Zenon
    <3> QED BY <3>3, <3>6
  <2>4. Cardinality(LostReferences') <= 2 * faults
    <3>1. CASE Forgotten = {}
      <4>1. /\ Cardinality(LostReferences') <= Cardinality(LostReferences)
            /\ Cardinality(LostReferences) <= 2 * faults
        BY <2>3, <3>1, FS_Subset DEF LossInvariant
      <4>2. /\ Cardinality(LostReferences') \in Nat /\ Cardinality(LostReferences) \in Nat
        BY <2>3, FS_CardinalityType DEF LossInvariant
      <4> QED BY <1>1, <4>1, <4>2
    <3>2. CASE Forgotten # {}
      <4>1. Cardinality(LostReferences) + 2 <= 2 * faults
        BY <2>1, <3>2 DEF LossInvariant
      <4>2. /\ Cardinality(LostReferences') \in Nat /\ Cardinality(LostReferences) \in Nat
        BY <2>3, FS_CardinalityType DEF LossInvariant
      <4> QED BY <1>1, <2>3, <4>1, <4>2
    <3> QED BY <3>1, <3>2
  <2> QED BY <1>1, <2>1, <2>3, <2>4 DEF LossInvariant
<1>13. CASE ClientStep
  <2>1. build' = Idle /\ lost' = lost
    BY <1>1, <1>13 DEF ClientStep
  <2>2. faults' = faults \/ faults' = faults + 1
    BY <1>13 DEF ClientStep, ClientNext, NoMemory, New, RefGet, RefPut, ArrayAdd, Add, ArrayDel,
                 ObjectDel, ObjectAdd, AddFails, Fail
  <2> QED BY <1>2, <2>1, <2>2, LossFrame
<1>14. CASE UNCHANGED vars
  <2>1. /\ build' = build /\ lost' = lost /\ faults' = faults
    BY <1>14 DEF vars
  <2>2. Forgotten' = Forgotten
    BY <2>1 DEF Forgotten
  <2> QED BY <1>1, <2>1, <2>2, LossFrame
<1> QED BY <1>4, <1>5, <1>6, <1>7, <1>8, <1>9, <1>10, <1>11, <1>12, <1>13, <1>14 DEF Next

(* No reference is lost while memory lasts, and no failed allocation loses    *)
(* more than two, counted one by one (json_rpc.c:336-351, 463-547).           *)
THEOREM LossesBounded == Spec => []LostOnlyWithoutMemory
<1>1. Init => LossInvariant
  <2> SUFFICES ASSUME Init PROVE LossInvariant
    OBVIOUS
  <2>1. build.new = NULL /\ ~build.failed /\ faults = 0
    BY DEF Init, Idle, HeapInit
  <2>2. LostReferences = {}
    <3>1. \A v \in Values : 1 .. lost[v] = {}
      BY DEF Init
    <3> QED BY <3>1 DEF LostReferences
  <2> QED BY <2>1, <2>2, FS_EmptySet DEF LossInvariant
<1>2. Inv /\ LossInvariant /\ [Next]_vars => LossInvariant'
  BY LossStep
<1>3. Inv /\ LossInvariant => LostOnlyWithoutMemory
  <2> SUFFICES ASSUME Inv, LossInvariant, NEW v \in Values PROVE lost[v] <= owned[v]
    BY DEF LossInvariant, LostOnlyWithoutMemory
  <2>1. Held(build, v) + lost[v] <= owned[v] /\ Held(build, v) \in Nat
        /\ lost[v] \in Nat /\ owned[v] \in Nat
    BY HeldIsSmall DEF Inv, BuildInvariant, LocalReferences, Consistent
  <2> QED BY <2>1
<1> QED BY <1>1, <1>2, <1>3, ResponsesInvariant, PTL DEF Spec
-----------------------------------------------------------------------------
(* That the response handed on is complete.                                   *)

(* The names the function at work has added.                                  *)
Added == {Members[build.fn][i] : i \in 1 .. build.at}

(* While nothing failed, the object has the names added so far and no other;  *)
(* the error object has its two, and once it is added it is in the object.    *)
MembersInvariant ==
    build.fn # "none" /\ ~build.failed =>
        /\ build.obj # NULL => Names(build.obj) = Added
        /\ build.fn = "prepare_error_response" =>
              /\ build.err \in Values /\ build.err # build.obj
              /\ Names(build.err) = {"message", "code"}
              /\ build.at >= 2 =>
                    \E e \in Contents(heap, build.obj) :
                        heap.entry[e].key = "error" /\ heap.entry[e].obj = build.err

LEMMA LengthsAre ==
    /\ build.fn = "prepare_response_object" => Len(Members[build.fn]) = 3
    /\ build.fn = "create_error_object" => Len(Members[build.fn]) = 2
    /\ build.fn = "prepare_error_response" => Len(Members[build.fn]) = 3
<1>1. /\ Len(<<"jsonrpc", "result", "id">>) = 3
      /\ Len(<<"message", "code">>) = 2
      /\ Len(<<"jsonrpc", "error", "id">>) = 3
  OBVIOUS
<1>2. /\ build.fn = "prepare_response_object" =>
            Members[build.fn] = <<"jsonrpc", "result", "id">>
      /\ build.fn = "create_error_object" => Members[build.fn] = <<"message", "code">>
      /\ build.fn = "prepare_error_response" =>
            Members[build.fn] = <<"jsonrpc", "error", "id">>
  BY MembersAre
<1> QED BY <1>1, <1>2, Zenon

(* The next name is a new one.                                                *)
LEMMA KeyIsNew ==
    ASSUME Adding, build \in Builds
    PROVE  Key \notin Added
<1>1. /\ build.fn \in DOMAIN Members /\ build.at \in 0 .. 3
      /\ Key = Members[build.fn][build.at + 1]
  BY MembersAre DEF Adding, Builds, Functions, Key
<1>2. CASE build.fn = "prepare_response_object"
  BY <1>1, <1>2, AddingBelowThree, MembersAre DEF Added
<1>3. CASE build.fn = "create_error_object"
  <2>1. build.at \in {0, 1}
    BY <1>3, KeyIs
  <2> QED BY <1>1, <1>3, <2>1, MembersAre DEF Added
<1>4. CASE build.fn = "prepare_error_response"
  BY <1>1, <1>4, AddingBelowThree, MembersAre DEF Added
<1> QED BY <1>1, <1>2, <1>3, <1>4, MembersAre

(* An entry added to an object without its name: one name more, and no other  *)
(* container changes.                                                         *)
LEMMA AddContents ==
    ASSUME Consistent(heap, owned), NEW c \in Values, NEW k, k \notin Names(c),
           NEW v, Add(JsonObjectDel(heap, c, k), c, k, v)
    PROVE  /\ Names(c)' = Names(c) \cup {k}
           /\ \E e \in Contents(heap', c) : heap'.entry[e].key = k /\ heap'.entry[e].obj = v
           /\ \A d : d # c => Names(d)' = Names(d)
           /\ \A e \in Contents(heap, c) : e \in Contents(heap', c) /\ heap'.entry[e] = heap.entry[e]
<1> DEFINE f == FreshEntry(heap)
<1>1. JsonObjectDel(heap, c, k) = heap
  <2>1. Named(heap, c, k) = {}
    BY DEF Named, Names
  <2> QED BY <2>1 DEF JsonObjectDel
<1>2. f \in FreeEntries(heap) /\ heap' = Linked(heap, f, c, k, v)
  BY <1>1 DEF Add, FreshEntry
<1>3. f \in Entries /\ heap.entry[f].state = "free" /\ heap.entry \in [Entries -> Entry]
  BY <1>2 DEF FreeEntries, Consistent, Heap
<1> HIDE DEF f
<1>4. /\ heap'.entry[f] = [state |-> "linked", list |-> c, obj |-> v, key |-> k]
      /\ \A e \in Entries : e # f => heap'.entry[e] = heap.entry[e]
  BY <1>2, <1>3 DEF Linked, Consistent, Heap
<1>5. Contents(heap', c) = Contents(heap, c) \cup {f}
  BY <1>3, <1>4 DEF Contents
<1>6. \A d : d # c => Contents(heap', d) = Contents(heap, d)
  BY <1>3, <1>4 DEF Contents
<1>7. \A d : f \notin Contents(heap, d) /\ Contents(heap, d) \subseteq Entries
  BY <1>3 DEF Contents
<1>8. Names(c)' = Names(c) \cup {k}
  BY <1>4, <1>5, <1>7 DEF Names
<1>9. \A d : d # c => Names(d)' = Names(d)
  BY <1>4, <1>6, <1>7 DEF Names
<1> QED BY <1>4, <1>5, <1>7, <1>8, <1>9

(* A step that leaves the entries and what was added alone.                   *)
LEMMA MembersFrame ==
    ASSUME MembersInvariant, heap'.entry = heap.entry,
           build'.fn = build.fn, build'.at = build.at, build'.obj = build.obj,
           build'.err = build.err, build'.failed = build.failed
    PROVE  MembersInvariant'
<1>1. \A c : Contents(heap', c) = Contents(heap, c) /\ Names(c)' = Names(c)
  BY DEF Contents, Names
<1>2. Added' = Added
  BY DEF Added, Members
<1> QED BY <1>1, <1>2 DEF MembersInvariant

LEMMA MembersStep ==
    ASSUME Inv, MembersInvariant, [Next]_vars
    PROVE  MembersInvariant'
<1> USE HeapAssumption
<1>1. /\ build \in Builds /\ Consistent(heap, owned)
      /\ build.fn = "none" => build = Idle
      /\ build.obj = NULL => build.at = 0
  BY DEF Inv, BuildInvariant
<1>2. Idle.fn = "none" /\ Idle.obj = NULL /\ Idle.at = 0
  BY DEF Idle
<1>4. ASSUME NEW id \in Values \cup {NULL}, NEW res \in Values \cup {NULL}, JsonRpcReturn(id, res)
      PROVE  MembersInvariant'
  BY <1>4 DEF JsonRpcReturn, Begin, Idle, MembersInvariant
<1>5. ASSUME NEW id \in Values \cup {NULL}, ProcessError(id)
      PROVE  MembersInvariant'
  BY <1>5 DEF ProcessError, Begin, Idle, MembersInvariant
<1>6. CASE MakeObject
  <2>1. CASE New("object") /\ build' = [build EXCEPT !.obj = Fresh]
    <3>1. /\ build'.obj = Fresh /\ build'.at = 0 /\ build'.fn = build.fn
          /\ build'.err = build.err /\ ~build.failed /\ ~build'.failed
          /\ build.fn # "none"
      BY <1>1, <1>6, <2>1 DEF MakeObject, Builds
    <3>2. Fresh \in Free /\ heap'.entry = heap.entry
      BY <2>1 DEF New, Fresh, Created
    <3>3. \A c : Contents(heap', c) = Contents(heap, c) /\ Names(c)' = Names(c)
      BY <3>2 DEF Contents, Names
    <3>4. Names(Fresh) = {}
      BY <1>1, <3>2 DEF Names, Contents, Free, Consistent
    <3>5. Added' = {}
      BY <3>1 DEF Added
    <3>6. build.fn = "prepare_error_response" => build.err # Fresh
      <4> SUFFICES ASSUME build.fn = "prepare_error_response" PROVE build.err # Fresh
        OBVIOUS
      <4>1. build.err \in Values /\ build.at = 0
        BY <1>1, <1>6, <3>1 DEF MembersInvariant, MakeObject
      <4>2. Held(build, build.err) > 0
        BY <1>1, <4>1, HeldIsSmall
      <4>3. /\ Held(build, build.err) + lost[build.err] <= owned[build.err]
            /\ Held(build, build.err) \in Nat /\ lost[build.err] \in Nat
            /\ owned[build.err] \in Nat
        BY <1>1, <4>1, HeldIsSmall DEF Inv, BuildInvariant, LocalReferences, Consistent
      <4>4. build.err \in Live(heap)
        BY <1>1, <4>1, <4>2, <4>3 DEF Consistent
      <4> QED BY <3>2, <4>4 DEF Free
    <3> QED BY <3>1, <3>3, <3>4, <3>5, <3>6 DEF MembersInvariant
  <2>2. CASE build' = [build EXCEPT !.failed = TRUE]
    BY <1>1, <2>2 DEF MembersInvariant, Builds
  <2> QED BY <1>6, <2>1, <2>2 DEF MakeObject
<1>7. CASE MakeValue
  <2>1. CASE New("scalar") /\ build' = [build EXCEPT !.new = Fresh]
    <3>1. heap'.entry = heap.entry
      BY <2>1 DEF New, Created
    <3> QED BY <1>1, <2>1, <3>1, MembersFrame DEF Builds
  <2>2. CASE build' = [build EXCEPT !.failed = TRUE]
    BY <1>1, <2>2 DEF MembersInvariant, Builds
  <2> QED BY <1>7, <2>1, <2>2 DEF MakeValue
<1>8. CASE AddMember
  <2>1. /\ Adding /\ Member # NULL /\ build.obj \in Values
        /\ build.fn # "none" /\ ~build.failed /\ build.at \in 0 .. 3
    BY <1>1, <1>8, MemberHeld DEF AddMember, Adding, Builds
  <2>2. CASE owned' = owned
    <3>1. build' = [build EXCEPT !.failed = TRUE]
      BY <1>8, <2>2 DEF AddMember
    <3> QED BY <1>1, <3>1 DEF MembersInvariant, Builds
  <2>3. CASE owned' # owned
    <3>1. build' = [build EXCEPT !.at = @ + 1, !.new = NULL]
      BY <1>8, <2>3 DEF AddMember
    <3>2. /\ build'.at = build.at + 1 /\ build'.fn = build.fn /\ build'.obj = build.obj
          /\ build'.err = build.err /\ ~build'.failed
      BY <1>1, <2>1, <3>1 DEF Builds
    <3>3. Names(build.obj) = Added /\ Key \notin Added
      BY <1>1, <2>1, KeyIsNew DEF MembersInvariant, Adding
    <3>4. Add(JsonObjectDel(heap, build.obj, Key), build.obj, Key, Member)
      BY <1>8, <2>3 DEF AddMember, ObjectAdd, AddFails
    <3>5. /\ \A c : c = build.obj => Names(c)' = Names(c) \cup {Key}
          /\ \E e \in Contents(heap', build.obj) :
                heap'.entry[e].key = Key /\ heap'.entry[e].obj = Member
          /\ \A d : d # build.obj => Names(d)' = Names(d)
          /\ \A e \in Contents(heap, build.obj) :
                e \in Contents(heap', build.obj) /\ heap'.entry[e] = heap.entry[e]
      BY <1>1, <2>1, <3>3, <3>4, AddContents
    <3>6. Added' = Added \cup {Key}
      BY <2>1, <3>2 DEF Added, Key, Members
    <3>7. Names(build.obj)' = Names(build.obj) \cup {Key}
      BY <3>2, <3>5 DEF Names
    <3>8. CASE build.fn = "prepare_error_response"
      <4>1. /\ build.err \in Values /\ build.err # build.obj
            /\ Names(build.err) = {"message", "code"}
        BY <2>1, <3>8 DEF MembersInvariant
      <4>2. Names(build.err)' = {"message", "code"}
        BY <3>2, <3>5, <4>1 DEF Names
      <4>3. build'.at >= 2 =>
                \E e \in Contents(heap', build.obj) :
                    heap'.entry[e].key = "error" /\ heap'.entry[e].obj = build.err
        <5>1. CASE build.at = 1
          <6>1. Key = "error"
            BY <1>1, <2>1, <3>8, <5>1, KeyIs
          <6> QED BY <3>5, <6>1 DEF Member
        <5>2. CASE build.at >= 2
          BY <2>1, <3>5, <3>8, <5>2 DEF MembersInvariant
        <5> QED BY <2>1, <3>2, <5>1, <5>2
      <4> QED BY <3>2, <3>3, <3>6, <3>7, <3>8, <4>1, <4>2, <4>3 DEF MembersInvariant
    <3>9. CASE build.fn # "prepare_error_response"
      BY <3>2, <3>3, <3>6, <3>7, <3>9 DEF MembersInvariant
    <3> QED BY <3>8, <3>9
  <2> QED BY <2>2, <2>3
<1>9. CASE AddNull
  BY <1>1, <1>9 DEF AddNull, MembersInvariant, Builds
<1>10. CASE Finish
  <2>1. CASE build.fn = "create_error_object"
    <3>1. /\ build' = [Idle EXCEPT !.fn = "prepare_error_response", !.id = build.id,
                                  !.err = build.obj]
          /\ heap' = heap /\ build.obj # NULL /\ ~build.failed /\ build.at = 2
      BY <1>10, <2>1, LengthsAre DEF Finish
    <3>2. /\ build'.fn = "prepare_error_response" /\ build'.err = build.obj
          /\ build'.obj = NULL /\ build'.at = 0
      BY <3>1 DEF Idle
    <3>3. Added = {"message", "code"} /\ Names(build.obj) = Added
      BY <2>1, <3>1, MembersAre DEF Added, MembersInvariant
    <3>4. Names(build.err)' = {"message", "code"}
      BY <3>1, <3>2, <3>3 DEF Names
    <3>5. build.obj \in Values
      BY <1>1, <3>1 DEF Builds
    <3> QED BY <3>1, <3>2, <3>4, <3>5 DEF MembersInvariant
  <2>2. CASE build.fn # "create_error_object"
    <3>1. build' = Idle
      BY <1>10, <2>2 DEF Finish
    <3> QED BY <1>2, <3>1 DEF MembersInvariant
  <2> QED BY <2>1, <2>2
<1>11. CASE PutError
  BY <1>1, <1>11 DEF PutError, MembersInvariant, Builds
<1>12. CASE PutObject
  <2>1. \/ build' = [Idle EXCEPT !.fn = "create_error_object", !.id = build.id]
        \/ build' = Idle
    BY <1>12 DEF PutObject
  <2>2. build'.obj = NULL /\ build'.fn # "prepare_error_response"
    <3>1. CASE build' = Idle
      BY <3>1 DEF Idle
    <3>2. CASE build' = [Idle EXCEPT !.fn = "create_error_object", !.id = build.id]
      BY <3>2 DEF Idle
    <3> QED BY <2>1, <3>1, <3>2
  <2> QED BY <2>2 DEF MembersInvariant
<1>13. CASE ClientStep
  BY <1>1, <1>2, <1>13 DEF ClientStep, MembersInvariant
<1>14. CASE UNCHANGED vars
  BY <1>14, MembersFrame DEF vars
<1> QED BY <1>4, <1>5, <1>6, <1>7, <1>8, <1>9, <1>10, <1>11, <1>12, <1>13, <1>14 DEF Next

(* A response is handed on only complete: with the version, the id, and       *)
(* either a result or an error that has its message and its code, whatever    *)
(* allocation failed on the way (json_rpc.c:336-351, 463-547).                *)
THEOREM ResponsesAreComplete == Spec => ResponsesComplete
<1>1. Init => MembersInvariant
  BY DEF Init, Idle, MembersInvariant
<1>2. Inv /\ MembersInvariant /\ [Next]_vars => MembersInvariant'
  BY MembersStep
<1>3. Inv /\ MembersInvariant /\ [Next]_vars =>
          (returned' # NULL /\ returned' # returned =>
               \/ Names(returned') = {"jsonrpc", "result", "id"}
               \/ /\ Names(returned') = {"jsonrpc", "error", "id"}
                  /\ \E e \in Contents(heap, returned') :
                        /\ heap.entry[e].key = "error"
                        /\ Names(heap.entry[e].obj) = {"message", "code"})
  <2> SUFFICES ASSUME Inv, MembersInvariant, [Next]_vars, returned' # NULL, returned' # returned
               PROVE  \/ Names(returned') = {"jsonrpc", "result", "id"}
                      \/ /\ Names(returned') = {"jsonrpc", "error", "id"}
                         /\ \E e \in Contents(heap, returned') :
                               /\ heap.entry[e].key = "error"
                               /\ Names(heap.entry[e].obj) = {"message", "code"}
    OBVIOUS
  <2>1. Finish
    BY DEF Next, vars, JsonRpcReturn, ProcessError, Begin, MakeObject, MakeValue, AddMember,
           AddNull, PutError, PutObject, ClientStep
  <2>2. /\ build.fn # "create_error_object" /\ returned' = build.obj /\ build.obj # NULL
        /\ build.fn # "none" /\ ~build.failed /\ build.at = Len(Members[build.fn])
    BY <2>1 DEF Finish
  <2>3. build.fn \in {"prepare_response_object", "prepare_error_response"}
    BY <2>2 DEF Inv, BuildInvariant, Builds, Functions
  <2>4. Names(returned') = Added
    BY <2>2 DEF MembersInvariant
  <2>5. CASE build.fn = "prepare_response_object"
    <3>1. build.at = 3
      BY <2>2, <2>5, LengthsAre
    <3>2. Added = {"jsonrpc", "result", "id"}
      BY <2>5, <3>1, MembersAre DEF Added
    <3> QED BY <2>4, <3>2
  <2>6. CASE build.fn = "prepare_error_response"
    <3>1. build.at = 3
      BY <2>2, <2>6, LengthsAre
    <3>2. Added = {"jsonrpc", "error", "id"}
      BY <2>6, <3>1, MembersAre DEF Added
    <3> QED BY <2>2, <2>4, <2>6, <3>1, <3>2 DEF MembersInvariant
  <2> QED BY <2>3, <2>5, <2>6
<1> QED BY <1>1, <1>2, <1>3, ResponsesInvariant, PTL DEF Spec, ResponsesComplete
=============================================================================
