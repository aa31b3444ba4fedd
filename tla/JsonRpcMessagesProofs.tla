------------------------ MODULE JsonRpcMessagesProofs ------------------------
(* Lemmas about the messages of JsonRpcMessages: json_equals on ids is an     *)
(* equivalence as far as the library needs it, get_id finds the ids of a      *)
(* batch in their order, and the calls of a document that are answered.       *)
EXTENDS JsonRpcMessages, Integers, FiniteSetTheorems, FunctionTheorems, SequenceTheorems,
        WellFoundedInduction, TLAPS

-----------------------------------------------------------------------------
(* json_equals on ids.                                                        *)

(* What get_id returns: not an array, or an array that is a list; and an      *)
(* array without repetitions.                                                 *)
IsId(a) == a.type = "array" => IsList(a.elems)

Distinct(a) ==
    a.type = "array" => \A k, l \in DOMAIN a.elems : a.elems[k] = a.elems[l] => k = l

LEMMA IdReflexive == ASSUME NEW a PROVE IdEquals(a, a)
BY DEF IdEquals

LEMMA IdTransitive ==
    ASSUME NEW a, NEW b, NEW c, IdEquals(a, b), IdEquals(b, c)
    PROVE  IdEquals(a, c)
<1>1. CASE a.type = "array"
  <2>1. /\ b.type = "array" /\ Len(a.elems) = Len(b.elems)
        /\ \A k \in DOMAIN a.elems : \E l \in DOMAIN b.elems : a.elems[k] = b.elems[l]
    BY <1>1 DEF IdEquals
  <2>2. /\ c.type = "array" /\ Len(b.elems) = Len(c.elems)
        /\ \A k \in DOMAIN b.elems : \E l \in DOMAIN c.elems : b.elems[k] = c.elems[l]
    BY <2>1 DEF IdEquals
  <2>3. \A k \in DOMAIN a.elems : \E l \in DOMAIN c.elems : a.elems[k] = c.elems[l]
    BY <2>1, <2>2
  <2> QED BY <1>1, <2>1, <2>2, <2>3 DEF IdEquals
<1>2. CASE a.type # "array"
  BY <1>2 DEF IdEquals
<1> QED BY <1>1, <1>2

(* When the first array has no repetitions its elements are all of those of   *)
(* the second: then json_equals is symmetric.                                 *)
LEMMA IdSymmetric ==
    ASSUME NEW a, NEW b, IsId(a), IsId(b), Distinct(a), IdEquals(a, b)
    PROVE  IdEquals(b, a)
<1>1. CASE a.type = "array"
  <2> DEFINE n == Len(a.elems)
             f == [k \in 1 .. n |-> CHOOSE l \in 1 .. n : a.elems[k] = b.elems[l]]
  <2>1. /\ b.type = "array" /\ Len(b.elems) = n /\ n \in Nat
        /\ DOMAIN a.elems = 1 .. n /\ DOMAIN b.elems = 1 .. n
        /\ \A k \in 1 .. n : \E l \in 1 .. n : a.elems[k] = b.elems[l]
    BY <1>1 DEF IdEquals, IsId, IsList
  <2>2. \A k \in 1 .. n : f[k] \in 1 .. n /\ a.elems[k] = b.elems[f[k]]
    BY <2>1
  <2>3. f \in [1 .. n -> 1 .. n]
    BY <2>2
  <2> HIDE DEF f, n
  <2>4. ASSUME NEW k \in 1 .. n, NEW l \in 1 .. n, f[k] = f[l] PROVE k = l
    <3>1. a.elems[k] = a.elems[l]
      BY <2>2, <2>4
    <3> QED BY <1>1, <2>1, <3>1 DEF Distinct
  <2>5. f \in Injection(1 .. n, 1 .. n)
    BY <2>3, <2>4, Fun_IsInj
  <2>6. f \in Surjection(1 .. n, 1 .. n)
    BY <2>1, <2>5, FS_Interval, FS_Injection
  <2>7. \A l \in 1 .. n : \E k \in 1 .. n : f[k] = l
    BY <2>6 DEF Surjection
  <2>8. ASSUME NEW l \in 1 .. n PROVE \E k \in 1 .. n : b.elems[l] = a.elems[k]
    <3>1. PICK k \in 1 .. n : f[k] = l
      BY <2>7
    <3> QED BY <2>2, <3>1
  <2>9. \A l \in DOMAIN b.elems : \E k \in DOMAIN a.elems : b.elems[l] = a.elems[k]
    BY <2>1, <2>8
  <2>10. Len(b.elems) = Len(a.elems)
    BY <2>1 DEF n
  <2> QED BY <1>1, <2>1, <2>9, <2>10 DEF IdEquals
<1>2. CASE a.type # "array"
  BY <1>2 DEF IdEquals
<1> QED BY <1>1, <1>2

-----------------------------------------------------------------------------
(* get_id.                                                                    *)

(* As many numbers as a set has, each the number of those up to it.           *)
LEMMA RankIs ==
    ASSUME NEW S \in SUBSET Nat, IsFiniteSet(S)
    PROVE  [k \in S |-> Cardinality({l \in S : l <= k})] \in Bijection(S, 1 .. Cardinality(S))
<1> DEFINE n == Cardinality(S)
           upTo(k) == {l \in S : l <= k}
           rank == [k \in S |-> Cardinality(upTo(k))]
<1>1. n \in Nat
  BY FS_CardinalityType
<1>2. ASSUME NEW k \in S
      PROVE  IsFiniteSet(upTo(k)) /\ rank[k] = Cardinality(upTo(k)) /\ rank[k] \in 1 .. n
  <2>1. /\ upTo(k) \in SUBSET S /\ k \in upTo(k)
    OBVIOUS
  <2>2. IsFiniteSet(upTo(k)) /\ Cardinality(upTo(k)) <= n
    BY <2>1, FS_Subset
  <2>3. Cardinality(upTo(k)) \in Nat /\ Cardinality(upTo(k)) # 0
    BY <2>1, <2>2, FS_CardinalityType, FS_EmptySet
  <2> QED BY <1>1, <2>2, <2>3
<1>3. ASSUME NEW k \in S, NEW l \in S, k < l PROVE rank[k] < rank[l]
  <2>1. upTo(k) \in SUBSET upTo(l) /\ l \in upTo(l) /\ l \notin upTo(k)
    <3>1. \A m \in S : m <= k => m <= l
      <4> TAKE m \in S
      <4>1. m \in Nat /\ k \in Nat /\ l \in Nat
        OBVIOUS
      <4> QED BY <1>3, <4>1
    <3>2. l <= l /\ ~(l <= k)
      <4>1. k \in Nat /\ l \in Nat
        OBVIOUS
      <4> QED BY <1>3, <4>1
    <3> QED BY <3>1, <3>2
  <2>2. /\ Cardinality(upTo(k)) <= Cardinality(upTo(l))
        /\ Cardinality(upTo(k)) # Cardinality(upTo(l))
    <3> HIDE DEF upTo
    <3> QED BY <1>2, <2>1, FS_Subset
  <2> QED BY <1>2, <2>2
<1> HIDE DEF upTo
<1>4. rank \in [S -> 1 .. n]
  BY <1>2
<1>5. \A k, l \in S : rank[k] = rank[l] => k = l
  <2> SUFFICES ASSUME NEW k \in S, NEW l \in S, k # l PROVE rank[k] # rank[l]
    OBVIOUS
  <2>1. k < l \/ l < k
    OBVIOUS
  <2>2. rank[k] < rank[l] \/ rank[l] < rank[k]
    BY <1>3, <2>1
  <2> QED BY <1>4, <2>2
<1> HIDE DEF rank, n
<1>6. rank \in Injection(S, 1 .. n)
  BY <1>4, <1>5, Fun_IsInj
<1>7. IsFiniteSet(1 .. n) /\ Cardinality(1 .. n) = n
  BY <1>1, FS_Interval
<1>8. rank \in Surjection(S, 1 .. n)
  BY <1>6, <1>7, FS_Injection DEF n
<1> QED BY <1>6, <1>8 DEF Bijection, rank, n, upTo

(* The numbers of a finite set can be enumerated in increasing order.         *)
LEMMA IncreasingIs ==
    ASSUME NEW S \in SUBSET Nat, IsFiniteSet(S)
    PROVE  /\ Increasing(S) \in [1 .. Cardinality(S) -> S]
           /\ \A p, q \in 1 .. Cardinality(S) : p < q => Increasing(S)[p] < Increasing(S)[q]
           /\ \A k \in S : \E p \in 1 .. Cardinality(S) : Increasing(S)[p] = k
<1> DEFINE n == Cardinality(S)
           rank == [k \in S |-> Cardinality({l \in S : l <= k})]
           f == [p \in 1 .. n |-> CHOOSE k \in S : rank[k] = p]
           Ascends(g) == \A p, q \in DOMAIN g : p < q => g[p] < g[q]
<1>1. n \in Nat
  BY FS_CardinalityType
<1>2. rank \in Surjection(S, 1 .. n)
  BY RankIs DEF Bijection
<1>3. \A p \in 1 .. n : \E k \in S : rank[k] = p
  BY <1>2 DEF Surjection
<1>4. \A p \in 1 .. n : f[p] \in S /\ rank[f[p]] = p
  BY <1>3
<1>5. ASSUME NEW k \in S, NEW l \in S, k <= l PROVE rank[k] <= rank[l]
  <2>1. /\ {m \in S : m <= k} \in SUBSET {m \in S : m <= l}
        /\ {m \in S : m <= l} \in SUBSET S
    <3>1. \A m \in S : m <= k => m <= l
      <4> TAKE m \in S
      <4>1. m \in Nat /\ k \in Nat /\ l \in Nat
        OBVIOUS
      <4> QED BY <1>5, <4>1
    <3> QED BY <3>1
  <2>2. IsFiniteSet({m \in S : m <= l})
    BY <2>1, FS_Subset
  <2>3. Cardinality({m \in S : m <= k}) <= Cardinality({m \in S : m <= l})
    BY <2>1, <2>2, FS_Subset
  <2> QED BY <2>3
<1> HIDE DEF rank, n
<1>6. f \in [1 .. n -> S] /\ Ascends(f)
  <2>1. f \in [1 .. n -> S]
    BY <1>4
  <2>2. ASSUME NEW p \in 1 .. n, NEW q \in 1 .. n, p < q PROVE f[p] < f[q]
    <3>1. f[p] \in S /\ f[q] \in S /\ rank[f[p]] = p /\ rank[f[q]] = q
      BY <1>4
    <3> HIDE DEF f
    <3>2. p \in Nat /\ q \in Nat
      BY <1>1
    <3>4. f[p] \in Nat /\ f[q] \in Nat
      BY <3>1
    <3>3. f[q] <= f[p] => q <= p
      BY <1>5, <3>1
    <3> QED BY <2>2, <3>2, <3>3, <3>4
  <2> HIDE DEF f
  <2>3. DOMAIN f = 1 .. n
    BY <2>1
  <2> QED BY <2>1, <2>2, <2>3
<1> HIDE DEF f
<1> DEFINE g == Increasing(S)
<1>7. g \in [1 .. n -> S] /\ Ascends(g)
  BY <1>6 DEF Increasing, n
<1>8. \A p, q \in 1 .. n : p < q => g[p] < g[q]
  BY <1>7
<1>9. g \in Injection(1 .. n, S)
  <2>1. \A p, q \in 1 .. n : g[p] = g[q] => p = q
    <3> SUFFICES ASSUME NEW p \in 1 .. n, NEW q \in 1 .. n, p # q PROVE g[p] # g[q]
      OBVIOUS
    <3>1. p < q \/ q < p
      BY <1>1
    <3>2. g[p] < g[q] \/ g[q] < g[p]
      BY <1>8, <3>1
    <3>3. g[p] \in Nat /\ g[q] \in Nat
      BY <1>7
    <3> QED BY <3>2, <3>3
  <2>2. g \in [1 .. n -> S]
    BY <1>7
  <2> HIDE DEF g
  <2> QED BY <2>1, <2>2, Fun_IsInj
<1>10. IsFiniteSet(1 .. n) /\ Cardinality(1 .. n) = n
  BY <1>1, FS_Interval
<1>11. g \in Surjection(1 .. n, S)
  BY <1>9, <1>10, FS_Injection DEF n
<1> QED BY <1>7, <1>8, <1>11 DEF Surjection, n

(* The id of a batch has the id of each element that has one, once.           *)
LEMMA BatchId ==
    ASSUME NEW x, NEW L, x.type = "array", IsList(Elements(x)), HaveIds(x, L) # {}
    PROVE  LET id == GetIdWithout(x, L)
               n == Cardinality(HaveIds(x, L))
           IN  /\ id.type = "array" /\ id # Absent
               /\ n \in Nat /\ Len(id.elems) = n /\ DOMAIN id.elems = 1 .. n
               /\ \E f \in [1 .. n -> HaveIds(x, L)] :
                     /\ \A p \in 1 .. n : id.elems[p] = Member(x.elems[f[p]], "id")
                     /\ \A p, q \in 1 .. n : p < q => f[p] < f[q]
                     /\ \A k \in HaveIds(x, L) : \E p \in 1 .. n : f[p] = k
<1> DEFINE S == HaveIds(x, L)
           n == Cardinality(S)
           f == Increasing(S)
           es == [p \in 1 .. n |-> Member(x.elems[f[p]], "id")]
<1>1. S \in SUBSET Nat /\ IsFiniteSet(S)
  <2>1. S \in SUBSET (1 .. Len(Elements(x))) /\ Len(Elements(x)) \in Nat
    BY DEF HaveIds, IsList
  <2>2. IsFiniteSet(1 .. Len(Elements(x)))
    BY <2>1, FS_Interval
  <2>3. IsFiniteSet(S)
    BY <2>1, <2>2, FS_Subset
  <2> QED BY <2>1, <2>3
<1>2. n \in Nat
  BY <1>1, FS_CardinalityType
<1>3. /\ f \in [1 .. n -> S]
      /\ \A p, q \in 1 .. n : p < q => f[p] < f[q]
      /\ \A k \in S : \E p \in 1 .. n : f[p] = k
  BY <1>1, IncreasingIs
<1>4. DOMAIN f = 1 .. n
  BY <1>3
<1>5. GetIdWithout(x, L) = Arr(es)
  BY <1>4 DEF GetIdWithout
<1> HIDE DEF f, n, S
<1>6. DOMAIN es = 1 .. n /\ Len(es) = n /\ \A p \in 1 .. n : es[p] = Member(x.elems[f[p]], "id")
  BY <1>2
<1> HIDE DEF es
<1>7. Arr(es).type = "array" /\ Arr(es).elems = es /\ Arr(es) # Absent
  BY DEF Arr, Absent
<1> QED BY <1>2, <1>3, <1>5, <1>6, <1>7 DEF S, n

(* What get_id returns of any message is an id: in particular the ids of a    *)
(* batch are a list.                                                          *)
LEMMA GetIdIsId ==
    ASSUME NEW x, NEW L, IsList(Elements(x)),
           x.type = "object" => IsId(Member(x, "id"))
    PROVE  IsId(GetIdWithout(x, L))
<1>1. CASE x.type = "object"
  BY <1>1 DEF GetIdWithout, IsId
<1>2. CASE x.type = "array" /\ HaveIds(x, L) # {}
  BY <1>2, BatchId DEF IsId, IsList
<1>3. CASE x.type # "object" /\ ~(x.type = "array" /\ HaveIds(x, L) # {})
  BY <1>3 DEF GetIdWithout, IsId, Absent
<1> QED BY <1>1, <1>2, <1>3
-----------------------------------------------------------------------------
(* Lists of callbacks.                                                        *)

(* The first entry of those that match.                                       *)
LEMMA LeastExists ==
    ASSUME NEW M \in SUBSET Nat, M # {}
    PROVE  \E p \in M : \A q \in M : p <= q
<1> DEFINE R == {ss \in Nat \X Nat : ss[1] < ss[2]}
<1>1. IsWellFoundedOn(R, Nat)
  BY NatLessThanWellFounded DEF OpToRel
<1>2. \A p, q \in Nat : q < p => <<q, p>> \in R
  OBVIOUS
<1> HIDE DEF R
<1>3. PICK p \in M : \A q \in M : ~(<<q, p>> \in R)
  BY <1>1, WFMin
<1>4. ASSUME NEW q \in M PROVE p <= q
  <2>1. p \in Nat /\ q \in Nat
    OBVIOUS
  <2>2. ~(q < p)
    BY <1>2, <1>3, <2>1, Zenon
  <2> QED BY <2>1, <2>2
<1> QED BY <1>4

(* A new entry at the head moves the others by one.                           *)
LEMMA HeadAdded ==
    ASSUME NEW S, NEW s \in Seq(S), NEW e \in S, NEW t, t = <<e>> \o s
    PROVE  /\ t \in Seq(S) /\ Len(t) = Len(s) + 1
           /\ t[1] = e
           /\ \A p \in 1 .. Len(s) : t[p + 1] = s[p]
           /\ \A p \in 2 .. Len(t) : t[p] = s[p - 1]
<1>1. <<e>> \in Seq(S) /\ Len(<<e>>) = 1 /\ <<e>>[1] = e
  OBVIOUS
<1>2. /\ t \in Seq(S) /\ Len(t) = Len(s) + 1
      /\ \A p \in 1 .. Len(s) + 1 : t[p] = IF p <= 1 THEN <<e>>[p] ELSE s[p - 1]
  BY <1>1, ConcatProperties
<1> QED BY <1>1, <1>2

(* A list loses its last entry.                                               *)
LEMMA LastRemoved ==
    ASSUME NEW S, NEW s \in Seq(S)
    PROVE  SubSeq(s, 1, Len(s) - 1) \in Seq(S)
<1>1. \A q \in 1 .. Len(s) - 1 : s[q] \in S
  BY ElementOfSeq
<1>2. Len(s) - 1 \in Int
  BY LenProperties
<1> QED BY <1>1, <1>2, SubSeqProperties

(* A list without one entry has the others, in their order.                   *)
LEMMA ListWithout ==
    ASSUME NEW S, NEW s \in Seq(S), NEW p \in 1 .. Len(s)
    PROVE  LET t == SubSeq(s, 1, p - 1) \o SubSeq(s, p + 1, Len(s))
           IN  /\ t \in Seq(S)
               /\ Len(t) = Len(s) - 1
               /\ \A q \in 1 .. Len(s) - 1 : t[q] = IF q < p THEN s[q] ELSE s[q + 1]
<1> DEFINE a == SubSeq(s, 1, p - 1)
           b == SubSeq(s, p + 1, Len(s))
<1>1. \A q \in 1 .. Len(s) : s[q] \in S
  BY ElementOfSeq
<1>2. a \in Seq(S) /\ Len(a) = p - 1 /\ \A q \in 1 .. p - 1 : a[q] = s[q]
  BY <1>1, SubSeqProperties
<1>3. b \in Seq(S) /\ Len(b) = Len(s) - p /\ \A q \in 1 .. Len(s) - p : b[q] = s[q + p]
  <2>1. p + 1 \in Int /\ Len(s) \in Int /\ \A q \in p + 1 .. Len(s) : s[q] \in S
    BY <1>1
  <2>2. /\ b \in Seq(S)
        /\ Len(b) = IF p + 1 <= Len(s) THEN Len(s) - (p + 1) + 1 ELSE 0
        /\ \A q \in 1 .. Len(s) - (p + 1) + 1 : b[q] = s[p + 1 + q - 1]
    BY <2>1, SubSeqProperties
  <2> QED BY <2>2
<1> HIDE DEF a, b
<1>4. /\ a \o b \in Seq(S) /\ Len(a \o b) = Len(s) - 1
      /\ \A q \in 1 .. Len(s) - 1 : (a \o b)[q] = IF q <= p - 1 THEN a[q] ELSE b[q - (p - 1)]
  <2>1. /\ a \o b \in Seq(S) /\ Len(a \o b) = Len(a) + Len(b)
        /\ \A q \in 1 .. Len(a) + Len(b) : (a \o b)[q] = IF q <= Len(a) THEN a[q] ELSE b[q - Len(a)]
    <3>1. a \in Seq(S) /\ b \in Seq(S)
      BY <1>2, <1>3
    <3> QED BY <3>1, ConcatProperties, Zenon
  <2>2. Len(a) = p - 1 /\ Len(a) + Len(b) = Len(s) - 1
    BY <1>2, <1>3
  <2> QED BY <2>1, <2>2
<1>5. \A q \in 1 .. Len(s) - 1 : (a \o b)[q] = IF q < p THEN s[q] ELSE s[q + 1]
  <2> SUFFICES ASSUME NEW q \in 1 .. Len(s) - 1
               PROVE  (a \o b)[q] = IF q < p THEN s[q] ELSE s[q + 1]
    OBVIOUS
  <2>1. Len(s) \in Nat /\ p \in Nat /\ q \in Nat
    OBVIOUS
  <2>2. (a \o b)[q] = IF q <= p - 1 THEN a[q] ELSE b[q - (p - 1)]
    BY <1>4
  <2>3. CASE q < p
    <3>1. q <= p - 1 /\ q \in 1 .. p - 1
      BY <2>1, <2>3
    <3>2. a[q] = s[q]
      BY <3>1, <1>2
    <3> QED BY <2>2, <2>3, <3>1, <3>2, Zenon
  <2>4. CASE ~(q < p)
    <3>1. /\ ~(q <= p - 1) /\ q - (p - 1) \in 1 .. Len(s) - p
          /\ (q - (p - 1)) + p = q + 1
      BY <2>1, <2>4
    <3>2. b[q - (p - 1)] = s[(q - (p - 1)) + p]
      BY <3>1, <1>3, Zenon
    <3> QED BY <2>2, <2>4, <3>1, <3>2, Zenon
  <2> QED BY <2>3, <2>4
<1> QED BY <1>4, <1>5 DEF a, b
=============================================================================
