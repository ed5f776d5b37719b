--------------------------- MODULE FlatMapProofs ----------------------------
(***************************************************************************)
(* Theorems about FlatMap, for all sets of keys and values.                *)
(***************************************************************************)
EXTENDS FlatMap, TLAPS

Element == [key : Key, val : Val]

Typed ==
  /\ vec \in Seq(Element)
  /\ sorted \in 0 .. Len(vec)
  /\ guard \in BOOLEAN /\ (~guard => sorted = Len(vec))
  /\ panicked \in BOOLEAN /\ careless \in BOOLEAN /\ added \subseteq Key

Inv == Typed /\ PrefixSorted

LEMMA KeysAreIntegers ==
  ASSUME NEW v \in Seq(Element), NEW i \in 1 .. Len(v)
  PROVE  v[i] \in Element /\ v[i].key \in Key /\ v[i].key \in Int
<1>1. v[i] \in Element
  OBVIOUS
<1> QED BY <1>1, KeyAssumption DEF Element

LEMMA InitInv == FInit => Inv
<1> SUFFICES ASSUME FInit PROVE Inv
  OBVIOUS
<1>1. /\ vec = << >> /\ sorted = 0 /\ guard = FALSE /\ panicked = FALSE
      /\ added = {} /\ careless = FALSE
  BY DEF FInit
<1>2. vec \in Seq(Element) /\ Len(vec) = 0
  BY <1>1
<1>3. Typed
  <2>1. sorted \in 0 .. Len(vec) /\ sorted = Len(vec)
    BY <1>1, <1>2
  <2> QED BY <1>1, <1>2, <2>1, Zenon DEF Typed
<1>4. PrefixSorted
  BY <1>1 DEF PrefixSorted
<1> QED BY <1>3, <1>4 DEF Inv

(* What may be found is an index of the key. *)
LEMMA GetImplFinds ==
  ASSUME Typed, NEW k \in Key, NEW i \in GetImpl(k)
  PROVE  i \in 1 .. Len(vec) /\ vec[i].key = k
  BY DEF Typed, GetImpl, GetImplIf

LEMMA PushInv ==
  ASSUME Inv, NEW e \in Element, Push(e), guard' = guard, guard,
         panicked' \in BOOLEAN, careless' \in BOOLEAN
  PROVE  Inv'
<1>1. /\ vec' \in Seq(Element) /\ Len(vec') = Len(vec) + 1
      /\ \A i \in 1 .. Len(vec) : vec'[i] = vec[i]
      /\ vec'[Len(vec) + 1] = e
  BY DEF Push, Inv, Typed
<1>4. added' \subseteq Key
  BY DEF Push, Inv, Typed, Element
<1>2. CASE sorted' = sorted
  BY <1>1, <1>2, <1>4 DEF Inv, Typed, PrefixSorted
<1>3. CASE sorted' # sorted
  <2>1. sorted = Len(vec) /\ (vec = << >> \/ vec[Len(vec)].key < e.key)
          /\ sorted' = sorted + 1
    BY <1>3 DEF Push, Inv, Typed
  <2>2. Typed'
    BY <1>1, <1>4, <2>1 DEF Inv, Typed
  <2>3. \A i \in 1 .. Len(vec) : vec[i].key <= e.key
    <3> SUFFICES ASSUME NEW i \in 1 .. Len(vec) PROVE vec[i].key <= e.key
      OBVIOUS
    <3>1. Len(vec) \in 1 .. Len(vec) /\ vec # << >>
      BY DEF Inv, Typed
    <3>2. vec[i].key \in Int /\ vec[Len(vec)].key \in Int /\ e.key \in Int
      BY <3>1, KeysAreIntegers, KeyAssumption DEF Inv, Typed, Element
    <3>3. i = Len(vec) \/ vec[i].key <= vec[Len(vec)].key
      BY <2>1, <3>1 DEF Inv, Typed, PrefixSorted
    <3> QED BY <2>1, <3>1, <3>2, <3>3
  <2>4. PrefixSorted'
    BY <1>1, <2>1, <2>3 DEF Inv, Typed, PrefixSorted
  <2> QED BY <2>2, <2>4 DEF Inv
<1> QED BY <1>2, <1>3

(* Only a careless use makes careless true. *)
LEMMA LooksForTyped ==
  ASSUME Inv, NEW k \in Key, LooksFor(k)
  PROVE  /\ guard /\ guard' = guard
         /\ panicked' = panicked /\ panicked' \in BOOLEAN /\ careless' \in BOOLEAN
<1>1. careless' = (careless \/ (Behind /\ k \in added))
  BY DEF LooksFor
<1>2. careless' \in BOOLEAN
  BY <1>1, Zenon
<1> QED BY <1>2 DEF LooksFor, Inv, Typed

LEMMA NextInv == Inv /\ [FNext]_fvars => Inv'
<1> SUFFICES ASSUME Inv, [FNext]_fvars PROVE Inv'
  OBVIOUS
<1> USE KeyAssumption
<1>1. ASSUME NEW s \in Input, FromVec(s) PROVE Inv'
  <2>1. vec' \in Seq(Element) /\ Increasing(vec')
    BY <1>1, DedupAssumption DEF FromVec, Element
  <2>2. sorted' = Len(vec') /\ UNCHANGED <<guard, panicked, added, careless>>
    BY <1>1 DEF FromVec, history
  <2>3. Typed'
    BY <2>1, <2>2, KeysAreIntegers DEF Inv, Typed
  <2>4. PrefixSorted'
    BY <2>1, <2>2, KeysAreIntegers DEF PrefixSorted, Increasing
  <2> QED BY <2>3, <2>4 DEF Inv
<1>2. ASSUME NEW k \in Key, NEW v \in Val, Insert(k, v) PROVE Inv'
  <2>a. /\ guard /\ guard' = guard
        /\ panicked' = panicked /\ panicked' \in BOOLEAN /\ careless' \in BOOLEAN
    BY <1>2, LooksForTyped DEF Insert
  <2>1. CASE GetImpl(k) = {}
    <3>1. Push(Elem(k, v))
      BY <1>2, <2>1 DEF Insert
    <3>2. Elem(k, v) \in Element /\ Elem(k, v).key = k
      BY DEF Elem, Element
    <3> QED BY <2>a, <3>1, <3>2, PushInv
  <2>2. CASE GetImpl(k) # {}
    <3>1. PICK i \in GetImpl(k) :
            vec' = [vec EXCEPT ![i] = Elem(k, v)] /\ sorted' = sorted /\ added' = added
      BY <1>2, <2>2 DEF Insert
    <3>3. i \in 1 .. Len(vec) /\ vec[i].key = k
      BY GetImplFinds DEF Inv
    <3>4. Elem(k, v) \in Element /\ Elem(k, v).key = k
      BY DEF Elem, Element
    <3> QED BY <2>a, <3>1, <3>3, <3>4 DEF Inv, Typed, PrefixSorted, Element
  <2> QED BY <2>1, <2>2
<1>3. ASSUME NEW k \in Key, NEW v \in Val, TryInsert(k, v) PROVE Inv'
  <2>a. /\ guard /\ guard' = guard
        /\ panicked' = panicked /\ panicked' \in BOOLEAN /\ careless' \in BOOLEAN
    BY <1>3, LooksForTyped DEF TryInsert
  <2>2. CASE GetImpl(k) = {}
    <3>1. Elem(k, v) \in Element /\ Elem(k, v).key = k
      BY DEF Elem, Element
    <3>2. Push(Elem(k, v))
      BY <1>3, <2>2 DEF TryInsert
    <3> QED BY <2>a, <3>1, <3>2, PushInv
  <2>3. CASE GetImpl(k) # {}
    <3>1. vec' = vec /\ sorted' = sorted /\ added' = added
      BY <1>3, <2>3 DEF TryInsert
    <3> QED BY <2>a, <3>1 DEF Inv, Typed, PrefixSorted
  <2> QED BY <2>2, <2>3
<1>4. ASSUME NEW k \in Key, Remove(k) PROVE Inv'
  <2>1. /\ guard /\ guard' = guard /\ added' = added
        /\ panicked' \in BOOLEAN /\ careless' \in BOOLEAN
    <3>1. CASE LooksFor(k) /\ added' = added
      BY <3>1, LooksForTyped
    <3>2. CASE ~(LooksFor(k) /\ added' = added)
      <4>1. /\ guard /\ guard' = guard /\ added' = added
            /\ careless' = (careless \/ Behind)
            /\ panicked' = panicked \/ panicked' = TRUE
        BY <1>4, <3>2 DEF Remove
      <4>2. careless' \in BOOLEAN
        BY <4>1, Zenon
      <4> QED BY <4>1, <4>2 DEF Inv, Typed
    <3> QED BY <3>1, <3>2
  <2>2. CASE vec' = vec /\ sorted' = sorted
    BY <2>1, <2>2 DEF Inv, Typed, PrefixSorted
  <2>3. ASSUME NEW i \in GetImpl(k), i <= sorted, RemoveAt(i) PROVE Inv'
    <3>1. i \in 1 .. Len(vec)
      BY GetImplFinds DEF Inv
    <3> DEFINE w == [vec EXCEPT ![i] = vec[sorted]]
    <3>a. vec[sorted] \in Element
      BY <2>3, <3>1, KeysAreIntegers DEF Inv, Typed
    <3>2. w \in Seq(Element) /\ Len(w) = Len(vec) /\ \A j \in 1 .. i - 1 : w[j] = vec[j]
      BY <3>1, <3>a DEF Inv, Typed
    <3>3. vec' = SubSeq(w, 1, Len(vec) - 1) /\ sorted' = i - 1
      BY <2>3 DEF RemoveAt, RemoveAtTo
    <3> HIDE DEF w
    <3>4. /\ vec' \in Seq(Element) /\ Len(vec') = Len(vec) - 1
          /\ \A j \in 1 .. i - 1 : vec'[j] = vec[j]
      BY <3>1, <3>2, <3>3 DEF Inv, Typed
    <3>8. Typed'
      BY <2>1, <2>3, <3>1, <3>3, <3>4 DEF Inv, Typed
    <3>9. PrefixSorted'
      <4> SUFFICES ASSUME NEW a \in 1 .. i - 1, NEW b \in 1 .. i - 1, a < b
                   PROVE  vec'[a].key <= vec'[b].key
        BY <3>3 DEF PrefixSorted
      <4>1. a \in 1 .. sorted /\ b \in 1 .. sorted
        BY <2>3, <3>1 DEF Inv, Typed
      <4>2. vec'[a] = vec[a] /\ vec'[b] = vec[b]
        BY <3>4
      <4> QED BY <4>1, <4>2 DEF Inv, PrefixSorted
    <3> QED BY <3>8, <3>9 DEF Inv
  <2> QED BY <1>4, <2>2, <2>3 DEF Remove
<1>5. ASSUME NEW k \in Key, GuardGet(k) PROVE Inv'
  <2>1. vec' = vec /\ sorted' = sorted /\ added' = added
    BY <1>5 DEF GuardGet
  <2>2. guard' = guard /\ panicked' \in BOOLEAN /\ careless' \in BOOLEAN
    BY <1>5, LooksForTyped DEF GuardGet
  <2> QED BY <2>1, <2>2 DEF Inv, Typed, PrefixSorted
<1>6. ASSUME NEW k \in Key, Get(k) PROVE Inv'
  <2>1. UNCHANGED <<vec, sorted, guard, panicked, added, careless>>
    BY <1>6 DEF Get, history
  <2> QED BY <2>1 DEF Inv, Typed, PrefixSorted
<1>7. CASE Edit
  BY <1>7 DEF Edit, Inv, Typed, PrefixSorted
<1>8. CASE Drop
  <2>1. PICK p \in Perm(1 .. Len(vec)) : DropSorting(p)
    BY <1>8 DEF Drop
  <2>2. \A i \in 1 .. Len(vec) : p[i] \in 1 .. Len(vec)
    BY DEF Perm
  <2>3. /\ vec' = [i \in 1 .. Len(vec) |-> vec[p[i]]]
        /\ \A i, j \in 1 .. Len(vec) : i < j => vec[p[i]].key <= vec[p[j]].key
        /\ sorted' = Len(vec) /\ guard' = FALSE /\ UNCHANGED <<panicked, added, careless>>
    BY <2>1 DEF DropSorting, history
  <2>4. vec' \in Seq(Element) /\ Len(vec') = Len(vec)
    BY <2>2, <2>3 DEF Inv, Typed
  <2>5. sorted' \in 0 .. Len(vec') /\ sorted' = Len(vec')
    BY <2>3, <2>4 DEF Inv, Typed
  <2>8. Typed'
    BY <2>3, <2>4, <2>5, Zenon DEF Inv, Typed
  <2>9. PrefixSorted'
    BY <2>2, <2>3, <2>4 DEF Inv, Typed, PrefixSorted
  <2> QED BY <2>8, <2>9 DEF Inv
<1>9. CASE Forget
  <2>1. /\ vec' = SubSeq(vec, 1, sorted) /\ sorted' = sorted /\ guard' = FALSE
        /\ UNCHANGED <<panicked, added, careless>>
    BY <1>9 DEF Forget, history
  <2>2. /\ vec' \in Seq(Element) /\ Len(vec') = sorted
        /\ \A j \in 1 .. sorted : vec'[j] = vec[j]
    BY <2>1 DEF Inv, Typed
  <2>3. sorted' \in 0 .. Len(vec') /\ sorted' = Len(vec')
    BY <2>1, <2>2 DEF Inv, Typed
  <2>8. Typed'
    BY <2>1, <2>2, <2>3, Zenon DEF Inv, Typed
  <2>9. PrefixSorted'
    BY <2>1, <2>2 DEF Inv, Typed, PrefixSorted
  <2> QED BY <2>8, <2>9 DEF Inv
<1>10. CASE Clear
  BY <1>10 DEF Clear, history, Inv, Typed, PrefixSorted
<1>11. CASE UNCHANGED fvars
  BY <1>11 DEF fvars, Inv, Typed, PrefixSorted
<1> QED BY <1>1, <1>2, <1>3, <1>4, <1>5, <1>6, <1>7, <1>8, <1>9, <1>10, <1>11 DEF FNext

LEMMA Invariance == FSpec => []Inv
  BY InitInv, NextInv, PTL DEF FSpec

(* However its guard is used, a FlatMap whose guard is forgotten is in     *)
(* order (flatmap.rs:68-69), and without a guard it always is.             *)
THEOREM SortedIfForgotten == FSpec => []PrefixSorted
  BY Invariance, PTL DEF Inv
-----------------------------------------------------------------------------
(* What lies behind the prefix and was not put there by this guard has     *)
(* keys above all of the prefix, so that the binary search misses nothing  *)
(* but what the guard has added.                                           *)
TailAbove ==
  \A j \in sorted + 1 .. Len(vec) :
    vec[j].key \notin added => \A i \in 1 .. sorted : vec[i].key < vec[j].key

Unique == KeysUnique /\ NeverPanics /\ (guard => TailAbove)

(* A key that is looked for with care is found if it is there. *)
LEMMA NothingMissed ==
  ASSUME Inv, KeysUnique, guard, TailAbove, NEW k \in Key, ~(Behind /\ k \in added),
         NEW j \in 1 .. Len(vec), vec[j].key = k
  PROVE  GetImpl(k) # {}
<1>1. CASE j \in 1 .. sorted
  BY <1>1 DEF GetImpl, GetImplIf
<1>2. CASE j \in sorted + 1 .. Len(vec)
  <2> DEFINE tail == {i \in sorted + 1 .. Len(vec) : vec[i].key = k}
  <2>1. tail = {j}
    BY <1>2 DEF KeysUnique, Inv, Typed
  <2>a. k \notin added
    BY <1>2 DEF Behind, Inv, Typed
  <2>2. \A i \in 1 .. sorted : vec[i].key < k
    BY <1>2, <2>a DEF TailAbove
  <2>3. j \in {i \in tail : \A l \in tail : i <= l}
    BY <2>1
  <2> QED BY <2>2, <2>3 DEF GetImpl, GetImplIf
<1> QED BY <1>1, <1>2 DEF Inv, Typed

LEMMA PushUnique ==
  ASSUME Inv, Unique, guard, NEW e \in Element, Push(e), ~(Behind /\ e.key \in added),
         guard' = guard, panicked' = panicked, GetImpl(e.key) = {}
  PROVE  Unique'
<1>1. /\ vec' \in Seq(Element) /\ Len(vec') = Len(vec) + 1
      /\ \A i \in 1 .. Len(vec) : vec'[i] = vec[i]
      /\ vec'[Len(vec) + 1] = e
      /\ added' = added \cup {e.key}
  BY DEF Push, Inv, Typed
<1>2. e.key \in Key
  BY DEF Element
<1>3. \A j \in 1 .. Len(vec) : vec[j].key # e.key
  BY <1>2, NothingMissed DEF Unique
<1>4. KeysUnique'
  BY <1>1, <1>3 DEF Unique, KeysUnique, Inv, Typed
<1>5. TailAbove'
  <2>1. CASE sorted' = sorted
    <3> SUFFICES ASSUME NEW b \in sorted + 1 .. Len(vec) + 1, vec'[b].key \notin added',
                        NEW a \in 1 .. sorted
                 PROVE  vec'[a].key < vec'[b].key
      BY <1>1, <2>1 DEF TailAbove
    <3>1. b # Len(vec) + 1
      BY <1>1
    <3>2. b \in sorted + 1 .. Len(vec) /\ b \in 1 .. Len(vec) /\ a \in 1 .. Len(vec)
      BY <3>1 DEF Inv, Typed
    <3>3. vec'[b] = vec[b] /\ vec'[a] = vec[a] /\ vec[b].key \notin added
      BY <1>1, <3>2
    <3> QED BY <3>2, <3>3 DEF Unique, TailAbove
  <2>2. CASE sorted' = sorted + 1 /\ sorted = Len(vec)
    BY <1>1, <2>2 DEF TailAbove, Inv, Typed
  <2> QED BY <2>1, <2>2 DEF Push, Inv, Typed
<1> QED BY <1>4, <1>5 DEF Unique, NeverPanics

(* Where nothing is behind the prefix, removing an element leaves keys     *)
(* behind it that are above it.                                            *)
LEMMA RemoveUnique ==
  ASSUME Inv, Unique, sorted = Len(vec), NEW i \in 1 .. Len(vec),
         RemoveAt(i), panicked' = panicked
  PROVE  Unique'
<1> DEFINE n == Len(vec)
           w == [vec EXCEPT ![i] = vec[sorted]]
<1>1. n \in Nat /\ i \in 1 .. n /\ sorted = n /\ vec[n] \in Element
  BY KeysAreIntegers DEF Inv, Typed
<1>2. /\ w \in Seq(Element) /\ Len(w) = n /\ w[i] = vec[n]
      /\ \A j \in 1 .. n : j # i => w[j] = vec[j]
  BY <1>1 DEF Inv, Typed
<1>3. vec' = SubSeq(w, 1, n - 1) /\ sorted' = i - 1
  BY DEF RemoveAt, RemoveAtTo
<1> HIDE DEF w
<1>4. Len(vec') = n - 1 /\ \A j \in 1 .. n - 1 : vec'[j] = w[j]
  BY <1>1, <1>2, <1>3
<1>5. \A a, b \in 1 .. n : a < b => vec[a].key < vec[b].key
  <2> SUFFICES ASSUME NEW a \in 1 .. n, NEW b \in 1 .. n, a < b
               PROVE  vec[a].key < vec[b].key
    OBVIOUS
  <2>1. vec[a].key <= vec[b].key
    BY <1>1 DEF Inv, PrefixSorted
  <2>2. vec[a].key # vec[b].key
    BY DEF Unique, KeysUnique
  <2>3. vec[a].key \in Int /\ vec[b].key \in Int
    BY KeysAreIntegers DEF Inv, Typed
  <2> QED BY <2>1, <2>2, <2>3
<1>6. KeysUnique'
  <2> SUFFICES ASSUME NEW a \in 1 .. n - 1, NEW b \in 1 .. n - 1,
                      vec'[a].key = vec'[b].key
               PROVE  a = b
    BY <1>4 DEF KeysUnique
  <2>1. vec'[a] = (IF a = i THEN vec[n] ELSE vec[a])
    BY <1>1, <1>2, <1>4
  <2>2. vec'[b] = (IF b = i THEN vec[n] ELSE vec[b])
    BY <1>1, <1>2, <1>4
  <2> QED BY <1>1, <2>1, <2>2 DEF Unique, KeysUnique
<1>7. TailAbove'
  <2> SUFFICES ASSUME NEW b \in i .. n - 1, NEW a \in 1 .. i - 1
               PROVE  vec'[a].key < vec'[b].key
    BY <1>1, <1>3, <1>4 DEF TailAbove
  <2>1. vec'[a] = vec[a] /\ a < i
    BY <1>1, <1>2, <1>4
  <2>2. vec'[b] = (IF b = i THEN vec[n] ELSE vec[b])
    BY <1>1, <1>2, <1>4
  <2> QED BY <1>1, <1>5, <2>1, <2>2
<1> QED BY <1>6, <1>7 DEF Unique, NeverPanics

LEMMA NextUnique ==
  ASSUME Inv, ~careless => Unique, [FNext]_fvars
  PROVE  ~careless' => Unique'
<1> SUFFICES ASSUME ~careless' PROVE Unique'
  OBVIOUS
<1> USE KeyAssumption
<1>1. ~careless
  <2>1. ASSUME NEW k \in Key, LooksFor(k) PROVE ~careless
    BY <2>1, Zenon DEF LooksFor
  <2>2. ASSUME NEW k \in Key, Remove(k) PROVE ~careless
    <3>1. LooksFor(k) \/ careless' = (careless \/ Behind)
      BY <2>2 DEF Remove
    <3> QED BY <2>1, <3>1, Zenon
  <2>3. ASSUME careless' = careless PROVE ~careless
    BY <2>3
  <2>4. ASSUME NEW k \in Key, NEW v \in Val, Insert(k, v) \/ TryInsert(k, v) PROVE LooksFor(k)
    BY <2>4 DEF Insert, TryInsert
  <2>5. ASSUME NEW k \in Key, GuardGet(k) PROVE LooksFor(k)
    BY <2>5 DEF GuardGet
  <2>6. ASSUME \/ \E s \in Input : FromVec(s)
               \/ \E k \in Key : Get(k)
               \/ Edit \/ Drop \/ Forget \/ Clear \/ UNCHANGED fvars
        PROVE  careless' = careless
    BY <2>6 DEF FromVec, Get, Edit, Drop, DropSorting, Forget, Clear, fvars, history
  <2> QED BY <2>1, <2>2, <2>3, <2>4, <2>5, <2>6 DEF FNext
<1>u. Unique
  BY <1>1
<1>2. ASSUME NEW k \in Key, LooksFor(k)
      PROVE  /\ ~(Behind /\ k \in added) /\ guard /\ guard' = guard
             /\ panicked' = panicked
  <2>1. careless' = (careless \/ (Behind /\ k \in added))
    BY <1>2 DEF LooksFor
  <2>2. ~(Behind /\ k \in added)
    BY <2>1, Zenon
  <2> QED BY <1>2, <2>2 DEF LooksFor
<1>3. ASSUME vec' = vec, sorted' = sorted, panicked' = panicked, guard' = guard,
             added' = added
      PROVE  Unique'
  BY <1>u, <1>3 DEF Unique, KeysUnique, NeverPanics, TailAbove
<1>4. ASSUME NEW s \in Input, FromVec(s) PROVE Unique'
  <2>1. vec' \in Seq(Element) /\ Increasing(vec')
    BY <1>4, DedupAssumption DEF FromVec, Element
  <2>2. ~guard' /\ panicked' = panicked
    BY <1>4 DEF FromVec
  <2>3. KeysUnique'
    <3> SUFFICES ASSUME NEW a \in 1 .. Len(vec'), NEW b \in 1 .. Len(vec'), a < b
                 PROVE  vec'[a].key # vec'[b].key
      BY <2>1 DEF KeysUnique
    <3>1. vec'[a].key < vec'[b].key
      BY <2>1 DEF Increasing
    <3>2. vec'[a].key \in Int /\ vec'[b].key \in Int
      BY <2>1, KeysAreIntegers
    <3> QED BY <3>1, <3>2
  <2> QED BY <1>u, <2>2, <2>3 DEF Unique, NeverPanics
<1>5. ASSUME NEW k \in Key, NEW v \in Val, Insert(k, v) PROVE Unique'
  <2>1. Elem(k, v) \in Element /\ Elem(k, v).key = k
    BY DEF Elem, Element
  <2>2. /\ ~(Behind /\ k \in added) /\ guard /\ guard' = guard
        /\ panicked' = panicked
    BY <1>2, <1>5 DEF Insert
  <2>3. CASE GetImpl(k) = {}
    BY <1>u, <1>5, <2>1, <2>2, <2>3, PushUnique DEF Insert
  <2>4. CASE GetImpl(k) # {}
    <3>1. PICK i \in GetImpl(k) :
            vec' = [vec EXCEPT ![i] = Elem(k, v)] /\ sorted' = sorted /\ added' = added
      BY <1>5, <2>4 DEF Insert
    <3>2. i \in 1 .. Len(vec) /\ vec[i].key = k
      BY GetImplFinds DEF Inv
    <3>3. Len(vec') = Len(vec) /\ \A j \in 1 .. Len(vec) : vec'[j].key = vec[j].key
      BY <2>1, <3>1, <3>2 DEF Inv, Typed
    <3>4. KeysUnique'
      BY <1>u, <3>3 DEF Unique, KeysUnique
    <3>5. TailAbove'
      <4>1. \A b \in sorted + 1 .. Len(vec) : b \in 1 .. Len(vec)
        BY DEF Inv, Typed
      <4>2. \A a \in 1 .. sorted : a \in 1 .. Len(vec)
        BY DEF Inv, Typed
      <4>3. TailAbove
        BY <1>u, <2>2 DEF Unique
      <4> QED BY <3>1, <3>3, <4>1, <4>2, <4>3 DEF TailAbove
    <3> QED BY <1>u, <2>2, <3>4, <3>5 DEF Unique, NeverPanics
  <2> QED BY <2>3, <2>4
<1>6. ASSUME NEW k \in Key, NEW v \in Val, TryInsert(k, v) PROVE Unique'
  <2>1. Elem(k, v) \in Element /\ Elem(k, v).key = k
    BY DEF Elem, Element
  <2>2. /\ ~(Behind /\ k \in added) /\ guard /\ guard' = guard
        /\ panicked' = panicked
    BY <1>2, <1>6 DEF TryInsert
  <2>3. CASE GetImpl(k) = {}
    BY <1>u, <1>6, <2>1, <2>2, <2>3, PushUnique DEF TryInsert
  <2>4. CASE GetImpl(k) # {}
    BY <1>3, <1>6, <2>2, <2>4 DEF TryInsert
  <2> QED BY <2>3, <2>4
<1>7. ASSUME NEW k \in Key, Remove(k) PROVE Unique'
  <2>1. CASE LooksFor(k) /\ UNCHANGED <<vec, sorted, added>>
    BY <1>2, <1>3, <2>1
  <2>2. CASE ~(LooksFor(k) /\ UNCHANGED <<vec, sorted, added>>)
    <3>1. careless' = (careless \/ Behind)
      BY <1>7, <2>2 DEF Remove
    <3>2. sorted = Len(vec)
      <4>1. ~Behind
        BY <3>1, Zenon
      <4> QED BY <4>1 DEF Behind, Inv, Typed
    <3>3. PICK i \in GetImpl(k) :
            IF i <= sorted THEN RemoveAt(i) /\ panicked' = panicked ELSE panicked' = TRUE
      BY <1>7, <2>2 DEF Remove
    <3>4. i \in 1 .. Len(vec)
      BY GetImplFinds DEF Inv
    <3>5. RemoveAt(i) /\ panicked' = panicked
      BY <3>2, <3>3, <3>4 DEF Inv, Typed
    <3> QED BY <1>u, <3>2, <3>4, <3>5, RemoveUnique
  <2> QED BY <2>1, <2>2
<1>8. ASSUME NEW k \in Key, Get(k) PROVE Unique'
  BY <1>3, <1>8 DEF Get, history
<1>9. ASSUME NEW k \in Key, GuardGet(k) PROVE Unique'
  BY <1>2, <1>3, <1>9 DEF GuardGet
<1>10. CASE Edit
  <2>1. sorted = Len(vec) /\ vec' = vec /\ sorted' = sorted /\ panicked' = panicked
    BY <1>10 DEF Edit, Inv, Typed
  <2>2. TailAbove'
    BY <2>1 DEF TailAbove, Inv, Typed
  <2> QED BY <1>u, <2>1, <2>2 DEF Unique, KeysUnique, NeverPanics
<1>11. CASE Drop
  <2>1. PICK p \in Perm(1 .. Len(vec)) : DropSorting(p)
    BY <1>11 DEF Drop
  <2>2. /\ vec' = [i \in 1 .. Len(vec) |-> vec[p[i]]]
        /\ ~guard' /\ panicked' = panicked
    BY <2>1 DEF DropSorting
  <2>3. \A i \in 1 .. Len(vec) : p[i] \in 1 .. Len(vec)
    BY DEF Perm
  <2>4. \A i, j \in 1 .. Len(vec) : p[i] = p[j] => i = j
    BY DEF Perm
  <2>5. Len(vec') = Len(vec)
    BY <2>2 DEF Inv, Typed
  <2>6. KeysUnique'
    BY <1>u, <2>2, <2>3, <2>4, <2>5 DEF Unique, KeysUnique
  <2> QED BY <1>u, <2>2, <2>6 DEF Unique, NeverPanics
<1>12. CASE Forget
  <2>1. vec' = SubSeq(vec, 1, sorted) /\ ~guard' /\ panicked' = panicked
    BY <1>12 DEF Forget
  <2>2. Len(vec') = sorted /\ \A j \in 1 .. sorted : vec'[j] = vec[j]
    BY <2>1 DEF Inv, Typed
  <2>3. KeysUnique'
    BY <1>u, <2>2 DEF Unique, KeysUnique, Inv, Typed
  <2> QED BY <1>u, <2>1, <2>3 DEF Unique, NeverPanics
<1>13. CASE Clear
  <2>1. vec' = << >> /\ sorted' = 0 /\ Len(vec') = 0 /\ panicked' = panicked
    BY <1>13 DEF Clear
  <2> QED BY <1>u, <2>1 DEF Unique, KeysUnique, NeverPanics, TailAbove
<1>14. CASE UNCHANGED fvars
  BY <1>3, <1>14 DEF fvars
<1> QED BY <1>4, <1>5, <1>6, <1>7, <1>8, <1>9, <1>10, <1>11, <1>12, <1>13, <1>14 DEF FNext

(* Whatever is done with guards, until one of them looks again for a key   *)
(* that it has added, or removes, while something is behind the sorted     *)
(* prefix, a FlatMap has every key once, as neither insert nor from_vec    *)
(* makes a second one (flatmap.rs:131-147, 235-265), and remove finds what *)
(* it looks for in the part of the vector that swap_remove works on        *)
(* (flatmap.rs:266-275).                                                   *)
THEOREM CarefulIsSound == FSpec => []MapSound
<1>1. FInit => (~careless => Unique)
  BY DEF FInit, Unique, KeysUnique, NeverPanics
<1>2. Inv /\ (~careless => Unique) /\ [FNext]_fvars => (~careless => Unique)'
  BY NextUnique
<1>3. Inv /\ (~careless => Unique) => MapSound
  BY DEF Inv, Typed, Element, Unique, MapSound, FTypeOK
<1> QED BY <1>1, <1>2, <1>3, Invariance, PTL DEF FSpec
=============================================================================
