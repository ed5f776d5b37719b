--------------------------- MODULE HandlersProofs ---------------------------
(***************************************************************************)
(* Proofs about the handler table, for any set of handlers and any number  *)
(* of messages.                                                            *)
(***************************************************************************)
EXTENDS Handlers, SequenceTheorems, TLAPS

Called == [h : Handler, id : Nat, yields : BOOLEAN, breaks : BOOLEAN]

(* swap_remove of a valid index gives a table that is one shorter.         *)
LEMMA SwapRemoveType ==
  ASSUME NEW S, NEW s \in Seq(S), NEW k \in 1 .. Len(s)
  PROVE  /\ SwapRemove(s, k) \in Seq(S)
         /\ Len(SwapRemove(s, k)) = Len(s) - 1
         /\ DOMAIN SwapRemove(s, k) = 1 .. Len(s) - 1
         /\ \A n \in 1 .. Len(s) - 1 :
              SwapRemove(s, k)[n] = IF n = k THEN s[Len(s)] ELSE s[n]
<1> DEFINE m == Len(s) - 1
           f == [n \in 1 .. m |-> IF n = k THEN s[Len(s)] ELSE s[n]]
<1>1. m \in Nat /\ Len(s) \in 1 .. Len(s)
  BY LenProperties
<1>2. \A n \in 1 .. m : (IF n = k THEN s[Len(s)] ELSE s[n]) \in S
  BY <1>1, ElementOfSeq
<1>3. f \in [1 .. m -> S]
  BY <1>2
<1> HIDE DEF m
<1>4. f \in Seq(S) /\ Len(f) = m
  BY <1>1, <1>3
<1>5. SwapRemove(s, k) = f
  BY DEF SwapRemove, m
<1> QED
  BY <1>4, <1>5 DEF m

(* A prefix of a vector.                                                   *)
LEMMA PrefixType ==
  ASSUME NEW S, NEW s \in Seq(S), NEW n \in Nat, n <= Len(s)
  PROVE  /\ SubSeq(s, 1, n) \in Seq(S)
         /\ Len(SubSeq(s, 1, n)) = n
         /\ \A j \in 1 .. n : SubSeq(s, 1, n)[j] = s[j]
<1>1. SubSeq(s, 1, n) \in Seq(S)
  OBVIOUS
<1>2. Len(SubSeq(s, 1, n)) = n
  OBVIOUS
<1>3. ASSUME NEW j \in 1 .. n PROVE SubSeq(s, 1, n)[j] = s[j]
  OBVIOUS
<1> QED
  BY <1>1, <1>2, <1>3

(* What is left after pop of a non-empty vector.                           *)
LEMMA DropLastType ==
  ASSUME NEW S, NEW s \in Seq(S), s # << >>
  PROVE  /\ DropLast(s) \in Seq(S)
         /\ Len(DropLast(s)) = Len(s) - 1
         /\ \A j \in 1 .. Len(s) - 1 : DropLast(s)[j] = s[j]
<1> DEFINE n == Len(s) - 1
<1>1. n \in Nat /\ n <= Len(s)
  BY EmptySeq
<1>2. DropLast(s) = SubSeq(s, 1, n)
  BY DEF DropLast
<1> HIDE DEF n
<1>3. /\ DropLast(s) \in Seq(S)
      /\ Len(DropLast(s)) = n
      /\ \A j \in 1 .. n : DropLast(s)[j] = s[j]
  BY <1>1, <1>2, PrefixType
<1> QED
  BY <1>3 DEF n

(* The id that `add` gives is a natural number.                            *)
LEMMA NewIdType == TypeOK => NewId \in Nat
BY ElementOfSeq, EmptySeq, LenProperties DEF TypeOK, NewId

(* The initial table is well typed.                                        *)
LEMMA InitType == Init => TypeOK
<1> SUFFICES ASSUME Init PROVE TypeOK
  OBVIOUS
<1>1. handlers \in Seq(Entry) /\ yielded \in Seq(Nat) /\ finished \in Seq(Nat)
  BY DEF Init
<1>2. log \in Seq(Called)
  BY DEF Init
<1>3. /\ wants_owning \in BOOLEAN
      /\ pc = "idle"
      /\ i = 1
      /\ finished_at = 0
      /\ present = {}
  BY DEF Init
<1> QED
  BY <1>1, <1>2, <1>3 DEF TypeOK, Called

(* Every operation of the table, and every step of `handle`, keeps the     *)
(* types; the loop index stays within one of the end of the table.         *)
LEMMA NextType == TypeOK /\ [Next]_vars => TypeOK'
<1> SUFFICES ASSUME TypeOK, [Next]_vars PROVE TypeOK'
  OBVIOUS
<1>0. /\ Len(handlers) \in Nat
      /\ DOMAIN handlers = 1 .. Len(handlers)
      /\ \A k \in 1 .. Len(handlers) : handlers[k] \in Entry
  BY LenProperties, ElementOfSeq DEF TypeOK
<1>1. ASSUME NEW h \in Handler, NEW owning \in BOOLEAN, Add(h, owning)
      PROVE  TypeOK'
  <2>1. [h |-> h, id |-> NewId, owning |-> owning] \in Entry
    BY NewIdType DEF Entry
  <2>2. handlers' \in Seq(Entry)
    BY <1>1, <2>1, AppendProperties DEF TypeOK, Add, AddSetting
  <2>3. finished' \in Seq(Nat)
    BY <1>1, EmptySeq, DropLastType DEF TypeOK, Add, AddSetting
  <2> QED
    BY <1>1, <2>2, <2>3 DEF TypeOK, Add, AddSetting
<1>2. ASSUME NEW k \in DOMAIN handlers, CancelOne(k)
      PROVE  TypeOK'
  <2>1. handlers' \in Seq(Entry)
    BY <1>0, <1>2, SwapRemoveType DEF TypeOK, CancelOne
  <2>2. finished' \in Seq(Nat)
    BY <1>0, <1>2, AppendProperties DEF TypeOK, CancelOne, Entry
  <2> QED
    BY <1>2, <2>1, <2>2 DEF TypeOK, CancelOne
<1>3. CASE Cancel
  BY <1>3, EmptySeq DEF TypeOK, Cancel
<1>4. CASE HandleBegin
  <2>1. Len(finished) \in Nat
    BY LenProperties DEF TypeOK
  <2>2. present' \in SUBSET (Handler \X Nat)
    BY <1>0, <1>4 DEF HandleBegin, HandleBeginWith, Entry
  <2>3. yielded' \in Seq(Nat)
    BY <1>4 DEF HandleBegin, HandleBeginWith
  <2>4. /\ i' = 1 /\ pc' = "handling" /\ wants_owning' \in BOOLEAN
        /\ finished_at' = Len(finished)
        /\ UNCHANGED <<handlers, finished, log>>
    BY <1>4 DEF HandleBegin, HandleBeginWith
  <2>5. i' \in 1 .. Len(handlers') + 1
    BY <1>0, <2>4
  <2>6. /\ handlers' \in Seq(Entry) /\ finished' \in Seq(Nat)
        /\ log' \in Seq(Called)
    BY <2>4 DEF TypeOK, Called
  <2> QED
    BY <2>1, <2>2, <2>3, <2>4, <2>5, <2>6 DEF TypeOK, Called
<1>5. ASSUME NEW yields \in BOOLEAN, NEW breaks \in BOOLEAN,
             Call(yields, breaks)
      PROVE  /\ yielded' \in Seq(Nat)
             /\ log' \in Seq(Called)
             /\ i \in 1 .. Len(handlers)
  <2>1. i \in 1 .. Len(handlers)
    BY <1>0, <1>5 DEF Call, TypeOK
  <2>2. handlers[i].id \in Nat /\ handlers[i].h \in Handler
    BY <1>0, <2>1 DEF Entry
  <2>3. [h |-> handlers[i].h, id |-> handlers[i].id, yields |-> yields,
         breaks |-> breaks] \in Called
    BY <2>2 DEF Called
  <2>4. yielded' \in Seq(Nat)
    BY <1>5, <2>2, AppendProperties DEF Call, TypeOK
  <2>5. log' \in Seq(Called)
    BY <1>5, <2>3, AppendProperties DEF Call, TypeOK, Called
  <2> QED
    BY <2>1, <2>4, <2>5
<1>6. ASSUME NEW yields \in BOOLEAN, NEW owning \in BOOLEAN,
             HandleKeep(yields, owning)
      PROVE  TypeOK'
  <2>1. Call(yields, FALSE)
    BY <1>6 DEF HandleKeep
  <2>2. i \in 1 .. Len(handlers) /\ yielded' \in Seq(Nat) /\ log' \in Seq(Called)
    BY <1>5, <2>1
  <2>3. [handlers[i] EXCEPT !.owning = owning] \in Entry
    BY <1>0, <2>2 DEF Entry
  <2>4. handlers' = [handlers EXCEPT ![i] = [handlers[i] EXCEPT !.owning = owning]]
    BY <1>6 DEF HandleKeep
  <2>5. handlers' \in Seq(Entry) /\ Len(handlers') = Len(handlers)
    BY <2>2, <2>3, <2>4, ExceptSeq DEF TypeOK
  <2> QED
    BY <1>0, <1>6, <2>1, <2>2, <2>5 DEF TypeOK, HandleKeep, Call, Called
<1>7. ASSUME NEW yields \in BOOLEAN, HandleDone(yields)
      PROVE  TypeOK'
  <2>1. Call(yields, TRUE)
    BY <1>7 DEF HandleDone, HandleDoneAt
  <2>2. i \in 1 .. Len(handlers) /\ yielded' \in Seq(Nat) /\ log' \in Seq(Called)
    BY <1>5, <2>1
  <2>3. handlers' \in Seq(Entry) /\ Len(handlers') = Len(handlers) - 1
    BY <1>7, <2>2, SwapRemoveType DEF TypeOK, HandleDone, HandleDoneAt
  <2>4. finished' \in Seq(Nat)
    BY <1>0, <1>7, <2>2, AppendProperties
    DEF TypeOK, HandleDone, HandleDoneAt, Entry
  <2> QED
    BY <1>0, <1>7, <2>1, <2>2, <2>3, <2>4
    DEF TypeOK, HandleDone, HandleDoneAt, Call, Called
<1>8. CASE HandleEnd
  BY <1>8 DEF TypeOK, HandleEnd
<1>9. CASE TakeResults
  BY <1>9, EmptySeq DEF TypeOK, TakeResults
<1>10. CASE UNCHANGED vars
  BY <1>10 DEF TypeOK, vars
<1> QED
  BY <1>1, <1>2, <1>3, <1>4, <1>6, <1>7, <1>8, <1>9, <1>10 DEF Next

(* Every reachable state of the handler table (handler.rs:149-247) is well *)
(* typed, and `handle` never indexes past its end.                         *)
THEOREM TypeCorrect == Spec => []TypeOK
BY InitType, NextType, PTL DEF Spec
-----------------------------------------------------------------------------
(* The ids in a table, and that none is held twice; the same for `finished`. *)
Ids(t) == {t[k].id : k \in DOMAIN t}
NoDupIds(t) == \A j, k \in DOMAIN t : t[j].id = t[k].id => j = k
Elems(s) == {s[k] : k \in DOMAIN s}
NoDups(s) == \A j, k \in DOMAIN s : s[j] = s[k] => j = k

(* Pushing a value adds it to the elements.                                *)
LEMMA AppendElems ==
  ASSUME NEW S, NEW s \in Seq(S), NEW e \in S
  PROVE  /\ Elems(Append(s, e)) = Elems(s) \cup {e}
         /\ NoDups(s) /\ e \notin Elems(s) => NoDups(Append(s, e))
<1> DEFINE t == Append(s, e)
           n == Len(s)
<1>1. /\ n \in Nat /\ DOMAIN s = 1 .. n /\ DOMAIN t = 1 .. n + 1
      /\ \A k \in 1 .. n : t[k] = s[k]
      /\ t[n + 1] = e
  BY AppendProperties, LenProperties
<1> HIDE DEF t, n
<1>2. Elems(t) = Elems(s) \cup {e}
  BY <1>1 DEF Elems
<1>3. NoDups(s) /\ e \notin Elems(s) => NoDups(t)
  BY <1>1 DEF Elems, NoDups
<1> QED
  BY <1>2, <1>3 DEF t

(* Popping the last value takes it from the elements.                      *)
LEMMA DropLastElems ==
  ASSUME NEW S, NEW s \in Seq(S), s # << >>, NoDups(s)
  PROVE  /\ Elems(DropLast(s)) = Elems(s) \ {s[Len(s)]}
         /\ NoDups(DropLast(s))
         /\ s[Len(s)] \in Elems(s)
<1> DEFINE t == DropLast(s)
           n == Len(s)
<1>1. /\ n \in Nat \ {0} /\ DOMAIN s = 1 .. n /\ DOMAIN t = 1 .. n - 1
      /\ \A k \in 1 .. n - 1 : t[k] = s[k]
  BY DropLastType, LenProperties, EmptySeq
<1> HIDE DEF t, n
<1>2. Elems(t) = Elems(s) \ {s[n]} /\ s[n] \in Elems(s)
  BY <1>1 DEF Elems, NoDups
<1>3. NoDups(t)
  BY <1>1 DEF NoDups
<1> QED
  BY <1>2, <1>3 DEF t, n

(* Adding a handler adds its id.                                           *)
LEMMA AppendIds ==
  ASSUME NEW t \in Seq(Entry), NEW e \in Entry
  PROVE  /\ Ids(Append(t, e)) = Ids(t) \cup {e.id}
         /\ NoDupIds(t) /\ e.id \notin Ids(t) => NoDupIds(Append(t, e))
<1> DEFINE u == Append(t, e)
           n == Len(t)
<1>1. /\ n \in Nat /\ DOMAIN t = 1 .. n /\ DOMAIN u = 1 .. n + 1
      /\ \A k \in 1 .. n : u[k] = t[k]
      /\ u[n + 1] = e
  BY AppendProperties, LenProperties
<1> HIDE DEF u, n
<1>2. Ids(u) = Ids(t) \cup {e.id}
  BY <1>1 DEF Ids
<1>3. NoDupIds(t) /\ e.id \notin Ids(t) => NoDupIds(u)
  BY <1>1 DEF Ids, NoDupIds
<1> QED
  BY <1>2, <1>3 DEF u

(* swap_remove takes the id of the removed handler, and no other.          *)
LEMMA SwapRemoveIds ==
  ASSUME NEW t \in Seq(Entry), NEW k \in 1 .. Len(t), NoDupIds(t)
  PROVE  /\ Ids(SwapRemove(t, k)) = Ids(t) \ {t[k].id}
         /\ NoDupIds(SwapRemove(t, k))
         /\ t[k].id \in Ids(t)
<1> DEFINE u == SwapRemove(t, k)
           n == Len(t)
<1>1. /\ n \in Nat \ {0} /\ DOMAIN t = 1 .. n /\ DOMAIN u = 1 .. n - 1
      /\ \A j \in 1 .. n - 1 : u[j] = IF j = k THEN t[n] ELSE t[j]
      /\ k \in 1 .. n
  BY SwapRemoveType, LenProperties
<1> HIDE DEF u, n
<1>2. Ids(u) \subseteq Ids(t) \ {t[k].id}
  BY <1>1 DEF Ids, NoDupIds
<1>3. ASSUME NEW x \in Ids(t), x # t[k].id
      PROVE  x \in Ids(u)
  <2>1. PICK j \in 1 .. n : t[j].id = x
    BY <1>1, <1>3 DEF Ids
  <2>2. CASE j < n
    BY <1>1, <1>3, <2>1, <2>2 DEF Ids
  <2>3. CASE j = n
    <3>1. k \in 1 .. n - 1 /\ u[k] = t[n]
      BY <1>1, <1>3, <2>1, <2>3
    <3> QED
      BY <1>1, <2>1, <2>3, <3>1 DEF Ids
  <2> QED
    BY <1>1, <2>1, <2>2, <2>3
<1>4. NoDupIds(u)
  BY <1>1 DEF NoDupIds
<1>5. t[k].id \in Ids(t)
  BY <1>1 DEF Ids
<1> QED
  BY <1>2, <1>3, <1>4, <1>5 DEF u
-----------------------------------------------------------------------------
(* IdsPartition of a table and a vector of free ids.                       *)
Partition(t, f) ==
  /\ NoDupIds(t) /\ NoDups(f)
  /\ Ids(t) \cap Elems(f) = {}
  /\ Ids(t) \cup Elems(f) = 0 .. Len(t) + Len(f) - 1

(* It is the invariant, in this state and in the next.                     *)
LEMMA PartitionDef ==
  /\ IdsPartition <=> Partition(handlers, finished)
  /\ IdsPartition' <=> Partition(handlers', finished')
BY DEF IdsPartition, Partition, NoDupIds, NoDups, LiveIds, FreeIds, Ids, Elems

(* An id moves from the table to `finished`: cancel_one and Done.          *)
LEMMA FinishPartition ==
  ASSUME TypeOK, IdsPartition, NEW k \in 1 .. Len(handlers),
         handlers' = SwapRemove(handlers, k),
         finished' = Append(finished, handlers[k].id)
  PROVE  IdsPartition'
<1> DEFINE id == handlers[k].id
<1>0. handlers \in Seq(Entry) /\ finished \in Seq(Nat) /\ handlers[k] \in Entry
  BY ElementOfSeq DEF TypeOK
<1>1. handlers \in Seq(Entry) /\ finished \in Seq(Nat) /\ id \in Nat
  BY <1>0 DEF Entry
<1>2. /\ NoDupIds(handlers') /\ Ids(handlers') = Ids(handlers) \ {id}
      /\ id \in Ids(handlers)
  BY <1>1, PartitionDef, SwapRemoveIds DEF Partition
<1>3. NoDups(finished') /\ Elems(finished') = Elems(finished) \cup {id}
  BY <1>1, <1>2, PartitionDef, AppendElems DEF Partition
<1>4. Len(handlers') + Len(finished') = Len(handlers) + Len(finished)
  <2>1. Len(handlers) \in Nat /\ Len(finished) \in Nat
    BY <1>1, LenProperties
  <2>2. Len(handlers') = Len(handlers) - 1
    BY <1>1, SwapRemoveType
  <2>3. Len(finished') = Len(finished) + 1
    BY <1>1, AppendProperties
  <2> QED
    BY <2>1, <2>2, <2>3
<1> HIDE DEF id
<1>5. /\ Ids(handlers') \cap Elems(finished') = {}
      /\ Ids(handlers') \cup Elems(finished') = Ids(handlers) \cup Elems(finished)
  BY <1>2, <1>3, PartitionDef DEF Partition
<1> QED
  BY <1>2, <1>3, <1>4, <1>5, PartitionDef DEF Partition

(* `add` takes an id that nobody has.                                      *)
LEMMA AddPartition ==
  ASSUME TypeOK, IdsPartition, NEW h \in Handler, NEW owning \in BOOLEAN,
         Add(h, owning)
  PROVE  IdsPartition'
<1> DEFINE e == [h |-> h, id |-> NewId, owning |-> owning]
<1>1. /\ handlers \in Seq(Entry) /\ finished \in Seq(Nat)
      /\ e \in Entry /\ e.id = NewId
      /\ Len(handlers) \in Nat /\ Len(finished) \in Nat
      /\ Len(handlers') = Len(handlers) + 1
      /\ handlers' = Append(handlers, e)
  BY NewIdType, AppendProperties, LenProperties
  DEF TypeOK, Entry, Add, AddSetting
<1>2. NewId \notin Ids(handlers) => NoDupIds(handlers')
  BY <1>1, PartitionDef, AppendIds DEF Partition
<1>3. Ids(handlers') = Ids(handlers) \cup {NewId}
  BY <1>1, AppendIds
<1> HIDE DEF e
<1>4. CASE finished = << >>
  <2>1. finished' = << >> /\ Elems(finished) = {} /\ Len(finished) = 0
        /\ NewId = Len(handlers)
    BY <1>4 DEF Add, AddSetting, Elems, NewId
  <2>2. Ids(handlers) = 0 .. Len(handlers) - 1
    BY <1>1, <2>1, PartitionDef DEF Partition
  <2>3. NewId \notin Ids(handlers) /\ Ids(handlers') = 0 .. Len(handlers') - 1
    BY <1>1, <1>3, <2>1, <2>2
  <2>4. NoDupIds(handlers') /\ NoDups(finished') /\ Elems(finished') = {}
        /\ Len(finished') = 0
    BY <1>2, <2>1, <2>3 DEF NoDups, Elems
  <2>5. Len(handlers') + Len(finished') - 1 = Len(handlers') - 1
    BY <1>1, <2>4
  <2> QED
    BY <2>3, <2>4, <2>5, PartitionDef DEF Partition
<1>5. CASE finished # << >>
  <2>1. finished' = DropLast(finished) /\ NewId = finished[Len(finished)]
    BY <1>5 DEF Add, AddSetting, NewId
  <2>2. /\ NewId \in Elems(finished)
        /\ NoDups(finished')
        /\ Elems(finished') = Elems(finished) \ {NewId}
        /\ Len(finished') = Len(finished) - 1
    BY <1>1, <1>5, <2>1, PartitionDef, DropLastElems, DropLastType
    DEF Partition
  <2>3. NewId \notin Ids(handlers)
    BY <2>2, PartitionDef DEF Partition
  <2>4. /\ Ids(handlers') \cap Elems(finished') = {}
        /\ Ids(handlers') \cup Elems(finished') = Ids(handlers) \cup Elems(finished)
    BY <1>3, <2>2, <2>3, PartitionDef DEF Partition
  <2>5. Len(handlers') + Len(finished') = Len(handlers) + Len(finished)
    BY <1>1, <2>2
  <2> QED
    BY <1>2, <2>2, <2>3, <2>4, <2>5, PartitionDef DEF Partition
<1> QED
  BY <1>4, <1>5

(* Every operation keeps the ids a partition of 0 .. n-1.                  *)
LEMMA NextPartition == TypeOK /\ IdsPartition /\ [Next]_vars => IdsPartition'
<1> SUFFICES ASSUME TypeOK, IdsPartition, [Next]_vars PROVE IdsPartition'
  OBVIOUS
<1>1. ASSUME NEW h \in Handler, NEW owning \in BOOLEAN, Add(h, owning)
      PROVE  IdsPartition'
  BY <1>1, AddPartition
<1>2. ASSUME NEW k \in DOMAIN handlers, CancelOne(k)
      PROVE  IdsPartition'
  BY <1>2, FinishPartition, LenProperties DEF TypeOK, CancelOne
<1>3. CASE Cancel
  <2>1. handlers' = << >> /\ finished' = << >>
    BY <1>3 DEF Cancel
  <2> QED
    BY <2>1 DEF IdsPartition, LiveIds, FreeIds
<1>4. ASSUME NEW yields \in BOOLEAN, NEW owning \in BOOLEAN,
             HandleKeep(yields, owning)
      PROVE  IdsPartition'
  <2>1. i \in 1 .. Len(handlers) /\ DOMAIN handlers = 1 .. Len(handlers)
    BY <1>4, LenProperties DEF HandleKeep, Call, TypeOK
  <2>0. \A k \in DOMAIN handlers : handlers[k] \in Entry
    BY <2>1, ElementOfSeq DEF TypeOK
  <2>2. handlers' = [handlers EXCEPT ![i] = [handlers[i] EXCEPT !.owning = owning]]
    BY <1>4 DEF HandleKeep
  <2>3. /\ handlers' \in Seq(Entry)
        /\ DOMAIN handlers' = DOMAIN handlers
        /\ Len(handlers') = Len(handlers)
    <3>1. [handlers[i] EXCEPT !.owning = owning] \in Entry
      BY <2>0, <2>1 DEF Entry
    <3> QED
      BY <2>1, <2>2, <3>1, ExceptSeq, LenProperties DEF TypeOK
  <2>4. \A k \in DOMAIN handlers : handlers'[k].id = handlers[k].id
    BY <2>0, <2>1, <2>2 DEF Entry
  <2>5. finished' = finished /\ LiveIds' = LiveIds
    BY <1>4, <2>3, <2>4 DEF HandleKeep, LiveIds
  <2> QED
    BY <2>3, <2>4, <2>5 DEF IdsPartition, FreeIds
<1>5. ASSUME NEW yields \in BOOLEAN, HandleDone(yields)
      PROVE  IdsPartition'
  <2>1. i \in 1 .. Len(handlers)
    BY <1>5, LenProperties DEF HandleDone, HandleDoneAt, Call, TypeOK
  <2> QED
    BY <1>5, <2>1, FinishPartition DEF HandleDone, HandleDoneAt
<1>6. CASE UNCHANGED <<handlers, finished>>
  BY <1>6, PartitionDef
<1>7. HandleBegin \/ HandleEnd \/ TakeResults \/ UNCHANGED vars
        => UNCHANGED <<handlers, finished>>
  BY DEF HandleBegin, HandleBeginWith, HandleEnd, TakeResults, vars
<1> QED
  BY <1>1, <1>2, <1>3, <1>4, <1>5, <1>6, <1>7 DEF Next

(* However handlers are added, cancelled and finish, no two have the same  *)
(* id, and the next `add` (handler.rs:176) never gives out one in use.     *)
THEOREM IdsNeverCollide == Spec => []IdsPartition
<1>1. Init => IdsPartition
  BY DEF Init, IdsPartition, LiveIds, FreeIds
<1>2. TypeOK /\ IdsPartition /\ [Next]_vars => IdsPartition'
  BY NextPartition
<1> QED
  BY <1>1, <1>2, TypeCorrect, PTL DEF Spec
-----------------------------------------------------------------------------
(* A handler is in the table once: `add` takes ownership of it.            *)
Distinct == \A j, k \in DOMAIN handlers : handlers[j].h = handlers[k].h => j = k

(* What HandleKeep does to the table.                                      *)
LEMMA KeepTable ==
  ASSUME TypeOK, NEW yields \in BOOLEAN, NEW owning \in BOOLEAN,
         HandleKeep(yields, owning)
  PROVE  /\ i \in 1 .. Len(handlers)
         /\ DOMAIN handlers' = DOMAIN handlers
         /\ Len(handlers') = Len(handlers)
         /\ \A k \in DOMAIN handlers : /\ handlers'[k].h = handlers[k].h
                                       /\ handlers'[k].id = handlers[k].id
<1>1. i \in 1 .. Len(handlers) /\ DOMAIN handlers = 1 .. Len(handlers)
  BY LenProperties DEF HandleKeep, Call, TypeOK
<1>2. \A k \in DOMAIN handlers : handlers[k] \in Entry
  BY <1>1, ElementOfSeq DEF TypeOK
<1>3. handlers' = [handlers EXCEPT ![i] = [handlers[i] EXCEPT !.owning = owning]]
  BY DEF HandleKeep
<1>4. [handlers[i] EXCEPT !.owning = owning] \in Entry
  BY <1>1, <1>2 DEF Entry
<1>5. /\ handlers' \in Seq(Entry)
      /\ DOMAIN handlers' = DOMAIN handlers
      /\ Len(handlers') = Len(handlers)
  BY <1>1, <1>3, <1>4, ExceptSeq, LenProperties DEF TypeOK
<1>6. \A k \in DOMAIN handlers : /\ handlers'[k].h = handlers[k].h
                                 /\ handlers'[k].id = handlers[k].id
  BY <1>1, <1>2, <1>3 DEF Entry
<1> QED
  BY <1>1, <1>5, <1>6

(* What cancel_one and a handler that breaks do to the table.              *)
LEMMA RemoveTable ==
  ASSUME TypeOK, NEW k \in 1 .. Len(handlers),
         handlers' = SwapRemove(handlers, k)
  PROVE  /\ Len(handlers) \in Nat \ {0}
         /\ DOMAIN handlers = 1 .. Len(handlers)
         /\ Len(handlers') = Len(handlers) - 1
         /\ DOMAIN handlers' = 1 .. Len(handlers) - 1
         /\ \A n \in 1 .. Len(handlers) - 1 :
              handlers'[n] = IF n = k THEN handlers[Len(handlers)] ELSE handlers[n]
<1>1. handlers \in Seq(Entry) /\ Len(handlers) \in Nat
  BY LenProperties DEF TypeOK
<1>2. DOMAIN handlers = 1 .. Len(handlers) /\ Len(handlers) # 0
  BY <1>1, LenProperties
<1>3. /\ Len(SwapRemove(handlers, k)) = Len(handlers) - 1
      /\ DOMAIN SwapRemove(handlers, k) = 1 .. Len(handlers) - 1
      /\ \A n \in 1 .. Len(handlers) - 1 :
           SwapRemove(handlers, k)[n]
             = IF n = k THEN handlers[Len(handlers)] ELSE handlers[n]
  BY <1>1, SwapRemoveType, Zenon
<1> QED
  BY <1>1, <1>2, <1>3

(* What `add` does to the table.                                           *)
LEMMA AddTable ==
  ASSUME TypeOK, NEW h \in Handler, NEW owning \in BOOLEAN, Add(h, owning)
  PROVE  /\ Len(handlers) \in Nat
         /\ DOMAIN handlers = 1 .. Len(handlers)
         /\ DOMAIN handlers' = 1 .. Len(handlers) + 1
         /\ \A k \in 1 .. Len(handlers) : handlers'[k] = handlers[k]
         /\ handlers'[Len(handlers) + 1].h = h
<1> DEFINE e == [h |-> h, id |-> NewId, owning |-> owning]
<1>1. e \in Entry /\ e.h = h /\ handlers' = Append(handlers, e)
      /\ handlers \in Seq(Entry)
  BY NewIdType DEF Entry, Add, AddSetting, TypeOK
<1> HIDE DEF e
<1> QED
  BY <1>1, AppendProperties, LenProperties

(* No step puts a handler in the table twice, or changes a handler's id.   *)
LEMMA StableStep ==
  TypeOK /\ Distinct /\ [Next]_vars =>
    /\ Distinct'
    /\ \A j \in DOMAIN handlers, k \in DOMAIN handlers' :
         handlers[j].h = handlers'[k].h => handlers[j].id = handlers'[k].id
<1> DEFINE Stable == \A j \in DOMAIN handlers, k \in DOMAIN handlers' :
                       handlers[j].h = handlers'[k].h
                         => handlers[j].id = handlers'[k].id
<1> SUFFICES ASSUME TypeOK, Distinct, [Next]_vars PROVE Distinct' /\ Stable
  OBVIOUS
<1>1. ASSUME NEW h \in Handler, NEW owning \in BOOLEAN, Add(h, owning)
      PROVE  Distinct' /\ Stable
  <2>1. \A k \in DOMAIN handlers : handlers[k].h # h
    BY <1>1 DEF Add, AddSetting, Installed
  <2> QED
    BY <1>1, <2>1, AddTable DEF Distinct
<1>2. ASSUME NEW k \in 1 .. Len(handlers), handlers' = SwapRemove(handlers, k)
      PROVE  Distinct' /\ Stable
  <2> DEFINE n == Len(handlers)
  <2>1. /\ n \in Nat \ {0} /\ k \in 1 .. n
        /\ DOMAIN handlers = 1 .. n /\ DOMAIN handlers' = 1 .. n - 1
        /\ \A m \in 1 .. n - 1 :
             handlers'[m] = IF m = k THEN handlers[n] ELSE handlers[m]
    BY <1>2, RemoveTable, Zenon
  <2> HIDE DEF n
  <2>2. Distinct'
    BY <2>1 DEF Distinct
  <2>3. Stable
    BY <2>1 DEF Distinct
  <2> QED
    BY <2>2, <2>3
<1>3. ASSUME NEW k \in DOMAIN handlers, CancelOne(k)
      PROVE  Distinct' /\ Stable
  BY <1>2, <1>3, LenProperties DEF TypeOK, CancelOne
<1>4. CASE Cancel
  <2>1. handlers' = << >>
    BY <1>4 DEF Cancel
  <2> QED
    BY <2>1 DEF Distinct
<1>5. ASSUME NEW yields \in BOOLEAN, NEW owning \in BOOLEAN,
             HandleKeep(yields, owning)
      PROVE  Distinct' /\ Stable
  BY <1>5, KeepTable DEF Distinct
<1>6. ASSUME NEW yields \in BOOLEAN, HandleDone(yields)
      PROVE  Distinct' /\ Stable
  <2>1. i \in 1 .. Len(handlers) /\ handlers' = SwapRemove(handlers, i)
    BY <1>6, LenProperties DEF HandleDone, HandleDoneAt, Call, TypeOK
  <2> QED
    BY <1>2, <2>1
<1>7. CASE UNCHANGED handlers
  BY <1>7 DEF Distinct
<1>8. HandleBegin \/ HandleEnd \/ TakeResults \/ UNCHANGED vars
        => UNCHANGED handlers
  BY DEF HandleBegin, HandleBeginWith, HandleEnd, TakeResults, vars
<1> QED
  BY <1>1, <1>3, <1>4, <1>5, <1>6, <1>7, <1>8 DEF Next

(* A handler is never in the table twice.                                  *)
LEMMA AlwaysDistinct == Spec => []Distinct
<1>1. Init => Distinct
  BY DEF Init, Distinct
<1>2. TypeOK /\ Distinct /\ [Next]_vars => Distinct'
  BY StableStep
<1> QED
  BY <1>1, <1>2, TypeCorrect, PTL DEF Spec

(* The id `add` returned (handler.rs:169-180) names the same handler for   *)
(* as long as it is in the table, whatever is swapped around it.           *)
THEOREM IdsStayPut == Spec => IdsAreStable
<1>1. TypeOK /\ Distinct /\ [Next]_vars =>
        [\A j \in DOMAIN handlers, k \in DOMAIN handlers' :
           handlers[j].h = handlers'[k].h
             => handlers[j].id = handlers'[k].id]_vars
  BY StableStep
<1> QED
  BY <1>1, TypeCorrect, AlwaysDistinct, PTL DEF Spec, IdsAreStable
-----------------------------------------------------------------------------
(* The invariant of the loop in `handle`.  The entries before i have been  *)
(* called and kept; those from i on have not been called, and are all that *)
(* is left of the ones present when the message arrived.                   *)
Names(s, K) == {<<s[k].h, s[k].id>> : k \in K}
Before == {k \in DOMAIN handlers : k < i}
Pending == {k \in DOMAIN handlers : k >= i}
Broke == {k \in DOMAIN log : log[k].breaks}
Kept == {k \in DOMAIN log : ~log[k].breaks}
Yielding == {k \in DOMAIN log : log[k].yields}

CalledOnce == \A j, k \in DOMAIN log : log[j].h = log[k].h => j = k
NotYetCalled == \A j \in DOMAIN log, k \in Pending : log[j].h # handlers[k].h
Accounted == present = Names(log, DOMAIN log) \cup Names(handlers, Pending)
KeptInTable == Names(handlers, Before) = Names(log, Kept)
FinishedNow ==
  /\ finished_at <= Len(finished)
  /\ {finished[k] : k \in finished_at + 1 .. Len(finished)}
       = {log[k].id : k \in Broke}
YieldedNow == {yielded[k] : k \in DOMAIN yielded} = {log[k].id : k \in Yielding}

LoopInv ==
  /\ pc = "idle" => log = << >>
  /\ pc = "handled" => i > Len(handlers)
  /\ pc # "idle" =>
       /\ CalledOnce /\ NotYetCalled /\ Accounted /\ KeptInTable
       /\ FinishedNow /\ YieldedNow

(* What a call adds to the log.                                            *)
LEMMA CallLog ==
  ASSUME TypeOK, NEW yields \in BOOLEAN, NEW breaks \in BOOLEAN,
         Call(yields, breaks)
  PROVE  /\ i \in 1 .. Len(handlers) /\ DOMAIN handlers = 1 .. Len(handlers)
         /\ Len(handlers) \in Nat
         /\ Len(log) \in Nat
         /\ DOMAIN log = 1 .. Len(log)
         /\ DOMAIN log' = 1 .. Len(log) + 1
         /\ \A k \in 1 .. Len(log) : log'[k] = log[k]
         /\ log'[Len(log) + 1] = [h |-> handlers[i].h, id |-> handlers[i].id,
                                  yields |-> yields, breaks |-> breaks]
<1> DEFINE c == [h |-> handlers[i].h, id |-> handlers[i].id,
                 yields |-> yields, breaks |-> breaks]
<1>1. /\ i \in 1 .. Len(handlers) /\ DOMAIN handlers = 1 .. Len(handlers)
      /\ Len(handlers) \in Nat
  BY LenProperties DEF Call, TypeOK
<1>2. handlers[i] \in Entry
  BY <1>1, ElementOfSeq DEF TypeOK
<1>3. c \in Called /\ log \in Seq(Called) /\ log' = Append(log, c)
  BY <1>2 DEF Called, Entry, TypeOK, Call
<1> HIDE DEF c
<1>4. /\ Len(log) \in Nat
      /\ DOMAIN log = 1 .. Len(log)
      /\ DOMAIN log' = 1 .. Len(log) + 1
      /\ \A k \in 1 .. Len(log) : log'[k] = log[k]
      /\ log'[Len(log) + 1] = c
  BY <1>3, AppendProperties, LenProperties
<1> QED
  BY <1>1, <1>4 DEF c

(* The handler that a call adds to the log.                                *)
LEMMA CallHandler ==
  ASSUME TypeOK, NEW yields \in BOOLEAN, NEW breaks \in BOOLEAN,
         Call(yields, breaks)
  PROVE  /\ DOMAIN log' = DOMAIN log \cup {Len(log) + 1}
         /\ \A k \in DOMAIN log : log'[k] = log[k]
         /\ log'[Len(log) + 1].h = handlers[i].h
<1> DEFINE n == Len(log)
<1>1. /\ n \in Nat /\ DOMAIN log = 1 .. n /\ DOMAIN log' = 1 .. n + 1
      /\ \A k \in 1 .. n : log'[k] = log[k]
      /\ log'[n + 1] = [h |-> handlers[i].h, id |-> handlers[i].id,
                        yields |-> yields, breaks |-> breaks]
  BY CallLog, Zenon
<1> HIDE DEF n
<1>2. DOMAIN log' = DOMAIN log \cup {n + 1} /\ log'[n + 1].h = handlers[i].h
  BY <1>1
<1> QED
  BY <1>1, <1>2 DEF n

(* The parts of the loop invariant that any call keeps.                    *)
LEMMA CallStep ==
  ASSUME TypeOK, NEW yields \in BOOLEAN, NEW breaks \in BOOLEAN,
         Call(yields, breaks), CalledOnce, NotYetCalled, YieldedNow
  PROVE  /\ CalledOnce'
         /\ YieldedNow'
         /\ Names(log', DOMAIN log')
              = Names(log, DOMAIN log) \cup {<<handlers[i].h, handlers[i].id>>}
         /\ {log'[k].id : k \in Broke'} = {log[k].id : k \in Broke}
              \cup (IF breaks THEN {handlers[i].id} ELSE {})
         /\ Names(log', Kept') = Names(log, Kept)
              \cup (IF breaks THEN {} ELSE {<<handlers[i].h, handlers[i].id>>})
<1> DEFINE n == Len(log)
           e == handlers[i]
<1>1. /\ n \in Nat /\ DOMAIN log = 1 .. n /\ DOMAIN log' = 1 .. n + 1
      /\ \A k \in 1 .. n : log'[k] = log[k]
      /\ log'[n + 1].h = e.h /\ log'[n + 1].id = e.id
      /\ log'[n + 1].yields = yields /\ log'[n + 1].breaks = breaks
      /\ i \in Pending
  <2>1. i \in 1 .. Len(handlers) /\ DOMAIN handlers = 1 .. Len(handlers)
        /\ Len(handlers) \in Nat
    BY CallLog, Zenon
  <2>2. /\ n \in Nat /\ DOMAIN log = 1 .. n /\ DOMAIN log' = 1 .. n + 1
        /\ \A k \in 1 .. n : log'[k] = log[k]
        /\ log'[n + 1] = [h |-> e.h, id |-> e.id, yields |-> yields,
                          breaks |-> breaks]
    BY CallLog, Zenon
  <2>3. i \in Pending
    BY <2>1 DEF Pending
  <2> HIDE DEF n, e
  <2> QED
    BY <2>2, <2>3
<1> HIDE DEF n
<1>2. CalledOnce'
  BY <1>1 DEF CalledOnce, NotYetCalled
<1>3. /\ Yielding' = IF yields THEN Yielding \cup {n + 1} ELSE Yielding
      /\ Broke' = IF breaks THEN Broke \cup {n + 1} ELSE Broke
      /\ Kept' = IF breaks THEN Kept ELSE Kept \cup {n + 1}
      /\ Yielding \subseteq 1 .. n /\ Broke \subseteq 1 .. n /\ Kept \subseteq 1 .. n
  BY <1>1 DEF Yielding, Broke, Kept
<1>4. {log'[k].id : k \in Yielding'} = {log[k].id : k \in Yielding}
        \cup (IF yields THEN {e.id} ELSE {})
  BY <1>1, <1>3
<1>5. {log'[k].id : k \in Broke'} = {log[k].id : k \in Broke}
        \cup (IF breaks THEN {e.id} ELSE {})
  BY <1>1, <1>3
<1>6. Names(log', Kept') = Names(log, Kept)
        \cup (IF breaks THEN {} ELSE {<<e.h, e.id>>})
  BY <1>1, <1>3 DEF Names
<1>7. Names(log', DOMAIN log') = Names(log, DOMAIN log) \cup {<<e.h, e.id>>}
  BY <1>1 DEF Names
<1>8. Elems(yielded') = Elems(yielded) \cup (IF yields THEN {e.id} ELSE {})
  <2>1. e.id \in Nat /\ yielded \in Seq(Nat)
    <3>1. e \in Entry
      BY CallLog, ElementOfSeq DEF TypeOK
    <3> QED
      BY <3>1 DEF Entry, TypeOK
  <2>2. yielded' = IF yields THEN Append(yielded, e.id) ELSE yielded
    BY DEF Call
  <2> HIDE DEF e
  <2> QED
    BY <2>1, <2>2, AppendElems
<1>9. YieldedNow'
  <2>1. Elems(yielded) = {log[k].id : k \in Yielding}
    BY DEF YieldedNow, Elems
  <2>2. Elems(yielded') = {log'[k].id : k \in Yielding'}
    BY <1>4, <1>8, <2>1
  <2> QED
    BY <2>2 DEF YieldedNow, Elems
<1> QED
  BY <1>2, <1>5, <1>6, <1>7, <1>9

(* A handler that is kept goes from the pending to the called ones.        *)
LEMMA KeepStep ==
  ASSUME TypeOK, Distinct, NEW yields \in BOOLEAN, NEW owning \in BOOLEAN,
         HandleKeep(yields, owning),
         CalledOnce, NotYetCalled, Accounted, KeptInTable, FinishedNow, YieldedNow
  PROVE  (/\ CalledOnce /\ NotYetCalled /\ Accounted /\ KeptInTable
          /\ FinishedNow /\ YieldedNow)'
<1> DEFINE e == <<handlers[i].h, handlers[i].id>>
<1>1. Call(yields, FALSE) /\ i' = i + 1 /\ finished' = finished
  BY DEF HandleKeep
<1>2. finished_at' = finished_at /\ present' = present
  BY <1>1 DEF Call
<1>3. /\ CalledOnce' /\ YieldedNow'
      /\ Names(log', DOMAIN log') = Names(log, DOMAIN log) \cup {e}
      /\ {log'[k].id : k \in Broke'} = {log[k].id : k \in Broke}
      /\ Names(log', Kept') = Names(log, Kept) \cup {e}
  BY <1>1, CallStep
<1>4. /\ i \in 1 .. Len(handlers) /\ Len(handlers) \in Nat
      /\ DOMAIN handlers = 1 .. Len(handlers)
      /\ DOMAIN handlers' = DOMAIN handlers
      /\ \A k \in DOMAIN handlers : /\ handlers'[k].h = handlers[k].h
                                    /\ handlers'[k].id = handlers[k].id
  BY <1>1, KeepTable, CallLog
<1>5. /\ Before' = Before \cup {i} /\ Before \subseteq DOMAIN handlers
      /\ Pending = Pending' \cup {i} /\ Pending' \subseteq DOMAIN handlers
      /\ i \notin Pending'
  BY <1>1, <1>4 DEF Before, Pending
<1>6. Names(handlers', Before') = Names(handlers, Before) \cup {e}
  BY <1>4, <1>5 DEF Names
<1>7. Names(handlers, Pending) = Names(handlers', Pending') \cup {e}
  BY <1>4, <1>5 DEF Names
<1>8. NotYetCalled'
  <2>1. /\ DOMAIN log' = DOMAIN log \cup {Len(log) + 1}
        /\ \A k \in DOMAIN log : log'[k] = log[k]
        /\ log'[Len(log) + 1].h = handlers[i].h
    BY <1>1, CallHandler
  <2> QED
    BY <1>4, <1>5, <2>1 DEF NotYetCalled, Distinct
<1>9. Accounted' /\ KeptInTable' /\ FinishedNow'
  <2>1. Accounted'
    BY <1>2, <1>3, <1>7 DEF Accounted
  <2>2. KeptInTable'
    BY <1>3, <1>6 DEF KeptInTable
  <2>3. FinishedNow'
    BY <1>1, <1>2, <1>3 DEF FinishedNow
  <2> QED
    BY <2>1, <2>2, <2>3
<1> QED
  BY <1>3, <1>8, <1>9

(* A handler that breaks leaves the table; the last one may take its place *)
(* and is still pending.                                                   *)
LEMMA DoneStep ==
  ASSUME TypeOK, Distinct, NEW yields \in BOOLEAN, HandleDone(yields),
         CalledOnce, NotYetCalled, Accounted, KeptInTable, FinishedNow, YieldedNow
  PROVE  (/\ CalledOnce /\ NotYetCalled /\ Accounted /\ KeptInTable
          /\ FinishedNow /\ YieldedNow)'
<1> DEFINE e == <<handlers[i].h, handlers[i].id>>
           n == Len(handlers)
<1>1. /\ Call(yields, TRUE) /\ i' = i
      /\ finished' = Append(finished, handlers[i].id)
      /\ handlers' = SwapRemove(handlers, i)
  BY DEF HandleDone, HandleDoneAt
<1>2. finished_at' = finished_at /\ present' = present
  BY <1>1 DEF Call
<1>3. /\ CalledOnce' /\ YieldedNow'
      /\ Names(log', DOMAIN log') = Names(log, DOMAIN log) \cup {e}
      /\ {log'[k].id : k \in Broke'}
           = {log[k].id : k \in Broke} \cup {handlers[i].id}
      /\ Names(log', Kept') = Names(log, Kept)
  BY <1>1, CallStep
<1>4. i \in 1 .. n /\ DOMAIN handlers = 1 .. n
  BY <1>1, CallLog, Zenon
<1>5. /\ n \in Nat \ {0} /\ DOMAIN handlers' = 1 .. n - 1
      /\ \A k \in 1 .. n - 1 :
           handlers'[k] = IF k = i THEN handlers[n] ELSE handlers[k]
  BY <1>1, <1>4, RemoveTable, Zenon
<1>6. FinishedNow'
  <2> DEFINE m == Len(finished)
             id == handlers[i].id
  <2>1. handlers[i] \in Entry /\ finished \in Seq(Nat) /\ finished_at \in Nat
    BY <1>4, ElementOfSeq DEF TypeOK
  <2>2. id \in Nat
    BY <2>1 DEF Entry
  <2>3. /\ m \in Nat /\ Len(finished') = m + 1
        /\ \A k \in 1 .. m : finished'[k] = finished[k]
        /\ finished'[m + 1] = id
    BY <1>1, <2>1, <2>2, AppendProperties, LenProperties
  <2>4. finished_at <= m
        /\ {finished[k] : k \in finished_at + 1 .. m} = {log[k].id : k \in Broke}
    BY DEF FinishedNow
  <2> HIDE DEF m, id
  <2>5. {finished'[k] : k \in finished_at + 1 .. m + 1}
          = {finished[k] : k \in finished_at + 1 .. m} \cup {id}
    BY <2>1, <2>3, <2>4
  <2>6. {finished'[k] : k \in finished_at' + 1 .. Len(finished')}
          = {log'[k].id : k \in Broke'}
    BY <1>2, <1>3, <2>3, <2>4, <2>5 DEF id
  <2>7. finished_at' <= Len(finished')
    BY <1>2, <2>1, <2>3, <2>4
  <2> QED
    BY <2>6, <2>7 DEF FinishedNow
<1> HIDE DEF n
<1>7. Before' = Before /\ \A k \in Before : handlers'[k] = handlers[k]
  BY <1>1, <1>4, <1>5 DEF Before
<1>8. KeptInTable'
  BY <1>3, <1>7 DEF KeptInTable, Names
<1>9. /\ \A k \in Pending' : \E m \in Pending : m # i /\ handlers'[k] = handlers[m]
      /\ \A m \in Pending \ {i} : \E k \in Pending' : handlers'[k] = handlers[m]
      /\ i \in Pending
  <2>1. ASSUME NEW k \in Pending'
        PROVE  \E m \in Pending : m # i /\ handlers'[k] = handlers[m]
    <3>1. CASE k = i
      BY <1>1, <1>4, <1>5, <2>1, <3>1 DEF Pending
    <3>2. CASE k # i
      BY <1>1, <1>4, <1>5, <2>1, <3>2 DEF Pending
    <3> QED
      BY <3>1, <3>2
  <2>2. ASSUME NEW m \in Pending \ {i}
        PROVE  \E k \in Pending' : handlers'[k] = handlers[m]
    <3>1. CASE m = n
      BY <1>1, <1>4, <1>5, <2>2, <3>1 DEF Pending
    <3>2. CASE m # n
      BY <1>1, <1>4, <1>5, <2>2, <3>2 DEF Pending
    <3> QED
      BY <3>1, <3>2
  <2>3. i \in Pending
    BY <1>4, <1>5 DEF Pending
  <2> QED
    BY <2>1, <2>2, <2>3
<1>10. Names(handlers, Pending) = Names(handlers', Pending') \cup {e}
  BY <1>9 DEF Names
<1>11. Accounted'
  BY <1>2, <1>3, <1>10 DEF Accounted
<1>12. NotYetCalled'
  <2>1. /\ DOMAIN log' = DOMAIN log \cup {Len(log) + 1}
        /\ \A k \in DOMAIN log : log'[k] = log[k]
        /\ log'[Len(log) + 1].h = handlers[i].h
    BY <1>1, CallHandler
  <2>2. Pending \subseteq DOMAIN handlers
    BY DEF Pending
  <2> QED
    BY <1>4, <1>9, <2>1, <2>2 DEF NotYetCalled, Distinct
<1> QED
  BY <1>3, <1>6, <1>8, <1>11, <1>12

(* A message begins with nothing called and everything pending.            *)
LEMMA BeginStep ==
  ASSUME TypeOK, HandleBegin, log = << >>
  PROVE  (/\ CalledOnce /\ NotYetCalled /\ Accounted /\ KeptInTable
          /\ FinishedNow /\ YieldedNow)'
<1>1. /\ i' = 1 /\ yielded' = << >> /\ finished_at' = Len(finished)
      /\ present' = Names(handlers, DOMAIN handlers)
      /\ UNCHANGED <<handlers, finished, log>>
  BY DEF HandleBegin, HandleBeginWith, Names
<1>2. /\ DOMAIN handlers = 1 .. Len(handlers)
      /\ Len(handlers) \in Nat /\ Len(finished) \in Nat
  BY LenProperties DEF TypeOK
<1>3. DOMAIN log' = {} /\ DOMAIN yielded' = {}
  BY <1>1
<1>4. Broke' = {} /\ Kept' = {} /\ Yielding' = {}
  BY <1>3 DEF Broke, Kept, Yielding
<1>5. Before' = {} /\ Pending' = DOMAIN handlers
  BY <1>1, <1>2 DEF Before, Pending
<1>6. CalledOnce' /\ NotYetCalled'
  BY <1>3 DEF CalledOnce, NotYetCalled
<1>7. Accounted'
  BY <1>1, <1>3, <1>5 DEF Accounted, Names
<1>8. KeptInTable'
  BY <1>4, <1>5 DEF KeptInTable, Names
<1>9. FinishedNow'
  <2>1. Len(finished) + 1 .. Len(finished) = {} /\ Len(finished) <= Len(finished)
    BY <1>2
  <2> QED
    BY <1>1, <1>4, <2>1 DEF FinishedNow
<1>10. YieldedNow'
  BY <1>3, <1>4 DEF YieldedNow
<1> QED
  BY <1>6, <1>7, <1>8, <1>9, <1>10

(* The loop invariant is about these variables only.                       *)
LEMMA LoopUnchanged ==
  ASSUME UNCHANGED <<handlers, yielded, finished, i, finished_at, present, log>>,
         CalledOnce, NotYetCalled, Accounted, KeptInTable, FinishedNow, YieldedNow
  PROVE  (/\ CalledOnce /\ NotYetCalled /\ Accounted /\ KeptInTable
          /\ FinishedNow /\ YieldedNow)'
<1>1. UNCHANGED <<Before, Pending, Broke, Kept, Yielding>>
  BY DEF Before, Pending, Broke, Kept, Yielding
<1>2. CalledOnce' /\ NotYetCalled'
  BY <1>1 DEF CalledOnce, NotYetCalled
<1>3. Accounted' /\ KeptInTable'
  BY <1>1 DEF Accounted, KeptInTable
<1>4. FinishedNow'
  BY <1>1, Zenon DEF FinishedNow
<1>5. YieldedNow'
  BY <1>1, Zenon DEF YieldedNow
<1> QED
  BY <1>2, <1>3, <1>4, <1>5

(* Every step keeps the loop invariant.                                    *)
LEMMA NextLoop == TypeOK /\ Distinct /\ LoopInv /\ [Next]_vars => LoopInv'
<1> SUFFICES ASSUME TypeOK, Distinct, LoopInv, [Next]_vars PROVE LoopInv'
  OBVIOUS
<1>1. CASE pc = "idle" /\ pc' = "idle" /\ log' = log
  BY <1>1 DEF LoopInv
<1>2. (\E h \in Handler, owning \in BOOLEAN : Add(h, owning))
        \/ (\E k \in DOMAIN handlers : CancelOne(k)) \/ Cancel
        => pc = "idle" /\ pc' = "idle" /\ log' = log
  BY DEF Add, AddSetting, CancelOne, Cancel
<1>3. CASE HandleBegin
  <2>1. pc = "idle" /\ pc' = "handling"
    BY <1>3 DEF HandleBegin, HandleBeginWith
  <2> QED
    BY <1>3, <2>1, BeginStep DEF LoopInv
<1>4. ASSUME NEW yields \in BOOLEAN, NEW owning \in BOOLEAN,
             HandleKeep(yields, owning)
      PROVE  LoopInv'
  <2>1. pc = "handling" /\ pc' = "handling"
    BY <1>4 DEF HandleKeep, Call
  <2> QED
    BY <1>4, <2>1, KeepStep DEF LoopInv
<1>5. ASSUME NEW yields \in BOOLEAN, HandleDone(yields)
      PROVE  LoopInv'
  <2>1. pc = "handling" /\ pc' = "handling"
    BY <1>5 DEF HandleDone, HandleDoneAt, Call
  <2> QED
    BY <1>5, <2>1, DoneStep DEF LoopInv
<1>6. CASE HandleEnd
  <2>1. /\ pc = "handling" /\ pc' = "handled" /\ i > Len(handlers)
        /\ UNCHANGED <<handlers, yielded, finished, i, finished_at, present, log>>
    BY <1>6 DEF HandleEnd
  <2> QED
    BY <2>1, LoopUnchanged DEF LoopInv
<1>7. CASE TakeResults
  BY <1>7 DEF TakeResults, LoopInv
<1>8. CASE UNCHANGED vars
  <2>1. UNCHANGED <<handlers, yielded, finished, pc, i, finished_at, present, log>>
    BY <1>8 DEF vars
  <2> QED
    BY <2>1, LoopUnchanged DEF LoopInv
<1> QED
  BY <1>1, <1>2, <1>3, <1>4, <1>5, <1>6, <1>7, <1>8 DEF Next

(* The loop invariant holds throughout.                                    *)
LEMMA AlwaysLoop == Spec => []LoopInv
<1>1. Init => LoopInv
  BY DEF Init, LoopInv
<1>2. TypeOK /\ Distinct /\ LoopInv /\ [Next]_vars => LoopInv'
  BY NextLoop
<1> QED
  BY <1>1, <1>2, TypeCorrect, AlwaysDistinct, PTL DEF Spec

(* `handle` (handler.rs:218-247) calls every handler that was in the table *)
(* exactly once per message, whichever of them break and are swapped out.  *)
THEOREM EveryHandlerRunsOnce == Spec => []EachRunsOnce
<1>1. TypeOK /\ LoopInv => EachRunsOnce
  <2> SUFFICES ASSUME TypeOK, LoopInv, pc = "handled" PROVE EachRunsOnce
    BY DEF EachRunsOnce
  <2>1. /\ i > Len(handlers) /\ CalledOnce /\ Accounted /\ KeptInTable
        /\ DOMAIN handlers = 1 .. Len(handlers) /\ Len(handlers) \in Nat
        /\ i \in Nat
    BY LenProperties DEF LoopInv, TypeOK
  <2>2. Pending = {} /\ Before = DOMAIN handlers
    BY <2>1 DEF Pending, Before
  <2>3. Names(log, DOMAIN log) = present
    BY <2>1, <2>2 DEF Accounted, Names
  <2>4. Names(handlers, DOMAIN handlers) = Names(log, Kept)
    BY <2>1, <2>2 DEF KeptInTable
  <2> QED
    BY <2>1, <2>3, <2>4 DEF EachRunsOnce, CalledOnce, Names, Kept
<1> QED
  BY <1>1, TypeCorrect, AlwaysLoop, PTL

(* The elements of the tail of a vector, as split_at gives it.             *)
LEMMA SuffixElems ==
  ASSUME NEW S, NEW s \in Seq(S), NEW m \in Nat, m <= Len(s)
  PROVE  /\ Elems(SubSeq(s, m + 1, Len(s))) = {s[k] : k \in m + 1 .. Len(s)}
         /\ Elems(SubSeq(s, m + 1, Len(s))) # {} <=> Len(s) > m
<1> DEFINE n == Len(s)
           u == SubSeq(s, m + 1, n)
<1>1. n \in Nat /\ \A k \in m + 1 .. n : s[k] \in S
  BY LenProperties, ElementOfSeq
<1> HIDE DEF n
<1>2. m + 1 \in Int /\ n \in Int
  BY <1>1
<1>3. /\ u \in Seq(S)
      /\ Len(u) = IF m + 1 <= n THEN n - (m + 1) + 1 ELSE 0
      /\ \A j \in 1 .. n - (m + 1) + 1 : u[j] = s[m + 1 + j - 1]
  <2> DEFINE a == m + 1
  <2>1. a \in Int /\ n \in Int /\ \A k \in a .. n : s[k] \in S
    BY <1>1, <1>2
  <2> HIDE DEF a
  <2>2. /\ SubSeq(s, a, n) \in Seq(S)
        /\ Len(SubSeq(s, a, n)) = IF a <= n THEN n - a + 1 ELSE 0
        /\ \A j \in 1 .. n - a + 1 : SubSeq(s, a, n)[j] = s[a + j - 1]
    BY <2>1, SubSeqProperties
  <2> QED
    BY <2>2 DEF a
<1> HIDE DEF u
<1>4. DOMAIN u = 1 .. n - m /\ \A j \in 1 .. n - m : u[j] = s[m + j]
  BY <1>1, <1>3, LenProperties DEF n
<1>5. \A k \in m + 1 .. n : k - m \in 1 .. n - m /\ m + (k - m) = k
  BY <1>1
<1>6. \A j \in 1 .. n - m : m + j \in m + 1 .. n
  BY <1>1
<1>7. Elems(u) = {s[k] : k \in m + 1 .. n}
  BY <1>4, <1>5, <1>6 DEF Elems
<1>8. {s[k] : k \in m + 1 .. n} # {} <=> n > m
  BY <1>1
<1> QED
  BY <1>7, <1>8 DEF u, n

(* last_run_results and has_results (handler.rs:209-216) tell exactly what *)
(* happened during the last message.                                       *)
THEOREM ResultsAreExact == Spec => []ResultsExact
<1>1. TypeOK /\ LoopInv /\ IdsPartition => ResultsExact
  <2> SUFFICES ASSUME TypeOK, LoopInv, IdsPartition, pc = "handled"
               PROVE  ResultsExact
    BY DEF ResultsExact
  <2>1. FinishedNow /\ YieldedNow
    BY DEF LoopInv
  <2>2. /\ finished \in Seq(Nat) /\ finished_at \in Nat
        /\ finished_at <= Len(finished)
    BY <2>1 DEF TypeOK, FinishedNow
  <2>3. /\ Elems(LastRunFinished)
             = {finished[k] : k \in finished_at + 1 .. Len(finished)}
        /\ Elems(LastRunFinished) # {} <=> Len(finished) > finished_at
    BY <2>2, SuffixElems DEF LastRunFinished
  <2>4. Elems(LastRunFinished) = {log[k].id : k \in Broke}
    BY <2>1, <2>3 DEF FinishedNow
  <2>5. Elems(LastRunFinished) \subseteq Elems(finished)
    <3>1. finished_at + 1 .. Len(finished) \subseteq DOMAIN finished
      BY <2>2, LenProperties
    <3>2. {finished[k] : k \in finished_at + 1 .. Len(finished)}
            \subseteq Elems(finished)
      BY <3>1 DEF Elems
    <3> QED
      BY <2>3, <3>2
  <2>6. Elems(LastRunFinished) \cap LiveIds = {}
    BY <2>5 DEF IdsPartition, FreeIds, Elems
  <2>7. Elems(yielded) = {log[k].id : k \in Yielding}
    BY <2>1 DEF YieldedNow, Elems
  <2>8. yielded # << >> <=> Elems(yielded) # {}
    <3>1. yielded \in Seq(Nat) /\ DOMAIN yielded = 1 .. Len(yielded)
          /\ Len(yielded) \in Nat /\ (yielded # << >> <=> Len(yielded) # 0)
      BY LenProperties, EmptySeq DEF TypeOK
    <3> QED
      BY <3>1 DEF Elems
  <2>9. HasResults <=> \E k \in DOMAIN log : log[k].yields \/ log[k].breaks
    BY <2>3, <2>4, <2>7, <2>8 DEF HasResults, Broke, Yielding
  <2> QED
    BY <2>2, <2>4, <2>6, <2>7, <2>9, Zenon
    DEF ResultsExact, Elems, Broke, Yielding
<1> QED
  BY <1>1, TypeCorrect, AlwaysLoop, IdsNeverCollide, PTL
=============================================================================
