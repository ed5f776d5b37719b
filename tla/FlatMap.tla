------------------------------ MODULE FlatMap -------------------------------
(***************************************************************************)
(* util/flatmap.rs: a map kept as a vector of elements in the order of     *)
(* their keys.  An edit guard appends, and lowers Vec::len to the length   *)
(* of the prefix that is in order; dropping it sorts.                      *)
(*                                                                         *)
(* A guard may be used in any order.  careless says that one was used in   *)
(* a way that it does not support, as CAP DEL of several capabilities, a   *)
(* token that 005 repeats and a key that Tags::from_iter is given twice    *)
(* may do (register/handler.rs:305-318, 487-491, ircmsg/tags.rs:159-168).  *)
(***************************************************************************)
EXTENDS Integers, Sequences

SX == INSTANCE SequencesExt

CONSTANTS
  Key,    \* ordered, so integers
  Val,
  Input,  \* vectors for from_vec
  MaxLen

ASSUME KeyAssumption == Key \subseteq Int
ASSUME InputAssumption == Input \subseteq Seq([key : Key, val : Val])

VARIABLES
  vec,      \* the elements, as many as real_len says
  sorted,   \* Vec::len
  guard,    \* whether a guard is there
  ret,      \* the last operation and what it returned, an Option
  panicked,
  added,    \* history: the keys this guard has appended
  careless  \* history: whether a guard has looked for a key that it had
            \* appended itself, or has removed a key, while something was
            \* behind the prefix

fvars == <<vec, sorted, guard, ret, panicked, added, careless>>

history == <<added, careless>>

Returns(op, option) == ret' = <<op, option>>

Elem(k, v) == [key |-> k, val |-> v]

(* get_impl: where it may find key k.  A binary search may come upon any   *)
(* of several equal keys.                                                  *)
GetImplIf(k, looks_on) ==
  LET hits == {i \in 1 .. sorted : vec[i].key = k}
      tail == {i \in sorted + 1 .. Len(vec) : vec[i].key = k}
  IN IF hits # {} THEN hits
     ELSE IF looks_on
       THEN {i \in tail : \A j \in tail : i <= j}
       ELSE {}
GetImplPrefix(k) == GetImplIf(k, FALSE)  \* mutated: binary search only
GetImpl(k) == GetImplIf(k, \A i \in 1 .. sorted : vec[i].key < k)

FInit ==
  /\ vec = << >> /\ sorted = 0 /\ guard = FALSE
  /\ ret = <<<<"new">>, << >>>> /\ panicked = FALSE
  /\ added = {} /\ careless = FALSE
-----------------------------------------------------------------------------
(* from_vec: a stable sort, then do_dedup. *)
InOrder(s) ==
  LET rank(j) == Len(SelectSeq(s, LAMBDA e : e.key < s[j].key))
                   + Len(SelectSeq(SubSeq(s, 1, j), LAMBDA e : e.key = s[j].key))
  IN [i \in 1 .. Len(s) |-> s[CHOOSE j \in 1 .. Len(s) : rank(j) = i]]
DedupKeeping(s, first) ==
  SX!FoldLeft(LAMBDA acc, e : IF acc # << >> /\ SX!Last(acc).key = e.key
                                THEN IF first THEN acc ELSE Append(SX!Front(acc), e)
                                ELSE Append(acc, e),
              << >>, s)
DoDedupFirst(s) == DedupKeeping(s, TRUE)  \* mutated: as Vec::dedup
DoDedup(s) == DedupKeeping(s, FALSE)

(* What the proofs use of the two; TLC evaluates it for the inputs.        *)
Increasing(v) == \A i, j \in 1 .. Len(v) : i < j => v[i].key < v[j].key
ASSUME DedupAssumption ==
  \A s \in Input : /\ DoDedup(InOrder(s)) \in Seq([key : Key, val : Val])
                   /\ Increasing(DoDedup(InOrder(s)))

FromVec(s) ==
  /\ ~guard /\ vec = << >>
  /\ vec' = DoDedup(InOrder(s))
  /\ sorted' = Len(vec')
  /\ Returns(<<"from_vec", s>>, << >>)
  /\ UNCHANGED <<guard, panicked, history>>

(* FlatMap::get, and with a guard FlatMapEditGuard::get. *)
Looks(k) ==
  IF GetImpl(k) = {} THEN Returns(<<"get", k>>, << >>)
  ELSE \E i \in GetImpl(k) : Returns(<<"get", k>>, <<vec[i].val>>)

Get(k) ==
  /\ ~guard
  /\ Looks(k)
  /\ UNCHANGED <<vec, sorted, guard, panicked, history>>

Edit ==
  /\ ~guard
  /\ guard' = TRUE /\ added' = {}
  /\ Returns(<<"edit">>, << >>)
  /\ UNCHANGED <<vec, sorted, panicked, careless>>

(* Dropping the guard: an unstable sort, if there is anything to sort. *)
Perm(S) == {p \in [S -> S] : \A a, b \in S : p[a] = p[b] => a = b}
DropSorting(p) ==
  /\ guard
  /\ sorted = Len(vec) => \A i \in 1 .. Len(vec) : p[i] = i
  /\ vec' = [i \in 1 .. Len(vec) |-> vec[p[i]]]
  /\ \A i, j \in 1 .. Len(vec) : i < j => vec[p[i]].key <= vec[p[j]].key
  /\ sorted' = Len(vec)
  /\ guard' = FALSE
  /\ Returns(<<"drop">>, << >>)
  /\ UNCHANGED <<panicked, history>>
Drop == \E p \in Perm(1 .. Len(vec)) : DropSorting(p)

Forget ==
  /\ guard
  /\ vec' = SubSeq(vec, 1, sorted)
  /\ guard' = FALSE
  /\ Returns(<<"forget">>, << >>)
  /\ UNCHANGED <<sorted, panicked, history>>
-----------------------------------------------------------------------------
(* The operations of the guard. *)
Behind == sorted < Len(vec)
LooksFor(k) ==
  /\ guard /\ ~panicked
  /\ careless' = (careless \/ (Behind /\ k \in added))
  /\ UNCHANGED <<guard, panicked>>

Push(e) ==
  LET is_sorted == sorted = Len(vec) /\ (vec = << >> \/ vec[Len(vec)].key < e.key)
  IN /\ Len(vec) < MaxLen
     /\ vec' = Append(vec, e)
     /\ sorted' = sorted + IF is_sorted THEN 1 ELSE 0
     /\ added' = added \cup {e.key}

Insert(k, v) ==
  /\ LooksFor(k)
  /\ IF GetImpl(k) = {}
       THEN Push(Elem(k, v)) /\ Returns(<<"insert", k, v>>, << >>)
       ELSE \E i \in GetImpl(k) :
              /\ vec' = [vec EXCEPT ![i] = Elem(k, v)]
              /\ Returns(<<"insert", k, v>>, <<vec[i].val>>)
              /\ UNCHANGED <<sorted, added>>

(* try_insert and get_or_insert. *)
TryInsert(k, v) ==
  /\ LooksFor(k)
  /\ IF GetImpl(k) = {}
       THEN Push(Elem(k, v)) /\ Returns(<<"try_insert", k, v>>, << >>)
       ELSE Returns(<<"try_insert", k, v>>, <<v>>) /\ UNCHANGED <<vec, sorted, added>>

GuardGet(k) ==
  /\ LooksFor(k)
  /\ Looks(k)
  /\ UNCHANGED <<vec, sorted, added>>

(* swap_remove works on the prefix, and panics if i is not in it; where    *)
(* something is behind, the slot that it empties is counted in real_len.   *)
RemoveAtTo(i, prefix) ==
  /\ vec' = SubSeq([vec EXCEPT ![i] = vec[sorted]], 1, Len(vec) - 1)
  /\ sorted' = prefix
  /\ Returns(<<"remove", vec[i].key>>, <<vec[i].val>>)
RemoveAtLess(i) == RemoveAtTo(i, sorted - 1)  \* mutated: as Vec::remove
RemoveAt(i) == RemoveAtTo(i, i - 1)
Remove(k) ==
  \/ /\ GetImpl(k) = {}
     /\ LooksFor(k)
     /\ Returns(<<"remove", k>>, << >>)
     /\ UNCHANGED <<vec, sorted, added>>
  \/ /\ guard /\ ~panicked
     /\ \E i \in GetImpl(k) :
          IF i <= sorted
            THEN RemoveAt(i) /\ UNCHANGED panicked
            ELSE /\ panicked' = TRUE /\ Returns(<<"remove", k>>, << >>)
                 /\ UNCHANGED <<vec, sorted>>
     /\ careless' = (careless \/ Behind)
     /\ UNCHANGED <<guard, added>>

Clear ==
  /\ ~panicked
  /\ vec' = << >> /\ sorted' = 0
  /\ Returns(<<"clear">>, << >>)
  /\ UNCHANGED <<guard, panicked, history>>

FNext ==
  \/ \E s \in Input : FromVec(s)
  \/ \E k \in Key, v \in Val : Insert(k, v) \/ TryInsert(k, v)
  \/ \E k \in Key : Remove(k) \/ Get(k) \/ GuardGet(k)
  \/ Edit \/ Drop \/ Forget \/ Clear

FSpec == FInit /\ [][FNext]_fvars
-----------------------------------------------------------------------------
(* Every variable has its type; Vec::len is at most real_len, and equal to *)
(* it while there is no guard (flatmap.rs:63-66).                          *)
FTypeOK ==
  /\ vec \in Seq([key : Key, val : Val])
  /\ sorted \in 0 .. Len(vec)
  /\ guard \in BOOLEAN /\ (~guard => sorted = Len(vec))
  /\ panicked \in BOOLEAN /\ careless \in BOOLEAN /\ added \subseteq Key

(* "If the guard is forgotten, the FlatMap will still contain only         *)
(* elements in sorted order" (flatmap.rs:68-69); without a guard it does   *)
(* anyway, as the binary search needs.                                     *)
PrefixSorted ==
  \A i, j \in 1 .. sorted : i < j => vec[i].key <= vec[j].key

(* A key is there once: "returning the old value if present" (names/types. *)
(* rs:211, ircmsg/tags.rs:113) is what insert does.                        *)
KeysUnique ==
  \A i, j \in 1 .. Len(vec) : vec[i].key = vec[j].key => i = j

(* remove "Removes a key-value pair matching the provided `tag`, if any"   *)
(* (names/types.rs:247) and does not panic.                                *)
NeverPanics == panicked = FALSE

(* A FlatMap is a sequence of which Vec::len counts all but what a guard   *)
(* has put behind (flatmap.rs:60-70).  Unless a guard was used carelessly  *)
(* it has one element per key and remove finds what it removes in the part *)
(* that swap_remove works on: the tail, which get_impl searches only for   *)
(* keys above the prefix, hides no key but those that the guard has added. *)
MapSound == FTypeOK /\ (~careless => KeysUnique /\ NeverPanics)

(* Until a guard is used carelessly a FlatMap is a map: every operation    *)
(* returns and leaves what it should, duplicates in from_vec included.     *)
Abs == INSTANCE FlatMapAbs
         WITH m <- [k \in {vec[i].key : i \in 1 .. Len(vec)} |->
                      vec[CHOOSE i \in 1 .. Len(vec) : vec[i].key = k].val]
AbsSpec == Abs!Init /\ [][careless' \/ Abs!Next]_fvars
=============================================================================
