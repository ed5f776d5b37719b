----------------------------- MODULE FlatMapAbs -----------------------------
(***************************************************************************)
(* What a FlatMap promises: a map m from keys to values.  ret is the last  *)
(* operation and what it returned, an Option.                              *)
(***************************************************************************)
EXTENDS Integers, Sequences

CONSTANTS Key, Val, Input

VARIABLES m, ret

vars == <<m, ret>>

Get(k) == IF k \in DOMAIN m THEN <<m[k]>> ELSE << >>
With(k, v) == [l \in DOMAIN m \cup {k} |-> IF l = k THEN v ELSE m[l]]
Only(keys) == [l \in DOMAIN m \cap keys |-> m[l]]

(* Of several elements with one key the last one counts. *)
LastOf(s) ==
  [k \in {s[i].key : i \in DOMAIN s} |->
     s[CHOOSE i \in DOMAIN s :
         s[i].key = k /\ \A j \in DOMAIN s : s[j].key = k => j <= i].val]

Init == m = << >> /\ ret = <<<<"new">>, << >>>>

FromVec(s) == ret' = <<<<"from_vec", s>>, << >>>> /\ m' = LastOf(s)
Insert(k, v) == ret' = <<<<"insert", k, v>>, Get(k)>> /\ m' = With(k, v)
TryInsert(k, v) ==
  IF k \in DOMAIN m
    THEN ret' = <<<<"try_insert", k, v>>, <<v>>>> /\ m' = m
    ELSE ret' = <<<<"try_insert", k, v>>, << >>>> /\ m' = With(k, v)
Remove(k) == ret' = <<<<"remove", k>>, Get(k)>> /\ m' = Only(Key \ {k})
Look(k) == ret' = <<<<"get", k>>, Get(k)>> /\ m' = m
EditOrDrop == ret' \in {<<<<"edit">>, << >>>>, <<<<"drop">>, << >>>>} /\ m' = m
Clear == ret' = <<<<"clear">>, << >>>> /\ m' = << >>
(* A guard that is forgotten may take elements with it. *)
Forget == ret' = <<<<"forget">>, << >>>> /\ \E keys \in SUBSET Key : m' = Only(keys)

Next ==
  \/ \E k \in Key, v \in Val : Insert(k, v) \/ TryInsert(k, v)
  \/ \E k \in Key : Remove(k) \/ Look(k)
  \/ EditOrDrop \/ Clear \/ Forget
  \/ \E s \in Input : FromVec(s)

Spec == Init /\ [][Next]_vars
=============================================================================
