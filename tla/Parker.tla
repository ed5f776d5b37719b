------------------------------- MODULE Parker -------------------------------
(***************************************************************************)
(* client/handler/channel/parker.rs.  One thread parks, on one Parker at a *)
(* time; every Parker c shares an Arc<AtomicPtr<Thread>> with the          *)
(* Unparkers u that have Of[u] = c, which other threads own.               *)
(*                                                                         *)
(* The pointer is to a Thread on the stack of the call of park.  Spurious  *)
(* says whether std::thread::park may return without a token, as its       *)
(* documentation allows.                                                   *)
(***************************************************************************)
EXTENDS Integers, FiniteSets

CONSTANTS Chan, Unparker, Of, First, Spurious

ASSUME OfAssumption == Of \in [Unparker -> Chan]
ASSUME FirstAssumption == First \in [Chan -> Unparker]
                            /\ \A c \in Chan : Of[First[c]] = c

VARIABLES
  strong,   \* of every Arc: its strong count
  ptr,      \* of every Arc: "null", "skip" or "thread"
  upc,      \* where every Unparker is; "none" has not been cloned yet
  token,    \* the Parkers whose Unparkers gave the parking thread its token
  stray,    \* history: the Parkers whose park returned without one of theirs
  pc, cur,  \* where it is in park, and of which Parker
  held,     \* the strong references it holds
  unparked  \* history: of every Parker, whether unpark was called for it
            \* since it last gave its pointer up

pvars == <<strong, ptr, upc, token, stray, pc, cur, held, unparked>>

(* new *)
PInit ==
  /\ strong = [c \in Chan |-> 1]
  /\ ptr = [c \in Chan |-> "null"]
  /\ upc = [u \in Unparker |-> IF u = First[Of[u]] THEN "live" ELSE "none"]
  /\ token = {} /\ stray = {}
  /\ pc = "out" /\ cur \in Chan /\ held = 0
  /\ unparked = [c \in Chan |-> FALSE]
-----------------------------------------------------------------------------
CloneUnparker(u, v) ==
  /\ upc[u] = "live" /\ upc[v] = "none" /\ Of[u] = Of[v]
  /\ upc' = [upc EXCEPT ![v] = "live"]
  /\ strong' = [strong EXCEPT ![Of[u]] = @ + 1]
  /\ UNCHANGED <<ptr, token, stray, pc, cur, held, unparked>>

(* unpark, as far as the swap. *)
Swap(u) ==
  /\ upc[u] = "live"
  /\ ptr' = [ptr EXCEPT ![Of[u]] = "skip"]
  /\ upc' = [upc EXCEPT ![u] = IF ptr[Of[u]] = "thread" THEN "waking" ELSE "live"]
  /\ unparked' = [unparked EXCEPT ![Of[u]] = TRUE]
  /\ UNCHANGED <<strong, token, stray, pc, cur, held>>

(* Unparker::drop, as far as Arc::into_inner. *)
DropWaking(u, wakes) ==
  /\ upc[u] = "live"
  /\ strong' = [strong EXCEPT ![Of[u]] = @ - 1]
  /\ upc' = [upc EXCEPT ![u] = IF wakes THEN "last" ELSE "gone"]
  /\ UNCHANGED <<ptr, token, stray, pc, cur, held, unparked>>
DropUnparkerLoud(u) == DropWaking(u, ptr[Of[u]] = "thread")  \* mutated: always
DropUnparker(u) == DropWaking(u, strong[Of[u]] = 1 /\ ptr[Of[u]] = "thread")

(* th.clone().unpark(), in unpark and in drop. *)
UnparkThread(u) ==
  /\ upc[u] \in {"waking", "last"}
  /\ token' = token \cup {Of[u]}
  /\ upc' = [upc EXCEPT ![u] = IF @ = "waking" THEN "live" ELSE "gone"]
  /\ UNCHANGED <<strong, ptr, stray, pc, cur, held, unparked>>
-----------------------------------------------------------------------------
(* upgrade, which fails if only the Weak is left. *)
Upgrade(c, next) ==
  IF strong[c] = 0
    THEN pc' = "out" /\ UNCHANGED <<strong, held>>
    ELSE /\ strong' = [strong EXCEPT ![c] = @ + 1]
         /\ held' = held + 1
         /\ pc' = next

Park(c) ==
  /\ pc = "out"
  /\ cur' = c
  /\ Upgrade(c, "exchange")
  /\ UNCHANGED <<ptr, upc, token, stray, unparked>>

CompareExchange ==
  /\ pc = "exchange"
  /\ IF ptr[cur] = "null"
       THEN ptr' = [ptr EXCEPT ![cur] = "thread"] /\ pc' = "into_inner"
       ELSE pc' = "again" /\ UNCHANGED ptr
  /\ UNCHANGED <<strong, upc, token, stray, cur, held, unparked>>

IntoInner ==
  /\ pc = "into_inner"
  /\ strong' = [strong EXCEPT ![cur] = @ - 1]
  /\ held' = 0
  /\ pc' = IF strong[cur] = 1 THEN "out" ELSE "parked"
  /\ UNCHANGED <<ptr, upc, token, stray, cur, unparked>>

(* std::thread::park returns. *)
Wake ==
  /\ pc = "parked"
  /\ token # {} \/ Spurious
  /\ token' = {}
  /\ stray' = IF cur \in token THEN stray ELSE stray \cup {cur}
  /\ pc' = "again"
  /\ UNCHANGED <<strong, ptr, upc, cur, held, unparked>>

UpgradeAgain ==
  /\ pc = "again"
  /\ Upgrade(cur, "store")
  /\ UNCHANGED <<ptr, upc, token, stray, cur, unparked>>

Store ==
  /\ pc = "store"
  /\ ptr' = [ptr EXCEPT ![cur] = "null"]
  /\ unparked' = [unparked EXCEPT ![cur] = FALSE]
  /\ pc' = "return"
  /\ UNCHANGED <<strong, upc, token, stray, cur, held>>

(* The end of the scope of both references called strong. *)
Return ==
  /\ pc = "return"
  /\ strong' = [strong EXCEPT ![cur] = @ - held]
  /\ held' = 0
  /\ pc' = "out"
  /\ UNCHANGED <<ptr, upc, token, stray, cur, unparked>>

ParkStep ==
  CompareExchange \/ IntoInner \/ Wake \/ UpgradeAgain \/ Store \/ Return

(* What park does when it is scheduled; nothing makes std::thread::park     *)
(* return without a token.                                                 *)
Awake == ParkStep /\ (pc = "parked" => token # {})
-----------------------------------------------------------------------------
Users(c) == {u \in Unparker : Of[u] = c /\ upc[u] \in {"live", "waking"}}

(* park may return from Parker c. *)
Due(c) == unparked[c] \/ Users(c) = {}

(* Every variable has its type, and the strong count counts the Unparkers  *)
(* and the references in park.                                             *)
PTypeOK ==
  /\ \A c \in Chan : strong[c] = Cardinality(Users(c))
                                  + IF c = cur THEN held ELSE 0
  /\ ptr \in [Chan -> {"null", "skip", "thread"}]
  /\ upc \in [Unparker -> {"none", "live", "waking", "last", "gone"}]
  /\ token \subseteq Chan /\ stray \subseteq Chan
  /\ pc \in {"out", "exchange", "into_inner", "parked", "again", "store", "return"}
  /\ cur \in Chan /\ held \in 0 .. 2
  /\ unparked \in [Chan -> BOOLEAN]

(* No wake-up is lost: a thread that is parked although it may return has  *)
(* a token, or somebody is about to give it one (parker.rs:47-48, 78-79).  *)
NoLostWakeup ==
  pc = "parked" /\ Due(cur) =>
    token # {} \/ \E u \in Unparker : Of[u] = cur /\ upc[u] \in {"waking", "last"}

(* "Block this thread until either all [`Unparker`]s are dropped or until  *)
(* one of them unparks this thread" (parker.rs:78-79): past the call of    *)
(* std::thread::park, which is made once and not in a loop (parker.rs:95), *)
(* one of these is true, unless what ended it was a token of another       *)
(* Parker or nothing at all.                                               *)
ParkHonest == pc \in {"again", "store"} => Due(cur) \/ cur \in stray

(* The Thread on the stack of park outlives everybody who is about to      *)
(* dereference the pointer to it (parker.rs:39, 54), with the same         *)
(* exception.                                                              *)
PointerAlive ==
  \A u \in Unparker :
    upc[u] \in {"waking", "last"} => (pc # "out" /\ cur = Of[u]) \/ Of[u] \in stray

(* A Parker that is not in use has no pointer to a dead Thread where an    *)
(* Unparker may find it (parker.rs:104).                                   *)
PointerCleared ==
  \A c \in Chan : Users(c) # {} /\ ptr[c] = "thread" => pc # "out" /\ cur = c
=============================================================================
