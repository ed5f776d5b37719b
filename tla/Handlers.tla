------------------------------ MODULE Handlers ------------------------------
(***************************************************************************)
(* The handler table of a client: client/handler.rs, struct Handlers.      *)
(*                                                                         *)
(* A handler is a boxed closure paired with the id that `add` returned to  *)
(* the user.  `handle` offers one server message to every handler; one     *)
(* that breaks is taken out with swap_remove, its id goes to `finished`,   *)
(* and a later `add` gives that id out again.  Calling one handler is one  *)
(* step here, because what it answers is its own business.                 *)
(*                                                                         *)
(* Vectors are 1-based here and 0-based in the code: `i` is the code's     *)
(* i + 1.  Ids and lengths keep the code's values.                         *)
(***************************************************************************)
EXTENDS Naturals, Sequences

CONSTANT Handler   \* the handlers that may be in the table at one time

VARIABLES
  handlers,      \* Seq of [h, id, owning]: the table, in running order
  yielded,       \* ids that sent a value during the last message
  finished,      \* ids that are free, the most recently freed one last
  wants_owning,  \* whether the next message should be read as owning
  pc,            \* "idle", "handling" (inside `handle`) or "handled"
  i,             \* the loop index of `handle`
  finished_at,   \* Len(finished) when `handle` was entered
  present,       \* history: <<handler, id>> pairs in the table at that time
  log            \* history: the calls `handle` made, in order

vars == <<handlers, yielded, finished, wants_owning, pc, i, finished_at,
          present, log>>
-----------------------------------------------------------------------------
LiveIds == {handlers[k].id : k \in DOMAIN handlers}
FreeIds == {finished[k] : k \in DOMAIN finished}
Installed == {handlers[k].h : k \in DOMAIN handlers}

(* Vec::swap_remove: the last element takes the removed one's place. *)
SwapRemoveKeepsId(s, k) ==   \* mutated: the id stays in its slot
  [n \in 1 .. Len(s) - 1 |->
     IF n = k THEN [s[Len(s)] EXCEPT !.id = s[k].id] ELSE s[n]]
SwapRemove(s, k) ==
  [n \in 1 .. Len(s) - 1 |-> IF n = k THEN s[Len(s)] ELSE s[n]]

DropLast(s) == SubSeq(s, 1, Len(s) - 1)

Init ==
  /\ handlers = << >>
  /\ yielded = << >>
  /\ finished = << >>
  /\ wants_owning = FALSE
  /\ pc = "idle"
  /\ i = 1
  /\ finished_at = 0
  /\ present = {}
  /\ log = << >>

(* The id `add` gives: the last one freed, or the length of the table. *)
NewIdIsLen == Len(handlers)  \* mutated: free ids are not looked at
NewId == IF finished = << >> THEN Len(handlers) ELSE finished[Len(finished)]

AddSetting(h, owning, flag) ==
  /\ pc = "idle"
  /\ h \notin Installed
  /\ wants_owning' = flag
  /\ handlers' = Append(handlers, [h |-> h, id |-> NewId, owning |-> owning])
  /\ finished' = IF finished = << >> THEN << >> ELSE DropLast(finished)
  /\ UNCHANGED <<yielded, pc, i, finished_at, present, log>>
AddAssigns(h, owning) == AddSetting(h, owning, owning)  \* mutated: = for |=
Add(h, owning) == AddSetting(h, owning, wants_owning \/ owning)

(* `cancel_one` of an id in use; any other id is a panic of the caller's. *)
CancelOne(k) ==
  /\ pc = "idle"
  /\ handlers' = SwapRemove(handlers, k)
  /\ finished' = Append(finished, handlers[k].id)
  /\ wants_owning' = (wants_owning /\ handlers' # << >>)
  /\ UNCHANGED <<yielded, pc, i, finished_at, present, log>>

Cancel ==
  /\ pc = "idle"
  /\ handlers' = << >>
  /\ finished' = << >>
  /\ yielded' = << >>
  /\ wants_owning' = FALSE
  /\ UNCHANGED <<pc, i, finished_at, present, log>>
-----------------------------------------------------------------------------
HandleBeginWith(old_yielded) ==
  /\ pc = "idle"
  /\ pc' = "handling"
  /\ wants_owning' = FALSE
  /\ yielded' = old_yielded
  /\ finished_at' = Len(finished)
  /\ i' = 1
  /\ present' = {<<handlers[k].h, handlers[k].id>> : k \in DOMAIN handlers}
  /\ UNCHANGED <<handlers, finished, log>>
HandleBeginKeepsYielded == HandleBeginWith(yielded)  \* mutated: no clear()
HandleBegin == HandleBeginWith(<< >>)

(* What the loop does whatever the handler answers: collect a yield. *)
Call(yields, breaks) ==
  LET e == handlers[i] IN
  /\ pc = "handling"
  /\ i <= Len(handlers)
  /\ yielded' = IF yields THEN Append(yielded, e.id) ELSE yielded
  /\ log' = Append(log, [h |-> e.h, id |-> e.id, yields |-> yields,
                         breaks |-> breaks])
  /\ UNCHANGED <<pc, finished_at, present>>

HandleKeep(yields, owning) ==
  /\ Call(yields, FALSE)
  /\ handlers' = [handlers EXCEPT ![i].owning = owning]
  /\ wants_owning' = (wants_owning \/ owning)
  /\ i' = i + 1
  /\ UNCHANGED finished

HandleDoneAt(yields, next) ==
  /\ Call(yields, TRUE)
  /\ finished' = Append(finished, handlers[i].id)
  /\ handlers' = SwapRemove(handlers, i)
  /\ i' = next
  /\ UNCHANGED wants_owning
HandleDoneSkips(yields) == HandleDoneAt(yields, i + 1)  \* mutated: i += 1
HandleDone(yields) == HandleDoneAt(yields, i)

HandleEnd ==
  /\ pc = "handling"
  /\ i > Len(handlers)
  /\ pc' = "handled"
  /\ UNCHANGED <<handlers, yielded, finished, wants_owning, i, finished_at,
                 present, log>>

(* The caller has looked at the results; they are not asked for later, and *)
(* the locals of `handle` are gone.                                        *)
TakeResults ==
  /\ pc = "handled"
  /\ pc' = "idle"
  /\ i' = 1
  /\ finished_at' = 0
  /\ present' = {}
  /\ log' = << >>
  /\ UNCHANGED <<handlers, yielded, finished, wants_owning>>

HasResults == yielded # << >> \/ Len(finished) > finished_at
LastRunFinished == SubSeq(finished, finished_at + 1, Len(finished))

Next ==
  \/ \E h \in Handler, owning \in BOOLEAN : Add(h, owning)
  \/ \E k \in DOMAIN handlers : CancelOne(k)
  \/ Cancel
  \/ HandleBegin
  \/ \E yields, owning \in BOOLEAN : HandleKeep(yields, owning)
  \/ \E yields \in BOOLEAN : HandleDone(yields)
  \/ HandleEnd
  \/ TakeResults

Spec == Init /\ [][Next]_vars
-----------------------------------------------------------------------------
Entry == [h : Handler, id : Nat, owning : BOOLEAN]

(* Every variable has its type; the loop index may be one past the end. *)
TypeOK ==
  /\ handlers \in Seq(Entry)
  /\ yielded \in Seq(Nat)
  /\ finished \in Seq(Nat)
  /\ wants_owning \in BOOLEAN
  /\ pc \in {"idle", "handling", "handled"}
  /\ i \in 1 .. Len(handlers) + 1 \/ pc # "handling"
  /\ i \in Nat \ {0}
  /\ finished_at \in Nat
  /\ present \in SUBSET (Handler \X Nat)
  /\ log \in Seq([h : Handler, id : Nat, yields : BOOLEAN, breaks : BOOLEAN])

(* handler.rs:176 takes the length of the table as the new id when no id   *)
(* is free.  That is sound only because ids in use and free ids together   *)
(* are always exactly 0 .. n-1, each held once, through every add, cancel  *)
(* and swap_remove.                                                        *)
IdsPartition ==
  LET n == Len(handlers) + Len(finished) IN
  /\ \A j, k \in DOMAIN handlers : handlers[j].id = handlers[k].id => j = k
  /\ \A j, k \in DOMAIN finished : finished[j] = finished[k] => j = k
  /\ LiveIds \cap FreeIds = {}
  /\ LiveIds \cup FreeIds = 0 .. n - 1

(* One pass of `handle` (handler.rs:228-245) calls every handler that was  *)
(* in the table when the message arrived exactly once, although those that *)
(* break are swapped out from under the index; and it keeps the rest.      *)
EachRunsOnce ==
  pc = "handled" =>
    /\ {<<log[k].h, log[k].id>> : k \in DOMAIN log} = present
    /\ \A j, k \in DOMAIN log : log[j].h = log[k].h => j = k
    /\ {<<handlers[k].h, handlers[k].id>> : k \in DOMAIN handlers}
         = {<<log[k].h, log[k].id>> : k \in {m \in DOMAIN log : ~log[m].breaks}}

(* What `last_run_results` (handler.rs:213-216) reports is about this      *)
(* message alone: split_at is within bounds, the finished part names the   *)
(* handlers that broke and none that is still in the table, the yielded    *)
(* part those that sent a value, and `has_results` is true iff there is    *)
(* something to report.                                                    *)
ResultsExact ==
  pc = "handled" =>
    /\ finished_at <= Len(finished)
    /\ {LastRunFinished[k] : k \in DOMAIN LastRunFinished}
         = {log[k].id : k \in {m \in DOMAIN log : log[m].breaks}}
    /\ {LastRunFinished[k] : k \in DOMAIN LastRunFinished} \cap LiveIds = {}
    /\ {yielded[k] : k \in DOMAIN yielded}
         = {log[k].id : k \in {m \in DOMAIN log : log[m].yields}}
    /\ HasResults <=> \E k \in DOMAIN log : log[k].yields \/ log[k].breaks

(* A handler that asked for owning messages gets its next one owning       *)
(* (conn/sync.rs:306): outside `handle`, the flag is set whenever some     *)
(* handler wants it, and an empty table never asks for owning messages.    *)
OwningCovered ==
  pc # "handling" =>
    /\ (\E k \in DOMAIN handlers : handlers[k].owning) => wants_owning
    /\ handlers = << >> => ~wants_owning

(* No step gives a handler that stays in the table another id: the user    *)
(* keeps the id `add` returned (handler.rs:169-180) for as long as the     *)
(* handler lives.                                                          *)
IdsAreStable ==
  [][\A j \in DOMAIN handlers, k \in DOMAIN handlers' :
       handlers[j].h = handlers'[k].h => handlers[j].id = handlers'[k].id]_vars

(* The table between messages: well typed, the loop within its bounds, and *)
(* no handler that needs an owned message is given a borrowed one          *)
(* (handler.rs:175, 225).                                                  *)
TableSound == TypeOK /\ OwningCovered
=============================================================================
