------------------------------- MODULE Nicks -------------------------------
(***************************************************************************)
(* Nickname generators (client/nick.rs, client/nick/suffix.rs).  A nick is *)
(* a base and the characters appended to it.  A SuffixType is the sequence *)
(* of the texts that it may append: digits and letters are one character   *)
(* each and different, a Choice has any texts, a Char has one, which is    *)
(* empty if a nick may not have that character.  Generators nest, as the   *)
(* boxed trait objects do; no generator is << >>.                          *)
(***************************************************************************)
EXTENDS Naturals, Sequences
LOCAL INSTANCE SequencesExt

CONSTANTS U8Max,      \* the largest u8: 255
          Lcg(_),     \* the generator of pseudorandom states
          SuffixTypes,
          MaxSuffixes

VARIABLES gen,      \* the generator in use, if there is one
          all,      \* what it was to yield when it was made
          yielded,  \* what it has yielded
          rejected  \* handle_invalid was called

nvars == <<gen, all, yielded, rejected>>

Plain(base) == [base |-> base, suffix |-> << >>]
Sat(n) == IF n > U8Max THEN U8Max ELSE n

NickOnly(nick) == [type |-> "Nick", nick |-> nick]
(* from_iter: the next nick is held, the others are still in the iterator. *)
FromIter(nicks, finite) ==
  [type |-> "FromIter", nick |-> Head(nicks), iter |-> Tail(nicks), finite |-> finite]
Chain(a, b) == [type |-> "Chain", a |-> <<a>>, b |-> <<b>>]

(* Suffix::transform *)
Transform(strategy, suffixes, prefix, seed) ==
  [type |-> "SuffixGen", strategy |-> IF suffixes = << >> THEN "Rng" ELSE strategy,
   suffixes |-> suffixes, prefix |-> prefix,
   state |-> IF strategy = "Rng" THEN seed ELSE 0,
   limit |-> IF strategy = "Rng" \/ suffixes = << >>
             THEN FoldLeft(LAMBDA n, type : Sat(n + (Len(type) \div 2)), 1, suffixes)
             ELSE FoldLeft(LAMBDA n, type : Sat(n + Len(type)), 0, suffixes)]

(* SuffixType::append; the variance of a type is its length. *)
Appended(type, num) == IF type = << >> THEN << >> ELSE type[1 + (num % Len(type))]

(* calc_next.  Seq counts in digits whose bases are the variances, and     *)
(* every digit is one less than what is left.  Rng draws a new state for   *)
(* every other suffix; the two shifts are scaled down to small states.     *)
SeqStepLess(acc, type, less) ==
  IF type = << >> \/ acc.done THEN acc
  ELSE LET count == acc.count - less
           rest == count \div Len(type)
       IN [suffix |-> acc.suffix \o Appended(type, (count % (U8Max + 1)) % Len(type)),
           count |-> rest, done |-> rest = 0]
SeqStepDigits(acc, type) ==  \* mutated: only the first digit is one less
  SeqStepLess(acc, type, IF acc.suffix = << >> THEN 1 ELSE 0)
SeqStep(acc, type) == SeqStepLess(acc, type, 1)
RngStep(acc, type) ==
  LET state == IF acc.cycle THEN Lcg(acc.state) ELSE acc.state
      num == state \div (IF acc.cycle THEN 2 ELSE 4)
  IN [suffix |-> acc.suffix \o Appended(type, num), state |-> state, cycle |-> ~acc.cycle]
CalcNext(g) ==
  LET seq == FoldLeft(SeqStep, [suffix |-> << >>, count |-> g.state + 1, done |-> FALSE], g.suffixes)
      rng == FoldLeft(RngStep, [suffix |-> << >>, state |-> g.state, cycle |-> TRUE], g.suffixes)
      suffix == IF g.strategy = "Seq" THEN seq.suffix ELSE rng.suffix
  IN [nick |-> [g.prefix EXCEPT !.suffix = @ \o suffix],
      state |-> IF g.strategy = "Seq" THEN g.state + 1 ELSE rng.state]
-----------------------------------------------------------------------------
(* next_nick: the nick and the continuation.  SuffixGen's limit wraps. *)
RECURSIVE NextNick(_)
NextNick(g) ==
  CASE g.type = "Nick" -> [nick |-> g.nick, next |-> << >>]
    [] g.type = "FromIter" ->
         [nick |-> g.nick,
          next |-> IF g.iter = << >> THEN << >>
                   ELSE <<[g EXCEPT !.nick = Head(g.iter), !.iter = Tail(@)]>>]
    [] g.type = "Chain" /\ g.a # << >> ->
         LET n == NextNick(g.a[1]) IN [nick |-> n.nick, next |-> <<[g EXCEPT !.a = n.next]>>]
    [] g.type = "Chain" /\ g.a = << >> -> NextNick(g.b[1])
    [] g.type = "SuffixGen" ->
         LET limit == (g.limit + U8Max) % (U8Max + 1)
         IN [nick |-> CalcNext(g).nick,
             next |-> IF limit = 0 THEN << >>
                      ELSE <<[g EXCEPT !.state = CalcNext(g).state, !.limit = limit]>>]

RECURSIVE Peek(_)
Peek(g) ==
  CASE g.type \in {"Nick", "FromIter"} -> g.nick
    [] g.type = "Chain" -> IF g.a # << >> THEN Peek(g.a[1]) ELSE Peek(g.b[1])
    [] g.type = "SuffixGen" -> CalcNext(g).nick

(* handle_invalid.  A single Nick is kept when it is the invalid one. *)
RECURSIVE HandleInvalid(_, _)
HandleInvalid(g, nick) ==
  CASE g.type = "Nick" -> IF nick = g.nick THEN <<g>> ELSE << >>
    [] g.type = "FromIter" -> IF g.finite THEN <<g>> ELSE << >>
    [] g.type = "SuffixGen" -> IF nick.base = g.prefix.base THEN << >> ELSE <<g>>
    [] g.type = "Chain" ->
         LET a == IF g.a = << >> THEN << >> ELSE HandleInvalid(g.a[1], nick)
             b == HandleInvalid(g.b[1], nick)
         IN IF a = << >> THEN b ELSE IF b = << >> THEN a
            ELSE <<[g EXCEPT !.a = a, !.b = b]>>
-----------------------------------------------------------------------------
(* What a generator is to yield, by what it is. *)
RECURSIVE NicksOf(_), SuffixNicks(_)
SuffixNicks(g) ==
  IF g.limit = 1 THEN <<CalcNext(g).nick>>
  ELSE <<CalcNext(g).nick>> \o
       SuffixNicks([g EXCEPT !.limit = IF @ = 0 THEN U8Max ELSE @ - 1, !.state = CalcNext(g).state])
NicksOf(g) ==
  CASE g.type = "Nick" -> <<g.nick>>
    [] g.type = "FromIter" -> <<g.nick>> \o g.iter
    [] g.type = "Chain" -> (IF g.a = << >> THEN << >> ELSE NicksOf(g.a[1])) \o NicksOf(g.b[1])
    [] g.type = "SuffixGen" -> SuffixNicks(g)
Remaining == IF gen = << >> THEN << >> ELSE NicksOf(gen[1])

(* The options' nicks, and a Suffix of the first (chain_using). *)
Generators ==
  LET suffixes == UNION {[1..n -> SuffixTypes] : n \in 0..MaxSuffixes}
      plain == {NickOnly(Plain("p")), FromIter(<<Plain("p"), Plain("q")>>, TRUE),
                FromIter(<<Plain("p"), Plain("q")>>, FALSE),
                Chain(NickOnly(Plain("q")), FromIter(<<Plain("p"), Plain("r")>>, TRUE))}
  IN plain \cup {Chain(g, Transform(st, sx, Peek(g), seed)) :
                   g \in plain, st \in {"Rng", "Seq"}, sx \in suffixes, seed \in {0, 3}}

NInit(gens) ==
  /\ \E g \in gens : gen = <<g>> /\ all = NicksOf(g)
  /\ yielded = << >> /\ rejected = FALSE

Yield ==
  /\ gen # << >>
  /\ LET n == NextNick(gen[1]) IN gen' = n.next /\ yielded' = Append(yielded, n.nick)
  /\ UNCHANGED <<all, rejected>>

(* The server finds the last nick invalid. *)
Reject ==
  /\ gen # << >> /\ yielded # << >> /\ ~rejected
  /\ gen' = HandleInvalid(gen[1], Last(yielded))
  /\ rejected' = TRUE
  /\ UNCHANGED <<all, yielded>>

NNext == Yield \/ Reject
-----------------------------------------------------------------------------
(* Until a nick is rejected, the generator has yielded, and is still to    *)
(* yield, exactly the nicks it was made of, in their order: a Chain loses  *)
(* none when it changes over, and peek shows the next one.                 *)
YieldsAll ==
  ~rejected => /\ yielded \o Remaining = all
               /\ gen # << >> => Peek(gen[1]) = Head(Remaining)

(* "Postcondition of every Chain method: b must not be None" (nick.rs:144) *)
(* however deep the Chain is, so that unwrap never panics.                 *)
RECURSIVE HasB(_)
HasB(g) ==
  g.type = "Chain" => /\ g.b # << >> /\ HasB(g.b[1])
                      /\ g.a # << >> => HasB(g.a[1])
ChainKeepsB == gen # << >> => HasB(gen[1])

(* The nicks that Seq makes of one nick are all different, so that none is *)
(* tried twice, and there are as many as the limit says: the limit is the  *)
(* sum of the variances, which is never more than the number of different  *)
(* suffixes.  This takes suffixes whose texts can be told apart wherever   *)
(* they stand, as digits, letters and one Char can: a Choice with equal    *)
(* texts or with texts of different lengths, or a Char that is refused,    *)
(* may well repeat a nick.  Suffixes that are all empty have a limit of 0. *)
ToldApart(type) ==
  IsInjective(type) /\ \A i, j \in DOMAIN type : Len(type[i]) = Len(type[j]) /\ type[i] # << >>
RECURSIVE SeqDistinct(_)
SeqDistinct(g) ==
  LET isSeq == g.type = "SuffixGen" /\ g.strategy = "Seq"
      apart == /\ \E i \in DOMAIN g.suffixes : g.suffixes[i] # << >>
               /\ \A i \in DOMAIN g.suffixes : ToldApart(g.suffixes[i])
  IN /\ isSeq => (apart => IsInjective(NicksOf(g)))
     /\ g.type = "Chain" => SeqDistinct(g.b[1])
SeqNeverRepeats == gen # << >> => SeqDistinct(gen[1])

(* A generator yields what it was made of and stays whole, and Seq makes   *)
(* no nick twice of suffixes that can be told apart (client/nick.rs,       *)
(* client/nick/suffix.rs).                                                 *)
NicksAsMade == YieldsAll /\ ChainKeepsB /\ SeqNeverRepeats
=============================================================================
