------------------------------- MODULE Modes -------------------------------
(***************************************************************************)
(* Channel modes (state/mode.rs): the types of modes, from the CHANMODES   *)
(* and PREFIX tokens of a server, and their later changes.  A ModeSet is a *)
(* set of modes here, and the bits of a u64 where it is iterated over.     *)
(* In the tokens "1" is a byte that is no mode letter, and "8" a prefix    *)
(* that is not ASCII.                                                      *)
(***************************************************************************)
EXTENDS Naturals, Sequences, FiniteSets
LOCAL INSTANCE SequencesExt

CONSTANT ModeLetters  \* the mode letters of the tokens

VARIABLES
  types,    \* ModeTypes: the sets of types A, B, C and D
  overlap,  \* what from_sets removed
  extra,    \* the sets after the fourth
  status,   \* StatusModes: pairs of a mode and its prefix
  token,    \* the CHANMODES token all of this was parsed from
  edited,   \* insert or insert_set was called
  missed,   \* modes that from_sets leaves in two sets
  bits,     \* a ModeSet being iterated over, as a set of bit indices
  ahead,    \* what next() has yielded
  behind    \* what next_back() has yielded

omvars == <<types, overlap, extra, status, token, edited, missed, bits, ahead, behind>>

TypeA == 1
TypeB == 2
TypeC == 3
TypeD == 4
StatusType == 5
NoPrefix == "none"
-----------------------------------------------------------------------------
(* Mode::index and Mode::new_from_index *)
Index(raw) == 2 * (26 - (raw % 32)) + IF raw >= 97 THEN 1 ELSE 0
NewFromIndex(index) == 65 + 32 * (index % 2) + (25 - index \div 2)

IteratorNext ==
  /\ bits # {}
  /\ LET highest_bit == CHOOSE i \in bits : \A j \in bits : j <= i
     IN /\ ahead' = Append(ahead, NewFromIndex(highest_bit))
        /\ bits' = bits \ {Index(NewFromIndex(highest_bit))}
  /\ UNCHANGED <<types, overlap, extra, status, token, edited, missed, behind>>
IteratorNextBack ==
  /\ bits # {}
  /\ LET lowest_bit == CHOOSE i \in bits : \A j \in bits : i <= j
     IN /\ behind' = <<NewFromIndex(lowest_bit)>> \o behind
        /\ bits' = bits \ {Index(NewFromIndex(lowest_bit))}
  /\ UNCHANGED <<types, overlap, extra, status, token, edited, missed, ahead>>
-----------------------------------------------------------------------------
(* from_sets: the pair of A and C and the pair of A and D are not looked   *)
(* at, and C and D are twice.                                              *)
Overlap(a, b, c, d) == (a \cap b) \cup (b \cap c) \cup (c \cap d) \cup (b \cap d)
FromSetsLess(s, less) == [t \in 1..4 |-> s[t] \ less]
FromSetsKeep(s) == FromSetsLess(s, {})  \* mutated: overlaps are not removed
FromSets(s) == FromSetsLess(s, Overlap(s[1], s[2], s[3], s[4]))

(* ModeTypes::parse, and the rest of it in from_isupport: a comma ends a   *)
(* set, and what is no letter is skipped.                                  *)
SetsOf(tok) ==
  FoldLeft(LAMBDA sets, b : IF b = "," THEN Append(sets, {})
                            ELSE IF b \in ModeLetters
                                 THEN [sets EXCEPT ![Len(sets)] = @ \cup {b}] ELSE sets,
           <<{}>>, tok)
FirstFour(sets) == [t \in 1..4 |-> IF t <= Len(sets) THEN sets[t] ELSE {}]
Extra(sets) ==  \* an empty set at the end is not pushed
  LET rest == SubSeq(sets, 5, Len(sets))
  IN IF rest # << >> /\ Last(rest) = {} THEN Front(rest) ELSE rest

(* StatusModes::parse, between and after the parentheses.  When there are  *)
(* no more prefixes the modes have none; no result is an error.            *)
StatusStep(acc, mode) ==
  LET i == acc.i
      bare == acc.skip \/ i > Len(acc.prefixes) \/ (i <= Len(acc.prefixes) /\ acc.prefixes[i] = "8")
      prefix == IF bare THEN NoPrefix ELSE acc.prefixes[i]
      dup == \E k \in DOMAIN acc.map : acc.map[k][1] = mode \/ acc.map[k][2] = prefix
      next == [acc EXCEPT !.i = i + 1, !.skip = bare]
  IN IF ~acc.ok \/ mode \notin ModeLetters THEN next
     ELSE IF dup THEN [next EXCEPT !.ok = FALSE]
     ELSE [next EXCEPT !.map = Append(@, <<mode, prefix>>)]
ParseStatus(modes, prefixes) ==
  LET acc == FoldLeft(StatusStep, [map |-> << >>, i |-> 1, skip |-> FALSE, ok |-> TRUE,
                                   prefixes |-> prefixes], modes)
  IN IF acc.ok THEN acc.map ELSE << >>

(* ServerChanModes::from_isupport, with both tokens *)
OMInit(tokens, prefixTokens, letters) ==
  /\ token \in tokens
  /\ LET sets == SetsOf(token)
         s == FirstFour(sets)
     IN /\ types = FromSets(s)
        /\ overlap = Overlap(s[1], s[2], s[3], s[4])
        /\ extra = Extra(sets)
        /\ missed = ((s[1] \cap s[3]) \cup (s[1] \cap s[4])) \ overlap
  /\ \E p \in prefixTokens : status = ParseStatus(p[1], p[2])
  /\ bits \in {{Index(l) : l \in ls} : ls \in letters}
  /\ ahead = << >> /\ behind = << >> /\ edited = FALSE

(* insert, and insert_set for several modes *)
InsertSet(mode_set, mode_type) ==
  /\ types' = [t \in 1..4 |-> IF t = mode_type THEN types[t] \cup mode_set ELSE types[t] \ mode_set]
  /\ missed' = missed \ mode_set /\ edited' = TRUE
  /\ UNCHANGED <<overlap, extra, status, token, bits, ahead, behind>>

OMNext ==
  \/ IteratorNext \/ IteratorNextBack
  \/ \E mode_set \in SUBSET ModeLetters, mode_type \in TypeA..StatusType :
       InsertSet(mode_set, mode_type)

TypesOf(mode) == {t \in 1..4 : mode \in types[t]}
GetPrefix(mode) == {p[2] : p \in {q \in {status[i] : i \in DOMAIN status} : q[1] = mode}} \ {NoPrefix}
GetMode(prefix) == {p[1] : p \in {q \in {status[i] : i \in DOMAIN status} : q[2] = prefix}}
-----------------------------------------------------------------------------
(* No mode is of two types, whatever the token says and however types are  *)
(* changed: get() would answer by the order it looks.  The exception is a  *)
(* mode the token lists as A and again as C or D, until it is inserted.    *)
OneTypePerMode == \A mode \in ModeLetters \ missed : Cardinality(TypesOf(mode)) <= 1

(* Nothing of the token is lost: until types are changed, every letter of  *)
(* it has a type, or is in the overlap, or in a set after the fourth.      *)
TokenAccountedFor ==
  ~edited => \A mode \in {token[i] : i \in DOMAIN token} \cap ModeLetters :
               \/ TypesOf(mode) # {} \/ mode \in overlap
               \/ \E i \in DOMAIN extra : mode \in extra[i]

(* Status modes and prefixes determine each other: get_mode of get_prefix  *)
(* is the mode itself, and no two modes share a prefix.                    *)
PrefixesInverse ==
  \A mode \in ModeLetters :
    /\ Cardinality(GetPrefix(mode)) <= 1
    /\ \A prefix \in GetPrefix(mode) : GetMode(prefix) = {mode}

(* A ModeSet is iterated from both ends in the order Mode declares, by     *)
(* letter and then lower case first, each mode once ("r < R < s").         *)
IterationOrdered ==
  LET rank(raw) == 2 * (raw % 32) + (IF raw >= 97 THEN 0 ELSE 1)
      out == ahead \o behind
  IN \A i, j \in DOMAIN out : i < j => rank(out[i]) < rank(out[j])

(* What the server says of modes is kept and is unambiguous (state/        *)
(* mode.rs).                                                               *)
ModesUnambiguous ==
  OneTypePerMode /\ TokenAccountedFor /\ PrefixesInverse /\ IterationOrdered
=============================================================================
