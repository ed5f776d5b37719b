------------------------------ MODULE MCText --------------------------------
(***************************************************************************)
(* The components that take text apart and put it together, for TLC.  They *)
(* do not share state: a behaviour exercises one of them, the others stay  *)
(* as they are made.                                                       *)
(***************************************************************************)
EXTENDS Builder, Message, Lines, Nicks, Modes, Chunks

VARIABLE part

SeqsTo(A, n) == UNION {[1 .. k -> A] : k \in 0 .. n}

(* Received lines: arguments, sources, tags, commands and CTCP. *)
Text(first, A, n, last) == {first \o s \o last : s \in SeqsTo(A, n)}
MCLines ==
  Text(<<"a">>, {"a", " ", ":", "\t"}, 5, << >>)
    \cup Text(<<":">>, {"a", "!", "@", " ", "%"}, 5, << >>)
    \cup Text(<<"@">>, {"a", ":", "=", ";", "\\"}, 5, <<" ", "a">>)
    \cup Text(<< >>, {"a", "1", " ", "@", ":"}, 4, << >>)
    \cup Text(<< >>, {"a", "^", " "}, 5, << >>)
MCEditWords == {<<"a">>, <<"a", ":">>, <<"a", "!", "s", "@", "a">>}
MCEditLines == {<< >>, <<"a">>, <<":", "a">>, <<"a", " ", "a">>}
MCEditKeys == {<<"a">>, <<"s">>}
MCEditValues == {<< >>, <<"a">>, <<";">>}

(* A space tells only the Decoder something, and only at the start. *)
MCStreams == SeqsTo(StreamByte, 4) \cup SeqsTo(StreamByte \ {" "}, 5)

(* An empty Choice; a Char, taken and refused; digits; and Choices.        *)
MCSuffixTypes ==
  {<< >>, <<<<"_">>>>, <<<< >>>>, <<<<"0">>, <<"1">>, <<"2">>>>,
   <<<<"_">>, <<"_", "_">>>>, <<<<"x">>, <<"x">>>>}
MCLcg(state) == (5 * state + 3) % 16

(* CHANMODES: few sets, more than four sets, and modes in distant sets. *)
MCTokens ==
  SeqsTo({",", "m", "n", "1"}, 4)
    \cup {<<",", ",", ",">> \o s : s \in SeqsTo({",", "m", "n"}, 3)}
    \cup {s \o <<",", ",">> \o t : s \in SeqsTo({"m", "n"}, 2), t \in SeqsTo({",", "m", "n"}, 3)}
MCPrefixTokens == SeqsTo({"m", "n", "1"}, 3) \X SeqsTo({"@", "+", "8"}, 3)
MCModeSets == SUBSET {82, 83, 90, 97, 114, 115}

MCTexts == UNION {[1 .. k -> {"+", "A"}] : k \in {0, 4, 8, 12}}
MCCapLists == SeqsTo(1 .. 3, 6) \cup SeqsTo({1, 5, 8, 12}, 3)

NoModes == OMInit({<< >>}, {<<<< >>, << >>>>}, {{}})
NoChunks == KInit({<< >>}, {<< >>}, {TRUE})

TextInit ==
  /\ part \in {"splitter", "builder", "message", "lines", "nicks", "modes", "chunks"}
  /\ SInit(IF part = "splitter" THEN SplitterStrings ELSE {<< >>})
  /\ BInit(IF part = "builder" THEN Marked ELSE {[bytes |-> << >>, utf8 |-> FALSE]})
  /\ MInit(IF part = "message" THEN MCLines ELSE {<< >>})
  /\ LInit(IF part = "lines" THEN MCStreams ELSE {<< >>})
  /\ NInit(IF part = "nicks" THEN Generators ELSE {NickOnly(Plain("p"))})
  /\ IF part = "modes"
       THEN \/ OMInit(MCTokens, {<<<< >>, << >>>>}, {{}})
            \/ OMInit({<< >>}, MCPrefixTokens, {{}})
            \/ OMInit({<< >>}, {<<<< >>, << >>>>}, MCModeSets)
       ELSE NoModes
  /\ IF part = "chunks"
       THEN KInit(MCTexts, {<< >>}, {TRUE}) \/ KInit({<< >>}, MCCapLists, BOOLEAN)
       ELSE NoChunks

TextNext ==
  \/ part = "splitter" /\ SNext /\ UNCHANGED <<part, built, mvars, lvars, nvars, omvars, kvars>>
  \/ part = "builder" /\ BNext /\ UNCHANGED <<part, svars, mvars, lvars, nvars, omvars, kvars>>
  \/ part = "message" /\ MNext /\ UNCHANGED <<part, svars, built, lvars, nvars, omvars, kvars>>
  \/ part = "lines" /\ LNext /\ UNCHANGED <<part, svars, built, mvars, nvars, omvars, kvars>>
  \/ part = "nicks" /\ NNext /\ UNCHANGED <<part, svars, built, mvars, lvars, omvars, kvars>>
  \/ part = "modes" /\ OMNext /\ UNCHANGED <<part, svars, built, mvars, lvars, nvars, kvars>>
  \/ part = "chunks" /\ KNext /\ UNCHANGED <<part, svars, built, mvars, lvars, nvars, omvars>>

TextSpec ==
  /\ TextInit
  /\ [][TextNext]_<<part, svars, built, mvars, lvars, nvars, omvars, kvars>>
=============================================================================
