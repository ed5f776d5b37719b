------------------------------ MODULE Message ------------------------------
(***************************************************************************)
(* IRC messages (ircmsg): how a line becomes tags, a source, a kind and    *)
(* arguments, how the parts are edited, and how they are written back.     *)
(* Text is a sequence of one-byte strings; lower and upper case letters    *)
(* stand for all letters, "1" for all digits, and "^" for \x01.  An        *)
(* optional value is a sequence of length 0 or 1.  Tags are a set of pairs *)
(* with distinct keys: the order FlatMap keeps them in does not matter.    *)
(***************************************************************************)
EXTENDS Integers, Sequences, FiniteSets
LOCAL INSTANCE SequencesExt

CONSTANTS EditWords, EditLines,  \* the Args and Lines used to edit arguments
          EditKeys, EditValues,  \* the keys and values used to edit tags
          MaxArgs                \* arguments of an edited message

VARIABLES line,  \* what was received
          msg    \* the message, if there is one

mvars == <<line, msg>>
-----------------------------------------------------------------------------
Whitespace == {" ", "\t"}
UpperOf(b) == CASE b = "a" -> "A" [] b = "s" -> "S" [] OTHER -> b
Upper(s) == [i \in DOMAIN s |-> UpperOf(s[i])]

(* How far s goes without a byte of S, and what is before and after that. *)
UpTo(s, S) ==
  LET i == SelectInSeq(s, LAMBDA b : b \in S) IN IF i = 0 THEN Len(s) ELSE i - 1
Take(s, n) == SubSeq(s, 1, n)
Skip(s, n) == SubSeq(s, n + 1, Len(s))
ConsumeWs(s) ==
  LET i == SelectInSeq(s, LAMBDA b : b \notin Whitespace) IN IF i = 0 THEN << >> ELSE Skip(s, i - 1)
NextWord(s) == Take(s, UpTo(s, {" "}))
StartsWith(s, b) == s # << >> /\ s[1] = b

(* arg_first_check, and the types it is part of *)
ArgFirstCheck(s) == s # << >> /\ s[1] # ":"
IsArg(s) == ArgFirstCheck(s) /\ \A i \in DOMAIN s : s[i] # " "
NotInKey == {"=", ";", " "}
NotInNick == {"!", "@", " "}
NotInUser == {"@", "%", " "}
-----------------------------------------------------------------------------
NoArgs == [words |-> << >>, long |-> << >>]

AddImpl(args, s) ==
  IF ~IsArg(s) THEN [args EXCEPT !.long = <<s>>]
  ELSE [words |-> Append(args.words, s), long |-> << >>]

RECURSIVE ParseArgsFrom(_, _)
ParseArgsFrom(rest, args) ==
  LET s == ConsumeWs(rest)
      word == NextWord(s)
  IN IF ArgFirstCheck(word)
     THEN ParseArgsFrom(Skip(s, Len(word)), [args EXCEPT !.words = Append(@, word)])
     ELSE IF StartsWith(word, ":") THEN AddImpl(args, Skip(s, 1)) ELSE args
ParseArgs(s) == ParseArgsFrom(s, NoArgs)

AddWord(args, w) == [args EXCEPT !.words = Append(@, w)]
AddBeforeLast(args, w) ==
  IF args.long = << >> /\ args.words # << >>
  THEN [args EXCEPT !.words = Front(@) \o <<w, Last(@)>>]
  ELSE AddWord(args, w)
SetArgs(words, last) ==
  LET args == [words |-> words, long |-> << >>]
  IN IF last = << >> THEN args ELSE AddImpl(args, last[1])

LenBytes(args) ==
  FoldLeft(LAMBDA n, w : n + Len(w) + 1, 0, args.words \o args.long)
WriteArgsWith(args, mark) ==
  FlattenSeq([i \in DOMAIN args.words |-> <<" ">> \o args.words[i]])
  \o (IF args.long = << >> THEN << >> ELSE mark \o args.long[1])
WriteArgsBare(args) == WriteArgsWith(args, <<" ">>)  \* mutated: no colon
WriteArgs(args) == WriteArgsWith(args, <<" ", ":">>)
-----------------------------------------------------------------------------
UnescapeByte(b) == CASE b = ":" -> ";" [] b = "s" -> " " [] OTHER -> b
EscapeByte(b) == CASE b = ";" -> <<"\\", ":">>
                   [] b = " " -> <<"\\", "s">>
                   [] b = "\\" -> <<"\\", "\\">>
                   [] OTHER -> <<b>>
Escape(v) == FlattenSeq([i \in DOMAIN v |-> EscapeByte(v[i])])

(* The first backslash is kept, whatever it escapes; the loop starts with  *)
(* the byte after it.                                                      *)
Unescape(v) ==
  LET first == UpTo(v, {"\\"})
      step(acc, b) ==
        IF acc.esc THEN [out |-> Append(acc.out, UnescapeByte(b)), esc |-> FALSE]
        ELSE IF b = "\\" THEN [acc EXCEPT !.esc = TRUE]
        ELSE [acc EXCEPT !.out = Append(@, b)]
      start == [out |-> Take(v, first) \o <<UnescapeByte("\\")>>, esc |-> FALSE]
  IN IF first = Len(v) THEN v ELSE FoldLeft(step, start, Skip(v, first + 1)).out

InsertPair(tags, key, value) ==
  {t \in tags : t.key # key} \cup {[key |-> key, value |-> value]}
RemoveKey(tags, key) == {t \in tags : t.key # key}

(* The loop never ends on a key that starts with a colon: it is no Key,    *)
(* and consume_invalid finds nothing to consume.  Of two equal keys the    *)
(* last is kept: the sort of from_vec is stable, and do_dedup keeps it.    *)
RECURSIVE ParseTagsFrom(_, _)
ParseTagsFrom(s, tags) ==
  LET key == Take(s, UpTo(s, NotInKey))
      rest == Skip(s, Len(key))
      value == Take(Skip(rest, 1), UpTo(Skip(rest, 1), {";"}))
  IN IF s = << >> THEN <<tags>>
     ELSE IF StartsWith(key, ":") THEN << >>
     ELSE IF key = << >>
          THEN ParseTagsFrom(Skip(s, SelectInSeq(s \o <<"a">>, LAMBDA b : b \notin NotInKey) - 1), tags)
     ELSE IF StartsWith(rest, "=")
          THEN ParseTagsFrom(Skip(rest, Len(value) + 2), InsertPair(tags, key, Unescape(value)))
     ELSE ParseTagsFrom(Skip(rest, 1), InsertPair(tags, key, << >>))
ParseTags(s) == ParseTagsFrom(s, {})

WriteTags(tags) ==
  LET pairs == SetToSeq(tags)
      pair(t) == t.key \o (IF t.value = << >> THEN << >> ELSE <<"=">> \o Escape(t.value))
  IN FlattenSeq([i \in DOMAIN pairs |-> (IF i = 1 THEN <<"@">> ELSE <<";">>) \o pair(pairs[i])])
-----------------------------------------------------------------------------
(* UserHost::parse and Source::parse; no result is an error. *)
ParseUserHost(s) ==
  LET user == Take(s, UpTo(s, {"@"}))
      host == Skip(s, Len(user) + 1)
  IN IF ArgFirstCheck(user) /\ UpTo(user, NotInUser) = Len(user) /\ host # << >>
     THEN <<[user |-> <<user>>, host |-> host]>> ELSE << >>
ParseSource(s) ==
  LET nick == Take(s, UpTo(s, NotInNick))
      rest == Skip(s, Len(nick))
      userhost == IF StartsWith(rest, "!") THEN ParseUserHost(Skip(rest, 1))
                  ELSE IF StartsWith(rest, "@") /\ Len(rest) > 1
                       THEN <<[user |-> << >>, host |-> Skip(rest, 1)]>> ELSE << >>
  IN IF ArgFirstCheck(nick) /\ (rest = << >> \/ userhost # << >>)
     THEN <<[nick |-> nick, userhost |-> userhost]>> ELSE << >>

SourceLen(src) ==
  Len(src.nick) +
  (IF src.userhost = << >> THEN 0
   ELSE LET uh == src.userhost[1]
        IN 1 + Len(uh.host) + (IF uh.user = << >> THEN 0 ELSE Len(uh.user[1]) + 1))
WriteSource(src) ==
  src.nick \o
  (IF src.userhost = << >> THEN << >>
   ELSE LET uh == src.userhost[1]
        IN (IF uh.user = << >> THEN << >> ELSE <<"!">> \o uh.user[1]) \o <<"@">> \o uh.host)
-----------------------------------------------------------------------------
(* Numeric::from_bytes and Cmd::from_word *)
ParseKind(w) ==
  IF Len(w) = 3 /\ \A i \in DOMAIN w : w[i] = "1" THEN <<w>>
  ELSE IF \A i \in DOMAIN w : UpperOf(w[i]) \in {"A", "S"} THEN <<Upper(w)>>
  ELSE << >>

(* parse and ServerMsg::parse: tags are expected first, then a source.     *)
(* No result is an error, or no end.                                       *)
ParseMsg(s) ==
  LET s1 == ConsumeWs(s)
      w1 == NextWord(s1)
      tagged == StartsWith(w1, "@")
      tags == IF tagged THEN ParseTags(Skip(w1, 1)) ELSE <<{}>>
      s2 == IF tagged THEN ConsumeWs(Skip(s1, Len(w1))) ELSE s1
      w2 == NextWord(s2)
      sourced == StartsWith(w2, ":")
      source == IF sourced THEN ParseSource(Skip(w2, 1)) ELSE << >>
      s3 == IF sourced THEN ConsumeWs(Skip(s2, Len(w2))) ELSE s2
      w3 == NextWord(s3)
      kind == ParseKind(w3)
  IN IF tags = << >> \/ (sourced /\ source = << >>) \/ w3 = << >> \/ kind = << >>
     THEN << >>
     ELSE <<[tags |-> tags[1], source |-> source, kind |-> kind[1],
             args |-> ParseArgs(Skip(s3, Len(w3)))]>>

BytesLeft(m) ==
  510 - (Len(m.kind) + (IF m.source = << >> THEN 0 ELSE 2 + SourceLen(m.source[1]))
                     + (IF m.args = NoArgs THEN 0 ELSE LenBytes(m.args) + 1))

WriteMsg(m) ==
  (IF m.tags = {} THEN << >> ELSE WriteTags(m.tags) \o <<" ">>)
  \o (IF m.source = << >> THEN << >> ELSE <<":">> \o WriteSource(m.source[1]) \o <<" ">>)
  \o m.kind \o WriteArgs(m.args)

(* MaybeCtcp::parse, into_line and len *)
ParseCtcp(s) ==
  LET inner == Take(Skip(s, 1), UpTo(Skip(s, 1), {"^"}))
      cmd == NextWord(inner)
  IN IF StartsWith(s, "^") THEN [cmd |-> Upper(cmd), body |-> Skip(inner, Len(cmd) + 1)]
     ELSE [cmd |-> << >>, body |-> s]
CtcpLine(c) ==
  IF c.cmd = << >> THEN c.body ELSE <<"^">> \o c.cmd \o <<" ">> \o c.body \o <<"^">>
CtcpLen(c) == Len(c.body) + (IF c.cmd = << >> THEN 0 ELSE Len(c.cmd) + 3)
-----------------------------------------------------------------------------
MInit(lines) == line \in lines /\ msg = << >>

ServerMsgParse == msg = << >> /\ msg' = ParseMsg(line) /\ UNCHANGED line

ServerMsgNew ==
  /\ msg = << >> /\ line = << >>
  /\ \E kind \in {<<"A">>, <<"1", "1", "1">>}, source \in {<< >>} \cup {ParseSource(s) : s \in EditWords} :
       msg' = <<[tags |-> {}, source |-> source, kind |-> kind, args |-> NoArgs]>>
  /\ UNCHANGED line

EditArgs(args) ==
  /\ Len(args.words) + Len(args.long) <= MaxArgs
  /\ msg' = <<[msg[1] EXCEPT !.args = args]>>
  /\ UNCHANGED line
EditTags(tags) == msg' = <<[msg[1] EXCEPT !.tags = tags]>> /\ UNCHANGED line

(* Edits are explored from built messages only, to bound the run: parsed   *)
(* ones are edited in the same way.                                        *)
MEdit ==
  /\ msg # << >> /\ line = << >>
  /\ \/ \E w \in EditWords : \/ EditArgs(AddWord(msg[1].args, w))
                             \/ EditArgs(AddBeforeLast(msg[1].args, w))
     \/ \E s \in EditLines : EditArgs(AddImpl(msg[1].args, s))
     \/ \E w \in EditWords, last \in {<< >>} \cup {<<s>> : s \in EditLines} :
          EditArgs(SetArgs(<<w>>, last))
     \/ EditArgs(NoArgs)
     \/ \E key \in EditKeys, value \in EditValues : EditTags(InsertPair(msg[1].tags, key, value))
     \/ \E key \in EditKeys : EditTags(RemoveKey(msg[1].tags, key))

MNext == ServerMsgParse \/ ServerMsgNew \/ MEdit
-----------------------------------------------------------------------------
(* "only the last argument may be longer than one word" (args.rs:11): all  *)
(* the words are Args, so none is empty or starts with a colon, and the    *)
(* long argument is there only when it could not be a word.                *)
ArgsWellFormed ==
  msg # << >> => /\ \A i \in DOMAIN msg[1].args.words : IsArg(msg[1].args.words[i])
                 /\ msg[1].args.long # << >> => ~IsArg(msg[1].args.long[1])

(* A message that is written and parsed again is the same message.  Two    *)
(* kinds of messages are excepted: an argument that starts with a tab,     *)
(* which consume_whitespace drops, and a tag value that has to be escaped, *)
(* since unescape leaves the first escape as it is.                        *)
RoundTrip ==
  msg # << >> =>
    \/ \E i \in DOMAIN msg[1].args.words : StartsWith(msg[1].args.words[i], "\t")
    \/ \E t \in msg[1].tags : Escape(t.value) # t.value
    \/ ParseMsg(WriteMsg(msg[1])) = msg

(* bytes_left, by which messages are split, counts the bytes that are      *)
(* written without the tags, and one too many when the last argument is a  *)
(* word: it never promises room that is not there.                         *)
BytesLeftPessimistic ==
  msg # << >> =>
    LET m == [msg[1] EXCEPT !.tags = {}]
        spare == IF m.args.words # << >> /\ m.args.long = << >> THEN 1 ELSE 0
    IN 510 - BytesLeft(m) = Len(WriteMsg(m)) + spare

(* A CTCP body that is put into a line and taken out again is the same,    *)
(* and len() is the length of that line.                                   *)
CtcpRoundTrip ==
  LET c == ParseCtcp(line)
  IN ParseCtcp(CtcpLine(c)) = c /\ CtcpLen(c) = Len(CtcpLine(c))

(* What is parsed, edited and written stays the message it was, and fits   *)
(* where bytes_left says it fits (ircmsg/server.rs, args.rs, ctcp.rs).     *)
MessagesSurvive ==
  ArgsWellFormed /\ RoundTrip /\ BytesLeftPessimistic /\ CtcpRoundTrip
=============================================================================
