------------------------------ MODULE Register ------------------------------
(***************************************************************************)
(* Connection registration, client/register.rs and register/handler.rs:    *)
(* capability negotiation, SASL, nicks, and the end of registration.  The  *)
(* handler is one record h; Handle(msg) is its handle, a step that takes   *)
(* one message of the server and ends the handler when it has a result.    *)
(*                                                                         *)
(* A message has a kind k and, where the handler looks at it, an argument  *)
(* a.  Numerics that the handler treats alike share a kind.                *)
(***************************************************************************)
EXTENDS Sasl

CONSTANTS
  Cap,      \* names of capabilities; "sasl" and "sts" are two of them
  Want,     \* the capabilities of the options
  Common,   \* what common_caps returns
  Nicks     \* what the nick generator yields

ASSUME CapAssumption == {"sasl", "sts"} \cup Want \cup Common \subseteq Cap
ASSUME NicksAssumption == Nicks # << >>

VARIABLES
  h,
  hist  \* history: capabilities requested and acknowledged, whether CAP END
        \* was sent

vars == <<h, hist>>

NoAuth == [logic |-> << >>, queue |-> << >>, decoder |-> FALSE]

(* What the functions of a Register make of the user's options: whether    *)
(* there is a password, the mechanisms to try, whether to close the        *)
(* connection without a login, and the arguments of default_caps.          *)
(* register_as_custom takes any functions; AsClient and AsBot are the      *)
(* bundled ones, where the login is required by Options::auths.            *)
Custom(pass, sasl, require, add_common, require_caps) ==
  [pass |-> pass, sasl |-> sasl, require |-> require, add_common |-> add_common,
   require_caps |-> require_caps]
RequireSasl(sasl, allow_sasl_fail) == ~(allow_sasl_fail \/ sasl = << >>)
AsClient(pass, sasl, allow_sasl_fail) ==
  Custom(pass, sasl, RequireSasl(sasl, allow_sasl_fail), TRUE, FALSE)
AsBot(pass, sasl, allow_sasl_fail) ==
  Custom(pass, sasl, RequireSasl(sasl, allow_sasl_fail), FALSE, TRUE)

(* default_caps, for the capabilities that the server has. *)
DefaultCaps(o, avail) ==
  (IF o.require_caps THEN Want ELSE Want \cap avail)
    \cup (IF o.add_common THEN Common \cap avail ELSE {})

(* Register::handler; register_msgs has sent the first nick. *)
NeedsAuth(o) == o.require /\ o.sasl = << >>
RegisterMsgs(o) ==
  (IF o.pass THEN <<[k |-> "PASS"]>> ELSE << >>)
    \o <<[k |-> "LS"], [k |-> "USER"], [k |-> "NICK", a |-> Nicks[1]]>>

NewHandler(o) ==
  [opts |-> o, state |-> "Req", ackd |-> {}, auths |-> SaslQueue(o.sasl), auth |-> NoAuth,
   needs_auth |-> NeedsAuth(o), nicks |-> Tail(Nicks),
   nick |-> Nicks[1], account |-> FALSE, caps |-> [c \in Cap |-> "absent"],
   mechs |-> {}, sasl |-> "none", out |-> RegisterMsgs(o), res |-> "none"]

Fail(r, error) == [r EXCEPT !.res = error]
Push(r, msgs) == [r EXCEPT !.out = @ \o msgs]
-----------------------------------------------------------------------------
(* The authentication handler sees every message first, and whatever it    *)
(* answers in the end, capability negotiation is over.                     *)
SaslPart(r, msg) ==
  LET o == SaslHandle(r.auth, msg)
  IN IF r.state # "Sasl" THEN r
     ELSE [Push(r, o.out) EXCEPT !.auth = o.auth, !.sasl = o.res,
                                 !.state = IF o.res = "more" THEN "Sasl" ELSE "CapEnd"]

(* NameMap::try_insert of all of a message's capabilities, with the value  *)
(* of "sasl"; insert_or_update, which keeps a value that is there; and     *)
(* remove_raw, which panics when it is called for a second key that is     *)
(* there under one guard (FlatMap).                                        *)
Avail(r) == {c \in Cap : r.caps[c] # "absent"}
InsertCaps(r, msg) ==
  [r EXCEPT !.caps = [c \in Cap |-> IF c \in msg.a /\ @[c] = "absent" THEN "off"
                                    ELSE @[c]],
            !.mechs = IF "sasl" \in msg.a /\ r.caps["sasl"] = "absent"
                        THEN msg.mechs ELSE @]
EnableCaps(r, caps) ==
  [r EXCEPT !.caps = [c \in Cap |-> IF c \in caps THEN "on" ELSE @[c]],
            !.mechs = IF "sasl" \in caps \ Avail(r) THEN {} ELSE @]
RemoveCapsNot(r, caps) == r  \* mutated: DEL is only noted by Ack
RemoveCaps(r, caps) ==
  IF Cardinality(caps \cap Avail(r)) > 1 THEN Fail(r, "panic")
  ELSE [r EXCEPT !.caps = [c \in Cap |-> IF c \in caps THEN "absent" ELSE @[c]]]

(* The end of a CAP LS. *)
OnLs(r, msg) ==
  LET s == InsertCaps(r, msg)
      avail == Avail(s)
      auths == IF "sasl" \in avail THEN Retain(s.auths, s.mechs) ELSE << >>
      reqs == DefaultCaps(s.opts, avail) \cup (IF auths # << >> THEN {"sasl"} ELSE {})
      sent == reqs \ {"sts"}
  IN IF s.state # "Req" THEN s
     ELSE IF auths = << >> /\ s.needs_auth THEN Fail(s, "NoLogin")
     ELSE IF ~(reqs \subseteq avail) THEN Fail(s, "MissingCaps")
     ELSE IF sent = {} THEN [s EXCEPT !.state = "CapEnd", !.auths = auths]
     ELSE [Push(s, <<[k |-> "REQ", a |-> sent]>>)
             EXCEPT !.state = "Ack", !.ackd = sent, !.auths = auths]

(* HandlerState::ack *)
AckedAll(r) ==
  IF r.ackd # {} THEN r
  ELSE IF r.auths = << >> THEN [r EXCEPT !.state = "CapEnd"]
  ELSE LET auth == FromQueue(r.auths)
       IN [Push(r, <<AuthMsg(auth)>>) EXCEPT !.state = "Sasl", !.auth = auth,
                                              !.auths = << >>]
AckLeaving(r, ack, caps, left) ==
  IF r.state # "Ack" \/ r.res # "none" THEN r
  ELSE IF ~ack /\ r.ackd \cap caps # {} THEN Fail(r, "MissingCaps")
  ELSE AckedAll([r EXCEPT !.ackd = IF ack THEN left ELSE @])
AckAny(r, ack, caps) == AckLeaving(r, ack, caps, {})  \* mutated: one ACK for all
Ack(r, ack, caps) == AckLeaving(r, ack, caps, r.ackd \ caps)

OnCap(r, msg) ==
  CASE msg.k = "LS" -> IF msg.last THEN OnLs(r, msg) ELSE InsertCaps(r, msg)
    [] msg.k = "NEW" -> InsertCaps(r, msg)
    [] msg.k = "ACK" -> EnableCaps(Ack(r, TRUE, msg.a), msg.a)
    [] msg.k = "NAK" -> Ack(r, FALSE, msg.a)
    [] msg.k = "DEL" -> Ack(RemoveCaps(r, msg.a), FALSE, msg.a)
    [] msg.k = "LIST" -> Fail(r, "Broken")

NextNick(r) ==
  IF r.nicks = << >> THEN Fail(r, "NoNicks")
  ELSE [Push(r, <<[k |-> "NICK", a |-> Head(r.nicks)]>>)
          EXCEPT !.nick = Head(r.nicks), !.nicks = Tail(@)]

(* 432, after which the generator may have nothing left; 433 and 436. *)
OnNick(r, msg) ==
  NextNick(IF msg.k = "432" /\ ~msg.a THEN [r EXCEPT !.nicks = << >>] ELSE r)

(* 900 and 901; their source may be missing or bad, and so may the account *)
(* of 900, which then changes nothing.                                     *)
OnAccount(r, msg) ==
  LET s == [r EXCEPT !.account = msg.k = "900"]
  IN CASE msg.k = "900" /\ msg.a = "no account" -> r
       [] msg.a = "bad" -> Fail(s, "Broken")
       [] msg.a \in {"none", "no account"} -> s
       [] OTHER -> [s EXCEPT !.nick = msg.a]

(* 001 to 005, 010, 376 and 422 *)
OnWelcome(r, msg) ==
  LET ending == r.state = "AwaitEnd"
  IN IF msg.k \in {"001", "002", "004"} /\ r.needs_auth /\ ~r.account
       THEN Fail(r, "NoLogin")
     ELSE CASE msg.k = "001" -> [r EXCEPT !.nick = IF msg.a = "*" THEN @ ELSE msg.a,
                                          !.state = "AwaitEnd"]
            [] msg.k = "002" -> r
            [] msg.k = "004" -> IF ending THEN r ELSE Fail(r, "Broken")
            [] msg.k = "005" -> IF ending THEN r ELSE Fail(r, msg.a)
            [] msg.k = "010" -> Fail(r, msg.a)
            [] msg.k = "376" -> Fail(r, IF ending THEN "ok" ELSE "Broken")

SaslErrors == {"902", "904", "905", "906", "907"}

Match(r, msg, ignore_sasl) ==
  CASE msg.k \in {"001", "002", "004", "005", "010", "376"} -> OnWelcome(r, msg)
    [] msg.k \in {"432", "433"} -> OnNick(r, msg)
    [] msg.k = "464" -> Fail(r, "NoAccess")
    [] msg.k \in {"900", "901"} -> OnAccount(r, msg)
    [] msg.k \in {"LS", "NEW", "ACK", "NAK", "DEL", "LIST"} -> OnCap(r, msg)
    [] msg.k \in SaslErrors /\ ~ignore_sasl -> Fail(r, "ServerError")
    [] msg.k = "ERR" -> Fail(r, "ServerError")
    [] OTHER -> r

(* Negotiation ends as soon as nothing is left to negotiate. *)
CapEndTo(r, next) ==
  IF r.res # "none" \/ r.state # "CapEnd" THEN r
  ELSE IF r.needs_auth /\ ~r.account THEN Fail(r, "NoLogin")
  ELSE [Push(r, <<[k |-> "END"]>>) EXCEPT !.state = next]
CapEndNever(r) == r  \* mutated: an early return
CapEndStays(r) == CapEndTo(r, "CapEnd")  \* mutated: the state is not advanced
CapEnd(r) == CapEndTo(r, "AwaitWelcome")

HandleMsgIgnoring(r, msg, ignore_sasl) ==
  IF msg.k = "PING" THEN Push(r, <<[k |-> "PONG"]>>)
  ELSE CapEnd(Match(SaslPart(r, msg), msg, ignore_sasl))
HandleMsgAfter(r, msg) ==  \* mutated: looks at the state that SASL left
  HandleMsgIgnoring(r, msg, SaslPart(r, msg).state = "Sasl")
HandleMsg(r, msg) == HandleMsgIgnoring(r, msg, r.state = "Sasl")

Sent(k) == {m \in {h'.out[i] : i \in DOMAIN h'.out} : m.k = k}

Handle(msg) ==
  /\ h.res = "none"
  /\ h' = HandleMsg([h EXCEPT !.out = << >>], msg)
  /\ hist' = [req |-> hist.req \cup UNION {m.a : m \in Sent("REQ")},
               acked |-> hist.acked \cup (IF msg.k = "ACK" THEN msg.a ELSE {}),
               ended |-> hist.ended \/ Sent("END") # {}]

Init(o) ==
  /\ h = NewHandler(o)
  /\ hist = [req |-> {}, acked |-> {}, ended |-> FALSE]
-----------------------------------------------------------------------------
Kinds == {h.out[i].k : i \in DOMAIN h.out}
States == {"Req", "Ack", "Sasl", "AwaitWelcome", "AwaitEnd"}
Results == {"none", "ok", "NoAccess", "NoNicks", "NoLogin", "Redirect", "ServerError",
            "Broken", "MissingCaps", "panic"}

(* The handler has its type; between messages it is never in CapEnd, and   *)
(* it has capabilities to wait for exactly in the state Ack.               *)
TypeOK ==
  /\ h.res = "none" => h.state \in States
  /\ h.res \in Results
  /\ h.ackd \subseteq Cap /\ (h.state = "Ack" => h.ackd # {})
  /\ h.caps \in [Cap -> {"absent", "off", "on"}]
  /\ h.state = "Sasl" => h.auth.logic.mech \in Mech
  /\ h.account \in BOOLEAN /\ h.needs_auth \in BOOLEAN

(* Negotiation ends once, whatever the server says: after CAP END there is *)
(* no other CAP END, no CAP REQ and no AUTHENTICATE.                       *)
EndsOnce ==
  [][hist.ended => Sent("END") \cup Sent("REQ") \cup Sent("AUTH") \cup Sent("REPLY")
                     \cup Sent("ABORT") = {}]_vars

(* "If we're here, SASL was acked" (register/handler.rs:206): AUTHENTICATE *)
(* is sent only if the server acknowledged "sasl".                         *)
AuthOnlyAcked ==
  Kinds \cap {"AUTH", "REPLY", "ABORT"} # {} => "sasl" \in hist.acked

(* CAP END is sent only when the server has acknowledged everything that   *)
(* was requested (register/handler.rs:192-216).                            *)
EndOnlyAcked == hist.ended => hist.req \subseteq hist.acked

(* "sts" is "never ... requested, only checked for presence" (register.rs: *)
(* 54-55), though caps may ask for it.                                     *)
StsNotRequested == "sts" \notin hist.req

(* In every state of negotiation: the handler's types, SASL only where the *)
(* server has agreed to it, CAP END only when it has agreed to everything, *)
(* "sts" not requested (register/handler.rs).                              *)
NegotiationSound == TypeOK /\ AuthOnlyAcked /\ EndOnlyAcked /\ StsNotRequested

(* auth tells "whether to close the connection on non-authentication"      *)
(* (register.rs:57-58), in Options "whether to continue registration if    *)
(* SASL authentication fails" (register/defaults.rs:36).                   *)
LoginRequired == h.opts.require /\ h.res = "ok" => h.account
=============================================================================
