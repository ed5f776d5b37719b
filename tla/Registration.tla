---------------------------- MODULE Registration ----------------------------
(***************************************************************************)
(* Register and the server, which is external.  A polite server keeps to   *)
(* the protocol, over a connection that delivers in order and takes its    *)
(* time: it answers what the handler sends, offers capabilities and        *)
(* mechanisms, may support fewer mechanisms by the time they are tried,    *)
(* refuses nicks, credentials and passwords, withdraws a capability, and   *)
(* pings; an old one does not know CAP.  Another server says anything at   *)
(* any time.                                                               *)
(***************************************************************************)
EXTENDS Register

CONSTANTS
  Pairs,           \* of options, and the polite server they are used with:
                   \* what it offers, the mechanisms it turns out to support,
                   \* whether it is old, or locked by a password
  Offered,         \* the mechanisms "sasl" lists
  Withdraws,       \* sets of capabilities it may withdraw
  Odd,             \* mechanisms it may have an unexpected challenge for
  Taken, Invalid,  \* nicks it refuses
  Wild,            \* options for the server that is not polite, and
  ServerMsg        \* what that one says

ASSUME RegistrationAssumption ==
  /\ \A o \in Wild \cup {p[1] : p \in Pairs} : o.sasl \in Seq(Mech)
  /\ \A msg \in ServerMsg : msg.k \in {"005", "010"} => msg.a \in Results

VARIABLES
  c2s, s2c,  \* what is in flight
  srv        \* the server

rvars == <<h, hist, c2s, s2c, srv>>

Server(polite, s) ==
  [polite |-> polite, is |-> s, avail |-> s.offers, enabled |-> {}, nick |-> "*",
   pass |-> FALSE, user |-> FALSE, open |-> FALSE, account |-> FALSE, del |-> ~polite,
   ping |-> ~polite, welcomed |-> ~polite]
NoServer == [offers |-> {}, supports |-> {}, old |-> FALSE, locked |-> FALSE]

RInit ==
  /\ s2c = << >>
  /\ \/ \E p \in Pairs :
          Init(p[1]) /\ c2s = RegisterMsgs(p[1]) /\ srv = Server(TRUE, p[2])
     \/ \E o \in Wild :
          Init(o) /\ c2s = << >> /\ srv = Server(FALSE, NoServer)

ClientHandles ==
  /\ s2c # << >>
  /\ Handle(Head(s2c))
  /\ s2c' = Tail(s2c)
  /\ c2s' = c2s \o h'.out
  /\ UNCHANGED srv

(* A server that says anything. *)
Anything ==
  /\ ~srv.polite
  /\ \E msg \in ServerMsg : Handle(msg)
  /\ UNCHANGED <<c2s, s2c, srv>>
-----------------------------------------------------------------------------
(* The server takes a message and answers it. *)
Take(k) == c2s # << >> /\ Head(c2s).k = k /\ c2s' = Tail(c2s)
Answer(msgs) == s2c' = s2c \o msgs
Client == UNCHANGED <<h, hist>>

ServerOldLs ==
  /\ Take("LS") /\ Client /\ UNCHANGED srv
  /\ srv.is.old
  /\ Answer(<<[k |-> "ERR"]>>)

ServerLs ==
  /\ Take("LS") /\ Client
  /\ ~srv.is.old
  /\ srv' = [srv EXCEPT !.open = TRUE]
  /\ \E first \in SUBSET srv.avail :
       LET line(caps, last) == [k |-> "LS", last |-> last, a |-> caps, mechs |-> Offered]
       IN Answer(IF first = {} THEN <<line(srv.avail, TRUE)>>
                 ELSE <<line(first, FALSE), line(srv.avail \ first, TRUE)>>)

(* The capabilities of one request are acknowledged in one or two messages. *)
ServerReq ==
  /\ Take("REQ") /\ Client
  /\ LET caps == Head(c2s).a
     IN IF caps \subseteq srv.avail
          THEN /\ srv' = [srv EXCEPT !.enabled = @ \cup caps]
               /\ \E first \in SUBSET caps :
                    Answer(<<[k |-> "ACK", a |-> first],
                             [k |-> "ACK", a |-> caps \ first]>>)
          ELSE /\ Answer(<<[k |-> "NAK", a |-> caps]>>)
               /\ UNCHANGED srv

ServerAuth ==
  /\ Take("AUTH") /\ Client /\ UNCHANGED srv
  /\ LET mech == Head(c2s).a
     IN IF mech \notin srv.is.supports
          THEN Answer(<<[k |-> "908", a |-> srv.is.supports], [k |-> "904"]>>)
          ELSE \E chal \in {"+"} \cup (IF mech \in Odd THEN {"data"} ELSE {}) :
                 Answer(<<[k |-> "AUTHENTICATE", a |-> chal]>>)

ServerReply ==
  /\ Take("REPLY") /\ Client
  /\ \/ /\ srv' = [srv EXCEPT !.account = TRUE]
        /\ Answer(<<[k |-> "900", a |-> srv.nick], [k |-> "903"]>>)
     \/ Answer(<<[k |-> "904"]>>) /\ UNCHANGED srv

ServerAbort == Take("ABORT") /\ Client /\ Answer(<<[k |-> "906"]>>) /\ UNCHANGED srv

ServerNick ==
  /\ Take("NICK") /\ Client
  /\ LET nick == Head(c2s).a
     IN CASE nick \in Taken -> Answer(<<[k |-> "433"]>>) /\ UNCHANGED srv
          [] nick \in Invalid -> Answer(<<[k |-> "432", a |-> TRUE]>>) /\ UNCHANGED srv
          [] OTHER -> srv' = [srv EXCEPT !.nick = nick] /\ UNCHANGED s2c

(* A password counts only before anything else. *)
ServerNotes ==
  /\ Take("PASS") \/ Take("USER") \/ Take("END") \/ Take("PONG")
  /\ Client /\ UNCHANGED s2c
  /\ srv' = [srv EXCEPT
       !.pass = @ \/ (Head(c2s).k = "PASS" /\ ~srv.user /\ srv.nick = "*" /\ ~srv.open),
       !.user = @ \/ Head(c2s).k = "USER",
       !.open = @ /\ Head(c2s).k # "END"]

ServerWelcomes ==
  /\ srv.user /\ srv.nick # "*" /\ ~srv.open /\ ~srv.welcomed
  /\ srv' = [srv EXCEPT !.welcomed = TRUE]
  /\ Answer(IF srv.is.locked /\ ~srv.pass THEN <<[k |-> "464"]>> ELSE <<[k |-> "001", a |-> srv.nick], [k |-> "002"], [k |-> "004"],
              [k |-> "005", a |-> "ServerError"], [k |-> "376"]>>)
  /\ Client /\ UNCHANGED c2s

ServerPings ==
  /\ ~srv.ping /\ ~srv.welcomed
  /\ srv' = [srv EXCEPT !.ping = TRUE]
  /\ Answer(<<[k |-> "PING"]>>)
  /\ Client /\ UNCHANGED c2s

ServerDeletes ==
  /\ ~srv.del /\ ~srv.welcomed /\ srv.open
  /\ \E caps \in Withdraws :
       /\ srv' = [srv EXCEPT !.del = TRUE, !.avail = @ \ caps, !.enabled = @ \ caps]
       /\ Answer(<<[k |-> "DEL", a |-> caps]>>)
  /\ Client /\ UNCHANGED c2s

ServerStep ==
  \/ ServerOldLs \/ ServerLs \/ ServerReq \/ ServerAuth \/ ServerReply \/ ServerAbort
  \/ ServerNick \/ ServerNotes \/ ServerWelcomes

RNext == Anything \/ ClientHandles \/ ServerStep \/ ServerPings \/ ServerDeletes

RSpec == RInit /\ [][RNext]_rvars

(* Both sides keep reading, and the server welcomes whom it can. *)
RFairSpec == RSpec /\ WF_rvars(ClientHandles) /\ WF_rvars(ServerStep)
-----------------------------------------------------------------------------
(* When registration with a polite server succeeds the client believes     *)
(* what the server believes: its nick, its account, the capabilities that  *)
(* are enabled (register/handler.rs, the fields of Registration).          *)
Agreement ==
  srv.polite /\ h.res = "ok" =>
    /\ h.nick = srv.nick
    /\ h.account = srv.account
    /\ {c \in Cap : h.caps[c] = "on"} = srv.enabled

(* A mechanism turns out not to be supported, and 908 leaves none to try   *)
(* after it, be it because it names none of them or because it names       *)
(* several.  Then CAP END is sent, and the 904 that follows 908 is an      *)
(* error of the server's like any other (register/handler.rs:264-265, 418, *)
(* 498-500), although a login may not be required.                         *)
UnsupportedAtLast ==
  LET sasl == h.opts.sasl
  IN \E k \in DOMAIN sasl :
       /\ sasl[k] \notin srv.is.supports
       /\ \A l \in DOMAIN sasl : l > k => sasl[l] \notin Named(srv.is.supports)

(* With a polite server registration fails only for a reason: no nick that *)
(* the server takes, a capability that is required or was withdrawn, no    *)
(* password for a locked server, no CAP, no login where it is required, a  *)
(* 904 after the last mechanism (HandlerError, register/handler.rs:96-113).*)
(* It panics only if two capabilities that it knows are withdrawn at once  *)
(* (register/handler.rs:487-491).                                          *)
FailsForAReason ==
  srv.polite =>
    /\ h.res \notin {"Broken", "Redirect"}
    /\ h.res = "NoNicks" => \A i \in DOMAIN Nicks : Nicks[i] \in Taken \cup Invalid
    /\ h.res = "MissingCaps" =>
         srv.del \/ (h.opts.require_caps /\ ~(Want \subseteq srv.is.offers))
    /\ h.res = "NoAccess" => srv.is.locked /\ ~h.opts.pass
    /\ h.res = "ServerError" => srv.is.old \/ UnsupportedAtLast
    /\ h.res = "panic" => Cardinality(srv.is.offers \ srv.avail) > 1
    /\ h.res = "NoLogin" => h.opts.require /\ ~srv.account

(* The server never waits for a CAP END that does not come, nor the client *)
(* for a welcome: registration with a polite server ends                   *)
(* (register/handler.rs:242-515).                                          *)
RegistrationEnds == <>(srv.polite => h.res # "none")
=============================================================================
