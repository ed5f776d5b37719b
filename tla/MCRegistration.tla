--------------------------- MODULE MCRegistration ---------------------------
(* Instances of Registration for TLC: the bundled clients and bots, with   *)
(* and without SASL, and a custom Register that asks for a login without   *)
(* having a mechanism; servers with all, some or none of the capabilities. *)
EXTENDS Registration

MCNicks == <<"n1", "n2", "n3">>
MCSasl == {<< >>, <<"PLAIN", "EXTERNAL">>}
MCBundled ==
  {AsClient(pass, sasl, fail) : pass \in BOOLEAN, sasl \in MCSasl, fail \in BOOLEAN}
    \cup {AsBot(FALSE, sasl, TRUE) : sasl \in MCSasl}
MCCustom == {Custom(FALSE, sasl, TRUE, TRUE, TRUE) : sasl \in MCSasl}
MCSupports == {{"PLAIN"}, {"OLD"}, {"EXTERNAL", "OLD"}, {"PLAIN", "EXTERNAL"}}
MCServers ==
  [offers : {Cap}, supports : MCSupports, old : {FALSE},
   locked : {FALSE}]
    \cup [offers : {{}, {"sasl"}}, supports : {{"EXTERNAL"}}, old : BOOLEAN,
          locked : BOOLEAN]
(* A password is given where it makes a difference. *)
MCPairs ==
  {p \in (MCBundled \cup MCCustom) \X MCServers : p[1].pass => p[2].locked}

MCLogin == {<<AsBot(FALSE, <<"PLAIN", "EXTERNAL">>, FALSE),
              [offers |-> Cap, supports |-> {"PLAIN", "EXTERNAL"}, old |-> FALSE,
               locked |-> FALSE]>>}

MCMechSets == {{"PLAIN"}, {"PLAIN", "EXTERNAL"}}
MCKinds == {"PING", "002", "004", "376", "433", "464", "LIST", "902", "903", "905",
            "906", "907", "ERR", "NOTICE"}
MCServerMsg ==
  [k : MCKinds]
    \cup [k : {"LS"}, last : BOOLEAN, a : {{}, {"sasl"}, Cap}, mechs : MCMechSets]
    \cup [k : {"NEW"}, a : {{"sasl"}}, mechs : {{"EXTERNAL"}}]
    \cup [k : {"ACK", "NAK", "DEL"}, a : SUBSET (Cap \ {"sts"})]
    \cup [k : {"001"}, a : {"*"}]
    \cup [k : {"005", "010"}, a : {"Redirect", "ServerError"}]
    \cup [k : {"432"}, a : BOOLEAN]
    \cup [k : {"900", "901"}, a : {"none", "no account", "bad"}]
    \cup [k : {"908"}, a : MCMechSets]
    \cup [k : {"AUTHENTICATE"}, a : {"+", "none", "full", "data", "bad"}]
=============================================================================
