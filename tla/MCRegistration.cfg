CONSTANTS
  Mech = {"PLAIN", "EXTERNAL", "OLD"}
  OneReply = {"PLAIN"}
  Cap = {"sasl", "sts", "x"}
  Want = {"x"}
  Common = {"sts"}
  Nicks <- MCNicks
  Pairs <- MCPairs
  Offered = {"PLAIN", "EXTERNAL", "OLD"}
  Withdraws = {{"sasl"}, {"x"}, {"sts"}, {"sasl", "x"}}
  Odd = {"PLAIN"}
  Taken = {"n1"}
  Invalid = {"n2"}
  Wild <- MCCustom
  ServerMsg <- MCServerMsg
SPECIFICATION RFairSpec
CHECK_DEADLOCK FALSE
INVARIANT NegotiationSound
INVARIANT Agreement
INVARIANT FailsForAReason
PROPERTY EndsOnce
PROPERTY RegistrationEnds
