CONSTANTS
  Mech = {"PLAIN", "EXTERNAL", "OLD"}
  OneReply = {"PLAIN"}
  Cap = {"sasl", "sts", "x"}
  Want = {"x"}
  Common = {"sts"}
  Nicks <- MCNicks
  Pairs <- MCLogin
  Offered = {"PLAIN", "EXTERNAL", "OLD"}
  Withdraws = {{"sasl"}, {"x"}, {"sts"}}
  Odd = {}
  Taken = {"n1"}
  Invalid = {"n2"}
  Wild = {}
  ServerMsg <- MCServerMsg
SPECIFICATION RSpec
CHECK_DEADLOCK FALSE
INVARIANT LoginRequired
