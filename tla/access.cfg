\* One person who joins and leaves the allow list, requests on the server and
\* a command on a laptop, one reconnect flow and two consents.
SPECIFICATION DriveAuthSpec
CONSTANTS
  c1 = c1
  server = server
  laptop = laptop
  Users = {"ann"}
  MaxAge = 1
  MaxTime = 2
  FixedSecret = TRUE
  Clients = {p1, c1}
  Hosts = {server, laptop}
  HostOf <- MCHostOf
  Server = server
  Secrets = {server, laptop}
  Browsers = {laptop}
  Flows = {"s1"}
  MaxGrants = 2
  NoToken = NoToken
  NoFlow = NoFlow
  NoCookie = NoCookie
INVARIANTS DriveAuthOK AccessEnds AttributedTruly 
