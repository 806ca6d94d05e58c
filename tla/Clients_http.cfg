SPECIFICATION ClientsSpec
CONSTANTS
  Which = "http"
  Users = {u1}
  HandlerOps = {"return", "call"}
  UserOps = {"call", "disconnect"}
  UsesRun = FALSE
  Connecting = a
  Accepted = b
  RecordLen = 2
  MaxData <- TwoAndNone
  MaxConnects = 2
  Urls <- SomeUrls
  Site <- SomeSite
  Addresses <- SomeAddresses
  Refused = refused
  Nowhere = nowhere
  BadLine = badline
  Word = word
  RequestLen = 3
  HeadLen = 2
  MaxBreaks = 2
  MaxCalls = 2
INVARIANTS
  RequestInOrder
  ResponseIsWhole
  RedirectsAsAsked
PROPERTIES
  RequestReturns
CHECK_DEADLOCK FALSE
