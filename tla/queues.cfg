SPECIFICATION QueuesSpec
CONSTANTS
  k1 = k1
  k2 = k2
  k3 = k3
  Keys = {k1, k2, k3}
  Values = {v1, v2}
  NoKey = NoKey
  NoValue = NoValue
  NoEpoch = NoEpoch
  Modulus = 5
  Size = 2
  MaxSends = 5
  Addresses = {"lane1", "lane2", "nowhere"}
  EndpointOf <- MCEndpointOf
  NoHost = "none"
  Downlinks = {d}
  MaxCommands = 3
  MaxRetries = 1
INVARIANTS IInv BufferIInv LinksInv
PROPERTIES QueuedIsRelayed ImplementsRelay ReceivedInOrder NewestArrives LinksSettle
CHECK_DEADLOCK FALSE
