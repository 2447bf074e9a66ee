\* A poller and two workers call while the processor refreshes the client.
SPECIFICATION FairSpec
CONSTANTS
  Pollers = {p1}
  Workers = {w1, w2}
INVARIANTS TypeOK FlagOfCurrentClient
PROPERTIES ExpiryNoticed RefreshCompletes
