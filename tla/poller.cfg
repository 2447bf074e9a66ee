\* A batch of two messages, one of them of another owner, and two adverse events.
SPECIFICATION FairSpec
CONSTANTS
  p1 = p1  m1 = m1  m2 = m2
  Pollers <- OnePoller
  Messages <- TwoMessages
  ForeignMessages = {m2}
  QueueOf <- OneQueue
  MaxNumberOfWorker = 2
  Capacity = 2
  MaxNumberOfMessages = 2
  MaxReceives = 3
  MaxMishaps = 2
INVARIANTS TypeOK AtMostOncePerExpiry DeletedIsHandled GracefulStop
PROPERTIES StopCompletes EventuallyHandled
