\* Two messages, one retry per batch, one unread message in the channel.
SPECIFICATION FairSpec
CONSTANTS
    m1 = m1
    m2 = m2
    Messages = {m1, m2}
    MaxWrites = 2
    MaxRetries = 1
    StreamCap = 1
    ChanCap = 1
INVARIANT CleanCloseIsComplete
PROPERTIES RelayIsFIFO CloseReturns DeliveredOrTold
CHECK_DEADLOCK FALSE
