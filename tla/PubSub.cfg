\* Two subscribers (one unsubscribes), one publisher of two messages, one
\* Close whose ctx may time out; channels of capacity 1, so Publish blocks.
CONSTANTS
    c1 = c1
    c2 = c2
    c3 = c3
    NoClient = NoClient
    Clients <- MCClients
    Script <- MCScript
    Cap = 1
    CanCancel = TRUE
SPECIFICATION Spec
INVARIANT PublishReachesSubscribers
INVARIANT CloseWaitsForDelivery
PROPERTY EveryMessageHandled
PROPERTY CloseReturns
