------------------------------- MODULE MCPubSub -------------------------------
EXTENDS PubSub

CONSTANTS c1, c2, c3

MCClients == {c1, c2, c3}

\* c1 subscribes and unsubscribes; c2 subscribes and publishes twice; c3
\* closes the service.
MCScript ==
    [c \in MCClients |->
        CASE c = c1 -> <<"sub", "unsub">>
          [] c = c2 -> <<"sub", "pub", "pub">>
          [] c = c3 -> <<"close">>]

====
