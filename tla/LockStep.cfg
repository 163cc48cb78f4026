\* Two servers, one of which may take the other's name, and two clients; one
\* of each is of Labs/ex.
SPECIFICATION FairSpec
CONSTANTS
    Servers = {1, 2}
    Clients = {1, 2}
    ExServers = {2}
    ExClients = {2}
INVARIANTS
    InStep
    QuitsWhenTold
PROPERTY
    EveryoneEnds
CHECK_DEADLOCK FALSE
