SPECIFICATION Spec
CONSTANTS
    s1 = s1
    s2 = s2
    c1 = c1
    c2 = c2
    alice = alice
    Servers = {s1, s2}
    Conns = {c1, c2}
    Actors = {alice}
    Home <- MCHome
    ActorOf <- MCActorOf
    MaxFrames = 2
    Faults = 2
INVARIANTS
    TypeOK
    CountsAreExact
    SubscribersAreListed
PROPERTIES
    GhostsAreSwept
CHECK_DEADLOCK FALSE
