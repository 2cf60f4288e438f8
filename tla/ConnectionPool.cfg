SPECIFICATION FairSpec
CONSTANTS
    Requests = {post}
    Attempts = {payment, inventory}
    Recomputes = {recompute}
    Relay = Relay
    PoolSize = 2
INVARIANTS
    TypeOK
    NoLeak
    NoneHeldAcrossAwaits
PROPERTIES
    EveryoneServed
