SPECIFICATION Spec
CONSTANTS
    Id = {m}
    Subject <- MCSubject
    User = {admin}
    Algorithm = {"a", "b"}
    None = None
    Node <- MCNode
    Caller = {"c1", "r", "s1"}
    Address <- MCAddress
    Relay = {"r", "q"}
    Beyond <- MCBeyond
    Stacks <- MCStacks
INVARIANTS
    TypeOK
    UserKept
    Understood
    Delivered
    Silent
