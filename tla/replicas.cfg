SPECIFICATION Spec
CONSTANTS
    b1 = b1  b2 = b2  v1 = v1  v2 = v2  c1 = c1  c2 = c2
    h1 = h1  h2 = h2  f1 = f1
    None = None
    Node = {b1, b2, v1, c1}
    HeadReq = {h1}
    FileMsg = {}
    Id = {h1}
    Subject <- Services
    Role <- Roles
    Late = {}
    Stops = {}
    Faults = {}
SYMMETRY Alike
INVARIANT WaitedFor
