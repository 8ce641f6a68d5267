SPECIFICATION Spec
CONSTANTS
    p1 = p1  p2 = p2  p3 = p3
    q1 = q1  q2 = q2  q3 = q3
    d1 = d1  d2 = d2  g1 = g1  g2 = g2
    full = full  tail = tail  twin = twin  hx = hx  hs = hs
    None = None  NoObject = NoObject
    PutReq = {p1, p2}
    DelReq = {d1}
    GetReq = {g1}
    Path = {q1, q2}
    Content = {full, tail, twin}
    Hash = {hx, hs}
    Short = {tail, twin}
    Digest <- Collide
    Bodies <- OneShort
    MaxBlocks = 1
    MaxOpen = 2
    Faults = {"error", "reply", "lost", "crash"}
SYMMETRY Interchangeable
INVARIANTS TypeOK IInv NotFoundMeansAbsent
PROPERTY IsFileStore
