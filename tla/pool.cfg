SPECIFICATION Spec
CONSTANTS
    p1 = p1  p2 = p2  p3 = p3
    q1 = q1  q2 = q2  q3 = q3
    d1 = d1  d2 = d2  g1 = g1  g2 = g2
    full = full  tail = tail  twin = twin  hx = hx  hs = hs
    None = None  NoObject = NoObject
    PutReq = {p1, p2, p3}
    DelReq = {}
    GetReq = {}
    Path = {q1, q2, q3}
    Content = {full, tail, twin}
    Hash = {hx, hs}
    Short = {tail, twin}
    Digest <- Collide
    Bodies <- SameShort
    MaxBlocks = 1
    MaxOpen = 2
    Faults = {}
SYMMETRY Interchangeable
INVARIANT FilesReadable
