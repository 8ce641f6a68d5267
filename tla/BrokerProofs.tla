----------------------------- MODULE BrokerProofs -----------------------------
(***************************************************************************)
(* For any exchanges, addresses, stacks and messages: a frame is taken by  *)
(* whom the stacks say, its user reaches every handler, a broadcast is     *)
(* answered only where it was passed on, and where all use one stack every *)
(* message is handled exactly as often as it should be.                    *)
(***************************************************************************)
EXTENDS Broker, MessageProofs, FiniteSetTheorems, SequenceTheorems

-----------------------------------------------------------------------------
(* Stacks and the places of their middleware                               *)

LEMMA UpTo ==
    ASSUME NEW n \in Nat
    PROVE  IsFiniteSet(1 .. n) /\ Cardinality(1 .. n) = n
<1>1. /\ IsFiniteSet(1 .. n)
      /\ Cardinality(1 .. n) = IF 1 > n THEN 0 ELSE n - 1 + 1
  BY FS_Interval
<1>2. QED
  BY <1>1

\* No name is twice in a stack: there are as many names as middleware.
LEMMA NamedOnce ==
    ASSUME NEW ws \in Stacks
    PROVE  /\ ws \in Seq(Middleware) /\ Len(ws) \in Nat /\ DOMAIN ws = 1 .. Len(ws)
           /\ \A j, k \in DOMAIN ws : ws[j].name = ws[k].name => j = k
<1>1. ws \in Seq(Middleware) /\ Cardinality(NamesOf(ws)) = Len(ws)
  BY StacksAssumption
<1>2. DOMAIN ws = 1 .. Len(ws) /\ Len(ws) \in Nat
  BY <1>1
<1> DEFINE f == [j \in 1 .. Len(ws) |-> ws[j].name]
<1>3. NamesOf(ws) = {ws[j].name : j \in 1 .. Len(ws)}
  BY <1>2 DEF NamesOf, ToSet
<1>4. f \in Surjection(1 .. Len(ws), NamesOf(ws))
  <2>1. f \in [1 .. Len(ws) -> NamesOf(ws)]
    BY <1>3
  <2>2. \A t \in NamesOf(ws) : \E j \in 1 .. Len(ws) : f[j] = t
    BY <1>3
  <2>3. QED
    BY <2>1, <2>2 DEF Surjection
<1>5. IsFiniteSet(1 .. Len(ws)) /\ Cardinality(1 .. Len(ws)) = Len(ws)
  BY <1>2, UpTo
<1>6. f \in Injection(1 .. Len(ws), NamesOf(ws))
  BY <1>1, <1>4, <1>5, FS_Surjection
<1>7. QED
  BY <1>1, <1>2, <1>6 DEF Injection, IsInjective

\* A name tells the middleware, but for the algorithm of a signature.
LEMMA NameTells ==
    ASSUME NEW v \in Middleware, NEW w \in Middleware, v.name = w.name
    PROVE  /\ v = w \/ (v.name = "!signature" /\ v.algorithm \in Algorithm /\ w.algorithm \in Algorithm)
           /\ v.algorithm = w.algorithm => v = w
           /\ w.name = "!authorize" <=> w = Authorize
           /\ w.name \in {"!authorize", "!signature", "optional"}
  BY DEF Middleware, Authorize, Signature, Optional

-----------------------------------------------------------------------------
(* Whom a part is for                                                      *)

\* The place, in the sender's stack ws, of the middleware that has the k-th place
\* in the receiver's stack rs.
Partner(ws, rs, k) == CHOOSE j \in DOMAIN ws : ws[j].name = rs[k].name

Both(ws, rs) == {k \in DOMAIN rs : rs[k].name \in NamesOf(ws)}

LEMMA PartnerIs ==
    ASSUME NEW ws \in Stacks, NEW rs \in Stacks
    PROVE  /\ \A k \in Both(ws, rs) :
                /\ Partner(ws, rs, k) \in 1 .. Len(ws)
                /\ ws[Partner(ws, rs, k)].name = rs[k].name
           /\ \A k, l \in Both(ws, rs) : k < l <=> Partner(ws, rs, k) < Partner(ws, rs, l)
           /\ \A k \in Both(ws, rs) : \A j \in DOMAIN ws :
                ws[j].name = rs[k].name => j = Partner(ws, rs, k)
<1>0. /\ ws \in Seq(Middleware) /\ rs \in Seq(Middleware)
      /\ DOMAIN ws = 1 .. Len(ws) /\ Len(ws) \in Nat
      /\ DOMAIN rs = 1 .. Len(rs) /\ Len(rs) \in Nat
  BY NamedOnce
<1>1. ASSUME NEW k \in Both(ws, rs)
      PROVE  /\ Partner(ws, rs, k) \in DOMAIN ws
             /\ ws[Partner(ws, rs, k)].name = rs[k].name
  <2>1. \E j \in DOMAIN ws : ws[j].name = rs[k].name
    BY DEF Both, NamesOf, ToSet
  <2>2. QED
    BY <2>1 DEF Partner
<1>2. ASSUME NEW k \in Both(ws, rs), NEW j \in DOMAIN ws, ws[j].name = rs[k].name
      PROVE  j = Partner(ws, rs, k)
  BY <1>1, <1>2, NamedOnce
<1>3. ASSUME NEW k \in Both(ws, rs), NEW l \in Both(ws, rs)
      PROVE  k < l <=> Partner(ws, rs, k) < Partner(ws, rs, l)
  <2> DEFINE p == Partner(ws, rs, k)
             q == Partner(ws, rs, l)
  <2>0. /\ k \in DOMAIN rs /\ l \in DOMAIN rs
        /\ p \in DOMAIN ws /\ q \in DOMAIN ws
        /\ ws[p].name = rs[k].name /\ ws[q].name = rs[l].name
    BY <1>1 DEF Both
  <2> HIDE DEF p, q
  <2>1. p < q => k < l
    BY <2>0, StacksAssumption
  <2>2. k < l => p < q
    BY <2>0, StacksAssumption
  <2>3. QED
    BY <2>1, <2>2 DEF p, q
<1>4. QED
  BY <1>0, <1>1, <1>2, <1>3

\* There are as many as in the sender's stack exactly if nothing is missing.
LEMMA AllThere ==
    ASSUME NEW ws \in Stacks, NEW rs \in Stacks
    PROVE  /\ IsFiniteSet(Both(ws, rs))
           /\ Cardinality(Both(ws, rs)) = Len(ws) <=> NamesOf(ws) \subseteq NamesOf(rs)
<1>0. /\ DOMAIN ws = 1 .. Len(ws) /\ Len(ws) \in Nat
      /\ DOMAIN rs = 1 .. Len(rs) /\ Len(rs) \in Nat
  BY NamedOnce
<1> DEFINE B == Both(ws, rs)
           g == [k \in B |-> Partner(ws, rs, k)]
<1>1. B \subseteq 1 .. Len(rs)
  BY <1>0 DEF Both
<1>2. g \in [B -> 1 .. Len(ws)] /\ \A k \in B : g[k] = Partner(ws, rs, k)
  BY PartnerIs
<1>3. \A k, l \in B : g[k] = g[l] => k = l
  <2>1. ASSUME NEW k \in B, NEW l \in B, g[k] = g[l]
        PROVE  k = l
    <3>1. rs[k].name = rs[l].name
      BY <1>2, <2>1, PartnerIs
    <3>2. k \in DOMAIN rs /\ l \in DOMAIN rs
      BY DEF Both
    <3>3. QED
      BY <3>1, <3>2, NamedOnce
  <2>2. QED
    BY <2>1
<1>4. g \in Injection(B, 1 .. Len(ws))
  <2>1. DOMAIN g = B
    OBVIOUS
  <2>2. QED
    BY <1>2, <1>3, <2>1 DEF Injection, IsInjective
<1>5. /\ IsFiniteSet(B)
      /\ Cardinality(B) = Len(ws) <=> g \in Surjection(B, 1 .. Len(ws))
  <2>1. IsFiniteSet(1 .. Len(ws)) /\ Cardinality(1 .. Len(ws)) = Len(ws)
    BY <1>0, UpTo
  <2> HIDE DEF g, B
  <2>2. QED
    BY <1>4, <2>1, FS_Injection
<1>6. ASSUME g \in Surjection(B, 1 .. Len(ws))
      PROVE  NamesOf(ws) \subseteq NamesOf(rs)
  <2>1. \A j \in 1 .. Len(ws) : \E k \in B : g[k] = j
    BY <1>6 DEF Surjection
  <2>2. ASSUME NEW j \in 1 .. Len(ws)
        PROVE  ws[j].name \in NamesOf(rs)
    <3>1. PICK k \in B : g[k] = j
      BY <2>1
    <3>2. k \in DOMAIN rs /\ rs[k].name = ws[j].name
      BY <1>2, <3>1, PartnerIs DEF Both
    <3>3. QED
      BY <3>2 DEF NamesOf, ToSet
  <2>3. QED
    BY <1>0, <2>2 DEF NamesOf, ToSet
<1>7. ASSUME NamesOf(ws) \subseteq NamesOf(rs)
      PROVE  g \in Surjection(B, 1 .. Len(ws))
  <2>1. ASSUME NEW j \in 1 .. Len(ws)
        PROVE  \E k \in B : g[k] = j
    <3>1. ws[j].name \in NamesOf(ws)
      BY <1>0 DEF NamesOf, ToSet
    <3>2. PICK k \in DOMAIN rs : rs[k].name = ws[j].name
      BY <1>7, <3>1 DEF NamesOf, ToSet
    <3>3. k \in B
      BY <3>1, <3>2 DEF Both
    <3>4. g[k] = j
      BY <1>0, <1>2, <3>2, <3>3, PartnerIs
    <3>5. QED
      BY <3>3, <3>4
  <2>2. QED
    BY <1>2, <2>1 DEF Surjection
<1>8. QED
  BY <1>5, <1>6, <1>7

\* If nothing is missing, counting finds the place in the sender's stack.
LEMMA Placed ==
    ASSUME NEW ws \in Stacks, NEW rs \in Stacks, NamesOf(ws) \subseteq NamesOf(rs),
           NEW k \in Both(ws, rs)
    PROVE  Cardinality({l \in Both(ws, rs) : l <= k}) = Partner(ws, rs, k)
<1>0. /\ DOMAIN ws = 1 .. Len(ws) /\ Len(ws) \in Nat
      /\ DOMAIN rs = 1 .. Len(rs) /\ Len(rs) \in Nat
  BY NamedOnce
<1> DEFINE p == Partner(ws, rs, k)
           L == {l \in Both(ws, rs) : l <= k}
           g == [l \in L |-> Partner(ws, rs, l)]
<1>1. p \in 1 .. Len(ws) /\ k \in 1 .. Len(rs) /\ \A l \in Both(ws, rs) : l \in 1 .. Len(rs)
  BY <1>0, PartnerIs DEF Both
<1>2. \A l \in L : Partner(ws, rs, l) \in 1 .. p
  <2>1. ASSUME NEW l \in L
        PROVE  Partner(ws, rs, l) \in 1 .. p
    <3>1. ~(k < l)
      BY <1>1
    <3>2. ~(p < Partner(ws, rs, l)) /\ Partner(ws, rs, l) \in 1 .. Len(ws)
      BY <3>1, PartnerIs
    <3>3. QED
      BY <1>1, <3>2
  <2>2. QED
    BY <2>1
<1>3. \A j \in 1 .. p : \E l \in L : Partner(ws, rs, l) = j
  <2>1. ASSUME NEW j \in 1 .. p
        PROVE  \E l \in L : Partner(ws, rs, l) = j
    <3>1. j \in DOMAIN ws
      BY <1>0, <1>1
    <3>2. ws[j].name \in NamesOf(ws)
      BY <3>1 DEF NamesOf, ToSet
    <3>3. PICK l \in DOMAIN rs : rs[l].name = ws[j].name
      BY <3>2 DEF NamesOf, ToSet
    <3>4. l \in Both(ws, rs)
      BY <3>2, <3>3 DEF Both
    <3>5. Partner(ws, rs, l) = j
      BY <3>1, <3>3, <3>4, PartnerIs
    <3>6. ~(p < Partner(ws, rs, l))
      BY <1>1, <3>5
    <3>7. ~(k < l)
      BY <3>4, <3>6, PartnerIs
    <3>8. l \in L
      BY <1>1, <3>4, <3>7
    <3>9. QED
      BY <3>5, <3>8
  <2>2. QED
    BY <2>1
<1>4. \A l, m \in L : Partner(ws, rs, l) = Partner(ws, rs, m) => l = m
  <2>1. ASSUME NEW l \in L, NEW m \in L, Partner(ws, rs, l) = Partner(ws, rs, m)
        PROVE  l = m
    <3>1. rs[l].name = rs[m].name /\ l \in DOMAIN rs /\ m \in DOMAIN rs
      BY <2>1, PartnerIs DEF Both
    <3>2. QED
      BY <3>1, NamedOnce
  <2>2. QED
    BY <2>1
<1> HIDE DEF L, p
<1>5. g \in [L -> 1 .. p] /\ DOMAIN g = L /\ \A l \in L : g[l] = Partner(ws, rs, l)
  BY <1>2
<1>6. g \in Injection(L, 1 .. p)
  BY <1>4, <1>5 DEF Injection, IsInjective
<1>7. g \in Surjection(L, 1 .. p)
  BY <1>3, <1>5 DEF Surjection
<1> HIDE DEF g
<1>8. IsFiniteSet(1 .. p) /\ Cardinality(1 .. p) = p
  BY <1>1, UpTo
<1>9. Cardinality(L) = p
  BY <1>6, <1>7, <1>8, FS_Injection
<1>10. QED
  BY <1>9 DEF L, p

-----------------------------------------------------------------------------
(* Encode and Decode                                                       *)

LEMMA AnswerFrame ==
    ASSUME NEW ws \in Stacks, NEW u, NEW m \in Message, IsAnswer(m)
    PROVE  LET f == Encode(ws, u, m) IN
           /\ f.msg = m
           /\ f.use = {} /\ Len(f.parts) = 0
<1> DEFINE f == Encode(ws, u, m)
<1>1. f.msg = m /\ f.use = NamesOf(<<>>) /\ f.parts = [k \in DOMAIN <<>> |-> EncodePart(<<>>[k], u)]
  BY DEF Encode
<1>2. NamesOf(<<>>) = {}
  BY DEF NamesOf, ToSet
<1>3. f.parts = <<>>
  BY <1>1
<1>4. QED
  BY <1>1, <1>2, <1>3

LEMMA QueryFrame ==
    ASSUME NEW ws \in Stacks, NEW u, NEW m \in Message, ~IsAnswer(m)
    PROVE  LET f == Encode(ws, u, m) IN
           /\ f.msg = m
           /\ f.use = NamesOf(ws) /\ Len(f.parts) = Len(ws)
           /\ \A j \in DOMAIN ws : f.parts[j] = EncodePart(ws[j], u)
           /\ \A a : a \in f.digest <=> \E w \in ToSet(ws) : w.name = "!signature" /\ w.algorithm = a
<1> DEFINE f == Encode(ws, u, m)
<1>1. /\ f.msg = m /\ f.use = NamesOf(ws) /\ f.parts = [k \in DOMAIN ws |-> EncodePart(ws[k], u)]
      /\ f.digest = {w.algorithm : w \in {x \in ToSet(ws) : x.name = "!signature"}}
  BY DEF Encode
<1>2. DOMAIN ws = 1 .. Len(ws) /\ Len(ws) \in Nat
  BY NamedOnce
<1>3. Len(f.parts) = Len(ws)
  BY <1>1, <1>2
<1> HIDE DEF f
<1>4. QED
  BY <1>1, <1>3 DEF f

\* What the receiver finds for the k-th middleware of its stack.
LEMMA PartIs ==
    ASSUME NEW ws \in Stacks, NEW rs \in Stacks, NEW u, NEW m \in Message, ~IsAnswer(m),
           NamesOf(ws) \subseteq NamesOf(rs), NEW k \in Both(ws, rs)
    PROVE  LET j == Partner(ws, rs, k) IN
           /\ Part(rs, Encode(ws, u, m), k) = EncodePart(ws[j], u)
           /\ j \in DOMAIN ws /\ ws[j].name = rs[k].name
           /\ ws[j] \in Middleware /\ rs[k] \in Middleware
<1> DEFINE f == Encode(ws, u, m)
           j == Partner(ws, rs, k)
<1>1. Expected(rs, f) = Both(ws, rs)
  BY QueryFrame DEF Expected, Both
<1>2. Part(rs, f, k) = f.parts[j]
  BY <1>1, Placed DEF Part
<1>3. j \in DOMAIN ws /\ ws[j].name = rs[k].name
  BY NamedOnce, PartnerIs
<1>4. ws[j] \in Middleware /\ rs[k] \in Middleware
  BY <1>3, NamedOnce DEF Both
<1>5. QED
  BY <1>2, <1>3, <1>4, QueryFrame

\* Decode, without frames and parts.
LEMMA Taken ==
    ASSUME NEW ws \in Stacks, NEW rs \in Stacks, NEW u, NEW m \in Message
    PROVE  Accepts(rs, Encode(ws, u, m)) <=>
              \/ IsAnswer(m)
              \/ /\ \A w \in ToSet(ws) : w \in ToSet(rs)
                 /\ \A w \in ToSet(rs) : Mandatory(w) => w \in ToSet(ws)
<1> DEFINE f == Encode(ws, u, m)
<1>0. /\ \A w \in ToSet(ws) : w \in Middleware /\ w.name \in NamesOf(ws) /\ \E j \in DOMAIN ws : ws[j] = w
      /\ \A w \in ToSet(rs) : w \in Middleware /\ w.name \in NamesOf(rs) /\ \E j \in DOMAIN rs : rs[j] = w
      /\ \A j \in DOMAIN ws : ws[j] \in ToSet(ws)
      /\ \A j \in DOMAIN rs : rs[j] \in ToSet(rs)
  BY NamedOnce DEF ToSet, NamesOf
<1>1. CASE IsAnswer(m)
  <2>1. f.msg = m /\ f.use = {} /\ Len(f.parts) = 0
    BY <1>1, AnswerFrame
  <2>2. Expected(rs, f) = {}
    BY <2>1 DEF Expected
  <2>3. Cardinality(Expected(rs, f)) = 0
    BY <2>2, FS_EmptySet
  <2>4. Accepts(rs, f)
    BY <1>1, <2>1, <2>2, <2>3 DEF Accepts, MandatoryMissing
  <2>5. QED
    BY <1>1, <2>4
<1>2. CASE ~IsAnswer(m)
  <2>1. /\ f.msg = m /\ f.use = NamesOf(ws) /\ Len(f.parts) = Len(ws)
        /\ \A a : a \in f.digest <=> \E w \in ToSet(ws) : w.name = "!signature" /\ w.algorithm = a
    BY <1>2, QueryFrame
  <2> HIDE DEF f
  <2>2. Expected(rs, f) = Both(ws, rs)
    BY <2>1 DEF Expected, Both
  <2>3. Len(f.parts) = Cardinality(Expected(rs, f)) <=> NamesOf(ws) \subseteq NamesOf(rs)
    BY <2>1, <2>2, AllThere
  <2>4. MandatoryMissing(rs, f) <=> \E w \in ToSet(rs) : Mandatory(w) /\ w.name \notin NamesOf(ws)
    BY <1>2, <2>1 DEF MandatoryMissing
  <2>5. ASSUME NamesOf(ws) \subseteq NamesOf(rs), NEW k \in Both(ws, rs)
        PROVE  /\ DecodeFails(rs[k], Part(rs, f, k), f) <=> ws[Partner(ws, rs, k)] # rs[k]
               /\ Partner(ws, rs, k) \in DOMAIN ws
    <3> DEFINE j == Partner(ws, rs, k)
               w == rs[k]
               v == ws[j]
               p == Part(rs, f, k)
    <3>1. /\ p = EncodePart(v, u) /\ j \in DOMAIN ws /\ v.name = w.name
          /\ v \in Middleware /\ w \in Middleware
      BY <1>2, <2>5, PartIs DEF f
    <3>2. /\ p.name = v.name
          /\ v.name = "!signature" => p.value = v.algorithm
      BY <3>1 DEF EncodePart
    <3>3. v \in ToSet(ws)
      BY <1>0, <3>1
    <3> HIDE DEF p, w, v, j
    <3>4. ASSUME v = w
          PROVE  ~DecodeFails(w, p, f)
      BY <2>1, <3>2, <3>3, <3>4 DEF DecodeFails
    <3>5. ASSUME v # w
          PROVE  DecodeFails(w, p, f)
      <4>1. v.name = "!signature" /\ v.algorithm # w.algorithm
        BY <3>1, <3>5, NameTells
      <4>2. QED
        BY <3>1, <3>2, <4>1 DEF DecodeFails
    <3>6. QED
      BY <3>1, <3>4, <3>5 DEF p, w, v, j
  <2>6. ASSUME Accepts(rs, f)
        PROVE  /\ \A w \in ToSet(ws) : w \in ToSet(rs)
               /\ \A w \in ToSet(rs) : Mandatory(w) => w \in ToSet(ws)
    <3>1. NamesOf(ws) \subseteq NamesOf(rs)
      BY <2>3, <2>6 DEF Accepts
    <3>2. \A k \in Both(ws, rs) : Partner(ws, rs, k) \in DOMAIN ws /\ ws[Partner(ws, rs, k)] = rs[k]
      BY <2>2, <2>5, <2>6, <3>1 DEF Accepts
    <3>3. ASSUME NEW w \in ToSet(ws)
          PROVE  w \in ToSet(rs)
      <4>1. w.name \in NamesOf(rs) /\ w.name \in NamesOf(ws)
        BY <1>0, <3>1
      <4>2. PICK k \in DOMAIN rs : rs[k].name = w.name
        BY <4>1 DEF NamesOf, ToSet
      <4>3. k \in Both(ws, rs)
        BY <4>1, <4>2 DEF Both
      <4>4. PICK j \in DOMAIN ws : ws[j] = w
        BY <1>0
      <4>5. j = Partner(ws, rs, k)
        BY <4>2, <4>3, <4>4, PartnerIs
      <4>6. QED
        BY <1>0, <3>2, <4>3, <4>4, <4>5
    <3>4. ASSUME NEW w \in ToSet(rs), Mandatory(w)
          PROVE  w \in ToSet(ws)
      <4>1. w.name \in NamesOf(ws)
        BY <2>4, <2>6, <3>4 DEF Accepts
      <4>2. PICK k \in DOMAIN rs : rs[k] = w
        BY <1>0
      <4>3. k \in Both(ws, rs)
        BY <4>1, <4>2 DEF Both
      <4>4. QED
        BY <1>0, <3>2, <4>2, <4>3
    <3>5. QED
      BY <3>3, <3>4
  <2>7. ASSUME \A w \in ToSet(ws) : w \in ToSet(rs),
               \A w \in ToSet(rs) : Mandatory(w) => w \in ToSet(ws)
        PROVE  Accepts(rs, f)
    <3>1. NamesOf(ws) \subseteq NamesOf(rs)
      BY <2>7 DEF NamesOf
    <3>2. ~MandatoryMissing(rs, f)
      BY <1>0, <2>4, <2>7
    <3>3. ASSUME NEW k \in Both(ws, rs)
          PROVE  ws[Partner(ws, rs, k)] = rs[k]
      <4> DEFINE j == Partner(ws, rs, k)
      <4>1. j \in DOMAIN ws /\ ws[j].name = rs[k].name
        BY <2>5, <3>1, PartnerIs
      <4>2. PICK l \in DOMAIN rs : rs[l] = ws[j]
        BY <1>0, <2>7, <4>1
      <4>3. l = k
        BY <4>1, <4>2, NamedOnce DEF Both
      <4>4. QED
        BY <4>2, <4>3
    <3>4. QED
      BY <2>2, <2>3, <2>5, <3>1, <3>2, <3>3 DEF Accepts
  <2>8. QED
    BY <1>2, <2>6, <2>7 DEF f
<1>3. QED
  BY <1>1, <1>2

\* The user of a query that is taken is the one it was sent with, if the receiver
\* asks for one, and one there can be in any case.
LEMMA UserGoesOn ==
    ASSUME NEW ws \in Stacks, NEW rs \in Stacks, NEW u \in User \cup {None},
           NEW m \in Message, Accepts(rs, Encode(ws, u, m))
    PROVE  /\ UserIn(rs, Encode(ws, u, m)) \in User \cup {None}
           /\ ~IsAnswer(m) /\ Authorize \in ToSet(rs) =>
                /\ UserIn(rs, Encode(ws, u, m)) = u
                /\ Authorize \in ToSet(ws)
<1> DEFINE f == Encode(ws, u, m)
           ks == {k \in Expected(rs, f) : rs[k] = Authorize /\ Part(rs, f, k).name = rs[k].name}
<1>1. UserIn(rs, f) = IF ks = {} THEN None ELSE Part(rs, f, CHOOSE k \in ks : TRUE).value
  BY DEF UserIn
<1>2. CASE IsAnswer(m)
  <2>1. f.use = {}
    BY <1>2, AnswerFrame
  <2>2. ks = {}
    BY <2>1 DEF Expected
  <2>3. QED
    BY <1>1, <1>2, <2>2
<1>3. CASE ~IsAnswer(m)
  <2>1. /\ \A w \in ToSet(ws) : w \in ToSet(rs)
        /\ \A w \in ToSet(rs) : Mandatory(w) => w \in ToSet(ws)
    BY <1>3, Taken
  <2>2. NamesOf(ws) \subseteq NamesOf(rs)
    BY <2>1 DEF NamesOf
  <2>3. Expected(rs, f) = Both(ws, rs)
    BY <1>3, QueryFrame DEF Expected, Both
  <2>4. ASSUME NEW k \in Both(ws, rs), rs[k] = Authorize
        PROVE  Part(rs, f, k).name = rs[k].name /\ Part(rs, f, k).value = u
    <3> DEFINE v == ws[Partner(ws, rs, k)]
    <3>1. Part(rs, f, k) = EncodePart(v, u) /\ v.name = rs[k].name
      BY <1>3, <2>2, PartIs
    <3>2. rs[k].name = "!authorize"
      BY <2>4 DEF Authorize
    <3> HIDE DEF v, f
    <3>3. EncodePart(v, u).name = v.name /\ EncodePart(v, u).value = u
      BY <3>1, <3>2 DEF EncodePart
    <3>4. QED
      BY <3>1, <3>3
  <2>5. \A k \in ks : k \in Both(ws, rs) /\ rs[k] = Authorize
    BY <2>3
  <2> HIDE DEF f
  <2>6. ks # {} => UserIn(rs, f) = u
    <3>1. ks # {} => (CHOOSE k \in ks : TRUE) \in ks
      OBVIOUS
    <3> HIDE DEF ks
    <3>2. QED
      BY <1>1, <2>4, <2>5, <3>1
  <2>7. ASSUME Authorize \in ToSet(rs)
        PROVE  Authorize \in ToSet(ws) /\ ks # {}
    <3>1. Authorize \in ToSet(ws)
      BY <2>1, <2>7 DEF Mandatory, Authorize
    <3>2. PICK k \in DOMAIN rs : rs[k] = Authorize
      BY <2>7 DEF ToSet
    <3>3. k \in Both(ws, rs)
      BY <3>1, <3>2 DEF Both, NamesOf
    <3>4. k \in ks
      BY <2>3, <2>4, <3>2, <3>3
    <3>5. QED
      BY <3>1, <3>4
  <2>8. UserIn(rs, f) \in User \cup {None}
    BY <1>1, <2>6
  <2>9. QED
    BY <2>6, <2>7, <2>8 DEF f
<1>4. QED
  BY <1>2, <1>3

-----------------------------------------------------------------------------
(* Addresses                                                               *)

LEMMA Addressed ==
    ASSUME NEW n \in Node
    PROVE  /\ \A i \in Int : Topic(n, i) \in Subject
           /\ Name(n) = Head(Address[n])
<1>1. Address[n] \in Seq(Words) /\ Address[n] # <<>>
  BY WordsAssumption
<1>2. Len(Address[n]) \in Nat \ {0}
  BY <1>1
<1>3. \A k \in 1 .. Len(Address[n]) : SubSeq(Address[n], 1, k) \in Subject
  BY AddressAssumption DEF Subjects
<1>4. SubSeq(Address[n], 1, Len(Address[n])) = Address[n]
  BY <1>1, SubSeqFull
<1>5. Address[n] \in Subject
  <2>1. Len(Address[n]) \in 1 .. Len(Address[n])
    BY <1>2
  <2>2. QED
    BY <1>3, <1>4, <2>1
<1>6. ASSUME NEW i \in Int
      PROVE  Topic(n, i) \in Subject
  <2>1. CASE i \in 0 .. Len(Address[n]) - 1
    <3>1. i + 1 \in 1 .. Len(Address[n])
      BY <1>2, <2>1
    <3>2. QED
      BY <1>3, <2>1, <3>1 DEF Topic
  <2>2. CASE i \notin 0 .. Len(Address[n]) - 1
    BY <1>5, <2>2 DEF Topic
  <2>3. QED
    BY <2>1, <2>2
<1>7. QED
  BY <1>6 DEF Name

\* A subject has a word: whoever asked is no longer idle.
LEMMA SubjectIs ==
    ASSUME NEW s \in Subject
    PROVE  s # <<>>
<1>1. PICK n \in Node : s \in Subjects(n)
  BY AddressAssumption
<1>2. PICK k \in 1 .. Len(Address[n]) : s = SubSeq(Address[n], 1, k)
  BY <1>1 DEF Subjects
<1>3. Address[n] \in Seq(Words) /\ Len(Address[n]) \in Nat
  BY WordsAssumption
<1>4. Len(s) = k
  BY <1>2, <1>3
<1>5. QED
  BY <1>2, <1>3, <1>4

-----------------------------------------------------------------------------
(* Steps                                                                   *)

LEMMA Steps ==
    ASSUME [Next]_vars
    PROVE  \/ UNCHANGED vars
           \/ \E i \in Id, n \in Caller : Ask(i, n)
           \/ \E c \in net : \E n \in c.to : Receive(n, c)
           \/ \E k \in child : Handle(k) \/ Settle(k)
  BY DEF Next, Rest

\* Publish adds frames of one message, and one at most if it is no broadcast.
LEMMA PublishIs ==
    ASSUME NEW n \in Node, NEW u, NEW m, NEW via, Publish(n, u, m, via)
    PROVE  /\ net \subseteq net'
           /\ \A c \in net' \ net :
                /\ c.frame = Encode(Stack(n), u, m) /\ c.frame.msg = m
                /\ c.by = n /\ c.to \subseteq Node \ {n} /\ c.via = via
           /\ m.type # "Broadcast" => \E c : net' \subseteq net \cup {c}
<1> DEFINE new == {c \in {[frame |-> Encode(Stack(n), u, m), by |-> n, via |-> via,
                           to |-> ns \ {n}] : ns \in Receivers(m)} : c.to # {}}
<1>1. net' = net \cup new
  BY DEF Publish
<1>2. \A ns \in Receivers(m) : ns \subseteq Node
  BY DEF Receivers, Queue, Wide
<1>3. Encode(Stack(n), u, m).msg = m
  BY DEF Encode
<1>4. ASSUME NEW c \in new
      PROVE  /\ c.frame = Encode(Stack(n), u, m) /\ c.frame.msg = m
             /\ c.by = n /\ c.to \subseteq Node \ {n} /\ c.via = via
  <2> DEFINE f == Encode(Stack(n), u, m)
  <2>1. f.msg = m
    BY <1>3
  <2> HIDE DEF f
  <2>2. PICK ns \in Receivers(m) : c = [frame |-> f, by |-> n, via |-> via, to |-> ns \ {n}]
    BY <1>4 DEF f
  <2>3. c.frame = f /\ c.by = n /\ c.to = ns \ {n} /\ c.via = via
    BY <2>2
  <2>4. QED
    BY <1>2, <2>1, <2>3 DEF f
<1>5. m.type # "Broadcast" => \E c : new \subseteq {c}
  <2>1. ASSUME m.type # "Broadcast"
        PROVE  new \subseteq {[frame |-> Encode(Stack(n), u, m), by |-> n, via |-> via,
                                to |-> Queue(m.to) \ {n}]}
    BY <2>1 DEF Receivers
  <2>2. QED
    BY <2>1
<1> HIDE DEF new
<1>6. QED
  BY <1>1, <1>4, <1>5

\* Whoever asks for the first time sends one message, from a topic of its own.
LEMMA AskIs ==
    ASSUME Recorded, NEW i \in Id, NEW n \in Caller, Ask(i, n)
    PROVE  \E user \in User \cup {None}, m \in Message :
             /\ call[i] = Idle /\ n \in Node /\ m.id = i /\ ~IsAnswer(m)
             /\ Publish(n, user, m, <<>>)
             /\ UNCHANGED <<stack, child, handled>>
             /\ call' = [call EXCEPT ![i] = call'[i]]
             /\ call'[i].user = user /\ call'[i].got = {} /\ call'[i] # Idle
             /\ call'[i].type = m.type
             /\ Recorded'
<1>1. n \in Node /\ call[i] = Idle /\ UNCHANGED <<stack, child, handled>>
  BY NodeAssumption DEF Ask
<1>2. PICK type \in {"Query", "Request", "Broadcast"}, to \in Subject,
           user \in User \cup {None}, from \in {0, -1} :
        /\ Publish(n, user, Apply(n, NewMessage(i, type, Topic(n, 0), to), from), <<>>)
        /\ call' = [call EXCEPT ![i] =
                [node |-> n, type |-> type, to |-> to, user |-> user,
                 last |-> from = -1, got |-> {}]]
  BY DEF Ask
<1> DEFINE m == Apply(n, NewMessage(i, type, Topic(n, 0), to), from)
           c == [node |-> n, type |-> type, to |-> to, user |-> user,
                 last |-> from = -1, got |-> {}]
<1>3. /\ m.id = i /\ m.type = type /\ m.to = to /\ m.ret = <<>> /\ m.from = Topic(n, from)
      /\ m \in Message
  <2>1. Topic(n, from) \in Subject /\ Topic(n, 0) \in Subject
    BY <1>1, Addressed
  <2>2. m = [id |-> i, type |-> type, from |-> Topic(n, from), to |-> to, ret |-> <<>>]
    BY DEF Apply, NewMessage
  <2>3. <<>> \in Seq(Subject)
    OBVIOUS
  <2> HIDE DEF m
  <2>4. QED
    BY <2>1, <2>2, <2>3 DEF Message, Type
<1>4. ~IsAnswer(m)
  BY <1>3 DEF IsAnswer
<1>5. call' = [call EXCEPT ![i] = c] /\ i \in DOMAIN call
  BY <1>2 DEF Recorded
<1>6. call'[i] = c
  BY <1>5
<1>7. c.to # <<>> /\ Idle.to = <<>>
  BY SubjectIs DEF Idle
<1>8. c # Idle
  BY <1>7
<1>9. Recorded'
  <2>1. c \in [node : Node \cup {None}, type : Type \cup {None},
               to : Subject \cup {<<>>}, user : User \cup {None},
               last : BOOLEAN, got : SUBSET Node]
    BY <1>1 DEF Type
  <2> HIDE DEF c
  <2>2. QED
    BY <1>1, <1>5, <2>1 DEF Recorded
<1>10. c.user = user /\ c.got = {} /\ c.type = type
  OBVIOUS
<1> HIDE DEF m, c
<1>11. call' = [call EXCEPT ![i] = call'[i]]
  BY <1>5, <1>6
<1>12. Publish(n, user, m, <<>>)
  BY <1>2 DEF m
<1>13. QED
  BY <1>1, <1>3, <1>4, <1>6, <1>8, <1>9, <1>10, <1>11, <1>12

\* A goroutine ends, and sends one message at most, with its own id and user.
LEMMA RunIs ==
    ASSUME TypeOK, Recorded, NEW k \in child, Handle(k) \/ Settle(k)
    PROVE  /\ k.at \in Node /\ k.msg \in Message /\ k.msg.id \in Id /\ k.user \in User \cup {None}
           /\ k.via \in Seq(Node)
           /\ child' = child \ {k} /\ UNCHANGED stack
           /\ \E m \in Message :
                /\ m.id = k.msg.id /\ (IsAnswer(k.msg) => IsAnswer(m))
                /\ m.type # "Broadcast"
                /\ UNCHANGED net \/ Publish(k.at, k.user, m, k.via)
                /\ k.msg.type = "Broadcast" /\ k.at \notin Relay => UNCHANGED net
           /\ \/ /\ ~IsAnswer(k.msg) /\ UNCHANGED call
                 /\ handled' = [handled EXCEPT ![k.msg.id] = Append(@, [at |-> k.at, user |-> k.user, via |-> k.via])]
              \/ IsAnswer(k.msg) /\ UNCHANGED <<call, handled>>
              \/ /\ IsAnswer(k.msg) /\ UNCHANGED <<net, handled>>
                 /\ call' = [call EXCEPT ![k.msg.id].got = @ \cup {k.at}]
<1>0. /\ k.at \in Node /\ k.msg \in Message /\ k.msg.id \in Id /\ k.user \in User \cup {None}
      /\ k.via \in Seq(Node)
  BY DEF TypeOK, Message
<1>1. ASSUME NEW m \in Message, Send(k, m)
      PROVE  /\ UNCHANGED net \/ Publish(k.at, k.user, m, k.via)
             /\ k.msg.type = "Broadcast" /\ IsAnswer(m) => UNCHANGED net
  BY <1>1 DEF Send
<1>2. CASE Handle(k)
  <2>0. /\ ~IsAnswer(k.msg) /\ child' = child \ {k} /\ UNCHANGED <<stack, call>>
        /\ handled' = [handled EXCEPT ![k.msg.id] = Append(@, [at |-> k.at, user |-> k.user, via |-> k.via])]
        /\ \/ k.at \in Relay /\ Send(k, Forward(k.msg, Beyond))
           \/ k.at \notin Relay /\ Send(k, Answer(k.msg))
           \/ k.at \notin Relay /\ Send(k, Answer(WithError(k.msg)))
    BY <1>2 DEF Handle
  <2>1. /\ Forward(k.msg, Beyond) \in Message /\ Answer(k.msg) \in Message
        /\ WithError(k.msg) \in Message
        /\ Forward(k.msg, Beyond).id = k.msg.id
        /\ Answer(k.msg).id = k.msg.id /\ IsAnswer(Answer(k.msg))
        /\ Answer(WithError(k.msg)).id = k.msg.id
        /\ Answer(WithError(k.msg)).type = "Failure"
    BY <1>0, AddressTypes, Kinship, AddressAssumption
  <2>2. Answer(WithError(k.msg)) \in Message
    BY <2>1, AddressTypes, AddressAssumption
  <2>3. /\ Forward(k.msg, Beyond).type # "Broadcast"
        /\ Answer(k.msg).type # "Broadcast"
        /\ IsAnswer(Answer(WithError(k.msg)))
    BY <1>0, <2>1 DEF Forward, IsAnswer, Message
  <2>4. CASE k.at \in Relay /\ Send(k, Forward(k.msg, Beyond))
    BY <1>0, <1>1, <2>0, <2>1, <2>3, <2>4
  <2>5. CASE k.at \notin Relay /\ Send(k, Answer(k.msg))
    BY <1>0, <1>1, <2>0, <2>1, <2>3, <2>5
  <2>6. CASE k.at \notin Relay /\ Send(k, Answer(WithError(k.msg)))
    BY <1>0, <1>1, <2>0, <2>1, <2>2, <2>3, <2>6
  <2>7. QED
    BY <2>0, <2>4, <2>5, <2>6
<1>3. CASE Settle(k)
  <2>0. /\ IsAnswer(k.msg) /\ child' = child \ {k} /\ UNCHANGED <<stack, handled>>
        /\ \/ k.msg.ret # <<>> /\ Send(k, Backward(k.msg)) /\ UNCHANGED call
           \/ UNCHANGED net /\ call' = [call EXCEPT ![k.msg.id].got = @ \cup {k.at}]
    BY <1>3 DEF Settle
  <2>1. k.msg.type # "Broadcast"
    BY <2>0 DEF IsAnswer
  <2>2. CASE k.msg.ret # <<>> /\ Send(k, Backward(k.msg)) /\ UNCHANGED call
    <3>1. Backward(k.msg) \in Message
      BY <1>0, <2>2, AddressTypes, AddressAssumption
    <3>2. Backward(k.msg).id = k.msg.id /\ Backward(k.msg).type = k.msg.type
      BY <1>0, Kinship, AddressAssumption
    <3>3. IsAnswer(Backward(k.msg))
      BY <2>0, <3>2 DEF IsAnswer
    <3>4. QED
      BY <1>0, <1>1, <2>0, <2>1, <2>2, <3>1, <3>2, <3>3
  <2>3. CASE UNCHANGED net /\ call' = [call EXCEPT ![k.msg.id].got = @ \cup {k.at}]
    BY <1>0, <2>0, <2>1, <2>3
  <2>4. QED
    BY <2>0, <2>2, <2>3
<1>4. QED
  BY <1>2, <1>3

LEMMA StackIs ==
    ASSUME Recorded, NEW n \in Node
    PROVE  Stack(n) \in Stacks
  BY DEF Recorded, Stack

\* What is received comes from where its sender's stack wrote it.
LEMMA ReceiveIs ==
    ASSUME TypeOK, Recorded, Written, NEW c \in net, NEW n \in c.to, Receive(n, c)
    PROVE  /\ n \in Node /\ c.frame.msg \in Message /\ UNCHANGED <<stack, call, handled>>
           /\ net' = net \ {c}
           /\ \E user \in User \cup {None} :
                /\ child' \subseteq child \cup
                        {[at |-> n, msg |-> c.frame.msg, user |-> user, via |-> Append(c.via, n)]}
                /\ ~IsAnswer(c.frame.msg) /\ Authorize \in ToSet(Stack(n)) =>
                        child' = child \/ user = call[c.frame.msg.id].user
           /\ child \subseteq child'
<1>1. n \in Node /\ c.frame.msg \in Message /\ c.by \in Node
  BY DEF TypeOK, Written
<1>2. /\ UNCHANGED <<stack, call, handled>> /\ net' = net \ {c}
      /\ child' = IF Accepts(Stack(n), c.frame)
                  THEN child \cup {[at |-> n, msg |-> c.frame.msg,
                                    user |-> UserIn(Stack(n), c.frame), via |-> Append(c.via, n)]}
                  ELSE child
  BY DEF Receive
<1>3. CASE ~Accepts(Stack(n), c.frame)
  BY <1>1, <1>2, <1>3
<1>4. CASE Accepts(Stack(n), c.frame)
  <2>1. PICK u \in User \cup {None} :
          /\ c.frame = Encode(Stack(c.by), u, c.frame.msg)
          /\ ~IsAnswer(c.frame.msg) /\ Authorize \in ToSet(Stack(c.by)) =>
                 u = call[c.frame.msg.id].user
    BY DEF Written
  <2>2. Stack(n) \in Stacks /\ Stack(c.by) \in Stacks
    BY <1>1, StackIs
  <2>3. /\ UserIn(Stack(n), c.frame) \in User \cup {None}
        /\ ~IsAnswer(c.frame.msg) /\ Authorize \in ToSet(Stack(n)) =>
                /\ UserIn(Stack(n), c.frame) = u
                /\ Authorize \in ToSet(Stack(c.by))
    BY <1>1, <1>4, <2>1, <2>2, UserGoesOn
  <2>4. QED
    BY <1>1, <1>2, <1>4, <2>1, <2>3
<1>5. QED
  BY <1>3, <1>4

-----------------------------------------------------------------------------
(* Users                                                                   *)

\* The invariant, but for Hushed.
Kept == TypeOK /\ Recorded /\ Written /\ Contexts /\ Unasked /\ UserKept

\* New frames, if their user is right, disturb nothing.
LEMMA WrittenStep ==
    ASSUME Recorded, Written, UNCHANGED stack,
           \A c \in net : c \in net' => call'[c.frame.msg.id].user = call[c.frame.msg.id].user,
           NEW n \in Node, NEW u \in User \cup {None}, NEW m,
           \A c \in net' \ net : c.frame = Encode(Stack(n), u, m) /\ c.frame.msg = m /\ c.by = n,
           ~IsAnswer(m) /\ Authorize \in ToSet(Stack(n)) => u = call'[m.id].user
    PROVE  Written'
<1>1. \A l : Stack(l)' = Stack(l)
  BY DEF Stack
<1>2. ASSUME NEW c \in net', c \in net
      PROVE  /\ c.by \in Node
             /\ \E user \in User \cup {None} :
                /\ c.frame = Encode(Stack(c.by)', user, c.frame.msg)
                /\ ~IsAnswer(c.frame.msg) /\ Authorize \in ToSet(Stack(c.by)') =>
                       user = call'[c.frame.msg.id].user
  BY <1>1, <1>2 DEF Written
<1>3. ASSUME NEW c \in net', c \notin net
      PROVE  /\ c.by \in Node
             /\ \E user \in User \cup {None} :
                /\ c.frame = Encode(Stack(c.by)', user, c.frame.msg)
                /\ ~IsAnswer(c.frame.msg) /\ Authorize \in ToSet(Stack(c.by)') =>
                       user = call'[c.frame.msg.id].user
  <2>1. c.frame = Encode(Stack(n), u, m) /\ c.frame.msg = m /\ c.by = n
    BY <1>3
  <2>2. c.frame = Encode(Stack(c.by)', u, c.frame.msg)
    BY <1>1, <2>1
  <2>3. QED
    BY <1>1, <2>1, <2>2
<1>4. QED
  BY <1>2, <1>3 DEF Written

LEMMA AskKept ==
    ASSUME Kept, NEW i \in Id, NEW n \in Caller, Ask(i, n)
    PROVE  Kept'
<1>0. TypeOK /\ Recorded /\ Written /\ Contexts /\ Unasked /\ UserKept
  BY DEF Kept
<1>1. PICK user \in User \cup {None}, m \in Message :
             /\ call[i] = Idle /\ n \in Node /\ m.id = i /\ ~IsAnswer(m)
             /\ Publish(n, user, m, <<>>)
             /\ UNCHANGED <<stack, child, handled>>
             /\ call' = [call EXCEPT ![i] = call'[i]]
             /\ call'[i].user = user /\ call'[i].got = {} /\ call'[i] # Idle
             /\ call'[i].type = m.type
             /\ Recorded'
  BY <1>0, AskIs
<1>2. /\ net \subseteq net'
      /\ \A c \in net' \ net :
                /\ c.frame = Encode(Stack(n), user, m) /\ c.frame.msg = m
                /\ c.by = n /\ c.to \subseteq Node \ {n} /\ c.via = <<>>
  BY <1>1, PublishIs
<1>3. \A j \in Id : j # i => call'[j] = call[j]
  BY <1>0, <1>1 DEF Recorded
<1>4. /\ \A c \in net : c.frame.msg.id # i
      /\ \A k \in child : k.msg.id # i
      /\ handled[i] = <<>>
  BY <1>0, <1>1 DEF Unasked
<1>5. \A c \in net : c.frame.msg.id \in Id
  BY <1>0 DEF TypeOK, Message
<1>6. \A k \in child : k.msg.id \in Id
  BY <1>0 DEF TypeOK, Message
<1>7. TypeOK'
  <2>1. <<>> \in Seq(Node)
    OBVIOUS
  <2>2. ASSUME NEW c \in net'
        PROVE  c.frame.msg \in Message /\ c.to \subseteq Node \ {c.by} /\ c.via \in Seq(Node)
    BY <1>0, <1>1, <1>2, <2>1 DEF TypeOK
  <2>3. \A j \in Id : call'[j].got \subseteq Node
    BY <1>0, <1>1, <1>3 DEF TypeOK
  <2>4. QED
    BY <1>0, <1>1, <2>2, <2>3 DEF TypeOK
<1>8. Written'
  BY <1>0, <1>1, <1>2, <1>3, <1>4, <1>5, WrittenStep
<1>9. Contexts'
  BY <1>0, <1>1, <1>3, <1>4, <1>6 DEF Contexts, Stack
<1>10. Unasked'
  BY <1>0, <1>1, <1>2, <1>3 DEF Unasked
<1>11. UserKept'
  <2>1. ASSUME NEW j \in Id, NEW k \in DOMAIN handled'[j]
        PROVE  Authorize \in ToSet(stack'[Name(handled'[j][k].at)]) =>
                   handled'[j][k].user = call'[j].user
    <3>1. CASE j = i
      <4>1. DOMAIN handled'[j] = {}
        BY <1>1, <1>4, <3>1
      <4>2. QED
        BY <2>1, <4>1
    <3>2. CASE j # i
      <4>1. k \in DOMAIN handled[j] /\ call'[j] = call[j] /\ handled'[j] = handled[j]
        BY <1>1, <1>3, <2>1, <3>2
      <4>2. QED
        BY <1>0, <1>1, <4>1 DEF UserKept, Stack
    <3>3. QED
      BY <3>1, <3>2
  <2>2. QED
    BY <2>1 DEF UserKept, Stack
<1>12. QED
  BY <1>1, <1>7, <1>8, <1>9, <1>10, <1>11 DEF Kept

LEMMA ReceiveKept ==
    ASSUME Kept, NEW c \in net, NEW n \in c.to, Receive(n, c)
    PROVE  Kept'
<1>0. TypeOK /\ Recorded /\ Written /\ Contexts /\ Unasked /\ UserKept
  BY DEF Kept
<1>1. /\ n \in Node /\ c.frame.msg \in Message /\ UNCHANGED <<stack, call, handled>>
      /\ net' = net \ {c}
  BY <1>0, ReceiveIs
<1>2. PICK user \in User \cup {None} :
                /\ child' \subseteq child \cup {[at |-> n, msg |-> c.frame.msg, user |-> user, via |-> Append(c.via, n)]}
                /\ ~IsAnswer(c.frame.msg) /\ Authorize \in ToSet(Stack(n)) =>
                        child' = child \/ user = call[c.frame.msg.id].user
  BY <1>0, ReceiveIs
<1> DEFINE k0 == [at |-> n, msg |-> c.frame.msg, user |-> user, via |-> Append(c.via, n)]
<1>3. k0.at = n /\ k0.msg = c.frame.msg /\ k0.user = user /\ k0.via \in Seq(Node)
  <2>1. c.via \in Seq(Node)
    BY <1>0 DEF TypeOK
  <2>2. Append(c.via, n) \in Seq(Node)
    BY <1>1, <2>1
  <2>3. QED
    BY <2>2
<1>4. child' \subseteq child \cup {k0}
  BY <1>2
<1> HIDE DEF k0
<1>5. TypeOK'
  BY <1>0, <1>1, <1>2, <1>3, <1>4 DEF TypeOK
<1>6. Recorded'
  BY <1>0, <1>1 DEF Recorded
<1>7. Written'
  BY <1>0, <1>1 DEF Written, Stack
<1>8. Contexts'
  BY <1>0, <1>1, <1>2, <1>3, <1>4 DEF Contexts, Stack
<1>9. Unasked'
  BY <1>0, <1>1, <1>3, <1>4 DEF Unasked
<1>10. UserKept'
  BY <1>0, <1>1 DEF UserKept, Stack
<1>11. QED
  BY <1>5, <1>6, <1>7, <1>8, <1>9, <1>10 DEF Kept

LEMMA RunKept ==
    ASSUME Kept, NEW k \in child, Handle(k) \/ Settle(k)
    PROVE  Kept'
<1>0. TypeOK /\ Recorded /\ Written /\ Contexts /\ Unasked /\ UserKept
  BY DEF Kept
<1>1. /\ k.at \in Node /\ k.msg \in Message /\ k.msg.id \in Id /\ k.user \in User \cup {None}
      /\ k.via \in Seq(Node)
      /\ child' = child \ {k} /\ UNCHANGED stack
  BY <1>0, RunIs
<1>2. PICK m \in Message :
        /\ m.id = k.msg.id /\ (IsAnswer(k.msg) => IsAnswer(m))
        /\ UNCHANGED net \/ Publish(k.at, k.user, m, k.via)
  BY <1>0, RunIs
<1> DEFINE i == k.msg.id
           h == [at |-> k.at, user |-> k.user, via |-> k.via]
<1>3. \/ /\ ~IsAnswer(k.msg) /\ UNCHANGED call
         /\ handled' = [handled EXCEPT ![i] = Append(@, h)]
      \/ IsAnswer(k.msg) /\ UNCHANGED <<call, handled>>
      \/ /\ IsAnswer(k.msg) /\ UNCHANGED handled
         /\ call' = [call EXCEPT ![i].got = @ \cup {k.at}]
  BY <1>0, RunIs
<1>4. h \in [at : Node, user : User \cup {None}, via : Seq(Node)] /\ h.at = k.at /\ h.user = k.user
  BY <1>1
<1> HIDE DEF h
<1>5. \A c \in net' \ net :
                /\ c.frame = Encode(Stack(k.at), k.user, m) /\ c.frame.msg = m
                /\ c.by = k.at /\ c.to \subseteq Node \ {k.at} /\ c.via = k.via
  BY <1>1, <1>2, PublishIs
<1>6. call[i] # Idle
  BY <1>0, <1>1 DEF Unasked
<1>7. Recorded' /\ \A j \in Id : call'[j].user = call[j].user /\ call'[j].got \subseteq Node
  <2>1. CASE UNCHANGED call
    <3> DEFINE H == [at : Node, user : User \cup {None}, via : Seq(Node)]
    <3>1. h \in H
      BY <1>4
    <3>2. handled \in [Id -> Seq(H)]
      BY <1>0 DEF Recorded
    <3> HIDE DEF H
    <3>3. handled' \in [Id -> Seq(H)]
      <4>1. CASE handled' = [handled EXCEPT ![i] = Append(@, h)]
        <5>1. Append(handled[i], h) \in Seq(H)
          BY <1>1, <3>1, <3>2
        <5>2. QED
          BY <3>2, <4>1, <5>1
      <4>2. QED
        BY <1>3, <3>2, <4>1
    <3>4. QED
      BY <1>0, <1>1, <2>1, <3>3 DEF Recorded, TypeOK, H
  <2>2. CASE UNCHANGED handled /\ call' = [call EXCEPT ![i].got = @ \cup {k.at}]
    <3>1. /\ call[i].got \cup {k.at} \subseteq Node
          /\ \A j \in Id : call[j].got \subseteq Node
      BY <1>0, <1>1 DEF TypeOK
    <3>2. /\ call'[i] = [call[i] EXCEPT !.got = @ \cup {k.at}]
          /\ \A j \in Id : j # i => call'[j] = call[j]
      BY <1>0, <1>1, <2>2 DEF Recorded
    <3>3. \A j \in Id : call'[j].user = call[j].user /\ call'[j].got \subseteq Node
      BY <1>0, <3>1, <3>2 DEF Recorded
    <3> DEFINE C == [node : Node \cup {None}, type : Type \cup {None}, to : Subject \cup {<<>>},
                      user : User \cup {None}, last : BOOLEAN, got : SUBSET Node]
               c == [call[i] EXCEPT !.got = @ \cup {k.at}]
    <3>4. call \in [Id -> C] /\ c \in C
      <4>1. call \in [Id -> C]
        BY <1>0 DEF Recorded
      <4>2. call[i] \in C
        BY <1>1, <4>1
      <4>3. c \in C
        BY <3>1, <4>2
      <4>4. QED
        BY <4>1, <4>3
    <3> HIDE DEF C
    <3>5. call' \in [Id -> C]
      <4> HIDE DEF c
      <4>1. call' = [call EXCEPT ![i] = c]
        BY <2>2 DEF c
      <4>2. QED
        BY <3>4, <4>1
    <3>6. Recorded'
      BY <1>0, <1>1, <2>2, <3>5 DEF Recorded, C
    <3>7. QED
      BY <3>3, <3>6
  <2>3. QED
    BY <1>3, <2>1, <2>2
<1>8. \A j \in Id : call'[j] = Idle => call[j] = Idle
  <2>1. CASE UNCHANGED call
    BY <2>1
  <2>2. CASE call' = [call EXCEPT ![i].got = @ \cup {k.at}]
    <3>1. k.at \in call'[i].got /\ \A j \in Id : j # i => call'[j] = call[j]
      BY <1>0, <1>1, <2>2 DEF Recorded
    <3>2. call'[i] # Idle
      BY <3>1 DEF Idle
    <3>3. QED
      BY <3>1, <3>2
  <2>3. QED
    BY <1>3, <2>1, <2>2
<1>9. TypeOK'
  BY <1>0, <1>1, <1>2, <1>5, <1>7 DEF TypeOK
<1>10. ~IsAnswer(k.msg) /\ Authorize \in ToSet(Stack(k.at)) => k.user = call'[i].user
  BY <1>0, <1>1, <1>7 DEF Contexts
<1>11. Written'
  <2>1. \A c \in net : c.frame.msg.id \in Id
    BY <1>0 DEF TypeOK, Message
  <2>2. \A c \in net : c \in net' => call'[c.frame.msg.id].user = call[c.frame.msg.id].user
    BY <1>7, <2>1
  <2>3. ~IsAnswer(m) /\ Authorize \in ToSet(Stack(k.at)) => k.user = call'[m.id].user
    BY <1>2, <1>10
  <2>4. \A c \in net' \ net : c.frame = Encode(Stack(k.at), k.user, m) /\ c.frame.msg = m /\ c.by = k.at
    BY <1>5
  <2> HIDE DEF i
  <2>5. QED
    BY <1>0, <1>1, <2>2, <2>3, <2>4, WrittenStep
<1>12. Contexts'
  <2>1. \A x \in child : x.msg.id \in Id
    BY <1>0 DEF TypeOK, Message
  <2>2. QED
    BY <1>0, <1>1, <1>7, <2>1 DEF Contexts, Stack
<1>13. Unasked'
  <2>1. ASSUME NEW j \in Id, call'[j] = Idle
        PROVE  /\ handled'[j] = <<>>
               /\ \A c \in net' : c.frame.msg.id # j
               /\ \A x \in child' : x.msg.id # j
    <3>1. j # i /\ call[j] = Idle
      BY <1>6, <1>8, <2>1
    <3>2. handled'[j] = handled[j]
      BY <1>0, <1>1, <1>3, <3>1 DEF Recorded
    <3>3. QED
      BY <1>0, <1>1, <1>2, <1>5, <3>1, <3>2 DEF Unasked
  <2>2. QED
    BY <2>1 DEF Unasked
<1>14. UserKept'
  <2>1. ASSUME NEW j \in Id, NEW l \in DOMAIN handled'[j]
        PROVE  Authorize \in ToSet(stack'[Name(handled'[j][l].at)]) =>
                   handled'[j][l].user = call'[j].user
    <3>1. CASE l \in DOMAIN handled[j] /\ handled'[j][l] = handled[j][l]
      BY <1>0, <1>1, <1>7, <3>1 DEF UserKept, Stack
    <3>2. CASE ~IsAnswer(k.msg) /\ j = i /\ handled'[j][l] = h
      BY <1>1, <1>4, <1>10, <3>2 DEF Stack
    <3>3. CASE UNCHANGED handled
      BY <2>1, <3>1, <3>3
    <3>4. CASE ~IsAnswer(k.msg) /\ handled' = [handled EXCEPT ![i] = Append(@, h)]
      <4>1. handled[j] \in Seq([at : Node, user : User \cup {None}, via : Seq(Node)])
        BY <1>0 DEF Recorded
      <4>2. handled'[j] = IF j = i THEN Append(handled[j], h) ELSE handled[j]
        BY <1>0, <1>1, <3>4 DEF Recorded
      <4>3. CASE j = i
        <5>1. handled'[j] = Append(handled[j], h)
          BY <4>2, <4>3
        <5>2. /\ DOMAIN handled[j] = 1 .. Len(handled[j]) /\ Len(handled[j]) \in Nat
              /\ DOMAIN handled'[j] = 1 .. Len(handled[j]) + 1
              /\ handled'[j][Len(handled[j]) + 1] = h
              /\ \A x \in 1 .. Len(handled[j]) : handled'[j][x] = handled[j][x]
          BY <1>4, <4>1, <5>1
        <5>3. l \in 1 .. Len(handled[j]) \/ l = Len(handled[j]) + 1
          BY <2>1, <5>2
        <5>4. QED
          BY <3>1, <3>2, <3>4, <4>3, <5>2, <5>3
      <4>4. CASE j # i
        BY <2>1, <3>1, <4>2, <4>4
      <4>5. QED
        BY <4>3, <4>4
    <3>5. QED
      BY <1>3, <3>3, <3>4
  <2>2. QED
    BY <2>1 DEF UserKept, Stack
<1>15. QED
  BY <1>7, <1>9, <1>11, <1>12, <1>13, <1>14 DEF Kept

-----------------------------------------------------------------------------
(* Broadcasts                                                              *)

LEMMA NotMore ==
    ASSUME NEW S, IsFiniteSet(S), NEW T, T \subseteq S
    PROVE  /\ IsFiniteSet(T) /\ Cardinality(T) \in Nat /\ Cardinality(S) \in Nat
           /\ Cardinality(T) <= Cardinality(S)
  BY FS_Subset, FS_CardinalityType

LEMMA OneMore ==
    ASSUME NEW S, IsFiniteSet(S), NEW x, NEW T, T \subseteq S \cup {x}
    PROVE  /\ IsFiniteSet(T) /\ Cardinality(T) \in Nat /\ Cardinality(S) \in Nat
           /\ Cardinality(T) <= Cardinality(S) + 1
<1>0. Cardinality(S) \in Nat
  BY FS_CardinalityType
<1>1. IsFiniteSet(S \cup {x}) /\ Cardinality(S \cup {x}) <= Cardinality(S) + 1
  <2>1. /\ IsFiniteSet(S \cup {x})
        /\ Cardinality(S \cup {x}) = IF x \in S THEN Cardinality(S) ELSE Cardinality(S) + 1
    BY FS_AddElement
  <2>2. QED
    BY <1>0, <2>1
<1>2. QED
  BY <1>1, NotMore, FS_CardinalityType

LEMMA OneLess ==
    ASSUME NEW S, IsFiniteSet(S), NEW x \in S, NEW T, T \subseteq S \ {x}
    PROVE  /\ IsFiniteSet(T) /\ Cardinality(T) \in Nat /\ Cardinality(S) \in Nat
           /\ Cardinality(T) <= Cardinality(S) - 1
<1>1. IsFiniteSet(S \ {x}) /\ Cardinality(S \ {x}) = Cardinality(S) - 1
  BY FS_RemoveElement
<1>2. QED
  BY <1>1, NotMore, FS_CardinalityType

\* What Hushed says of message i.
Balanced(i) ==
    /\ IsFiniteSet(LooseFrames(i)) /\ IsFiniteSet(LooseRuns(i)) /\ IsFiniteSet(call[i].got)
    /\ Cardinality(LooseFrames(i)) + Cardinality(LooseRuns(i)) + Cardinality(call[i].got)
          <= Cardinality(Serving(i, Relay))

LEMMA ServingIs ==
    ASSUME Recorded, NEW i \in Id
    PROVE  /\ IsFiniteSet(Serving(i, Relay)) /\ Cardinality(Serving(i, Relay)) \in Nat
           /\ DOMAIN handled[i] = 1 .. Len(handled[i]) /\ Len(handled[i]) \in Nat
<1>1. DOMAIN handled[i] = 1 .. Len(handled[i]) /\ Len(handled[i]) \in Nat
  BY DEF Recorded
<1>2. IsFiniteSet(1 .. Len(handled[i])) /\ Serving(i, Relay) \subseteq 1 .. Len(handled[i])
  BY <1>1, UpTo DEF Serving
<1>3. QED
  BY <1>1, <1>2, NotMore

\* A message that nobody has asked has left nothing.
LEMMA AskBalanced ==
    ASSUME Kept, NEW i \in Id, NEW n \in Caller, Ask(i, n), call'[i].type = "Broadcast"
    PROVE  Balanced(i)'
<1>0. TypeOK /\ Recorded /\ Unasked
  BY DEF Kept
<1>1. PICK user \in User \cup {None}, m \in Message :
             /\ call[i] = Idle /\ n \in Node /\ m.id = i
             /\ Publish(n, user, m, <<>>)
             /\ UNCHANGED <<child, handled>>
             /\ call'[i].got = {} /\ call'[i].type = m.type
             /\ Recorded'
  BY <1>0, AskIs
<1>2. \A c \in net' \ net : c.frame.msg = m
  BY <1>1, PublishIs
<1>3. LooseFrames(i)' = {}
  BY <1>0, <1>1, <1>2 DEF Unasked, LooseFrames
<1>4. LooseRuns(i)' = {}
  BY <1>0, <1>1 DEF Unasked, LooseRuns
<1>5. IsFiniteSet({}) /\ Cardinality({}) = 0
  BY FS_EmptySet
<1>6. Cardinality(Serving(i, Relay)') \in Nat
  <2>1. /\ DOMAIN handled'[i] = 1 .. Len(handled'[i]) /\ Len(handled'[i]) \in Nat
    BY <1>1 DEF Recorded
  <2>2. IsFiniteSet(1 .. Len(handled'[i])) /\ Serving(i, Relay)' \subseteq 1 .. Len(handled'[i])
    BY <2>1, UpTo DEF Serving
  <2>3. QED
    BY <2>2, NotMore
<1>7. QED
  BY <1>1, <1>3, <1>4, <1>5, <1>6 DEF Balanced

\* A step that touches nothing of message i.
LEMMA OtherBalanced ==
    ASSUME NEW i \in Id, Balanced(i),
           call'[i] = call[i], handled'[i] = handled[i],
           \A c : c.frame.msg.id = i => (c \in net' <=> c \in net),
           \A k : k.msg.id = i => (k \in child' <=> k \in child)
    PROVE  Balanced(i)'
<1>1. LooseFrames(i)' = LooseFrames(i)
  BY DEF LooseFrames
<1>2. LooseRuns(i)' = LooseRuns(i)
  BY DEF LooseRuns
<1>3. Serving(i, Relay)' = Serving(i, Relay)
  BY DEF Serving
<1>4. QED
  BY <1>1, <1>2, <1>3 DEF Balanced

\* A frame becomes a goroutine.
LEMMA ReceiveBalanced ==
    ASSUME Kept, NEW c \in net, NEW n \in c.to, Receive(n, c), NEW i \in Id, Balanced(i)
    PROVE  Balanced(i)'
<1>0. TypeOK /\ Recorded /\ Written
  BY DEF Kept
<1>1. UNCHANGED <<call, handled>> /\ net' = net \ {c}
  BY <1>0, ReceiveIs
<1>2. PICK user : child' \subseteq child \cup {[at |-> n, msg |-> c.frame.msg, user |-> user, via |-> Append(c.via, n)]}
  BY <1>0, ReceiveIs
<1> DEFINE k0 == [at |-> n, msg |-> c.frame.msg, user |-> user, via |-> Append(c.via, n)]
<1>3. k0.msg = c.frame.msg /\ child' \subseteq child \cup {k0}
  BY <1>2
<1> HIDE DEF k0
<1>4. Serving(i, Relay)' = Serving(i, Relay)
  BY <1>1 DEF Serving
<1>5. /\ Cardinality(call[i].got) \in Nat /\ Cardinality(Serving(i, Relay)) \in Nat
  BY <1>0, ServingIs, FS_CardinalityType DEF Balanced
<1>6. CASE c \in LooseFrames(i)
  <2>1. LooseFrames(i)' \subseteq LooseFrames(i) \ {c}
    BY <1>1 DEF LooseFrames
  <2>2. LooseRuns(i)' \subseteq LooseRuns(i) \cup {k0}
    BY <1>3 DEF LooseRuns
  <2>3. /\ IsFiniteSet(LooseFrames(i)') /\ Cardinality(LooseFrames(i)') \in Nat
        /\ Cardinality(LooseFrames(i)) \in Nat
        /\ Cardinality(LooseFrames(i)') <= Cardinality(LooseFrames(i)) - 1
    BY <1>6, <2>1, OneLess DEF Balanced
  <2>4. /\ IsFiniteSet(LooseRuns(i)') /\ Cardinality(LooseRuns(i)') \in Nat
        /\ Cardinality(LooseRuns(i)) \in Nat
        /\ Cardinality(LooseRuns(i)') <= Cardinality(LooseRuns(i)) + 1
    BY <2>2, OneMore DEF Balanced
  <2>5. QED
    BY <1>1, <1>4, <1>5, <2>3, <2>4 DEF Balanced
<1>7. CASE c \notin LooseFrames(i)
  <2>1. LooseFrames(i)' \subseteq LooseFrames(i)
    BY <1>1 DEF LooseFrames
  <2>2. LooseRuns(i)' \subseteq LooseRuns(i)
    BY <1>3, <1>7 DEF LooseRuns, LooseFrames
  <2>3. /\ IsFiniteSet(LooseFrames(i)') /\ Cardinality(LooseFrames(i)') \in Nat
        /\ Cardinality(LooseFrames(i)) \in Nat
        /\ Cardinality(LooseFrames(i)') <= Cardinality(LooseFrames(i))
    BY <2>1, NotMore DEF Balanced
  <2>4. /\ IsFiniteSet(LooseRuns(i)') /\ Cardinality(LooseRuns(i)') \in Nat
        /\ Cardinality(LooseRuns(i)) \in Nat
        /\ Cardinality(LooseRuns(i)') <= Cardinality(LooseRuns(i))
    BY <2>2, NotMore DEF Balanced
  <2>5. QED
    BY <1>1, <1>4, <1>5, <2>3, <2>4 DEF Balanced
<1>8. QED
  BY <1>6, <1>7

\* Sums of counts before and after a step.
LEMMA Sums ==
    ASSUME NEW f \in Nat, NEW r \in Nat, NEW g \in Nat, NEW s \in Nat,
           NEW f1 \in Nat, NEW r1 \in Nat, NEW g1 \in Nat, NEW s1 \in Nat,
           f + r + g <= s,
           \/ f1 <= f + 1 /\ r1 <= r - 1 /\ g1 <= g /\ s <= s1
           \/ f1 <= f + 1 /\ r1 <= r /\ g1 <= g /\ s + 1 <= s1
           \/ f1 <= f /\ r1 <= r /\ g1 <= g /\ s <= s1
           \/ f1 <= f /\ r1 <= r - 1 /\ g1 <= g + 1 /\ s <= s1
    PROVE  f1 + r1 + g1 <= s1
  OBVIOUS

\* A goroutine that a relay's message is for leaves one message, or one answer;
\* one that the broadcast is for leaves a message at a relay only.
LEMMA RunBalanced ==
    ASSUME Kept, NEW k \in child, Handle(k) \/ Settle(k), NEW i \in Id, Balanced(i)
    PROVE  Balanced(i)'
<1>0. TypeOK /\ Recorded
  BY DEF Kept
<1>1. /\ k.msg \in Message /\ k.msg.id \in Id /\ child' = child \ {k}
      /\ k.at \in Node /\ k.user \in User \cup {None} /\ k.via \in Seq(Node)
  BY <1>0, RunIs
<1>2. PICK m \in Message :
                /\ m.id = k.msg.id /\ m.type # "Broadcast"
                /\ UNCHANGED net \/ Publish(k.at, k.user, m, k.via)
                /\ k.msg.type = "Broadcast" /\ k.at \notin Relay => UNCHANGED net
  BY <1>0, RunIs
<1> DEFINE h == [at |-> k.at, user |-> k.user, via |-> k.via]
<1>3. \/ /\ ~IsAnswer(k.msg) /\ UNCHANGED call
         /\ handled' = [handled EXCEPT ![k.msg.id] = Append(@, h)]
      \/ IsAnswer(k.msg) /\ UNCHANGED <<call, handled>>
      \/ /\ IsAnswer(k.msg) /\ UNCHANGED <<net, handled>>
         /\ call' = [call EXCEPT ![k.msg.id].got = @ \cup {k.at}]
  BY <1>0, RunIs
<1>4. h.at = k.at /\ h \in [at : Node, user : User \cup {None}, via : Seq(Node)]
  BY <1>1
<1> HIDE DEF h
<1>5. PICK c0 : net' \subseteq net \cup {c0}
  <2>1. CASE UNCHANGED net
    BY <2>1
  <2>2. CASE Publish(k.at, k.user, m, k.via)
    <3>1. k.at \in Node /\ m.type # "Broadcast"
      BY <1>1, <1>2
    <3>2. \E c : net' \subseteq net \cup {c}
      BY <2>2, <3>1, PublishIs
    <3>3. QED
      BY <3>2
  <2>3. QED
    BY <1>2, <2>1, <2>2
<1>6. net \subseteq net' /\ \A c \in net' \ net : c.frame.msg = m
  BY <1>1, <1>2, PublishIs
<1>7. CASE k.msg.id # i
  <2>1. call'[i] = call[i] /\ handled'[i] = handled[i]
    BY <1>0, <1>1, <1>3, <1>7 DEF Recorded
  <2>2. /\ \A c : c.frame.msg.id = i => (c \in net' <=> c \in net)
        /\ \A x : x.msg.id = i => (x \in child' <=> x \in child)
    BY <1>1, <1>2, <1>6, <1>7
  <2>3. QED
    BY <2>1, <2>2, OtherBalanced
<1>8. CASE k.msg.id = i
  <2>1. LooseFrames(i)' \subseteq LooseFrames(i) \cup {c0}
    BY <1>5 DEF LooseFrames
  <2>2. LooseRuns(i)' \subseteq LooseRuns(i) /\ (k.msg.type # "Broadcast" => LooseRuns(i)' \subseteq LooseRuns(i) \ {k})
    BY <1>1 DEF LooseRuns
  <2>3. k.msg.type # "Broadcast" => k \in LooseRuns(i)
    BY <1>8 DEF LooseRuns
  <2>4. UNCHANGED net => LooseFrames(i)' = LooseFrames(i)
    BY DEF LooseFrames
  <2> DEFINE F == Cardinality(LooseFrames(i))
             R == Cardinality(LooseRuns(i))
             G == Cardinality(call[i].got)
             S == Cardinality(Serving(i, Relay))
  <2>5. /\ IsFiniteSet(LooseFrames(i)') /\ F \in Nat /\ F' \in Nat /\ F' <= F + 1
        /\ UNCHANGED net => F' = F
    BY <2>1, <2>4, OneMore DEF Balanced
  <2>6. IsFiniteSet(LooseRuns(i)') /\ R \in Nat /\ R' \in Nat /\ R' <= R
    BY <2>2, NotMore DEF Balanced
  <2>7. k.msg.type # "Broadcast" => R' <= R - 1
    BY <2>2, <2>3, OneLess DEF Balanced
  <2>8. S \in Nat /\ G \in Nat /\ F + R + G <= S /\ IsFiniteSet(call[i].got)
    BY <1>0, ServingIs, FS_CardinalityType DEF Balanced
  <2>9. CASE ~IsAnswer(k.msg) /\ UNCHANGED call /\ handled' = [handled EXCEPT ![k.msg.id] = Append(@, h)]
    <3>1. handled[i] \in Seq([at : Node, user : User \cup {None}, via : Seq(Node)]) /\ handled'[i] = Append(handled[i], h)
      BY <1>0, <1>8, <2>9 DEF Recorded
    <3>2. /\ DOMAIN handled[i] = 1 .. Len(handled[i]) /\ Len(handled[i]) \in Nat
          /\ DOMAIN handled'[i] = 1 .. Len(handled[i]) + 1
          /\ handled'[i][Len(handled[i]) + 1] = h
          /\ \A x \in 1 .. Len(handled[i]) : handled'[i][x] = handled[i][x]
      BY <1>4, <3>1
    <3> DEFINE l == Len(handled[i]) + 1
    <3>3. Serving(i, Relay)' = IF k.at \in Relay THEN Serving(i, Relay) \cup {l} ELSE Serving(i, Relay)
      <4>1. /\ \A x : x \in Serving(i, Relay) <=> x \in DOMAIN handled[i] /\ handled[i][x].at \in Relay
            /\ \A x : x \in Serving(i, Relay)' <=> x \in DOMAIN handled'[i] /\ handled'[i][x].at \in Relay
        BY DEF Serving
      <4>2. \A x : x \in DOMAIN handled'[i] <=> x \in DOMAIN handled[i] \/ x = l
        BY <3>2
      <4>3. handled'[i][l].at = k.at /\ \A x \in DOMAIN handled[i] : handled'[i][x] = handled[i][x]
        BY <1>4, <3>2
      <4>4. l \notin DOMAIN handled[i]
        BY <3>2
      <4> HIDE DEF l
      <4>5. QED
        BY <4>1, <4>2, <4>3, <4>4
    <3>4. l \notin Serving(i, Relay)
      BY <3>2 DEF Serving
    <3>5. IsFiniteSet(Serving(i, Relay))
      BY <1>0, ServingIs
    <3>6. S' = IF k.at \in Relay THEN S + 1 ELSE S
      <4>1. Cardinality(Serving(i, Relay) \cup {l}) = S + 1
        BY <3>4, <3>5, FS_AddElement
      <4>2. QED
        BY <3>3, <4>1
    <3>7. G' = G /\ call'[i].got = call[i].got
      BY <2>9
    <3> HIDE DEF F, R, G, S
    <3>8. F' + R' + G <= S'
      <4>0. S' \in Nat /\ S <= S' /\ (k.at \in Relay => S + 1 <= S')
        BY <2>8, <3>6
      <4>1. \/ F' <= F + 1 /\ R' <= R - 1 /\ S <= S'
            \/ F' <= F + 1 /\ R' <= R /\ S + 1 <= S'
            \/ F' = F /\ R' <= R /\ S <= S'
        BY <1>2, <2>5, <2>6, <2>7, <4>0
      <4>2. F \in Nat /\ R \in Nat /\ G \in Nat /\ S \in Nat /\ F' \in Nat /\ R' \in Nat /\ F + R + G <= S
        BY <2>5, <2>6, <2>8
      <4>3. (F' = F => F' <= F) /\ G <= G
        BY <4>2
      <4>4. \/ F' <= F + 1 /\ R' <= R - 1 /\ G <= G /\ S <= S'
            \/ F' <= F + 1 /\ R' <= R /\ G <= G /\ S + 1 <= S'
            \/ F' <= F /\ R' <= R /\ G <= G /\ S <= S'
        BY <4>1, <4>3
      <4>5. QED
        BY <4>0, <4>2, <4>4, Sums
    <3>9. QED
      BY <2>5, <2>6, <2>8, <3>7, <3>8 DEF Balanced, F, R, G, S
  <2>10. CASE IsAnswer(k.msg) /\ UNCHANGED handled
    <3>1. k.msg.type # "Broadcast"
      BY <2>10 DEF IsAnswer
    <3>2. S' = S
      BY <2>10 DEF Serving
    <3>3. CASE UNCHANGED call
      <4>1. G' = G /\ call'[i].got = call[i].got
        BY <3>3
      <4> HIDE DEF F, R, G, S
      <4>2. F' + R' + G' <= S'
        <5>1. F' \in Nat /\ F' <= F + 1 /\ R' \in Nat /\ R' <= R - 1 /\ G' \in Nat /\ G' <= G
          BY <2>5, <2>6, <2>7, <2>8, <3>1, <4>1
        <5>2. F \in Nat /\ R \in Nat /\ G \in Nat /\ S \in Nat /\ F + R + G <= S
          BY <2>5, <2>6, <2>8
        <5>3. S' \in Nat /\ S <= S'
          BY <3>2, <5>2
        <5>4. QED
          BY <5>1, <5>2, <5>3, Sums
      <4>3. QED
        BY <2>5, <2>6, <2>8, <4>1, <4>2 DEF Balanced, F, R, G, S
    <3>4. CASE UNCHANGED net /\ call' = [call EXCEPT ![k.msg.id].got = @ \cup {k.at}]
      <4>1. call'[i].got = call[i].got \cup {k.at}
        BY <1>0, <1>8, <3>4 DEF Recorded
      <4>2. IsFiniteSet(call'[i].got) /\ G' \in Nat /\ G' <= G + 1
        BY <2>8, <4>1, OneMore
      <4> HIDE DEF F, R, G, S
      <4>3. F' + R' + G' <= S'
        <5>1. F' \in Nat /\ F' <= F /\ R' \in Nat /\ R' <= R - 1
          BY <2>5, <2>6, <2>7, <3>1, <3>4
        <5>2. F \in Nat /\ R \in Nat /\ G \in Nat /\ S \in Nat /\ F + R + G <= S
          BY <2>5, <2>6, <2>8
        <5>3. S' \in Nat /\ S <= S'
          BY <3>2, <5>2
        <5>4. QED
          BY <4>2, <5>1, <5>2, <5>3, Sums
      <4>4. QED
        BY <2>5, <2>6, <4>2, <4>3 DEF Balanced, F, R, G, S
    <3>5. QED
      BY <1>3, <2>10, <3>3, <3>4
  <2>11. QED
    BY <1>3, <2>9, <2>10
<1>9. QED
  BY <1>7, <1>8

LEMMA HushedStep ==
    ASSUME Kept, Hushed, [Next]_vars
    PROVE  Hushed'
<1>0. TypeOK /\ Recorded /\ Unasked
  BY DEF Kept
<1> DEFINE Wild(i) == call[i] = Idle \/ call[i].type = "Broadcast"
<1>1. \A i \in Id : Wild(i) => Balanced(i)
  BY DEF Hushed, Balanced
<1> HIDE DEF Wild
<1>2. SUFFICES ASSUME NEW i \in Id, Wild(i)'
               PROVE  Balanced(i)'
  BY DEF Hushed, Balanced, Wild
<1>3. ASSUME NEW j \in Id, NEW n \in Caller, Ask(j, n)
      PROVE  Balanced(i)'
  <2>1. PICK user \in User \cup {None}, m \in Message :
             /\ n \in Node /\ m.id = j
             /\ Publish(n, user, m, <<>>)
             /\ UNCHANGED <<child, handled>>
             /\ call' = [call EXCEPT ![j] = call'[j]]
             /\ call'[j] # Idle
    BY <1>0, <1>3, AskIs
  <2>2. CASE i = j
    <3>1. call'[i].type = "Broadcast"
      BY <1>2, <2>1, <2>2 DEF Wild
    <3>2. QED
      BY <1>3, <2>2, <3>1, AskBalanced
  <2>3. CASE i # j
    <3>1. call'[i] = call[i]
      BY <1>0, <2>1, <2>3 DEF Recorded
    <3>2. Balanced(i)
      BY <1>1, <1>2, <3>1 DEF Wild
    <3>3. net \subseteq net' /\ \A c \in net' \ net : c.frame.msg = m
      BY <2>1, PublishIs
    <3>4. /\ \A c : c.frame.msg.id = i => (c \in net' <=> c \in net)
          /\ \A k : k.msg.id = i => (k \in child' <=> k \in child)
      BY <2>1, <2>3, <3>3
    <3>5. handled'[i] = handled[i]
      BY <2>1
    <3>6. QED
      BY <3>1, <3>2, <3>4, <3>5, OtherBalanced
  <2>4. QED
    BY <2>2, <2>3
<1>4. ASSUME NEW c \in net, NEW n \in c.to, Receive(n, c)
      PROVE  Balanced(i)'
  <2>1. UNCHANGED call
    BY <1>4 DEF Receive
  <2>2. Balanced(i)
    BY <1>1, <1>2, <2>1 DEF Wild
  <2>3. QED
    BY <1>4, <2>2, ReceiveBalanced
<1>5. ASSUME NEW k \in child, Handle(k) \/ Settle(k)
      PROVE  Balanced(i)'
  <2>1. k.msg.id \in Id /\ k.at \in Node
    BY <1>0, <1>5, RunIs
  <2>2. \/ UNCHANGED call
        \/ call' = [call EXCEPT ![k.msg.id].got = @ \cup {k.at}]
    BY <1>0, <1>5, RunIs
  <2>3. call'[i].type = call[i].type
    <3>1. CASE UNCHANGED call
      BY <3>1
    <3>2. CASE call' = [call EXCEPT ![k.msg.id].got = @ \cup {k.at}]
      <4>1. call[i] \in [node : Node \cup {None}, type : Type \cup {None},
                        to : Subject \cup {<<>>}, user : User \cup {None},
                        last : BOOLEAN, got : SUBSET Node]
        BY <1>0 DEF Recorded
      <4>2. CASE i = k.msg.id
        <5>1. call'[i] = [call[i] EXCEPT !.got = @ \cup {k.at}]
          BY <1>0, <3>2, <4>2 DEF Recorded
        <5>2. QED
          BY <4>1, <5>1
      <4>3. CASE i # k.msg.id
        BY <1>0, <3>2, <4>3 DEF Recorded
      <4>4. QED
        BY <4>2, <4>3
    <3>3. QED
      BY <2>2, <3>1, <3>2
  <2>4. call'[i] = Idle => call[i] = Idle
    <3>1. CASE UNCHANGED call
      BY <3>1
    <3>2. CASE call' = [call EXCEPT ![k.msg.id].got = @ \cup {k.at}]
      <4>1. i = k.msg.id => k.at \in call'[i].got
        BY <1>0, <2>1, <3>2 DEF Recorded
      <4>2. i # k.msg.id => call'[i] = call[i]
        BY <1>0, <3>2 DEF Recorded
      <4>3. QED
        BY <4>1, <4>2 DEF Idle
    <3>3. QED
      BY <2>2, <3>1, <3>2
  <2>5. Balanced(i)
    BY <1>1, <1>2, <2>3, <2>4 DEF Wild
  <2>6. QED
    BY <1>5, <2>5, RunBalanced
<1>6. CASE UNCHANGED vars
  <2>1. Balanced(i)
    BY <1>1, <1>2, <1>6 DEF Wild, vars
  <2>2. UNCHANGED <<net, child, call, handled>>
    BY <1>6 DEF vars
  <2>3. QED
    BY <2>1, <2>2, OtherBalanced
<1>7. QED
  BY <1>3, <1>4, <1>5, <1>6, Steps

-----------------------------------------------------------------------------
(* Why everything is delivered: of a broadcast there is one trace from each *)
(* who receives it, of another message one at all, from frame to goroutine *)
(* to frame.                                                               *)

FramesOf(i) == {c \in net : c.frame.msg.id = i}
RunsOf(i) == {k \in child : k.msg.id = i}

\* Where the trace of message i with this path began or, if it has no path yet,
\* may begin.
Start(i, via, to) ==
    IF call[i].type # "Broadcast" THEN There(i)
    ELSE IF via = <<>> THEN to ELSE {via[1]}

Begun(i, x) == Start(i, x.via, {})

\* What was asked, and what a relay made of it.
Original(i, m) ==
    ~IsAnswer(m) /\ m.type = call[i].type /\ m.to = call[i].to /\ m.ret = <<>>
PassedOn(m) == m.type = "Query" /\ m.to = Beyond

\* n passed message i on.
Relayed(i, n) ==
    n \in Relay /\ \E q \in DOMAIN handled[i] : handled[i][q].via = <<n>>

\* The exchanges that traces of message i come through: one of those it is for, and
\* behind a relay one of those beyond.
FramePath(i, c) ==
    /\ c.to # {}
    /\ c.via = <<>> =>
        /\ Original(i, c.frame.msg) /\ c.to \subseteq There(i)
        /\ call[i].type = "Broadcast" => \E n \in Node : c.to = {n}
    /\ c.via # <<>> =>
        /\ c.via[1] \in There(i)
        /\ ~IsAnswer(c.frame.msg) =>
            /\ PassedOn(c.frame.msg) /\ c.to \subseteq Queue(Beyond)
            /\ Len(c.via) = 1 /\ Relayed(i, c.via[1])

RunPath(i, k) ==
    /\ k.via # <<>> /\ k.via[1] \in There(i)
    /\ Len(k.via) = 1 => Original(i, k.msg) /\ k.at = k.via[1]
    /\ Len(k.via) # 1 /\ ~IsAnswer(k.msg) =>
        /\ PassedOn(k.msg) /\ k.at \in Queue(Beyond)
        /\ Len(k.via) = 2 /\ Relayed(i, k.via[1])

HandledPath(i, h) ==
    /\ Len(h.via) \in {1, 2} /\ h.via[1] \in There(i)
    /\ Len(h.via) = 1 => h.at = h.via[1]
    /\ Len(h.via) = 2 => Relayed(i, h.via[1]) /\ h.at \in Queue(Beyond)

Paths(i) ==
    /\ \A c \in FramesOf(i) : FramePath(i, c)
    /\ \A k \in RunsOf(i) : RunPath(i, k)
    /\ \A p \in DOMAIN handled[i] : HandledPath(i, handled[i][p])

\* Two traces do not begin at one place ...
Apart(i) ==
    /\ \A c, d \in FramesOf(i) :
        Start(i, c.via, c.to) \cap Start(i, d.via, d.to) # {} => c = d
    /\ \A k, l \in RunsOf(i) : Begun(i, k) \cap Begun(i, l) # {} => k = l
    /\ \A c \in FramesOf(i), k \in RunsOf(i) : Start(i, c.via, c.to) \cap Begun(i, k) = {}

\* ... and a trace is handled once on each leg,
Once(i) ==
    \A p, q \in DOMAIN handled[i] :
        LET g == handled[i][p]
            h == handled[i][q]
        IN Len(g.via) = Len(h.via) /\ Begun(i, g) \cap Begun(i, h) # {} => p = q

\* which it then leaves.
Ahead(i) ==
    \A p \in DOMAIN handled[i] :
        LET h == handled[i][p] IN
        /\ \A c \in FramesOf(i) :
            ~IsAnswer(c.frame.msg) /\ Start(i, c.via, c.to) \cap Begun(i, h) # {} =>
                Len(h.via) <= Len(c.via)
        /\ \A k \in RunsOf(i) :
            ~IsAnswer(k.msg) /\ Begun(i, k) \cap Begun(i, h) # {} => Len(h.via) < Len(k.via)

\* On leg l + 1 the query that began at n is on its way or was handled.
Arrives(i, n, l) ==
    \/ \E c \in FramesOf(i) :
        Len(c.via) = l /\ ~IsAnswer(c.frame.msg) /\ n \in Start(i, c.via, c.to)
    \/ \E k \in RunsOf(i) : Len(k.via) = l + 1 /\ ~IsAnswer(k.msg) /\ n \in Begun(i, k)
    \/ \E p \in DOMAIN handled[i] :
        Len(handled[i][p].via) = l + 1 /\ n \in Begun(i, handled[i][p])

NoneLost(i) ==
    /\ \A n \in There(i) : Arrives(i, n, 0)
    /\ \A p \in DOMAIN handled[i] :
        LET h == handled[i][p] IN
        Len(h.via) = 1 /\ h.at \in Relay => \A n \in Begun(i, h) : Arrives(i, n, 1)

\* A request, or its answer, on the way from or to the one topic of its sender.
Homeward(i, m) ==
    LET home == Address[call[i].node] IN
    \/ Original(i, m) /\ m.from = home
    \/ ~IsAnswer(m) /\ PassedOn(m) /\ m.from = call[i].to /\ m.ret = <<home>>
    \/ IsAnswer(m) /\ m.to = call[i].to /\ m.ret = <<home>>
    \/ IsAnswer(m) /\ m.to = home /\ m.ret = <<>>

Returns(i) ==
    /\ call[i].got \subseteq {call[i].node}
    /\ \A c \in FramesOf(i) :
        /\ Homeward(i, c.frame.msg) /\ call[i].got = {}
        /\ c.via # <<>> => c.to \subseteq Queue(c.frame.msg.to)
        /\ c.frame.msg.ret # <<>> => c.via[1] \in Relay
    /\ \A k \in RunsOf(i) :
        /\ Homeward(i, k.msg) /\ call[i].got = {}
        /\ IsAnswer(k.msg) => k.at \in Queue(k.msg.to)
        /\ k.msg.ret # <<>> => k.via[1] \in Relay
    /\ OneStack /\ There(i) # {} =>
        FramesOf(i) # {} \/ RunsOf(i) # {} \/ call[i].got = {call[i].node}

Traced(i) ==
    /\ Paths(i) /\ Apart(i) /\ Once(i) /\ Ahead(i)
    /\ OneStack => NoneLost(i)
    /\ OwnRequest(i) => Returns(i)

Tracked == \A i \in Id : call[i] # Idle => Traced(i)

-----------------------------------------------------------------------------
(* Delivery: addresses and what is published                               *)

\* A subject of an exchange begins with its name.
LEMMA Heads ==
    ASSUME NEW n \in Node, NEW s \in Subjects(n)
    PROVE  Head(s) = Name(n)
<1>1. PICK k \in 1 .. Len(Address[n]) : s = SubSeq(Address[n], 1, k)
  BY DEF Subjects
<1>2. Address[n] \in Seq(Words) /\ Len(Address[n]) \in Nat /\ Address[n] # <<>>
  BY WordsAssumption
<1>3. Len(s) = k /\ s[1] = Address[n][1] /\ s \in Seq(Words) /\ s # <<>>
  BY <1>1, <1>2
<1>4. QED
  BY <1>2, <1>3 DEF Name

\* No relay is beyond itself, and whoever is asked beside one is not.
LEMMA Beside ==
    /\ \A r \in Relay : r \in Node /\ r \notin Queue(Beyond)
    /\ \A s : \A r \in Relay \cap Queue(s) : \A n \in Queue(s) : n \notin Queue(Beyond)
<1>1. \A r \in Relay : r \in Node /\ Head(Beyond) # Name(r)
  BY NodeAssumption DEF Name
<1>2. \A s : \A n \in Queue(s) : n \in Node /\ Head(s) = Name(n)
  BY Heads DEF Queue
<1>3. QED
  BY <1>1, <1>2

LEMMA Someone ==
    ASSUME NEW s \in Subject
    PROVE  Queue(s) # {} /\ Queue(s) \subseteq Node /\ Wide(s) \subseteq Queue(s)
  BY AddressAssumption DEF Queue, Wide

\* One frame for whoever is there to receive it.
OneFrame(n, m, via) ==
    LET to == Queue(m.to) \ {n} IN
    \/ net' = net /\ to = {}
    \/ \E d : /\ net' = net \cup {d} /\ d.frame.msg = m /\ d.via = via
              /\ d.to = to /\ to # {}

\* That is what Publish sends of what is no broadcast.
LEMMA PublishOne ==
    ASSUME NEW n \in Node, NEW u, NEW m, NEW via, Publish(n, u, m, via),
           m.type # "Broadcast"
    PROVE  OneFrame(n, m, via)
<1> DEFINE f == Encode(Stack(n), u, m)
           d == [frame |-> f, by |-> n, via |-> via, to |-> Queue(m.to) \ {n}]
           new == {c \in {d} : c.to # {}}
<1>1. net' = net \cup new
  <2>1. Receivers(m) = {Queue(m.to)}
    BY DEF Receivers
  <2>2. {[frame |-> f, by |-> n, via |-> via, to |-> ns \ {n}] : ns \in Receivers(m)} = {d}
    BY <2>1
  <2>3. QED
    BY <2>2 DEF Publish
<1>2. f.msg = m
  BY DEF Encode
<1> HIDE DEF f
<1>3. d.frame = f /\ d.via = via /\ d.to = Queue(m.to) \ {n}
  OBVIOUS
<1>4. QED
  BY <1>1, <1>2, <1>3 DEF OneFrame

\* One frame for each who is to receive a broadcast.
EachFrame(n, m, via) ==
    LET there == Wide(m.to) \ {n} IN
    /\ net \subseteq net'
    /\ \A d \in net' \ net : \E w \in there : d.frame.msg = m /\ d.via = via /\ d.to = {w}
    /\ \A c, d \in net' \ net : c.to = d.to => c = d
    /\ \A w \in there : \E d \in net' : d.frame.msg = m /\ d.via = via /\ d.to = {w}

\* That is what Publish sends of one.
LEMMA PublishAll ==
    ASSUME NEW n \in Node, NEW u, NEW m, NEW via, Publish(n, u, m, via),
           m.type = "Broadcast"
    PROVE  EachFrame(n, m, via)
<1> DEFINE f == Encode(Stack(n), u, m)
           d(w) == [frame |-> f, by |-> n, via |-> via, to |-> {w} \ {n}]
           all == {[frame |-> f, by |-> n, via |-> via, to |-> ns \ {n}] : ns \in Receivers(m)}
           new == {c \in all : c.to # {}}
<1>1. net' = net \cup new
  BY DEF Publish
<1>2. Receivers(m) = {{w} : w \in Wide(m.to)}
  BY DEF Receivers
<1>3. f.msg = m
  BY DEF Encode
<1> HIDE DEF f
<1>4. /\ \A c \in all : \E w \in Wide(m.to) : c = d(w)
      /\ \A w \in Wide(m.to) : d(w) \in all
  BY <1>2
<1>5. \A w : /\ d(w).frame = f /\ d(w).via = via
             /\ d(w).to = {w} \ {n}
             /\ w # n => d(w).to = {w}
  OBVIOUS
<1> HIDE DEF all
<1>6. \A c \in new : \E w \in Wide(m.to) \ {n} : c = d(w)
  BY <1>4, <1>5
<1>7. \A w \in Wide(m.to) \ {n} : d(w) \in new
  BY <1>4, <1>5
<1>8. \A w, x : d(w).to = d(x).to => d(w) = d(x)
  BY <1>5
<1> HIDE DEF new, d
<1>9. QED
  BY <1>1, <1>3, <1>5, <1>6, <1>7, <1>8 DEF EachFrame

-----------------------------------------------------------------------------
(* Delivery: the four parts of Tracked, step by step                       *)

\* Nothing but what came back is recorded anew of message i.
SameCall(i) ==
    /\ call'[i].node = call[i].node /\ call'[i].type = call[i].type
    /\ call'[i].to = call[i].to /\ call'[i].last = call[i].last

LEMMA Same ==
    ASSUME NEW i, SameCall(i)
    PROVE  /\ There(i)' = There(i) /\ (OwnRequest(i)' <=> OwnRequest(i))
           /\ \A via, to : Start(i, via, to)' = Start(i, via, to)
           /\ \A x : Begun(i, x)' = Begun(i, x)
           /\ \A m : (Original(i, m)' <=> Original(i, m)) /\ (Homeward(i, m)' <=> Homeward(i, m))
<1>1. There(i)' = There(i)
  BY DEF There, SameCall
<1>2. OwnRequest(i)' <=> OwnRequest(i)
  BY DEF OwnRequest, SameCall
<1>3. \A via, to : Start(i, via, to)' = Start(i, via, to)
  BY <1>1 DEF Start, SameCall
<1>4. \A x : Begun(i, x)' = Begun(i, x)
  BY <1>3 DEF Begun
<1>5. \A m : Original(i, m)' <=> Original(i, m)
  BY DEF Original, SameCall
<1>6. \A m : Homeward(i, m)' <=> Homeward(i, m)
  BY <1>5 DEF Homeward, SameCall
<1>7. QED
  BY <1>1, <1>2, <1>3, <1>4, <1>5, <1>6

\* What a message has been through, and what it needs, is told by these.
LEMMA Untouched ==
    ASSUME NEW i \in Id, UNCHANGED <<stack, call[i], handled[i]>>,
           FramesOf(i)' = FramesOf(i), RunsOf(i)' = RunsOf(i)
    PROVE  /\ Paths(i) => Paths(i)'
           /\ (Apart(i) => Apart(i)') /\ (Once(i) => Once(i)') /\ (Ahead(i) => Ahead(i)')
           /\ NoneLost(i) => NoneLost(i)'
           /\ Returns(i) => Returns(i)'
           /\ (OneStack' <=> OneStack) /\ (OwnRequest(i)' <=> OwnRequest(i))
<1>1. SameCall(i)
  BY DEF SameCall
<1>2. \A n : Relayed(i, n)' <=> Relayed(i, n)
  BY DEF Relayed
<1>3. Paths(i) => Paths(i)'
  BY <1>1, <1>2, Same DEF Paths, FramePath, RunPath, HandledPath
<1>4. (Apart(i) => Apart(i)') /\ (Once(i) => Once(i)') /\ (Ahead(i) => Ahead(i)')
  <2>1. /\ \A via, to : Start(i, via, to)' = Start(i, via, to)
        /\ \A x : Begun(i, x)' = Begun(i, x)
    BY <1>1, Same
  <2>2. handled'[i] = handled[i]
    OBVIOUS
  <2>3. Apart(i) => Apart(i)'
    BY <2>1 DEF Apart
  <2>4. Once(i) => Once(i)'
    BY <2>1, <2>2, ZenonT(30) DEF Once
  <2>5. Ahead(i) => Ahead(i)'
    BY <2>1, <2>2 DEF Ahead
  <2>6. QED
    BY <2>3, <2>4, <2>5
<1>5. NoneLost(i) => NoneLost(i)'
  BY <1>1, Same DEF NoneLost, Arrives
<1>6. Returns(i) => Returns(i)'
  BY <1>1, Same DEF Returns, OneStack
<1>7. QED
  BY <1>1, <1>3, <1>4, <1>5, <1>6, Same DEF OneStack

LEMMA Onward ==
    ASSUME NEW via \in Seq(Node), NEW n \in Node
    PROVE  /\ Append(via, n) \in Seq(Node) /\ Append(via, n) # <<>>
           /\ Len(Append(via, n)) = Len(via) + 1 /\ Len(via) \in Nat
           /\ Append(via, n)[1] = IF via = <<>> THEN n ELSE via[1]
           /\ via = <<>> <=> Len(via) = 0
<1>1. /\ Append(via, n) \in Seq(Node) /\ Append(via, n) # <<>>
      /\ Len(Append(via, n)) = Len(via) + 1 /\ Len(via) \in Nat
  OBVIOUS
<1>2. via = <<>> <=> Len(via) = 0
  OBVIOUS
<1>3. CASE via = <<>>
  BY <1>1, <1>2, <1>3
<1>4. CASE via # <<>>
  BY <1>1, <1>2, <1>4
<1>5. QED
  BY <1>1, <1>2, <1>3, <1>4

\* What is received goes on as a goroutine, which all accept who use one stack.
LEMMA ReceiveExact ==
    ASSUME Kept, NEW c \in net, NEW n \in c.to, Receive(n, c)
    PROVE  LET i == c.frame.msg.id IN
           /\ i \in Id /\ call[i] # Idle /\ n \in Node /\ c.via \in Seq(Node)
           /\ UNCHANGED <<stack, call, handled>>
           /\ c \in FramesOf(i) /\ FramesOf(i)' = FramesOf(i) \ {c}
           /\ \E k : /\ k.at = n /\ k.msg = c.frame.msg /\ k.via = Append(c.via, n)
                     /\ RunsOf(i) \subseteq RunsOf(i)' /\ RunsOf(i)' \subseteq RunsOf(i) \cup {k}
                     /\ OneStack => k \in RunsOf(i)'
           /\ \A j : j # i => FramesOf(j)' = FramesOf(j) /\ RunsOf(j)' = RunsOf(j)
<1> DEFINE i == c.frame.msg.id
<1>0. TypeOK /\ Recorded /\ Written /\ Unasked
  BY DEF Kept
<1>1. /\ n \in Node /\ c.frame.msg \in Message /\ c.via \in Seq(Node) /\ c.by \in Node
      /\ i \in Id /\ call[i] # Idle
  BY <1>0 DEF TypeOK, Written, Unasked, Message
<1> DEFINE k == [at |-> n, msg |-> c.frame.msg, user |-> UserIn(Stack(n), c.frame),
                 via |-> Append(c.via, n)]
<1>2. /\ UNCHANGED <<stack, call, handled>> /\ net' = net \ {c}
      /\ child' = IF Accepts(Stack(n), c.frame) THEN child \cup {k} ELSE child
  BY DEF Receive
<1>3. k.at = n /\ k.msg = c.frame.msg /\ k.via = Append(c.via, n)
  OBVIOUS
<1> HIDE DEF k
<1>4. ASSUME OneStack
      PROVE  Accepts(Stack(n), c.frame)
  <2>1. PICK u \in User \cup {None} : c.frame = Encode(Stack(c.by), u, c.frame.msg)
    BY <1>0 DEF Written
  <2>2. Stack(n) \in Stacks /\ Stack(c.by) \in Stacks
    BY <1>0, <1>1, StackIs
  <2>3. Name(n) \in DOMAIN stack /\ Name(c.by) \in DOMAIN stack
    BY <1>0, <1>1 DEF Recorded
  <2>4. Stack(n) = Stack(c.by)
    BY <1>4, <2>3 DEF OneStack, Stack
  <2>5. Accepts(Stack(n), Encode(Stack(c.by), u, c.frame.msg))
    BY <1>1, <2>2, <2>4, Taken
  <2>6. QED
    BY <2>1, <2>5
<1>5. c \in FramesOf(i) /\ FramesOf(i)' = FramesOf(i) \ {c}
  BY <1>2 DEF FramesOf
<1>6. /\ RunsOf(i) \subseteq RunsOf(i)' /\ RunsOf(i)' \subseteq RunsOf(i) \cup {k}
      /\ OneStack => k \in RunsOf(i)'
  BY <1>2, <1>3, <1>4 DEF RunsOf
<1>7. \A j : j # i => FramesOf(j)' = FramesOf(j) /\ RunsOf(j)' = RunsOf(j)
  BY <1>2, <1>3 DEF RunsOf, FramesOf
<1>8. QED
  BY <1>1, <1>2, <1>3, <1>5, <1>6, <1>7

LEMMA ReceiveTraced ==
    ASSUME Kept, NEW c \in net, NEW n \in c.to, Receive(n, c), Traced(c.frame.msg.id)
    PROVE  Traced(c.frame.msg.id)'
<1> DEFINE i == c.frame.msg.id
<1>0. Traced(i) /\ Paths(i) /\ Apart(i) /\ Once(i) /\ Ahead(i)
  BY DEF Traced
<1>1. /\ i \in Id /\ call[i] # Idle /\ n \in Node /\ c.via \in Seq(Node)
      /\ UNCHANGED <<stack, call, handled>>
      /\ c \in FramesOf(i) /\ FramesOf(i)' = FramesOf(i) \ {c}
  BY ReceiveExact
<1>2. PICK k : /\ k.at = n /\ k.msg = c.frame.msg /\ k.via = Append(c.via, n)
               /\ RunsOf(i) \subseteq RunsOf(i)' /\ RunsOf(i)' \subseteq RunsOf(i) \cup {k}
               /\ OneStack => k \in RunsOf(i)'
  BY ReceiveExact
<1>3. SameCall(i)
  BY <1>1 DEF SameCall
<1>4. FramePath(i, c)
  BY <1>0, <1>1 DEF Paths
<1>5. /\ Len(k.via) = Len(c.via) + 1 /\ Len(c.via) \in Nat /\ k.via # <<>>
      /\ k.via[1] = IF c.via = <<>> THEN n ELSE c.via[1]
      /\ c.via = <<>> <=> Len(c.via) = 0
  BY <1>1, <1>2, Onward
<1> HIDE DEF i
<1>6. Begun(i, k) = Start(i, c.via, c.to)
  <2>1. CASE call[i].type = "Broadcast" /\ c.via = <<>>
    <3>1. c.to = {n}
      BY <1>4, <2>1 DEF FramePath
    <3>2. QED
      BY <1>5, <2>1, <3>1 DEF Begun, Start
  <2>2. CASE ~(call[i].type = "Broadcast" /\ c.via = <<>>)
    BY <1>5, <2>2 DEF Begun, Start
  <2>3. QED
    BY <2>1, <2>2
<1>7. Paths(i)'
  <2>1. RunPath(i, k)
    <3>1. k.via[1] \in There(i)
      BY <1>4, <1>5 DEF FramePath
    <3>2. Len(k.via) = 1 => Original(i, k.msg) /\ k.at = k.via[1]
      BY <1>2, <1>4, <1>5 DEF FramePath
    <3>3. Len(k.via) # 1 /\ ~IsAnswer(k.msg) =>
            /\ PassedOn(k.msg) /\ k.at \in Queue(Beyond)
            /\ Len(k.via) = 2 /\ Relayed(i, k.via[1])
      BY <1>2, <1>4, <1>5 DEF FramePath
    <3>4. QED
      BY <1>5, <3>1, <3>2, <3>3 DEF RunPath
  <2>2. \A x : Relayed(i, x)' <=> Relayed(i, x)
    BY <1>1 DEF Relayed
  <2>3. \A x : RunPath(i, x)' <=> RunPath(i, x)
    BY <1>3, <2>2, Same DEF RunPath
  <2>4. \A x : FramePath(i, x)' <=> FramePath(i, x)
    BY <1>1, <1>3, <2>2, Same DEF FramePath
  <2>5. \A x : HandledPath(i, x)' <=> HandledPath(i, x)
    BY <1>3, <2>2, Same DEF HandledPath
  <2>6. QED
    BY <1>0, <1>1, <1>2, <2>1, <2>3, <2>4, <2>5 DEF Paths
<1>8. /\ \A via, to : Start(i, via, to)' = Start(i, via, to)
      /\ \A x : Begun(i, x)' = Begun(i, x)
      /\ There(i)' = There(i)
  BY <1>3, Same
<1>9. Apart(i)'
  <2>1. \A d, e \in FramesOf(i)' :
          Start(i, d.via, d.to) \cap Start(i, e.via, e.to) # {} => d = e
    BY <1>0, <1>1 DEF Apart
  <2>2. \A l \in RunsOf(i) : Begun(i, l) \cap Begun(i, k) = {}
    BY <1>0, <1>1, <1>6 DEF Apart
  <2>3. \A l, x \in RunsOf(i)' : Begun(i, l) \cap Begun(i, x) # {} => l = x
    BY <1>0, <1>2, <2>2 DEF Apart
  <2>4. \A d \in FramesOf(i) : d # c => Start(i, d.via, d.to) \cap Begun(i, k) = {}
    BY <1>0, <1>1, <1>6 DEF Apart
  <2>5. \A d \in FramesOf(i)', l \in RunsOf(i)' : Start(i, d.via, d.to) \cap Begun(i, l) = {}
    BY <1>0, <1>1, <1>2, <2>4 DEF Apart
  <2>6. QED
    BY <1>8, <2>1, <2>3, <2>5 DEF Apart
<1>10. Once(i)'
  BY <1>0, <1>1, <1>8 DEF Once
<1>11. Ahead(i)'
  <2>1. ASSUME NEW p \in DOMAIN handled[i]
        PROVE  /\ \A d \in FramesOf(i)' :
                    ~IsAnswer(d.frame.msg) /\ Start(i, d.via, d.to) \cap Begun(i, handled[i][p]) # {} =>
                        Len(handled[i][p].via) <= Len(d.via)
               /\ \A l \in RunsOf(i)' :
                    ~IsAnswer(l.msg) /\ Begun(i, l) \cap Begun(i, handled[i][p]) # {} =>
                        Len(handled[i][p].via) < Len(l.via)
    <3> DEFINE h == handled[i][p]
    <3>1. /\ \A d \in FramesOf(i) :
                ~IsAnswer(d.frame.msg) /\ Start(i, d.via, d.to) \cap Begun(i, h) # {} =>
                    Len(h.via) <= Len(d.via)
          /\ \A l \in RunsOf(i) :
                ~IsAnswer(l.msg) /\ Begun(i, l) \cap Begun(i, h) # {} => Len(h.via) < Len(l.via)
      BY <1>0 DEF Ahead
    <3>2. Len(h.via) \in {1, 2}
      BY <1>0 DEF Paths, HandledPath
    <3> HIDE DEF h
    <3>3. ~IsAnswer(k.msg) /\ Begun(i, k) \cap Begun(i, h) # {} => Len(h.via) < Len(k.via)
      BY <1>1, <1>2, <1>5, <1>6, <3>1, <3>2
    <3>4. QED
      BY <1>1, <1>2, <3>1, <3>3 DEF h
  <2>2. handled'[i] = handled[i]
    BY <1>1
  <2>3. /\ \A via, to : Start(i, via, to)' = Start(i, via, to)
        /\ \A x : Begun(i, x)' = Begun(i, x)
    BY <1>8
  <2>4. QED
    BY <2>1, <2>2, <2>3 DEF Ahead
<1>12. ASSUME OneStack, NoneLost(i)
       PROVE  NoneLost(i)'
  <2>1. ASSUME NEW x, NEW l \in Nat, Arrives(i, x, l)
        PROVE  Arrives(i, x, l)'
    <3>1. k \in RunsOf(i)'
      BY <1>2, <1>12
    <3>2. CASE \E d \in FramesOf(i) :
                 Len(d.via) = l /\ ~IsAnswer(d.frame.msg) /\ x \in Start(i, d.via, d.to)
      <4>1. PICK d \in FramesOf(i) :
                 Len(d.via) = l /\ ~IsAnswer(d.frame.msg) /\ x \in Start(i, d.via, d.to)
        BY <3>2
      <4>2. CASE d = c
        <5>1. Len(k.via) = l + 1 /\ ~IsAnswer(k.msg) /\ x \in Begun(i, k)
          BY <1>2, <1>5, <1>6, <4>1, <4>2
        <5>2. QED
          BY <1>8, <3>1, <5>1 DEF Arrives
      <4>3. CASE d # c
        BY <1>1, <1>8, <4>1, <4>3 DEF Arrives
      <4>4. QED
        BY <4>2, <4>3
    <3>3. CASE \E d \in RunsOf(i) :
                 Len(d.via) = l + 1 /\ ~IsAnswer(d.msg) /\ x \in Begun(i, d)
      BY <1>2, <1>8, <3>3 DEF Arrives
    <3>4. CASE \E p \in DOMAIN handled[i] :
                 Len(handled[i][p].via) = l + 1 /\ x \in Begun(i, handled[i][p])
      BY <1>1, <1>8, <3>4 DEF Arrives
    <3>5. QED
      BY <2>1, <3>2, <3>3, <3>4 DEF Arrives
  <2>2. QED
    BY <1>1, <1>8, <1>12, <2>1 DEF NoneLost
<1>13. ASSUME Returns(i)
       PROVE  Returns(i)'
  <2>1. /\ Homeward(i, c.frame.msg) /\ call[i].got = {}
        /\ c.via # <<>> => c.to \subseteq Queue(c.frame.msg.to)
        /\ c.frame.msg.ret # <<>> => c.via[1] \in Relay
    BY <1>1, <1>13 DEF Returns
  <2>2. IsAnswer(k.msg) => k.at \in Queue(k.msg.to)
    BY <1>2, <1>4, <2>1 DEF FramePath, Original
  <2>3. k.msg.ret # <<>> => k.via[1] \in Relay
    BY <1>2, <1>4, <1>5, <2>1 DEF FramePath, Original
  <2>4. \A m : Homeward(i, m)' <=> Homeward(i, m)
    BY <1>3, Same
  <2>5. OneStack => RunsOf(i)' # {}
    BY <1>2
  <2>6. OneStack' <=> OneStack
    BY <1>1 DEF OneStack
  <2>7. \A d \in FramesOf(i)' :
        /\ Homeward(i, d.frame.msg)' /\ call'[i].got = {}
        /\ d.via # <<>> => d.to \subseteq Queue(d.frame.msg.to)
        /\ d.frame.msg.ret # <<>> => d.via[1] \in Relay
    BY <1>1, <1>13, <2>4 DEF Returns
  <2>8. \A d \in RunsOf(i)' :
        /\ Homeward(i, d.msg)' /\ call'[i].got = {}
        /\ IsAnswer(d.msg) => d.at \in Queue(d.msg.to)
        /\ d.msg.ret # <<>> => d.via[1] \in Relay
    BY <1>1, <1>2, <1>13, <2>1, <2>2, <2>3, <2>4 DEF Returns
  <2>9. call'[i].got \subseteq {call'[i].node}
    BY <1>1, <1>13 DEF Returns
  <2>10. QED
    BY <2>5, <2>6, <2>7, <2>8, <2>9 DEF Returns
<1>14. (OneStack' <=> OneStack) /\ (OwnRequest(i)' <=> OwnRequest(i))
  BY <1>1, <1>3, Same DEF OneStack
<1>15. Traced(i)'
  BY <1>0, <1>7, <1>9, <1>10, <1>11, <1>12, <1>13, <1>14 DEF Traced
<1>16. QED
  BY <1>15 DEF i

\* A goroutine sends one frame, which came through what the goroutine came through.
Sends(k, m) ==
    LET i == m.id
        to == Queue(m.to) \ {k.at}
    IN
    /\ \A j : j # i => FramesOf(j)' = FramesOf(j)
    /\ \/ /\ FramesOf(i)' = FramesOf(i)
          /\ \/ IsAnswer(m) /\ k.msg.type = "Broadcast"
             \/ to = {}
       \/ \E d : /\ FramesOf(i)' = FramesOf(i) \cup {d}
                 /\ d.frame.msg = m /\ d.via = k.via /\ d.to = to /\ to # {}

LEMMA SendExact ==
    ASSUME NEW k, k.at \in Node, NEW m, m.type # "Broadcast", Send(k, m)
    PROVE  Sends(k, m)
<1>1. CASE IsAnswer(m) /\ k.msg.type = "Broadcast"
  BY <1>1 DEF Send, Sends, FramesOf
<1>2. CASE ~(IsAnswer(m) /\ k.msg.type = "Broadcast")
  <2>1. Publish(k.at, k.user, m, k.via)
    BY <1>2 DEF Send
  <2>2. OneFrame(k.at, m, k.via)
    BY <2>1, PublishOne
  <2> DEFINE to == Queue(m.to) \ {k.at}
  <2>3. CASE net' = net /\ to = {}
    BY <2>3 DEF Sends, FramesOf
  <2>4. CASE \E d : net' = net \cup {d} /\ d.frame.msg = m /\ d.via = k.via /\ d.to = to /\ to # {}
    <3> HIDE DEF to
    <3>1. PICK d : net' = net \cup {d} /\ d.frame.msg = m /\ d.via = k.via /\ d.to = to /\ to # {}
      BY <2>4
    <3>2. FramesOf(m.id)' = FramesOf(m.id) \cup {d} /\ \A j : j # m.id => FramesOf(j)' = FramesOf(j)
      BY <3>1 DEF FramesOf
    <3>3. QED
      BY <3>1, <3>2 DEF Sends, to
  <2>5. QED
    BY <2>2, <2>3, <2>4 DEF OneFrame
<1>3. QED
  BY <1>1, <1>2

\* What both kinds of goroutine do.
Ends(k) ==
    LET i == k.msg.id IN
    /\ i \in Id /\ call[i] # Idle /\ k.at \in Node /\ k.via \in Seq(Node) /\ k.msg \in Message
    /\ k \in RunsOf(i) /\ RunsOf(i)' = RunsOf(i) \ {k}
    /\ \A j : j # i => RunsOf(j)' = RunsOf(j)
    /\ stack' = stack

LEMMA EndsExact ==
    ASSUME Kept, NEW k \in child, child' = child \ {k}, stack' = stack
    PROVE  Ends(k)
<1>1. TypeOK /\ Unasked
  BY DEF Kept
<1>2. k.at \in Node /\ k.via \in Seq(Node) /\ k.msg \in Message /\ k.msg.id \in Id
  BY <1>1 DEF TypeOK, Message
<1>3. call[k.msg.id] # Idle
  BY <1>1, <1>2 DEF Unasked
<1>4. QED
  BY <1>2, <1>3 DEF Ends, RunsOf

LEMMA HandleExact ==
    ASSUME Kept, NEW k \in child, Handle(k)
    PROVE  LET i == k.msg.id
               h == [at |-> k.at, user |-> k.user, via |-> k.via]
           IN
           /\ Ends(k) /\ ~IsAnswer(k.msg) /\ call' = call
           /\ handled' = [handled EXCEPT ![i] = Append(@, h)]
           /\ \E m : /\ Sends(k, m) /\ m.id = i
                     /\ k.at \in Relay => m = Forward(k.msg, Beyond)
                     /\ k.at \notin Relay =>
                            IsAnswer(m) /\ m.to = k.msg.from /\ m.from = k.msg.to /\ m.ret = k.msg.ret
<1> DEFINE h == [at |-> k.at, user |-> k.user, via |-> k.via]
<1>1. /\ child' = child \ {k} /\ stack' = stack /\ call' = call /\ ~IsAnswer(k.msg)
      /\ handled' = [handled EXCEPT ![k.msg.id] = Append(@, h)]
      /\ \/ k.at \in Relay /\ Send(k, Forward(k.msg, Beyond))
         \/ k.at \notin Relay /\ Send(k, Answer(k.msg))
         \/ k.at \notin Relay /\ Send(k, Answer(WithError(k.msg)))
  BY DEF Handle
<1>2. Ends(k)
  BY <1>1, EndsExact
<1>3. k.at \in Node /\ k.msg \in Message
  BY <1>2 DEF Ends
<1> HIDE DEF h
<1>4. ASSUME k.at \in Relay, Send(k, Forward(k.msg, Beyond))
      PROVE  Sends(k, Forward(k.msg, Beyond)) /\ Forward(k.msg, Beyond).id = k.msg.id
  <2>1. Forward(k.msg, Beyond).type # "Broadcast" /\ Forward(k.msg, Beyond).id = k.msg.id
    BY <1>3 DEF Forward, Message
  <2>2. QED
    BY <1>3, <1>4, <2>1, SendExact
<1>5. \A x \in {k.msg, WithError(k.msg)} :
        LET m == Answer(x) IN
        /\ m.id = k.msg.id /\ IsAnswer(m)
        /\ m.to = k.msg.from /\ m.from = k.msg.to /\ m.ret = k.msg.ret
  BY <1>3 DEF Answer, WithError, Message, IsAnswer
<1>6. \A x : IsAnswer(x) => x.type # "Broadcast"
  BY DEF IsAnswer
<1>7. ASSUME NEW x \in {k.msg, WithError(k.msg)}, Send(k, Answer(x))
      PROVE  Sends(k, Answer(x))
  BY <1>3, <1>5, <1>6, <1>7, SendExact
<1>8. \E m : /\ Sends(k, m) /\ m.id = k.msg.id
             /\ k.at \in Relay => m = Forward(k.msg, Beyond)
             /\ k.at \notin Relay =>
                    IsAnswer(m) /\ m.to = k.msg.from /\ m.from = k.msg.to /\ m.ret = k.msg.ret
  <2>1. CASE k.at \in Relay /\ Send(k, Forward(k.msg, Beyond))
    BY <1>4, <2>1
  <2>2. CASE k.at \notin Relay /\ Send(k, Answer(k.msg))
    BY <1>5, <1>7, <2>2
  <2>3. CASE k.at \notin Relay /\ Send(k, Answer(WithError(k.msg)))
    BY <1>5, <1>7, <2>3
  <2>4. QED
    BY <1>1, <2>1, <2>2, <2>3
<1>9. QED
  BY <1>1, <1>2, <1>8 DEF h

LEMMA SettleExact ==
    ASSUME Kept, NEW k \in child, Settle(k)
    PROVE  LET i == k.msg.id
               mine == call[i].type = "Request" /\ call[i].node = k.at /\ call[i].got = {}
           IN
           /\ Ends(k) /\ IsAnswer(k.msg) /\ handled' = handled
           /\ \/ /\ ~mine /\ k.msg.ret # <<>> /\ call' = call
                 /\ \E m : /\ Sends(k, m) /\ m.id = i /\ IsAnswer(m)
                           /\ m.to = Last(k.msg.ret) /\ m.ret = Front(k.msg.ret)
              \/ /\ mine \/ k.msg.ret = <<>>
                 /\ call' = [call EXCEPT ![i].got = @ \cup {k.at}]
                 /\ \A j : FramesOf(j)' = FramesOf(j)
<1> DEFINE i == k.msg.id
           mine == call[i].type = "Request" /\ call[i].node = k.at /\ call[i].got = {}
<1>1. /\ child' = child \ {k} /\ stack' = stack /\ handled' = handled /\ IsAnswer(k.msg)
      /\ \/ ~mine /\ k.msg.ret # <<>> /\ Send(k, Backward(k.msg)) /\ call' = call
         \/ /\ mine \/ k.msg.ret = <<>>
            /\ call' = [call EXCEPT ![i].got = @ \cup {k.at}] /\ net' = net
  BY DEF Settle
<1>2. Ends(k)
  BY <1>1, EndsExact
<1>3. k.at \in Node /\ k.msg \in Message
  BY <1>2 DEF Ends
<1> HIDE DEF mine
<1>4. CASE ~mine /\ k.msg.ret # <<>> /\ Send(k, Backward(k.msg)) /\ call' = call
  <2>1. LET m == Backward(k.msg) IN
        /\ m.id = i /\ m.type = k.msg.type
        /\ m.to = Last(k.msg.ret) /\ m.ret = Front(k.msg.ret)
    BY <1>3 DEF Backward, Message
  <2>2. IsAnswer(Backward(k.msg)) /\ Backward(k.msg).type # "Broadcast"
    BY <1>1, <2>1 DEF IsAnswer
  <2>3. Sends(k, Backward(k.msg))
    BY <1>3, <1>4, <2>2, SendExact
  <2>4. QED
    BY <1>1, <1>2, <1>4, <2>1, <2>2, <2>3 DEF mine
<1>5. CASE /\ mine \/ k.msg.ret = <<>>
           /\ call' = [call EXCEPT ![i].got = @ \cup {k.at}] /\ net' = net
  <2>1. \A j : FramesOf(j)' = FramesOf(j)
    BY <1>5 DEF FramesOf
  <2>2. QED
    BY <1>1, <1>2, <1>5, <2>1 DEF mine
<1>6. QED
  BY <1>1, <1>4, <1>5 DEF mine

\* What is sent takes the place of the goroutine.
Replaces(i, k, m) ==
    LET to == Queue(m.to) \ {k.at} IN
    /\ FramesOf(i) \subseteq FramesOf(i)'
    /\ \A d, e \in FramesOf(i)' \ FramesOf(i) : d = e
    /\ \A d \in FramesOf(i)' \ FramesOf(i) :
         d.frame.msg = m /\ d.via = k.via /\ d.to = to /\ d.to # {}
    /\ ~(IsAnswer(m) /\ k.msg.type = "Broadcast") /\ to # {} =>
         \E d \in FramesOf(i)' : d.frame.msg = m /\ d.via = k.via

LEMMA SendsIs ==
    ASSUME NEW k, NEW m, Sends(k, m)
    PROVE  Replaces(m.id, k, m)
<1> DEFINE to == Queue(m.to) \ {k.at}
<1>1. CASE /\ FramesOf(m.id)' = FramesOf(m.id)
           /\ \/ IsAnswer(m) /\ k.msg.type = "Broadcast"
              \/ to = {}
  BY <1>1 DEF Replaces
<1>2. CASE \E d : /\ FramesOf(m.id)' = FramesOf(m.id) \cup {d}
                  /\ d.frame.msg = m /\ d.via = k.via /\ d.to = to /\ to # {}
  <2> HIDE DEF to
  <2>1. PICK d : /\ FramesOf(m.id)' = FramesOf(m.id) \cup {d}
                 /\ d.frame.msg = m /\ d.via = k.via /\ d.to = to /\ to # {}
    BY <1>2
  <2>2. QED
    BY <2>1 DEF to, Replaces
<1>3. QED
  BY <1>1, <1>2 DEF Sends

LEMMA RunApart ==
    ASSUME NEW i, SameCall(i), Apart(i), NEW k \in RunsOf(i), RunsOf(i)' = RunsOf(i) \ {k},
           k.via # <<>>, FramesOf(i) \subseteq FramesOf(i)',
           \A d, e \in FramesOf(i)' \ FramesOf(i) : d = e,
           \A d \in FramesOf(i)' \ FramesOf(i) : d.via = k.via
    PROVE  Apart(i)'
<1>1. \A via, to : Start(i, via, to)' = Start(i, via, to)
  BY Same
<1>2. \A x : Begun(i, x)' = Begun(i, x)
  BY Same
<1>3. \A d \in FramesOf(i)' \ FramesOf(i) : Start(i, d.via, d.to) = Begun(i, k)
  BY DEF Begun, Start
<1>4. \A d, e \in FramesOf(i)' : Start(i, d.via, d.to) \cap Start(i, e.via, e.to) # {} => d = e
  <2>1. ASSUME NEW d \in FramesOf(i)', NEW e \in FramesOf(i)',
               Start(i, d.via, d.to) \cap Start(i, e.via, e.to) # {}
        PROVE  d = e
    <3>1. CASE d \in FramesOf(i) /\ e \in FramesOf(i)
      BY <2>1, <3>1 DEF Apart
    <3>2. CASE d \in FramesOf(i) /\ e \notin FramesOf(i)
      <4>1. Start(i, d.via, d.to) \cap Begun(i, k) = {}
        BY <3>2 DEF Apart
      <4>2. QED
        BY <1>3, <2>1, <3>2, <4>1
    <3>3. CASE d \notin FramesOf(i) /\ e \in FramesOf(i)
      <4>1. Start(i, e.via, e.to) \cap Begun(i, k) = {}
        BY <3>3 DEF Apart
      <4>2. QED
        BY <1>3, <2>1, <3>3, <4>1
    <3>4. CASE d \notin FramesOf(i) /\ e \notin FramesOf(i)
      BY <3>4
    <3>5. QED
      BY <3>1, <3>2, <3>3, <3>4
  <2>2. QED
    BY <2>1
<1>5. \A l, x \in RunsOf(i)' : Begun(i, l) \cap Begun(i, x) # {} => l = x
  BY DEF Apart
<1>6. \A d \in FramesOf(i)', l \in RunsOf(i)' : Start(i, d.via, d.to) \cap Begun(i, l) = {}
  <2>1. ASSUME NEW d \in FramesOf(i)', NEW l \in RunsOf(i)'
        PROVE  Start(i, d.via, d.to) \cap Begun(i, l) = {}
    <3>1. CASE d \in FramesOf(i)
      BY <3>1 DEF Apart
    <3>2. CASE d \notin FramesOf(i)
      <4>1. Begun(i, k) \cap Begun(i, l) = {}
        BY DEF Apart
      <4>2. QED
        BY <1>3, <3>2, <4>1
    <3>3. QED
      BY <3>1, <3>2
  <2>2. QED
    BY <2>1
<1>7. QED
  BY <1>1, <1>2, <1>4, <1>5, <1>6 DEF Apart

Added(i, h) ==
    \E q : /\ q \notin DOMAIN handled[i] /\ handled'[i][q] = h
          /\ DOMAIN handled'[i] = DOMAIN handled[i] \cup {q}

LEMMA Appended ==
    ASSUME Recorded, NEW i \in Id, NEW h, handled' = [handled EXCEPT ![i] = Append(@, h)]
    PROVE  /\ Added(i, h)
           /\ \A p \in DOMAIN handled[i] : handled'[i][p] = handled[i][p]
           /\ \A j \in Id : j # i => handled'[j] = handled[j]
<1>1. handled'[i] = Append(handled[i], h) /\ \A j \in Id : j # i => handled'[j] = handled[j]
  BY DEF Recorded
<1>2. DOMAIN handled[i] = 1 .. Len(handled[i]) /\ Len(handled[i]) \in Nat
  BY ServingIs
<1> DEFINE q == Len(handled[i]) + 1
<1>3. /\ DOMAIN handled'[i] = 1 .. q /\ handled'[i][q] = h
      /\ \A p \in 1 .. Len(handled[i]) : handled'[i][p] = handled[i][p]
  <2>1. PICK S : handled[i] \in Seq(S)
    BY DEF Recorded
  <2> DEFINE s == handled[i]
  <2>2. s \in Seq(S \cup {h})
    BY <2>1
  <2> HIDE DEF s
  <2>3. /\ DOMAIN Append(s, h) = 1 .. Len(s) + 1 /\ Append(s, h)[Len(s) + 1] = h
        /\ \A p \in 1 .. Len(s) : Append(s, h)[p] = s[p]
    BY <2>2
  <2>4. QED
    BY <1>1, <2>3 DEF s
<1>4. q \notin 1 .. Len(handled[i]) /\ 1 .. q = 1 .. Len(handled[i]) \cup {q}
  BY <1>2
<1>5. QED
  BY <1>1, <1>2, <1>3, <1>4 DEF Added

LEMMA OnlyOne ==
    ASSUME NEW S, NEW s \in Seq(S), Len(s) = 1
    PROVE  s = <<s[1]>>
  OBVIOUS

LEMMA HandleTraced ==
    ASSUME Kept, NEW k \in child, Handle(k), Traced(k.msg.id)
    PROVE  Traced(k.msg.id)'
<1> DEFINE i == k.msg.id
           h == [at |-> k.at, user |-> k.user, via |-> k.via]
<1>0. Traced(i) /\ Paths(i) /\ Apart(i) /\ Once(i) /\ Ahead(i)
  BY DEF Traced
<1>1. /\ i \in Id /\ k.at \in Node /\ k.via \in Seq(Node) /\ k.msg \in Message
      /\ k \in RunsOf(i) /\ RunsOf(i)' = RunsOf(i) \ {k}
      /\ stack' = stack /\ call' = call /\ ~IsAnswer(k.msg)
      /\ handled' = [handled EXCEPT ![i] = Append(@, h)]
  BY HandleExact DEF Ends
<1>2. PICK m : /\ Sends(k, m) /\ m.id = i
               /\ k.at \in Relay => m = Forward(k.msg, Beyond)
               /\ k.at \notin Relay =>
                      IsAnswer(m) /\ m.to = k.msg.from /\ m.from = k.msg.to /\ m.ret = k.msg.ret
  BY HandleExact
<1>3. h.at = k.at /\ h.via = k.via
  OBVIOUS
<1> HIDE DEF h, i
<1>4. PICK q : /\ q \notin DOMAIN handled[i] /\ handled'[i][q] = h
               /\ DOMAIN handled'[i] = DOMAIN handled[i] \cup {q}
  <2>1. Added(i, h)
    BY <1>1, Appended DEF Kept
  <2>2. QED
    BY <2>1 DEF Added
<1>5. \A p \in DOMAIN handled[i] : handled'[i][p] = handled[i][p]
  BY <1>1, Appended DEF Kept
<1>6. SameCall(i)
  BY <1>1 DEF SameCall
<1>7. RunPath(i, k)
  BY <1>0, <1>1 DEF Paths
<1>8. /\ k.via # <<>> /\ k.via[1] \in There(i) /\ Len(k.via) \in {1, 2}
      /\ Len(k.via) = 1 => Original(i, k.msg) /\ k.at = k.via[1] /\ k.via = <<k.at>>
      /\ Len(k.via) = 2 =>
            PassedOn(k.msg) /\ k.at \in Queue(Beyond) /\ Relayed(i, k.via[1])
      /\ k.at \in Relay => Len(k.via) = 1
  <2>1. Len(k.via) = 1 => k.via = <<k.via[1]>>
    BY <1>1, OnlyOne
  <2>2. /\ k.via # <<>> /\ k.via[1] \in There(i)
        /\ Len(k.via) = 1 => Original(i, k.msg) /\ k.at = k.via[1]
        /\ Len(k.via) # 1 =>
              /\ PassedOn(k.msg) /\ k.at \in Queue(Beyond)
              /\ Len(k.via) = 2 /\ Relayed(i, k.via[1])
    BY <1>1, <1>7 DEF RunPath
  <2>3. k.at \in Relay => k.at \notin Queue(Beyond)
    BY Beside
  <2>4. Len(k.via) \in {1, 2} /\ (k.at \in Relay => Len(k.via) = 1)
    BY <2>2, <2>3
  <2>5. Len(k.via) = 1 => Original(i, k.msg) /\ k.at = k.via[1] /\ k.via = <<k.at>>
    BY <2>1, <2>2
  <2>6. Len(k.via) = 2 => Len(k.via) # 1
    OBVIOUS
  <2>7. Len(k.via) = 2 =>
            PassedOn(k.msg) /\ k.at \in Queue(Beyond) /\ Relayed(i, k.via[1])
    BY <2>2, <2>6
  <2>8. QED
    BY <2>2, <2>4, <2>5, <2>7
<1>9. /\ FramesOf(i) \subseteq FramesOf(i)'
      /\ \A d, e \in FramesOf(i)' \ FramesOf(i) : d = e
      /\ \A d \in FramesOf(i)' \ FramesOf(i) :
            d.frame.msg = m /\ d.via = k.via /\ d.to = Queue(m.to) \ {k.at} /\ d.to # {}
      /\ ~(IsAnswer(m) /\ k.msg.type = "Broadcast") /\ Queue(m.to) \ {k.at} # {} =>
            \E d \in FramesOf(i)' : d.frame.msg = m /\ d.via = k.via
  <2>1. Replaces(i, k, m)
    BY <1>2, SendsIs
  <2>2. QED
    BY <2>1 DEF Replaces
<1>10. /\ \A via, to : Start(i, via, to)' = Start(i, via, to)
       /\ \A x : Begun(i, x)' = Begun(i, x)
       /\ There(i)' = There(i) /\ \A x : Original(i, x)' <=> Original(i, x)
  BY <1>6, Same
<1>11. /\ Begun(i, h) = Begun(i, k)
       /\ \A d \in FramesOf(i)' \ FramesOf(i) : Start(i, d.via, d.to) = Begun(i, k)
       /\ \A d : d.via = k.via => Start(i, d.via, d.to) = Begun(i, k)
  BY <1>3, <1>8, <1>9 DEF Begun, Start
\* Behind a relay.
<1>12. ASSUME k.at \in Relay
       PROVE  /\ m.type = "Query" /\ m.to = Beyond /\ m.from = k.msg.to
              /\ m.ret = Append(k.msg.ret, k.msg.from) /\ ~IsAnswer(m)
              /\ Queue(m.to) \ {k.at} = Queue(Beyond) /\ Queue(Beyond) # {}
  <2>1. /\ m.type = "Query" /\ m.to = Beyond /\ m.from = k.msg.to
        /\ m.ret = Append(k.msg.ret, k.msg.from)
    BY <1>1, <1>2, <1>12 DEF Forward, Message
  <2>2. QED
    BY <1>12, <2>1, Beside, Someone, AddressAssumption DEF IsAnswer
<1>13. Paths(i)'
  <2>1. \A x : Relayed(i, x) => Relayed(i, x)'
    BY <1>4, <1>5 DEF Relayed
  <2>2. k.at \in Relay => Relayed(i, k.at)'
    <3>1. k.at \in Relay => h.via = <<k.at>> /\ handled'[i][q].via = h.via /\ q \in DOMAIN handled'[i]
      BY <1>3, <1>4, <1>8
    <3>2. QED
      BY <3>1 DEF Relayed
  <2>3. \A d \in FramesOf(i) : FramePath(i, d)'
    BY <1>0, <1>1, <1>10, <2>1 DEF Paths, FramePath
  <2>4. \A d \in FramesOf(i)' \ FramesOf(i) : FramePath(i, d)'
    <3>1. ASSUME NEW d \in FramesOf(i)' \ FramesOf(i), ~IsAnswer(m)
          PROVE  /\ PassedOn(m) /\ d.to \subseteq Queue(Beyond)
                 /\ Len(d.via) = 1 /\ Relayed(i, d.via[1])'
      BY <1>2, <1>8, <1>9, <1>12, <2>2, <3>1 DEF PassedOn
    <3>2. QED
      BY <1>8, <1>9, <1>10, <3>1 DEF FramePath
  <2>5. \A x \in RunsOf(i)' : RunPath(i, x)'
    <3>1. \A x \in RunsOf(i) : RunPath(i, x)
      BY <1>0 DEF Paths
    <3>2. \A x : RunPath(i, x) => RunPath(i, x)'
      BY <1>10, <2>1 DEF RunPath
    <3>3. QED
      BY <1>1, <3>1, <3>2
  <2>6. \A x : HandledPath(i, x) => HandledPath(i, x)'
    BY <1>10, <2>1 DEF HandledPath
  <2>7. HandledPath(i, h)'
    BY <1>3, <1>8, <1>10, <2>1 DEF HandledPath
  <2>8. QED
    BY <1>0, <1>4, <1>5, <2>3, <2>4, <2>5, <2>6, <2>7 DEF Paths
<1>14. Apart(i)'
  BY <1>0, <1>1, <1>6, <1>8, <1>9, RunApart
<1>15. \A p \in DOMAIN handled[i] :
            /\ Len(handled[i][p].via) \in {1, 2}
            /\ Begun(i, k) \cap Begun(i, handled[i][p]) # {} => Len(handled[i][p].via) < Len(k.via)
  BY <1>0, <1>1 DEF Paths, HandledPath, Ahead
<1>16. Once(i)'
  <2>1. ASSUME NEW x \in DOMAIN handled'[i], NEW y \in DOMAIN handled'[i],
               Len(handled'[i][x].via) = Len(handled'[i][y].via),
               Begun(i, handled'[i][x]) \cap Begun(i, handled'[i][y]) # {}
        PROVE  x = y
    <3>1. CASE x \in DOMAIN handled[i] /\ y \in DOMAIN handled[i]
      BY <1>0, <1>5, <2>1, <3>1 DEF Once
    <3>2. CASE x = q /\ y = q
      BY <3>2
    <3>3. CASE x = q /\ y \in DOMAIN handled[i]
      <4>1. Begun(i, k) \cap Begun(i, handled[i][y]) # {} /\ Len(k.via) = Len(handled[i][y].via)
        BY <1>3, <1>4, <1>5, <1>11, <2>1, <3>3
      <4>2. QED
        BY <1>8, <1>15, <3>3, <4>1
    <3>4. CASE y = q /\ x \in DOMAIN handled[i]
      <4>1. Begun(i, k) \cap Begun(i, handled[i][x]) # {} /\ Len(k.via) = Len(handled[i][x].via)
        BY <1>3, <1>4, <1>5, <1>11, <2>1, <3>4
      <4>2. QED
        BY <1>8, <1>15, <3>4, <4>1
    <3>5. QED
      BY <1>4, <2>1, <3>1, <3>2, <3>3, <3>4
  <2>2. QED
    BY <1>10, <2>1 DEF Once
<1>17. Ahead(i)'
  <2>1. ASSUME NEW p \in DOMAIN handled'[i], NEW d \in FramesOf(i)',
               ~IsAnswer(d.frame.msg), Start(i, d.via, d.to) \cap Begun(i, handled'[i][p]) # {}
        PROVE  Len(handled'[i][p].via) <= Len(d.via)
    <3>1. CASE p \in DOMAIN handled[i] /\ d \in FramesOf(i)
      BY <1>0, <1>5, <2>1, <3>1 DEF Ahead
    <3>2. CASE p = q /\ d \in FramesOf(i)
      <4>1. Start(i, d.via, d.to) \cap Begun(i, k) = {}
        BY <1>0, <1>1, <3>2 DEF Apart
      <4>2. QED
        BY <1>4, <1>11, <2>1, <3>2, <4>1
    <3>3. CASE p \in DOMAIN handled[i] /\ d \notin FramesOf(i)
      BY <1>5, <1>8, <1>9, <1>11, <1>15, <2>1, <3>3
    <3>4. CASE p = q /\ d \notin FramesOf(i)
      BY <1>3, <1>4, <1>8, <1>9, <2>1, <3>4
    <3>5. QED
      BY <1>4, <2>1, <3>1, <3>2, <3>3, <3>4
  <2>2. ASSUME NEW p \in DOMAIN handled'[i], NEW x \in RunsOf(i)',
               ~IsAnswer(x.msg), Begun(i, x) \cap Begun(i, handled'[i][p]) # {}
        PROVE  Len(handled'[i][p].via) < Len(x.via)
    <3>1. CASE p \in DOMAIN handled[i]
      BY <1>0, <1>1, <1>5, <2>2, <3>1 DEF Ahead
    <3>2. CASE p = q
      <4>1. Begun(i, x) \cap Begun(i, k) = {}
        BY <1>0, <1>1 DEF Apart
      <4>2. QED
        BY <1>4, <1>11, <2>2, <3>2, <4>1
    <3>3. QED
      BY <1>4, <2>2, <3>1, <3>2
  <2>3. \A p \in DOMAIN handled'[i], d \in FramesOf(i)' :
            ~IsAnswer(d.frame.msg) /\ Start(i, d.via, d.to)' \cap Begun(i, handled[i][p])' # {} =>
                Len(handled'[i][p].via) <= Len(d.via)
    BY <1>10, <2>1
  <2>4. \A p \in DOMAIN handled'[i], x \in RunsOf(i)' :
            ~IsAnswer(x.msg) /\ Begun(i, x)' \cap Begun(i, handled[i][p])' # {} =>
                Len(handled'[i][p].via) < Len(x.via)
    BY <1>10, <2>2
  <2>5. QED
    BY <2>3, <2>4 DEF Ahead
<1>18. ASSUME NoneLost(i)
       PROVE  NoneLost(i)'
  <2>1. ASSUME NEW x, NEW l \in Nat, Arrives(i, x, l)
        PROVE  Arrives(i, x, l)'
    <3>1. CASE \E d \in FramesOf(i) :
                 Len(d.via) = l /\ ~IsAnswer(d.frame.msg) /\ x \in Start(i, d.via, d.to)
      BY <1>9, <1>10, <3>1 DEF Arrives
    <3>2. CASE \E d \in RunsOf(i) :
                 Len(d.via) = l + 1 /\ ~IsAnswer(d.msg) /\ x \in Begun(i, d)
      <4>1. PICK d \in RunsOf(i) :
                 Len(d.via) = l + 1 /\ ~IsAnswer(d.msg) /\ x \in Begun(i, d)
        BY <3>2
      <4>2. CASE d = k
        <5>1. q \in DOMAIN handled'[i] /\ Len(handled'[i][q].via) = l + 1 /\ x \in Begun(i, handled'[i][q])
          BY <1>3, <1>4, <1>11, <4>1, <4>2
        <5>2. QED
          BY <1>10, <5>1 DEF Arrives
      <4>3. CASE d # k
        BY <1>1, <1>10, <4>1, <4>3 DEF Arrives
      <4>4. QED
        BY <4>2, <4>3
    <3>3. CASE \E p \in DOMAIN handled[i] :
                 Len(handled[i][p].via) = l + 1 /\ x \in Begun(i, handled[i][p])
      <4>1. PICK p \in DOMAIN handled'[i] :
                 Len(handled'[i][p].via) = l + 1 /\ x \in Begun(i, handled'[i][p])
        BY <1>4, <1>5, <3>3
      <4>2. QED
        BY <1>10, <4>1 DEF Arrives
    <3>4. QED
      BY <2>1, <3>1, <3>2, <3>3 DEF Arrives
  <2>2. \A x \in There(i) : Arrives(i, x, 0)'
    BY <1>18, <2>1 DEF NoneLost
  <2>3. ASSUME NEW p \in DOMAIN handled'[i],
               Len(handled'[i][p].via) = 1, handled'[i][p].at \in Relay,
               NEW x \in Begun(i, handled'[i][p])
        PROVE  Arrives(i, x, 1)'
    <3>1. CASE p \in DOMAIN handled[i]
      BY <1>5, <1>18, <2>1, <2>3, <3>1 DEF NoneLost
    <3>2. CASE p = q
      <4>1. k.at \in Relay /\ Len(k.via) = 1 /\ x \in Begun(i, k)
        BY <1>3, <1>4, <1>11, <2>3, <3>2
      <4>2. PICK d \in FramesOf(i)' : d.frame.msg = m /\ d.via = k.via
        BY <1>9, <1>12, <4>1
      <4>3. Len(d.via) = 1 /\ ~IsAnswer(d.frame.msg) /\ x \in Start(i, d.via, d.to)
        BY <1>11, <1>12, <4>1, <4>2
      <4>4. QED
        BY <1>10, <4>3 DEF Arrives
    <3>3. QED
      BY <1>4, <2>3, <3>1, <3>2
  <2>4. QED
    BY <1>10, <2>2, <2>3 DEF NoneLost
<1>19. ASSUME OwnRequest(i), Returns(i)
       PROVE  Returns(i)'
  <2> DEFINE node == call[i].node
             home == Address[node]
  <2>1. /\ call[i].type = "Request" /\ Queue(home) = {node}
        /\ There(i) = Queue(call[i].to) \ {node}
    BY <1>19 DEF OwnRequest, There
  <2>2. /\ call[i].got = {} /\ Homeward(i, k.msg) /\ (k.msg.ret # <<>> => k.via[1] \in Relay)
    BY <1>1, <1>19 DEF Returns
  <2> HIDE DEF home, node
  <2>3. ASSUME Len(k.via) = 1
        PROVE  /\ Homeward(i, m) /\ (m.ret # <<>> => k.via[1] \in Relay)
               /\ ~(IsAnswer(m) /\ k.msg.type = "Broadcast") /\ Queue(m.to) \ {k.at} # {}
    <3>1. /\ k.msg.type = "Request" /\ k.msg.to = call[i].to /\ k.msg.ret = <<>> /\ k.msg.from = home
          /\ k.at \in There(i) /\ k.via[1] = k.at
      BY <1>8, <2>1, <2>2, <2>3 DEF Homeward, Original, PassedOn, home, node
    <3>2. ASSUME k.at \in Relay
          PROVE  Homeward(i, m) /\ Queue(m.to) \ {k.at} # {}
      <4>1. m.ret = <<home>>
        BY <1>12, <3>1, <3>2
      <4>2. QED
        BY <1>12, <3>1, <3>2, <4>1 DEF Homeward, PassedOn, home, node
    <3>3. ASSUME k.at \notin Relay
          PROVE  Homeward(i, m) /\ m.ret = <<>> /\ Queue(m.to) \ {k.at} # {}
      <4>1. IsAnswer(m) /\ m.to = home /\ m.ret = <<>>
        BY <1>2, <3>1, <3>3
      <4>2. Homeward(i, m)
        BY <4>1 DEF Homeward, home, node
      <4>3. node \in Queue(m.to) \ {k.at}
        BY <2>1, <3>1, <4>1
      <4>4. QED
        BY <4>1, <4>2, <4>3
    <3>4. QED
      BY <3>1, <3>2, <3>3
  <2>4. ASSUME Len(k.via) = 2
        PROVE  /\ Homeward(i, m) /\ k.via[1] \in Relay
               /\ k.msg.type # "Broadcast" /\ Queue(m.to) \ {k.at} # {}
    <3>1. k.at \in Queue(Beyond) /\ k.msg.type = "Query" /\ k.via[1] \in Relay /\ k.at \notin Relay
      BY <1>8, <2>4, Beside DEF PassedOn, Relayed
    <3>2. k.msg.from = call[i].to /\ k.msg.ret = <<home>>
      BY <1>1, <2>1, <2>2, <3>1 DEF Homeward, Original, IsAnswer, home, node
    <3>3. IsAnswer(m) /\ m.to = call[i].to /\ m.ret = <<home>>
      BY <1>2, <3>1, <3>2
    <3>4. Homeward(i, m)
      BY <3>3 DEF Homeward, home, node
    <3>5. k.via[1] \in Queue(m.to) /\ k.via[1] # k.at
      BY <1>8, <2>1, <3>1, <3>3
    <3>6. QED
      BY <3>1, <3>4, <3>5
  <2>5. /\ Homeward(i, m) /\ (m.ret # <<>> => k.via[1] \in Relay)
        /\ ~(IsAnswer(m) /\ k.msg.type = "Broadcast") /\ Queue(m.to) \ {k.at} # {}
    BY <1>8, <2>3, <2>4
  <2>6. \A x : Homeward(i, x)' <=> Homeward(i, x)
    BY <1>6, Same
  <2>7. \A d \in FramesOf(i)' :
          /\ Homeward(i, d.frame.msg)' /\ call'[i].got = {}
          /\ d.via # <<>> => d.to \subseteq Queue(d.frame.msg.to)
          /\ d.frame.msg.ret # <<>> => d.via[1] \in Relay
    <3>1. ASSUME NEW d \in FramesOf(i)'
          PROVE  /\ Homeward(i, d.frame.msg) /\ call[i].got = {}
                 /\ d.via # <<>> => d.to \subseteq Queue(d.frame.msg.to)
                 /\ d.frame.msg.ret # <<>> => d.via[1] \in Relay
      <4>1. CASE d \in FramesOf(i)
        BY <1>19, <4>1 DEF Returns
      <4>2. CASE d \notin FramesOf(i)
        BY <1>9, <2>2, <2>5, <4>2
      <4>3. QED
        BY <4>1, <4>2
    <3>2. QED
      BY <1>1, <2>6, <3>1
  <2>8. \A d \in RunsOf(i)' :
          /\ Homeward(i, d.msg)' /\ call'[i].got = {}
          /\ IsAnswer(d.msg) => d.at \in Queue(d.msg.to)
          /\ d.msg.ret # <<>> => d.via[1] \in Relay
    BY <1>1, <1>19, <2>6 DEF Returns
  <2>9. call'[i].got \subseteq {call'[i].node} /\ FramesOf(i)' # {}
    BY <1>1, <1>9, <2>2, <2>5
  <2>10. QED
    BY <2>7, <2>8, <2>9 DEF Returns
<1>20. (OneStack' <=> OneStack) /\ (OwnRequest(i)' <=> OwnRequest(i))
  BY <1>1, <1>6, Same DEF OneStack
<1>21. Traced(i)'
  BY <1>0, <1>13, <1>14, <1>16, <1>17, <1>18, <1>19, <1>20 DEF Traced
<1>22. QED
  BY <1>21 DEF i

\* A trace of what is no broadcast is the only one.
LEMMA Alone ==
    ASSUME NEW i, call[i].type # "Broadcast", Apart(i), NEW k \in RunsOf(i),
           NEW n \in There(i)
    PROVE  FramesOf(i) = {} /\ RunsOf(i) = {k}
<1>1. \A via, to : Start(i, via, to) = There(i)
  BY DEF Start
<1>2. \A x : Begun(i, x) = There(i)
  BY <1>1 DEF Begun
<1>3. QED
  BY <1>1, <1>2 DEF Apart

LEMMA SettleTraced ==
    ASSUME Kept, NEW k \in child, Settle(k), Traced(k.msg.id)
    PROVE  Traced(k.msg.id)'
<1> DEFINE i == k.msg.id
           mine == call[i].type = "Request" /\ call[i].node = k.at /\ call[i].got = {}
<1>0. Traced(i) /\ Paths(i) /\ Apart(i) /\ Once(i) /\ Ahead(i)
  BY DEF Traced
<1>1. /\ i \in Id /\ k.at \in Node /\ k.via \in Seq(Node) /\ k.msg \in Message
      /\ k \in RunsOf(i) /\ RunsOf(i)' = RunsOf(i) \ {k}
      /\ stack' = stack /\ IsAnswer(k.msg) /\ handled' = handled
  BY SettleExact DEF Ends
<1>2. \/ /\ ~mine /\ k.msg.ret # <<>> /\ call' = call
         /\ \E m : /\ Sends(k, m) /\ m.id = i /\ IsAnswer(m)
                   /\ m.to = Last(k.msg.ret) /\ m.ret = Front(k.msg.ret)
      \/ /\ mine \/ k.msg.ret = <<>>
         /\ call' = [call EXCEPT ![i].got = @ \cup {k.at}]
         /\ \A j : FramesOf(j)' = FramesOf(j)
  BY SettleExact
<1> HIDE DEF mine, i
<1>3. SameCall(i)
  BY <1>1, <1>2 DEF SameCall, Kept, Recorded
<1>4. RunPath(i, k)
  BY <1>0, <1>1 DEF Paths
<1>5. k.via # <<>> /\ k.via[1] \in There(i) /\ Len(k.via) # 1
  BY <1>1, <1>4 DEF RunPath, Original
\* It goes back, if it goes anywhere.
<1>6. /\ FramesOf(i) \subseteq FramesOf(i)'
      /\ \A d, e \in FramesOf(i)' \ FramesOf(i) : d = e
      /\ \A d \in FramesOf(i)' \ FramesOf(i) :
            /\ d.via = k.via /\ d.to # {} /\ IsAnswer(d.frame.msg)
            /\ d.to \subseteq Queue(d.frame.msg.to)
            /\ d.frame.msg.to = Last(k.msg.ret) /\ d.frame.msg.ret = Front(k.msg.ret)
            /\ ~mine /\ k.msg.ret # <<>>
      /\ ~mine /\ k.msg.ret # <<>> =>
            call' = call /\ (Queue(Last(k.msg.ret)) \ {k.at} # {} => FramesOf(i)' # {})
      /\ mine \/ k.msg.ret = <<>> => call' = [call EXCEPT ![i].got = @ \cup {k.at}]
  <2>1. CASE /\ ~mine /\ k.msg.ret # <<>> /\ call' = call
             /\ \E m : /\ Sends(k, m) /\ m.id = i /\ IsAnswer(m)
                       /\ m.to = Last(k.msg.ret) /\ m.ret = Front(k.msg.ret)
    <3>1. PICK m : /\ Sends(k, m) /\ m.id = i /\ IsAnswer(m)
                   /\ m.to = Last(k.msg.ret) /\ m.ret = Front(k.msg.ret)
      BY <2>1
    <3>2. Replaces(i, k, m)
      BY <3>1, SendsIs
    <3>3. k.msg.type # "Broadcast"
      BY <1>1 DEF IsAnswer
    <3>4. QED
      BY <2>1, <3>1, <3>2, <3>3 DEF Replaces
  <2>2. CASE /\ mine \/ k.msg.ret = <<>>
             /\ call' = [call EXCEPT ![i].got = @ \cup {k.at}]
             /\ \A j : FramesOf(j)' = FramesOf(j)
    BY <2>2
  <2>3. QED
    BY <1>2, <2>1, <2>2
<1>7. /\ \A via, to : Start(i, via, to)' = Start(i, via, to)
      /\ \A x : Begun(i, x)' = Begun(i, x)
      /\ There(i)' = There(i) /\ \A x : Original(i, x)' <=> Original(i, x)
  BY <1>3, Same
<1>8. call'[i].type = call[i].type
  BY <1>3 DEF SameCall
<1>9. Paths(i)'
  <2>1. \A x : Relayed(i, x)' <=> Relayed(i, x)
    BY <1>1 DEF Relayed
  <2>2. \A d \in FramesOf(i) : FramePath(i, d)'
    BY <1>0, <1>7, <1>8, <2>1 DEF Paths, FramePath
  <2>3. \A d \in FramesOf(i)' \ FramesOf(i) : FramePath(i, d)'
    BY <1>5, <1>6, <1>7 DEF FramePath
  <2>4. \A x \in RunsOf(i)' : RunPath(i, x)'
    <3>1. \A x \in RunsOf(i) : RunPath(i, x)
      BY <1>0 DEF Paths
    <3>2. \A x : RunPath(i, x) => RunPath(i, x)'
      BY <1>7, <2>1 DEF RunPath
    <3>3. QED
      BY <1>1, <3>1, <3>2
  <2>5. \A x : HandledPath(i, x) => HandledPath(i, x)'
    BY <1>7, <2>1 DEF HandledPath
  <2>6. QED
    BY <1>0, <1>1, <2>2, <2>3, <2>4, <2>5 DEF Paths
<1>10. Apart(i)'
  BY <1>0, <1>1, <1>3, <1>5, <1>6, RunApart
<1>11. Once(i)'
  BY <1>0, <1>1, <1>7 DEF Once
<1>12. Ahead(i)'
  <2>1. /\ \A via, to : Start(i, via, to)' = Start(i, via, to)
        /\ \A x : Begun(i, x)' = Begun(i, x)
    BY <1>7
  <2>2. \A d \in FramesOf(i)' : ~IsAnswer(d.frame.msg) => d \in FramesOf(i)
    BY <1>6
  <2>3. handled'[i] = handled[i] /\ RunsOf(i)' \subseteq RunsOf(i)
    BY <1>1
  <2>4. QED
    BY <1>0, <2>1, <2>2, <2>3 DEF Ahead
<1>13. ASSUME NoneLost(i)
       PROVE  NoneLost(i)'
  <2>1. ASSUME NEW x, NEW l, Arrives(i, x, l)
        PROVE  Arrives(i, x, l)'
    <3>1. CASE \E d \in FramesOf(i) :
                 Len(d.via) = l /\ ~IsAnswer(d.frame.msg) /\ x \in Start(i, d.via, d.to)
      BY <1>6, <1>7, <3>1 DEF Arrives
    <3>2. CASE \E d \in RunsOf(i) :
                 Len(d.via) = l + 1 /\ ~IsAnswer(d.msg) /\ x \in Begun(i, d)
      BY <1>1, <1>7, <3>2 DEF Arrives
    <3>3. CASE \E p \in DOMAIN handled[i] :
                 Len(handled[i][p].via) = l + 1 /\ x \in Begun(i, handled[i][p])
      BY <1>1, <1>7, <3>3 DEF Arrives
    <3>4. QED
      BY <2>1, <3>1, <3>2, <3>3 DEF Arrives
  <2>2. QED
    BY <1>1, <1>7, <1>13, <2>1 DEF NoneLost
<1>14. ASSUME OwnRequest(i), Returns(i)
       PROVE  Returns(i)'
  <2> DEFINE node == call[i].node
             home == Address[node]
  <2>1. /\ call[i].type = "Request" /\ Queue(home) = {node}
        /\ There(i) = Queue(call[i].to) \ {node}
    BY <1>14 DEF OwnRequest, There
  <2>2. /\ call[i].got = {} /\ Homeward(i, k.msg) /\ (k.msg.ret # <<>> => k.via[1] \in Relay)
        /\ k.at \in Queue(k.msg.to)
    BY <1>1, <1>14 DEF Returns
  <2>3. FramesOf(i) = {} /\ RunsOf(i) = {k}
    BY <1>0, <1>1, <1>5, <2>1, Alone
  <2> HIDE DEF home, node
  <2>4. \/ k.msg.to = call[i].to /\ k.msg.ret = <<home>>
        \/ k.msg.to = home /\ k.msg.ret = <<>>
    BY <1>1, <2>2 DEF Homeward, Original, home, node
  <2>5. mine <=> k.at = node
    BY <2>1, <2>2 DEF mine, node
  <2>6. \A x : Homeward(i, x)' <=> Homeward(i, x)
    BY <1>3, Same
  <2>7. CASE k.at = node
    <3>1. call' = [call EXCEPT ![i].got = @ \cup {k.at}] /\ FramesOf(i)' = {} /\ RunsOf(i)' = {}
      BY <1>1, <1>6, <2>3, <2>5, <2>7
    <3>2. call'[i].got = {node} /\ call'[i].node = node
      BY <1>1, <2>2, <2>7, <3>1 DEF Kept, Recorded, node
    <3>3. QED
      BY <3>1, <3>2 DEF Returns
  <2>8. CASE k.at # node
    <3>1. k.msg.ret = <<home>> /\ ~mine
      BY <2>1, <2>2, <2>4, <2>5, <2>8
    <3>2. Last(k.msg.ret) = home /\ Front(k.msg.ret) = <<>>
      BY <3>1 DEF Last, Front
    <3>3. Queue(home) \ {k.at} # {}
      BY <2>1, <2>8
    <3>4. call' = call /\ FramesOf(i)' # {} /\ RunsOf(i)' = {}
      BY <1>1, <1>6, <2>3, <3>1, <3>2, <3>3
    <3>5. \A d \in FramesOf(i)' :
            /\ Homeward(i, d.frame.msg) /\ d.frame.msg.ret = <<>>
            /\ d.to \subseteq Queue(d.frame.msg.to)
      BY <1>6, <2>3, <3>2 DEF Homeward, home, node
    <3>6. QED
      BY <2>2, <2>6, <3>4, <3>5 DEF Returns
  <2>9. QED
    BY <2>7, <2>8
<1>15. (OneStack' <=> OneStack) /\ (OwnRequest(i)' <=> OwnRequest(i))
  BY <1>1, <1>3, Same DEF OneStack
<1>16. Traced(i)'
  BY <1>0, <1>9, <1>10, <1>11, <1>12, <1>13, <1>14, <1>15 DEF Traced
<1>17. QED
  BY <1>16 DEF i

\* Whoever asks from its last topic asks from its whole address.
LEMMA AskExact ==
    ASSUME Kept, NEW i \in Id, NEW n \in Caller, Ask(i, n)
    PROVE  \E m, u :
             /\ call[i] = Idle /\ n \in Node /\ m.id = i /\ ~IsAnswer(m) /\ m.ret = <<>>
             /\ Publish(n, u, m, <<>>)
             /\ UNCHANGED <<stack, child, handled>>
             /\ call'[i].node = n /\ call'[i].type = m.type /\ call'[i].to = m.to
             /\ call'[i].got = {} /\ (call'[i].last => m.from = Address[n])
             /\ \A j \in Id : j # i => call'[j] = call[j]
<1>1. n \in Node /\ call[i] = Idle /\ UNCHANGED <<stack, child, handled>>
  BY NodeAssumption DEF Ask
<1>2. PICK type \in {"Query", "Request", "Broadcast"}, to \in Subject,
           user \in User \cup {None}, from \in {0, -1} :
        /\ Publish(n, user, Apply(n, NewMessage(i, type, Topic(n, 0), to), from), <<>>)
        /\ call' = [call EXCEPT ![i] =
                [node |-> n, type |-> type, to |-> to, user |-> user,
                 last |-> from = -1, got |-> {}]]
  BY DEF Ask
<1> DEFINE m == Apply(n, NewMessage(i, type, Topic(n, 0), to), from)
           c == [node |-> n, type |-> type, to |-> to, user |-> user,
                 last |-> from = -1, got |-> {}]
<1>3. /\ m.id = i /\ m.type = type /\ m.to = to /\ m.ret = <<>> /\ m.from = Topic(n, from)
  BY DEF Apply, NewMessage
<1>4. from = -1 => Topic(n, from) = Address[n]
  BY DEF Topic
<1>6. call'[i] = c /\ \A j \in Id : j # i => call'[j] = call[j]
  BY <1>2 DEF Kept, Recorded
<1>7. c.node = n /\ c.type = type /\ c.to = to /\ c.got = {} /\ (c.last <=> from = -1)
  OBVIOUS
<1> HIDE DEF c, m
<1>8. ~IsAnswer(m)
  BY <1>3 DEF IsAnswer
<1>9. Publish(n, user, m, <<>>)
  BY <1>2 DEF m
<1>10. QED
  BY <1>1, <1>3, <1>4, <1>6, <1>7, <1>8, <1>9

LEMMA AskTraced ==
    ASSUME Kept, NEW i \in Id, NEW n \in Caller, Ask(i, n)
    PROVE  /\ Traced(i)'
           /\ \A j : j # i => FramesOf(j)' = FramesOf(j) /\ RunsOf(j)' = RunsOf(j)
<1>1. PICK m, u :
             /\ call[i] = Idle /\ n \in Node /\ m.id = i /\ ~IsAnswer(m) /\ m.ret = <<>>
             /\ Publish(n, u, m, <<>>)
             /\ UNCHANGED <<stack, child, handled>>
             /\ call'[i].node = n /\ call'[i].type = m.type /\ call'[i].to = m.to
             /\ call'[i].got = {} /\ (call'[i].last => m.from = Address[n])
             /\ \A j \in Id : j # i => call'[j] = call[j]
  BY AskExact
<1>2. FramesOf(i) = {} /\ RunsOf(i)' = {} /\ DOMAIN handled'[i] = {}
  <2>1. handled[i] = <<>> /\ FramesOf(i) = {} /\ RunsOf(i) = {}
    BY <1>1 DEF Kept, Unasked, FramesOf, RunsOf
  <2>2. RunsOf(i)' = RunsOf(i)
    BY <1>1 DEF RunsOf
  <2>3. QED
    BY <1>1, <2>1, <2>2
<1> DEFINE there == IF m.type = "Broadcast" THEN Wide(m.to) \ {n} ELSE Queue(m.to) \ {n}
<1>3. There(i)' = there
  BY <1>1 DEF There
<1>4. there \subseteq Node
  BY DEF Wide, Queue
<1> DEFINE Sent(ds) ==
             /\ \A d \in ds : d.frame.msg = m /\ d.via = <<>> /\ d.to \subseteq there /\ d.to # {}
             /\ m.type = "Broadcast" => \A d \in ds : \E w \in there : d.to = {w}
             /\ \A d, e \in ds : m.type # "Broadcast" \/ d.to = e.to => d = e
             /\ \A w \in there : \E d \in ds : w \in d.to
<1>5. /\ Sent(FramesOf(i)')
      /\ \A j : j # i => FramesOf(j)' = FramesOf(j)
  <2>1. CASE m.type # "Broadcast"
    <3>1. OneFrame(n, m, <<>>)
      BY <1>1, <2>1, PublishOne
    <3>2. CASE net' = net /\ there = {}
      BY <1>2, <2>1, <3>2 DEF FramesOf
    <3>3. CASE \E d : /\ net' = net \cup {d} /\ d.frame.msg = m /\ d.via = <<>>
                      /\ d.to = there /\ there # {}
      <4> HIDE DEF there
      <4>1. PICK d : /\ net' = net \cup {d} /\ d.frame.msg = m /\ d.via = <<>>
                     /\ d.to = there /\ there # {}
        BY <3>3
      <4>2. FramesOf(i)' = FramesOf(i) \cup {d} /\ \A j : j # i => FramesOf(j)' = FramesOf(j)
        BY <1>1, <4>1 DEF FramesOf
      <4>3. FramesOf(i)' = {d}
        BY <1>2, <4>2
      <4>4. QED
        BY <2>1, <4>1, <4>2, <4>3
    <3>4. QED
      BY <2>1, <3>1, <3>2, <3>3 DEF OneFrame
  <2>2. CASE m.type = "Broadcast"
    <3>1. /\ net \subseteq net'
          /\ \A d \in net' \ net : \E w \in there :
               d.frame.msg = m /\ d.via = <<>> /\ d.to = {w}
          /\ \A c, d \in net' \ net : c.to = d.to => c = d
          /\ \A w \in there : \E d \in net' :
               d.frame.msg = m /\ d.via = <<>> /\ d.to = {w}
      <4>1. EachFrame(n, m, <<>>)
        BY <1>1, <2>2, PublishAll
      <4>2. QED
        BY <2>2, <4>1 DEF EachFrame
    <3> HIDE DEF there
    <3>2. FramesOf(i)' = net' \ net
      BY <1>1, <1>2, <3>1 DEF FramesOf
    <3>3. \A j : j # i => FramesOf(j)' = FramesOf(j)
      BY <1>1, <3>1 DEF FramesOf
    <3>4. \A w \in there : \E d \in FramesOf(i)' : w \in d.to
      BY <1>1, <3>1 DEF FramesOf
    <3>5. QED
      BY <2>2, <3>1, <3>2, <3>3, <3>4
  <2>3. QED
    BY <2>1, <2>2
<1> HIDE DEF there
<1>6. \A d \in FramesOf(i)' :
        Start(i, d.via, d.to)' = IF m.type = "Broadcast" THEN d.to ELSE there
  BY <1>1, <1>3, <1>5 DEF Start
<1>7. Paths(i)'
  <2>1. ASSUME NEW d \in FramesOf(i)'
        PROVE  FramePath(i, d)'
    <3>1. Original(i, m)'
      BY <1>1 DEF Original
    <3>2. QED
      BY <1>1, <1>3, <1>4, <1>5, <3>1 DEF FramePath
  <2>2. QED
    BY <1>2, <2>1 DEF Paths
<1>8. Apart(i)'
  <2>1. ASSUME NEW d \in FramesOf(i)', NEW e \in FramesOf(i)',
               Start(i, d.via, d.to)' \cap Start(i, e.via, e.to)' # {}
        PROVE  d = e
    <3>1. CASE m.type = "Broadcast"
      <4>1. d.to \cap e.to # {}
        BY <1>6, <2>1, <3>1
      <4>2. /\ \E w : d.to = {w}
            /\ \E x : e.to = {x}
        BY <1>5, <2>1, <3>1
      <4>3. d.to = e.to
        BY <4>1, <4>2
      <4>4. QED
        BY <1>5, <4>3
    <3>2. QED
      BY <1>5, <3>1
  <2>2. QED
    BY <1>2, <2>1 DEF Apart
<1>9. Once(i)' /\ Ahead(i)'
  BY <1>2 DEF Once, Ahead
<1>10. NoneLost(i)'
  <2>1. ASSUME NEW x \in there
        PROVE  Arrives(i, x, 0)'
    <3>1. PICK d \in FramesOf(i)' : x \in d.to
      BY <1>5
    <3>2. d.via = <<>> /\ d.frame.msg = m
      BY <1>5
    <3>3. Len(d.via) = 0 /\ ~IsAnswer(d.frame.msg) /\ x \in Start(i, d.via, d.to)'
      BY <1>1, <1>6, <3>1, <3>2
    <3>4. QED
      BY <3>3 DEF Arrives
  <2>2. QED
    BY <1>2, <1>3, <2>1 DEF NoneLost
<1>11. ASSUME OwnRequest(i)'
       PROVE  Returns(i)'
  <2>1. Homeward(i, m)'
    BY <1>1, <1>11 DEF Homeward, Original, OwnRequest
  <2>2. \A d \in FramesOf(i)' : d.frame.msg = m /\ d.via = <<>>
    BY <1>5
  <2>3. there # {} => FramesOf(i)' # {}
    BY <1>5
  <2>4. QED
    BY <1>1, <1>2, <1>3, <2>1, <2>2, <2>3 DEF Returns
<1>12. QED
  BY <1>5, <1>7, <1>8, <1>9, <1>10, <1>11, <1>1 DEF Traced, RunsOf

-----------------------------------------------------------------------------
(* Delivery: every step, and what is left at the end                       *)

\* The message of a step is kept on its way, and the others are left alone.
LEMMA TracedStep ==
    ASSUME Kept, Tracked, [Next]_vars
    PROVE  Tracked'
<1>0. ASSUME NEW j \in Id, Traced(j), UNCHANGED <<stack, call[j], handled[j]>>,
             FramesOf(j)' = FramesOf(j), RunsOf(j)' = RunsOf(j)
      PROVE  Traced(j)'
  BY <1>0, Untouched DEF Traced
<1>1. CASE UNCHANGED vars
  <2>1. ASSUME NEW j \in Id, call'[j] # Idle
        PROVE  Traced(j)'
    <3>1. Traced(j) /\ UNCHANGED <<stack, call[j], handled[j]>>
      BY <1>1, <2>1 DEF Tracked, vars
    <3>2. FramesOf(j)' = FramesOf(j) /\ RunsOf(j)' = RunsOf(j)
      BY <1>1 DEF FramesOf, RunsOf, vars
    <3>3. QED
      BY <1>0, <3>1, <3>2
  <2>2. QED
    BY <2>1 DEF Tracked
<1>2. ASSUME NEW i \in Id, NEW n \in Caller, Ask(i, n)
      PROVE  Tracked'
  <2>1. Traced(i)' /\ \A j : j # i => FramesOf(j)' = FramesOf(j) /\ RunsOf(j)' = RunsOf(j)
    BY <1>2, AskTraced
  <2>2. stack' = stack /\ handled' = handled /\ \A j \in Id : j # i => call'[j] = call[j]
    BY <1>2, AskExact
  <2>3. ASSUME NEW j \in Id, call'[j] # Idle, j # i
        PROVE  Traced(j)'
    BY <1>0, <2>1, <2>2, <2>3 DEF Tracked
  <2>4. QED
    BY <2>1, <2>3 DEF Tracked
<1>3. ASSUME NEW c \in net, NEW n \in c.to, Receive(n, c)
      PROVE  Tracked'
  <2> DEFINE i == c.frame.msg.id
  <2>1. /\ i \in Id /\ call[i] # Idle /\ UNCHANGED <<stack, call, handled>>
        /\ \A j : j # i => FramesOf(j)' = FramesOf(j) /\ RunsOf(j)' = RunsOf(j)
    BY <1>3, ReceiveExact
  <2>2. Traced(i)
    BY <2>1 DEF Tracked
  <2>3. Traced(i)'
    BY <1>3, <2>2, ReceiveTraced
  <2> HIDE DEF i
  <2>4. ASSUME NEW j \in Id, call'[j] # Idle, j # i
        PROVE  Traced(j)'
    BY <1>0, <2>1, <2>4 DEF Tracked
  <2>5. QED
    BY <2>3, <2>4 DEF Tracked
<1>4. ASSUME NEW k \in child, Handle(k)
      PROVE  Tracked'
  <2> DEFINE i == k.msg.id
             h == [at |-> k.at, user |-> k.user, via |-> k.via]
  <2>1. /\ Ends(k) /\ call' = call
        /\ handled' = [handled EXCEPT ![i] = Append(@, h)]
        /\ \E m : Sends(k, m) /\ m.id = i
    BY <1>4, HandleExact
  <2>2. Traced(i) /\ i \in Id
    BY <2>1 DEF Tracked, Ends
  <2>3. Traced(i)'
    BY <1>4, <2>2, HandleTraced
  <2> HIDE DEF h
  <2>4. \A j \in Id : j # i =>
          /\ FramesOf(j)' = FramesOf(j) /\ RunsOf(j)' = RunsOf(j)
          /\ handled'[j] = handled[j]
    BY <2>1, <2>2, Appended DEF Sends, Ends, Kept
  <2>5. stack' = stack
    BY <2>1 DEF Ends
  <2> HIDE DEF i
  <2>6. ASSUME NEW j \in Id, call'[j] # Idle, j # i
        PROVE  Traced(j)'
    BY <1>0, <2>1, <2>4, <2>5, <2>6 DEF Tracked
  <2>7. QED
    BY <2>3, <2>6 DEF Tracked
<1>5. ASSUME NEW k \in child, Settle(k)
      PROVE  Tracked'
  <2> DEFINE i == k.msg.id
  <2>1. Ends(k) /\ handled' = handled
    BY <1>5, SettleExact
  <2>2. /\ \A j : j # i => FramesOf(j)' = FramesOf(j)
        /\ call' = call \/ call' = [call EXCEPT ![i].got = @ \cup {k.at}]
    BY <1>5, SettleExact DEF Sends
  <2>3. Traced(i) /\ i \in Id
    BY <2>1 DEF Tracked, Ends
  <2>4. Traced(i)'
    BY <1>5, <2>3, SettleTraced
  <2>5. /\ stack' = stack /\ \A j : j # i => RunsOf(j)' = RunsOf(j)
        /\ \A j \in Id : j # i => call'[j] = call[j]
    BY <2>1, <2>2, <2>3 DEF Ends, Kept, Recorded
  <2> HIDE DEF i
  <2>6. ASSUME NEW j \in Id, call'[j] # Idle, j # i
        PROVE  Traced(j)'
    BY <1>0, <2>1, <2>2, <2>5, <2>6 DEF Tracked
  <2>7. QED
    BY <2>4, <2>6 DEF Tracked
<1>6. QED
  BY <1>1, <1>2, <1>3, <1>4, <1>5, Steps

LEMMA AsMany ==
    ASSUME NEW S, NEW T, IsFiniteSet(T), NEW f \in [S -> T],
           \A x, y \in S : f[x] = f[y] => x = y, \A t \in T : \E x \in S : f[x] = t
    PROVE  Cardinality(S) = Cardinality(T)
<1>1. f \in Injection(S, T)
  BY DEF Injection, IsInjective
<1>2. f \in Surjection(S, T)
  BY DEF Surjection
<1>3. QED
  BY <1>1, <1>2, FS_Injection

\* At the end one trace was handled for each there is, and once more behind a relay.
LEMMA AtTheEnd ==
    ASSUME BrokerInv, Tracked, Quiet, OneStack, NEW i \in Id, call[i] # Idle
    PROVE  LET beyond == Serving(i, Node \ There(i)) IN
           /\ IF call[i].type = "Broadcast"
              THEN \A n \in There(i) : Cardinality(Serving(i, {n})) = 1
              ELSE Cardinality(Serving(i, There(i))) = IF There(i) = {} THEN 0 ELSE 1
           /\ Cardinality(beyond) = Cardinality(Serving(i, Relay \cap There(i)))
           /\ beyond \subseteq Serving(i, Queue(Beyond))
           /\ OwnRequest(i) /\ There(i) # {} => call[i].got = {call[i].node}
<1> DEFINE h(p) == handled[i][p]
           First == {p \in DOMAIN handled[i] : Len(h(p).via) = 1}
           Second == {p \in DOMAIN handled[i] : Len(h(p).via) = 2}
           Passed == {p \in First : h(p).at \in Relay}
<1>0. FramesOf(i) = {} /\ RunsOf(i) = {}
  BY DEF Quiet, FramesOf, RunsOf
<1>1. Paths(i) /\ Once(i) /\ NoneLost(i) /\ (OwnRequest(i) => Returns(i))
  BY DEF Tracked, Traced
<1>2. /\ \A p \in DOMAIN handled[i] : HandledPath(i, h(p)) /\ h(p).at \in Node
      /\ DOMAIN handled[i] = 1 .. Len(handled[i]) /\ Len(handled[i]) \in Nat
  <2>1. Recorded
    BY DEF BrokerInv
  <2> DEFINE H == [at : Node, user : User \cup {None}, via : Seq(Node)]
  <2>2. \A p \in DOMAIN handled[i] : h(p).at \in Node
    <3>1. handled[i] \in Seq(H)
      BY <2>1 DEF Recorded
    <3>2. \A x \in H : x.at \in Node
      OBVIOUS
    <3> HIDE DEF H
    <3>3. \A p \in DOMAIN handled[i] : handled[i][p] \in H
      BY <3>1
    <3>4. QED
      BY <3>2, <3>3
  <2>3. DOMAIN handled[i] = 1 .. Len(handled[i]) /\ Len(handled[i]) \in Nat
    BY <2>1, ServingIs
  <2>4. \A p \in DOMAIN handled[i] : HandledPath(i, h(p))
    BY <1>1 DEF Paths
  <2>5. QED
    BY <2>2, <2>3, <2>4
<1>3. There(i) \subseteq Queue(call[i].to) /\ There(i) \subseteq Node
  BY DEF There, Wide, Queue
<1>4. \A p \in First : h(p).at = h(p).via[1] /\ h(p).via[1] \in There(i)
  BY <1>2 DEF HandledPath
<1>5. \A p \in Second :
        /\ h(p).at \in Queue(Beyond) /\ h(p).at \notin There(i)
        /\ h(p).via[1] \in Relay \cap There(i)
        /\ \E q \in DOMAIN handled[i] : h(q).via = <<h(p).via[1]>>
  <2>1. ASSUME NEW p \in Second
        PROVE  /\ h(p).at \in Queue(Beyond) /\ h(p).at \notin There(i)
               /\ h(p).via[1] \in Relay \cap There(i)
               /\ \E q \in DOMAIN handled[i] : h(q).via = <<h(p).via[1]>>
    <3>1. h(p).at \in Queue(Beyond) /\ h(p).via[1] \in There(i) /\ Relayed(i, h(p).via[1])
      BY <1>2 DEF HandledPath
    <3>2. /\ h(p).via[1] \in Relay
          /\ \E q \in DOMAIN handled[i] : h(q).via = <<h(p).via[1]>>
      BY <3>1 DEF Relayed
    <3>3. h(p).via[1] \in Relay \cap Queue(call[i].to)
      BY <1>3, <3>1, <3>2
    <3>4. h(p).at \notin Queue(call[i].to)
      BY <3>1, <3>3, Beside
    <3>5. QED
      BY <1>3, <3>1, <3>2, <3>4
  <2>2. QED
    BY <2>1
<1>6. /\ DOMAIN handled[i] = First \cup Second
      /\ \A p \in DOMAIN handled[i] :
            /\ Begun(i, h(p)) = IF call[i].type # "Broadcast" THEN There(i) ELSE {h(p).via[1]}
            /\ h(p).via[1] \in Begun(i, h(p))
  <2>1. \A p \in DOMAIN handled[i] : Len(h(p).via) \in {1, 2} /\ h(p).via[1] \in There(i)
    BY <1>2 DEF HandledPath
  <2>2. \A p \in DOMAIN handled[i] : h(p).via # <<>>
    BY <2>1
  <2> HIDE DEF h
  <2>3. QED
    BY <2>1, <2>2 DEF Begun, Start
<1>7. /\ \A p, q \in First : Begun(i, h(p)) \cap Begun(i, h(q)) # {} => p = q
      /\ \A p, q \in Second : Begun(i, h(p)) \cap Begun(i, h(q)) # {} => p = q
  BY <1>1 DEF Once
<1>8. /\ \A n \in There(i) : \E p \in First : n \in Begun(i, h(p))
      /\ \A p \in Passed : \A n \in Begun(i, h(p)) : \E q \in Second : n \in Begun(i, h(q))
  BY <1>0, <1>1 DEF NoneLost, Arrives
<1>9. OwnRequest(i) /\ There(i) # {} => call[i].got = {call[i].node}
  BY <1>0, <1>1 DEF Returns
<1>10. /\ Serving(i, There(i)) = First /\ Serving(i, Node \ There(i)) = Second
       /\ Serving(i, Relay \cap There(i)) = Passed
  BY <1>2, <1>4, <1>5, <1>6 DEF Serving
<1>11. Second \subseteq Serving(i, Queue(Beyond))
  BY <1>5 DEF Serving
<1>12. IsFiniteSet(Second)
  <2>1. IsFiniteSet(DOMAIN handled[i])
    BY <1>2, UpTo
  <2>2. Second \subseteq DOMAIN handled[i]
    OBVIOUS
  <2>3. QED
    BY <2>1, <2>2, NotMore
<1>13. \A n \in There(i) : Serving(i, {n}) = {p \in First : h(p).at = n}
  BY <1>5, <1>6 DEF Serving
<1>14. /\ First \subseteq DOMAIN handled[i] /\ Second \subseteq DOMAIN handled[i]
       /\ Passed \subseteq First /\ \A p \in First : p \in Passed <=> h(p).at \in Relay
       /\ \A q : h(q).via = <<h(q).via[1]>> /\ q \in DOMAIN handled[i] => q \in First
  OBVIOUS
<1>15. \A p \in DOMAIN handled[i] : \A x : h(p).via = <<x>> => p \in First /\ h(p).via[1] = x
  OBVIOUS
<1> HIDE DEF First, Second, Passed, h
<1>16. ASSUME call[i].type = "Broadcast", NEW n \in There(i)
       PROVE  Cardinality(Serving(i, {n})) = 1
  <2>1. PICK p \in First : n \in Begun(i, h(p))
    BY <1>8
  <2>2. \A q \in First : h(q).at = n <=> q = p
    <3>1. \A q \in First : Begun(i, h(q)) = {h(q).at}
      BY <1>4, <1>6, <1>14, <1>16
    <3>2. h(p).at = n
      BY <2>1, <3>1
    <3>3. QED
      BY <1>7, <3>1, <3>2
  <2>3. Serving(i, {n}) = {p}
    BY <1>13, <2>2
  <2>4. QED
    BY <2>3, FS_Singleton
<1>17. ASSUME call[i].type # "Broadcast"
       PROVE  Cardinality(First) = IF There(i) = {} THEN 0 ELSE 1
  <2>1. \A p \in First : Begun(i, h(p)) = There(i)
    BY <1>6, <1>14, <1>17
  <2>2. CASE There(i) = {}
    <3>1. First = {}
      BY <1>4, <2>2
    <3>2. QED
      BY <2>2, <3>1, FS_EmptySet
  <2>3. CASE There(i) # {}
    <3>1. PICK p \in First : TRUE
      BY <1>8, <2>3
    <3>2. First = {p}
      BY <1>7, <2>1, <2>3, <3>1
    <3>3. QED
      BY <2>3, <3>2, FS_Singleton
  <2>4. QED
    BY <2>2, <2>3
<1>18. Cardinality(Second) = Cardinality(Passed)
  <2>1. \A p, q \in DOMAIN handled[i] :
            Begun(i, h(p)) \cap Begun(i, h(q)) # {} <=> Begun(i, h(p)) = Begun(i, h(q))
    BY <1>6
  <2> DEFINE Next2(p) == CHOOSE q \in Second : Begun(i, h(q)) = Begun(i, h(p))
             f == [p \in Passed |-> Next2(p)]
  <2>2. \A p \in Passed : \E q \in Second : Begun(i, h(q)) = Begun(i, h(p))
    BY <1>6, <1>8, <1>14, <2>1
  <2>3. \A p \in Passed : Next2(p) \in Second /\ Begun(i, h(Next2(p))) = Begun(i, h(p))
    BY <2>2
  <2> HIDE DEF Next2
  <2>4. f \in [Passed -> Second] /\ \A p \in Passed : f[p] \in Second /\ Begun(i, h(f[p])) = Begun(i, h(p))
    BY <2>3
  <2> HIDE DEF f
  <2>5. \A p, q \in Passed : f[p] = f[q] => p = q
    <3>1. ASSUME NEW p \in Passed, NEW q \in Passed, f[p] = f[q]
          PROVE  p = q
      <4>1. Begun(i, h(p)) = Begun(i, h(q))
        BY <2>4, <3>1
      <4>2. p \in First /\ q \in First /\ p \in DOMAIN handled[i] /\ q \in DOMAIN handled[i]
        BY <1>14
      <4>3. QED
        BY <1>7, <2>1, <4>1, <4>2
    <3>2. QED
      BY <3>1
  <2>6. \A q \in Second : \E p \in Passed : f[p] = q
    <3>1. ASSUME NEW q \in Second
          PROVE  \E p \in Passed : f[p] = q
      <4>1. PICK p \in DOMAIN handled[i] : h(p).via = <<h(q).via[1]>>
        BY <1>5
      <4>2. p \in First /\ h(p).via[1] = h(q).via[1]
        BY <1>15, <4>1
      <4>3. p \in Passed
        BY <1>4, <1>5, <1>14, <4>2
      <4>4. Begun(i, h(p)) = Begun(i, h(q))
        BY <1>6, <1>14, <4>1, <4>2
      <4>5. f[p] \in Second /\ Begun(i, h(f[p])) = Begun(i, h(q))
        BY <2>4, <4>3, <4>4
      <4>6. f[p] = q
        BY <1>7, <1>14, <2>1, <4>5
      <4>7. QED
        BY <4>3, <4>6
    <3>2. QED
      BY <3>1
  <2>7. QED
    BY <1>12, <2>4, <2>5, <2>6, AsMany
<1>19. QED
  BY <1>9, <1>10, <1>11, <1>16, <1>17, <1>18

-----------------------------------------------------------------------------
(* Theorems                                                                *)

LEMMA BrokerInit == Init => BrokerInv
<1> SUFFICES ASSUME Init PROVE BrokerInv
  OBVIOUS
<1>1. net = {} /\ child = {} /\ (\A i \in Id : call[i] = Idle /\ handled[i] = <<>>)
  BY DEF Init
<1>2. TypeOK /\ Written /\ Contexts /\ Unasked
  BY <1>1 DEF TypeOK, Written, Contexts, Unasked, Idle
<1>3. Recorded
  <2> DEFINE H == [at : Node, user : User \cup {None}, via : Seq(Node)]
  <2>1. handled \in [Id -> Seq(H)]
    <3>1. <<>> \in Seq(H)
      OBVIOUS
    <3> HIDE DEF H
    <3>2. QED
      BY <3>1 DEF Init
  <2>2. Idle \in [node : Node \cup {None}, type : Type \cup {None},
                  to : Subject \cup {<<>>}, user : User \cup {None},
                  last : BOOLEAN, got : SUBSET Node]
    BY DEF Idle
  <2>3. QED
    BY <2>1, <2>2 DEF Init, Recorded
<1>4. UserKept
  <2>1. ASSUME NEW i \in Id
        PROVE  DOMAIN handled[i] = {}
    BY <1>1
  <2>2. QED
    BY <2>1 DEF UserKept
<1>5. Hushed
  <2>1. ASSUME NEW i \in Id
        PROVE  /\ LooseFrames(i) = {} /\ LooseRuns(i) = {} /\ call[i].got = {}
               /\ Serving(i, Relay) = {}
    <3>1. DOMAIN handled[i] = {}
      BY <1>1
    <3>2. QED
      BY <1>1, <3>1 DEF LooseFrames, LooseRuns, Serving, Idle
  <2>2. IsFiniteSet({}) /\ Cardinality({}) = 0
    BY FS_EmptySet
  <2>3. ASSUME NEW i \in Id
        PROVE  Balanced(i)
    BY <2>1, <2>2 DEF Balanced
  <2>4. QED
    BY <2>3 DEF Hushed, Balanced
<1>6. QED
  BY <1>2, <1>3, <1>4, <1>5 DEF BrokerInv

LEMMA BrokerStep == BrokerInv /\ [Next]_vars => BrokerInv'
<1> SUFFICES ASSUME BrokerInv, [Next]_vars PROVE BrokerInv'
  OBVIOUS
<1>1. Kept /\ Hushed
  BY DEF BrokerInv, Kept
<1>2. Kept'
  <2>1. CASE UNCHANGED vars
    BY <1>1, <2>1 DEF Kept, TypeOK, Recorded, Written, Contexts, Unasked, UserKept, Stack, vars
  <2>2. QED
    BY <1>1, <2>1, Steps, AskKept, ReceiveKept, RunKept
<1>3. Hushed'
  BY <1>1, HushedStep
<1>4. QED
  BY <1>2, <1>3 DEF BrokerInv, Kept

LEMMA Brokered == Spec => []BrokerInv
<1>1. QED
  BY BrokerInit, BrokerStep, PTL DEF Spec

\* What is on its way, what runs and what came back are always messages, exchanges
\* and users: no middleware leaves another value where a user belongs.
THEOREM BrokerTypes == Spec => []TypeOK
<1>1. BrokerInv => TypeOK
  BY DEF BrokerInv
<1>2. QED
  BY <1>1, Brokered, PTL

\* Whatever stacks the services have and however often a query is passed on,
\* every handler with Authorize serves the user it was sent for (middleware.go,
\* message.go).
THEOREM UsersKept == Spec => []UserKept
<1>1. BrokerInv => UserKept
  BY DEF BrokerInv
<1>2. QED
  BY <1>1, Brokered, PTL

\* Whoever receives a frame takes it exactly if the stacks agree on what is
\* mandatory and on the algorithm: counting places decides it (Decode).
THEOREM FramesUnderstood == Spec => []Understood
<1>1. BrokerInv => Understood
  <2> SUFFICES ASSUME BrokerInv, NEW c \in net, NEW n \in c.to
               PROVE  Accepts(Stack(n), c.frame) <=>
                         \/ IsAnswer(c.frame.msg)
                         \/ /\ \A w \in ToSet(Stack(c.by)) : w \in ToSet(Stack(n))
                            /\ \A w \in ToSet(Stack(n)) : Mandatory(w) => w \in ToSet(Stack(c.by))
    BY DEF Understood
  <2>1. c.by \in Node /\ n \in Node /\ c.frame.msg \in Message
    BY DEF BrokerInv, Written, TypeOK
  <2>2. PICK user : c.frame = Encode(Stack(c.by), user, c.frame.msg)
    BY DEF BrokerInv, Written
  <2>3. Stack(c.by) \in Stacks /\ Stack(n) \in Stacks
    BY <2>1, StackIs DEF BrokerInv
  <2>4. Accepts(Stack(n), Encode(Stack(c.by), user, c.frame.msg)) <=>
              \/ IsAnswer(c.frame.msg)
              \/ /\ \A w \in ToSet(Stack(c.by)) : w \in ToSet(Stack(n))
                 /\ \A w \in ToSet(Stack(n)) : Mandatory(w) => w \in ToSet(Stack(c.by))
    BY <2>1, <2>3, Taken
  <2>5. QED
    BY <2>2, <2>4
<1>2. QED
  BY <1>1, Brokered, PTL

\* A broadcast brings back, and leaves under way, no more answers than handlers
\* passed it on: nobody else answers it (Send, exchange.go).
THEOREM Hush == Spec => []Silent
<1>1. BrokerInv => Silent
  <2> SUFFICES ASSUME BrokerInv, NEW i \in Id, call[i].type = "Broadcast"
               PROVE  LET loud == {c \in net : c.frame.msg.id = i /\ IsAnswer(c.frame.msg)} IN
                      Cardinality(loud) + Cardinality(call[i].got) <= Cardinality(Serving(i, Relay))
    BY DEF Silent
  <2> DEFINE loud == {c \in net : c.frame.msg.id = i /\ IsAnswer(c.frame.msg)}
  <2>1. /\ IsFiniteSet(LooseFrames(i)) /\ IsFiniteSet(LooseRuns(i)) /\ IsFiniteSet(call[i].got)
        /\ Cardinality(LooseFrames(i)) + Cardinality(LooseRuns(i)) + Cardinality(call[i].got)
              <= Cardinality(Serving(i, Relay))
    BY DEF BrokerInv, Hushed
  <2>2. loud \subseteq LooseFrames(i)
    BY DEF LooseFrames, IsAnswer
  <2> HIDE DEF loud
  <2>3. /\ Cardinality(loud) \in Nat /\ Cardinality(LooseFrames(i)) \in Nat
        /\ Cardinality(loud) <= Cardinality(LooseFrames(i))
    BY <2>1, <2>2, NotMore
  <2>4. Cardinality(LooseRuns(i)) \in Nat /\ Cardinality(call[i].got) \in Nat
    BY <2>1, FS_CardinalityType
  <2>5. Cardinality(Serving(i, Relay)) \in Nat
    BY ServingIs DEF BrokerInv
  <2>6. Cardinality(loud) + Cardinality(call[i].got) <= Cardinality(Serving(i, Relay))
    BY <2>1, <2>3, <2>4, <2>5
  <2>7. QED
    BY <2>6 DEF loud
<1>2. QED
  BY <1>1, Brokered, PTL

LEMMA TrackedAll == Spec => []Tracked
<1>1. Init => Tracked
  BY DEF Init, Tracked
<1>2. BrokerInv => Kept
  BY DEF BrokerInv, Kept
<1>3. BrokerInv /\ Tracked /\ [Next]_vars => Tracked'
  BY <1>2, TracedStep
<1>4. QED
  BY <1>1, <1>3, Brokered, PTL DEF Spec

\* Whatever exchanges, topics and relays there are: with one stack for all, nothing
\* is lost and nothing is handled twice, and a request from the last topic gets its
\* answer (exchange.go).
THEOREM Arrived == Spec => []Delivered
<1>1. BrokerInv /\ Tracked => Delivered
  BY AtTheEnd DEF Delivered
<1>2. QED
  BY <1>1, Brokered, TrackedAll, PTL

=============================================================================
