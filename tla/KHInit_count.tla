---------------------------- MODULE KHInit_count ----------------------------
(***************************************************************************)
(* Proof of CountConsistent of KHInit: the numParticlesGlobal that         *)
(* MPI_Allreduce gives every rank is the number of particles the ranks     *)
(* hold, before and after syncCoords, and it is the closed form            *)
(* 2 * kept(layer1) * |layer1 row| + |layer2|.                             *)
(*                                                                         *)
(* The count MPI_SUM adds up is a count of (rank, particle) pairs.  It is  *)
(* the number of particles only because no row group is held by two       *)
(* ranks at once (PartsDisjoint): before syncCoords each rank holds the    *)
(* rows of its own key segment, after it each row is held by its owner.    *)
(* Once every rank has reached the reduction, the rows held are those of   *)
(* every rank's layer1 and layer2 (FullParts), which syncCoords keeps.      *)
(***************************************************************************)
EXTENDS KHInit_proofs

\* The particles of a set of row groups.
Particles(S) == UNION { {<<g, p>> : p \in g.xs \X g.zs} : g \in S }

\* The row groups all ranks push for layer1, layer3 and layer2.
FullParts == UNION { Layer1Groups(r) \cup Layer2Groups(r) : r \in Ranks }

\* No row group is held by two ranks.
PartsDisjoint ==
    \A r1, r2 \in Ranks : r1 # r2 => parts[r1] \cap parts[r2] = {}

\* What rank r holds at each point of its program before the reduction.
StageInv ==
    \A r \in Ranks :
        /\ pc[r] = "layer1" => parts[r] = {}
        /\ pc[r] = "layer2" => parts[r] = Layer1Groups(r)
        /\ pc[r] = "reduce" => parts[r] = Layer1Groups(r) \cup Layer2Groups(r)

\* After the reduction: every rank is past it, the rows held are FullParts
\* and every rank's numParticlesGlobal is their number of particles.
ReducedInv ==
    (\E r \in Ranks : pc[r] \in {"sync", "fields", "done"}) =>
        /\ \A r \in Ranks : pc[r] \in {"sync", "fields", "done"}
        /\ AllParts = FullParts
        /\ \A r \in Ranks : numGlobal[r] = Cardinality(Particles(FullParts))

CountInv == IInv /\ PartsDisjoint /\ StageInv /\ ReducedInv
-----------------------------------------------------------------------------
(***************************************************************************)
(* Counting.                                                               *)
(***************************************************************************)
\* A function that is one-to-one and onto carries the count of its domain.
LEMMA CardBij ==
    ASSUME NEW S, NEW T, NEW F, IsFiniteSet(S), F \in [S -> T],
           \A t \in T : \E s \in S : F[s] = t,
           \A s1, s2 \in S : F[s1] = F[s2] => s1 = s2
    PROVE  IsFiniteSet(T) /\ Cardinality(T) = Cardinality(S)
<1>1. F \in Surjection(S, T)
  BY DEF Surjection
<1>2. F \in Injection(S, T)
  BY DEF Injection, IsInjective
<1>. QED BY <1>1, <1>2, FS_Surjection

\* assembleCuboid puts k * n lattice points along an axis.
LEMMA LatticeCard ==
    ASSUME multi \in Multis, off \in Offsets, NEW k \in Nat, NEW lo \in Int
    PROVE  Cardinality(Lattice(k, lo)) = k * N
<1>1. N \in Nat \ {0} /\ off \in {0, 1}
  <2>1. N \in Nat \ {0}
    BY NPositive
  <2>2. off \in {0, 1}
    BY KHAssumption
  <2>. QED BY <2>1, <2>2
<1> DEFINE S == 0..(k * N - 1)
           F == [j \in S |-> lo + 2 * j + off]
<1>6. k * N \in Nat /\ k * N - 1 \in Int
  BY <1>1
<1>7. \A b \in Int : IsFiniteSet(0..b) /\ Cardinality(0..b) = IF 0 > b THEN 0 ELSE b + 1
  <2> SUFFICES ASSUME NEW b \in Int
               PROVE  IsFiniteSet(0..b) /\ Cardinality(0..b) = IF 0 > b THEN 0 ELSE b + 1
    OBVIOUS
  <2>1. IsFiniteSet(0..b) /\ Cardinality(0..b) = IF 0 > b THEN 0 ELSE b - 0 + 1
    BY FS_Interval
  <2>. QED BY <2>1
<1>2. IsFiniteSet(S) /\ Cardinality(S) = k * N
  BY <1>6, <1>7
<1>3. F \in [S -> Lattice(k, lo)]
  BY DEF Lattice
<1>4. \A t \in Lattice(k, lo) : \E s \in S : F[s] = t
  BY DEF Lattice
<1>5. \A s1, s2 \in S : F[s1] = F[s2] => s1 = s2
  BY <1>1
<1> HIDE DEF S, F
<1>. QED BY <1>2, <1>3, <1>4, <1>5, CardBij

\* A set of pairs <<a, x>>, or <<x, a>>, with x in X has as many elements as X.
LEMMA PairCardL ==
    ASSUME NEW a, NEW X, IsFiniteSet(X), NEW P,
           \A p \in P : \E x \in X : p = <<a, x>>,
           \A x \in X : <<a, x>> \in P
    PROVE  IsFiniteSet(P) /\ Cardinality(P) = Cardinality(X)
<1> DEFINE F == [x \in X |-> <<a, x>>]
<1>1. F \in [X -> P] /\ \A p \in P : \E x \in X : F[x] = p
  OBVIOUS
<1>2. \A x1, x2 \in X : F[x1] = F[x2] => x1 = x2
  OBVIOUS
<1> HIDE DEF F
<1>. QED BY <1>1, <1>2, CardBij

LEMMA PairCardR ==
    ASSUME NEW a, NEW X, IsFiniteSet(X), NEW P,
           \A p \in P : \E x \in X : p = <<x, a>>,
           \A x \in X : <<x, a>> \in P
    PROVE  IsFiniteSet(P) /\ Cardinality(P) = Cardinality(X)
<1> DEFINE F == [x \in X |-> <<x, a>>]
<1>1. F \in [X -> P] /\ \A p \in P : \E x \in X : F[x] = p
  OBVIOUS
<1>2. \A x1, x2 \in X : F[x1] = F[x2] => x1 = x2
  OBVIOUS
<1> HIDE DEF F
<1>. QED BY <1>1, <1>2, CardBij

\* Rows R[y], y in Y, one per y, all with the points XS \X ZS: their
\* particles number |Y| * |XS| * |ZS|.
LEMMA RowsCount ==
    ASSUME NEW Y, NEW G, NEW XS, NEW ZS, NEW R,
           IsFiniteSet(Y), IsFiniteSet(XS), IsFiniteSet(ZS),
           R \in [Y -> G], \A g \in G : \E y \in Y : g = R[y],
           \A y1, y2 \in Y : R[y1] = R[y2] => y1 = y2,
           \A y \in Y : R[y].xs = XS /\ R[y].zs = ZS
    PROVE  /\ IsFiniteSet(Particles(G))
           /\ Cardinality(Particles(G)) = Cardinality(Y) * (Cardinality(XS) * Cardinality(ZS))
<1> DEFINE D == Y \X (XS \X ZS)
           F == [t \in D |-> <<R[t[1]], t[2]>>]
<1>1. /\ IsFiniteSet(XS \X ZS)
      /\ Cardinality(XS \X ZS) = Cardinality(XS) * Cardinality(ZS)
  BY FS_Product
<1>2. IsFiniteSet(D) /\ Cardinality(D) = Cardinality(Y) * Cardinality(XS \X ZS)
  BY <1>1, FS_Product
<1>3. F \in [D -> Particles(G)]
  BY DEF Particles
<1>4. \A q \in Particles(G) : \E t \in D : F[t] = q
  <2> SUFFICES ASSUME NEW q \in Particles(G) PROVE \E t \in D : F[t] = q
    OBVIOUS
  <2>1. PICK g \in G : \E p \in g.xs \X g.zs : q = <<g, p>>
    BY DEF Particles
  <2>2. PICK y \in Y : g = R[y]
    OBVIOUS
  <2>3. PICK p \in XS \X ZS : q = <<g, p>>
    BY <2>1, <2>2
  <2>4. <<y, p>> \in D /\ F[<<y, p>>] = q
    BY <2>2, <2>3
  <2>. QED BY <2>4
<1>5. \A t1, t2 \in D : F[t1] = F[t2] => t1 = t2
  OBVIOUS
<1> HIDE DEF D, F
<1>6. IsFiniteSet(Particles(G)) /\ Cardinality(Particles(G)) = Cardinality(D)
  <2>1. IsFiniteSet(D)
    BY <1>2
  <2>. QED BY <2>1, <1>3, <1>4, <1>5, CardBij, SMTT(30)
<1>. QED BY <1>1, <1>2, <1>6
-----------------------------------------------------------------------------
(***************************************************************************)
(* Before syncCoords, a row group belongs to the rank whose key segment    *)
(* generated its template row.                                             *)
(***************************************************************************)
\* The template lattice value of a group's row: y for layer1, the mirror
\* -y + topEdge undone for layer3, and the layer2 row.
TemplateY(g) == IF g.layer = 1 THEN g.y[2] ELSE IF g.layer = 3 THEN -g.y[2] ELSE g.y[1]

LEMMA GroupRank ==
    ASSUME multi \in Multis, off \in Offsets,
           NEW r, NEW g \in Layer1Groups(r) \cup Layer2Groups(r)
    PROVE  Generates(r, TemplateY(g))
<1>1. CASE g \in Layer1Groups(r)
  <2>1. PICK y \in {y \in Lattice(4, 0) : Generates(r, y) /\ SigmaGt(-y, -Top1)} :
          \/ g = [layer |-> 1, y |-> <<0, y>>,
                  xs |-> {<<0, x>> : x \in {x \in Lattice(16, 0) : SigmaGt(-x, -TopY)}},
                  zs |-> {<<0, z>> : z \in {z \in Lattice(1, 0) : SigmaGt(-z, -TopZ)}}]
          \/ g = [layer |-> 3, y |-> <<TopY, -y>>,
                  xs |-> {<<0, x>> : x \in {x \in Lattice(16, 0) : SigmaGt(-x, -TopY)}},
                  zs |-> {<<0, z>> : z \in {z \in Lattice(1, 0) : SigmaGt(-z, -TopZ)}}]
    BY <1>1 DEF Layer1Groups
  <2>2. y \in Int
    <3>1. Lattice(4, 0) \subseteq Int
      BY LatticeBound, NPositive
    <3>. QED BY <2>1, <3>1
  <2>. QED BY <2>1, <2>2 DEF TemplateY
<1>2. CASE g \in Layer2Groups(r)
  BY <1>2 DEF Layer2Groups, TemplateY
<1>. QED BY <1>1, <1>2

\* The groups two different ranks assemble are disjoint.
LEMMA GroupsDisjoint ==
    ASSUME multi \in Multis, off \in Offsets, NEW r1, NEW r2, r1 # r2
    PROVE  (Layer1Groups(r1) \cup Layer2Groups(r1)) \cap (Layer1Groups(r2) \cup Layer2Groups(r2)) = {}
<1> SUFFICES ASSUME NEW g \in Layer1Groups(r1) \cup Layer2Groups(r1),
                    g \in Layer1Groups(r2) \cup Layer2Groups(r2)
             PROVE  FALSE
  OBVIOUS
<1>1. Generates(r1, TemplateY(g)) /\ Generates(r2, TemplateY(g))
  BY GroupRank
<1>. QED BY <1>1 DEF Generates
-----------------------------------------------------------------------------
(***************************************************************************)
(* The rows of all ranks together: every template row is generated by      *)
(* exactly one rank, so FullParts is one layer1 row and its layer3 mirror  *)
(* per kept layer1 template row, and one layer2 row per layer2 template    *)
(* row.                                                                    *)
(***************************************************************************)
X1 == {x \in Lattice(16, 0) : SigmaGt(-x, -TopY)}
Z1 == {z \in Lattice(1, 0) : SigmaGt(-z, -TopZ)}
Row1(y) == [layer |-> 1, y |-> <<0, y>>, xs |-> {<<0, x>> : x \in X1}, zs |-> {<<0, z>> : z \in Z1}]
Row3(y) == [layer |-> 3, y |-> <<TopY, -y>>, xs |-> {<<0, x>> : x \in X1}, zs |-> {<<0, z>> : z \in Z1}]
Row2(y) == [layer |-> 2, y |-> <<y, 0>>,
            xs |-> {<<x, 0>> : x \in Lattice(16, 0)}, zs |-> {<<z, 0>> : z \in Lattice(1, 0)}]
G1 == {Row1(y) : y \in Kept1}
G3 == {Row3(y) : y \in Kept1}
G2 == {Row2(y) : y \in Lattice(8, Top1)}

\* Every template row of layer1 and layer2 lies in some rank's segment.
LEMMA TemplateRowRank ==
    ASSUME multi \in Multis, off \in Offsets,
           NEW y \in Lattice(4, 0) \cup Lattice(8, Top1)
    PROVE  SegmentOf(y \div 2) \in Ranks
<1>1. N \in Nat \ {0} /\ Top1 = 8 * N
  BY NPositive
<1>2. Lattice(4, 0) \subseteq 0..(0 + 2 * 4 * N - 1)
  BY <1>1, LatticeBound
<1>3. Lattice(8, Top1) \subseteq Top1..(Top1 + 2 * 8 * N - 1)
  BY <1>1, LatticeBound
<1>4. y \in 0..(24 * N - 1)
  BY <1>1, <1>2, <1>3
<1>5. y \div 2 \in 0..(16 * N - 1)
  BY <1>1, <1>4
<1>. QED BY <1>5, SegmentInRanks

LEMMA FullPartsSplit ==
    ASSUME multi \in Multis, off \in Offsets
    PROVE  FullParts = G1 \cup G3 \cup G2
<1>1. FullParts \subseteq G1 \cup G3 \cup G2
  <2> SUFFICES ASSUME NEW r \in Ranks, NEW g \in Layer1Groups(r) \cup Layer2Groups(r)
               PROVE  g \in G1 \cup G3 \cup G2
    BY DEF FullParts
  <2>1. CASE g \in Layer1Groups(r)
    <3>1. PICK y \in {y \in Lattice(4, 0) : Generates(r, y) /\ SigmaGt(-y, -Top1)} :
            g = Row1(y) \/ g = Row3(y)
      BY <2>1 DEF Layer1Groups, Row1, Row3, X1, Z1
    <3>2. y \in Kept1
      BY <3>1 DEF Kept1
    <3>. QED BY <3>1, <3>2 DEF G1, G3
  <2>2. CASE g \in Layer2Groups(r)
    BY <2>2 DEF Layer2Groups, Row2, G2
  <2>. QED BY <2>1, <2>2
<1>2. G1 \cup G3 \subseteq FullParts
  <2> SUFFICES ASSUME NEW y \in Kept1 PROVE Row1(y) \in FullParts /\ Row3(y) \in FullParts
    BY DEF G1, G3
  <2>1. SegmentOf(y \div 2) \in Ranks
    BY TemplateRowRank DEF Kept1
  <2> DEFINE rk == SegmentOf(y \div 2)
  <2>3. y \in {y2 \in Lattice(4, 0) : Generates(rk, y2) /\ SigmaGt(-y2, -Top1)}
    BY DEF Kept1, Generates
  <2>4. {Row1(y), Row3(y)} \in
          { {Row1(y2), Row3(y2)} : y2 \in {y2 \in Lattice(4, 0) : Generates(rk, y2) /\ SigmaGt(-y2, -Top1)} }
    BY <2>3, Zenon
  <2>5. Layer1Groups(rk) =
          UNION { {Row1(y2), Row3(y2)} : y2 \in {y2 \in Lattice(4, 0) : Generates(rk, y2) /\ SigmaGt(-y2, -Top1)} }
    BY DEF Layer1Groups, Row1, Row3, X1, Z1
  <2> HIDE DEF rk
  <2>2. Row1(y) \in Layer1Groups(rk) /\ Row3(y) \in Layer1Groups(rk)
    BY <2>4, <2>5
  <2>6. rk \in Ranks
    BY <2>1 DEF rk
  <2>. QED BY <2>6, <2>2 DEF FullParts
<1>3. G2 \subseteq FullParts
  <2> SUFFICES ASSUME NEW y \in Lattice(8, Top1) PROVE Row2(y) \in FullParts
    BY DEF G2
  <2>1. SegmentOf(y \div 2) \in Ranks
    BY TemplateRowRank
  <2>2. Row2(y) \in Layer2Groups(SegmentOf(y \div 2))
    BY DEF Layer2Groups, Generates, Row2
  <2>. QED BY <2>1, <2>2 DEF FullParts
<1>. QED BY <1>1, <1>2, <1>3

\* The particles of a union of row groups, and the layer they belong to.
LEMMA ParticlesUnion ==
    ASSUME NEW A, NEW B
    PROVE  Particles(A \cup B) = Particles(A) \cup Particles(B)
BY DEF Particles

LEMMA ParticlesLayer ==
    ASSUME NEW S, NEW q \in Particles(S)
    PROVE  q[1] \in S
BY DEF Particles

\* The number of particles of the rows of one layer.
LEMMA LayerCount ==
    ASSUME multi \in Multis, off \in Offsets
    PROVE  /\ IsFiniteSet(Particles(G1)) /\ IsFiniteSet(Particles(G3))
           /\ IsFiniteSet(Particles(G2))
           /\ Cardinality(Particles(G1)) = Cardinality(Kept1) * Layer1Size
           /\ Cardinality(Particles(G3)) = Cardinality(Kept1) * Layer1Size
           /\ Cardinality(Particles(G2)) = InnerSize
<1>1. N \in Nat \ {0} /\ Top1 \in Int /\ TopY \in Int
  BY NPositive
<1>2. /\ IsFiniteSet(Kept1) /\ IsFiniteSet(X1) /\ IsFiniteSet(Z1)
      /\ IsFiniteSet(Lattice(8, Top1)) /\ IsFiniteSet(Lattice(16, 0))
      /\ IsFiniteSet(Lattice(1, 0))
  <2>1. Kept1 \subseteq Lattice(4, 0) /\ X1 \subseteq Lattice(16, 0) /\ Z1 \subseteq Lattice(1, 0)
    BY DEF Kept1, X1, Z1
  <2>2. \A k \in Nat, lo \in Int : IsFiniteSet(Lattice(k, lo))
    BY LatticeFinite
  <2>3. \A k \in Nat, lo \in Int : \A X \in SUBSET Lattice(k, lo) : IsFiniteSet(X)
    BY <2>2, FS_Subset
  <2>. QED BY <1>1, <2>1, <2>2, <2>3
<1> DEFINE XS1 == {<<0, x>> : x \in X1}
           ZS1 == {<<0, z>> : z \in Z1}
           XS2 == {<<x, 0>> : x \in Lattice(16, 0)}
           ZS2 == {<<z, 0>> : z \in Lattice(1, 0)}
<1>3. /\ IsFiniteSet(XS1) /\ Cardinality(XS1) = Cardinality(X1)
      /\ IsFiniteSet(ZS1) /\ Cardinality(ZS1) = Cardinality(Z1)
      /\ IsFiniteSet(XS2) /\ Cardinality(XS2) = 16 * N
      /\ IsFiniteSet(ZS2) /\ Cardinality(ZS2) = 1 * N
  <2>1. IsFiniteSet(XS1) /\ Cardinality(XS1) = Cardinality(X1)
    <3>1. \A p \in XS1 : \E x \in X1 : p = <<0, x>>
      OBVIOUS
    <3>2. \A x \in X1 : <<0, x>> \in XS1
      OBVIOUS
    <3> HIDE DEF XS1
    <3>. QED BY <1>2, <3>1, <3>2, PairCardL
  <2>2. IsFiniteSet(ZS1) /\ Cardinality(ZS1) = Cardinality(Z1)
    <3>1. \A p \in ZS1 : \E x \in Z1 : p = <<0, x>>
      OBVIOUS
    <3>2. \A x \in Z1 : <<0, x>> \in ZS1
      OBVIOUS
    <3> HIDE DEF ZS1
    <3>. QED BY <1>2, <3>1, <3>2, PairCardL
  <2>3. IsFiniteSet(XS2) /\ Cardinality(XS2) = Cardinality(Lattice(16, 0))
    <3>1. \A p \in XS2 : \E x \in Lattice(16, 0) : p = <<x, 0>>
      OBVIOUS
    <3>2. \A x \in Lattice(16, 0) : <<x, 0>> \in XS2
      OBVIOUS
    <3> HIDE DEF XS2
    <3>. QED BY <1>2, <3>1, <3>2, PairCardR
  <2>4. IsFiniteSet(ZS2) /\ Cardinality(ZS2) = Cardinality(Lattice(1, 0))
    <3>1. \A p \in ZS2 : \E x \in Lattice(1, 0) : p = <<x, 0>>
      OBVIOUS
    <3>2. \A x \in Lattice(1, 0) : <<x, 0>> \in ZS2
      OBVIOUS
    <3> HIDE DEF ZS2
    <3>. QED BY <1>2, <3>1, <3>2, PairCardR
  <2>5. Cardinality(Lattice(16, 0)) = 16 * N /\ Cardinality(Lattice(1, 0)) = 1 * N
    BY LatticeCard
  <2>. QED BY <2>1, <2>2, <2>3, <2>4, <2>5
<1>4. IsFiniteSet(Particles(G1))
      /\ Cardinality(Particles(G1)) = Cardinality(Kept1) * (Cardinality(XS1) * Cardinality(ZS1))
  <2> DEFINE R == [y \in Kept1 |-> Row1(y)]
  <2>1. R \in [Kept1 -> G1] /\ \A g \in G1 : \E y \in Kept1 : g = R[y]
    BY DEF G1
  <2>2. \A y1, y2 \in Kept1 : R[y1] = R[y2] => y1 = y2
    BY DEF Row1
  <2>3. \A y \in Kept1 : R[y].xs = XS1 /\ R[y].zs = ZS1
    BY DEF Row1
  <2> HIDE DEF R, XS1, ZS1
  <2>. QED BY <1>2, <1>3, <2>1, <2>2, <2>3, RowsCount
<1>5. IsFiniteSet(Particles(G3))
      /\ Cardinality(Particles(G3)) = Cardinality(Kept1) * (Cardinality(XS1) * Cardinality(ZS1))
  <2> DEFINE R == [y \in Kept1 |-> Row3(y)]
  <2>1. R \in [Kept1 -> G3] /\ \A g \in G3 : \E y \in Kept1 : g = R[y]
    BY DEF G3
  <2>4. Kept1 \subseteq Int
    BY <1>1, LatticeBound DEF Kept1
  <2>2. \A y1, y2 \in Kept1 : R[y1] = R[y2] => y1 = y2
    BY <2>4 DEF Row3
  <2>3. \A y \in Kept1 : R[y].xs = XS1 /\ R[y].zs = ZS1
    BY DEF Row3
  <2> HIDE DEF R, XS1, ZS1
  <2>. QED BY <1>2, <1>3, <2>1, <2>2, <2>3, RowsCount
<1>6. IsFiniteSet(Particles(G2))
      /\ Cardinality(Particles(G2)) = Cardinality(Lattice(8, Top1)) * (Cardinality(XS2) * Cardinality(ZS2))
  <2> DEFINE R == [y \in Lattice(8, Top1) |-> Row2(y)]
  <2>1. R \in [Lattice(8, Top1) -> G2] /\ \A g \in G2 : \E y \in Lattice(8, Top1) : g = R[y]
    BY DEF G2
  <2>2. \A y1, y2 \in Lattice(8, Top1) : R[y1] = R[y2] => y1 = y2
    BY DEF Row2
  <2>3. \A y \in Lattice(8, Top1) : R[y].xs = XS2 /\ R[y].zs = ZS2
    BY DEF Row2
  <2> HIDE DEF R, XS2, ZS2
  <2>. QED BY <1>2, <1>3, <2>1, <2>2, <2>3, RowsCount
<1>7. Layer1Size = Cardinality(XS1) * Cardinality(ZS1)
  BY <1>3 DEF Layer1Size, X1, Z1
<1>8. InnerSize = Cardinality(Lattice(8, Top1)) * (Cardinality(XS2) * Cardinality(ZS2))
  <2>1. Cardinality(Lattice(8, Top1)) \in Nat
    BY <1>2, FS_CardinalityType
  <2>. QED BY <1>1, <1>3, <2>1 DEF InnerSize
<1> HIDE DEF XS1, ZS1, XS2, ZS2
<1>. QED BY <1>4, <1>5, <1>6, <1>7, <1>8

\* Two disjoint finite sets: the count of the union is the sum.
LEMMA DisjointUnionCard ==
    ASSUME NEW A, NEW B, IsFiniteSet(A), IsFiniteSet(B), A \cap B = {}
    PROVE  IsFiniteSet(A \cup B) /\ Cardinality(A \cup B) = Cardinality(A) + Cardinality(B)
<1>1. Cardinality(A \cap B) = 0
  BY FS_EmptySet
<1>2. Cardinality(A) \in Nat /\ Cardinality(B) \in Nat
  BY FS_CardinalityType
<1>3. IsFiniteSet(A \cup B)
      /\ Cardinality(A \cup B) = Cardinality(A) + Cardinality(B) - Cardinality(A \cap B)
  BY FS_Union
<1>. QED BY <1>1, <1>2, <1>3

\* The whole: 2 * kept(layer1) * |layer1 row| + |layer2| particles.
LEMMA FullCount ==
    ASSUME multi \in Multis, off \in Offsets
    PROVE  /\ IsFiniteSet(Particles(FullParts))
           /\ Cardinality(Particles(FullParts)) = 2 * Cardinality(Kept1) * Layer1Size + InnerSize
<1>1. Particles(FullParts) = (Particles(G1) \cup Particles(G3)) \cup Particles(G2)
  <2>1. FullParts = (G1 \cup G3) \cup G2
    BY FullPartsSplit
  <2>2. Particles((G1 \cup G3) \cup G2) = Particles(G1 \cup G3) \cup Particles(G2)
    BY ParticlesUnion
  <2>3. Particles(G1 \cup G3) = Particles(G1) \cup Particles(G3)
    BY ParticlesUnion
  <2>. QED BY <2>1, <2>2, <2>3
<1>2. G1 \cap G3 = {} /\ (G1 \cup G3) \cap G2 = {}
  BY DEF G1, G3, G2, Row1, Row3, Row2
<1>3. Particles(G1) \cap Particles(G3) = {}
  BY <1>2, ParticlesLayer
<1>4. (Particles(G1) \cup Particles(G3)) \cap Particles(G2) = {}
  BY <1>2, ParticlesLayer
<1>9. /\ IsFiniteSet(Particles(G1)) /\ IsFiniteSet(Particles(G3))
      /\ IsFiniteSet(Particles(G2))
      /\ Cardinality(Particles(G1)) = Cardinality(Kept1) * Layer1Size
      /\ Cardinality(Particles(G3)) = Cardinality(Kept1) * Layer1Size
      /\ Cardinality(Particles(G2)) = InnerSize
  BY LayerCount
<1>6. Cardinality(Kept1) \in Nat /\ Layer1Size \in Nat /\ InnerSize \in Nat
  <2>1. Cardinality(Particles(G1)) \in Nat /\ Cardinality(Particles(G2)) \in Nat
    BY <1>9, FS_CardinalityType
  <2>2. IsFiniteSet(Kept1) /\ IsFiniteSet(X1) /\ IsFiniteSet(Z1)
    <3>1. Kept1 \subseteq Lattice(4, 0) /\ X1 \subseteq Lattice(16, 0) /\ Z1 \subseteq Lattice(1, 0)
      BY DEF Kept1, X1, Z1
    <3>. QED BY <3>1, LatticeFinite, FS_Subset
  <2>3. Cardinality(Kept1) \in Nat /\ Cardinality(X1) \in Nat /\ Cardinality(Z1) \in Nat
    BY <2>2, FS_CardinalityType
  <2>. QED BY <1>9, <2>1, <2>3 DEF Layer1Size, X1, Z1
<1>5. IsFiniteSet(Particles(G1) \cup Particles(G3))
      /\ Cardinality(Particles(G1) \cup Particles(G3)) = 2 * (Cardinality(Kept1) * Layer1Size)
  <2>1. Cardinality(Particles(G1) \cup Particles(G3))
          = Cardinality(Particles(G1)) + Cardinality(Particles(G3))
    BY <1>3, <1>9, DisjointUnionCard
  <2>. QED BY <1>3, <1>9, <1>6, <2>1, DisjointUnionCard
<1>7. IsFiniteSet((Particles(G1) \cup Particles(G3)) \cup Particles(G2))
      /\ Cardinality((Particles(G1) \cup Particles(G3)) \cup Particles(G2))
           = Cardinality(Particles(G1) \cup Particles(G3)) + Cardinality(Particles(G2))
  BY <1>4, <1>5, <1>9, DisjointUnionCard
<1>. QED BY <1>1, <1>5, <1>6, <1>7, <1>9
-----------------------------------------------------------------------------
(***************************************************************************)
(* MPI_SUM over the ranks counts (rank, particle) pairs; with no row group *)
(* held twice, that is the number of particles.                            *)
(***************************************************************************)
LEMMA TaggedCount ==
    ASSUME FiniteInv, PartsDisjoint
    PROVE  IsFiniteSet(Particles(AllParts)) /\ TotalCount = Cardinality(Particles(AllParts))
<1> DEFINE T == UNION { {<<r, q>> : q \in LocalParticles(r)} : r \in Ranks }
           F == [t \in T |-> t[2]]
<1>1. IsFiniteSet(T)
  BY CountNat DEF FiniteInv
<1>2. F \in [T -> Particles(AllParts)]
  BY DEF LocalParticles, Particles, AllParts
<1>3. \A q \in Particles(AllParts) : \E t \in T : F[t] = q
  <2> SUFFICES ASSUME NEW q \in Particles(AllParts) PROVE \E t \in T : F[t] = q
    OBVIOUS
  <2>1. PICK g \in AllParts : \E p \in g.xs \X g.zs : q = <<g, p>>
    BY DEF Particles
  <2>2. PICK r \in Ranks : g \in parts[r]
    BY DEF AllParts
  <2>3. q \in LocalParticles(r)
    BY <2>1, <2>2 DEF LocalParticles
  <2>4. <<r, q>> \in T /\ F[<<r, q>>] = q
    BY <2>2, <2>3
  <2>. QED BY <2>4
<1>4. \A t1, t2 \in T : F[t1] = F[t2] => t1 = t2
  <2> SUFFICES ASSUME NEW t1 \in T, NEW t2 \in T, F[t1] = F[t2] PROVE t1 = t2
    OBVIOUS
  <2>1. PICK r1 \in Ranks : \E q \in LocalParticles(r1) : t1 = <<r1, q>>
    OBVIOUS
  <2>2. PICK r2 \in Ranks : \E q \in LocalParticles(r2) : t2 = <<r2, q>>
    OBVIOUS
  <2>3. t1[2] = t2[2] /\ t1[2][1] \in parts[r1] /\ t2[2][1] \in parts[r2]
    BY <2>1, <2>2 DEF LocalParticles
  <2>4. r1 = r2
    BY <2>3 DEF PartsDisjoint
  <2>. QED BY <2>1, <2>2, <2>4
<1> HIDE DEF T, F
<1>5. IsFiniteSet(Particles(AllParts)) /\ Cardinality(Particles(AllParts)) = Cardinality(T)
  BY <1>1, <1>2, <1>3, <1>4, CardBij
<1>. QED BY <1>5 DEF TotalCount, T
-----------------------------------------------------------------------------
(***************************************************************************)
(* Lemmas for the steps.                                                   *)
(***************************************************************************)
\* The rows a rank assembles depend only on multi1D and the template.
LEMMA GroupsConst ==
    ASSUME multi' = multi, off' = off
    PROVE  /\ \A q : Layer1Groups(q)' = Layer1Groups(q) /\ Layer2Groups(q)' = Layer2Groups(q)
           /\ FullParts' = FullParts
<1>1. \A q : Layer1Groups(q)' = Layer1Groups(q) /\ Layer2Groups(q)' = Layer2Groups(q)
  BY DEF Layer1Groups, Layer2Groups, Lattice, N, Top1, TopY, TopZ, Generates, SegmentOf
<1>. QED BY <1>1 DEF FullParts

\* Each rank holding only rows it generated: no row is held twice.
LEMMA OwnGroupsDisjoint ==
    ASSUME multi \in Multis, off \in Offsets, NEW P,
           \A q \in Ranks : P[q] \subseteq Layer1Groups(q) \cup Layer2Groups(q)
    PROVE  \A q1, q2 \in Ranks : q1 # q2 => P[q1] \cap P[q2] = {}
<1> SUFFICES ASSUME NEW q1 \in Ranks, NEW q2 \in Ranks, q1 # q2
             PROVE  P[q1] \cap P[q2] = {}
  OBVIOUS
<1>. QED BY GroupsDisjoint

\* While some rank has not reached the reduction, none has passed it, and
\* every rank holds only rows it generated.
LEMMA BeforeReduce ==
    ASSUME CountInv, NEW r \in Ranks, pc[r] \in {"layer1", "layer2", "reduce"}
    PROVE  /\ \A q \in Ranks : pc[q] \in {"layer1", "layer2", "reduce"}
           /\ \A q \in Ranks : parts[q] \subseteq Layer1Groups(q) \cup Layer2Groups(q)
<1>1. \A q \in Ranks : pc[q] \in {"layer1", "layer2", "reduce"}
  BY DEF CountInv, ReducedInv, IInv, TypeOK
<1>. QED BY <1>1 DEF CountInv, StageInv
-----------------------------------------------------------------------------
(***************************************************************************)
(* The steps preserve CountInv.                                            *)
(***************************************************************************)
LEMMA InitCountInv == Init => CountInv
<1> SUFFICES ASSUME Init PROVE CountInv
  OBVIOUS
<1>1. IInv
  BY InitIInv
<1>2. PartsDisjoint /\ StageInv /\ ReducedInv
  BY DEF Init, PartsDisjoint, StageInv, ReducedInv
<1>. QED BY <1>1, <1>2 DEF CountInv

\* assembleCuboid on layer1: rank r now holds its layer1 rows and their
\* mirrors, which no other rank generates.
LEMMA AssembleLayer1CountInv ==
    ASSUME CountInv, NEW r \in Ranks, AssembleLayer1(r)
    PROVE  CountInv'
<1>1. IInv'
  BY AssembleLayer1IInv DEF CountInv
<1>2. /\ pc[r] = "layer1"
      /\ parts' = [parts EXCEPT ![r] = Layer1Groups(r)]
      /\ pc' = [pc EXCEPT ![r] = "layer2"]
      /\ multi' = multi /\ off' = off
      /\ multi \in Multis /\ off \in Offsets
      /\ parts \in [Ranks -> SUBSET Group]
      /\ pc \in [Ranks -> {"layer1", "layer2", "reduce", "sync", "fields", "done"}]
  BY DEF AssembleLayer1, CountInv, IInv, TypeOK
<1>3. \A q \in Ranks : /\ pc[q] \in {"layer1", "layer2", "reduce"}
                      /\ parts[q] \subseteq Layer1Groups(q) \cup Layer2Groups(q)
  BY <1>2, BeforeReduce
<1>4. \A q : Layer1Groups(q)' = Layer1Groups(q) /\ Layer2Groups(q)' = Layer2Groups(q)
  BY <1>2, GroupsConst
<1>5. \A q \in Ranks : parts'[q] \subseteq Layer1Groups(q) \cup Layer2Groups(q)
  BY <1>2, <1>3
<1>6. PartsDisjoint'
  BY <1>2, <1>5, OwnGroupsDisjoint DEF PartsDisjoint
<1>7. StageInv'
  BY <1>2, <1>3, <1>4 DEF StageInv, CountInv
<1>8. ReducedInv'
  <2>1. \A q \in Ranks : pc'[q] \in {"layer1", "layer2", "reduce"}
    BY <1>2, <1>3
  <2>. QED BY <2>1 DEF ReducedInv
<1>. QED BY <1>1, <1>6, <1>7, <1>8 DEF CountInv

\* assembleCuboid on layer2: rank r adds its layer2 rows.
LEMMA AssembleLayer2CountInv ==
    ASSUME CountInv, NEW r \in Ranks, AssembleLayer2(r)
    PROVE  CountInv'
<1>1. IInv'
  BY AssembleLayer2IInv DEF CountInv
<1>2. /\ pc[r] = "layer2"
      /\ parts' = [parts EXCEPT ![r] = @ \cup Layer2Groups(r)]
      /\ pc' = [pc EXCEPT ![r] = "reduce"]
      /\ multi' = multi /\ off' = off
      /\ multi \in Multis /\ off \in Offsets
      /\ parts \in [Ranks -> SUBSET Group]
      /\ pc \in [Ranks -> {"layer1", "layer2", "reduce", "sync", "fields", "done"}]
  BY DEF AssembleLayer2, CountInv, IInv, TypeOK
<1>3. \A q \in Ranks : /\ pc[q] \in {"layer1", "layer2", "reduce"}
                      /\ parts[q] \subseteq Layer1Groups(q) \cup Layer2Groups(q)
  BY <1>2, BeforeReduce
<1>9. parts[r] = Layer1Groups(r)
  BY <1>2 DEF CountInv, StageInv
<1>4. \A q : Layer1Groups(q)' = Layer1Groups(q) /\ Layer2Groups(q)' = Layer2Groups(q)
  BY <1>2, GroupsConst
<1>5. \A q \in Ranks : parts'[q] \subseteq Layer1Groups(q) \cup Layer2Groups(q)
  BY <1>2, <1>3, <1>9
<1>6. PartsDisjoint'
  BY <1>2, <1>5, OwnGroupsDisjoint DEF PartsDisjoint
<1>7. StageInv'
  BY <1>2, <1>3, <1>4, <1>9 DEF StageInv, CountInv
<1>8. ReducedInv'
  <2>1. \A q \in Ranks : pc'[q] \in {"layer1", "layer2", "reduce"}
    BY <1>2, <1>3
  <2>. QED BY <2>1 DEF ReducedInv
<1>. QED BY <1>1, <1>6, <1>7, <1>8 DEF CountInv

\* MPI_Allreduce: every rank holds its own rows, which are all of
\* FullParts, and receives their number.
LEMMA AllreduceCountInv ==
    ASSUME CountInv, Allreduce
    PROVE  CountInv'
<1>1. IInv'
  BY AllreduceIInv DEF CountInv
<1>2. /\ \A q \in Ranks : pc[q] = "reduce"
      /\ numGlobal' = [q \in Ranks |-> TotalCount]
      /\ pc' = [q \in Ranks |-> "sync"]
      /\ parts' = parts /\ multi' = multi /\ off' = off
      /\ multi \in Multis /\ off \in Offsets
  BY DEF Allreduce, CountInv, IInv, TypeOK
<1>3. AllParts = FullParts
  <2>1. \A q \in Ranks : parts[q] = Layer1Groups(q) \cup Layer2Groups(q)
    BY <1>2 DEF CountInv, StageInv
  <2>. QED BY <2>1 DEF AllParts, FullParts
<1>4. TotalCount = Cardinality(Particles(FullParts))
  BY <1>3, TaggedCount DEF CountInv, IInv
<1>5. PartsDisjoint'
  BY <1>2 DEF CountInv, PartsDisjoint
<1>6. StageInv'
  BY <1>2 DEF StageInv
<1>7. ReducedInv'
  <2>1. AllParts' = AllParts /\ FullParts' = FullParts
    BY <1>2, GroupsConst DEF AllParts
  <2>. QED BY <1>2, <1>3, <1>4, <2>1 DEF ReducedInv
<1>. QED BY <1>1, <1>5, <1>6, <1>7 DEF CountInv

\* syncCoords hands each row to its owner: no row is held twice, and none
\* is lost (SyncCoordsKeeps).
LEMMA SyncCoordsCountInv ==
    ASSUME CountInv, SyncCoords
    PROVE  CountInv'
<1>1. IInv'
  BY SyncCoordsIInv DEF CountInv
<1>2. /\ \A q \in Ranks : pc[q] = "sync"
      /\ parts' = [q \in Ranks |-> {g \in AllParts : Owner(g.y) = q}]
      /\ pc' = [q \in Ranks |-> "fields"]
      /\ numGlobal' = numGlobal /\ multi' = multi /\ off' = off
  BY DEF SyncCoords
<1>3. AllParts' = AllParts
  BY SyncCoordsKeeps DEF CountInv
<1>8. 0 \in Ranks /\ pc[0] = "sync"
  BY <1>2, KHAssumption DEF Ranks
<1>4. AllParts = FullParts /\ \A q \in Ranks : numGlobal[q] = Cardinality(Particles(FullParts))
  BY <1>8 DEF CountInv, ReducedInv
<1>5. PartsDisjoint'
  BY <1>2 DEF PartsDisjoint
<1>6. StageInv'
  BY <1>2 DEF StageInv
<1>7. ReducedInv'
  <2>1. FullParts' = FullParts
    BY <1>2, GroupsConst
  <2>. QED BY <1>2, <1>3, <1>4, <2>1 DEF ReducedInv
<1>. QED BY <1>1, <1>5, <1>6, <1>7 DEF CountInv

\* initKelvinHelmholtzFields changes neither the rows nor the count.
LEMMA InitFieldsCountInv ==
    ASSUME CountInv, NEW r \in Ranks, InitFields(r)
    PROVE  CountInv'
<1>1. IInv'
  BY InitFieldsIInv DEF CountInv
<1>2. /\ pc[r] = "fields"
      /\ pc' = [pc EXCEPT ![r] = "done"]
      /\ parts' = parts /\ numGlobal' = numGlobal /\ multi' = multi /\ off' = off
      /\ pc \in [Ranks -> {"layer1", "layer2", "reduce", "sync", "fields", "done"}]
  BY DEF InitFields, CountInv, IInv, TypeOK
<1>3. /\ \A q \in Ranks : pc[q] \in {"sync", "fields", "done"}
      /\ AllParts = FullParts
      /\ \A q \in Ranks : numGlobal[q] = Cardinality(Particles(FullParts))
  BY <1>2 DEF CountInv, ReducedInv
<1>4. AllParts' = AllParts /\ FullParts' = FullParts
  BY <1>2, GroupsConst DEF AllParts
<1>5. PartsDisjoint'
  BY <1>2 DEF CountInv, PartsDisjoint
<1>6. StageInv'
  BY <1>2, <1>3 DEF StageInv
<1>7. ReducedInv'
  BY <1>2, <1>3, <1>4 DEF ReducedInv
<1>. QED BY <1>1, <1>5, <1>6, <1>7 DEF CountInv

LEMMA StutterCountInv ==
    ASSUME CountInv, UNCHANGED vars
    PROVE  CountInv'
<1>1. IInv'
  BY StutterIInv DEF CountInv
<1>2. UNCHANGED <<multi, off, pc, parts, numGlobal>>
  BY DEF vars
<1>3. \A q : Layer1Groups(q)' = Layer1Groups(q) /\ Layer2Groups(q)' = Layer2Groups(q)
  BY <1>2, GroupsConst
<1>4. FullParts' = FullParts /\ AllParts' = AllParts
  BY <1>2, GroupsConst DEF AllParts
<1>5. PartsDisjoint' /\ StageInv' /\ ReducedInv'
  BY <1>2, <1>3, <1>4 DEF CountInv, PartsDisjoint, StageInv, ReducedInv
<1>. QED BY <1>1, <1>5 DEF CountInv

LEMMA NextCountInv == CountInv /\ [Next]_vars => CountInv'
<1> SUFFICES ASSUME CountInv, [Next]_vars PROVE CountInv'
  OBVIOUS
<1>1. CASE \E r \in Ranks : AssembleLayer1(r) \/ AssembleLayer2(r) \/ InitFields(r)
  BY <1>1, AssembleLayer1CountInv, AssembleLayer2CountInv, InitFieldsCountInv
<1>2. CASE Allreduce
  BY <1>2, AllreduceCountInv
<1>3. CASE SyncCoords
  BY <1>3, SyncCoordsCountInv
<1>4. CASE UNCHANGED vars
  BY <1>4, StutterCountInv
<1>. QED BY <1>1, <1>2, <1>3, <1>4 DEF Next

\* CountInv gives CountConsistent: the count a rank received is the number
\* of particles held, and the closed form.
LEMMA CountInvConsistent == CountInv => CountConsistent
<1> SUFFICES ASSUME CountInv, NEW r \in Ranks, pc[r] \in {"sync", "fields", "done"}
             PROVE  /\ numGlobal[r] = TotalCount
                    /\ numGlobal[r] = 2 * Cardinality(Kept1) * Layer1Size + InnerSize
  BY DEF CountConsistent
<1>1. AllParts = FullParts /\ numGlobal[r] = Cardinality(Particles(FullParts))
  BY DEF CountInv, ReducedInv
<1>2. TotalCount = Cardinality(Particles(AllParts))
  BY TaggedCount DEF CountInv, IInv
<1>3. Cardinality(Particles(FullParts)) = 2 * Cardinality(Kept1) * Layer1Size + InnerSize
  BY FullCount DEF CountInv, IInv, TypeOK
<1>. QED BY <1>1, <1>2, <1>3

\* CountInv, the strengthening of the type invariant by the disjointness of
\* the ranks' rows, the stage each rank is in and what the reduction fixed,
\* holds in every reachable state of the initialisation.
THEOREM CountInvInvariant == Spec => []CountInv
BY InitCountInv, NextCountInv, PTL DEF Spec

(***************************************************************************)
(* CountConsistent, checked by the run kh_init, holds for every number of  *)
(* ranks, multi1D, template block size and lattice offset: after           *)
(* MPI_Allreduce, and across syncCoords, every rank's numParticlesGlobal   *)
(* is the number of particles the ranks hold and equals                    *)
(* 2 * kept(layer1) * |layer1 row| + |layer2|.                             *)
(***************************************************************************)
THEOREM CountCorrect == Spec => []CountConsistent
BY CountInvInvariant, CountInvConsistent, PTL
=============================================================================
