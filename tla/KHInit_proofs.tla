---------------------------- MODULE KHInit_proofs ----------------------------
(***************************************************************************)
(* Proof that TypeOK of KHInit (KelvinHelmholtzGlass::init) holds in every *)
(* reachable state, for every number of ranks, every multi1D, every        *)
(* template block size and either lattice offset.  Its substance is the    *)
(* box conjunct: each particle lies in 0 <= y <= 1, whatever the stretch   *)
(* by cbrt(2) and the mirror -y + topEdge do; the comparisons with cbrt(2) *)
(* are exact integer inequalities on cubes.                                *)
(*                                                                         *)
(* TypeOK is not inductive alone, for two reasons.  The particle count     *)
(* MPI_Allreduce computes is a natural number only if every rank holds     *)
(* finitely many particles (FiniteInv).  And assembling layer1 overwrites  *)
(* parts[r], and syncCoords moves particles between ranks, which keeps     *)
(* region[r] within parts[r] only because no rank has set its fields yet   *)
(* (FieldsLast).                                                           *)
(***************************************************************************)
EXTENDS KHInit, FiniteSetTheorems, WellFoundedInduction, TLAPS

USE KHAssumption

\* Every rank holds finitely many row groups, each of finitely many points.
FiniteInv ==
    \A r \in Ranks :
        /\ IsFiniteSet(parts[r])
        /\ \A g \in parts[r] : IsFiniteSet(g.xs) /\ IsFiniteSet(g.zs)

\* region[r] is set only by the last step of a rank.
FieldsLast == \A r \in Ranks : pc[r] # "done" => region[r] = {}

IInv == TypeOK /\ FiniteInv /\ FieldsLast

-----------------------------------------------------------------------------
(***************************************************************************)
(* Arithmetic of the lattice.                                              *)
(***************************************************************************)
LEMMA NPositive ==
    ASSUME multi \in Multis
    PROVE  /\ N \in Nat \ {0}
           /\ Top1 = 8 * N /\ Top2 = 24 * N /\ TopY = 32 * N /\ TopZ = 2 * N
BY DEF N, Top1, Top2, TopY, TopZ

\* Lattice(k, lo) lies in the interval lo .. lo + 2 k n - 1.
LEMMA LatticeBound ==
    ASSUME multi \in Multis, off \in Offsets, NEW k \in Nat, NEW lo \in Int
    PROVE  Lattice(k, lo) \subseteq lo..(lo + 2 * k * N - 1)
<1>1. N \in Nat \ {0}
  BY NPositive
<1>2. off \in {0, 1}
  OBVIOUS
<1>. QED BY <1>1, <1>2 DEF Lattice

LEMMA LatticeFinite ==
    ASSUME multi \in Multis, off \in Offsets, NEW k \in Nat, NEW lo \in Int
    PROVE  IsFiniteSet(Lattice(k, lo))
<1>1. N \in Nat
  BY NPositive
<1>2. IsFiniteSet(lo..(lo + 2 * k * N - 1))
  BY <1>1, FS_Interval
<1>. QED BY <1>2, LatticeBound, FS_Subset

(***************************************************************************)
(* A kept layer1 point y (y * cbrt(2) < 0.25) and its layer3 mirror       *)
(* 1 - y * cbrt(2) both lie in the box: 2 y^3 < Top1^3 <= TopY^3.          *)
(***************************************************************************)
LEMMA Layer1Point ==
    ASSUME multi \in Multis, off \in Offsets,
           NEW y \in Lattice(4, 0), SigmaGt(-y, -Top1)
    PROVE  /\ ~Below(<<0, y>>, 0) /\ ~Above(<<0, y>>, TopY)
           /\ ~Below(<<TopY, -y>>, 0) /\ ~Above(<<TopY, -y>>, TopY)
<1>1. N \in Nat \ {0} /\ Top1 = 8 * N /\ TopY = 32 * N
  BY NPositive
<1>2. y \in Nat
  BY <1>1, LatticeBound
<1>3. 2 * y * y * y < Top1 * Top1 * Top1
  BY <1>1, <1>2 DEF SigmaGt
<1>4. Top1 * Top1 * Top1 <= TopY * TopY * TopY
  BY <1>1
<1>5. y * y * y >= 0
  BY <1>2
<1>. QED BY <1>1, <1>2, <1>3, <1>4, <1>5 DEF Below, Above, SigmaGt

(***************************************************************************)
(* A layer2 point lies in 0.25 <= y < 0.75, inside the box.                *)
(***************************************************************************)
LEMMA Layer2Point ==
    ASSUME multi \in Multis, off \in Offsets, NEW y \in Lattice(8, Top1)
    PROVE  ~Below(<<y, 0>>, 0) /\ ~Above(<<y, 0>>, TopY)
<1>1. N \in Nat \ {0} /\ Top1 = 8 * N /\ TopY = 32 * N
  BY NPositive
<1>2. y \in Top1..(Top1 + 16 * N - 1)
  BY <1>1, LatticeBound
<1>3. y \in Nat /\ TopY - y \in Nat
  BY <1>1, <1>2
<1>4. y * y * y >= 0 /\ (TopY - y) * (TopY - y) * (TopY - y) >= 0
  BY <1>3
<1>. QED BY <1>3, <1>4 DEF Below, Above, SigmaGt
\* A set of points <<a, x>> or <<x, a>>, x in a finite set of integers.
LEMMA PairsFinite ==
    ASSUME NEW a \in Int, NEW X \in SUBSET Int, IsFiniteSet(X),
           NEW P, P \subseteq ({a} \X X) \cup (X \X {a})
    PROVE  P \subseteq Coord /\ IsFiniteSet(P)
<1>1. IsFiniteSet({a} \X X) /\ IsFiniteSet(X \X {a})
  BY FS_Singleton, FS_Product
<1>2. IsFiniteSet(({a} \X X) \cup (X \X {a}))
  BY <1>1, FS_Union
<1>. QED BY <1>2, FS_Subset DEF Coord

\* A subset of a lattice is a finite set of integers.
LEMMA LatticeSubset ==
    ASSUME multi \in Multis, off \in Offsets, NEW k \in Nat, NEW lo \in Int,
           NEW X \in SUBSET Lattice(k, lo)
    PROVE  X \in SUBSET Int /\ IsFiniteSet(X)
<1>1. Lattice(k, lo) \subseteq Int
  BY LatticeBound, NPositive
<1>. QED BY <1>1, LatticeFinite, FS_Subset

-----------------------------------------------------------------------------
(***************************************************************************)
(* The row groups rank r pushes for layer1 and its layer3 mirror: finitely *)
(* many, each a finite row inside the box.                                 *)
(***************************************************************************)
LEMMA Layer1GroupsOK ==
    ASSUME multi \in Multis, off \in Offsets, NEW r
    PROVE  /\ Layer1Groups(r) \subseteq Group
           /\ IsFiniteSet(Layer1Groups(r))
           /\ \A g \in Layer1Groups(r) :
                 /\ ~Below(g.y, 0) /\ ~Above(g.y, TopY)
                 /\ IsFiniteSet(g.xs) /\ IsFiniteSet(g.zs)
<1> DEFINE X == {x \in Lattice(16, 0) : SigmaGt(-x, -TopY)}
           Z == {z \in Lattice(1, 0) : SigmaGt(-z, -TopZ)}
           Y == {y \in Lattice(4, 0) : Generates(r, y) /\ SigmaGt(-y, -Top1)}
           XS == {<<0, x>> : x \in X}
           ZS == {<<0, z>> : z \in Z}
           G1(y) == [layer |-> 1, y |-> <<0, y>>, xs |-> XS, zs |-> ZS]
           G3(y) == [layer |-> 3, y |-> <<TopY, -y>>, xs |-> XS, zs |-> ZS]
<1>1. Layer1Groups(r) = {G1(y) : y \in Y} \cup {G3(y) : y \in Y}
  BY DEF Layer1Groups
<1>2. /\ X \in SUBSET Int /\ IsFiniteSet(X)
      /\ Z \in SUBSET Int /\ IsFiniteSet(Z)
      /\ Y \in SUBSET Int /\ IsFiniteSet(Y)
  BY LatticeSubset
<1>3. /\ XS \subseteq Coord /\ IsFiniteSet(XS)
      /\ ZS \subseteq Coord /\ IsFiniteSet(ZS)
  <2>1. XS \subseteq ({0} \X X) \cup (X \X {0}) /\ ZS \subseteq ({0} \X Z) \cup (Z \X {0})
    OBVIOUS
  <2>2. 0 \in Int
    OBVIOUS
  <2> HIDE DEF X, Z, XS, ZS
  <2>3. XS \subseteq Coord /\ IsFiniteSet(XS)
    BY <1>2, <2>1, <2>2, PairsFinite, Zenon
  <2>4. ZS \subseteq Coord /\ IsFiniteSet(ZS)
    BY <1>2, <2>1, <2>2, PairsFinite, Zenon
  <2>. QED BY <2>3, <2>4
<1>4. TopY \in Int
  BY NPositive
<1>5. \A y \in Y : G1(y) \in Group /\ G3(y) \in Group
  BY <1>2, <1>3, <1>4 DEF Group, Coord
<1>6. IsFiniteSet({G1(y) : y \in Y}) /\ IsFiniteSet({G3(y) : y \in Y})
  <2> DEFINE F1 == [y \in Y |-> G1(y)]
             F3 == [y \in Y |-> G3(y)]
             I1 == {G1(y) : y \in Y}
             I3 == {G3(y) : y \in Y}
  <2>1. /\ F1 \in [Y -> I1] /\ \A z \in I1 : \E y \in Y : F1[y] = z
        /\ F3 \in [Y -> I3] /\ \A z \in I3 : \E y \in Y : F3[y] = z
    OBVIOUS
  <2> HIDE DEF G1, G3, Y, F1, F3, I1, I3
  <2>2. IsFiniteSet(Y)
    BY <1>2
  <2>3. IsFiniteSet(I1)
    <3>1. F1 \in Surjection(Y, I1)
      BY <2>1 DEF Surjection
    <3>. QED BY <3>1, <2>2, FS_Surjection
  <2>4. IsFiniteSet(I3)
    <3>1. F3 \in Surjection(Y, I3)
      BY <2>1 DEF Surjection
    <3>. QED BY <3>1, <2>2, FS_Surjection
  <2>. QED BY <2>3, <2>4 DEF I1, I3
<1>7. ASSUME NEW y \in Y
      PROVE  /\ ~Below(G1(y).y, 0) /\ ~Above(G1(y).y, TopY)
             /\ ~Below(G3(y).y, 0) /\ ~Above(G3(y).y, TopY)
  <2>1. y \in Lattice(4, 0) /\ SigmaGt(-y, -Top1)
    OBVIOUS
  <2>2. /\ ~Below(<<0, y>>, 0) /\ ~Above(<<0, y>>, TopY)
        /\ ~Below(<<TopY, -y>>, 0) /\ ~Above(<<TopY, -y>>, TopY)
    BY <2>1, Layer1Point
  <2>. QED BY <2>2
<1> HIDE DEF G1, G3, Y
<1>8. IsFiniteSet({G1(y) : y \in Y} \cup {G3(y) : y \in Y})
  BY <1>6, FS_Union
<1>9. \A g \in Layer1Groups(r) : g.xs = XS /\ g.zs = ZS
  BY <1>1 DEF G1, G3
<1>10. \A g \in Layer1Groups(r) : \E y \in Y : g = G1(y) \/ g = G3(y)
  BY <1>1
<1>. QED BY <1>1, <1>3, <1>5, <1>7, <1>8, <1>9, <1>10
(***************************************************************************)
(* The row groups rank r adds for layer2: finitely many, each a finite    *)
(* row inside the box.                                                     *)
(***************************************************************************)
LEMMA Layer2GroupsOK ==
    ASSUME multi \in Multis, off \in Offsets, NEW r
    PROVE  /\ Layer2Groups(r) \subseteq Group
           /\ IsFiniteSet(Layer2Groups(r))
           /\ \A g \in Layer2Groups(r) :
                 /\ ~Below(g.y, 0) /\ ~Above(g.y, TopY)
                 /\ IsFiniteSet(g.xs) /\ IsFiniteSet(g.zs)
<1> DEFINE X == Lattice(16, 0)
           Z == Lattice(1, 0)
           Y == {y \in Lattice(8, Top1) : Generates(r, y)}
           XS == {<<x, 0>> : x \in X}
           ZS == {<<z, 0>> : z \in Z}
           G2(y) == [layer |-> 2, y |-> <<y, 0>>, xs |-> XS, zs |-> ZS]
           F2 == [y \in Y |-> G2(y)]
<1>1. Layer2Groups(r) = {G2(y) : y \in Y}
  BY Zenon DEF Layer2Groups
<1>2. Top1 \in Int
  BY NPositive
<1>3. /\ X \in SUBSET Int /\ IsFiniteSet(X)
      /\ Z \in SUBSET Int /\ IsFiniteSet(Z)
      /\ Y \in SUBSET Int /\ IsFiniteSet(Y)
  <2>1. X \in SUBSET Int /\ IsFiniteSet(X)
    BY LatticeSubset
  <2>2. Z \in SUBSET Int /\ IsFiniteSet(Z)
    BY LatticeSubset
  <2>3. Y \in SUBSET Int /\ IsFiniteSet(Y)
    <3>1. Y \in SUBSET Lattice(8, Top1)
      OBVIOUS
    <3> HIDE DEF Y
    <3>. QED BY <1>2, <3>1, LatticeSubset
  <2>. QED BY <2>1, <2>2, <2>3
<1>4. /\ XS \subseteq Coord /\ IsFiniteSet(XS)
      /\ ZS \subseteq Coord /\ IsFiniteSet(ZS)
  <2>1. XS \subseteq ({0} \X X) \cup (X \X {0}) /\ ZS \subseteq ({0} \X Z) \cup (Z \X {0})
    OBVIOUS
  <2>2. 0 \in Int
    OBVIOUS
  <2> HIDE DEF X, Z, XS, ZS
  <2>3. XS \subseteq Coord /\ IsFiniteSet(XS)
    BY <1>3, <2>1, <2>2, PairsFinite, Zenon
  <2>4. ZS \subseteq Coord /\ IsFiniteSet(ZS)
    BY <1>3, <2>1, <2>2, PairsFinite, Zenon
  <2>. QED BY <2>3, <2>4
<1>5. \A y \in Y : G2(y) \in Group
  BY <1>3, <1>4 DEF Group, Coord
<1>6. IsFiniteSet({G2(y) : y \in Y})
  <2>1. F2 \in Surjection(Y, {G2(y) : y \in Y})
    BY DEF Surjection
  <2> HIDE DEF F2, Y, G2
  <2>. QED BY <1>3, <2>1, FS_Surjection
<1>7. ASSUME NEW y \in Y
      PROVE  ~Below(G2(y).y, 0) /\ ~Above(G2(y).y, TopY)
  <2>1. y \in Lattice(8, Top1)
    OBVIOUS
  <2>2. ~Below(<<y, 0>>, 0) /\ ~Above(<<y, 0>>, TopY)
    BY <2>1, Layer2Point
  <2>. QED BY <2>2
<1> HIDE DEF G2, Y
<1>8. \A g \in Layer2Groups(r) : g.xs = XS /\ g.zs = ZS
  BY <1>1 DEF G2
<1>9. \A g \in Layer2Groups(r) : ~Below(g.y, 0) /\ ~Above(g.y, TopY)
  <2> SUFFICES ASSUME NEW g \in Layer2Groups(r) PROVE ~Below(g.y, 0) /\ ~Above(g.y, TopY)
    OBVIOUS
  <2>1. PICK y \in Y : g = G2(y)
    BY <1>1
  <2>. QED BY <2>1, <1>7
<1>10. Layer2Groups(r) \subseteq Group /\ IsFiniteSet(Layer2Groups(r))
  BY <1>1, <1>5, <1>6
<1>. QED BY <1>4, <1>8, <1>9, <1>10
\* The particles of a rank with finitely many finite row groups are finitely many.
LEMMA LocalFinite ==
    ASSUME NEW r, IsFiniteSet(parts[r]),
           \A g \in parts[r] : IsFiniteSet(g.xs) /\ IsFiniteSet(g.zs)
    PROVE  IsFiniteSet(LocalParticles(r))
<1> DEFINE E(g) == {<<g, p>> : p \in g.xs \X g.zs}
           Es == {E(g) : g \in parts[r]}
           F == [g \in parts[r] |-> E(g)]
<1>1. LocalParticles(r) = UNION Es
  BY DEF LocalParticles
<1>2. \A g \in parts[r] : IsFiniteSet(E(g))
  <2> SUFFICES ASSUME NEW g \in parts[r] PROVE IsFiniteSet(E(g))
    OBVIOUS
  <2>1. IsFiniteSet(g.xs \X g.zs)
    BY FS_Product
  <2>2. IsFiniteSet({g} \X (g.xs \X g.zs))
    BY <2>1, FS_Singleton, FS_Product
  <2>3. E(g) \subseteq {g} \X (g.xs \X g.zs)
    OBVIOUS
  <2> HIDE DEF E
  <2>. QED BY <2>2, <2>3, FS_Subset
<1>3. IsFiniteSet(Es)
  <2>1. F \in Surjection(parts[r], Es)
    <3> HIDE DEF E
    <3>. QED BY DEF Surjection
  <2> HIDE DEF F, Es
  <2>. QED BY <2>1, FS_Surjection
<1> HIDE DEF E
<1>. QED BY <1>1, <1>2, <1>3, FS_UNION

(***************************************************************************)
(* The count MPI_Allreduce sums is a natural number: every rank holds      *)
(* finitely many particles.                                                *)
(***************************************************************************)
LEMMA CountNat ==
    ASSUME \A r \in Ranks : /\ IsFiniteSet(parts[r])
                            /\ \A g \in parts[r] : IsFiniteSet(g.xs) /\ IsFiniteSet(g.zs)
    PROVE  /\ IsFiniteSet(UNION { {<<r, q>> : q \in LocalParticles(r)} : r \in Ranks })
           /\ TotalCount \in Nat
<1> DEFINE R(r) == {<<r, q>> : q \in LocalParticles(r)}
           Rs == {R(r) : r \in Ranks}
           F == [r \in Ranks |-> R(r)]
<1>1. \A r \in Ranks : IsFiniteSet(R(r))
  <2> SUFFICES ASSUME NEW r \in Ranks PROVE IsFiniteSet(R(r))
    OBVIOUS
  <2>1. IsFiniteSet(LocalParticles(r))
    BY LocalFinite
  <2>2. IsFiniteSet({r} \X LocalParticles(r))
    BY <2>1, FS_Singleton, FS_Product
  <2>3. R(r) \subseteq {r} \X LocalParticles(r)
    OBVIOUS
  <2> HIDE DEF R
  <2>. QED BY <2>2, <2>3, FS_Subset
<1>2. IsFiniteSet(Rs)
  <2>1. IsFiniteSet(Ranks)
    BY FS_Interval DEF Ranks
  <2>2. F \in Surjection(Ranks, Rs)
    <3> HIDE DEF R
    <3>. QED BY DEF Surjection
  <2> HIDE DEF F, Rs
  <2>. QED BY <2>1, <2>2, FS_Surjection
<1>3. IsFiniteSet(UNION Rs)
  <2> HIDE DEF R
  <2>. QED BY <1>1, <1>2, FS_UNION
<1> HIDE DEF R
<1>. QED BY <1>3, FS_CardinalityType DEF TotalCount, Rs, R
-----------------------------------------------------------------------------
(***************************************************************************)
(* The steps preserve IInv.                                                *)
(***************************************************************************)
LEMMA InitIInv == Init => IInv
<1> SUFFICES ASSUME Init PROVE IInv
  OBVIOUS
<1>1. AllParts = {}
  BY DEF Init, AllParts
<1>2. TypeOK
  BY <1>1 DEF Init, TypeOK
<1>3. FiniteInv
  BY FS_EmptySet DEF Init, FiniteInv
<1>4. FieldsLast
  BY DEF Init, FieldsLast
<1>. QED BY <1>2, <1>3, <1>4 DEF IInv

\* AssembleLayer1(r) replaces parts[r] by the layer1 and layer3 row groups.
LEMMA AssembleLayer1IInv ==
    ASSUME IInv, NEW r \in Ranks, AssembleLayer1(r)
    PROVE  IInv'
<1> DEFINE L == Layer1Groups(r)
<1>1. /\ multi \in Multis /\ off \in Offsets
      /\ parts \in [Ranks -> SUBSET Group]
      /\ region \in [Ranks -> SUBSET [g : Group, h : {"int", "ext"}]]
      /\ region[r] = {}
  BY DEF IInv, TypeOK, FieldsLast, AssembleLayer1
<1>2. /\ L \subseteq Group /\ IsFiniteSet(L)
      /\ \A g \in L : /\ ~Below(g.y, 0) /\ ~Above(g.y, TopY)
                      /\ IsFiniteSet(g.xs) /\ IsFiniteSet(g.zs)
  BY <1>1, Layer1GroupsOK
<1>3. /\ parts' = [parts EXCEPT ![r] = L]
      /\ UNCHANGED <<multi, off, numGlobal, npartInner, region>>
      /\ pc' = [pc EXCEPT ![r] = "layer2"]
  BY DEF AssembleLayer1
<1> HIDE DEF L
<1>4. \A r2 \in Ranks : parts'[r2] = IF r2 = r THEN L ELSE parts[r2]
  BY <1>1, <1>3
<1>5. TopY' = TopY
  BY <1>3 DEF TopY, N
<1>6. TypeOK'
  <2>1. parts' \in [Ranks -> SUBSET Group]
    BY <1>1, <1>2, <1>3
  <2>2. \A g \in AllParts' : ~Below(g.y, 0) /\ ~Above(g.y, TopY)'
    BY <1>2, <1>4, <1>5 DEF AllParts, IInv, TypeOK
  <2>3. \A r2 \in Ranks : \A e \in region'[r2] : e.g \in parts'[r2]
    BY <1>1, <1>3, <1>4 DEF IInv, TypeOK
  <2>4. pc' \in [Ranks -> {"layer1", "layer2", "reduce", "sync", "fields", "done"}]
    BY <1>3 DEF IInv, TypeOK
  <2>. QED BY <1>1, <1>3, <2>1, <2>2, <2>3, <2>4 DEF IInv, TypeOK
<1>7. FiniteInv'
  BY <1>2, <1>4 DEF IInv, FiniteInv
<1>8. FieldsLast'
  BY <1>1, <1>3 DEF IInv, FieldsLast, TypeOK
<1>. QED BY <1>6, <1>7, <1>8 DEF IInv

\* AssembleLayer2(r) adds the layer2 row groups to parts[r].
LEMMA AssembleLayer2IInv ==
    ASSUME IInv, NEW r \in Ranks, AssembleLayer2(r)
    PROVE  IInv'
<1> DEFINE L == Layer2Groups(r)
<1>1. /\ multi \in Multis /\ off \in Offsets
      /\ parts \in [Ranks -> SUBSET Group]
      /\ region \in [Ranks -> SUBSET [g : Group, h : {"int", "ext"}]]
      /\ IsFiniteSet(parts[r])
  BY DEF IInv, TypeOK, FiniteInv
<1>2. /\ L \subseteq Group /\ IsFiniteSet(L)
      /\ \A g \in L : /\ ~Below(g.y, 0) /\ ~Above(g.y, TopY)
                      /\ IsFiniteSet(g.xs) /\ IsFiniteSet(g.zs)
  BY <1>1, Layer2GroupsOK
<1>3. /\ parts' = [parts EXCEPT ![r] = parts[r] \cup L]
      /\ UNCHANGED <<multi, off, numGlobal, npartInner, region>>
      /\ pc' = [pc EXCEPT ![r] = "reduce"]
  BY DEF AssembleLayer2
<1> HIDE DEF L
<1>4. \A r2 \in Ranks : parts'[r2] = IF r2 = r THEN parts[r] \cup L ELSE parts[r2]
  BY <1>1, <1>3
<1>5. TopY' = TopY
  BY <1>3 DEF TopY, N
<1>6. IsFiniteSet(parts[r] \cup L)
  BY <1>1, <1>2, FS_Union
<1>7. TypeOK'
  <2>1. parts' \in [Ranks -> SUBSET Group]
    BY <1>1, <1>2, <1>3
  <2>2. \A g \in AllParts' : ~Below(g.y, 0) /\ ~Above(g.y, TopY)'
    BY <1>2, <1>4, <1>5 DEF AllParts, IInv, TypeOK
  <2>3. \A r2 \in Ranks : \A e \in region'[r2] : e.g \in parts'[r2]
    BY <1>1, <1>3, <1>4 DEF IInv, TypeOK
  <2>4. pc' \in [Ranks -> {"layer1", "layer2", "reduce", "sync", "fields", "done"}]
    BY <1>3 DEF IInv, TypeOK
  <2>. QED BY <1>1, <1>3, <2>1, <2>2, <2>3, <2>4 DEF IInv, TypeOK
<1>8. FiniteInv'
  BY <1>2, <1>4, <1>6 DEF IInv, FiniteInv
<1>9. FieldsLast'
  BY <1>1, <1>3 DEF IInv, FieldsLast, TypeOK, AssembleLayer2
<1>. QED BY <1>7, <1>8, <1>9 DEF IInv
\* MPI_Allreduce gives every rank the particle count of all ranks.
LEMMA AllreduceIInv ==
    ASSUME IInv, Allreduce
    PROVE  IInv'
<1>1. TotalCount \in Nat
  BY CountNat DEF IInv, FiniteInv
<1>2. /\ numGlobal' = [r \in Ranks |-> TotalCount]
      /\ pc' = [r \in Ranks |-> "sync"]
      /\ UNCHANGED <<multi, off, parts, npartInner, region>>
  BY DEF Allreduce
<1>3. /\ AllParts' = AllParts
      /\ TopY' = TopY
  BY <1>2 DEF AllParts, TopY, N
<1>4. TypeOK'
  BY <1>1, <1>2, <1>3 DEF IInv, TypeOK
<1>5. FiniteInv'
  BY <1>2 DEF IInv, FiniteInv
<1>6. FieldsLast'
  BY <1>2 DEF IInv, FieldsLast, Allreduce
<1>. QED BY <1>4, <1>5, <1>6 DEF IInv

\* syncCoords moves every particle to the rank that owns its key.
LEMMA SyncCoordsIInv ==
    ASSUME IInv, SyncCoords
    PROVE  IInv'
<1>1. /\ parts' = [r \in Ranks |-> {g \in AllParts : Owner(g.y) = r}]
      /\ pc' = [r \in Ranks |-> "fields"]
      /\ UNCHANGED <<multi, off, numGlobal, npartInner, region>>
      /\ \A r \in Ranks : pc[r] = "sync"
  BY DEF SyncCoords
<1>2. \A r \in Ranks : region[r] = {}
  BY <1>1 DEF IInv, FieldsLast
<1>3. AllParts \subseteq Group
  BY DEF IInv, TypeOK, AllParts
<1>4. AllParts' \subseteq AllParts
  BY <1>1 DEF AllParts
<1>5. TopY' = TopY
  BY <1>1 DEF TopY, N
<1>6. IsFiniteSet(AllParts)
  <2> DEFINE Ps == {parts[r] : r \in Ranks}
             F == [r \in Ranks |-> parts[r]]
  <2>1. IsFiniteSet(Ranks)
    BY FS_Interval DEF Ranks
  <2>2. F \in Surjection(Ranks, Ps)
    BY DEF Surjection
  <2>3. IsFiniteSet(Ps)
    <3> HIDE DEF F, Ps
    <3>. QED BY <2>1, <2>2, FS_Surjection
  <2>4. \A P \in Ps : IsFiniteSet(P)
    BY DEF IInv, FiniteInv
  <2>. QED BY <2>3, <2>4, FS_UNION DEF AllParts
<1>7. TypeOK'
  <2>1. parts' \in [Ranks -> SUBSET Group]
    BY <1>1, <1>3
  <2>2. \A g \in AllParts' : ~Below(g.y, 0) /\ ~Above(g.y, TopY)'
    BY <1>4, <1>5 DEF IInv, TypeOK
  <2>3. \A r \in Ranks : \A e \in region'[r] : e.g \in parts'[r]
    BY <1>1, <1>2
  <2>. QED BY <1>1, <2>1, <2>2, <2>3 DEF IInv, TypeOK
<1>8. FiniteInv'
  <2> SUFFICES ASSUME NEW r \in Ranks
               PROVE  /\ IsFiniteSet(parts'[r])
                      /\ \A g \in parts'[r] : IsFiniteSet(g.xs) /\ IsFiniteSet(g.zs)
    BY DEF FiniteInv
  <2>1. parts'[r] \subseteq AllParts
    BY <1>1
  <2>2. IsFiniteSet(parts'[r])
    BY <1>6, <2>1, FS_Subset
  <2>3. \A g \in AllParts : IsFiniteSet(g.xs) /\ IsFiniteSet(g.zs)
    BY DEF IInv, FiniteInv, AllParts
  <2>. QED BY <2>1, <2>2, <2>3
<1>9. FieldsLast'
  BY <1>1, <1>2 DEF FieldsLast
<1>. QED BY <1>7, <1>8, <1>9 DEF IInv

\* initKelvinHelmholtzFields sets the region of each particle of rank r.
LEMMA InitFieldsIInv ==
    ASSUME IInv, NEW r \in Ranks, InitFields(r)
    PROVE  IInv'
<1> DEFINE Reg == {[g |-> g, h |-> Region(g.y)] : g \in parts[r]}
<1>1. /\ npartInner' = [npartInner EXCEPT ![r] = 128 * BlockSide * BlockSide * BlockSide]
      /\ region' = [region EXCEPT ![r] = Reg]
      /\ pc' = [pc EXCEPT ![r] = "done"]
      /\ UNCHANGED <<multi, off, parts, numGlobal>>
  BY DEF InitFields
<1>2. /\ parts \in [Ranks -> SUBSET Group]
      /\ region \in [Ranks -> SUBSET [g : Group, h : {"int", "ext"}]]
      /\ npartInner \in [Ranks -> Nat]
      /\ pc \in [Ranks -> {"layer1", "layer2", "reduce", "sync", "fields", "done"}]
  BY DEF IInv, TypeOK
<1>3. Reg \subseteq [g : Group, h : {"int", "ext"}] /\ \A e \in Reg : e.g \in parts[r]
  BY <1>2 DEF Region
<1> HIDE DEF Reg
<1>4. /\ AllParts' = AllParts
      /\ TopY' = TopY
  BY <1>1 DEF AllParts, TopY, N
<1>5. TypeOK'
  <2>1. region' \in [Ranks -> SUBSET [g : Group, h : {"int", "ext"}]]
    BY <1>1, <1>2, <1>3
  <2>2. \A r2 \in Ranks : \A e \in region'[r2] : e.g \in parts'[r2]
    BY <1>1, <1>2, <1>3 DEF IInv, TypeOK
  <2>3. npartInner' \in [Ranks -> Nat]
    BY <1>1, <1>2
  <2>4. pc' \in [Ranks -> {"layer1", "layer2", "reduce", "sync", "fields", "done"}]
    BY <1>1, <1>2
  <2>. QED BY <1>1, <1>4, <2>1, <2>2, <2>3, <2>4 DEF IInv, TypeOK
<1>6. FiniteInv'
  BY <1>1 DEF IInv, FiniteInv
<1>7. FieldsLast'
  BY <1>1, <1>2 DEF IInv, FieldsLast
<1>. QED BY <1>5, <1>6, <1>7 DEF IInv

LEMMA StutterIInv ==
    ASSUME IInv, UNCHANGED vars
    PROVE  IInv'
<1>1. UNCHANGED <<multi, off, pc, parts, numGlobal, npartInner, region>>
  BY DEF vars
<1>2. AllParts' = AllParts /\ TopY' = TopY
  BY <1>1 DEF AllParts, TopY, N
<1>. QED BY <1>1, <1>2 DEF IInv, TypeOK, FiniteInv, FieldsLast

LEMMA NextIInv == IInv /\ [Next]_vars => IInv'
<1> SUFFICES ASSUME IInv, [Next]_vars PROVE IInv'
  OBVIOUS
<1>1. CASE \E r \in Ranks : AssembleLayer1(r) \/ AssembleLayer2(r) \/ InitFields(r)
  BY <1>1, AssembleLayer1IInv, AssembleLayer2IInv, InitFieldsIInv
<1>2. CASE Allreduce
  BY <1>2, AllreduceIInv
<1>3. CASE SyncCoords
  BY <1>3, SyncCoordsIInv
<1>4. CASE UNCHANGED vars
  BY <1>4, StutterIInv
<1>. QED BY <1>1, <1>2, <1>3, <1>4 DEF Next

THEOREM IInvInvariant == Spec => []IInv
BY InitIInv, NextIInv, PTL DEF Spec

(***************************************************************************)
(* TypeOK, checked by the run kh_init, holds in every reachable state of   *)
(* KelvinHelmholtzGlass::init for every number of ranks, multi1D, template *)
(* block size and lattice offset: in particular every particle, the ones   *)
(* stretched by cbrt(2) and mirrored to -y + topEdge included, lies in     *)
(* 0 <= y <= 1, and every region set by initKelvinHelmholtzFields belongs  *)
(* to a particle the rank holds.                                           *)
(***************************************************************************)
THEOREM TypeCorrect == Spec => []TypeOK
BY IInvInvariant, PTL DEF IInv
-----------------------------------------------------------------------------
(***************************************************************************)
(* syncCoords keeps every particle: a point inside the box lies in some y  *)
(* row 0 .. 16 n, the row modulo 16 n is a key row, and every key row      *)
(* belongs to a rank's segment.                                            *)
(***************************************************************************)
\* Cubes are strictly monotone on the integers.
LEMMA CubeMono ==
    ASSUME NEW a \in Int, NEW b \in Int, a < b
    PROVE  a * a * a < b * b * b
OBVIOUS

\* A point in 0 <= y <= 1 lies below the lattice line above row 16 n.
LEMMA BelowTop ==
    ASSUME multi \in Multis, NEW f \in Int \X Int, ~Above(f, TopY)
    PROVE  Below(f, 2 * (16 * N) + 2)
<1>1. N \in Nat \ {0} /\ TopY = 32 * N
  BY NPositive
<1>0. f[1] \in Int /\ f[2] \in Int
  OBVIOUS
<1>2. 2 * f[2] * f[2] * f[2] <= (TopY - f[1]) * (TopY - f[1]) * (TopY - f[1])
  BY <1>0, <1>1 DEF Above, SigmaGt
<1>3. (TopY - f[1]) * (TopY - f[1]) * (TopY - f[1])
        < (TopY + 2 - f[1]) * (TopY + 2 - f[1]) * (TopY + 2 - f[1])
  BY <1>0, <1>1, CubeMono
<1>. QED BY <1>0, <1>1, <1>2, <1>3 DEF Below, SigmaGt

\* The row RowOf(f) of a point of the box exists.
LEMMA RowExists ==
    ASSUME multi \in Multis, NEW f \in Int \X Int, ~Below(f, 0), ~Above(f, TopY)
    PROVE  RowOf(f) \in 0..(16 * N)
<1>1. N \in Nat \ {0}
  BY NPositive
<1> DEFINE P(g) == Below(f, 2 * g + 2)
<1>2. P(16 * N)
  BY BelowTop
<1> DEFINE T == {g \in Nat : P(g)}
<1>7. 16 * N \in T
  BY <1>1, <1>2
<1> DEFINE Lt == OpToRel(<, Nat)
<1>9. IsWellFoundedOn(Lt, Nat)
  BY NatLessThanWellFounded
<1>10. T \subseteq Nat /\ T # {}
  BY <1>7
<1> HIDE DEF P, T, Lt
<1>8. PICK m \in T : \A y \in T : ~(<<y, m>> \in Lt)
  BY <1>9, <1>10, WFMin, Zenon
<1>3. m \in Nat /\ P(m) /\ \A k \in 0..(m - 1) : ~P(k)
  <2>1. m \in Nat /\ P(m)
    BY <1>8 DEF T
  <2>2. ASSUME NEW k \in 0..(m - 1), P(k) PROVE FALSE
    <3>1. k \in T /\ k \in Nat /\ k < m
      BY <2>1, <2>2 DEF T
    <3>2. <<k, m>> \in Lt
      BY <2>1, <3>1, Zenon DEF Lt, OpToRel
    <3>. QED BY <3>1, <3>2, <1>8
  <2>. QED BY <2>1, <2>2
<1>4. m \in 0..(16 * N)
  BY <1>1, <1>2, <1>3
<1>5. ~Below(f, 2 * m)
  <2>1. CASE m = 0
    BY <2>1
  <2>2. CASE m # 0
    <3>1. ~P(m - 1)
      BY <1>3, <2>2
    <3>2. 2 * (m - 1) + 2 = 2 * m
      BY <1>3
    <3>. QED BY <3>1, <3>2 DEF P
  <2>. QED BY <2>1, <2>2
<1>6. \E g \in 0..(16 * N) : ~Below(f, 2 * g) /\ Below(f, 2 * g + 2)
  BY <1>3, <1>4, <1>5 DEF P
<1>. QED BY <1>6 DEF RowOf

\* equiDistantSfcSegments: every key row lies in the segment of a rank.
LEMMA SegmentInRanks ==
    ASSUME multi \in Multis, NEW x \in 0..(16 * N - 1)
    PROVE  SegmentOf(x) \in Ranks
<1>1. N \in Nat \ {0}
  BY NPositive
<1>2. x * NRanks < (16 * N) * NRanks /\ x * NRanks \in Nat
  BY <1>1
<1>. QED BY <1>1, <1>2 DEF SegmentOf, Ranks

LEMMA OwnerInRanks ==
    ASSUME multi \in Multis, NEW f \in Int \X Int, ~Below(f, 0), ~Above(f, TopY)
    PROVE  Owner(f) \in Ranks
<1>1. N \in Nat \ {0}
  BY NPositive
<1>2. RowOf(f) % (16 * N) \in 0..(16 * N - 1)
  BY <1>1, RowExists
<1>. QED BY <1>2, SegmentInRanks DEF Owner

\* In a reachable state, SyncCoords keeps the set of row groups.
LEMMA SyncCoordsKeeps == IInv => (SyncCoords => AllParts' = AllParts)
<1> SUFFICES ASSUME IInv, SyncCoords PROVE AllParts' = AllParts
  OBVIOUS
<1>1. parts' = [r \in Ranks |-> {g \in AllParts : Owner(g.y) = r}]
  BY DEF SyncCoords
<1>2. \A g \in AllParts : Owner(g.y) \in Ranks
  <2> SUFFICES ASSUME NEW g \in AllParts PROVE Owner(g.y) \in Ranks
    OBVIOUS
  <2>1. /\ multi \in Multis
        /\ g \in Group
        /\ ~Below(g.y, 0) /\ ~Above(g.y, TopY)
    BY DEF IInv, TypeOK, AllParts
  <2>2. g.y \in Int \X Int
    BY <2>1 DEF Group, Coord
  <2>. QED BY <2>1, <2>2, OwnerInRanks
<1>. QED BY <1>1, <1>2 DEF AllParts
=============================================================================
