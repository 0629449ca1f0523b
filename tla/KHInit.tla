------------------------------ MODULE KHInit ------------------------------
(***************************************************************************)
(* Kelvin-Helmholtz initial conditions (src/unnamed/part_002):             *)
(* KelvinHelmholtzGlass::init (lines 236-301) and                          *)
(* initKelvinHelmholtzFields (lines 156-215).  Every rank tiles its SFC    *)
(* key segment of layer1 = [0,1)x[0,0.25)x[0,0.0625) with the template    *)
(* block, stretches each point by cbrt(2), keeps it if it is still inside *)
(* layer1 and pushes it together with its mirror image y -> 1 - y (layer3);*)
(* it then tiles its segment of layer2 = [0,1)x[0.25,0.75)x[0,0.0625),    *)
(* sums the particle counts over all ranks (MPI_Allreduce), redistributes *)
(* the particles by key (syncCoords), computes the particle mass and sets *)
(* the fields: smoothing length and temperature of the inner fluid when   *)
(* 0.25 < y < 0.75, of the outer fluid otherwise.                          *)
(*                                                                         *)
(* Coordinates.  The template block is abstracted to a BlockSide^3        *)
(* lattice, whose points sit on the lattice lines (offset 0) or half a    *)
(* spacing off them (offset 1).  assembleCuboid with multiplicity m then  *)
(* yields a lattice of spacing 1/(16 n), n = m * BlockSide, in all three  *)
(* axes.  A coordinate is the pair <<a, s>> standing for                    *)
(* (a + s * cbrt(2)) / (32 n): exact, so the comparisons of the code are  *)
(* decided exactly (s * cbrt(2) > t  <=>  2 s^3 > t^3).                     *)
(*                                                                         *)
(* Particles are grouped by rows: a group is one y value with the set of  *)
(* x and z coordinates its particles take (the crops in x, y and z are    *)
(* independent, so a row's particles are the product xs \X zs).            *)
(*                                                                         *)
(* assembleCuboid, equiDistantSfcSegments and syncCoords are not in this  *)
(* repository's sources; they are modelled from the spec's SFC assignment *)
(* (contiguous key ranges per rank) with a key order by y row.            *)
(***************************************************************************)
EXTENDS Integers, FiniteSets

CONSTANTS
    NRanks,     \* numRanks
    Multis,     \* the values multi1D = rint(cbrtNumPart / cbrt(|block|)) can take
    BlockSide,  \* cbrt(xBlock.size()): points per axis of the template block
    Offsets     \* template lattice offsets: 0 = on lattice lines, 1 = half off

ASSUME KHAssumption ==
    /\ NRanks \in Nat \ {0}
    /\ Multis \subseteq Nat \ {0} /\ Multis # {}
    /\ BlockSide \in Nat \ {0}
    /\ Offsets \subseteq {0, 1} /\ Offsets # {}

Ranks == 0..(NRanks - 1)

VARIABLES
    multi,       \* multi1D (input)
    off,         \* the template block's lattice offset (input)
    pc,          \* pc[r]: "layer1", "layer2", "reduce", "sync", "fields", "done"
    parts,       \* parts[r]: the particle row groups rank r holds
    numGlobal,   \* numGlobal[r]: d.numParticlesGlobal on rank r
    npartInner,  \* npartInner[r]: the local npartInner of rank r
    region       \* region[r]: [g, h] pairs, h = "int" or "ext", set by the fields init

vars == <<multi, off, pc, parts, numGlobal, npartInner, region>>

\* Lattice points per axis unit n, and the box extents in units of 1/(32 n).
N == multi * BlockSide
Top1 == 8 * N     \* layer1.ymax() = 0.25
Top2 == 24 * N    \* layer2.ymax() = 0.75
TopY == 32 * N    \* topEdge = layer3.ymax() = 1
TopZ == 2 * N     \* globalBox.zmax() = 0.0625

\* s * cbrt(2) > t, decided exactly.
SigmaGt(s, t) == 2 * s * s * s > t * t * t

\* The coordinate f is below, or above, the lattice value c.
Below(f, c) == SigmaGt(-f[2], f[1] - c)
Above(f, c) == SigmaGt(f[2], c - f[1])

\* k * n lattice points, starting at lo, spaced 1/(16 n).
Lattice(k, lo) == {lo + 2 * j + off : j \in 0..(k * N - 1)}

\* The rank whose key segment holds y row g (of 16 n rows):
\* equiDistantSfcSegments cuts the key range into NRanks equal parts.
SegmentOf(g) == (g * NRanks) \div (16 * N)

\* A template point at lattice y value y is generated by rank r.
Generates(r, y) == SegmentOf(y \div 2) = r

\* Mutant of Layer1Groups: the mirror is not translated by topEdge.
Layer1GroupsNoTranslate(r) ==
    LET xs == {<<0, x>> : x \in {x \in Lattice(16, 0) : SigmaGt(-x, -TopY)}}
        zs == {<<0, z>> : z \in {z \in Lattice(1, 0) : SigmaGt(-z, -TopZ)}}
    IN UNION { { [layer |-> 1, y |-> <<0, y>>, xs |-> xs, zs |-> zs],
                 [layer |-> 3, y |-> <<0, -y>>, xs |-> xs, zs |-> zs] } :
               y \in {y \in Lattice(4, 0) : Generates(r, y) /\ SigmaGt(-y, -Top1)} }

\* X *= stretch, crop to layer1, push the point and its mirror -X[1] + topEdge.
Layer1Groups(r) ==
    LET xs == {<<0, x>> : x \in {x \in Lattice(16, 0) : SigmaGt(-x, -TopY)}}
        zs == {<<0, z>> : z \in {z \in Lattice(1, 0) : SigmaGt(-z, -TopZ)}}
    IN UNION { { [layer |-> 1, y |-> <<0, y>>, xs |-> xs, zs |-> zs],
                 [layer |-> 3, y |-> <<TopY, -y>>, xs |-> xs, zs |-> zs] } :
               y \in {y \in Lattice(4, 0) : Generates(r, y) /\ SigmaGt(-y, -Top1)} }

\* assembleCuboid(keyStart, keyEnd, layer2, innerMulti, ...).
Layer2Groups(r) ==
    { [layer |-> 2, y |-> <<y, 0>>,
       xs |-> {<<x, 0>> : x \in Lattice(16, 0)}, zs |-> {<<z, 0>> : z \in Lattice(1, 0)}] :
        y \in {y \in Lattice(8, Top1) : Generates(r, y)} }

\* The particles of rank r (d.x), one per point <<x, z>> of a row group.
LocalParticles(r) == UNION { {<<g, p>> : p \in g.xs \X g.zs} : g \in parts[r] }

\* The row groups of all ranks, and the number of particles they hold:
\* the sum of d.x.size() over the ranks.
AllParts == UNION {parts[r] : r \in Ranks}
TotalCount == Cardinality(UNION { {<<r, q>> : q \in LocalParticles(r)} : r \in Ranks })

\* The y row of coordinate f, and the rank owning its key (periodic in y).
RowOf(f) == CHOOSE g \in 0..(16 * N) : ~Below(f, 2 * g) /\ Below(f, 2 * g + 2)
Owner(f) == SegmentOf(RowOf(f) % (16 * N))

Init ==
    /\ multi \in Multis
    /\ off \in Offsets
    /\ pc = [r \in Ranks |-> "layer1"]
    /\ parts = [r \in Ranks |-> {}]
    /\ numGlobal = [r \in Ranks |-> 0]
    /\ npartInner = [r \in Ranks |-> 0]
    /\ region = [r \in Ranks |-> {}]

\* assembleCuboid on layer1 and the stretch / crop / mirror loop.
AssembleLayer1(r) ==
    /\ pc[r] = "layer1"
    /\ parts' = [parts EXCEPT ![r] = Layer1Groups(r)]
    /\ pc' = [pc EXCEPT ![r] = "layer2"]
    /\ UNCHANGED <<multi, off, numGlobal, npartInner, region>>

AssembleLayer2(r) ==
    /\ pc[r] = "layer2"
    /\ parts' = [parts EXCEPT ![r] = @ \cup Layer2Groups(r)]
    /\ pc' = [pc EXCEPT ![r] = "reduce"]
    /\ UNCHANGED <<multi, off, numGlobal, npartInner, region>>

\* Mutant of Allreduce: MPI_MAX instead of MPI_SUM.
AllreduceMax ==
    /\ \A r \in Ranks : pc[r] = "reduce"
    /\ LET counts == {Cardinality(LocalParticles(r)) : r \in Ranks}
       IN numGlobal' = [r \in Ranks |-> CHOOSE c \in counts : \A c2 \in counts : c >= c2]
    /\ pc' = [r \in Ranks |-> "sync"]
    /\ UNCHANGED <<multi, off, parts, npartInner, region>>

\* numParticlesGlobal = d.x.size(); MPI_Allreduce(..., MPI_SUM): the
\* collective completes once every rank has entered it.
Allreduce ==
    /\ \A r \in Ranks : pc[r] = "reduce"
    /\ numGlobal' = [r \in Ranks |-> TotalCount]
    /\ pc' = [r \in Ranks |-> "sync"]
    /\ UNCHANGED <<multi, off, parts, npartInner, region>>

\* syncCoords: every particle moves to the rank whose segment holds its key.
SyncCoords ==
    /\ \A r \in Ranks : pc[r] = "sync"
    /\ parts' = [r \in Ranks |-> {g \in AllParts : Owner(g.y) = r}]
    /\ pc' = [r \in Ranks |-> "fields"]
    /\ UNCHANGED <<multi, off, numGlobal, npartInner, region>>

\* initKelvinHelmholtzFields: hInt and the inner temperature when
\* y < 0.75 && y > 0.25, hExt and the outer temperature otherwise.
Region(y) == IF Below(y, Top2) /\ Above(y, Top1) THEN "int" ELSE "ext"

\* npartInner = 128 * xBlock.size(); particleMass = volumeHD * rhoInt /
\* npartInner; d.resize(d.x.size()); initKelvinHelmholtzFields.
InitFields(r) ==
    /\ pc[r] = "fields"
    /\ npartInner' = [npartInner EXCEPT ![r] = 128 * BlockSide * BlockSide * BlockSide]
    /\ region' = [region EXCEPT ![r] = { [g |-> g, h |-> Region(g.y)] : g \in parts[r] }]
    /\ pc' = [pc EXCEPT ![r] = "done"]
    /\ UNCHANGED <<multi, off, parts, numGlobal>>

Next ==
    \/ \E r \in Ranks : AssembleLayer1(r) \/ AssembleLayer2(r) \/ InitFields(r)
    \/ Allreduce
    \/ SyncCoords

Spec == Init /\ [][Next]_vars

-----------------------------------------------------------------------------
Coord == Int \X Int
Group == [layer : {1, 2, 3}, y : Coord, xs : SUBSET Coord, zs : SUBSET Coord]

TypeOK ==
    /\ multi \in Multis
    /\ off \in Offsets
    /\ pc \in [Ranks -> {"layer1", "layer2", "reduce", "sync", "fields", "done"}]
    /\ parts \in [Ranks -> SUBSET Group]
    /\ numGlobal \in [Ranks -> Nat]
    /\ npartInner \in [Ranks -> Nat]
    /\ region \in [Ranks -> SUBSET [g : Group, h : {"int", "ext"}]]
    /\ \A r \in Ranks : \A e \in region[r] : e.g \in parts[r]
    \* every particle lies in the periodic box, 0 <= y <= 1: the stretch by
    \* cbrt(2), the crop to layer1 and the mirror -y + topEdge keep it there
    /\ \A g \in AllParts : ~Below(g.y, 0) /\ ~Above(g.y, TopY)

\* Template points of layer1 that survive the stretch, and of layer2.
Kept1 == {y \in Lattice(4, 0) : SigmaGt(-y, -Top1)}
Layer1Size == Cardinality({x \in Lattice(16, 0) : SigmaGt(-x, -TopY)})
            * Cardinality({z \in Lattice(1, 0) : SigmaGt(-z, -TopZ)})
InnerSize == Cardinality(Lattice(8, Top1)) * 16 * N * N

(***************************************************************************)
(* After MPI_Allreduce every rank's numParticlesGlobal is the number of    *)
(* particles all ranks hold, and it stays so across syncCoords: the key    *)
(* segments cover every template point once, each kept layer1 point is    *)
(* pushed with its mirror, and the redistribution neither drops nor        *)
(* duplicates particles, the ones mirrored to y = 1 included.              *)
(***************************************************************************)
CountConsistent ==
    \A r \in Ranks : pc[r] \in {"sync", "fields", "done"} =>
        /\ numGlobal[r] = TotalCount
        /\ numGlobal[r] = 2 * Cardinality(Kept1) * Layer1Size + InnerSize

\* Two groups share a particle position, y taken modulo the periodic box.
SamePlace(g1, g2) ==
    /\ g1.y[2] = g2.y[2]
    /\ (g1.y[1] - g2.y[1]) % TopY = 0
    /\ g1.xs \cap g2.xs # {}
    /\ g1.zs \cap g2.zs # {}

(***************************************************************************)
(* No two particles the init creates sit at the same place of the periodic *)
(* box: the mirror y -> 1 - y of layer1 into layer3 must not land on a     *)
(* particle already there.                                                 *)
(***************************************************************************)
NoCoincidentParticles ==
    \A g1, g2 \in AllParts : g1 # g2 => ~SamePlace(g1, g2)

(***************************************************************************)
(* The particles of the inner fluid (layer2) get the inner smoothing       *)
(* length and temperature, those of layer1 and layer3 the outer ones:      *)
(* initKelvinHelmholtzFields decides by 0.25 < y < 0.75, assembleCuboid    *)
(* fills layer2 = [0.25, 0.75).                                            *)
(***************************************************************************)
InnerLayerInterior ==
    \A r \in Ranks : \A e \in region[r] : (e.g.layer = 2) <=> (e.h = "int")

(***************************************************************************)
(* particleMass = volumeHD * rhoInt / npartInner gives the inner fluid the *)
(* density rhoInt: npartInner is the number of layer2 particles.          *)
(***************************************************************************)
InnerMassMatchesDensity ==
    \A r \in Ranks : pc[r] = "done" => npartInner[r] = InnerSize
=============================================================================
