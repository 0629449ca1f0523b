# Verification models for the SPH-EXA output, dump and Kelvin-Helmholtz init code

This directory holds TLA+ models of the parts of SPH-EXA whose sources are in
`src/`. There are model-checking runs for TLC and proofs for TLAPS. Every module
is translated from the C++ named in `PROJECT.json` ("map"). The only exception
is the cstone domain behaviour those parts rely on. It is not in `src/`, so it
is modelled from `spec.md` and marked `spec_modelled`.

## Inventory

| Part | Source | State | Operations | Hard behaviour |
|---|---|---|---|---|
| Field output | `ipropagator.hpp` 173-210 `outputAllocatedFields` | local copies `indicesDone`, `namesDone`, loop index `i`, fields on host, writer calls, warning | start dataset, write allocated field (transfer, write, erase both copies), skip field, end loop, warning | erasing from two parallel vectors while iterating; index of the column in the *original* list; warning text |
| Selected-particle output | `ipropagator.hpp` 83-88, 149-169, 213-263 | per rank: `id` field (owned slots then halo slots), selected positions, values written | `getSelectedParticleIndexes`, `saveSelParticlesFields` | a search over halo slots; positions used after `transferToHost(first,last)`; stale ids in halo slots |
| MPI ASCII dump | `part_002` 53-87 `SqPatchMPIFileWriter::dumpParticleDataToAsciiFile` | per rank: loop position, turn, barriers entered; the shared file | my turn / other turn, open (truncate or append), write, write throws, close, barrier | all ranks interleave; barrier counting; a failure on one rank while the others wait |
| KH initial conditions | `part_002` 156-215, 236-301 | per rank: particles, `numParticlesGlobal`, `npartInner`, field choice | assemble layer1 (stretch, crop, mirror), assemble layer2, `MPI_Allreduce`, `syncCoords`, mass and fields | exact comparisons at y = 0, 0.25, 1; count taken before redistribution; mass per particle |
| Other writers, timing report, factory, CMake | `part_002` 1-46, 88-106; `ipropagator.hpp` 117-145; `std_hydro_grackle.cpp`; `part_000`, `part_001` | none of their own | single calls, exit/abort, formatting | not modelled (see below) |
| cstone domain (sync, SFC segments) | not in `src/` | assignment and halo layout | `sync`, `equiDistantSfcSegments`, `syncCoords` | modelled from the spec only as far as the consumers above need |

How the parts interact:
- The propagator calls `domain.sync()`. It then calls the output functions, which read the fields sync left behind.
- The KH initializer produces the particles that the domain distributes.
- The MPI writer is called on every rank with the rank's particle data.

## Plan

Modules are built one per component, in this order:

1. `FieldOutput`, with its proof module.
2. `MPIAsciiDump`.
3. `SelectedOutput`, which composes the output walk with a spec-level domain sync.
4. `KHInit`.

Each module gets a type invariant, safety invariants aimed at the hazards in
`PROJECT.json`, and a mutant for every checked property. Liveness is checked
only where the code has a progress claim: the barriers of the MPI dump.

Done since the first version:
- `AbstractFieldOutput`, an abstract specification of what `outputAllocatedFields` promises, with `FieldOutput` shown to refine it. TLC checks the refinement and TLAPS proves it (`FieldOutput_refinement.tla`).
- Proofs of the `MPIAsciiDump` safety properties (`MPIAsciiDump_proofs.tla`) through an inductive invariant over the barrier counts.
- Proofs of `OutputComplete` (`FieldOutput_complete.tla`) and of `KHInit`'s type invariant (`KHInit_proofs.tla`).
- Proof of `KHInit`'s `CountConsistent` (`KHInit_count.tla`).

Left for later sittings:
- Merge the selected-particle walk with `FieldOutput`'s walk through an INSTANCE, so that its per-field loop is checked as well.
- Proof of `OwnerWritesSelected` once its lemmas on `SetToSeq` are in place.
- The `multi1D = 0` edge of the KH init.

## Modules and runs

### FieldOutput (`FieldOutput.tla`, `MC_FieldOutput.tla`)

**State and actions.** The variables are the lambda's locals (`indicesDone`,
`namesDone`, `i`) and the visible effects:
- `onHost`: the fields `transferToHost` has moved to the host.
- `written`: the sequence of `writeField(key, data, column)` calls.
- `warning`: the warning lines printed.

There is one action per path through the loop body (`WriteField`, `SkipField`)
and one per step around it (`StartDataset`, `EndLoop`, `Warn`). `Warn` also
moves on from hydro (1) to chem (2). A field name is the pair
`<<dataset, index>>`.

**Inputs.** The requests are every injective list of up to `MaxOut` = 3 of
`NumFields` = 3 fields, and the allocation is every subset of the fields. Both
are chosen for each of 2 datasets. That covers every order of allocated and
unallocated fields in a list of length 3, and lists that hit the first and the
last position.

**Runs.**

| Run | Result | States | What it shows |
|---|---|---|---|
| `field_output` | pass | 182272 | `OutputComplete`: once a dataset is finished, each allocated requested field is written once, under its own name, into its column, after being transferred to host. `LeftoverUnused`: what is left in `indicesDone` for the warning is exactly the unallocated requests. `WalkInv` is the invariant of the walk. `WrittenInv`: the writes issued for the current dataset are exactly the allocated fields of the visited suffix of the request list. `AbstractSpec`: the walk refines `AbstractFieldOutput` (see below). |
| `field_output_warning` | violation | | `WarningNamesUnused` fails: the warning prints `fieldNames[0..k-2]` instead of the unused fields' names. |

**Abstract specification and refinement** (`AbstractFieldOutput.tla`). The
abstract specification says what the function promises, without the erase walk:
- Datasets are output in turn.
- For the current dataset, `Write` writes one due field that is not yet written. A field is due when it is requested and allocated. The write carries the field's name and a column that holds the field in the request list.
- `Finish` moves to the next dataset, or stops, and only once every due field is written.

The order of writes within a dataset is left open. `FieldOutput` instantiates
the abstract module with `finished <- (pc = "done")` and `out <- written`, and
the run `field_output` checks `AbstractSpec` as a property. The mapping works as follows:
- `WriteField` is an abstract `Write` of the field it visits.
- `Warn` is an abstract `Finish`.
- `StartDataset`, `SkipField` and `EndLoop` are stutters.

### MPIAsciiDump (`MPIAsciiDump.tla`, `MC_MPIAsciiDump.tla`)

**State.**
- `pc[r]`: the rank's position in the loop.
- `turn[r]`: the loop variable.
- `arrived[r]`: the number of barriers entered.
- `file`: the sequence of rank blocks.

`MPI_Barrier` is entered by `OtherTurn` or `Close`. A rank leaves it
(`LeaveBarrier`) once every rank has entered at least as many barriers as it
has. `writeParticleDataToAsciiFile` is not in `src/`. It opens `path` itself,
appending, and throws `FileNotOpenedException` on failure; that is the
exception the non-MPI writer catches around the same call. The MPI writer
catches `MPIFileNotOpenedException`, so `WriteThrows` ends the rank without
`MPI_Abort`.

**Fairness.** Weak fairness per rank. Every MPI process runs until it blocks,
and the only blocking is the barrier, which the guard models.

**Runs.** Both use 3 ranks, which gives a first, a middle and a last writer.

| Run | Result | What it shows |
|---|---|---|
| `mpi_ascii_dump` | pass | `FileInRankOrder` and `NoBlockLost` hold. If no write fails, `DumpTerminates` also holds: every rank returns and the file holds blocks 0, 1, 2. |
| `mpi_ascii_dump_hang` | violation | `NoRankHangs` fails. A rank whose write throws leaves the others in `MPI_Barrier` forever. |

### SelectedOutput (`SelectedOutput.tla`, `MC_SelectedOutput.tla`)

**State.** The state is the owner of each particle and each rank's `id` vector
(owned slots, then halo slots), `nParticles`, the positions found and the pairs
`<<rank, id>>` written.

The layout after `domain.sync()` comes from the spec: owned particles first,
then up to `MaxHalo` halo slots holding ids of particles the rank does not own.
`Sync` redistributes the particles between output steps.

`getSelectedParticleIndexes` is translated directly, as `std::find` followed by
the `< size()` test. `saveSelParticlesFields` writes the id held at each
position.

**Bounds.** There are 2 ranks and 3 particles, and the selection is
`<<p2, p1>>`, in a different order from the ids. Each rank has at most 2 halo
slots. These bounds cover every ownership, including a rank owning nothing.

**Runs.**

| Run | Result | What it shows |
|---|---|---|
| `selected_output` | pass | `OwnerWritesSelected`: the owner of each selected particle finds it inside `[0, nParticles)` and writes it. |
| `selected_output_dup` | violation | `WrittenOnlyByOwner` fails. A rank holding the particle in a halo slot writes it too. |

### KHInit (`KHInit.tla`, `MC_KHInit.tla`)

**Coordinates.** The template block is a `BlockSide^3` lattice. Its points lie
either on the lattice lines (offset 0) or half a spacing off them (offset 1).
`assembleCuboid` with multiplicity `m` then produces a lattice of spacing
`1/(16 m BlockSide)`.

A coordinate is a pair `<<a, s>>` standing for `(a + s*cbrt 2)/(32 n)`.
`SigmaGt` decides `s*cbrt 2 > t` exactly, as `2 s^3 > t^3`. So the crop
`inLayer1`, the mirror `-X[1] + topEdge` and the test
`y < 0.75 && y > 0.25` are all evaluated exactly, without floating point.

**Particles and ranks.** Particles are grouped by y row. The crops in x, y and
z are independent, so a row group is the product of its x and z sets.

Key segments (`equiDistantSfcSegments`) and `syncCoords` come from the spec's
contiguous SFC assignment. Keys are ordered by y row, so the assignment is
periodic in y.

**Runs.** All use 3 ranks, `multi1D` in {1, 2}, both offsets, and
`BlockSide` = 1. That is up to 32 rows and 32 columns.

| Run | Result | What it shows |
|---|---|---|
| `kh_init` | pass | `CountConsistent`: after `MPI_Allreduce`, `numParticlesGlobal` equals the particles held across `syncCoords`, and equals `2 * kept(layer1) + 128 m^3`. `syncCoords` is cstone code modelled from the spec, so the part after it checks the count against that model. |
| `kh_init_mirror` | violation | `NoCoincidentParticles` fails for offset 0. The row at y = 0 is mirrored to y = 1, which is the same periodic place. |
| `kh_init_boundary` | violation | `InnerLayerInterior` fails for offset 0. The layer2 row at y = 0.25 gets the outer `h` and temperature. |
| `kh_init_mass` | violation | `InnerMassMatchesDensity` fails for `multi1D` = 2. `npartInner = 128 * xBlock.size()` ignores `multi1D^3`. |

The particle count `TotalCount` is the cardinality of the set of
`(rank, particle)` pairs. It is the same number as the sum over ranks of
`xs.size()` that the code reduces. A cardinality is used rather than a fold
because the provers cannot unfold a fold; TLC evaluates both alike.

With offset 1, `NoCoincidentParticles` and `InnerLayerInterior` both hold. The
first two violations need a template point exactly on y = 0. A lattice
template has one; a relaxed glass almost surely does not.

## Mutants

Every property of a passing run has a mutant in `PROJECT.json`. The mutant is
an operator placed before the definition it replaces, modelling a plausible
slip. TLC finds each mutant's property violated under the run's own cfg.

| Mutant | Slip it models |
|---|---|
| `WriteFieldNoTransfer` | the field is written without `transferToHost` |
| `WriteFieldEraseOffByOne` | the erase is at the wrong position (kills `WalkInv`, `WrittenInv` and `LeftoverUnused`) |
| `StartDatasetUnsigned` | the walk starts at `indicesDone.size() - 1` computed in `size_t`, without the `int` cast; on an empty request list it wraps to the largest value (kills `TypeOK`) |
| `OtherTurnNoBound` | the turn loop has no bound |
| `OtherTurnNoBarrier` | the else branch of the turn loop skips its `MPI_Barrier` (kills `FileInRankOrder` and `DumpTerminates`) |
| `OpenTruncating` | every rank opens with truncation |
| `FindIndexShort` | `std::find` stops short |
| `SelectedPositionsUnchecked` | the `< size()` test is dropped |
| `StartDatasetSkipLast` | the walk starts at `size() - 2` and never visits the last request (kills `AbstractSpec`) |
| `Layer1GroupsNoTranslate` | the mirror is not translated by `topEdge` |
| `AllreduceMax` | `MPI_MAX` instead of `MPI_SUM` |

## Proofs

`FieldOutput_proofs.tla` proves the following for every value of the
constants. The constants range over `ConstAssumption`: at least one field and
one dataset, and natural `MaxOut` and `WriterRank`.

- `IInvInvariant`: `Spec => [](TypeOK /\ WalkInv)`.
- `TypeCorrect`: `Spec => []TypeOK`.
- `WalkInvariant`: `Spec => []WalkInv`.

Neither invariant is inductive alone. `TypeOK` needs `WalkInv` to know that
`i + 1` indexes `indicesDone` and that `RemoveAt` shortens both copies
together. `WalkInv` needs `TypeOK` for the types of the lists.

The argument has one lemma per action:
- `WriteField` removes position `i + 1`, which lies above the unvisited prefix. So the prefix `1..i` still equals the request list. The removed field was allocated, and the suffix keeps only unallocated fields.
- `SkipField` moves an unallocated field from the prefix into the suffix.
- `Warn` restarts the walk on the next dataset through `StartDataset`.

Supporting lemmas:
- `RemoveAtLemma`: length and indices of `RemoveAt`, from `SubSeqProperties` and `ConcatProperties`.
- `RequestListLemma`.
- `ColumnLemma`: the column of a field is its position in an injective list.

`FieldOutput_refinement.tla` proves two more theorems about the same walk:
- `WrittenInvariant`: `Spec => []WrittenInv`.
- `Refinement`: `Spec => AbstractSpec`.

`WrittenInv` is inductive together with `TypeOK /\ WalkInv` (`RInv`). The
writes of a dataset grow by one field per `WriteField` (lemma `WSAppend`), and
the visited suffix grows by the same position. When the walk ends (`i = -1`),
the suffix is the whole request list. No write carries a later dataset, so a
new dataset starts with none.

The refinement proof follows the pattern `Init => A!Init` plus
`RInv /\ [Next]_vars => [A!Next]_A!avars`. For `WriteField`, the witnesses of
the abstract `Write` are the visited field and the column `i`:
- The field is due: it is in the request list (`WalkInv`) and allocated (the guard).
- It is not yet written: the written fields sit at positions above `i + 1`, and the list is injective (`InjectiveLemma`).
- `ColumnLemma` shows that `std::find` returns `i`.

For `Warn`, `WrittenInv` at `pc = "warn"` gives `Due \subseteq Done`.

`MPIAsciiDump_proofs.tla` proves the dump's safety properties for every
`NRanks >= 1`:
- `TypeCorrect`: `Spec => []TypeOK`.
- `FileOrdered`: `Spec => []FileInRankOrder`.
- `BlocksKept`: `Spec => NoBlockLost`.

The inductive invariant `IInv` adds the following to `TypeOK`:
- `ArrivedInv`: a rank's barrier count is its turn, plus one while it waits.
- `OwnTurnInv`: only the rank whose turn it is opens, writes or closes.
- `BarrierInv`: no rank's turn exceeds any rank's barrier count. This is what `MPI_Barrier` guarantees. A rank leaves its k-th barrier only when every rank has entered its k-th barrier.
- `FileInv`: the file is `RankOrder(Len(file))`, and a rank's block is in it exactly when the rank has written (`Written`).

From `BarrierInv`, a rank in its own turn sees two things. Every lower rank has
written (`WrittenBelow`), and no higher rank has (`NotWrittenAbove`). So
`Len(file)` equals the rank when it opens or writes (`LenAtTurn`). Rank 0's
truncating open therefore meets an empty file, and a write appends right after
the blocks of the lower ranks.

`FieldOutput_complete.tla` proves `OutputCompleteInvariant`:
`Spec => []OutputComplete`. `OutputComplete` is not inductive; it speaks only
of finished datasets. The inductive invariant `CInv` is `RInv` plus:
- `DoneInv`: every dataset before the current one is complete, and so is the current one once `pc = "done"`.
- `RecordInv` (`RecOK`): each write record carries the field's name, a column holding the field, and a field already on host, and no field is written twice for a dataset.

`WriteField` appends one record. The refinement lemma `WriteFieldRefines`
supplies the field and the column of the abstract `Write`, which gives the
record's properties. Then `WSAppendOther` shows that the appended record does
not touch the other datasets' sets. `Warn` closes the current dataset with
`WrittenInv` at `i = -1`. TLC checked `CInv` as an invariant of `field_output`
before the proof.

`KHInit_proofs.tla` proves `TypeCorrect`: `Spec => []TypeOK`, for every
number of ranks, `multi1D`, block size and offset. `TypeOK` includes the fact
that every particle lies in `0 <= y <= 1`.

The inductive invariant `IInv` adds two conjuncts to `TypeOK`:
- `FiniteInv`: the row groups and their x and z sets are finite, so the counts are natural numbers.
- `FieldsLast`: the region sets stay empty until the fields step.

The box bound comes from exact cube arithmetic on `SigmaGt`. A stretched
layer1 point `y <= 0.5` maps to `y * cbrt 2 <= 1`. Its mirror
`-y + 1` lies in the box because y does. `LatticeSubset` and `PairsFinite`
give the finite lattices.

The lemma `SyncCoordsKeeps` (the set of row groups is the same after `syncCoords`), used by `KHInit_count.tla`, rests on `OwnerInRanks`:
- `BelowTop` and a least-row argument (`RowExists`, from `WFMin` on `<` over Nat) show that every point of the box lies in a key row `0..16n`.
- The row taken modulo `16n` is then in `0..16n-1`.
- `SegmentInRanks` shows that `(x * NRanks) \div 16n` is a rank.

So `syncCoords` hands every group to a rank, and the union of the parts is
unchanged.

`KHInit_count.tla` proves `CountCorrect`: `Spec => []CountConsistent`, for
every number of ranks, `multi1D`, block size and offset. Once a rank has
passed `MPI_Allreduce`, its `numParticlesGlobal` equals two numbers. The first
is `TotalCount`, the number of (rank, particle) pairs held. The second is the
closed form `2 * kept(layer1) * |layer1 row| + |layer2|`.

`CountConsistent` is not inductive. The intermediate theorem
`CountInvInvariant` proves the strengthening `CountInv`, which is `IInv` plus
three conjuncts:
- `PartsDisjoint`: no row group is held by two ranks.
- `StageInv`: what a rank holds before the reduction. It holds nothing in `layer1`, its layer1 rows in `layer2`, and both layers' rows in `reduce`.
- `ReducedInv`: once one rank has passed the reduction, every rank has. The union of the parts is then `FullParts`, every row any rank generates, and every rank received `|Particles(FullParts)|`.

`ReducedInv` is what makes the reduction sound. `MPI_Allreduce` is one atomic
step of the model, taken when every rank is at `reduce`. At that point,
`StageInv` gives the sum.

The count rests on these lemmas:
- `GroupRank` and `GroupsDisjoint`: a row group names the rank that generated it, so two ranks' groups differ.
- `TaggedCount`: with disjoint parts, the sum over the ranks equals the number of particles. It uses a bijection `(rank, particle) -> particle`.
- `FullCount`: the closed form. `FullParts` splits into the layer1 rows, their mirrors and the layer2 rows (`FullPartsSplit`). Each part is counted through a bijection with a product of lattices.
- `CardBij` turns a bijection into equal cardinalities, via `FS_Surjection` and `Injection`.
- `LatticeCard`: `|Lattice(k, lo)| = k * n`, via `FS_Interval`.

No induction over data is needed. Every count is either a bijection or a
disjoint union of finite sets.

The following are only model-checked:
- `LeftoverUnused` and `WarningNamesUnused`. They are about the lists the warning reads, which the model builds with `SelectSeq`, and the provers have no facts about `SelectSeq`.
- All properties of `SelectedOutput`. They rest on `SelectSeq` and on `SetToSeq`, which is recursive.
- Every liveness property (`DumpTerminates`, `NoRankHangs`). TLAPS does not handle liveness under fairness or `ENABLED`.

The one recursive definition used, `SetToSeq` of the community modules, is
reached only from `SelectedOutput`, which carries no theorem.

## Not modelled

- **Non-MPI and binary writers, checkpoint dumps** (`part_002` 1-46, 88-106). Each is one call into `fileutils` with `exit`/`MPI_Abort` on error. There is nothing to interleave, and the collective binary write lives in `fileutils`, outside `src/`.
- **`printIterationTimings`, `writeMetrics`.** These only format output. The division `totalNeighbors / totalParticleCount` is listed as a hazard for the `multi1D = 0` case.
- **`PropLib::makeHydroGrackleProp` and the CMake files.** These are construction and build configuration.
- **cstone internals** (octree, focus tree, halo discovery, SFC encoding). They are not in `src/`. Only the layout they leave is modelled.
