# A verification project for micropp

micropp solves the micro-scale problems of a two-scale (FE²) computation. A
macro-scale code owns a `micropp<3>` object with `ngp` Gauss points; each of
them is a finite element cell of its own. The macro code imposes a strain on
every point, calls `homogenize()`, reads stresses and tangents, and commits the
step with `update_vars()`. In this version the points are OmpSs-2 tasks that run
on the nodes of a cluster.

This directory holds TLA+ specifications of that code, TLC configurations, and
proofs checked by TLAPS. Paths such as `src/homogenize.cpp` below are those of
the repository.

## 1. Inventory

| Component | State it keeps | Operations | What makes it correct |
|---|---|---|---|
| **Gauss points** (`include/gp.hpp`, `src/homogenize.cpp`) | strain, committed strain, stress, tangent; flags `allocated`, `converged`, `subiterated`; pointers `vars_n/k`, `u_n/k` into four arrays | `set_strain`, `homogenize`, `homogenize_linear`, `update_vars`, getters | the committed state changes by a commit only; a trial is computed from it and from nothing else; no two buffers coincide; a flag means what it says |
| **Solution of a point** (`src/homogenize.cpp`, `src/solve.cpp`, `src/update.cpp`) | local vectors, `newton_t` | Newton-Raphson for the trial, the sub-iterations and the six perturbations of the tangent | `converged` is honest; the field kept carries the strain asked for and the sub-iterations lead there in equal steps; the tangent is new in every column |
| **Material laws** (`src/material.cpp`) | internal variables | `get_stress`, `get_ctan`, `evolute` | histories grow; stress and history tell one story; a linear trial may be forgotten; a committed step is at rest |
| **Column table** (`src/ell-common.cpp`, `distribute` in `include/util.hpp`) | `cols` | `ell_init_cols` with a task per cluster node | regions apart, everything written before it is read, agrees with `ell_add_3D` and `ell_set_bc_3D` |
| **Assembly** (`src/assembly.cpp`, `src/openacc/assembly.cpp`, `src/cuda/assembly.cu`) | `A->vals`, `b` | `ell_add_3D` and its parallel versions | every number of an element goes into the sum it belongs to once, in all builds |
| **CUDA solver** (`src/cuda/ell.cu`) | device vectors, shared memory of blocks | `ell_mvp_kernel`, `dot_prod_kernel`, `reduce` | rows and scalar products are complete whatever the threads do |
| **Equilibrium** (`src/assembly.cpp`, `src/micro3D.cpp`, `src/ell.cpp`, `ell_set_bc_3D`) | `u`, `b`, `A`, vectors of the conjugate gradient | `set_displ_bc`, `assembly_rhs`, `assembly_mat`, `ell_solve_cgpd` | the boundary loops agree; nothing moves the boundary |
| **Restart and output** (`src/output.cpp`) | a file per rank and restart number, overwritten in place | `write_restart`, `read_restart`, `output`, `output2` | a restored object goes on as the one that wrote the file; a torn file gives no wrong history |
| **Lifecycle** (`src/micropp.cpp`, `include/tasks.hpp`) | arrays, `gp_counter` | constructor, destructor | memory initialised and released |
| **Cluster memory** (nanos6, external; `include/tasks.hpp`) | a copy of every region on every node, the latest one | `rrd_malloc`, `rrl_malloc`, `task in/out`, `taskwait` | wherever the tasks run, the nodes compute what one memory would |
| **Micro-structure** (`src/micropp.cpp`, `include/util.hpp`) | `elem_type`, `Vm`, `Vf` | `get_elem_type`, `calc_volume_fractions` | fibres run through the cell; a symmetric structure gives a symmetric system |
| Averages, C/Fortran bindings, device memory, instrumentation, MPI driver | | | see section 8 |

**How they interact.** The macro code is one thread. In `homogenize()` the main
thread goes through the points: a linear point is done on the spot, a
`FE_ONE_WAY` point becomes a task, a `FE_FULL` point is solved by the main
thread itself while the tasks already spawned run; a `taskwait` ends the call. A
solution calls `newton_raphson`, which calls the boundary, assembly and solver
routines on vectors of its own, on the column table all points share, and on
slices of `dvars_*` and `du_*` that belong to the point. `update_vars()` only
swaps pointers. Restart files carry the committed state of the points that have
one.

**What is hard.** Several tasks write while the main thread solves and spawns.
Trials may be repeated before a commit, with a pointer swap in between and a
flag, `allocated`, that a rejected trial leaves on. Points that are not
allocated share the same buffers and skip the write. Memory is not cleared. The
solver may fail at every level and the caller may commit all the same. In the
CUDA and OpenACC builds threads add into the same numbers, and barriers are the
only order between the lanes of a block. On a cluster a task declares what it
writes, and may leave it unwritten. A process may end in the middle of a restart
file, and nothing in the file tells. The list
of hazards, each with its line and the properties aimed at it, is in
`PROJECT.json`.

## 2. Modules

| Module | Models | Extends or uses |
|---|---|---|
| `DamageLaw` | `damage_law`, `evolute`: the history update | |
| `Constitutive` | the abstract promise: every point is a material with memory | `DamageLaw` |
| `Micropp` | the object, its caller, main thread, tasks, restart, new objects | `DamageLaw`, `Promise == INSTANCE Constitutive` |
| `MCMicropp` | instances of `Micropp` | `Micropp` |
| `Micropp_proofs` | theorems about `Micropp` | `Micropp`, `TLAPS` |
| `GaussPoint` | the solution of one point in detail | |
| `GaussPoint_proofs` | theorems about `GaussPoint` | `GaussPoint`, `TLAPS` |
| `Grid` | nodes, elements, the 27 slots of a row, `cols_row` | |
| `EllCols` | `ell_init_cols`, `distribute` and the users of the table | `Grid` |
| `ClusterMem` | constructor, `homogenize()` and `update_vars()` on a cluster: which node has which copy | `EllCols` |
| `ClusterMem_proofs` | theorems about `EllCols` and `ClusterMem` | `ClusterMem`, `TLAPS` |
| `Assembly` | adding up element matrices and vectors in the CPU, OpenACC and CUDA builds | `Grid` |
| `DeviceSum` | the three CUDA kernels behind a scalar product of the solver | |
| `DeviceSum_proofs` | theorems about `DeviceSum` | `DeviceSum`, `TLAPS` |
| `DeviceIteration` | the parallel part of a Newton iteration: assembly, then the kernels | `Assembly`, `Kernels == INSTANCE DeviceSum` |
| `DeviceIteration_proofs` | theorems about `Assembly` and `DeviceIteration` | `DeviceIteration`, `KernelProofs == INSTANCE DeviceSum_proofs`, `TLAPS` |
| `Material` | the three material laws along one direction of strain | |
| `Material_proofs` | theorems about `Material` | `Material`, `TLAPS` |
| `Equilibrium` | Newton and conjugate gradient on the nodes of the grid | |
| `Geometry` | `get_elem_type`: spheres, layers, fibres, bars | |
| `Cell`, `MCCell` | a cell from its constructor to the linear systems it gives the solver | `Equilibrium`, `Geometry` |
| `Cell_proofs` | theorems about `Equilibrium` and `Cell` | `Cell`, `TLAPS` |
| `Restart`, `MCRestart` | restart files of several ranks, and the end of the job at any moment | |
| `Restart_proofs` | theorems about `Restart` | `Restart`, `TLAPS` |

### `Micropp` and the code

Buffers are `<<g, "dn">>`, `<<g, "dk">>` (the slices of `dvars_n`, `dvars_k`),
`<<g, "hn">>`, `<<g, "hk">>` (the pair `read_restart` allocates) and `<<g, "un">>`,
`<<g, "uk">>`; `vars_n`, `vars_k`, `u_n`, `u_k` are pointers to them, `varsMem`
and `uMem` their contents. `host` is where the main thread is, `igp` its loop
counter, `routine[g]` where the solution of a point is.

| Action | Code |
|---|---|
| `Init`, `Recreate` | constructor with its `init_gp` tasks; `delete` and `new` |
| `SetStrain`, `HomogenizeLinear`, `UpdateVars` | `set_strain`, `homogenize_linear()`, `update_vars` |
| `Homogenize`, `LoopLinear`, `LoopSpawn`, `LoopInline`, `InlineReturn`, `Taskwait` | `homogenize()`, one action per branch of its loop |
| `StartTask` | the runtime gives a task to a worker |
| `NewtonSolve`, `SubIterate`, `EvolveVars` | the three parts of `homogenize_fe_one_way`, and of `homogenize_fe_full` up to the tangent |
| `WriteRestart`, `ReadRestart` | the routines of these names for all points |

A field is the strain norm it reaches, a history the largest norm a cell has
been driven to: `evolute` sees nothing else. A cell stands for its most strained
point. `NewtonOutcome` is a solution that converges on the strain or does not
and leaves any of the fields `Stray`. The two writes of `EvolveVars` that the
code makes for an allocated point (through `vars_new = vars_k`) and for one that
has just become non-linear (`memcpy` from `vars_new_aux`) are its two branches;
a point that stays unallocated writes nothing.

### `GaussPoint`

`Micropp` takes the solution of a point in three steps; `GaussPoint` takes it
apart: entry, iteration and the two exits of `newton_raphson`, sub-iterations
from `strain_old`, stress, `calc_vars_new`, and the perturbed solutions of
`homogenize_fe_full`. `NewtonExhausted` is the exit on which the last residual is
not tested, as the code leaves it; the specification asks only that `converged`
is never claimed for it. Whether a residual is small is chosen freely at each iteration.

`Init` is a point before its first `homogenize()`: a new one, not allocated and with the
field `calloc` left, or one that `read_restart` has made, allocated and with any saved field
(`Saved`). Either way `strain_old` is what its memory held (`Found`): `gp_t::init` does not
write it, and restart files do not carry it.

Three variables are not of the code: `work`, the number of CG iterations really
made in a call; `start`, the boundary values `newton_raphson` found in the vector it was
given; `committed`, that `update_vars()` has been called on the object.

### `EllCols`

The main thread runs `distribute`, spawns, and waits; each task writes its planes
one after the other. The nine-line neighbour table of the code is `Offset`: slot
`s` is the neighbour at `(s mod 3, s / 3 mod 3, s / 9) - 1`, and a neighbour
outside the grid is column 0. The table is asked for when `ell_init_cols` returns:
`TableComplete` and `UsersFindTheirColumns` speak of that step.

### `ClusterMem` and the runtime

Its first phase is `EllCols`; then `InitGp` are the `init_gp` tasks of the
constructor, `HomogenizeTask(w, p, ...)` the task of point `p` on node `w`, with the
accesses `In` and `Out` of its pragma, `Taskwaited` and `UpdateVars` the main thread.
`copy[w]` is the memory of node `w`, `latest` the directory of the runtime, and
`one` what a single memory would hold if every step were made there. A buffer holds
the sequence of trials that led to its contents.

The runtime (`CopiedIn`, `EndOfTask`, `PointsAreBack`) is external and modelled from
what the pragmas and the comments of the code take for granted: an `in` or `inout`
region is copied from the node of its latest version before the task starts; the
node of a task that has an `out` or `inout` region has the latest version after it,
written or not; `taskwait` brings the points, from `rrl_malloc`, back to the main
node, since `update_vars()` and the getters touch them there with no task, and it
leaves `rrd_malloc` memory where it is. The tasks of one call share no region, so
that any order of them is an order of whole tasks.

`out(vars_k)` is a promise that a point which stays linear does not keep, and the
directory then takes a node for the latest that never wrote. `ClusterIsOneMemory`
holds all the same, because of `LinearIsAsFound`: both histories of such a point are
as the memory was found, on every node. This rests on new memory being the same on all
nodes (`Found`); see the first item of section 6.

### `Geometry` and `Cell`

Lengths are in 600ths of the side of the cell, in which the radii, centres and grid
points of the code are integers; comparing squares of integers decides as the
comparison of doubles does unless the two sides are equal, and grids on which a
centre is exactly as far from an axis as the radius are left out for the structure
concerned (`MCCell`, `Rounded`). `point_inside_cilinder_inf` computes the sine of the
angle between an axis and the place of a point relative to `center`; at `center`
itself that is 0 / 0, hence the first conjunct of `InsideCilinder`.
`SetElemTypes` and `CalcVolumeFractions` are the loops of the constructor, then
`Equilibrium` takes over, and each row of the matrix names the elements in it.

### `Restart`

One action per thing a process may be between when it dies: a rank opens its file
(which truncates it), writes a piece, closes it; reads a point. `igp` is the variable
of the loop a rank is in, `put` the pieces of that point it has written, `get` how far
its input stream has come. A point writes its flag and, if it is allocated, the pieces
of `vars_n` and `u_n` (`Record`). `ReadWith` reads a point at the place of the stream,
and past the end of the file leaves everything as it is, as the code does, which
looks at no result of `read`: a point whose record is cut gets zeros in the rest of
`vars_n`, from `calloc`, and keeps its `u_n`. The next point is read behind as many
pieces as the flag called for, whether they were there or not. A piece is written and read as a whole. `meant` is what a file was last opened
to be given, `whole` whether all ranks came back from the call that wrote it.
`RollBack` reads into the objects in use, `StartAgain` into new ones.

### `Assembly`

A parameter chooses the build and the routine. A thread takes the next element of
its loops (`Mine`), and adds its 64 or 8 numbers one by one: in one step where the
code has `+=` or an atomic update, in two (`ReadOld`, `CompareAndSwap`) where CUDA
has its compare-and-swap loop. A sum is the bag of the numbers added into it, and
`<<e, k>>` the `k`-th number of element `e`, so that a place tells whose numbers are in it
and how often. That is a statement about placement and not about values, which with a
history differ between the builds: the CUDA element routines take the material with
`vars = nullptr` (`src/cuda/assembly.cu:147` and `:245`), the CPU and OpenACC ones with
`vars_old`. `CopyBack` is the host's return from the routine; the properties are about that
step. A kernel always has its data here; what `assembly_rhs_kernel` does with the host
pointer it is given is not modelled (section 6).

### `DeviceSum`

A thread is `<<block, lane>>`; its program counter stands before a load, at a
barrier, or at a level of the tree, and `Syncthreads` lets a block go on when all
its lanes have come. Numbers are bags of the terms added into them. In
`ell_mvp_kernel` a lane may load its next row while lane 0 saves this one;
`reduce` has no barrier at all. `DeviceIteration` lets the kernels follow an
assembly of the matrix on the host's single stream.

### `Material`

The stress and the internal variables of one integration point along one fixed
direction, of the normal strains or of the engineering shear strains, so that
tensors are numbers. `Homogenize` is `get_stress` and `evolute` on the old
variables, `UpdateVars` the exchange. Strains, moduli and limits are integers, in
units chosen so that every division of the laws comes out even.

### `Equilibrium`

One action per routine, and one per loop over a face: `FacesOfDispl`,
`FacesOfRhs`, `FacesOfMat` are the loop bounds of `set_displ_bc`, `assembly_rhs`
and `ell_set_bc_3D`. Vectors are sets of nodes that may be non-zero, so
`CgIterate` propagates what `ell_mvp` can touch.

## 3. Runs

| Run | Instance | What it shows |
|---|---|---|
| `micropp_tasks` | 4 points: one-way, full, one-way, linear (mixture rule); 2 workers; every load passes the limit | `TypeOK`, `BuffersDisjoint`, `TrialEvolvesCommitted`, `CommittedIsStable`, `HomogenizeReturns` and `ImplementsConstitutive` under every interleaving of the tasks and the main thread, accepted and rejected trials |
| `micropp_history` | 1 point, histories up to 3, loads {1, 3}, stray field 2, restart files and new objects | `UnallocatedIsVirgin`, `StressAnswersStrain`, `PassedLimitIsReported`, `HistoryGrows`, and that `Micropp` implements `Constitutive` |
| `micropp_recycled` | 1 point, memory with any contents | violation, section 6 |
| `micropp_output` | 1 point | violation, section 6 |
| `gauss_point` | one-way and full, 2 strain components, Newton up to 2 iterations, 2 sub-iterations or none (`nsubiterations = 0`), `lin_stress` off; new and restored points, `strain_old` found in memory: 0, or a value no load has | `ConvergedIsHonest`, `FieldCarriesStrain`, `SubStepsAreIncrements`, `CostIsWork`, `TangentIsComplete`, `CallReturns` |
| `gauss_lin_stress` | full, `lin_stress` on | violation, section 6 |
| `cluster_memory` | 3 x 3 x 6 grid, 4 and 7 cluster nodes of which 3 are followed, 2 points, 3 calls | `RegionsDisjoint`, `TableComplete`, `UsersFindTheirColumns` of the table; `ClusterIsOneMemory`, `LinearIsAsFound` of the points, on whatever nodes their tasks run |
| `cell_grids` | 11 structures; all 64 grids from 2 x 2 x 2 to 5 x 5 x 5 nodes, 6 x 7 x 6 and 4 x 6 x 7 | `CellTypeOK`, `FibresRunThrough`, `SystemIsOfTheCell`, `BoundaryIsImposed`, `BoundariesAgree`, `CgStaysInside` |
| `device_iteration` | 4 x 2 x 2 nodes, hence 3 elements in a row; 1 thread, a thread per element, 2 CUDA threads; then 5 rows of 3 columns on 2 blocks of 4, 3 blocks of 2, one of 2 | `MatrixAssembled`, `ResidualAssembled`, `PartialSumsComplete`, and `IterationEnds` (compare-and-swap loops end, all threads come to all barriers) |
| `device_reduce` | the kernels alone | violation, section 6 |
| `material_laws` | elastic, plastic and damage, with hardening or none; no limit, the one hardening starts at, and one above 256; strains 0, 256, 512 of both signs; 3 commits | `StressOnYieldSurface`, `LinearTrialIsForgotten`, `CommittedIsSettled`, `TangentNotNegative`, `HistoryNeverShrinks` |
| `restart_files` | 2 ranks of 2 points and 1, 2 restart numbers, 2 steps, 2 calls of `write_restart`, 3 load histories | `RestoredIsWritten`, `TornIsWrittenOrNone`, with an end of the job anywhere |

**Bounds, and why they are enough.** Points interact only through buffers, the
loop and the workers: two are enough for a shared buffer, four to have a task
running before and after an inline point and two tasks for two workers.
`micropp_tasks` explores schedules with one load and `micropp_history` load
histories with one point; the proofs cover every combination of the two.

The law distinguishes strains below the threshold, above it and above the history: `Xt = 1` with strains up to 3
gives 0 and 1 (elastic), 2 and 3 (two different excursions). The memory of a
trial reaches back over one commit, so every pattern of accepted and rejected
trials occurs within the finite state graph, which TLC explores completely: no
counter in `Micropp` grows. In `GaussPoint` two Newton iterations distinguish
the first, the last and the one after the last; two sub-iterations an
intermediate from a last one; `Found` has the value the code's initialiser names and one no
caller imposes, so that a `strain_old` nobody wrote differs from every committed strain. 3 x 3 x 6 with four nodes has a remainder
(2, 2, 1, 1) and inner, face, edge and corner nodes; 5 nodes in a direction give
inner nodes that touch no boundary. Seven nodes for six planes leave one without.
In `ClusterMem` a version may be on the main node, on the node of the task or on a third
one; three trials let a point stay linear, pass its limit and evolve again, with a
commit or a rejection after each; two points show that one is not copied with the other.
The grids of `Cell` have even and odd numbers of elements in every direction (a centre in
the middle of the cell or none), and the two finer ones have elements in the layers of
`MIC3D_8`; `geo_param = 140` is a radius that cuts some elements of every row off.
In `Restart` a file of two points has something after a point, and the
two ranks have files of different lengths; two calls are an overwritten set, and a good
one beside a torn one; the load histories let points pass their limits in both orders or
never. A job that was started from files that are not whole is not followed further
(`GoesOn`): the properties are about the moment after the read.
The launch sizes of `DeviceSum` have every ragged end: more lanes than columns, more components than
one block takes and fewer than all, more rows than blocks, more block sums than
lanes of `reduce`. In `Assembly` three elements share faces in a row and two
threads have two and one of them, so that neighbours meet in the same place.
`Material` needs two sizes on either side of the limits and three commits for an
excursion, a reversal and a return; its strains are multiples of 256 because each
shear flow divides by two or four. `PartialSumsComplete` is
checked where a launch covers the data (`LaunchesFit`); that the constants
of the code do for its grids is not checked.

The bounds that are not of the program are `Loads`, `Found`, `Stray`, `MaxEps`, the
`Sizes` of `Material` and `Equilibrium`, `Kas`, `Xts` and `geo_param` (the data), and
`MaxCommits`, `MaxTrials`, `MaxStep`, `MaxWrites`, `Id`, `Worker`, `NV`, `NU`; `CgIts`, `NrMaxIts`, `CgMaxIts`, `NSubs`, `NodesNr`, the launch
sizes and the grids are parameters of the code, here small.

`CHECK_DEADLOCK FALSE` is used for `ClusterMem`, which stops after `MaxTrials` calls,
and for `DeviceIteration` and `DeviceSum`: each is one call of a routine, and ends.

**Fairness.** `Micropp!Fairness`: the main thread is a running thread (weak
fairness of `Loop`), and the runtime serves every spawned task (weak fairness of
`Solve(g)` for each point). Nothing obliges the caller to call. Weak fairness of
`StartTask` is enough because a worker, once free, stays free until somebody
starts. `GaussPoint` is straight-line code on a thread that runs: weak fairness of
its steps. `DeviceIteration` assumes only that some thread of the device goes on
while one can (weak fairness of `IterationNext`): a hang is then a state in which none
can. No fairness is assumed of single outcomes: a solver may fail for ever. The other
modules are checked for safety alone, and state no fairness.

## 4. The abstract specification

`Constitutive` says what the macro code may rely on: a committed history per
point; `Begin`, `SolvePoint` in any order, `Finish`; `Commit` makes the trial
history permanent, a new `Impose` or `Begin` drops it; `Save`, `Renew`, `Restore`. No tasks,
buffers, pointers or files appear. `Micropp` maps to it by

- `hist[g] = Threshold(varsMem[vars_n[g]])`, a history below the threshold
  being the same as none,
- `trial[g]`: the same through `vars_k` for a point this call has solved,
- `nl = allocated`, `done` the points solved, `saved` the file.

The mapping is `HistBar`, `TrialBar`, `DoneBar`, `PhaseBar` and `SavedBar` of `Micropp`.
`ImplementsConstitutive` is checked in `micropp_history` and `micropp_tasks`, and proved
(section 5). That it holds for a point that stays unallocated depends on both its buffers
being virgin, which is the heart of the proofs.

## 5. What is proved

### The object: `Micropp_proofs`

It is about every number of points, every coupling, number of
workers, load set, failure set and threshold, from `MicroppAssumption` and
`LawAssumption` alone.

The inductive invariant is
`Inv == TypeOK /\ ControlInv /\ OwnBuffers /\ AllocatedInv`.
`BuffersDisjoint` is not inductive: after a swap it holds only because the
pointers of a point stay in buffers of that point, hence `OwnBuffers`. That
nothing is solved outside a call, and only points with a cell, is `ControlInv`;
without it `EvolveVars` could write after a commit. `AllocatedInv` says that a
new object has no history and a linear point never has.

| Theorem | States |
|---|---|
| `Invariance` | `Spec => []Inv` |
| `TypeCorrectness` | `Spec => []TypeOK` |
| `BuffersStayDisjoint` | `Spec => []BuffersDisjoint` |
| `CommittedStability` | `Spec => CommittedIsStable` |
| `UnallocatedStaysVirgin` | `FreshIsVirgin` implies `Spec => []UnallocatedIsVirgin` |
| `TrialsEvolve` | `FreshIsVirgin` implies `Spec => []TrialEvolvesCommitted` |
| `HistoriesGrow` | `FreshIsVirgin` implies `Spec => HistoryGrows` |
| `PassedLimitsAreReported` | `FreshIsVirgin` implies `Spec => []PassedLimitIsReported` |
| `StressesAnswerStrains` | `Spec => []StressAnswersStrain` |
| `Implementation` | `FreshIsVirgin` implies `Spec => ImplementsConstitutive` |

Those with `FreshIsVirgin` are about histories: fresh memory holds
no history. Pages straight from the operating system satisfy it, and no line of
the code establishes it; `micropp_recycled` shows what happens without it, so
the assumption is stated and not hidden in `Init`. `TrialEvolvesCommitted` speaks of the end of a call; its inductive form
`SolvedTrial` speaks of each point from the moment it is solved. `HistoryGrows`
follows from the two: a commit moves `vars_k` to `vars_n`, and for a point
without a cell both are virgin.

`StressAnswersStrain` needs to know, in the middle of the loop of `homogenize()`, which
points have their stress already (`StressInv`). For the refinement, `BarInv` adds what
the files say (`FilesInv`: a record of a point that was not allocated restores a
virgin one). Each action of `Micropp` then is a step of `Constitutive` or a stutter:
`EvolveVars` is `SolvePoint`, the other parts of a task stutter; the loop's last
iteration or its `taskwait` is `Finish`; `UpdateVars` commits; and the threshold in
the mapping makes the stray trial of a linear point disappear (`LawOfThreshold`).

### The column table: `ClusterMem_proofs`, first part

For every grid, every number of cluster nodes and every order of the tasks, from
`GridAssumption` and `EllAssumption`. `TableInv` has the closed form of what
`distribute` has given out, `Dealt * Frac + min(Dealt, Mod)`, which is `nz` when all
nodes have their share; that the shares follow one another without overlap, and
that every plane below the total belongs to one (`SharesInv`); and that each task
has written the planes behind it (`TasksInv`). None of the properties is inductive:
`RegionsDisjoint` speaks of running tasks only, and `TableComplete` of the last step,
at which every plane must be traced back to a task that has ended.
`ColsRowOffsets` takes the table `cols_row` of `ell_add_3D` apart: entry `(a, b)` is
the slot of the place node `b` of an element has, seen from its node `a`.

| Theorem | States |
|---|---|
| `TableInvariance` | `Spec => []TableInv` |
| `RegionsAreDisjoint` | `Spec => []RegionsDisjoint` |
| `TableIsComplete` | `Spec => TableComplete` |
| `UsersAreServed` | `Spec => UsersFindTheirColumns` |

### The memory of the cluster: `ClusterMem_proofs`, second part

For any points, any nodes that include the main one, any number of calls, and every
placing and order of the tasks, from `ClusterMemAssumption` and those of `EllCols`.
`ClusterIsOneMemory` is inductive only with three facts beside it: that the four
pointers of a point are two pairs (`PointsInitialised`), so that what a task reads
and what it writes are different parts; that the point itself is at the main node
while its task has not run (`MainSees`), so that the task is spawned with the right
accesses; and that no node has ever written the histories of a point that stays
linear (`HistoriesAsFound`), so that the node the directory takes for the latest,
which never wrote, has what a single memory has. The heart is `HomogenizeTaskInv`:
the task sees for every part it reads what a single memory holds, its `in` and `out`
regions are all of the point, and the one part it may leave alone is covered by the third
fact.

| Theorem | States |
|---|---|
| `ClusterInvariance` | `ClusterSpec => []Inv` |
| `OneMemory` | `ClusterSpec => []ClusterIsOneMemory` |
| `LinearStaysAsFound` | `ClusterSpec => []LinearIsAsFound` |
| `TableOfCluster` | `ClusterSpec => Spec`: the constructor's table is that of `EllCols` |
| `ClusterTable` | `ClusterSpec` implies the three properties of the table |

They rest on the model of the runtime (section 2) and on `Found`: that new memory is
the same on all nodes.

### The solution of a point: `GaussPoint_proofs`

For every number of sub-divisions, Newton iterations and components, both couplings,
every sequence of strains and any `strain_old` the memory may have held, for new and
restored points, from `GaussPointAssumption`. `SubStepsAreIncrements` speaks of the entry of
a sub-iteration, the other properties of the end of the routine, and all of them need an
invariant about its middle: `PlaceInv` ties the boundary values of the vector being solved to the place of the
routine (the whole strain, sub-step `k` or perturbation `k`), `HonestInv` the answer of
the running solver to its residual, `KeptInv` what is in `u_k` once the trial is over,
`CostInv` the iterations spent so far to `cost` and the running `newton_t`, and
`TangentInv` the columns made so far to the stress. `StartInv` says of an object that
has been committed (and does sub-iterate, `nsub > 0`) that `u_n` carries `strain_old`, and that
a sub-iteration has found in its vector the strain the one before it was for. That the
sub-steps end at the whole strain, and that each is one increment from the last, are lemmas
about the increments (`IncrementsAddUp`, `LastSubStrain`, `StartStrains`, `IncrementsMakeStrain`).

| Theorem | States |
|---|---|
| `TypeCorrectness` | `Spec => []TypeOK` |
| `ConvergenceIsHonest` | `Spec => []ConvergedIsHonest`: the last solution made, for the whole strain, has met the tolerance; an earlier sub-iteration may have failed |
| `FieldsCarryStrains` | `Spec => []FieldCarriesStrain` |
| `SubStepsAreOfIncrements` | `Spec => []SubStepsAreIncrements`, from the first commit on |
| `CostsAreWork` | `Spec => []CostIsWork`: the CG iterations of a call, of FE_ONE_WAY points only |
| `TangentsAreComplete` | `Spec => []TangentIsComplete` |

That both stresses of a tangent are of one law is no theorem: the default build refutes it
(section 6, `gauss_lin_stress`).

### Equilibrium and the cell: `Cell_proofs`

For every set of grids and all limits of the iterations. `DisplInv`, `RhsInv` and
`MatInv` say what the three routines have done after `face - 1` of their six loops;
that the loops together are the boundary, each in its own bounds, are the lemmas
`DisplCovers`, `RhsCovers` and `MatCovers`. `EightAround` counts the elements around an
inner node. A product with the matrix stays inside (`ProductInside`) because the rows
of the boundary are replaced, which is why `CgStaysInside` is inductive only with
`MatInv` and `RhsInv`. A cell implements `Equilibrium` (`CellSolves`), so the theorems
carry over to it (`CellEquilibrium`).

| Theorem | States |
|---|---|
| `TypeCorrectness` | `Spec => []TypeOK` |
| `BoundaryStaysImposed` | `Spec => []BoundaryIsImposed` |
| `SystemsAgree` | `Spec => []BoundariesAgree` |
| `CgNeverLeaves` | `Spec => []CgStaysInside` |
| `CellSolves` | `CellSpec => Spec` |
| `CellEquilibrium` | `CellSpec` implies the three properties above |
| `CellTypeCorrectness` | `CellSpec => []CellTypeOK`, with `Vm + Vf` the whole cell |
| `FibresGoThrough` | `CellSpec => []FibresRunThrough` |
| `SystemsAreOfTheCell` | `CellSpec => []SystemIsOfTheCell` |

The last two hold for every grid in which the centres of the elements are whole 600ths
(`CellAssumption`) and every `geo_param`. `InsideIsWithin` shows that
`point_inside_cilinder_inf`, which goes by way of an angle, decides by the distance from
the axis but at the point `center` itself. For the symmetry, `FibresMirrored` finds for
every fibre its mirror image among the fibres of the structure; a fibre along the
direction that is mirrored is its own image although `center` is not, which is right
because no element has its centre on a face of the cell (`CentresInCell`).
`ElemTypeReflected` adds spheres, bars and layers, and `ElementsMirrored` the rows.

### The material laws: `Material_proofs`

For every yield stress, hardening and limit and every sequence of strains and commits,
from `MaterialAssumption`. `CallInv` says that stress, answer and new variables are those
of one call with the old ones, and after a commit of that call with the sides exchanged.
The heart of the plastic law is `RadialReturn`: a flow takes the trial stress back by
`2 * Dl`, never beyond zero.

| Theorem | States |
|---|---|
| `HistoriesNeverShrink` | `Spec => HistoryNeverShrinks` |
| `LinearTrialsAreForgotten` | `Spec => []LinearTrialIsForgotten` |
| `StressesOnYieldSurface` | `Spec /\ []DivisionsAreExact => []StressOnYieldSurface` |
| `CommitsSettle` | `Spec /\ []DivisionsAreExact => []CommittedIsSettled` |
| `TangentsNotNegative` | `Spec /\ LimitHardens /\ []DivisionsAreExact => []TangentNotNegative` |

`DivisionsAreExact` says that `FTrial \div (2 + Ka)`, in the code a quotient of doubles,
leaves no remainder for the strains of the instance. It is about the integers of the
model and not about the code: of a history in which it fails the model would say
something the code does not do. In `material_laws` it holds in every state. The first
two theorems need no such hypothesis.

`TangentsNotNegative` compares two strains, not two states. Two plastic answers to the
same history are compared through their flows, of which the larger belongs to the larger
trial stress (`FlowGrows`). For the damage law the two strains may be both above the
threshold, both below or one of each (`BothBelow`, `OneBelow`, `NoneBelow`), and
what joins the pieces is that the history kept in `r` has a stress of its own that answers
it (`KeptInv`) and that hardening never lowers that stress (`HardeningGrows`).
`LimitHardens` says that the damage limit `Xt` is 0 or not below `Ey`, the strain
`hardening_law` starts at. No line of the code asks for it: for an `Xt` between the two the
stress grows up to the limit and then drops to 0, since the law answers 0 below `Ey`.
Every damage material of the repository satisfies it, with `Xt` of 1.0e5 (which is `Ey`) or
1.0e6, or with 0.0, as in `test/test_restart.cpp:78` and `test/mpi-load-balance.cpp:89`: such
a material has no elastic range, and no stress at all up to `Ey`. The limits of
`material_laws` are of each of the three kinds.

### Restart files: `Restart_proofs`

For any ranks, any points of each, any restart numbers and load histories and any size
of the arrays, with the end of the job between any two pieces, from
`RestartAssumption`. `Before(w, p)` is how many pieces come before point `p` in a file
that is to hold `w`; it grows by the size of a record (`BeforeNext`), so that records
do not overlap (`Places`). The invariant: every file is the beginning of the records it
was last opened to be given (`FileInv`), all of them if its set is whole (`WholeInv`);
a rank that writes has what it writes unchanged in memory and is at the place its loop
says (`WriteInv`); a rank that reads is where the record of its point begins, or past
the end of a torn file (`ReadInv`), with the points before it read and, in a new object,
those after it new. `ReadPointLaw` is what one `gp_t::read_restart` does in either place.

| Theorem | States |
|---|---|
| `RestoredAreWritten` | `Spec => []RestoredIsWritten` |
| `TornAreWrittenOrNone` | `Spec => []TornIsWrittenOrNone` |

### Assembly in parallel: `DeviceIteration_proofs`, first part

For every grid, every build, every number of CUDA threads in each direction and every
order of their steps, from `GridAssumption` and `AssemblyAssumption`. The invariant
`AddedUp` says what is in the sums in the middle of the routine: exactly the numbers
`Entered`, those of the elements a thread has left behind and of the element it is at up
to `k`. It is inductive because

- the strides of the threads share the elements out: every element is of one thread and
  of one only (`ElementsShared`, from `StridesCover` and `StridesApart`);
- a compare-and-swap that succeeds adds to what the place holds at that moment, whatever
  the thread read before (`NumberAdded`), so that no other thread's number is lost, and
  one that fails adds nothing;
- a number goes into one place (`OneMore`).

When all threads are done, `Entered` is every number of every element (`AllEntered`).
That the sums then are those of `WholeMatrix`, stated by corners and neighbours and without
`cols_row`, needs that the entry `(a, b)` of `cols_row` is the slot of node `b` seen from
node `a` (`ColsRowOffsets`) and that two slots of a row are two places (`SlotsApart`).

| Theorem | States |
|---|---|
| `AssemblyInvariance` | `Spec => []AssemblyInv` |
| `MatrixIsAssembled` | `Spec => MatrixAssembled` |
| `ResidualIsAssembled` | `Spec => ResidualAssembled` |
| `IterationMatrix`, `IterationResidual` | the same of `FairIteration`, the specification `device_iteration` checks |

### The kernels of the solver: `DeviceSum_proofs`, `DeviceIteration_proofs`

For every matrix and every launch that covers it (`LaunchesFit`: blocks of a power of two
lanes, at most 1024, as many lanes as columns, as many threads as components) and every order of
the threads. `PartialSumsComplete` speaks of finished kernels; the invariant `SumInv`, checked
by TLC on small launches before it was proved, speaks of a lane in the middle of its tree:

- *the lanes of a block are in step*: between two barriers all of them are at one
  level of one row (`Level`, `Round`, `InStep`), where "lane 0 saves the row while others
  load the next" counts as one level, 0;
- *a cell has the terms of `d` lanes* when its lane has its turn at distance `d`, and
  a lane that has just gone without its turn still has those of `d / 2`, for the partner
  that may be about to read it (`CellOK`). This is what a barrier per level is for: a
  partner cell is complete before it is read (`PartnerReady`) and not written until
  the next barrier;
- *the root has the whole row* when the distance has reached the block (`RootComplete`),
  and it is saved before lane 0 loads again; the rows of two blocks are different rows
  (`RowsApart`).

`reduce` has no such theorem, since it is refuted (`device_reduce`).
`IterationSumsAreComplete` is the theorem about the kernels after an assembly, whose
steps leave the kernels alone; there `IterationAssumption` is `LaunchesFit`.

| Theorem | States |
|---|---|
| `SumInvariance` | `LaunchesFit` implies `Spec => []SumInv` |
| `SumsAreComplete` | `LaunchesFit` implies `Spec => []PartialSumsComplete` |
| `IterationSumsAreComplete` | `FairIteration => []PartialSumsComplete` |

### Only model-checked

Every invariant and action property that a passing run checks is stated by one of the
theorems above, and so is the refinement of `Constitutive`. Three properties stay with
TLC: `HomogenizeReturns`, `CallReturns` and `IterationEnds`, the liveness under fairness,
which together with ENABLED is outside the reach of the prover. What a recursive definition
computes for all inputs cannot be proved with the installed provers either; no module here
declares a RECURSIVE operator.

What the theorems take as a hypothesis and the code does not establish: `FreshIsVirgin`
(memory), `LimitHardens` (material data), `LaunchesFit` (launch sizes, which the code has as
constants), `DivisionsAreExact` (integers of the model), and the model of the runtime with
`Found` (cluster).

## 6. Where code and documents disagree

- **Histories in memory nobody wrote** (`micropp_recycled`). `gp_t::init` clears
  `u_n` only; `vars_n` is read as the old history from the first call on. In
  memory an earlier object has used, a point passes its limit unreported.
- **Output after a commit** (`micropp_output`). `output` and `output2` combine
  `u_k` with `vars_n`; after `update_vars()` these belong to different steps,
  and several tests call them there.
- **Tangent with `lin_stress`** (`gauss_lin_stress`). With the default, the
  tangent of a `FE_FULL` point subtracts a stress of another law.
- **The last reduction** (`device_reduce`). In `reduce` thread 0 adds up the cells
  of 1024 threads with no `__syncthreads()` after they are written; a scalar
  product may lack terms or hold what was in shared memory before.

Some more that no run refutes, because no document states the opposite of what the
code does in a form a property could take:

- **The first sub-iterations.** `strain_old` has the initialiser `= { 0.0 }`
  (`include/gp.hpp:42`), but `gp_list` is raw memory on which no constructor runs,
  `gp_t::init` does not write it, and a restart file does not hold it. If the first trial
  of a new or restored object fails, the sub-iterations set off from whatever is in that
  memory, while their field is that of `u_n`. They arrive at the strain all the same
  (`FieldCarriesStrain`); but that each of them is one increment of the strain away from the field it
  starts from, which is what they are for, holds only once a step has been committed:
  this is the hypothesis `committed` of `SubStepsAreIncrements`, which fails without it.
- **CUDA and the history.** The element routines of `src/cuda/assembly.cu` have
  `vars = nullptr` (lines 147 and 245) and do not use the `vars_old` that `assembly_mat` and
  `assembly_rhs` are given: with a history, their matrix and residual are not those
  of the other builds. `MatrixAssembled` and `ResidualAssembled` are about whose numbers
  are added where, which is the same.
- **A host pointer on the device.** `assembly_rhs` of the same file copies `u` to `u_d` and
  then launches `assembly_rhs_kernel` with `u` (line 329); no result of a CUDA call is
  looked at. With separate memories the kernel has no displacement to work on.
- **Plastic flow in shear.** `evolute` (`src/material.cpp:247`) adds the flow
  `dl * normal` to all six components of `eps_p`, and `get_dev_tensor` and
  `s_trial` treat the last three as engineering strains, twice the tensor
  component. After a commit the same shear strain is outside the yield surface
  again; the shear branch of `CommittedIsSettled` says by how much it flows.
- **The manual's return mapping.** `doc/manual.tex` divides the trial function by
  `2 mu (1 + Ka)`, the code by `2 mu + 2/3 Ka`. The code's is the one for which
  `StressOnYieldSurface` holds; the manual's appears as the mutated definition
  `DlOfManual`.
- **A hole in a fibre.** `point_inside_cilinder_inf` (`include/util.hpp:155`) "Returns
  <true> if <point> is inside the infinite cilinder", but not for the point `center`
  itself, where the cosine is 0 / 0. A grid with odd numbers of elements has an element
  centred there: `MIC_CILI_FIB_X` and `_Z` lose the middle one. `FibresRunThrough` states
  the exception.
- **Names of restart files.** The comments of `write_restart` and `read_restart` say
  `.dat`, the code `.bin`.
- **Torn sets of files.** Each rank overwrites its own file; after a job has died in
  `write_restart`, ranks may read files of different steps, or half of one, and nothing
  reports it. `TornIsWrittenOrNone` says what is left of a rank's history then.
- **Reading into an object in use.** A point that is not allocated in the file keeps the
  evolved `vars_n` of the object (`include/gp.hpp:130`); `test_restart.cpp` reads into
  the object that has just written the file, where the two are the same.
- **`micropp3_new`.** The C and Fortran constructor (`src/micropp_c.cpp`) leaves
  `calc_ctan_lin` at its default, true, which with any finite element point ends in
  `assert(0)` (`src/micropp.cpp:197`); built with `NDEBUG` the tensor is computed.
- **Distributed memory outside tasks.** `src/micropp.cpp:198` says of code that reads
  `rrd_malloc` memory that it "needs to be a task". FE_FULL points, `output`,
  `write_restart` and `read_restart` touch the vectors of the points in the main thread.

## 7. Plan

Done, in this order: `Micropp` with its proofs, `GaussPoint`, `EllCols`,
`Equilibrium`, `DeviceSum`, `Assembly`, `Material`; then `Restart`, `Geometry` with
`Cell`, `ClusterMem`, `DeviceIteration` to put the device modules together; the
proofs about `EllCols` and `ClusterMem`; then the refinement of `Constitutive`, and the
proofs about `GaussPoint`, `Equilibrium`, `Cell`, `Material` and `Restart`; last those about
`Assembly`, `DeviceSum` and `DeviceIteration`, and the sign of the tangent.

Left:

1. Lifecycle: what constructor and destructor allocate and free, `gp_counter`
   across objects.
2. The vector updates and buffers of the CUDA solver; the globals of the device.
3. The timers, the partition of points in the MPI driver, the two tables of spheres and
   oblique fibres.

## 8. What is not modelled, and why

- Multiaxial stresses, stiffness and tangents, averages, and the laws of
  mixture are arithmetic over doubles; no control flow but
  the tests that are nondeterministic here depends on them. `Material` has their
  one-dimensional sections.
- `MIC3D_SPHERES` and `MIC3D_FIBS_20_DISORDER` are tables of decimal fractions given to
  the same two tests as the other structures, with no symmetry to state.
- CUDA and OpenACC: vector updates, transfers and the two memory spaces are not
  modelled, nor are the material objects on the device. So neither `vars = nullptr` in the
  CUDA element routines nor the host pointer `u` given to `assembly_rhs_kernel` shows in
  a model (section 6): numbers are abstract, and a kernel finds its data.
- The bytes of a double in a restart file: a crash falls between two pieces of `Restart`. In
  the code it may leave a part of a double, which `read` fills to that part, over zeros in
  `vars_n` or the old number in `u_n`.
- The C and Fortran bindings forward calls unchanged.
- 2D: `micropp<2>` is not instantiated.
- nanos6 is external: what is used of it is that tasks run, that `taskwait`
  waits, that a core runs one task, and which copies it makes (section 2). What the
  main thread sees of distributed memory outside tasks is not described anywhere in
  the repository and not modelled, so FE_FULL points appear in `Micropp` and not in
  `ClusterMem`.
- The formats of the output and the log.
- A caller that commits twice, or commits without a `homogenize()`: every caller
  in the repository keeps the protocol, and the models do.
- `calc_ctan_lin` and `use_A0` end in `assert(0)` in this version.
