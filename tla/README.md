# tsp_solver in TLA+

A model of tsp_solver, a C++ library that finds short tours over a matrix of
distances, behind a C interface and two language bindings.  The modules here
translate the code under `src/src/` and the two bindings; TLC checks them on small instances and
TLAPS proves the most important results for every instance.  `PROJECT.json`
maps each definition to the lines it stands for, and lists the runs, the
theorems, the hazards and the known disagreements of code and documents.

## The system

| Component | State | Operations | Interacts with |
| --- | --- | --- | --- |
| Model handle (`src/src/c_api.cpp`) | rows of optional costs | create, destroy, add_node, set_distance, validate | the client; read by solve |
| Options handle (same file) | time limit, seed, algorithm | create, destroy, three setters | the client; read by solve |
| Solve and results (same file) | allocated results | solve, destroy, getters | copies the model to a Problem, calls one solver, owns nothing afterwards |
| Core types (`core/problem.hpp`, `core/tour.hpp`) | none | size, is_square, tour cost | every solver |
| Nearest neighbour (`algorithms/local_search.cpp`) | tour under construction, visited flags | scan, append | a solver of its own; seed of the two below |
| Cheapest insertion (same file) | the same, best place of the round | second node, insertion rounds | a solver of its own |
| 2-opt refinement (same file) | tour and cost, pair tried | reverse and restart, or go on | called by the two below |
| 2-opt local search, iterated local search (same file) | best tour, generator state | seed, refine; perturb, refine, keep | composed of the parts above |
| Held-Karp (`algorithms/held_karp.cpp`) | tables of costs and parents | fill, close, trace back | a solver of its own; throws through solve |
| Python objects (`bindings/python/tsp_solver/_binding.py`) | native handle per object, cached settings of options | constructors, methods, setters, solve, close | ctypes into the C interface |
| Python loader (`_native.py`, `_load_library`) | two cached libraries, a configured flag | load with version check, declare functions | every Python call that enters native code |
| Java objects (`bindings/java`, `tsp_solver_java_jni.cpp`) | native handle per object | constructors, methods, solve, close | JNI into the C interface |
| Java loader (`NativeLibrary.java`) | loaded flag, class monitor, bound bridge | load with version check | every constructor and solve |
| Examples, packaging, CI | none at run time | | |

The C++ core has no thread, no lock and no input or output: a call runs to its
end.  What makes it hard is elsewhere:

* **Partial failure.**  `add_node` grows every row before it appends one, any of
  these allocations can throw, and nothing is rolled back; `solve` allocates its
  result before it copies the tour into it.
* **Long call sequences.**  The client may go on calling after any failure, edit
  the model and the options between two solves, and hold results of several.
* **Numeric edges.**  The solvers use values of `Cost` as sentinels (`INT64_MAX`
  in the greedy loops, `INT64_MAX / 4` in Held-Karp) and add costs unchecked.
* **Termination.**  2-opt starts its scan again after each improvement.
* **Concurrency** comes in with the bindings: threads share objects without a lock,
  `close` meets calls in progress, a cached setting meets its native one, and the
  loaders publish what they cached, in Python without a lock.
* **Exceptions anywhere.**  In Python an exception can arrive between two bytecodes;
  a native object just made, or not yet destroyed, may have no other owner.

What makes each part correct: a model never hands a solver, or `set_distance`, a
matrix it is not; a result answers the request it was made for and belongs to
somebody; a construction makes the choice it is named for and yields a
permutation from the start node; a refinement returns a local optimum, not
worse than its seed, with the cost it claims and ends; Held-Karp returns the optimum it claims; an object of a binding names a live native
object of its own or none, every native object has an owner that will destroy it, and
no native function is called in a library that was not compared with the binding.

## Modules

| Module | Models | Notes |
| --- | --- | --- |
| `DistanceGraph` | abstract: what a model promises | a graph that grows by a node, weights, one flag "spoiled" |
| `CApiModel` | the model handle | refines `DistanceGraph` (`Graph`, `ImplementsGraph`) |
| `CApiSolve` | options, solve, results | extends `CApiModel`: `ApiSpec` is the whole C interface, `ClientSpec` has given models in place of the calls on the handle |
| `Answers` | abstract: what each algorithm may answer | used by `CApiSolve`; each algorithm is proved to keep to it |
| `Tsp` | problems, tours, wrapping cost | no state |
| `NearestNeighbor`, `TwoOpt`, `CheapestInsertion`, `HeldKarp` | one algorithm each | one action per loop round, per cell or per pair |
| `MonotoneSearch` | abstract: what a heuristic promises | finds a route, improves it strictly, stops |
| `LocalSearchSolver` | the two composed solvers | instances of `NearestNeighbor` and `TwoOpt`; refines `MonotoneSearch` |
| `JavaLibrary` | `NativeLibrary.load` | double-checked locking, one step per read or write |
| `JavaBinding` | Java objects, `Solver.solve`, the JNI functions | every constructor and solve runs through an instance of `JavaLibrary` |
| `PythonLibrary` | `_load_library` over `load_library` | no lock; each read and write of a global is a step |
| `PythonBinding` | Python objects, `solve` | every native call runs through an instance of `PythonLibrary`; exceptions from outside |
| `*_proofs` | theorems about one module each | `CApiModel_proofs` has those about `CApiSolve` too |
| `MC*`, `SmallProblems` | small instances for TLC | |

### How state and actions correspond to the code

Positions: the code counts from 0, sequences from 1; each module says where it
shifts.  Node ids, masks and matrices keep the code's numbers.

**CApiModel.**  `distances` is `tsp_solver_model::distances`.  `AddNode` is a whole
successful call; `AddNodeFails(count)` is the call that throws `bad_alloc` after
`count` rows have grown, `count = Size` being the failure to allocate the new
row itself.  The push_backs that need no reallocation cannot throw, so the code
allows fewer cases than the model: any of the model's may happen, depending on
the capacities of the vectors.  `returned` is the code and the out parameter of
the last call.  The abstract graph sees a failed addition as
`SpoilModel` when some row has grown; when none has (the first allocation failed,
or the model was empty) nothing has changed and the graph does not see it at all.

**CApiSolve.**  One action per way out of `tsp_solver_solve`, in the order of the
code: null arguments, incomplete model, memory, zero time limit, out of range, a
result, and the copy of the tour that fails after the result was allocated
(`TourCopyFails`).  `heap` is every allocated result, `held` those whose address
the client has, `code` what the last call returned.  Two fields of a result, `problem`
and `asked`, are history: they
record the model and options of the call, for the properties only.  `ApiSpec` composes
these calls with those of `CApiModel`, of which it is an extension: `distances` is one
variable, edited there and read here.  Its states are too many to exhaust with models
large enough to tell tours apart, so the run uses `ClientSpec`, where one step,
`EditModel`, leaves the client with any of a set of models, incomplete and ragged ones
included, or with none; both are proved to have the same properties.

**Answers.**  The solvers stand in `CApiSolve` by the sets of tours they may answer with.
A tour has an entry per node and starts at the node the seed selects; no node but 0 is
there twice, node 0 being what the greedy loops hold before they have found a node.  It
is a route unless the algorithm can be misled: by a distance of `INT64_MAX` the
construction all scans start from, by two-node cycles that all cost `INT64_MAX`
cheapest insertion from node 0 (`LacksSecond`).  Held-Karp answers with routes, optimal
ones when no sum reaches `kInf` (`HasSmallDistances`).  These sets are not taken on trust:
see `AnswersScan` and its like below.

**The algorithms.**  A module's variables are the function's locals; a round of the
innermost loop is an action; `Finish` is the return.  `problem` and `start_node`
are arguments that never change.  In `HeldKarp` a cell is one step: its inner loop
over predecessors is a minimum over a set, with the code's three conditions
(predecessor in the mask, its cost not `kInf`, sum at most the `kInf` the cell
starts from) and its tie-break by the lowest node.  The cutoff is tested before the
answer to a single node, as in the code.

**LocalSearchSolver.**  The construction's and the refinement's actions are those of
their modules, with `pc` substituted by a constant and the phase kept outside.
The splitmix64 generator is replaced by a free choice of two distinct positions
other than the first: every seed's behaviour is among those explored.

**JavaBinding, JavaLibrary.**  `nativeHandle` is the field, `live` the allocated
addresses.  A method is a sequence of steps of its thread: `pc` is where it is, `call`
what it has in hand, `outcome` how it ended.  `requireHandle` is two reads (`Check`,
`Read`), `close` is read, clear, release.  All methods that take one handle are `Use`:
they differ in what the native function may answer (`Codes`).  `Solve` allocates its
`Result` before it requires the handles, as `new Result(nativeSolve(...))` does.  A
native call takes effect at its end; of a destroyed object it may answer anything.
`met` and `contested` are history.  `bridge` is the version of the file the virtual
machine has bound `nativeVersionString` to: that is external, and fixed by the first
file that defines the symbols.  Reads of the unsynchronised field see the last write:
the Java memory model would allow older values, so the run says what the code
guarantees on machines and compilers that do not make use of that.

**PythonBinding, PythonLibrary.**  The same with Python's order: `close` destroys and
then clears.  One setting stands for the three of an options object, `setting` is the
native value, `mirror` the Python one.  `owned` are the options `solve` makes when it
is given none, closed in its `finally`.  `Interrupted` is an exception from outside,
possible at each step of the threads in `Interruptible` (`KeyboardInterrupt` reaches
the main thread only); `LoadFails` is one from the loader.  Both go through `Raise`,
which knows the extent of the `try`.  `stranded` records the addresses that went down
with a frame, in the places `Lost` lists: the property `NothingLost` says that there
are no others.  A loader that has fallen behind a reset returns `None`: constructors
and methods raise at once, `solve` goes on until it uses it.

**What the binding properties exempt.**  Some hazards are not avoided by the code: a field
dangles between Python's destroy and clear, or for good after an exception there; two
closes of one object destroy it twice; overlapping setters, or an exception between the
native setting and its copy, leave the two different; an exception at the end of solve loses
objects; the Python loader may answer `None`.  The properties do not claim otherwise.  They
name these moments (`BeingCleared`, `contested`, `raced`, `stranded`, an answer of `None`) and say
that there are no others: whatever else fails, interleaves or is interrupted, fields
name live objects of their own, nothing is lost, settings agree, and libraries are compared.

**Arithmetic.**  `Cost` is an integer of finite width `CostMin .. CostMax`.  A signed
sum that overflows is undefined in C++; the model takes the two's complement
result (`Wrap`), which is what the repository's builds produce without a
sanitizer.  Widths are 4 to 8 bits in the runs, so overflow and the sentinels are
within reach of three or four nodes.

**Mutants.**  Operators whose comment begins "Mutant:" are defects a change of the
code could introduce.  No specification uses them; each is substituted for the
definition after it to see that a property notices.

## Runs

| Run | Shows | Distinct states |
| --- | --- | --- |
| `capi_model` | every call sequence, failures anywhere: rows cover the nodes, nothing lies beyond them, ids name rows, ragged models stay ragged and are never valid; the matrix implements the graph | 48,975 |
| `capi_solve` | results answer their own request, misled algorithms included; OPTIMAL is said of optimal tours | 410,970 |
| `capi_solve_leak` | violation: a result leaks when the copy of its tour fails; over `ApiSpec`, so after real calls on the handle | |
| `nearest_neighbor` | permutation unless a sentinel distance exists; only node 0 can repeat; each hop greedy | 25,281 |
| `nearest_neighbor_sentinel` | violation: with a distance of `INT64_MAX` the tour repeats node 0 | |
| `two_opt` | route, the cost it claims, local optimum, ends; in integers without a width too, never longer than the seed and at last a local optimum, unless whole tours overflow | 124,381 |
| `cheapest_insertion` | with distances small enough that no sum of a round overflows, each round picks the best of all whole tours one insertion away; permutation if a second node can be found, and what is returned if not | 28,776 |
| `held_karp` | each cell against all paths, the answer against all tours, reconstruction even under overflow | 98,271 |
| `held_karp_truth` | violation: large distances make the exact solver fail or miss the optimum | |
| `local_search_solver` | both solvers implement the monotone search; the result is a local optimum | 21,187 |
| `java_binding` | until two threads close one object together: fields name live objects, each released once; always: nothing leaks, a closed object answers IllegalStateException, no other version's bridge is used | 60,761 |
| `python_binding` | the exact places where an exception loses a native object; fields name live objects but for the moment between destroy and clear; cached settings match unless setters overlap; the loader hands out only libraries that were compared | 1,561,726 |

### Bounds, and why they are enough

* `capi_model`: node ids 0..2, so that the range check is met; rows of at most four
  entries (`MaxRowLength`), one more than a row of three nodes needs: failed
  additions can overfill a row and later ones grow past it.  Three costs, one negative.
* `capi_solve`: one result at a time (`MaxResults`); seven complete models (none, one,
  two nodes whose cycle reaches `kInf`, two whose cycle costs `CostMax`, three nodes with
  and without a sentinel distance, four, which is above the cutoff of three), an
  incomplete and a ragged one; a zero and a nonzero limit, two seeds.  A second
  result would be independent of the first: solve writes to nothing but its own, which
  `HeldResultsStay` proves of any number.
* Algorithms: *every* matrix of up to three nodes over values that include a negative
  cost and a sentinel or one whose sums overflow, every symmetric matrix of four over
  two or three values, and asymmetric ones of four and five nodes.  Four nodes are
  the least with a nontrivial 2-opt move and a perturbation, five the least where an
  accepted move can make an earlier pair worth trying again.
* `two_opt`: six bits and distances up to 20, so that among the problems of three nodes are
  tours whose cost overflows, and tours whose cost fits though a sum on the way wraps.
* Held-Karp: the cutoff of 18 is four in the run, and a problem of five nodes is
  refused by it.  `NoNode` is a number no instance uses as a node.

* `java_binding`: two threads, two models (so that one can take over the address of
  another), an options object, a result, three addresses (all three objects of a solve
  live at once), a right and a wrong version.  A third thread adds no new pair of
  steps, and the properties relate two.
* `python_binding`: two threads of which one is interruptible, a model, an options
  object, a result, three addresses, two values, two libraries besides the mismatched
  ones.  `Bounded` ends a behaviour where a handle could be destroyed twice, where
  setters have overlapped, or at the second address lost: after the first two the
  properties claim next to nothing (setting and mirror influence nothing else).  With
  one options object, `solve` does not meet a library of `None` with options of its
  own; with two threads the close in its `finally` can fail only by an exception from
  outside, since making the loader fail there takes a third.

Deadlock is checked for the runs of the C API and of the bindings, where the client can
always call again.  The algorithms return, so their runs say `CHECK_DEADLOCK FALSE`;
`two_opt` and `local_search_solver` check that they stop in their final state only.

### Fairness

Weak fairness of the whole next-state relation, for the algorithms and their
abstraction only; what needs it is that 2-opt, which has no bound on its rounds, and
the solvers built on it end.  Each is straight-line code on the caller's thread, which
runs as long as the caller waits.  The C API and the bindings have none: a client need not call.

## What is proved

For every set of problems, width of costs, start node and bound, and for every
set of threads, objects and addresses:

* **CApiModel_proofs.**  `IInv` joins the types, `RowsCoverNodes`,
  `NothingBeyondNodes` and a zero diagonal.  Types alone do not say that
  `distances[from + 1][to + 1]` exists, and `EXCEPT` outside a domain changes nothing,
  so row length must be carried along; the diagonal is what `is_complete` reads for
  `from = to`.  From it: each run invariant, `RaggedForever`, `IdNamesNewRow`, the
  refinement `MatrixImplementsGraph` (one lemma per call that changes rows), and with
  `SizeInRange`, `ValidateDecidesGraph`.  Assumed: `Unset` is no cost, the
  largest id is a natural.  The bound on row length plays no part.
* **CApiModel_proofs, options, solve and results.**  `ClientInv` says that the rows are as
  solve expects them (`RowsOK`), that the options are values their setters
  allow, that what the client holds is allocated, and of each result it holds that it
  answers its request and is optimal if it says so.  That held results are allocated is
  needed for the rest: a free slot must not be one the client holds.  Each way out of solve
  is a lemma; all keep the invariant whatever model they read, provided `RowsOK`.  So it
  holds of `ClientSpec`, where the models are assumed to be so (`ModelsAssumption`): the three
  invariants of the run follow (`ClientTypeCorrect`, `ResultsAnswer`, `OptimalIsTrue`).
* **CApiModel_proofs, the whole interface.**  `ApiIsModel`: no other call touches the model,
  so `ApiSpec` implies `Spec` of `CApiModel`, and all that is proved there holds among
  the calls of solve.  From its `IInv` follows `RowsOK`, and the three invariants hold of
  the composition without an assumption on the models (`ApiCorrect`).  `SolveDecidesGraph`:
  solve goes past its checks exactly with options and a model whose abstract graph is valid.
  `SolversGetProblems`: what `to_problem` hands the solvers satisfies `IsProblem`, the
  assumption of the theorems about them.  `HeldResultsStay`: no call changes a result the
  client holds.
* **The contracts of the algorithms.**  `AnswersScan`, `AnswersInsertion`,
  `AnswersLocalSearch` and `AnswersExactly`, each in the proofs of its algorithm: what the
  function returns is in the set of `Answers` that `CApiSolve` takes it from, with
  the cost it hands back, for every problem; Held-Karp gives up only above the
  cutoff or when the distances are not small, which is the guard of `HeldKarpGivesUp`.  They
  close the circle: solve hands the algorithms problems, and they hand it such tours.
* **NearestNeighbor_proofs.**  The invariant says that `visited` is the set of nodes of
  the tour, that the best candidate is the best of those seen in this round, that the
  hops made so far were greedy, and that repeats are node 0.  The permutation needs one
  counting argument: a tour shorter than the problem leaves a node free.
* **TwoOpt_proofs.**  The invariant says the tour is a route with its cost, and that no
  pair before the current one improves it.  The reversal lemma shows that a reversed
  stretch is a permutation again.  Up to here nothing is used of `RouteCost` but that
  equal tours have equal costs, so these results hold for any cost function.
  `OverflowDoesNotMislead` is about the sums themselves.  `TrueCost` adds the same hops in
  integers without a width.  Every wrap adds a multiple of the width, so the cost the code
  computes is the true one and such a multiple (`CostIsCongruent`, an induction along the tour);
  two costs that both fit and differ by a multiple of the width are equal
  (`NoWidthBetweenCosts`).  Hence, as long as the costs of whole tours fit, the
  comparisons are of true costs, whatever wraps on the way (`CheaperIsShorter`), and the
  tour's cost, which never exceeds the seed's (`NoWorse`), is its true one.
* **CheapestInsertion_proofs.**  The invariant says that `visited` is the set of nodes of
  the tour, which repeats nothing, or the start node alone if there is no second node to
  be found; that the best place of the round is the best of those already tried; and
  that a round always finds one.  `DeltaIsDifference` compares the increase the code adds up
  from three distances with the costs of the two whole tours.  A cost is a recursive function of running totals, so this is an induction
  along the tour: it is done on sets of positions, which needs no operator parameter.
  From it: the route if a second node can be found, and `InsertsCheapest`: the first cycle
  is the cheapest whatever the distances, and a round chooses the best insertion when the distances are
  at most `CostMax / (size + 3)` (`SmallDistances`), so that no sum of a round overflows; of
  larger ones nothing is said.  Assumed:
  every cost but the least has its negation among the costs (`NegationAssumption`), as in
  two's complement.
* **HeldKarp_proofs.**  For every cutoff and problem.  Masks are numbers in the code, so
  the proofs start from what powers of two do: `BitCleared` (taking a power from
  a mask clears that bit and no other), `FullHasAllBits`, `NoBitIsZero`.
  `AnswerIsTour` holds whatever sums overflow.  Its invariant says that a cell with a cost
  rests on a predecessor that has one (`Grounded`), that cells ahead of the loop are
  as initialised (`Untouched`), and that the total from the traced tour's first node is
  the one in the table (`CostsAlong`).
  `CellsExact` and `ExactIfSmall` are the optimality of the algorithm, for distances whose
  sum over a tour stays below `kInf`.  `Bound` is the largest such distance; a path of
  c nodes then costs at most `c * Bound`, so no sum wraps, no cell of a mask
  is mistaken for `kInf`, and no closing is refused.  `Shortest` says that each cell passed is the
  least cost of its paths: a path can be cut before its last node (`Shortened`) and a shorter one extended by it
  (`Extended`).  A tour from the start is a path over all the nodes and an edge
  (`RouteIsPath`); one from elsewhere is turned until it begins at the start
  (`Rotated`, `AnyStart`), which it visits by the pigeonhole principle.  Assumed: every cost but
  the least has its negation among the costs.
* **LocalSearchSolver_proofs.**  The parts' theorems are used as they are: the
  construction's and the refinement's invariants are instances of theirs, and the
  composition adds that the best tour has its true cost and no improving reversal, and that
  every tour refined, perturbed or kept is one of `ScanAnswers` (`AnswersInv`): a reversal and
  a swap rename positions, so they make no node appear more often than before.  `StepsAreSearch` maps every step to a find, an improvement, a stop or a stutter of
  `MonotoneSearch` when no distance is the sentinel: the safety half of
  `ImplementsSearch`.
* **JavaBinding_proofs.**  For any number of threads, objects, addresses and versions.
  A step concerns the native objects in one of a few ways (`Moves`): a constructor or
  solve adopts a free address, close takes a field's handle in hand, clears the field
  and releases it, all else leaves them alone.  The invariant gives each live object an
  owner, one field or the one thread releasing it (`Owned`, as long as no close is
  contested); what holds contested or not is that none is lost (`Kept`).  It adds that
  objects being made are fresh (`Fresh`), where a handle of 0 can be on its way to its
  exception (`Met`), and that solves and constructors asked the loader for the binding's
  version (`BridgeInv`).  The loader has its own part (`LoaderInv`), whose lemma also
  says that a bridge once bound stays.  Assumed: the kinds of objects, addresses, null
  and the version names are told apart.
* **PythonBinding_proofs.**  For any number of threads, objects, addresses and libraries,
  with an exception possible at every step.  The invariant has six parts.  The loader's:
  the cached library is one that was compared, and the flag is set after declaring.
  The types, with for each place of a call what it must have in hand (`Fits`).  `Apart`:
  what a call has made, and options of its own, are in no other call's hand.
  `Kept`: a live address that was not stranded is in a field that nobody is clearing or in
  the hand of its maker; this holds contested or not, and is stronger than `NothingLost`,
  which alone would not survive the clearing of the field.  `Owned`: while no close
  is contested a live address has one owner, and a destroyed one is left only in the field
  being cleared.  `Mirrored`: a new object has the defaults, and a setter about to cache
  has written what it will cache.  Each step is classified once by what it does to the
  native objects (`Effect`: allocates, fills a field, sets, caches, destroys, clears, leaves a
  frame, or nothing), and each part of the invariant is proved per effect instead of per action.

Assumed of the algorithms: problems are square matrices of costs with a zero diagonal
(`IsProblem`), which `SolversGetProblems` shows `to_problem` to make of a complete model.

### Only model-checked

Termination (`Terminates`), and with it the liveness half of `ImplementsSearch`: liveness
is outside the prover.  Every other property that a passing run checks is a theorem.  That an
algorithm returns at all, and that solve therefore answers, is part of the former.

What a recursive function computes is not proved by the library's induction theorems,
which take an operator as a parameter.  The proofs prove it by induction on sets of
naturals (`SetInduction`, from the well-foundedness of the naturals): running totals of
`RouteCost`, powers of two, costs of paths.

## Disagreements of code and documents

1. A distance of `INT64_MAX` makes nearest neighbour return a tour that is no
   permutation (`nearest_neighbor_sentinel`).  Two-node cycles that all cost
   `INT64_MAX` do the same to cheapest insertion from node 0, which repeats it:
   `RouteIfHasSecond` states the exact condition.  At the C interface,
   `ResultAnswersRequest` says in which results the tour is a permutation, and that in the
   others no node but 0 is there twice.
2. A result leaks when the copy of the tour throws (`capi_solve_leak`).
3. Held-Karp gives up, or may miss the optimum, within its cutoff when costs reach a
   quarter of `INT64_MAX` (`held_karp_truth`).  The answer is a permutation with its
   true cost all the same.
4. `docs/superpowers/specs/2026-03-28-tsp-solver-python-bindings-design.md:94` speaks of a finalizer
   as a fallback for objects that are not closed; `_binding.py` has none, so what
   `stranded` holds stays allocated.

## Not modelled, and why

* In the bindings: null Java arguments and Python type checks beyond "raises, nothing
  changes"; the conversion of enumerations; `tour` of a Python result as two calls in
  one; a native call as more than one step; what a call on a destroyed object does;
  garbage collection, which neither binding hooks into.
* Stale reads that the Java memory model permits of an unsynchronised field; what a C++
  exception does that leaves a JNI function (`nativeGetTour` allocates vectors).
* Whether the functions of a second CDLL object are declared: two Python threads can
  each open one, and the flag then vouches for the wrong one.  The calls pass ctypes
  values all the same, so nothing depends on it; `LibraryReady` states what remains.
* What cannot be reached: solve's own test of the algorithm (`c_api.cpp:269`), since the setter
  lets no other in; a native setter that fails in Python, where the handle is never null
  and the argument is already checked.
* Null handles beyond "rejected, nothing changes"; the plain getters; `INTERNAL_ERROR`,
  which no modelled path reaches; the `invalid_argument` of a non-square Problem, which
  `to_problem` never builds.
* The arithmetic of splitmix64, and with it whether `perturb_tour`'s retry loop ends.
* Real time: the code compares the limit with zero and never reads a clock.
* Use of a handle after destroying it: undefined for the caller, no state to model.
* Build scripts, packaging, CI, examples, documents.

## Plan

Done, in this order: `CApiModel` with its abstraction and proofs; `Tsp`,
`NearestNeighbor`, `TwoOpt` with proofs; `CheapestInsertion`; `HeldKarp`;
`LocalSearchSolver` over `MonotoneSearch`; `CApiSolve`;
`JavaLibrary`, `JavaBinding` with proofs; `PythonLibrary`, `PythonBinding`.

After those, proofs: `LocalSearchSolver` (local optimum, the safety part of
`MonotoneSearch`), `CheapestInsertion`, `PythonBinding`.

Then `CApiSolve` (results answer requests) and `HeldKarp` (the answer is a route with its
cost, and optimal for small distances).  Last, the parts joined: `Answers` and its four
theorems, `ApiSpec` and what it takes over from `CApiModel`.

Left: what the prover cannot reach (liveness), and the parts listed above as not
modelled.
