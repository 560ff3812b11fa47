# Specifications of recurGuard

recurGuard looks for non-terminating recursions. An LLVM pass chooses
functions ("pivots") on every cycle of the call graph and plants an oracle in
them; at run time the oracle hashes the state of each call, keeps a sample of
the digests of the active calls, and stops the process when a state is visited
again. A modified AFL (`afl-fuzz`) drives the instrumented program through a
fork server. This directory holds TLA+ specifications of those parts, the TLC
configurations that check them and proofs that TLAPS checks.

All paths below are relative to `src/impletation/`.

## 1. The system

| component | code | state | operations |
|---|---|---|---|
| pivot selection | `llvm_mode/afl-llvm-pass.so.cc` 510-597, 678-693 | caller sets, degree map, candidates, pivot, pivots, the stack of nested `SCCPruning` calls | `link`: read the call records, pick a pivot, erase, prune recursively, pick again |
| oracle, instrumentation | `llvm_mode/afl-llvm-pass.so.cc` 80-506, 693-771 | stacks of paths, value map, noted phis, return blocks, states | walk the paths of a function, note each instruction, choose the values that make up a state, insert the two checks |
| oracle, runtime | `llvm_mode/hash-code.o.c` 240-348 | per pivot: `_counter_f`, `_sIter_f`, `_recordArray_f`, heap digests | `_hashCombine`, `_entryCheck`, `_checkReturn`, `push`, `pop` |
| fork server | `llvm_mode/afl-llvm-rt.o.c` 103-234 | `child_pid`, `child_stopped` | hello; request, fork or SIGCONT, pid, wait, status |
| target execution | `afl-fuzz.c` 2006-2508, 6876-6912, 8187-8207 | `child_pid`, `child_timed_out`, `prev_timed_out`, the timer, `stop_soon` | handshake, `run_target` with and without the server, SIGALRM, SIGINT, end of `main` |
| queue and findings | `afl-fuzz.c` 723-1365, 2577-2948, 3169-3391, 4571-4741, 5044-5203, 6160, 6706-6735, 8117-8196 | queue, `virgin_*` maps, `top_rated`, counters, files | `add_to_queue`, `has_new_bits`, `update_bitmap_score`, `cull_queue`, `calibrate_case`, `perform_dry_run`, `trim_case`, `save_if_interesting`, the main loop |
| fuzzing stages | `afl-fuzz.c` 4744-5041, 5194-6704 | buffers, stage counters, effector map | `calculate_score`, `could_be_*`, the stages of `fuzz_one` |
| dictionaries | `afl-fuzz.c` 1536-1976 | `extras`, `a_extras` | `load_extras`, `maybe_add_auto`, `save_auto`, `load_auto` |
| output directory | `afl-fuzz.c` 1435-1533, 2951-3071, 3393-3566, 3602-3969, 7197-7334 | files and directories, `fuzzer_stats` | clean-up, resume, `pivot_inputs`, `find_start_position`, the writers |
| synchronisation | `afl-fuzz.c` 6740-6873 | `.synced/` positions, other queues | `sync_fuzzers` |
| stand-alone tools | `afl-tmin.c`, `afl-analyze.c` | the test case, positions, block lengths, answers | `minimize`, `analyze`, `dump_hex`, their `run_target` |
| `afl-as` | `afl-as.c` 227-458 | six flags that outlive a line | copy a line, put trampolines where branches arrive |
| `libdislocator` | `libdislocator/libdislocator.so.c` | a counter per thread, mappings | `malloc`, `calloc`, `realloc`, `free` |
| the rest | wrappers, `afl-showmap`, `libtokencap`, qemu patches, user interface | | not part of the core, see section 7 |

How they interact. The pass runs the selection once per component and plants
calls of the oracle. The oracle's three globals per pivot are shared by all
activations of the function; the program, not the oracle, decides when entries
and returns happen. A report is `exit(88)` of the instrumented process. That
process is a child of the fork server; the server relays its wait status
through a pipe to `run_target`, which turns it into a verdict
(`FAULT_*`, `NON_TERM`), which `save_if_interesting` files. afl-fuzz and the
target also share the trace map, and afl-fuzz sends SIGKILL to both the server
and the target.

What is hard, and so what the properties are about:

* nested pruning that changes the maps it is called from, in orders that depend
  on pointer values;
* three pieces of oracle state maintained separately at entry and return, with
  sampling tiers written out twice, for programs that start recursions
  repeatedly, skip returns or fill the array;
* whether sparse sampling still catches a diverging recursion;
* two processes that agree on the meaning of bare words on a pipe by order
  alone, with alarms, kills, self-stops and stop signals at any moment;
* blocking reads and waits, which only signals can end;
* calls that overwrite the maps and verdicts their callers still use, and
  counters that many callers keep;
* a queue on disk that must survive the death of its owner between any two
  system calls, while another instance reads it;
* stages that skip what earlier ones are believed to have tried, edit one
  buffer in place and must put it back.

The full list, with lines, is `hazards` in `PROJECT.json`.

## 2. Modules

| module | models | used by |
|---|---|---|
| `FeedbackSelection` | abstract: take a component apart by choosing a function, or by dropping one that calls nothing that is left | `PivotSelection` (refinement) |
| `PivotSelection` | `SCCParser::link`, `SCCPruning` | `MCPivotSelection`, `MCPass`, `Pass_proofs` |
| `StateChoice` | `FunctionParser` and its visitor: the values of a state | `MCPass`, `Pass_proofs` |
| `RecursionMonitor` | `_entryCheck`, `_checkReturn` and where they are planted | `MCRecursionMonitor`, `RecursionDivergence`, `RecursionMonitor_proofs` |
| `RecursionDivergence` | the monitor composed with a program that never stops recursing | `MCRecursionDivergence` |
| `ForkServer` | afl-fuzz's side, the server's side, the processes, the pipes, the signals | checked directly, `ForkServer_proofs` |
| `Campaign` | the queue, the maps, calibration, trimming, saving, the main loop | `MCCampaign`, `Campaign_proofs` |
| `NaturalSets` | no code: induction and recursion over the natural numbers, for proofs | `Pass_proofs`, `Campaign_proofs`, `OutputDirectory_proofs`, `Tools_proofs` |
| `Mutations` | the arithmetic of the stages and the three `could_be_*` filters | `AutoDictionary` |
| `AutoDictionary` | `extras` and `a_extras` | `DeterministicStages` |
| `PerformanceScore` | `calculate_score` | `DeterministicStages` |
| `DeterministicStages` | `fuzz_one` from bit flips to the automatic dictionary | `FuzzOne` |
| `FuzzOne` | havoc and splicing, on top of the deterministic stages | `MCTools`, `Tools_proofs` |
| `Minimizer` | `afl-tmin` | `MCTools`, `Tools_proofs` |
| `Analyzer` | `afl-analyze` | `MCTools`, `Tools_proofs` |
| `Assembler` | `add_instrumentation` of `afl-as` | `MCTools`, `Tools_proofs` |
| `Dislocator` | the allocator `libdislocator` | `MCTools`, `Tools_proofs` |
| `OutputDirectory` | the directory through sessions, kills and resumes | `Synchronisation`, `OutputDirectory_proofs` |
| `Synchronisation` | a peer that takes over the queue of the owner | `MCSynchronisation`, `Synchronisation_proofs` |

Definitions marked `\* fault:` are not part of a model. Each is a plausible
mistake in the code, written with the parameters of the definition that
follows it. Putting it in that definition's place makes TLC report the property
named in `PROJECT.json` under `mutants`, which shows that the property can fail.

### PivotSelection

One action per step of the code: `Link(n)` is a round of the first loop,
`FirstPivot` and `ErasePivot` the lines after it, `SkipErased`, `LoseCallee`
and `Prune` the three ways of one round of `SCCPruning`'s loop, `PruneReturns`
its return, `NextPivot` and `NoMoreCycles` the scan of `outDegree` and the
insertion after it. The call stack of `SCCPruning` is `stack`, and `todo[n]` is
the rest of the copy `allPreNodes` of the call for `n`; a function is entered at
most once because it is erased before. Every order that the code takes from a
container keyed by pointers is a choice. The comparison with `maxDegree` in the
scan never raises `maxDegree`, so the scan keeps whichever function with
positive degree comes last: `NextPivot` chooses any.

`hasLoop()` and the strong connectivity of a component (LLVM's
`scc_iterator`) are the initial condition, `FeedbackSelection!Components`.

### StateChoice

`fun` is a function as the pass sees it: blocks with successors in order and
instructions reduced to what they define, what they use and how the visitor
treats them. It is in the form LLVM keeps its code in (`StaticSingleAssignment`): a value
is defined once, and before its uses on every path to them, except in phis. `WalkBlock` is a round of `getPath`'s loop: pop a path, visit its
last block (`Linked`, instruction by instruction in `Noted`), push the
continuations that do not return to the path. `ParsePHI` is a round of
`parsePHI` over a set of pointers, so in any order; `ChooseStates` the end.
What the code does and one may not expect is kept: `isRecStack` and
`branchStack` are popped and pushed once a round, so all paths share one value;
`VMap.insert` does not overwrite, a store does; phis are resolved after the
walk, when nothing looks them up any more; a `switch` is not a branch; a call of
any known function makes its block recursive. A block may name one successor
twice, as a `switch` does whose cases share a block; `getPath` then walks the
paths through it once for each naming, which costs time and changes no result.
`MCPass` runs it beside the
selection, on one function at a time: all branch and return shapes of a few
blocks, with arguments that reach a branch or a recursive call directly, through
memory, through a phi, or not at all. What "surely" gets an argument is said by
`SureCarriers`: instructions that are looked up and whose value is not stored
through, and slots written once, in the entry block before they are read. What
comes through a phi, an address, a right shift or a slot written twice may or may not be
in the state; the bounds leave both open.

### RecursionMonitor

The instrumented program is the environment. It enters `f` (`Enter`), reaches a
return block (`CheckReturn`), leaves it (`Return`), may discard frames
(`Unwind`), may end (`Exit`). `_entryCheck` has four outcomes: the branch for
the outermost call, a report, a fault, and no match. A slot holds `Null` before
it is written, a digest, or `Freed` after `pop`. `memcmp` with a freed buffer or
beyond the array can match, differ or fault; with `Null` it faults. The tiers
are a constant, a set of ranges with a period each, and `Cap` is the array
length (1000 in the code). The code writes the ranges out twice, so they are two
definitions: `Sampled` for entries and `PopsAt` for returns.

Two switches widen the environment. `CallsInReturnBlock` lets `f` call itself
from the block that returns, after `_checkReturn`. `Unwinds` lets frames
disappear without a return (longjmp, exceptions).

`RecursionDivergence` adds a deterministic program, `program` from the state of
a call to the state of the next, and the block the recursive call is in.

### ForkServer

`fz` is afl-fuzz's position: the handshake, `idle` between runs, the steps of
`run_target` (`request`, `readPid`, `readStatus`, `settle`, `judge`), the test
of `stop_soon` by its callers (`returned`), and the end of `main`. `srv` is the
server's position. `ctl` and `st` are the pipes, `procs` the forked processes
with a pending SIGKILL, `trace` the runs that have marked the trace map. A
status carries the run its process worked on, and a verdict the evidence it
rests on; the code has neither, they only serve to state the properties.
Reading an empty pipe whose other end is gone is the short read of the code.
`dumb` is the mode without a server: afl-fuzz forks, assigns `child_pid` a
moment later and waits by itself (`ForkRunner`, `AssignPid`, `WaitRunner`); the
forked process becomes the target or marks the map with `ExecFailSig` (`Exec`).

### Campaign

One sequential program cut where `run_target` is called, because a stop signal
makes a difference there. `pc` names the place, `after` is where
`save_if_interesting` returns to, `cal` holds the locals of `calibrate_case`.
An input is what its runs do: a run returns any verdict and leaves any map of
the configuration, the same one each time unless the target is `flaky`. A
checksum is the map. Calibration, culling, trimming, the dry run and each case
of `save_if_interesting` have actions of their own; the mutations are those of
`FuzzOne` and here only "some run". A stop that comes between the last run of
`trim_case` and its return abandons the entry after its score was updated (`Trimmed`), and
with `AFL_IMPORT_FIRST` inputs of other instances are run between the first culling and the
first turn of an entry. `ranAs` and the `of` of a file record how the
run ended whose map decided, to state `FiledOnOwnRun`.

### DeterministicStages, FuzzOne and what they use

`fuzz_one` from `calculate_score` to the end of splicing for one entry. A stage
is a row of `Stages`; an action looks at one candidate: run it, or leave it out
(`LeavesOut`). `tried` collects what has been run and `missing` what has been left
out without being in it. In the deterministic stages data are bytes and the
arithmetic is the code's, with its widths and both byte orders; the effector
map, the collection of automatic tokens and the dictionary stages work on them.
In havoc and splicing, where every value is drawn, data are reduced to lengths:
each tweak says which ranges of which buffer it touches (`Pokes`).

### Minimizer, Analyzer

`minimize()` has four phases of one shape: propose a mutant, leave it out or run
it, keep or discard it. What the target answers to an input is chosen when it
is first run, and remembered in `known` unless the target is flaky.
`analyze()` changes one byte four times; `Answer` is what `run_target` makes of a
reply; `DumpRun` is a round of `dump_hex`.

### Assembler, Dislocator

`Assembler` reads a file line by line, a line being its kind; `output` is what has
been written. Each action is the part of the loop's body that a kind of line
reaches, `Copy` its beginning, in which the trampoline that is due is written.
`drawn` remembers for which lines the random draw was below the ratio. `Dislocator`
keeps the arithmetic of the code on offsets in a mapping; `crossed` and
`refusedInVain` are history. Any thread may free any buffer, twice too, and
write below it. A `mprotect` that fails ends the program: in the allocation before anything is
counted, in `free` after `total_mem` was lowered.

### OutputDirectory, Synchronisation

Start-up is straight-line code and is kept as `todo`, the system calls still to
be executed; `Kill` may come between any two. A session starts afresh or in
place, reads what it finds, links it under new numbers, looks for the position
it was at, writes statistics and fuzzes: it saves inputs and crashes, trims,
marks, moves on. A start that is refused has made the directory all the same. Files are their directory, number and contents; a copy is two
steps and can be left empty. `Synchronisation` adds the peer: it opens the
directory, reads the names in any order while the owner goes on, opens files by
path, and writes down how far it got only at the end.

## 3. What is checked

| run | instance | what it shows |
|---|---|---|
| `pivot` | all strongly connected graphs on 4 functions with self-calls, up to renaming, and a family of functions for `StateChoice`, one of them with a successor named twice; 209,316 states | `DegreeExact` and `PivotsBreakEveryCycle`; `ImplementsSelection` (refinement of `FeedbackSelection`); `SelectionAdvances`, a variant that every step lowers, so that `link` returns; `EveryPathOnce`: the walk over the blocks is complete; `StatesBetweenBounds`: what it chooses lies between what surely and what possibly decides |
| `monitor_single` | 5 states of `f`, one start, depth 11 | `RecordCount`, `RecordsAreActive`: number and array agree with the call stack; `ReportIsRevisit` and `RevisitIsReported`: no false and no missed report; `NeverFaults` |
| `monitor_hostile` | 3 states, 4 slots, three starts, unwinding and calls in return blocks | `PopFreesRecord` holds even then |
| `divergence` | all functions on 4 states, depth 11 | `BodyDivergenceReported`: the oracle stops the recursion before the stack does |
| `fork_server` | 3 runs, with a persistent target behind a fork server and without a server; 111,832 states | `StatusIsOwn`, `VerdictIsOwn`, `TraceIsOwn`, `OneRunner`, `AlarmHitsOwnRun`, and the liveness properties `RunEnds` and `StopIsObeyed` |
| `campaign` | nine kinds of campaign on three edges | `WinnersReferenced` (reference counts, minimised traces), `FavoredCover` (what has been seen is covered by favoured entries), `PendingCounts`, `NeverDiesOfItself`, `FiledOnOwnRun` (a file is named after the verdict of a run of its own input) and `FuzzedWasTried` |
| `synchronisation` | four lives of an output directory, two with a peer; 1,952,708 states | `OnlyKnownLosses`, `StartsAgain`, `ResumeRestores` after a kill between any two system calls; `SyncMissesNothing` of what a peer could have read |
| `tools` | `fuzz_one` on about 70 entries, `afl-tmin` on every answer to 4 test cases, `afl-analyze` on about 110 samples, `afl-as` on all code of four lines, `libdislocator` with three mappings; 195,259 states | `SkipsAreRepeats` (a filter leaves out only what was run), `OneChangeAtATime` (each stage starts from the restored entry), `InBounds`, `ResultIsMinimal`, `RunsAreFields`, `TrampolinesRight` (against a definition over the whole file), `BordersGuarded`, `LimitKept`, `ToolsEnd` (liveness) |

Four runs expect a violation: what the repository says is not what the code
does.

| run | property | disagreement |
|---|---|---|
| `monitor_second_start` | `NeverFaults` | every outermost call counts a record, but only slot 0 is written. After a second outermost call the next nested call compares with a null pointer (`hash-code.o.c:279`, `:287`) |
| `divergence_return_block` | `DivergenceReported` | `_checkReturn` runs at the start of the return block, so a recursion from that block is never seen (`afl-llvm-pass.so.cc:762`), while `README.md:2` claims that non-terminating recursions can be detected |
| `fork_server_orphan` | `NoRunnerLeft` | a stop signal between the server's fork and the reading of the pid leaves a process behind (`afl-fuzz.c:6882`), while the comment at `afl-fuzz.c:8198` says that the handler kills the current runner |
| `campaign_report` | `ReportsFiled` | the case `NON_TERM` of `save_if_interesting` has no `break`: the first unique report falls into `FATAL` (`afl-fuzz.c:3371`) before a file of it is written, while `README.md:29` says where the reports are found |

Other things the models show, which no document denies or which only a kill
of the program reaches:

* A kill inside `nuke_resume_dir` leaves a partial `_resume`; the next in-place
  resume cannot rename over it, deletes the complete `queue` and resumes from the
  partial copy. A fresh start keeps a left-over `_resume`.
* A kill between `unlink` and the rewrite in `trim_case` loses the entry, and
  the next session numbers the others anew. A kill inside `write_stats_file`
  leaves it empty, and `maybe_delete_out_dir` then refuses the directory at every
  later start, as malformed. `OnlyKnownLosses` says that inputs are lost in the first two
  windows only. `StartsAgain` says that a start never dies in the clean-up, a `mkdir` or
  an exclusive create; that a resume gives up for want of inputs only when every find was
  endangered in one of those windows; and that the third window is the only one that makes
  a start be refused as malformed. A fresh start that is refused because much is at stake,
  and a resume without a directory (which makes the directory before it gives up), are what
  the code means them to be.
* `write_crash_readme` opens its file below `non_term_recursions`, which does not exist, and
  gives up silently: no `README.txt` is ever written, and the one in `crashes` that the
  clean-up removes is never there.
* `maybe_add_auto` compares two bytes in the order of the machine, as a `u16`, with an `s16`:
  the negative ones of `interesting_16` are not recognised and can enter the automatic
  dictionary, unless swapping their bytes gives an interesting value too.
* A peer passes by for ever an input it cannot open, finds empty, sees while it is
  trimmed, or that `readdir` shows after a later one.
* An entry that calibration finds variable is counted in `pending_favored` too
  often. An entry whose calibration failed keeps `AFL_EXIT_WHEN_DONE` from
  ending the campaign. In `-C` mode the uniqueness of a crash is judged on the map
  of the last calibration run. The dry run has no case for `NON_TERM`, and the
  directory `non_term_recursions` is never created.
* User tokens are loaded after the saved automatic ones, so that the two lists can
  share tokens. At the end of the insertion stage `fuzz_one` reads `out_buf[len]`,
  one byte past the entry (`afl-fuzz.c:6090`). The model reads `PastTheEntry` there, and
  `OneChangeAtATime` says that what was read gets into no mutant: the head of `ex_tmp` is the
  head of the entry whenever a token is inserted.
* No byte of what `afl-tmin` ends with can be deleted (`ResultIsMinimal`), but a
  byte that could be replaced by `0` may be left: the last pass ends after its
  deletions.
* `isRec` is shared by all instructions of a block, any direct call makes the
  block recursive, `switch` does not count as a branch, and phis are resolved after
  they have been used: an argument that decides whether the recursion goes on
  can be left out of the state.

* `afl-as` takes the alignment `.p2align N` for the announcement of a jump table, as
  OpenBSD has it, and leaves the next branch label unmarked; gcc writes the same
  line before loops. A thread that frees for another makes `libdislocator` refuse
  all its later requests. In `alloc-inl.h` the terminator that `ck_memdup_str`
  writes falls on the tail canary; the function is not used.

### Bounds

* `pivot`: 4 functions are enough for nested pruning two deep, a component that
  needs two pivots and one in which a pruned function is visited again. The
  proofs remove the bound. The functions of `MCPass` have up to five blocks, with
  loops, phis, and calls on both sides of a branch.
* `MCTiers` scales the tiers to depths 2, 4 (period 2), 6 (period 3) and 10
  (period 5): each boundary and the open last range are reached at depth 11.
  `MonitorSingle.cfg` has more slots than records, as the code has with one
  start: its 1000 slots last for over 4.8 million frames. `MonitorHostile.cfg` has 4 slots so that the array fills.
  5 states let 5 different digests precede a repetition.
* `MaxStarts` bounds the calls that find the counter at 0, `MaxTimes` the
  entries not undone by a return; without `Unwinds` it equals `MaxDepth`.
* `divergence`: on 4 states a deterministic recursion has a period of at most
  4 and a lead-in of at most 3; a recorded depth is followed by a repetition
  within 11 calls for every one of the 256 programs. With the code's tiers the
  same argument needs a stack of a few times the period.
* `MaxRuns = 3`: a timeout in one run, its consequences in the second (write-off,
  new process), and a third in which a mistake would show. A pid is never
  reused, so three processes are enough.
* `Campaign.cfg`: three edges, since two entries that share one and differ in
  another are what `cull_queue` and `update_bitmap_score` decide about; two runs
  of a calibration, three once a difference has been seen, two chances
  (`CalCycles`, `CalCyclesLong`, `CalChances`); one unique crash and one unique
  hang are kept, one entry is cheap enough to be skipped. A configuration fixes
  the maps and verdicts its target can show and `room`, the length at which the
  queue stops growing; nine of them are explored together, because each of
  the command line's modes changes only some of the actions.
* `Synchronisation.cfg`: the lives `Alone`, `Moving`, `Trimming` and `Growing`
  have at most 5, 5, 3 and 3 events (a find, a trim, a mark, a start and so on), so that
  there are up to five sessions; a kill costs none and may come at any system
  call. One of the state directories stands for the three that are treated alike.
* `Tools.cfg`: bytes, `ARITH_MAX` (35) and the lists of interesting values are the
  real ones, because the filters are about coincidences between them; the inputs
  hold the bytes at which sums carry and signs change. Lists and files are
  scaled so that they overflow: 3 automatic tokens of 2 or 3 bytes of which 2 are
  used, tokens of at most 12 bytes, 2 tokens taken in full, an effector map
  of one byte per entry that is given up at 70 %. Havoc has at most two rounds
  with stacks of two or four tweaks on files of at most 10 bytes and blocks of 1 to
  4; splicing has two cycles. `afl-tmin` starts with blocks of a half, and two
  (`SetSteps`, `StartSteps` 2), on up to 4 bytes; `LongRun` (6) stands for
  `MAX_AUTO_EXTRA`, from which on `afl-analyze` takes a run for suspect. `afl-as` reads
  every sequence of four of the nine kinds of line its flags depend on, three in
  the modes with a random draw, and one file with all the others. `libdislocator`
  has pages of 16 bytes, a `size_t` of 6 bits and requests of 0, 9 and 60 bytes: the
  second needs two pages because of the header, two of them fill the limit of
  18, and the third wraps the sum.

### Fairness

`RecursionDivergence` assumes that the process runs (`WF` of its next step):
the program is a non-terminating recursion by construction. `ForkServer`
assumes that the scheduler runs afl-fuzz and the server, that an armed
timer expires, and that a sent SIGKILL takes effect. Nothing is assumed of the
target: it may hang in every run, and `RunEnds` holds because of the timer.
`MCTools`, like `MinSpec` and `AnSpec`, assumes that `afl-tmin` and `afl-analyze` take their next step: they are
sequential, a step is at most one run of the target, and a run ends by the tool's timer.
Deadlock is checked except in `divergence`, `campaign`, `synchronisation` and
`tools`, whose programs stop.

## 4. What is proved

TLAPS proves the following for every value of the constants that satisfies the
modules' assumptions.

`Pass_proofs`, the pivots. The inductive invariant `IInv` is `TypeOK` with
`Bookkeeping`, `PendingVisits`, `DegreeExact`, `PivotAssigned` and `Exits`.
`DegreeExact` is not inductive alone: during nested pruning an erased function
still counts for its callers until its `SCCPruning` call has come to them.
`PendingVisits` says which calls still have which callers to visit, so that
each of them is decremented exactly once. From `IInv`:

* `TypeCorrect`, `DegreesAreExact`, `PivotIsAssigned`, `NoCandidateLeft`;
* `SelectionImplemented`: `Spec => Abstract!ASpec`. Taking a pivot is `Choose`,
  pruning is `Drop` (by `DegreeExact` a pruned function has no callee left), all
  else stutters;
* `EveryCycleHasPivot`: the abstract invariant `CyclesRemain`, a set of
  functions that can keep calling itself without a pivot is still there in
  full, is preserved by `Choose` and `Drop`; with `NothingLeft` no such set is
  left at the end.

`Pass_proofs`, the states. All three properties of `StateChoice`, for every function.
`EveryPathWalkedOnce` is about the stack of paths in `getPath`. The invariant `Walking` says that each path not walked
yet begins with one on the stack (`AllDue`), that no path on the stack is the
beginning of a walked one or of another on the stack (`NoneTwice`, if no block names a
successor twice), and that `retBlks` are the ends of walked paths that return
(`ReturnsFound`). When the stack is empty the first two are the theorem. What the visitor does to a
block (`Linked`) and what a round pushes (`Pushed`) are recursive functions, and
what they compute is proved by induction. `StatesBounded` joins the two
bounds of `StatesBetweenBounds`:

* `StatesMatter` (`StatesCanMatter`): the invariant `Choosing` says that what the value
  map holds for a value are arguments that can get into it (`Carried`); insertions and
  stores keep that in any order, because what an argument reaches is closed
  (`ReachedClosed`: while it is not, every step adds a value, and there are no more
  values than instructions);
* `NoneMissing` (`StatesComplete`): `Held` says that an instruction that has been met and
  surely gets an argument has it noted, although `VMap.insert` never overwrites.
  It rests on the SSA form (`StaticSingleAssignment`), in which what an
  operand comes from has been met before, and on `Started`: of a path on the stack
  all blocks but the last have been walked, so a block that every path must
  pass is never due later than the one behind it. `NotedHeld` is the step for one
  instruction.

`RecursionMonitor_proofs`. `Base` (types and the counter) needs no condition and
gives `TypeCorrect` and `CounterCoversDepth`. `CounterIsDepth` needs that frames
are not discarded. Under `Roomy` (more slots than starts and sampled depths in
reach) `RecordsBalance` shows that pushes and pops match whatever the tiers are.
Under `OneRecursion` as well (one start, no unwinding, no call from a return
block) the invariant `Exact` adds what each slot holds; it gives
`RecordsAlwaysActive`, `OracleNeverFaults`, `ReportsAreRevisits` and
`RevisitsAreReported`. The two findings about the monitor are why these
conditions are needed: without either of them the statements are false.
`PopsFreeRecords` and the action property `ReturnsNeverFault` need none of them.
Their invariant `Poppable` tells the two regimes apart: while the array has
room, records and starts balance and every slot from the number of starts on holds
a digest; once it is full nothing is pushed or popped any more.

`ForkServer_proofs`. `StatusIsOwn`, `VerdictIsOwn`, `TraceIsOwn`, `OneRunner` and
`AlarmHitsOwnRun` hold for any number of runs, in each mode. None is
inductive; the invariant `IInv` joins

* `Pipes`: where the two sides are determines what the two pipes hold. A stray
  word would shift the meaning of all later ones, so this is what `StatusIsOwn` rests on;
* `ServerChild`, `DumbRunner`, `Processes`: in which state the process is that the server
  waits for or keeps stopped, and that all others are reaped or were never born;
* `KillIsKnown`: a process killed while it was kept stopped is known to be, and the next
  request says so (`prev_timed_out`). Without this the status of that kill would be
  judged as a crash of the next run;
* `TimerOwn`: while the timer runs, the pid it will go by is that of this run's
  process;
* `StatusOwn`, `VerdictIsOwn`: a status "killed" is about a kill in this run;
* `Running`, `MapOwn`: who may still mark the map works on the run under way, and
  none does while afl-fuzz looks at it.

`Campaign_proofs`. All six
invariants of the run `campaign`, for any number of edges, any maps and verdicts of the
targets, any length of the queue:

* `ReferencesCounted`: `WinnersReferenced` is inductive with `Base` (types, and
  the positions that the program counters and locals refer to). The two steps that
  matter are those that rate an entry: the slots it wins are taken from their
  holders one by one, and the counts follow;
* `FuzzedOnceTried`: the invariant `Turns` follows an entry through calibration,
  its failed attempts and its turn (`Returned`, `Chances`, `Turn`);
* `FindingsOnOwnRun`: `Evidence` says at each position of the program which run the
  verdict in hand belongs to;
* `NeverDies`: `FilesNumbered` ties the numbers in the file names to the counters that
  name the next file, and `Turns` gives that an entry with a score is calibrated;
* `FavoredCoverAll`: `Traced` (the minimised trace of an entry is the one it was
  calibrated with and contains the slots it holds), `Seen` (what has left `virgin_bits`
  has a winner or is in the trace being calibrated) and `Swept` (nothing has been won
  since the last culling that is not covered). What the sweep of `cull_queue` leaves is
  `SweepGood`, by induction over the edges;
* `PendingCounted`: `Counts`, with `Turns`, since the turn of a favoured entry must
  bring down the counter that calibration and culling put up.

`OutputDirectory_proofs`. `StartsAgain` and `OnlyKnownLosses`, for any list of distinct
directories below `.state`, any scenario and so any number of sessions, inputs and
crashes, under `Spec` of `Synchronisation`: the peer only reads. `StartsAgain` exempts the
death in `write_stats_file`, between truncating and writing. The invariant `Inv` is
`Typed` (types), `Tree` (directories form a tree, no two files of one have the same
number) and one of four phases:

* `Rest`: no session runs. A find is endangered, in `_resume`, or in a `queue` that the
  next resume can still rename. This is what a death must leave for the next session;
* `Starting`: `todo` is the end of the program `CleanUp`, `MakeDirs`, and the place in it
  (`Done`) tells which directories exist (`StartingDirs`), so that each `rmdir` finds its
  directory empty and each `mkdir` finds the parent and not the directory; and where the
  finds and crashes are (`StartingKept`): the rename comes before anything is deleted;
* `Importing`: `todo` begins with links of entries, none twice and none over a file that
  exists, or with halves of a copy (`Linking`), and goes on with `nuke_resume_dir` and
  the first report. As long as a link is left the finds are in `_resume`; after the last one
  they are in `queue` (`ImportingKept`), and only then does the deleting begin;
* `Fuzzing`: `todo` is the rest of one action (`ToWrite`, `ToMake`, `ToReplace`,
  `ToMark`, `ToReport`). A find that is not in `queue` is about to be written;
  if the process dies then, that is the first of the two known moments.

What sessions end with is a second invariant, `Reported`, kept by the steps between states of
`Inv` (`ReportedStep`): the command after a truncation of the statistics is the one that
writes them (`TruncateThenWrite`), so that in a running session they are empty only there; none
starts over empty ones; and a command fails only where inputs are read, when `_resume` holds
nothing with contents, which by `StartingKept` means that every find was endangered
(`ExecuteReports`).

There is a lemma for each operation in each phase in which it can be the next command
(`Heads`, `LastHead`, `FuzzingHead` say which), and one for a death in each. Which command
stands where is computed from the program texts (`ProgramAt`, `LinksAt`, `ImportAt`);
`ByNameAt` shows that the resume reads every file of `_resume` once.

`Synchronisation_proofs`. `ResumeRestores`, under the same `Spec` and for the same
constants. `Inv` says where the finds are; `ResumeRestores` is about their numbers, marks and the
position in the queue, and needs to know at every moment what a resume would find
if the process died now. The invariant `Ordered` adds to `Inv`:

* `Always`: in `queue` and `_resume` a file with a higher number holds a later find, and
  `mem` is in that order too. A resume sorts by name, so the order survives;
* with no session running, `Restores` of the directory the next resume reads (`Source`:
  `_resume` if it is there, else `queue`): finds that were done are marked in its
  `deterministic_done` (`Marking`), its file number `cur_path` of the last report is the
  input that was fuzzed (`Citing`), and the numbers have no gap (`Numbered`). Then
  each file has as many files before it as its number says (`RankIsNumber`), and the
  resume gives it the number it had (`ByNameLists`). The numbers matter only when
  `Counted`: a session started afresh makes a new meaning for them, until its first
  report;
* `StartingOrder`: the same of the directory that was renamed, which nothing touches before
  it has been read;
* `ImportingOrder`: each mark of an entry in memory is made or still to be made, and the
  files in `_resume` are entries in memory with their numbers, all of them while
  links are left. A death then leaves `_resume` to be read again (`ResumeRestored`), and so
  does a death in `nuke_resume_dir` that comes before an input or its mark is deleted
  (`Nuked` is empty); a later one is one of the two moments at which inputs are endangered
  and nothing is claimed;
* `FuzzingOrder`: `queue` is what is in memory, an entry at the number of its place,
  written or about to be; marks and `cur_path` agree with memory.

In the same module, `PeerMissesNothing` (`SyncMissesNothing`): the peer remembers a number, the owner
renames its queue, links it anew and dies in between. The invariant `FollowedUp` has two
parts besides `Ordered`:

* `Handled`: a number that the peer will not look at again, or has looked at in this pass, was
  passed by, or stands for an input that was run. A number stands for an input (`Bears`) if a
  file in `queue` or `_resume` holds it or a command is about to write it there;
* `Mirrored`: with nothing in memory, what an interrupted resume has left in `queue` is
  also in `_resume`, under the same number.

That each step of the owner leaves every number with its input (`BearsKept`) is the core
of the proof. With a queue in memory it is read off memory before and after the step
(`BearsMemory`, `MemoryBorne`, `Carried`); start-up and a death have lemmas of their own
(`StartingBears`, `RenameBears`, `KillFollows`). The steps of the peer then only need that a number
stands for one input (`OneInput`).

`Tools_proofs`. `fuzz_one`, two programs that edit a test case in place, `afl-as` and the
allocator, each by itself:

* `BuffersAlwaysInBounds`, for every entry, dictionary and queue, under `Spec` of `FuzzOne`. `FuzzInv`
  joins `Room` (the mutant has a byte and fits into its buffer, and the entry's own length fits when
  no havoc is under way) with `WordsTyped`, that whatever may be drawn from the dictionaries
  has a length. The latter goes through the whole of the deterministic stages and the dictionaries:
  sorting and evicting make no new tokens (`SortedTyped`, `AutoTokens`). There is a lemma for each tweak;
* `EntryAlwaysPutRight` (`OneChangeAtATime`), for every entry and dictionary, under the same `Spec`:
  whatever a deterministic stage writes into `out_buf` is put right before it moves on. `BufferInv` adds two
  parts to `FuzzInv`. `Intact` is what the buffer holds while a candidate is in it: a
  flip of the entry, which a second one undoes (`FlipsBack`: the flips of single bits are
  involutions of a byte and commute, `FlippedAgain`; several of them by induction), or the entry but for a
  piece of which `orig` is the original. The dictionary stages put back only as many bytes as the last word
  had; that is enough because the words are in order of length, which the proof follows from
  `load_extras` and the two sorts of `a_extras` on (`LoadedExtrasTyped`, `SortedTyped`: the tokens used
  by a stage of their own are ordered, `TopOrdered`, after each insertion and each
  eviction). `Placed` counts: what `stage_max` and `stage_cur` leave is what the positions and candidates
  left make, so that the two agree at the end, whatever was left out;
* `ResultsAreMinimal`, for every test case and all answers of the target, under `MinSpec`. The
  invariant `Passed` says which bytes are known to be needed as long as nothing has changed since the
  deletions began. A block that is passed over because it is equal to its left neighbour is
  needed by `EqualNeighbours`: without the one or the other the same is left. That the last pass is
  one with blocks of a byte, and ends the loop only if it has changed nothing, gives the theorem;
* `RunsPrintedAreFields`, for every input and all replies, under `AnSpec`. While the bytes are
  judged, `Adjusting` says what each of them is after so many changes (`ChangesTakenBack` is their
  arithmetic), and `Judged` that a bit flips exactly where no change is answered alike. `Printed`
  follows `dump_hex`: a run is the longest block of one bit (`RunFacts`), and is called fixed only
  if one of its bytes is (`KindOfRun`);
* `TrampolinesAlwaysRight`, for every file, all options and every draw, under `AsSpec`. The code
  keeps six flags from line to line, the property looks back over the whole file: `Flags` in the
  invariant `AsInv` says that at each line they agree (the last directive of a pair, an alignment whose
  label has not come, a marked label whose instruction has not come). So each line is copied with the
  trampolines that belong to it (`LineKeeps`), and the output is the lines' pieces put together
  (`Copied`, `FlattenedTo`).

Of the allocator `libdislocator`, for any page larger than the header, any width of
`size_t`, any limit below it and any finite number of threads, under `DislSpec`:

* `BordersAlwaysGuarded`: `Guards` says of each mapping that the buffer ends where
  its last usable page does and which pages are hidden. That `free` begins at the
  first byte of the mapping (`RegionStart`) and so hides all of it is arithmetic on
  offsets (`ProtectedGuarded`); a block whose canary can be read has not been freed
  (`ReadableLive`), so a second `free` changes nothing. That `calloc` gives out the
  product in full rests on its division (`NoOverflow`);
* `LimitAlwaysKept`: `Limits` joins `Together` (the counters add up, modulo the word,
  to the lengths of the live mappings), which every step keeps whoever frees, and
  `Exact`, which holds until `crossed`. A granted request does not wrap
  (`GrantedFits`), which is what the second half of the code's test is for, and a
  refused one does not fit (`RefusedTruly`). `realloc` is a grant and then a release. A `free`
  whose `mprotect` fails is exempt: the counter no longer shows the mapping, and the program ends.
  A sum over a set is a fold in an order that `CHOOSE` fixes; `AnyFirst`, by induction
  over the size of the set, shows that the order does not matter.

`NaturalSets` holds the induction that the walk, the sweep and the sums need. It is
stated with sets and functions, so that it can be used without naming a predicate as
an argument: a set that holds 0 and with each number the next one holds
all; and a function given by its first value and a step exists and unfolds.

Assumptions: the named `ASSUME`s of the modules, each evaluated by TLC in the
runs. `MCPivotSelection` also compares `BreaksEveryCycle` with reachability on
every graph of three functions.

Only model-checked:

* all liveness: `RunEnds`, `StopIsObeyed`, `ToolsEnd`, and `BodyDivergenceReported`;
  TLAPS does not reason about fairness;
* `SelectionAdvances`, whose variant uses cardinalities of sets of pairs;
* `SkipsAreRepeats` of `DeterministicStages`, which compares each filter with the history of all mutants
  run by the stages before, through the arithmetic of words in both byte orders; the run enumerates
  the entries.

## 5. What the models leave out

* A digest is taken as a function of the state. `_hashCombine` joins decimal
  digits without a separator, so different states can have one digest; the
  reports are then exact about digests, not about states.
* Threads that share the oracle's globals: a data race, no property can hold.
* The diagnosis of a failed handshake, resource limits, and reuse of a pid
  after the server has reaped it (a window of the protocol: afl-fuzz kills, the
  server reaps). A forked process that has not yet closed its copies of the
  pipes is taken to have closed them. Without a server a persistent binary stops
  itself after its run and is killed by the timer.
* If the entry block of a function is a return block, the pass inserts
  `_checkReturn` in front of the instructions that compute its arguments. That
  is a matter of code generation and not modelled.
* `NON_TERM_ERROR` (`afl-fuzz.c:2491`) is defined in no file of the repository;
  `Fault` models the comparison as intended, with the oracle's exit code.
* Havoc and splicing work on lengths, not on bytes. The score of an entry is the
  real table of `calculate_score` with its inputs drawn from the entries.
* The names of backups of `crashes` and `hangs` carry a stamp of the second;
  two backups within one second are not modelled. Neither are `fix_up_sync`,
  `find_timeout` and the lock on the directory.
* If the alarm of `afl-analyze` comes after the run has ended but before the timer
  is reset, a finished run counts as a hang.

## 6. Plan

Done: the pass, the oracle, the fork server with and without server, the queue and
findings, the stages, the output directory with a peer, `afl-tmin`,
`afl-analyze`, `afl-as` and `libdislocator`. What is left, in this order:

1. `SkipsAreRepeats` of `DeterministicStages` as a theorem.
2. A bound on the score in `PerformanceScore`, and the digits of the state hash on
   bounded values.

## 7. Not modelled

The compiler wrappers besides `add_instrumentation`, the edge instrumentation
of the pass, `afl-showmap`, `afl-gotcpu` and the shell scripts, `libtokencap`, the
emulator patches, and the user interface: upstream AFL code that transforms
text or prints, or runs the target once and reports. Benchmarks, proofs of
concept and dictionaries are data.
