# A TLA+ model of deepgemm-rs

deepgemm-rs lets Rust programs launch DeepGEMM's CUDA kernels. It compiles each
kernel when it is first needed, keeps the result on disk and in the process, and
launches it on the caller's stream. The Rust and C++ sources are about 8400
lines; what is hard in them is not the arithmetic of a launch but what threads and
processes share while they make one: a cache directory, a table of loaded
kernels, compiler settings, an SM count, a hook, an error string, a CUDA context.

This directory holds TLA+ modules for these parts, TLC configurations that check
small instances, and TLAPS proofs of what can be proved for every instance.
`PROJECT.json` lists the parts, runs, mutants, hazards and theorems, and the
source lines each definition stands for.

`raw_runtime.cc` below is `crates/deepgemm-sys/csrc/deepgemm_raw_runtime.cc`, and
so on.

## 1. Inventory

| Component | State | Operations | What makes it correct |
|---|---|---|---|
| JIT kernel cache (`raw_runtime.cc` 331-358, 544-606, 839-878) | `<root>/cache/kernel.*` and `<root>/tmp/*` on disk, shared by processes; `g_kernel_cache` per process; loaded CUDA libraries | `build_kernel`, `load_cached_kernel`, constructor and destructor of `KernelRuntime` | The shared cache shows whole cubins only; a launch gets the kernel it asked for; races are no errors; no library is unloaded in use; every launch ends |
| Compiler configuration (`raw_runtime.cc` 237-322, 448-475) | paths given to `deepgemm_init`, `g_compiler_config_cache` | `deepgemm_init`, `compiler_config`, `compiler_flags`, `nvcc_path`, `nvcc_version` | One configuration for all builds since an init; it is that of the last init; it suits the device |
| Materialization hook (`runtime.rs` 101-227, `raw_runtime.cc` 41-106) | a closure in a Rust `Mutex`, a callback pointer in the native runtime | `set_kernel_materialization_hook`, the callback, scopes that report starts and finishes | A registered hook is told of every load and compile once; a replaced one no more; no deadlock |
| Kernel launch and SM count (`raw_mqa.cc`, `raw_gemm.cc`, `raw_runtime.cc` 477-527, 608-655) | `g_num_sms_override`, the functions of `g_kernel_cache`, their attributes, the streams | `launch_*`, `set_num_sms`, `effective_num_sms`, `make_launch_config`, `launch_kernel_ex` | A persistent kernel's grid is the SM count compiled into it; the driver accepts what is launched; the outcome tells what was launched |
| Paged mqa plans (`candle-deepgemm/src/mqa.rs` 83-164, 367-547) | `PagedMqaLogitsPlan`: the schedule and its SM count | plan, paged launch | The launch reads a schedule that was enqueued before it on its stream, for as many SMs |
| Error reporting (`c_api.cc` 14-38, `error.rs` 28-62) | thread-local `g_last_error` | `ffi_call`, `check_raw_status` | The text is that of the caller's own error |
| mqa and GEMM validation (`raw_mqa.cc` 32-165, 1081-1471; `raw_gemm.cc` 197-330, 816-839; `mqa.rs`, `gemm.rs`) | none | `require_*`, `validate_*` | Rust and C++ accept the same launches; nothing overflows afterwards |
| Layouts (`c_api.cc` 40-410) | none | `deepgemm_*_layout` | What Rust allocates is what the launcher demands and the kernel writes |
| GEMM heuristics (`raw_gemm.cc` 414-746) | none | `sm90_best_config`, `sm100_best_config` | There is a candidate; the choice fits shared memory, divides the SMs, and is the best candidate; its code determines its launch |
| Candle bindings (`candle-deepgemm/src`) | guards of tensor storage | `fp8_fp4_mqa_logits`, `fp8_gemm_nt`, ... | Device checks before launches |
| PDL flag, driver loading, source generation, build script, raw bindings, configuration log | flags and lazy statics | | |

How they interact. A call comes from Candle or plain Rust, which validates it and
asks for layouts, and enters the C API through `ffi_call`. The launcher validates
again, reads the SM count, generates code, and calls `build_kernel`, which reads
the compiler configuration, looks the kernel up in the process, on disk, or
compiles it, and reports to the hook through a callback into Rust. Then the
launcher sets the function's shared-memory attribute and launches. Errors are C++
exceptions up to `ffi_call`, then a status and a thread-local text. One mutex,
`g_runtime_mutex`, guards the process-wide variables for the length of single
reads and writes; nothing is held across a compilation, a hook or a launch.

Where it is hard: threads that build the same kernel share a tmp directory;
processes race for a cache directory; processes die between compiling and
publishing; configurations are computed without the lock; a registration is two
writes in two languages; hooks call back; the SM count, the current device and
the paths change between a read and its use; a CUDA function is shared by threads
and tied to a context; launches are asynchronous.

## 2. Plan

1. `KernelCache`, with the abstract `KernelStore` it implements - **done**
2. `CompilerConfig` - **done**
3. `MaterializationHook` - **done**
4. `KernelLaunch`: SM count, plans, contexts, errors; composes the
   launch with the process-local cache of (1) seen as one load step - **done**
5. `Layouts` and `Contracts`: the layouts of the C API, the validators of both
   languages and the bindings that allocate; that what Rust accepts C++ and the
   driver accept but for named causes, and that outputs fit - **done**
6. `GemmConfig`: the candidates, pipeline stages and choice of the heuristics, checked
   on the launches of the `contracts` run, with theorems on what a candidate
   guarantees (stages, shared memory, boxes) and on the comparisons - **done**
7. `RejectedForCause` and `OutcomeTellsLaunches` of `KernelLaunch` proved - **done**
8. The refinement `KernelCache => KernelStore`, `RightKernel` and `ScopesPaired` proved; the
   choice of a GEMM tile proved for every list of candidates; the properties of `Contracts`
   proved for all sessions - **done**

Modules are written to be proved about: no recursive operators, named assumptions,
one action per operation, proofs in `*_proofs` modules. Everything below exists.

## 3. Modules and code

### KernelCache, KernelStore, KernelCacheInv, KernelCache_proofs, KernelStore_proofs, MCKernelCache

`KernelCache` follows a thread through `build_kernel`: `LookupHit`/`LookupMiss` and
`Probe` are `load_cached_kernel`; `CreateTmp`, `OpenSource` and `WriteSource` the preparation of
`tmp/<name>.<pid>.<hash>`; `NvccRead`, `NvccOpen`, `NvccWrite` what nvcc does to that
directory; `Publish` the rename, `Recover` what follows its failure; `Load` the constructor of
`KernelRuntime`, `Store` the assignment into `g_kernel_cache`; `Launch`, `Release` and
`Complete` the launch, the drop of the launcher's `shared_ptr` and the end of
the kernel on the GPU. A file or directory that is open keeps its identity when it is renamed
or removed (`out`), because that decides what a second compiler in the same tmp directory does.

`build_kernel` calls `remove_all` on its tmp directory in three places: before it
compiles (`clearTmp`, line 565), when nvcc failed (`dropTmp`, 583) and when the rename did
(`leaveTmp`, 591). The call is not atomic: `ListTmp` opens and lists the directory,
`Unlink` removes one of the files it listed from the directory that is open, and
`RemoveTmp` the directory of that name, which must be empty by then. So a thread that has listed
the directory it shares with another unlinks the cubin which that one publishes by its
rename. `UnlinkMissing` meets a file that another thread has unlinked first: the C++ libraries
differ on whether that is an error, so both outcomes are possible.

`Refused` is any call the disk, nvcc or the driver refuses: a `write_file`, `create_directories` or
`remove_all` that throws (the last with part of its work done) among them. `LoseSource` is the failure that
nothing reports: `write_file` checks its stream after `write`, and what the
stream still buffers is written when it is closed (`raw_runtime.cc:325-329`); nvcc compiles the empty
source to an image without a kernel, and that is published. `lost` remembers for which directories this
happened. `Crash` is the death of a process, after which the pid may be reused.

Three properties so have an exception, which the code does not rule out and which the property names:

- `CacheComplete`: a cache directory holds its whole cubin, or the empty image of a source
  that the disk has lost. `ErrorsAreExplained`: a launch fails because something was refused to it, or
  because its source was lost once - by any process, for all later launches.
- `PublishedStays`: a published cubin changes or goes only when a `remove_all` of a thread that
  shares its tmp directory with another is under way in what that one renamed (`ErasedBySharer`).
- `RunningLoaded`: a library with a kernel on the GPU is loaded, or another thread of the process
  built the same kernel at the same time and took its place in `g_kernel_cache` (`Superseded`).

`KernelStore` is what this adds up to: kernels are published, fetched while they are, become
resident, and serve requests; `Lose` takes a published kernel away, for a thread that asked for
it in a process with other threads only. `ImplementsStore` is the refinement. `KernelCacheInv` has the
inductive invariants that their proofs rest on.

Abstracted: contents of files are absent, partial, kernelless or the image of a key;
a lost source is lost as a whole, for a source that is cut off
in the middle does not compile; nvcc reports it when it cannot write its own output; a crash takes the
process's nvcc along; a machine crash (nothing is fsynced), exhausted memory, and the library that a
failing constructor leaves loaded are left out.

### CompilerConfig, CompilerConfig_proofs, MCCompilerConfig

Each step is one critical section of `g_runtime_mutex` inside `compiler_config`:
`Cached`/`Missing`, `NvccPath`, `CompilerFlags`, `Store`, with `RuntimeInit` and
`SetDevice` at any time. `root` stands for the DeepGEMM root and the CUDA home together;
of the flags the include path and the architecture are kept, the rest is constant in
a process. `RunsOn` is external: which devices an `sm_` architecture runs on. `madeFor` is
a history variable: the device of the thread whose configuration was stored. `Alike` says when code made
for one device should serve another: the same compute capability, but for 10.3, which code made
for 10.3 with a toolkit before 12.9 does not serve; and within 10.0 and 10.3, from toolkit 12.9
on, whose flag names the family. `RunsLikeFirst` says that `compiler_config` keeps to this: kernels
run on every device that is like the one of `madeFor`.

### MaterializationHook, MaterializationHook_proofs, MCMaterializationHook

`Register`, `StoreClosure`/`StorePanics` and `PassCallback` are
`set_kernel_materialization_hook`: the closure goes into the Rust `Mutex`, then the
callback or null to the native runtime. `BeginScope`, `Work` and `Emit` are
`KernelMaterializationScope`; `CloneClosure`, `CallHook`, `HookEnds` and
`HookReturns` the Rust callback. Hooks may register hooks; a replaced closure
may panic when it is dropped, which poisons the `Mutex`. `last`, `raced`, `steady`
and `seen` are history variables. Left out: a closure that panics when the
callback drops it, outside `catch_unwind`, and hooks that launch kernels (those
are in `KernelLaunch`).

### KernelLaunch, KernelLaunch_proofs, MCKernelLaunch

Threads call `fp8_fp4_mqa_logits` (with or without the cleaning kernel, written as
two operations), `fp8_gemm_nt` with prepared scales, `paged_mqa_logits_plan`,
`fp8_fp4_paged_mqa_logits` and `set_num_sms`, and switch GPUs between calls. A call is
`Begin`, `BeginPlan` or `BeginPaged` (the checks of the binding, the one read of the SM
count and the native checks, which fix the list `todo` of launches; nothing between
them is shared but the SM count), and for each launch `Lookup`, `Load` or `LoadFails`,
`SetAttribute` and `LaunchKernel` or `LaunchRejected`. `Throw` is an exception that
`ffi_call` turns into a status and a text at once; a failed build reaches it by `Catch`,
after the hook ran; `Report` is `check_raw_status`. `ClearError` stands for the native
calls that succeed, among them the `device_info` query with which a binding begins.
`HookCalls` is a hook that calls DeepGEMM during a load, and while an exception unwinds.

A launch is its generated code, grid and shared memory, because these tell launches
apart: the SM count is part of the code of persistent kernels, the rounded batch size
of the SM90 metadata kernel, and neither of the paged and SM100 metadata kernels.
`Stream` is one stream per Candle device: `ensure_same_device` compares devices, and
a GPU may have several. `Accepts` is external: the driver wants a function of the
stream's context and no more shared memory than its attribute grants.

Left out: shapes and validation, descriptors, PDL, what the GPU computes, and how
a load finds its cubin (`KernelCache`). `set_num_sms` checks and stores in one step,
because the SM count of a device is constant. The kernels that transform scales are
not among the operations: their grid does not depend on the SM count. A GPU is switched
only while calls remain to be made, and `Done` lets the model end when `MaxCalls` were.

### Layouts, GemmConfig, GemmConfig_proofs, GemmChoice_proofs, Contracts, Contracts_proofs, MCContracts

`Layouts` has the layouts of the C API as operators on naturals, and the strides that
the launchers demand, which the C++ sources compute a second time. `Contracts` has the
checks in front of a launch, one operator per validator: `Accepts*` are those of
`mqa.rs` and `gemm.rs` of `crates/deepgemm`, `Native*` those of the launchers, `DriverAccepts` what
`cuTensorMapEncodeTiled` and `cuFuncSetAttribute` refuse of what is left. A tensor's address is the
base of its storage and a start offset, which the bindings add and nobody checks
(`candle-deepgemm/src/tensor.rs:96-101`): a call says which of its tensors do not start at a multiple of 16
bytes (`unaligned`), and the driver describes none of those (`Described`, `Describable`). What a binding
allocates, and the scales that a transform returns from it, start at one. Its state
is a session of one client: the calls to be made (`todo`), the layout and output of the
call in progress, and what was launched (`done`), whose outputs later calls may use
(`Returned`). `MqaLogits` ... `GemmPrepared` are the checks of Rust and the query for a
layout, `Allocate` the output of a binding or of a caller of the crate, `Launch` and
`Reject` the call into C++; `GemmRaw` and `GemmRawB` are `fp8_gemm_nt`, which replaces itself
by its transforms of scales and the GEMM on prepared scales. `BroadcastWrites` is the
index calculation of the two kernels that spread block scales, whose code is text
in `raw_gemm.cc`. `RawGemmIsLaunched` says that a `fp8_gemm_nt` which keeps the contract of its documentation
(`Documented`) passes all checks of its three calls, within four limits that the documentation does not
state (`WithinLimits`): n is a multiple of 8, k one of 16 and 65536 at most, the padded sizes fit 31 bits, and
a and b start at multiples of 16 bytes.

`SessionAssumption` says what a session may be: a sequence of calls as the types of the crate
admit them (`AnyCall`: a rank for each tensor, any dtype, shape and stride), in which a call uses
only what calls before it returned, and a GEMM has at least one SM, because `effective_num_sms`
returns no zero. Strides are natural, as those of Candle are. `ContractsAssumption` says that
the GPU has an SM and that `I32Max` is 128 at least, which head counts, head dimensions and page sizes are
compared with.

`GemmConfig` is how `fp8_gemm_nt` chooses a kernel. `Candidates` are the tiles of the
nested loops that the `continue`s leave, a function of their positions in the order of the loops; `Sm90Pipeline` and
`Sm100Pipeline` the shared memory and stages of a tile; `Sm90IsBetter` and `Sm100IsBetter`
the comparisons, and `Best` the scan, written as the chain of improvements
it makes. `Code` is what the choice puts into the source of the kernel, and `Attributes` and `Boxes` what
the launch says apart from it. A call has `sms`, the SM count the launcher reads.
`Launch` records the configuration of a GEMM in `done`.

Abstracted: ranks are fixed by the operation, and a dimension is a natural: `FitsI32`
compares with `I32Max`, which stands for 2^31 - 1 with a smaller value in the run, and 64-bit
overflow does not occur. A 32-bit product of sizes that were checked alone (`Products`) is
undefined when it does not fit: `Launch` and `Reject` are both possible then. The cycles
that SM90 compares are doubles in the code and exact here, up to a factor that is the same
for all tiles, so rounding could break a tie another way. A scale counts as the transform's whose
output it is, whichever k that was made for: shapes alone cannot tell. A stride equal to
zero is kept, negative ones are not tensors Candle makes. External, and so from what the
launchers assume: that an address and a row pitch are multiples of 16 bytes, a box at most 256 elements wide, a grid
whole clusters, that a block has 227 KB of shared
memory, which rows a mqa kernel writes, and the transforms with one scale per row. Left out
here: everything that is in `KernelLaunch`.

## 4. Runs

| Run | What it asks | Bounds | Result |
|---|---|---|---|
| `cache_faults` | Races, refused calls, lost writes, crashes and restarts over one cache directory: `CacheComplete`, `ErrorsAreExplained`, `PublishedStays` | 2 processes of one thread, one kernel | holds |
| `cache_shared` | Threads of one process that share a tmp directory: `ReferencedLoaded`, `RunningLoaded`, `ScopesPaired`, `PublishedStays`, `ImplementsStore` | 2 threads, one process, one kernel, faults, lost writes and crashes | holds |
| `cache_live` | `RightKernel`, `LaunchEnds`, `LaunchPublishes` | 3 processes of one thread, one with other flags, one kernel, nothing refused, `FairSpec` | holds |
| `cache_shared_poison` | `CompiledIsReusable`: a compiled kernel is reused by later launches | 2 threads, one process, nothing refused | violated |
| `config_anytime` | `OneConfigPerInit`, `RunsLikeFirst`, `ConfigOfQuietInit` while `deepgemm_init` is called at any time | 3 threads, 3 toolkits (one broken), 2 Blackwell devices | holds |
| `config_devices` | `RunsOnDevice` with a Hopper and a Blackwell device | 2 threads | violated |
| `hook_registrars` | `LoneHookIsTold`, `ReplacedHookIsSilent`, `ReportsEnd` | 2 threads that register and report, 2 hooks, panics, `FairSpec` | holds |
| `hook_race` | `RegisteredHookIsTold` when registrations overlap | 2 threads, 1 hook | violated |
| `launch_mixed` | `GridMatchesCode`, `ScheduleFits`, `RejectedForCause`, `ErrorIsOwn`, `OutcomeTellsLaunches` | 2 threads, Hopper with 2 SMs and 2 streams, Blackwell with 1 SM and 1 stream, batches 1 and 3 aligned to 2, SM override up to 2, 3 calls | holds |
| `launch_contexts` | `LaunchIsAccepted` on two GPUs of one kind | 1 thread, 2 calls | violated |
| `contracts` | The two validators: `RejectedForCause`, `RefusedForCause`; what is written and returned: `OutputFits`, `BroadcastFillsView`, `RawGemmIsLaunched`, `ScalesReadAreWritten`; the choice of a GEMM kernel: `PipelineIsDeep`, `ChosenIsBest`, `SameCodeSameLaunch` | 4882 sessions of up to 3 calls on each architecture, a GPU of 132 SMs with counts of 1 to 4 and 132 in use, `I32Max` = 8000000 | holds |
| `contracts_view` | `ReturnsPromisedShape`: a binding returns the logical tensor | the same | violated |

Passing runs also check the `TypeOK` of their module once. Where a run says
violated, the property is what the repository's text says of the program.

Why the bounds are enough. A race over a cache directory needs two builders and
someone who observes them: in `cache_faults` each of the two is also the other's observer, launch after
launch, and a process that starts again with the old or a new pid is one more. In `cache_live` a third process, with
other flags, shows whether keys are kept apart. In `cache_shared` the two threads meet with every step of
`remove_all` between any two of the other's. A registration can be raced by one other. In `KernelLaunch` the hazards are pairs: a
reader and a writer of the override, two launches that share a function, two failing
calls; a third call lets one thread make a plan and use it while the other
changes something. Two batch sizes on each side of the alignment, two SM counts, and
two streams on one GPU and one on another make every refusal possible. `MaxCalls` and
`MaxSms` of `KernelLaunch` are the only counters that had to be capped. Symmetry is used on the threads of
`launch_mixed` and on the two streams of one GPU; that run has invariants only.
The sessions of `contracts` put each number on both sides of what a check compares it
with: one row and more than a block of rows, heads that are supported by one architecture or
none, page sizes that match a plan or do not, k below, at and above a multiple
of the block and at the 512 columns of the transform, batches at which the metadata
kernel exhausts shared memory, sizes around `I32Max`. `I32Max` is above the longest rows for
which SM90 finds a candidate, about 6 million, so that GEMMs run out of candidates before
they run out of integers, and low enough for TLC's own 32 bits. GEMM shapes are on both sides of the
thresholds of the heuristics (m of 16, 32 and 64, k of 256), take one wave and several, and
get swapped tiles and clusters; pairs of GEMMs differ in one of m, n, k and the SM count, so that some share
their code. Every tensor of every operation is also
changed in one thing: its dtype, one dimension, one stride. And each tensor that a call passes is narrowed
to a start that is no multiple of 16 bytes, in single calls and in the sessions of a raw-scale GEMM.

Fairness. `KernelCache`: weak fairness of each thread's steps: threads are scheduled
and nvcc ends. Nothing makes a thread launch or the GPU finish. `MaterializationHook`:
the same, and strong fairness of `HookEnds`, because a hook that may register hooks
any number of times still returns. The other modules check safety only.

### What the violated runs show

- `cache_shared_poison`: two threads that launch the same kernel for the first time use
  the same tmp directory (`raw_runtime.cc:564` has the pid but not the thread). One of
  them clears or renames it while the other writes; the published `kernel.cubin` can
  be truncated or have no kernel, and every later launch, in any process, finds and
  fails to load it.
- `config_devices`: the architecture flag is that of the device of the first launch.
- `hook_race`: two registrations leave a closure without its callback.
- `launch_contexts`: `g_kernel_cache` is not keyed by context, while the `CUfunction` it
  keeps belongs to one.
- `contracts_view`: `fp8_fp4_mqa_logits` narrows the columns of its allocation and not its
  rows, so 3 tokens with 32 heads give a view of 4 rows.

`ConfigOfQuietInit` has a condition, that the last `deepgemm_init` did not overlap a
computation, because `compiler_config` stores what it computed from older paths after a
`deepgemm_init` (`raw_runtime.cc:318`), for all later builds; without the condition
(`ConfigOfLastInit`) it fails. `RejectedForCause` names where the two validators part: sizes
that only C++ compares with 32 bits, a described tensor that does not start at a multiple of 16 bytes, weights whose rows have gaps, k that is no multiple of
16, k that leaves no SM90 candidate, a 32-bit product that does not fit, an empty cache or block table, empty context lengths, more SMs than the device has, a batch too large for the
metadata kernel, more than 512 columns of scales, and a transform of scales whose grid does not fit.

`ScalesReadAreWritten` relates two calls: a transform with one scale per row takes its rows as
`uint32_t` and checks only their number of blocks, so it is launched for 2^32 rows and more and
writes a few of them; the GEMM that would read the rest is refused, because its own m, n and padded
sizes must fit 31 bits.

## 5. Proofs

All theorems are checked by TLAPS for every value of the constants that satisfies the
`ASSUME`s of the modules.

| Module | Theorem | Extra assumptions | Argument |
|---|---|---|---|
| `KernelCache_proofs` | `TypeCorrect` | none | inductive |
| | `ReferencedStaysLoaded` | none | `LibInv`: who holds which library, and that the entry a store replaces is never the one being stored |
| | `ScopesStayPaired` | none | `ScopeInv`: what a thread has announced follows from its label |
| | `CacheStaysComplete`, `ErrorsHaveReasons` | `SingleThreaded` | `CacheInv`: the contents of a thread's tmp directory at each label and what its `remove_all` has still to unlink (`OwnsTmp`), what it counts on (`LoadReady`), and that a source that is not whole is in `lost` |
| | `RunningStaysLoaded` | none | `RunningInv`: what runs, or is about to, has an entry in `g_kernel_cache` - its own, or one that replaced it |
| `KernelStore_proofs` | `KernelIsRight` | `NoCollision` | `NamedInv` and `RightInv`: directories, libraries and entries are of the key they are named for, whatever is in the files |
| | `PublishedIsNeverReplaced` | none | `FilesInv`: what is open for writing is shown unfinished by the directory it is in by now, and something is open in a cache directory only if a sharer renamed it there (`OpenFile`); all that is open in one cache directory is of one process (`OneWriter`); what does not exist is empty (`TmpTidy`) |
| | `CacheImplementsStore` | `NoCollision` | `StoreInv`, the four above with the types; each action of `KernelCache` is then a step of `KernelStore` or a stutter |
| `CompilerConfig_proofs` | `TypeCorrect`, `OneConfig`, `LastInitDecides` | none | agreement of the threads with the cache since the last init; drafts are computed from the current root unless the init overlapped |
| | `RunsWithFirst` | none | `DevicesInv`: the configuration that is stored is the one made on the device `madeFor`, and one about to be stored the one made on its thread's device (`MadeOn`); architectures that are alike get one flag that covers them (`AlikeRuns`) |
| `MaterializationHook_proofs` | `TypeCorrect`, `ReplacedIsSilent`, `LoneIsTold` | none | `SilentInv` and `ToldInv`: while a scope is steady the `Mutex` holds the last hook, closure and pointer are in step, and what the hook was told follows from the label |
| `KernelLaunch_proofs` | `TypeCorrect`, `GridsMatch`, `ErrorsAreOwn`, `SchedulesFit` | none | `LaunchInv`: each launch in `todo` fits its call and each function its launch; `ErrorInv`: what is caught is what was thrown; `ScheduleInv`: every plan's schedule is in its stream, and every paged launch has a plan |
| | `OutcomesTellLaunches` | none | `CountInv`: launches sent and still to send add up to what the call promises; only a call that sent nothing throws for its arguments |
| | `RejectionsHaveCauses` | none | `SmemInv`: what a code asks for follows from it; a code that a thread loads was never loaded by that thread before, so no load resets an attribute in use |
| `GemmConfig_proofs` | `Sm90BetterIsOrder`, `Sm100BetterIsOrder` | none | ladders of numbers, at least one wave each (`Sm100InfoIsInfo`) |
| | `Sm90CandidatesFit`, `Sm100TilesFit`, `BoxesAreDescribable` | tiles of the loops | `PipelineFits`, and bounds on what a tile needs once and for each stage |
| | `Sm90HasCandidate`, `Sm100HasCandidate` | SM90: k up to 6021120 | the smallest tile passes every test |
| | `CodeDeterminesLaunch` | tiles of the loops | cluster size and multicast give the two sides of the cluster, and k is in the code |
| `GemmChoice_proofs` | `ChoiceIsBest` | a strict order | induction over the positions of the candidates: the chain of improvements that `Best` follows ends at one that none improves |
| | `Sm90Chooses`, `Sm100Chooses` | none | with the candidates' tiles in the loops' sets (`CandidatesAreTiles`) and the two orders above |
| `Contracts_proofs` | `SessionInvariant` | none | `SessionInv`: the types of all variables (`TypesInv`), the layout and the view belong to the call in progress (`CurrentInv`), what is done was accepted and chosen as the code says (`DoneInv`), results are used after they exist (`UsesInv`) |
| | `TypeCorrect`, `OutputsAreLargeEnough`, `PipelinesAreDeep`, `SameSourceSameLaunch`, `ChosenTilesAreBest` | none | follow from `SessionInv`, the lemmas on layouts and alignment, and the theorems on the choice |
| | `ScalesAreWritten` | none | `ReadsInv`: a GEMM that was launched fits 31 bits, and so the transform whose view has its number of rows wrote them all |
| | `RefusalsHaveCauses` | none | `RefusedInv`; for each operation, what the launcher accepts the crate accepts (`Native*IsAccepted`) |
| | `RejectionsHaveCauses` | none | `AcceptedInv`: a layout is kept only for a call that the crate accepts; for each operation, what the crate accepts is launched unless there is a cause (`Accepted*IsTaken`, with room in shared memory for the scales of a GEMM and products of three sizes for the pages of a cache) |
| | `BroadcastsFillViews` | none | `TransformsInv`: a transform was launched with scales that the crate accepted. Threads and cells are in bijection, by division by the number of columns (`ThreadOfCell`, `CellOfThread`); a column of the output is at least as long as it has rows, so cells lie apart (`CellsApart`) and are counted (`CellsAreCounted`) |
| | `RawGemmsAreLaunched` | `512 * 128 <= I32Max` | `RawInv`: how far a raw GEMM is, one stage for each call it is made of (`AtStart` to `AtEnd`), and that the scales launched so far are what its GEMM takes (`IsPrepared`); each of those calls is accepted and has no cause to be rejected (`ScaleOfAIsGood`, `ScaleOfBIsGood`, `GemmOfIsGood`) |

`SingleThreaded` (no two threads of a process launch) is needed: without it
`cache_shared_poison` shows how directories without a usable cubin come about. `NoCollision` says that the 64-bit hash
tells the keys in use apart. None of the safety properties above the types is
inductive by itself; the named invariants add what they rest on.

The assumptions on sessions hold for every program: they restrict what the types of the
crate admit only in what is said of strides. The theorems of `Contracts_proofs` so hold
for all shapes, dtypes and sizes, where the run takes some on both sides of each comparison.

Only model-checked: liveness (`LaunchEnds`, `LaunchPublishes`, `ReportsEnd`), which
needs ENABLED. Every other property of a passing run is proved.

## 6. Not modelled

- 64-bit overflow of sizes: it takes tensors larger than a GPU's memory. The 32-bit conversion of
  the number of waves, for the same reason.
- The PDL flag: a boolean nothing else depends on.
- Lazy loading of the driver (`raw_runtime.cc:108-135`) and the set of printed
  configurations (`raw_gemm.cc:166`): unsynchronised statics. Their data races are undefined
  behaviour, but racing threads write equal values or debug output.
- Source generation, the build script, the raw bindings and the vendored headers: text
  and declarations.
- What kernels compute.
