# qwen382743090: a TLA+ development

`q38` runs a quantised Qwen model on one NVIDIA GPU. A Python tool turns a GGUF
model into a Q38PACK file; a C++ library maps that file, plans where its tensors
go in GPU memory, and drives CUDA through the driver API with hand-written PTX
kernels; command-line programs run the kernels and the first layer of the model
against CPU references; a small HTTP server forwards requests to a reference
implementation. This directory models those parts in TLA+, checks the models
with TLC and proves part of what the runs show with TLAPS.

Paths below are relative to the repository.

## 1. Inventory

| Part | State | Operations | Interacts with |
|---|---|---|---|
| **GPU self-test calls**, the 21 `NvidiaDriver::run_*` functions (`src/driver.cpp`) | one VMM workspace (`ScopedVmm`: reservation, physical memory, mapping), up to seven module handles, the stream, the output parameters | guards, `ScopedVmm` constructor and `release`, uploads, module loads, launches, waits, read-backs, comparison, timing loops, unloads, return | CUDA driver, GPU |
| **Layer-0 chains** (same file) | activation buffers in the workspace, `sumsq`, buffers read back, CPU reference vectors | `launch_*` lambdas, read-back, CPU references, comparisons, `bench` | the call above |
| **PTX kernels** (`k*Ptx` strings) | shared memory and registers of a block | load, store, barrier, shuffle, branch | launched by the chains |
| **Driver session** (`open`, `close`, `probe_vmm`) | library handle, created context, device facts, virtual-memory support | load the library, resolve symbols, query the device, create the context, destroy it, unload | CUDA driver |
| **Converter** (`tools/gguf_to_q38pack.py`) | the layout of one conversion, `destination.tmp`, the destination | parse GGUF, lay out, write, repack Q5_K, fsync, `os.replace` | file system, the readers |
| **Pack readers** (`src/q38pack.cpp`, `tools/q38pack_format.py`) | file descriptor, mapping, header, tensor records | open, parse, move, find, view, close | the files the converter makes |
| **Placement** (`src/placement.cpp`) | cursor, offsets, statistics | `align_up`, `PlacementPlan::build` | sizes from a pack |
| **Runtime dispatch** (`src/runtime.cpp`) | a path, a `PackFile`, an `NvidiaDriver` | `load`, `info`, layer kind, kernel selection, guards, one call of `run_*` | readers, driver session, GPU calls |
| **Quantisation reference** (`src/quant.cpp`) | none | fp16, K-quants, Q8, SM86 repacks | used by converter tests, smoke tests and references |
| **Server** (`server/q38_openai.py`) | `State`: model, upstream; a thread per connection | `do_GET`, `do_POST`, `proxy_reference`, the accept loop | HTTP client, upstream |
| **Command-line tools** (`src/*_gemv.cpp`, `*_smoke.cpp`, `layer*.cpp`, ...) | none of their own | find tensors, check them, open the driver, one call | readers, runtime, GPU calls |
| **Inspection tools, tests, CI** | none of their own | call one of the above, print | all of the above |

### Which behaviours are hard

*Failure in the middle.* Each of the `run_*` functions makes dozens of fallible
calls. What has been acquired must be given back on every path, by a
constructor that cleans up after itself, an inner handler, a sequence of checked
unloads and a destructor, and the order of these differs between the normal path
and the error path.

*Asynchrony.* Launches and memsets return before the GPU has run them. The host
can tear down memory and modules under a running stream; it can read a clock
too early; a kernel fault surfaces at some later call.

*Shared scratch.* The chains of a layer share buffers, and one accumulator
(`sumsq`) serves two normalisations and all the timing loops.

*Checks that share data with what they check.* The CPU references are fed with
buffers read back from the GPU, only some rows are compared, and comparisons
with `>` do not see a NaN.

*Warps.* The kernels that reduce over a block rely on barriers for every
exchange between warps, and on the position of their branches for the barriers
to be reached by all threads.

*Crashes and overlap in the file system.* A conversion writes for minutes; it can
be killed, the machine can lose power, a program can have the old pack mapped,
and nothing stops a second conversion to the same path.

*Who owns what.* A `PackFile` can be opened over an open file, fail in five ways,
be moved over another and be used after it was given away; its manifest is a
view into the mapping. A driver can be opened over an open session, and the
current context is a property of the thread, not of the object. `Runtime::load`
can throw between the two.

*Bare pointers.* What a run function copies from a tensor is computed from a
shape; nothing compares it with the bytes the record has. Each program has its
own copy of the guards that make up for it.

*A peer that answers late or in part.* The reference upstream may be silent for
ten minutes, close early or reset after the status line went out; the client
may hold back half a body, for which the handler waits without a timeout, or stop
reading; other connections must be answered meanwhile.

*Boundaries.* Alignment padding at the end of a file or a range, empty tensors,
blocks that do not fill a chunk, sums near the end of the word, singles whose
inverse is infinite or whose half is zero.

`PROJECT.json` lists each of these at its line under `hazards`, with the
properties that cover it, or why none does.

### What makes each part correct

| Part | Properties |
|---|---|
| GPU calls | nothing leaks; `true` means compared, unloaded and idle; timings only for a verified result and a finished stream; work in flight keeps its module and memory until the call fails; every call returns |
| Layer-0 chains | a wrong value in a compared row is always reported, and nothing else is; timing changes no buffer; every buffer is what its reference computes, whatever the order of the blocks |
| Block reductions | no data race; every square counted once whatever the interleaving; barriers met by all threads at the same place |
| Matrix-vector kernels | each row is the whole dot product of its own row; every wide load is aligned |
| Driver session | closed and blank or open and complete; the library and a context are held exactly as long as the object holds them |
| Converter | the destination always names nothing or a whole pack of one model, also after a power loss, and both readers accept it; a mapped pack does not change |
| Readers | every mapping and descriptor has one owner; a handle that holds a pack holds all of it; no view leaves the mapped file |
| Placement | aligned, disjoint, inside the reservation; the figures add up |
| Runtime, command-line tools | a load that returned left a whole pack; a run uses the model loaded last, in the object's own context; what is copied lies inside the tensor and has the layout the kernel reads; `READY` means dispatched |
| Quantisation | every decoder reads the same bits and numbers; halves are rounded to the nearest; codes are the nearest; decoding is close at every magnitude |
| Server | one honest reply per connection; a request that was sent whole or broken off ends, whatever the upstream does; a finished stream arrives whole; health is answered meanwhile |

## 2. Plan

The modules, from the most important behaviour down. Run names are those of
`PROJECT.json`.

| Module | What | Composes / refines | Run | Theorems |
|---|---|---|---|---|
| `GpuRun`, `GpuPrograms`, `MCGpuRun` | a `run_*` call and the CUDA stream | `MCGpuRun` puts the 21 programs into `GpuRun` | `gpu_run` | type, `NoLeak`, `TrueIsEarned`, `HonestTimings`, `TimedWhenIdle`, `InFlightIsBacked` |
| `LayerCheck` | what the self-checks see | | `layer_check`, `layer_check_nan` | `VerdictIsExact`, `RerunsChangeNothing` |
| `CtaReduce` | the reduction over a block of threads | | `kernels` | `NoRace`, `BarriersAreAligned`, `ScaledByTheWholeSum` |
| `GemvKernels`, `WarpGemv` | the matrix-vector kernels, one warp per row | extend `BlockFormats` | `kernels` | `LoadsAreAligned`, `RowsAreDotProducts` |
| `LayerStep` | the numbers of layer 0, block by block | with the two above in `MCKernels` | `kernels` | |
| `BlockFormats`, `BlockDecode` | the block formats, their repacks and every program that decodes one | `BlockDecode` extends `BlockFormats` as its reference | `quant`, `block_decode_q6` | |
| `HalfFloat`, `Q8Quantise` | fp16 conversion both ways; the Q8 quantisers | with `BlockDecode` in `MCQuant` | `quant` | |
| `Q38Pack`, `Converter`, `MCConverter` | container, conversion, crashes | `Converter` extends `Q38Pack`, refines `PackPublish` | `converter` | `DestinationIsComplete`, `ViewIsStable`, the refinement |
| `PackPublish` | an atomically replaced destination | abstract | `converter` | |
| `PackFile`, `MCPackFile` | life of `PackFile` objects | refines `PackHandles` | `pack_file` | type, `OneOwner`, `HandlesAreWhole`, `ViewsAreInside`, the refinement |
| `PackHandles` | a type that owns a mapping | abstract | `pack_file` | |
| `DriverSession` | `open`, `close`, `probe_vmm` | | `runtime` | `SessionIsWhole`, `NothingRetained` |
| `Runtime`, `MCRuntime` | loads and runs of one object | extends `DriverSession`, instantiates `PackFile` | `runtime` | refines `DriverSession`; `LoadedMeansWhole`, `RunsOnTheLoadedModel` |
| `LayerDispatch`, `TensorTools` | from tensor records to what is copied to the GPU | `TensorTools` extends `LayerDispatch` | `records`, `q5k_smoke` | `ReadsAreExact`, `ReadyMeansDispatched`, `StagesNest` |
| `Placement` | the planner | with `TensorTools` in `MCRecords` | `records` | `Disjoint`, `Fits`, tightness |
| `ReferenceProxy`, `MCReferenceProxy` | the HTTP server | refines `HttpReplies` | `reference_proxy` | `RepliesAreHonest`, the refinement |
| `HttpReplies` | what a connection promises its client | abstract | `reference_proxy` | |

Theorems about a component are in the module of its name with `_proofs`;
`Kernels_proofs` is about `CtaReduce` and `WarpGemv`, `Runtime_proofs` about
`DriverSession` and `Runtime`, `Records_proofs` about `Placement`, `LayerDispatch` and
`TensorTools`. Section 6 says what stays with TLC and why.

## 3. The modules and the code

### GpuRun, GpuPrograms, MCGpuRun

All 21 `run_*` functions share a skeleton. `GpuRun` is that skeleton, with the
function's own calls as data (`Program[fn]`); `GpuPrograms` is that data, one
definition per function.

| `phase` | Code (lines of `run_qwen35_layer0_full`) |
|---|---|
| `guard` | argument checks, `available()`, `is_sm86()` (7054-7068) |
| `ctor` | `ScopedVmm` constructor (149-170); a failure runs `release()` from inside |
| `setup` | symbol lookups and uploads, outside any inner handler (7388-7438) |
| `first` | the first module, loaded before the inner `try` (7446-7489) |
| `try` | the other modules, inside it (7491-7518) |
| `body` | function lookups, launches, sync, read-backs, comparison, timing (7520-8599) |
| `catch` | the inner handler: unchecked unloads in reverse order (8600-8609) |
| `unload` | the checked unloads of the normal path (8611-8624) |
| `tail` | what some functions do after them: write errors, compare |
| `leave` | `~ScopedVmm`, and the outer handler (181-194, 8627-8630) |

`held` is what the driver holds for the call, `refused` what it refused to take
back. `queue` is the stream; the device action `Execute` runs concurrently with
the host, `KernelFaults` puts the context in a sticky error state after which
every call but a release or an unload of nothing fails. `stray` records a kernel
that ran without its module or its memory. Numbers, buffer contents and messages
are left out; whether a comparison succeeds is a choice.

### LayerCheck

The four layer-0 checks as data: which kernel computes which buffer from which
(`Computes`), the launch order (`Launch*`), what each CPU reference reads
(`RefReads`), which of these are buffers read back (`Oracle`), which rows are
compared (`*Rows`) and the timing loops (`*Bench`). A buffer holds where its
contents came from and, per range of rows, the set of faults it depends on; a
run starts with up to `MaxFaults` wrong kernels. `sumsq` is a sequence of what
was accumulated since the last memset, so a missing clear or a sum of the wrong
buffer makes the normalised output unusable.

Values are compared by the faults they depend on: two values agree within the
tolerance exactly when they depend on the same faults. That leaves out errors
that cancel and errors below a tolerance.

### CtaReduce

`q38_qk_l2norm_128` and `q38_gated_rmsnorm_silu_128` share the reduction: store
the square, halve twice in shared memory across warps, sum a warp by shuffles,
publish, scale. One action per shared-memory access; `Barrier` releases a block
when every thread has arrived at some `bar.sync`. `readers` and `writers`
are the accesses since the last barrier, a word's race set. A partial sum is a
bag: how often each thread's square is in it.

### LayerStep, MCKernels

`LayerStep` has the numbers of one token through layer 0: the 22 launches of
`run_qwen35_layer0_full` in their order (`LaunchChain`), one operator per kernel,
and the CPU references of the same function. `LayerIsTheReference` compares each
buffer with its reference. Where `LayerCheck` asks what the program's own
comparison can see, `LayerStep` asks whether kernel and reference compute the
same thing.

The numbers are residues modulo a prime, a field: sums, products and the division
by a count are exact, so the order of additions does not matter and every other
difference of two computations shows. `exp`, the sigmoid, `softplus` and the
inverse square root are fixed polynomials without the structure that would hide a
difference. A weight matrix is applied in one step (`WarpGemv` has its kernels), and
so is the sum inside a block of the norms (`CtaReduce` has it); the sum over
blocks into the one `sumsq` is not. The 32 lanes, 128 elements of a head, 16 and
48 heads, the hidden sizes and the 256 threads of a block are parameters. A kernel
reads nothing another block of its launch writes except `sumsq`, so a block is one
step, and the blocks of a launch run in any order. Launches of a stream run one
after the other. Buffers start with what was in the memory before (`Garbage`).

`MCKernels` puts the three ways of looking at a kernel, `CtaReduce`, `WarpGemv`
and `LayerStep`, into one specification, in which one of them runs.

### Q38Pack, Converter, PackPublish, MCConverter

`Q38Pack` has the layout as operators (offsets, planes, directory entries), the
sequence of writes of `convert()`, and the acceptance conditions of the C++ and
the Python reader. `Converter` runs conversions over a small file system with
inodes: `dir` is the current directory, `durable` the directories that could
come back after a power loss, `synced` the files whose content would. `MapPack`
is a program that opens and maps the destination. `PackPublish` is what a user
of the destination is promised; `Publishes` is the refinement, with the pack of
a directory defined by decoding the destination's content.

### PackFile, PackHandles, MCPackFile

Any number of `PackFile` objects in a process with descriptors and addresses.

| Action | Code (`src/q38pack.cpp`) |
|---|---|
| `Construct`, `Destroy`, `Close` | the default constructor, the destructor, `close` |
| `OpenFails` | `open` gets no further than `open(2)`, `fstat` or `mmap` |
| `OpenFile` | the file is mapped, and `parse` throws or accepts it (`Parsed`) |
| `MoveConstruct`, `MoveAssign` | the move operations (`Taken` is what the new owner has, `Left` what stays behind) |

A file is what `parse` tells apart: size, magic, version, regions, manifest and
tensor records. What is worth knowing of the code is in the state: an object whose
`parse` threw keeps its mapping, an unchecked header and manifest view, and the
tensors read so far; one that was moved from keeps header and manifest (`moved`).
`PackHandles` is the promise: a handle owns one mapping or none. `Owner!Spec` is
the refinement.

### DriverSession, Runtime, MCRuntime

`DriverSession` steps through `open()`, each call of it an action that may fail:
a failure unloads the library and blanks the object, a second `open()` closes the
first session, `probe_vmm` makes its queries, `close()` destroys the context if the
library can. `stack` is the thread's stack of current contexts and `libs` counts
the loads of the library; `lost` are contexts that could not be destroyed.

`Runtime` is an object with a path, a `PackFile` (instantiated with one handle) and
a driver. `load()` sets the path, opens the pack, opens the driver; each may
throw, and `require_gpu` decides whether a driver that fails is passed on. A
run uses the tensors the pack has and the context that is current, whichever
object made it: that is what `launched` records.

### LayerDispatch, TensorTools, Placement, MCRecords

`LayerDispatch` has, for the five run functions of the runtime and for
`layer_topology.cpp`, which tensors they look up, what they demand of type, layout,
rank and shape (`Needs`, `KernelsAreRight`, `RankIsRight`, `ShapesAreRight`), the
driver's own guards and the bytes it then copies (`Copied`). `Outcome` lists the
checks in the order of the code. `TensorTools` does the same for the thirteen
programs that run one kernel on tensors of a pack. Packs are those the converter
makes (`Record`), of either version, with real sizes and offsets.

`Placement` is `PlacementPlan::build`, one action per tensor. `align_up` refuses to
overflow, so `Place` and `Finish` are guarded and `Throw` is the exception; `cursor
+= stored_bytes` is not checked and is modelled modulo the word. `wrapped` records
that it happened.

`MCRecords` has either a plan or a program with a pack. They share no state: the plan
is only printed, nothing places a tensor where a call takes it from.

### BlockFormats, BlockDecode

A block of 256 weights is a few dozen to two hundred bytes of codes, scales and
minima, some of them split over two bytes. The repository decodes these blocks in
many places: once in `src/quant.cpp` for each format, once for each SM86 form,
once in each dequantisation kernel and once in each matrix-vector kernel.
`BlockFormats` names a number by the bits it is made of, a sequence of fields
`<<byte, low bit, width>>`, so that "decodes to the same weight" is an equation
between sequences, whatever the block holds. It has the four native formats as
the CPU functions read them and, for the SM86 forms, the native bits in each
byte of a repacked block: the C++ repacks and the three planes of the converter.

`BlockDecode` steps each decoder through its 256 elements. `SameBits` compares
the fields, `SameNumber` the integer that a code stands for: the codebook of
IQ4_XS as a table, as a chain of predicated moves and as four registers with
`prmt`; the signed codes of Q6_K as a subtraction and as four bytes in a register.
A kernel's decoder is modelled by its address and shift arithmetic, one action
per thread. Multiplication by `d` and `dmin` is left out.

### GemvKernels, WarpGemv

`GemvKernels` says, for eleven kernels, what one lane reads in one pass of the
loop over a block: codes and the columns they are multiplied with, the scale
and minimum it applies, and the width and place of its loads. `WarpGemv` runs the
kernel: loop over blocks and passes, butterfly in the group, scale by the
leader, the reduction over the warp, the store.

| Action | Code (`kQ5KSm86SoAGemvVecPtx`, lines of `src/driver.cpp`) |
|---|---|
| `Return`, `Begin` | the row of this warp against `p_rows` (3905-3928) |
| `Load` | loads and products of the eight codes of a lane (3938-4060) |
| `GroupShuffle` | `shfl.sync.bfly` over the group (4062-4079) |
| `Apply` | scale and minimum in the leader, next block (4081-4109) |
| `WarpShuffle` | `shfl.sync.down` over the warp (4111-4127) |
| `Gather` | in the `dp4a` kernels instead: three `shfl.sync.idx` (2851-2858, 3861-3868) |
| `Store` | lane 0 writes the row (4128-4133) |

Sums are bags of terms, so a term added twice, dropped, or paired with the wrong
column or the wrong group's scale changes the result; rounding does not. Warps
share only `y` and each writes its own row, so running them one after the other
loses no behaviour. All lanes of a warp take the steps together: every shuffle
names all lanes, and no kernel branches inside a warp except for leaders between
two shuffles. The kernels' guard on `tid >= 32` is not taken by any launch of the
repository (32 threads) and is left out.

### HalfFloat, Q8Quantise, MCQuant

`fp16_to_fp32` and `fp32_to_fp16` work on records of sign, exponent and mantissa,
with the carries of rounding, the subnormals and the infinities. `Q8Quantise` has
both quantisers as loops over a block of values `k * 2^e`: the scan for the
largest magnitude (with sign for Q8_K), the scale, kept as a half in Q8_1, the
codes and their sums. Where `1 / d` is infinite the conversion to an integer is
undefined and the code may become any number (`Undefined`). What a user
wants to know is that this does not matter: the scale is zero there. `MCQuant` runs one call
of a decoder, of a conversion or of a quantiser.

### ReferenceProxy, HttpReplies, MCReferenceProxy

One thread per connection; `thread[r].pc` is where its handler is.

| Action | Code (`server/q38_openai.py`) |
|---|---|
| `Accept` | `ThreadingHTTPServer` hands a connection to a thread |
| `DoGet`, `DoPostElsewhere` | routing: `/health`, `/v1/models`, anything else |
| `DoPost` | `rfile.read(length)`, which returns at the end of the body or of what the client sends (`BodyEnds`), and the refusals |
| `UrlopenReturns`, `UrlopenFails` | `proxy_reference`: `urlopen` with a timeout of 600 s |
| `ReadWhole` | `read()` of a body that is not a stream |
| `SendHead`, `SendBody` | status and headers, then a body that is there |
| `ReadPiece`, `WritePiece`, `RelayFails` | the loop over `read(8192)` and `wfile.write` of a stream |
| `Interrupt` | Ctrl-C: daemon threads end with the process |

The environment is the client (sends its body at once, in two parts or not at all,
closes its sending side, stops reading, leaves; the head of its request is there when
it connects) and the upstream
(answers when it likes, in pieces, closes early, resets, falls silent until the
timeout; framed by a length, by chunks or by the end of the connection).
`HttpReplies` is what a connection promises: one status, one body from one source in
order, no longer than declared, then the end. The text of the bodies is left out.

Some of what the code does is visible here: an upstream that fails between its
headers and the status line leaves the client with a closed connection and no
reply; a list of pairs as payload is passed on and only then refused by `.get`; a
stream with a declared length that ends early looks complete to the relay.

## 4. What the runs check

| Run | Shows | Bounds | Distinct states |
|---|---|---|---|
| `gpu_run` | one call of each of the 21 functions with every driver call and kernel free to fail | `BenchIters = 1` | 1 754 287 |
| `layer_check` | the four checks with 0, 1 or 2 faults anywhere in the chain | `MaxFaults = 2`, three row ranges | 261 344 |
| `layer_check_nan` | a violation: `Validated` | one NaN fault, the full check | |
| `kernels` | the reduction under every interleaving of 16 threads; eleven matrix-vector kernels; the launches of layer 0 with every order of blocks | `Width = 4`; rows 1, 3, 4, 5; blocks 1 to 3; two lanes, 2 q/k and 3 value heads, prime 997, two seeds | 143 661 |
| `converter` | two conversions, five models, kills, failures, a power loss, and that they implement `PackPublish` | `MaxStarts = 2`, two inodes, `MaxLosses = 1` | 413 422 |
| `records` | up to three tensors placed in a wrapping word; every program and function on packs with a tensor missing, retyped or reshaped, and three tensors so in pairs | 13-bit words, seven sizes; widths 5120, 512, 384; two layers; both versions | 416 060 |
| `q5k_smoke` | a violation: `SmokeTakesABlock` | one width, both versions | |
| `quant` | nine decoders at every element and code; every half, singles at every tie; both quantisers around every border | two values in a block, eleven numerators, 70 exponents | 617 652 |
| `block_decode_q6` | a violation: `SameNumber` | the register arithmetic of one kernel | |
| `pack_file` | three objects over seven files, every way `open` and `parse` end | three addresses, three descriptors | 3 051 |
| `runtime` | three loads of five paths with runs in between; a driver of its own | `MaxLoads = 3`, three contexts | 32 304 |
| `reference_proxy` | a chat completion of every kind, and every other request, next to a probe | bodies of up to three pieces, two to a read | 175 905 |

**Why the bounds are enough.**
`BenchIters` is the length of a timing loop of identical launches with one sync
after it; what matters is that work is queued when something fails, and one
launch shows that. The first parts of the programs already queue up to thirty.
Two faults in `LayerCheck` are the smallest number that could mask each other,
and the row ranges are the classes that the comparisons tell apart (first four
rows, next four, the rest).

The reduction runs four warps in the code and in the model; the width of a
warp only adds halving steps to the shuffle, two of which happen at width 4. The
run checks that width, the theorems cover every width for `NoRace` and
`BarriersAreAligned`. A matrix-vector kernel treats its rows alike up to their
place in a block of four, and its blocks alike up to the address of the first
byte: one row, a full group less one, a full group and one more, with up to three
blocks, meet every case. In `LayerStep` the sizes are chosen so that no two
coincide and that the last block of every elementwise launch is partial; three value heads on
two q/k heads tell taking turns (`h mod 2`, as the kernel does) from taking groups.

Converter models have at most two tensors, one repacked tensor of three blocks
with chunks of two (a full chunk and a partial one), planes that end on and off
a boundary, tensors listed in another order than they are stored, a span too
short for its blocks, and empty tensors in the middle and at the end. Two
conversions give a leftover temporary file, an existing destination and a mapped
old pack.

A 13-bit word with sizes up to 4000 makes three tensors wrap and makes the
rounding overflow at its last multiple of 256. The tensors that differ in pairs are
the two small matrices and the norm, the only ones whose shapes a guard compares
with each other; elsewhere each guard looks at one tensor. The width 384 is one
that is not in whole blocks.

Three objects are what a move over an open object while a third has the freed
address takes. Three loads are an accepted pack, a failure over it and a recovery.
A body of three pieces with two to a read has a full read, a partial read and
an end. Exponents are those around each border of the singles, the halves and the
inverses of both, and some between; two values are one that sets the scale and one
that takes its code from it.

`Symmetry` permutes inodes and converters, or objects and addresses, which the
specifications only compare for equality; the runs that use it check no
liveness.

**Deadlock** is checked in `kernels`, `quant` and `pack_file`. In `kernels` this is
the check for a hang at a barrier: a thread that waits for others that have
ended is a state without a step. The other systems stop: a call returns, a
check has its verdict, the bound on conversions or loads is reached, a plan is
built, the server is down.

**Fairness.** `GpuRun` assumes weak fairness of the host thread and of the
device. The first is one thread of a running process; the second is that the GPU
makes progress on a queue or faults (the driver's watchdog or a sticky error).
A blocking call that waits for ever because a kernel loops is thereby excluded.
Weak fairness of `Host` as a whole is enough for `Terminates`, since the
alternatives of one state all lead forward. `ReferenceProxy` assumes weak
fairness of `Accept` and of each handler thread, that is of the operating system's
scheduler and of the timeout of 600 s that `urlopen` has: the step in which a
silent upstream times out is a step of the thread. Nothing is assumed of the
upstream, the client or the operator, who may stop at any point. The handler's
socket has no timeout, so a handler that reads from a client which holds half a body
back, or writes to one that does not read, waits as long as that client stays:
`EveryRequestEnds` is stated for the others, and `HealthAnswers` says that such a
client delays nobody else.
No fairness is assumed anywhere else.

**Disagreements with documentation.**

*`layer_check_nan`.* `README.md:1060-1065` says that the integrated check validates
all 5120 values of the post-attention RMSNorm and all 17408 of `SiLU(gate) * up`.
The errors are folded with `std::max` and tested with `>`; both ignore a NaN
(`src/driver.cpp:8479-8518`). The run ends with a NaN in one of these buffers after
a pass. `layer_check`, on the other hand, holds with `Kinds = {"off"}` and says
exactly what a pass means: `VerdictIsExact`.

*`q5k_smoke`.* `README.md:177` says that `q38-q5k-smoke` takes the first block of a
real tensor from the pack. The program (`src/q5k_smoke.cpp:33-38`) looks at type and
size, not at the layout. In a pack of version 2, the default, every Q5_K tensor is in
planes, and its first 176 bytes are metadata of the first nine blocks. Kernel and
reference decode the same bytes, so the test passes without having seen a block.

*`block_decode_q6`.* `kQ6KGemvPtx` packs four codes in a register and turns them, as
its comment says (`src/driver.cpp:1603`), into "signed (q-32) bytes". Six of the
eight bytes are then shifted up and back down with sign, but the top byte of each
register only with `shr.u32` (1652, 1674): a code below 32 counts as `q + 224`
there instead of `q - 32`. The kernel is compiled in but loaded by no function;
`run_q6k_gemv_smoke` uses `kQ6KGemvScalarPtx`, which `kernels` finds right.

**What the properties exclude on purpose.** `DestinationIsComplete` and
`ViewIsStable` are for conversions that do not overlap: the code has no lock on
`destination.tmp`, and of two conversions that overlap one may rename what the
other still writes. `DestinationIsComplete` asks for a readable pack only of models
without empty tensors: with an empty last tensor the padding starts at its
unpadded end and the file is shorter than the header says, so that neither
reader accepts it. `Placement`'s properties are for a cursor that does not wrap; in
the code that takes more than 2^64 bytes of tensors. `ViewsAreInside` says nothing
of the manifest of an object that was given away or whose `parse` threw: that view
points where nobody checked. `RepliesAreHonest` cannot tell a body whose end is
only the end of the connection from one cut short, and no client can.
`ReadsAreExact` is about every program but `q38-q5k-smoke`, which has its own run.
`StagesNest` leaves out a norm of one row in two dimensions, which the longer
chains accept and the shorter refuse.

Definitions marked *Mutant* in a comment are variants of the definition after
them, each with one plausible mistake; they are used by no specification. They
show that a property depends on the code: with the variant in place of the
definition, the property named in `PROJECT.json` fails in its run.

## 5. What is proved

| Theorem | Says, for every value of the constants |
|---|---|
| `GpuRun_proofs!TypeCorrect` | the state of a call is well typed |
| `GpuRun_proofs!NoLeakHolds` | nothing outlives a call but what the driver refused to take back, or modules after a refused unload |
| `GpuRun_proofs!TrueIsEarnedHolds` | `true` means compared, modules returned, stream idle, no stray kernel |
| `GpuRun_proofs!HonestTimingsHolds` | timings only after the comparison |
| `GpuRun_proofs!TimedWhenIdleHolds` | timings are written only while the stream is idle |
| `GpuRun_proofs!InFlightIsBackedHolds` | until the call fails, queued work has its module and its memory |
| `Kernels_proofs!NoRaceHolds` | no shared word is touched by two threads between barriers if one writes it |
| `Kernels_proofs!BarriersAreAlignedHolds` | a barrier releases threads that waited at the same place |
| `Kernels_proofs!ScaledByTheWholeSumHolds` | each element is scaled with the sum of all the squares, each counted once, for every warp whose width is a power of two and every interleaving |
| `Kernels_proofs!LoadsAreAlignedHolds` | no load of a matrix-vector kernel, in any block of any row, is at an address its width does not divide |
| `Kernels_proofs!RowsAreDotProductsHolds` | a finished launch of any of the eleven kernels has stored, for every row and no other, each weight of the row once, with the bits, scale and minimum the CPU reference decodes and its own column: for any number of rows and blocks |
| `LayerCheck_proofs!VerdictIsExactHolds` | a self-check that passes has no wrong value in a compared row, one that fails has: for any number of faults, as long as none leaves NaNs |
| `LayerCheck_proofs!RerunsChangeNothingHolds` | timing a chain leaves every buffer as the comparison found it, for any faults |
| `LayerCheck_proofs!BuffersSettle` | the invariant of both: what a buffer holds is what its kernel makes of buffers that do not change any more |
| `Records_proofs!DisjointHolds`, `FitsHolds`, `TightHolds` | the planner's guarantees for every pack, page size and word length |
| `PackFile_proofs!Typing` | the state of any number of objects is well typed |
| `PackFile_proofs!Ownership` | every mapping and descriptor has exactly one owner, for any objects, files and addresses |
| `PackFile_proofs!Wholeness` | an object that holds an accepted pack holds all of that pack and nothing of another, whatever moves brought it there |
| `PackFile_proofs!Containment` | no pointer an object gives out leaves the file it maps, for any file `parse()` may be given |
| `PackFile_proofs!Refinement` | the objects implement `PackHandles` |
| `Runtime_proofs!SessionAlwaysWhole` | between calls a driver is closed and blank or open and complete, for any contexts |
| `Runtime_proofs!NothingIsRetained` | the process holds one load of the library and one context exactly as long as the object does, also in the middle of `open()`; a context is lost only if nothing exported destroys it |
| `Runtime_proofs!RuntimeDrivesSession` | whatever a `Runtime` loads and runs, its driver lives a legal session |
| `Runtime_proofs!RuntimeSessionWhole`, `RuntimeRetainsNothing` | so its driver is closed and blank or open and complete, and retains nothing |
| `Runtime_proofs!LoadsAreWhole` | after a load that returned the pack is whole and the driver there or closed; after any load, header and tensors are those of the file the path names |
| `Runtime_proofs!RunsOnWhatWasLoaded` | a run uses the file loaded last, all its tensors when that load returned, and the object's own context |
| `Records_proofs!ReadsStayInside` | no program reads past a tensor, finds a plane elsewhere or takes one layout for another, whatever the layers, hidden sizes and versions |
| `Records_proofs!TopologyAgrees` | `READY` is what the runtime accepts but for the shapes |
| `Records_proofs!StagesAlwaysNest` | where the whole of layer 0 runs, each of its stages runs |
| `ReferenceProxy_proofs!RepliesAreHonestHolds` | what a client makes of a reply is true, for any requests, sizes and failures |
| `ReferenceProxy_proofs!RepliesImplementHolds` | the server implements `HttpReplies` |
| `Converter_proofs!ViewIsStableHolds` | a mapped pack does not change, for any inodes and conversions that do not overlap, over crashes and power losses |
| `Converter_proofs!DestinationIsSyncedHolds` | a destination that could come back after a power loss was fsynced |
| `Converter_proofs!DestinationIsCompleteHolds` | it decodes, tensor by tensor, to the model it was made from, and both readers accept or refuse it alike: for any models, any units of alignment and chunk size, any number of conversions that do not overlap |
| `Converter_proofs!PublishesHolds` | conversions implement `PackPublish` |

**Assumptions.** `GpuRun` assumes of its programs what `MCGpuRun`'s run evaluates
for the 21 real ones: steps are well formed (`ProgramAssumption`), a launch names
a module the program loads (`LaunchAssumption`), bodies end idle
(`IdleAssumption`), results are compared, and before they are timed
(`VerifyAssumption`), what is timed is synced first (`TimingAssumption`), and names
do not clash. So a new `run_*` function of the
same shape inherits the theorems once its program satisfies these. `CtaReduce`
assumes a warp of at least two lanes and, for the sum, that its width is a power of
two, said without recursion: its only odd divisor is 1 (`PowerAssumption`; the
code's is 32). `LayerCheck` assumes that the checks are of the four there are
(`TargetsAssumption`), and `VerdictIsExactHolds` that no fault is a NaN, without which
it is false: `layer_check_nan` is the run that shows it. `Placement` assumes that a word exceeds 256 and that sizes and pages
are words; `PackFile` that `None` is no address, descriptor or file, that
descriptors are numbers and that the fields of a file have the widths of
`TensorRecord` and the header; `DriverSession` that `NoContext` is no context;
`Runtime` the same of its `PackFile`, and that a disk holds files
(`RuntimeAssumption`). `LayerDispatch` assumes that layers, hidden sizes and
versions are numbers and layer 0 is among the layers (`ConstantsAssumption`);
`MCKernels` that the kernels are of the table and matrices have numbers of rows and
blocks. `Q38Pack` assumes positive units (`UnitsAssumption`; argparse and the
constants of the tool give them), `Converter` that `NoFile` is no inode and that the
sources are what `parse_gguf` can return (`SourcesAssumption`): records with
offsets, blocks and sizes, in any number and order. `ReferenceProxy` assumes that a
body has room for a piece and a read takes one. TLC evaluates all of these on the
runs.

**Arguments.** `NoLeak` is not inductive: it speaks of the end. Its
strengthening `IInv` in `GpuRun_proofs` relates `held` to the place in the skeleton:
the workspace parts held in each phase are a function of the phase and the
position in the constructor or destructor (`WorkspaceInv`), the modules held are
the first `loads` of the program's list, plus refused ones on the way out
(`ModulesInv`), `verified` holds once the position has passed a comparison
(`VerifiedInv`), and the stream is empty past the last sync of a body without
enqueues after it (`IdleInv`). `StrayInv` says that only the error path makes
stray kernels, which is what makes `TrueIsEarned` true.

`NoRace` needs to know which words each thread may touch in each interval between
two barriers. `IInv` of `Kernels_proofs` is a disjunction of the five kinds of
interval (squaring, two halvings, the shuffle, scaling), each with the labels the
threads can have and the words they can have touched; the proof goes interval by
interval, a barrier leading from one to the next.

`ScaledByTheWholeSum` adds where the squares are. At distance `d` there is a map
`own` from the threads to the first `d` words that says in which partial sum each
square is counted (`Sharing`); adding word `t + d` to word `t` folds that map
(`Merge`), in any order of the threads within the step. In the warp sum `d` keeps
dividing the width, so that a power of two gets to 1 without a remainder, and the
word published has every square. So no induction over the number of steps is
needed. `LoadsAreAligned` has per kernel what its block size and its lanes' offsets
leave modulo the width of each load, and is inductive with the ranges of row, block
and pass.

`RowsAreDotProducts` says where every column of a row is at every moment. Each element
of a block has a lane and a pass that take it (`Owner`, `Turn`); per kernel, what a
lane makes of the block is exactly its elements, with the scale and minimum all of its
group share (`Fits`, `KernelsFit`), however the format splits its scales and the kernel deals
out its codes (`ScalesAgree`, `WeightsAre`). A lane's bag is then that of a set of columns (`Terms`, `Products`), and a shuffle joins the bags of two
sets that are disjoint: `InPass` inside a group, where the distance halves from the
group's width to one, `InRow` over the blocks for the leaders, `InWarp` over the warp,
until lane 0 has `Whole`. A bag is the bag of a union only if the sets are disjoint
(`BagsAdd`), which is where a lane counted twice would show. The invariant (`RInv`) needs
no induction over blocks: it names the columns below the current block and pass.

`LayerCheck` rests on the four chains being beginnings of one list of launches
(`Steps`) that writes each buffer once, after the buffers it is computed from. So a
buffer written is *settled*: it is what its kernel makes of the buffers as they
are (`Settled`), and depends on no fault of a later step (`Ranked`); a
timing loop starts with the `memset` of the sum it needs (`SumReady`) and can only
write again what is there. The CPU references are a recursive function: that one
exists is shown with an explicit table (`TableFits`), after which `RefBadIs` is the
equation. A reference differs from its kernel by the faults of that kernel only, so
while every comparison so far agreed, what went by had no fault in sight, by
induction over the order of the steps (`AgreeStep`, `LowStep`).

`Placement`'s invariant says that, until the cursor wraps, each tensor ends before
the next starts and the last ends at the cursor, and that payload plus gaps is
the cursor; `AlignUpFacts` has the arithmetic of rounding.

For `PackFile` the invariant adds to type correctness and `OneOwner` that an object out
of scope is empty and that an object knows the length of what it has mapped, so that
`close` gives back all of it. Each action is shown to map to an
acquire, a release, a transfer or a stutter of `PackHandles`; an `open` over an
open object maps to an acquire of the new mapping, also at the address of the old.
`Whole` says what an object holds: nothing of a file without a mapping, and with one
what `parse()` leaves of that file, up to the first refused record (`Holds`). A move
hands it on and leaves none. That the guards of `parse()`, `tensor_data` and
`tensor_aux_data` then keep every pointer inside is arithmetic; its proof showed
that `ViewsAreInside` was too strong for one file the readers accept: where the
data area starts at 0, a plane at offset 0 passes `parse()`, but 0 stands for no
plane and is not served.

For `DriverSession` the invariant speaks of the middle of `open`: while a call of it is
due, the library is loaded, the object has a context only at the last position, and
what it has learnt is what the calls before that position return (`LearntBy`).
The contexts of the thread are the object's on top of those that could not be
destroyed. `Runtime` then needs no invariant of the driver of its own: each of its
steps is a step of `DriverSession` or leaves its variables alone, and a step of
`PackFile` or leaves those alone, so that both invariants are taken over.
`RuntimeInv` adds what ties them together: a mapped pack is the file of the path,
accepted where the load went past it, and the driver is there where required.

A pack never changes under `TensorTools`, so the inductive part is what the
converter guarantees of a record (`PackOK`: planes one behind another, ending where
the tensor does); each call's report is safe in the step that makes it. What a
matrix copies follows from rows of whole blocks; `TopologyAgrees` from the two
tables naming the same tensors, kernels and types, and shapes that imply the sizes.

`RepliesAreHonest` speaks of what reached the client; its strengthening relates it
to what the thread is about to write. Per request, the answer prepared is the
server's own piece with a status the request deserves, or a prefix of the
upstream's body with its status and length (`AnswerIsReady`); the reply is nothing,
or one of these so far (`ReplyIsSound`); and while a stream is relayed, the pieces
written are exactly the pieces taken from the upstream (`ReplyIsInStep`). A step
changes one request, so the others keep their part by one frame lemma.

For `Converter`, unless two conversions overlapped, one converter at most is past
its start and its descriptor is the file `destination.tmp` names (`OneWriter`),
that file is no destination a power loss could bring back (`TmpIsNew`), and it is not the
mapped one (`ViewIsApart`). So truncation and writes hit a file nobody sees, and
`rename` publishes a file that was synced.

`DestinationIsComplete` says what is in that file. The layout first: cursors rise
from tensor to tensor and planes within one, aligned and inside the file
(`CursorsMonotone`, `Geometry`). Then every write of the plan puts cells where they
belong, each cell of the file belongs to one write at most, and every cell that
belongs somewhere is written (`WritesPlace`, `BelongsOnce`, `EverythingIsWritten`),
so that after `i` writes the file is what the first `i` leave (`Filled`,
`NextFills`), and after all of them both readers take it the same way and every
tensor reads back (`ReadersAgree`, `DecodesItsModel`). `FilesInv` carries this
through the protocol: a running conversion has written a prefix of its plan to the
temporary file, and what any directory names as destination is complete. `Publishes`
follows: seen from the destination only `rename` and a power loss do anything.
Where induction over a number is needed, over tensors or the sequences that are
joined, it is made from the well-foundedness of the naturals, for a set
(`Least`, `Ind`): the library's induction rules take an operator.

## 6. What is only model-checked

- Liveness: `Terminates` of `GpuRun` and the three of `ReferenceProxy`. The prover
  has no rule for fairness.
- `LayerIsTheReference`: sums over elements are folds, which only an induction over
  data evaluates.
- `BlockDecode`, `HalfFloat` and `Q8Quantise`: finite and checked completely, or
  at every boundary; bits, powers of two and quotients are outside linear
  arithmetic.

ENABLED, and the library's induction rules, are out of the prover's reach; no
module uses RECURSIVE operators.

## 7. What is not modelled

- The floating-point error of kernels and references: tolerances, rounding except
  to a half and to codes, and speed.
- The byte formats of GGUF and Q38PACK below the level of fields and cells, the
  manifest text, names, and malformed GGUF input.
- Of the six kernels that are compiled in and loaded by no function,
  `kQwen35RecurrentPrepPtx`, the eight-warp Q5_K kernel with atomic adds
  (`kQ5KQ8KGemvPtx`) and the one-warp IQ4_XS kernel (`kIQ4XSGemvPtx`, whose body is
  that of the four-warp one). The other three, `kIQ4XSGemv4WarpPtx`,
  `kQ5KSm86SoAGemvPtx` and `kQ6KGemvPtx`, are among the eleven of `GemvKernels`.
- A client that connects and never sends the head of a request, and a
  `Content-Length` of -1, which reads to the end of the connection.
- What the kernels of `run_gdn_ar_smoke`, `run_rmsnorm_smoke` and
  `run_recurrent_prep_smoke` compute outside the chain of layer 0; their calls are in
  `GpuRun`.
- Command-line parsing and printing; the inspection tools, which print what
  `PackReader` or `parse_gguf` return; the tests and CI.
- Several `run_*` calls at once on one `NvidiaDriver`, or a `PackFile` shared by
  threads: no program of the repository does this.
- Allocation failures of the C++ library (`std::bad_alloc`) inside a call; they
  would take the same handlers as a failed driver call.
