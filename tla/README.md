# nss-npu: specifications, model checking and proofs

TLA+ models of the programs in this repository, TLC configurations that check
them on small instances, and TLAPS proofs of what holds for every instance.
Paths such as `server/nss_server.c` are relative to the repository's `src/`.

## 1. The system

nss-npu runs a neural super-sampling network on the Hexagon NPU of an Android
device and offers it to games that expect XeSS. Its own code is about 1950
lines; wine and the ONNX Runtime (ORT) headers are vendored.

| Component | Where | State it keeps | Operations |
|---|---|---|---|
| inference server, `--serve` | `server/nss_server.c` | the ORT session and sizes of the model, one input buffer for all frames, the connection served, how far a read or write has come, the outputs of the frame | start, accept, read header, check it, read body, run, write two outputs, release, close |
| inference server, `--bench` | same file | the ORT objects, the outputs of the last run, loop counters, times | `model_open`, three warm-up runs, `--runs` timed runs, dump, release, `model_close` |
| fastrpc shim | `probe/jni/openmode_shim.c` | a static table of 16 descriptors and its count, shared by all threads | the interposed `open`, `open64`, `openat`, `ioctl` |
| NPU probe | `probe/jni/probe_core.c`, `probe_jni.c`, `probe_main.c` | the report buffer of a call; in the process an environment variable, the process domain asked for, the handles opened | `probe_run`, line by line |
| probe app | `ProbeActivity.java`, `OrtBenchmark.java` | the files staged under `getFilesDir()`, `probe.txt`, the report | stage, probe, time each model on NPU and CPU, save, show |
| model export | `tools/export_nss.py` | the download cache, the checkpoint's tensors by parameter, `--out` | fetch each source, import, build the model from a checkpoint by name or by trace, validate, export |
| model quantisation | `tools/quantize_nss.py` | the calibration frames, the intermediate file, `--out` | load frames, preprocess, calibrate, quantise, compare twice, clean up |
| graph transformations | `tools/prepare_style.py`, `prepare_model.py`, `strip_io_quant.py`, `nhwc_io.py` | a graph in memory, the files | pin dimensions, lift the opset, freeze, prune, rewrite the boundary, check, save |
| build scripts, slide deck | `server/build.sh`, `probe/build.sh`, `tools/make_deck.py` | none | - |

How they interact:

- A XeSS client (not in this repository) sends frames to the server over a
  loopback TCP connection: a header (magic, size), then the input tensor. It
  gets two outputs, each behind a header. One thread serves one connection at
  a time; the others wait in the kernel's backlog.
- The shim is preloaded into a program that drives the DSP: the program's
  threads call it, and it calls the C library. `close` passes it by.
- The app stages the DSP libraries on disk, calls the probe through JNI, stages
  the models, runs ORT on them and leaves its report in a file for adb.
- The tools produce the models server and app load, and interact through files
  only: the quantiser reads what the exporter left at a path, and the graph tools
  read each other's results. The build scripts bundle what they find, and missing
  models are tolerated.

What is hard about it, and hard to test:

- **The byte stream of the server.** A client may stop or vanish between any
  two bytes, in either direction, and the input buffer is shared and never
  cleared. Correct means: the network runs on whole frames only, the framing is
  never lost, every client gets its own outputs in order, and nothing leaks when
  a reply breaks off. `close` with bytes unread, a full socket on both sides and
  SIGPIPE are the kernel's part in it.
- **Values with three places of release** in the benchmark, chosen by loop
  counters.
- **An unlocked table** in the shim, with descriptors the kernel reuses.
- **An app that is killed, relaunched in a live process or reinstalled** while
  it overwrites files in place.
- **Tools that are rerun over what earlier runs left**: files are written in
  place, a run may be killed anywhere or end with an exception, and a file that
  exists is trusted. A traced checkpoint has lost the names of its tensors.
- **Graph rewriting** by several tools in any order: nodes removed in rounds that
  stop at a fixed number, boundary tensors whose declared type and shape must go
  on matching what the graph yields.

`PROJECT.json` lists each of these at its line, with the properties that cover
it.

## 2. Modules

| Module | Models | Notes |
|---|---|---|
| `NssServer` | `--serve`, its clients, the sockets | 18 actions of the process, 7 of the clients and their kernel |
| `InferenceService` | what the server promises | abstract; `NssServer` implements it |
| `Bench` | `--bench` | sequential, every failing call |
| `OpenShim` | the fastrpc shim | any number of threads |
| `Probe` | `probe_run` and the sink of the JNI side | extended by `ProbeApp` |
| `ProbeApp` | the app around it, and `OrtBenchmark` | kills, relaunches, updates |
| `ModelPipeline` | `export_nss.py` and `quantize_nss.py` | runs by hand, killed anywhere, over one set of files |
| `OnnxGraph` | what the graph tools use of the onnx package | external: checker, shape inference, converter, what a graph computes |
| `GraphTools` | the four graph tools | extends `OnnxGraph`; any tool on any file |
| `MC...` | the constants of the checked instances | `MCGraphTools` has the graphs |
| `..._proofs` | theorems about the module of that name | eight modules; `NssServerService_proofs` goes on where `NssServer_proofs` ends, `GraphTools_proofs` rests on `OnnxGraph_proofs` |

A definition called `Bug_X` stands before the definition `X` and is a slip one
could make in it. No specification uses it; it documents, and lets one test,
that some property notices.

### NssServer

The process is a program counter `pc` over the places where `serve` can block
or branch (`accept`, `header`, `check`, `body`, `run`, `outputs`, `write`,
`release`, `close`), with the code's locals under their names: `h`, `input`,
`client`, `failed`, `i` as `oi`, `out` as `outs`. `got` and `off` are how far
`read_exactly` and `write_exactly` have come. These loops are modelled one byte
at a time, because they do nothing else between two bytes: every way the kernel
may split a transfer, and every point where the peer may go, is covered.

A byte is where it comes from. A byte of a request is its connection, frame and
offset; a byte of a reply is the *set* of frames the network read when it
produced it, with output and offset. Mixed or stale input would show in that
set. `FramesIn` reads `TensorLen` bytes, the size the network reads, while the
code's header check uses `BodyLen`, the size of as many floats; the two differ
for an int8 input.

`LoopLeft`, `HeaderComplete`, `BodyComplete`, `HeaderAccepted`, `NextOutput`,
`AfterFailedWrite` and `StreamEnded` are the conditions of the C code, one
definition each.

The kernel: `queue` is the backlog; `reply[c]` beyond `rcvd[c]`, and `Unread`,
are the bytes in flight, bounded by `SockBuf` in each direction. `peer[c]` is
the client's end: `up`; `fin`, closed in order; `finrst`, closed in order and
its kernel has answered one of our writes with a reset, so the next write gives
EPIPE; `rst`, reset outright, where a read or write gives ECONNRESET and no
signal. `cutting[c]` is a reset of ours on its way to the client. `Polite`
restricts clients to the exchange the protocol is made for: read one whole reply
before the next frame, leave between frames. Only the liveness run sets it, and
the proofs of its two safety properties assume it; all else holds for any
client.

`InferenceService` knows neither bytes nor sockets: connections are served in
order of arrival, one at a time and never again; the network runs only for the
one whose turn it is; a client never holds more whole replies than runs were
made for it. The refinement maps `inferred` to `served` and `delivered` to
`rcvd \div ReplyLen`.

### Bench

`held` is what is acquired and not released (environment, options, session,
names, tensor...), `values` the live `OrtValue`s, each known by its run and
index, `out` the array `out[2]`. `model_run` is two steps because it can fail
between its two calls. A graph may have any number of outputs; the code names at most
two.

### OpenShim

A path is a device node, the DSP shell, another library or any other file. The
table update `tracked[tracked_count++] = fd` is three steps for a thread: one
load of the count with the test (the build is `-O2`), and the two stores in
either order. The race is on plain ints; the model takes each load and store as
whole, and lets the stores be seen in either order. `open`, `open64` and `openat`
have bodies of their own in the code and are actions of their own here: each has
to remember its descriptor. Descriptors are
the kernel's, lowest free first, and a close frees one for reuse. The lazily
resolved symbols and the lazily read trace flag give the same value whoever
writes it, and are left out.

### Probe and ProbeApp

`Probe` has a step per reported line; what the line says is left out, its
length is not. `emit` is modelled with its test and its silent drop. `device`
is what the FastRPC library offers. Environment, process domain and handles
belong to the process and outlive a call.

`ProbeApp` has one step per statement that can be interrupted: opening a file
(which truncates it), filling it, each step of the probe, each `time()` of the
benchmark, opening, writing and showing the report. `Kill` is possible
everywhere, `Launch` in a new or a living process, `Install` replaces the
package and leaves the files. What is in a file is the build it was copied from
and whether the copy was completed.

### ModelPipeline

One tool runs at a time: `pc` is where it is, `i` the counter of the loop it is
in, `opts`, `state`, `frames`, `fed` and `src` the variables of `main` and its
helpers. `Exporting` and `Quantising` are the places of the two. Everything else
is on disk: `cache` has for each of the nine files of `SOURCES` whether it is
absent, in part or whole; `fp32`, `prepared` and `int8` are the three ONNX files,
absent, `Torn` or what they were made from. A write in place is two steps, the
file being torn between them. `Raise` ends a run with an exception, `Kill`
anywhere; both drop the memory and keep the disk.

A parameter of the network is a layer and a part. `Mapped` is `build_model`: by
name, or, for a traced checkpoint, by `EXEC_ORDER` and the index of the constant.
The order a checkpoint's network really ran its layers in is not in the repository:
it is a field of the checkpoint (`trace`), like what tensors it has, and need not be
`EXEC_ORDER`. `ExchangedOnlyFor` says what comes of a table that is wrong.
`Loadable` is the missing-constant check and the strict `load_state_dict`.
`Comparisons` are what `validate` can find: the temporal output agrees with the
reference only if the weights of the trunk are those of the reference, each in
its layer; anything else is left to chance. The directories of the scenario are a
sequence in path order, each with one of a few input tensors or none.

Three things the model takes over from the code although one may not expect
them: the comment at `tools/export_nss.py:131` calls the KPN head "not gated",
and a correlation of zero or below does stop the export; a source that was cut
short stays in the cache until somebody deletes it; an export that fails leaves
the model of an earlier one at `--out`.

### OnnxGraph and GraphTools

A graph is a sequence of nodes, the value infos of its inputs and outputs, and
its initializers; a tensor has an element type and dimensions, which may be
numbers, symbols or unset. `Run` computes for each tensor the term of operators
that yields it, its type, its dimensions and, where it holds a size or a factor,
that number: two graphs are the same network if their outputs are the same
terms. `CheckModel` is the package's checker, which does not ask who produces
the outputs of the graph. Names are sequences of `Words`, so that two names with
one suffix are equal only if what is before it is; `Layers` are the operators
that keep the shape of their input, as many as one likes. A node is given its
first input: what needs none, a Constant, is an initializer here. What strides
and enlarging make of a dimension is known only if the dimension is a number
(`Halved`, `Times`): a symbol does not become one by being computed with.

`GraphTools` has a step per tool and stage: a freezing or pruning round, one
boundary node removed or wrapped. `job` is the command line, `model` the graph in
memory, `was` the graph as loaded. A file remembers, for the properties, what it
was made from and by which tool. `Save` writes in place, as above.

`Usable` is what the graphs from elsewhere must be (`SourcesAssumption`), and it
is what the tools count on without a word: the checker passes them and their
outputs are there; a tensor of integers is not quantised, nor one of floats
dequantised; a size, which Shape and Floor yield, goes nowhere but into other
sizes and factors; the name that frozen factors will get is not taken, unless
they are frozen; and no weight is called "..._nhwc". The first three hold of any
graph that ONNX Runtime would load and of any network of images. The last two
are about names the tools make up: of a graph that has them already, the freezing
would change a constant that something else may read, and `nhwc_io` would make
an input of what is a weight. Nothing is assumed of the names of *other* tensors
that end in "_nhwc": the checker catches a clash there, and the run `graph_tools`
has a graph with one (`Taken`).

What the code does and the model shows: `prepare_model` gives a symbolic height
or width the batch size, and leaves a dimension with neither a value nor a
symbol as it is; `nhwc_io` can be run twice; `strip_io_quant` refuses a graph
that `nhwc_io` has wrapped, both refuse one without inputs, and both read 0 of a
dimension that is a symbol or not set and declare that, a size of zero. The
docstring of `prepare_style` (lines 4-9) says that it quantises and gives an NHWC
interface; the code does neither.

Two of the properties have exceptions, which are what the tools' own limits leave
open, each shown by a graph of the instance. `DeclaredIsActual` promises a boundary
that is `Honest` if it was honest before: types are those of the tensors, a
dimension that is a number is theirs, and no size is zero; a symbol and a dimension
that is not set leave the size open. It exempts three cases, in which
the code declares what is wrong:

- `prepare_model` gives every symbol the batch size. That is right for a symbol
  that comes from an input and passes through (`SymbolsPass`); behind a stride or an
  enlarging it need not be: of `Open` it writes an output declared 1x3x1x1 where the
  graph yields 1x3x2x2.
- `prepare_style` writes one height and one width into input and output alike. That
  is right for an `ImageToImage` network at a height and a width its strides divide
  (`Pair` is none, and 10 has a remainder).
- `strip_io_quant` and `nhwc_io` declare zero for what is not a number
  (`FixedBoundary`; `QdqBatched`, `Batched`, `NoChannels`).

`StaticUnless` promises that no size is computed any
more, unless the loops had too few rounds for the graph (`Deep`, `Long`), a Resize is
not of a picture of four known dimensions (`NoChannels`), its factors have the name
of frozen ones (`Named`), or a size is used for something
other than a factor (`Shared`).

## 3. What is checked

Each run is a `.cfg` of the `MC` module of its name. "Violation" runs check
what a comment, a usage line or the code's own error handling says, and find it
refuted.

| Run | Expect | Shows |
|---|---|---|
| `server_safety` | pass | `TypeOK`, `RunsOnWholeFrame`, `FramingKept`, `ReplyStream`, `NoValueLeak` and the refinement of `InferenceService`, with clients that do anything |
| `server_liveness` | pass | polite clients: `EveryFrameAnswered`, `EveryConnectionEnds`, `NoMutualWait`, `NoReplyCutOff` |
| `server_sigpipe` | violation | a client that hangs up before its reply ends the server |
| `server_int8` | violation | a frame of the size of an int8 input tensor is refused |
| `bench` | pass | outputs are alive when used, at most one frame's are alive, all is released, the dump is of the last run, best at most mean |
| `bench_no_runs` | violation | `--runs 0` uses outputs already released |
| `bench_one_output` | violation | a graph with one output prints an uninitialised pointer |
| `shim` | pass | the table is not overrun, and the trace errs for named reasons only |
| `app` | pass | loaders find whole and current files, one model's failure costs its line, the saved report is the one shown, no line lost, domain asked for before a handle |
| `pipeline` | pass | a torn source is in the cache only after a kill in its write; layers are given each other's tensors for one named reason and within a shape only; what validation lets through has the right trunk; the network is quantised from the model, on every frame once; a finished run leaves a compared network and no intermediate file; the wrong reference is compared for two named reasons only |
| `pipeline_unchecked` | violation | the int8 network is on disk before it is compared |
| `graph_tools` | pass | what is saved runs, computes the same network and is what its boundary declares, where that was so before; no computed size is left; each but for named reasons |

### Bounds, and why they are enough

- Server: two connections, so that one waits and one inherits the buffer; two
  frames each, so that a frame follows a served one; a header of two bytes and a
  float of two or three, so that header and body both have a middle; a socket
  buffer of two bytes, shorter than a reply, so that both sides can block.
  Offsets inside header and body are treated alike by the code, so longer ones
  repeat the same steps; the proofs are for any length. The int8 model, where
  the buffer is longer than the tensor, is in the liveness run: a float of three
  bytes leaves two behind an int8 body, enough to fill the socket. The runs that
  end in a violation need no more than one connection and one frame.
- The connections are symmetric in the safety run; the liveness run uses no
  symmetry.
- Bench: one to three runs cover first = last, first and last, and a middle one;
  none to three outputs cover the clamp to two.
- Shim: two threads and a table of two with three opens reach the full table,
  a lost entry and a recycled descriptor.
- App: two libraries, two models, two builds, three launches: a kill, an update
  and a good launch fit in one run. Sink: lines of zero or one byte and a buffer
  that fourteen longest lines fit with nothing to spare, the smallest the
  assumption allows (the code has 14 * 512 + 1 against 16384).
- Pipeline: four runs, because an intermediate file is dangerous only to an export,
  a killed quantiser, another export and another quantiser. Six checkpoints:
  traced in the order of the table, with two layers of one shape exchanged and with
  two of different shapes; traced and named, complete and lacking a tensor, of Arm
  and of somebody else. One layer has a shape of its own, all others could be
  exchanged. Three
  directories with `out_high` in the middle, three tensors of two sizes: repeated
  tensors, a different one before `out_high`, and a size the model does not take.
- Graph tools: three runs, so that a tool runs on the result of a tool run on the
  result of another, in place or not. Three rounds instead of eight, and graphs that
  need four (`Deep` for the freezing, `Long` for the pruning); nineteen graphs, each
  of a kind a tool is made for, must refuse or cannot handle, and two heights and
  two widths, of each one that two strides divide and one they do not.

### Fairness

Liveness is checked under weak fairness of the server's thread (it runs when it
is not blocked) and of a client's sending what it began, receiving what arrived
and hanging up in the end. The last is an assumption about clients, needed
because the code has no timeouts: a client that stays connected and silent keeps
all others waiting. Nothing obliges a client to connect or begin a frame, and
the process may end at any failing ORT call; the properties say "unless the
process ends". The other specifications have no fairness: the benchmark
and the app stop at their first fatal error, and nobody has to run a tool again.

### What the disagreements are

1. `server/nss_server.c:234` handles failed writes, but SIGPIPE is never
   ignored; the second write to a client that closed in order kills the server
   (a client that *reset* the connection does not: ECONNRESET carries no
   signal).
2. `server/nss_server.c:275` demands `sizeof(float)` per element whatever the
   model, so the int8 inputs of `tools/strip_io_quant.py` cannot be served.
3. `--runs 0` is accepted and ends in a use of released outputs
   (`server/nss_server.c:206` and `:214`).
4. Graphs with one output leave `output_names[1]` unset, which the summary
   reads (`server/nss_server.c:133`).
5. `tools/quantize_nss.py:9` says that the result is compared before it is
   written; it is written first, and stays when the comparison cannot be made.

Three more, in the graph tools, have no run of their own. The last two are
exemptions of `DeclaredIsActual`: without either of them TLC reports what
becomes of `Open`.

- `tools/prepare_model.py:4` says that it fixes dynamic shapes, which the backend
  rejects; a dimension that has neither a size nor a symbol is passed on
  (`NoChannels`).
- The same tool pins a symbolic height or width to `--batch` (line 55), in inputs
  and outputs (`Open`, above).
- `tools/nhwc_io.py:2` promises not to touch the interior; but a boundary dimension
  without a number becomes a declared zero (lines 23, 39, 51).

## 4. What is proved

TLAPS checks these for all values of the constants that meet the named
assumptions: `ConstantsAssumption` of the server, `ProbeAssumption` and
`AppAssumption`, `PipelineAssumption`, `BenchAssumption`, `ShimAssumption`,
`GraphToolsAssumption`, `SourcesAssumption`. They
say that sizes are positive where a C size is, that models, graphs and scenarios
are well formed (`Usable`, above, for the graphs), and, for the sink, that
fourteen longest lines fit. Clients, kills,
failures and schedules are without restriction, except where the table names a
further assumption: `Polite` clients in two theorems, at least one timed run in
one.

| Module | Theorem | Property | Argument |
|---|---|---|---|
| `NssServer_proofs` | `TypeCorrect` | `TypeOK` | `ReadInv` |
| | `WholeFrames` | `RunsOnWholeFrame` | `ReadInv` |
| | `FramingIsKept` | `FramingKept` | `ReadInv` |
| | `OwnReplies` | `ReplyStream` | `ReadInv`, `ReplyStream`, `InStep` together |
| | `ValuesReleased` | `NoValueLeak` | inductive by itself |
| `NssServerService_proofs` | `ServerIsService` | `ImplementsService` | `ReadInv`, `NoMoreThanDue`, `Turns` |
| | `NobodyWaits` | `NoMutualWait` | polite; and `ReadBehind`, `Answered` |
| | `RepliesArrive` | `NoReplyCutOff` | polite; and `PlaceAtClose`, `CutOnlyAfter` |
| `ProbeApp_proofs` | `TypeCorrect` | `TypeOK` | `TypeInv`, `SinkInv` |
| | `ReportHasEveryLine` | `NoLineLost` | `SinkInv` |
| | `PdAskedFirst` | `PdBeforeHandle` | `PdInv` |
| | `LoadersFindFiles` | `LoadsStagedFiles` | `StageInv` |
| | `SavedReportIsShown` | `SavedIsShown` | `SavedInv` |
| | `FailuresContained` | `FailureContained` | `ReportInv` |
| `ModelPipeline_proofs` | `TypeCorrect` | `TypeOK` | with `SourceInv` |
| | `QuantisesTheModel` | `QuantisedFromModel` | `SourceInv` |
| | `CacheTornOnlyByKill` | `TornOnlyByKill` | inductive with the types |
| | `ExchangedForNothingElse` | `ExchangedOnlyFor` | lemmas `ExchangedByTrace`, `RightTrunkRightHead`; `ExportInv` |
| | `ValidationHolds` | `ValidatedTrunk` | `ExportInv` |
| | `FinishedIsClean` | `FinishedRunIsClean` | `CleanInv` |
| | `CalibratesOnEveryFrame` | `EveryFrameOnce` | `FramesInv` |
| | `ComparesItsReference` | `WrongReferenceOnlyFor` | `FramesInv` |
| `Bench_proofs` | `TypeCorrect` | `TypeOK` | with `CountInv` |
| | `DumpedValuesLive` | `OutputsLive` | `ValuesInv`; `0 \notin Runs` |
| | `HoldsOneFrame` | `OneFrameHeld` | `ValuesInv` |
| | `NothingKept` | `EverythingReleased` | `HeldInv`, `ValuesInv` |
| | `DumpsLastRun` | `DumpIsLastRun` | `DumpInv`, `ValuesInv` |
| | `BestBelowMean` | `BestAtMostMean` | `TimesInv` |
| `OpenShim_proofs` | `TypeCorrect` | `TypeOK` | inductive by itself |
| | `MissedForNothingElse` | `MissedOnlyFor` | `TrackInv`, `MissInv` |
| | `StrayForNothingElse` | `StrayOnlyFor` | `TrackInv`, `StrayInv` |
| `GraphTools_proofs` | `TypeCorrect` | `TypeOK` | `TypeInv` |
| | `SavedGraphsRun` | `WellFormed` | `TypeInv`, `UseInv` |
| | `NetworkKept` | `SameNetwork` | `TypeInv`, `UseInv`, `SameInv` |
| | `DeclarationsHold` | `DeclaredIsActual` | these, and `DeclInv` |
| | `SizesAreStatic` | `StaticUnless` | these but the last, and `StaticInv` |

### The server

**ReadInv** = `TypeOK /\ Registered /\ Position`. That the network runs on
whole frames is not inductive: one must know how far the stream has been read at
every `pc`, that what was read so far lies in its place in the buffer, that the
header accepted is the header of this very frame, and that a connection not yet
served has not been read from. `Position` says the first three (`Between` two
frames, or `Within` the next one with the buffer `Filled` so far), `Registered`
the last, together with the queue and the phases agreeing. Even the type
invariant needs it: that `got` stays within the buffer follows from the header
check many steps before, since the body is read to the length the client
declared.

**InStep** ties the byte the reply stream expects next to `pc`, `oi` and `off`,
as long as the client is there to receive it; `OneFrame` shows from `ReadInv`
that the set of frames behind an output has one element, the frame just counted.

**The refinement.** The abstract service knows `served`, whole replies
delivered and the order of connections. Every step of the server stutters there
except the arrival of a connection, the beginning and the end of its turn, a run
of the network, the byte that completes a reply at the client, and the end of
the process. Two facts carry it. `NoMoreThanDue` bounds what a client was sent
by what `Due` computes from `served`, `oi` and `off`; without it, `rcvd \div
ReplyLen` could exceed the runs made for the client. `Turns` is the converse of
`Registered`: a connection in the phase of one who waits really is in the queue,
and one being served is `client`; without it a connection could be served that
is nobody's turn.

**Polite clients.** `ReadBehind` says that the server has read nothing that was
not sent and has run the network for no frame that was not sent in full;
`Answered`, that a frame was begun only when all replies to earlier ones had
been received. Together (`AllReceived`): while a frame is being sent or read, no
reply byte is in flight, so a server that reads has a client that is not waiting
to be read from, and the reverse. For resets one must know where the server can be
when it closes (`PlaceAtClose`) and that a reset on its way always goes to a
client with all its bytes (`CutOnlyAfter`).

### The tools

**ExchangedByTrace** is the heart of the export: of a checkpoint that passes
the missing-constant check and the strict load, `build_model` gives a parameter the
tensor of another only if the trace disagrees with the table, and only where the
shapes agree. The table has every layer once (`OrderOnce`), so a parameter is given
what ran in its place (`MappedByTrace`), which needs arithmetic for the two constants
per layer. **RightTrunkRightHead** says that a check of the trunk is enough: a trace
in which every trunk layer is in its place has one place left, and one layer, the
head, which `validate` cannot judge by itself. **ExportInv**
carries that, and what validation found, to the file.
**FramesInv** says which tensors are loaded after a number of directories
(all of them, each once, the first one first) and what calibration has been
fed; the property about the reference needs the "first one first".
**CleanInv** distinguishes runs that ended from runs that stopped; only the
former promise anything.

### The graph tools

The graphs are of any size, and what one computes (`Run`) is a recursive function
along its nodes. The library's induction theorems cannot be used here, since they
take an operator; `OnnxGraph_proofs` takes the least number outside a set instead,
from the well-foundedness of `<`, and shows with it that such a function exists
and obeys its recursion (`EnvExists`, `RunRecursion`; `KeptElements` for the
filter). **Solves** then says what a run is without an order: the tensors obey
the equations of the nodes. `RunSolves` and `SolutionIsRun` show that of a graph
in order there is one solution and that it is the run, `NodeInduction` that what
passes from the inputs of every node to its output holds of every tensor. The
further proofs are about equations, and no step of a tool has to be compared
with a position in a loop, but for shape inference (`KnownOrWaits`, below).

**UseInv** is needed because `WellFormed` is not inductive: that a graph can be
stripped or wrapped and still runs depends on what the tools count on, so all of
`Usable` must survive each of them. In the middle of `strip_io_quant` and
`nhwc_io` the graph is *not* one that runs, and `Progress` says instead what has
been taken out so far (`BehindQuantisation`: only the input that was quantised and
outputs that were dequantised are missing, and each new output is what was
dequantised there, in order) or put in (`WrappedUpTo`). Nothing in the code shows
that the names `nhwc_io` makes up are free; `Progress` leaves that open until the
checker has looked, which is why saving a graph rests on `Check`.

**SameInv** carries `Descends` through `prepare_model` and `prepare_style`: every
node left is one there was, but for what enlarges, which may have become a Resize
or been given a constant of 2; no weight has changed. `DescendantSame` concludes
that the outputs are the same terms. Sizes do change, with the dimensions of the
inputs, so this needs that they go nowhere but into sizes and factors, and, where
something was frozen, that all factors were 2. For `strip_io_quant`, `PartRuns`
says that a part of a graph, fed with what the whole one computed, computes what
the whole one does; for `nhwc_io` the run of the old graph, with the Transposes
added, solves the equations of the new one (`WrappedSame`).

**DeclInv** says what each stage has done to the boundary: that symbols are pinned
on both sides (`PinnedTo`), pictures resized on both (`ResizedTo`), that what
`strip_io_quant` has declared so far is what the zero point of the quantisation
says and has its dimensions (`StripDeclared`). That this is *true* of the graph is
shown when it is saved, from `SameInv`: the run of the new graph `Mirrors` that of
the old one, that is, it starts from other dimensions and goes the same way through
the nodes. Then types are the same (`SameTypes`), and shapes, by induction along the
nodes, `Fits`: where the old one is a number so is the new one, where it is a symbol
the new one has what the symbol was pinned to. What an output declares as a symbol
must therefore be one when the graph runs, which is `SymbolsPass` (`PreparedHonest`).
`strip_io_quant` and `nhwc_io` keep declarations that are all numbers
(`DimValuesPinned`, `StrippedHonest`, `WrappedHonest`), which is `FixedBoundary`. For `prepare_style` numbers change too. There `ScaledShapes`
shows that the height and the width of a picture are one factor times what those of
the image are made of, before and after, with the same factor (`ScaledBy`): a power
of two for the strides still to come, doubled by what enlarges and halved by a
stride. Hence where `Divides` holds of the old and the new height and width no stride
leaves a remainder, and an output of the size of the input before is of the size of
the input after, height by height and width by width (`StyledHonest`). `^` has no laws in the
prover, hence `Power` with its recursion (`PowerRecursion`, `PowerFacts`).

**StaticInv** counts rounds against ways through the graph that was loaded, of
which `Chains` has the lengths (`ChainsSolve`: they too obey an equation per node).
After `d` rounds of freezing, every Resize whose factors are still computed has more
than `d` such Resizes on some way to it, itself included (`Waiting`). `KnownOrWaits`
is why: going through the old and the new graph side by side, each picture has a
known shape by then, or is behind a Resize that waits; so what a round could not
freeze has one more in front of it (`NextRound`). With as many rounds as the longest
way has Resizes none is left, and a round that finds nothing is the same as all
rounds that are left, since it would change nothing either (`NoneWaits`): this is
what makes the early `break` right. The pruning is the same thing in the other
direction: after `d` rounds a node that computes a size is followed by `d` more
(`Carried`), because once everything is frozen it can only serve another such node
(`AllBaked`), and it is dead when it does not (`NextPruned`, `NoneLeft`).

### The rest

**CountInv** relates the loop counters of the benchmark to the number of runs
of the network, **ValuesInv** says at which places the outputs of the last run
are alive (`FrameKept`): the release is in the next round of the loop or after
it, and `--runs 0` is where the two disagree with the dump. **HeldInv** and
**DumpInv** do the same for what ORT handed out and for the files, **TimesInv** is
the inequality of best and mean, multiplied out.

**TrackInv** says what a thread in `track` may rely on as long as no other is in
it; **MissInv** that each open fastrpc descriptor is then in a filled entry or
the table is full; **StrayInv** that each filled entry is then a fastrpc
descriptor, until one is closed. The unions of exceptions in `MissedOnlyFor`
and `StrayOnlyFor` are exactly what these invariants have as premises.

**SinkInv** counts the lines at every place in `probe_run` and bounds the buffer
by lines times the longest line; the app's `TypeInv` rests on it, for that is why
the buffer is not overrun. **StageInv** says which files are current
behind each point of `onCreate`, and needs that `package` and `version` change
only when no process is left. **SavedInv** says that `probe.txt` is empty when
it is written to, which is what the truncation is for. **ReportInv** says which
sections the report has after any number of timings, by the position of each;
at the end these are the positions of `FullReport`.

### Model-checked only

- Liveness (`EveryFrameAnswered`, `EveryConnectionEnds`): fairness and ENABLED
  are outside the prover's reach.
- That `OutputsLive` fails with `--runs 0`, and the other disagreements: they are
  counterexamples, and a run finds them.

No module has a RECURSIVE operator; what is recursive is a function or a fold.

## 5. What is not modelled

- What the network computes, the wording of lines and reports, the values of
  times and correlations; quantisation parameters.
- `accept()` that fails: it is retried and nothing else changes.
- The options of `main` of the server other than `--runs`, `--dump` and the
  backend.
- Closing an ORT session that fails, out-of-memory inside the C library and Java
  errors other than those caught.
- `probe_main.c` beyond `Probe`: it prints the same lines and keeps nothing. The
  test for a missing directory in `probe_core.c:82`: both callers pass one.
- In the tools: operator-set domains other than the default one, nodes with
  several outputs, subgraphs, the contents of tensors other than sizes and
  factors, and frames of one digest that differ. What `infer_shapes`
  (`tools/prepare_model.py:62`) writes into output dimensions that were not set:
  it can only fill in what it knows, so they say no more than the graph yields. Graphs are in topological
  order, as the checker demands.
- Two tools running at the same time: they are started by hand, one after the
  other.
- The build scripts (`server/build.sh`, `probe/build.sh`): a sequence of compiler
  calls with no state of their own. The deck generator `tools/make_deck.py`: text
  layout.
- Vendored code.

## 6. Plan

Every component with state is modelled, and every safety property of the
programs that run on the device or produce its models is both checked and
proved. What could be added, in order of worth:

1. A model of one XeSS client with several connections, if the client side
   becomes part of the repository: the fairness assumed of clients could then be
   derived.
2. The element type of the *outputs* of a served model, when `value_bytes`
   (`server/nss_server.c:164`) no longer takes every element for a float.
3. For the graph tools, nodes with several outputs and subgraphs, if a network with
   either is to be deployed.

## 7. Running

```
tlasany NssServer.tla
tlc -config NssServerSafety.cfg MCNssServer
tlapm NssServer_proofs.tla
```

The largest run, `server_safety`, visits some seven million states in about a
minute and a half; `pipeline` (some five million), `graph_tools`, the shim's and the
app's take up to a minute, the others seconds. The proofs take some ten minutes
on an idle machine; on a busy one a step may time out and pass when repeated.
