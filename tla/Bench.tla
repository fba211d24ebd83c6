-------------------------------- MODULE Bench --------------------------------
(***************************************************************************)
(* server/nss_server.c in its --bench mode: open a model, read one input   *)
(* from a file, run the network three times to warm up and --runs times    *)
(* against the clock, dump the outputs of the last run and release         *)
(* everything.  Nothing here is concurrent; what the code has to get right *)
(* is the life of the OrtValues a run returns, which are released in three *)
(* different places, and of the ORT objects around them.                   *)
(*                                                                         *)
(* An OrtValue is <<n, k>>: output k of the n-th call of model_run.  What  *)
(* is in it is left out.  Every CHECKed call may fail; die() then ends the *)
(* process.                                                                *)
(***************************************************************************)
EXTENDS Naturals, FiniteSets

CONSTANTS
  Runs,         (* The values of --runs.                                   *)
  Warmups,      (* Warm-up runs; the code has 3.                           *)
  GraphOutputs, (* How many outputs the graph of --model may have.         *)
  Durations,    (* What a timed run may take.                              *)
  BestStart     (* Initial value of `best`, above every duration.          *)

ASSUME BenchAssumption ==
  /\ Runs \subseteq Nat
  /\ Warmups \in Nat \ {0}
  /\ GraphOutputs \subseteq Nat
  /\ Durations \subseteq Nat
  /\ BestStart \in Nat
  /\ \A d \in Durations : d < BestStart

VARIABLES
  pc,          (* Where the process is.                                    *)
  arg,         (* The options: runs, dump, backend.                        *)
  outputs,     (* How many outputs the graph has.                          *)
  outputCount, (* m.output_count.                                          *)
  held,        (* ORT objects and memory acquired and not yet released.    *)
  values,      (* The live OrtValues.                                      *)
  out,         (* The array out[2].                                        *)
  calls,       (* Calls of model_run so far.                               *)
  i,           (* The loop counter of the loop under way.                  *)
  total, best, (* The times of the timed runs.                             *)
  dumped       (* Per output index, the value written to its file.         *)

options == <<arg, outputs>>
vars == <<pc, options, outputCount, held, values, out, calls, i, total, best,
          dumped>>

NoValue == <<0, 0>>

(* What malloc'd, allocator-owned and ORT-owned things a run acquires.     *)
Things == {"env", "opts", "session", "name", "name0", "name1", "mem", "info",
           "input", "tensor"}

Names == {"name", "name0", "name1"}

Init ==
  /\ pc = "env"
  /\ arg \in [runs : Runs, dump : BOOLEAN, backend : BOOLEAN]
  /\ outputs \in GraphOutputs
  /\ outputCount = 0
  /\ held = {} /\ values = {}
  /\ out = [k \in {0, 1} |-> NoValue]
  /\ calls = 0 /\ i = 0 /\ total = 0 /\ best = BestStart
  /\ dumped = [k \in {0, 1} |-> NoValue]

(* A step of model_open or bench that acquires and releases.               *)
Step(from, to, acquired, released) ==
  /\ pc = from
  /\ pc' = to
  /\ held' = (held \cup acquired) \ released

-----------------------------------------------------------------------------
(* model_open *)

Setup(from, to, acquired, released) ==
  /\ Step(from, to, acquired, released)
  /\ UNCHANGED <<options, outputCount, values, out, calls, i, total, best, dumped>>

CreateEnv == Setup("env", "opts", {"env"}, {})
CreateOptions ==
  Setup("opts", IF arg.backend THEN "append" ELSE "session", {"opts"}, {})
AppendBackend == Setup("append", "session", {}, {})

(* The options are released once the session exists.                       *)
CreateSession == Setup("session", "names", {"session"}, {"opts"})

(* At most two outputs are named and asked for.  The name of output 0 is   *)
(* asked for first, and a graph without one fails there.                   *)
Bug_Clamp(n) == IF n = 0 THEN 1 ELSE n
Clamp(n) == IF n > 2 THEN 2 ELSE IF n = 0 THEN 1 ELSE n

GetNames ==
  /\ outputs > 0
  /\ Step("names", "mem",
          {"name", "name0"} \cup (IF Clamp(outputs) > 1 THEN {"name1"} ELSE {}), {})
  /\ outputCount' = Clamp(outputs)
  /\ UNCHANGED <<options, values, out, calls, i, total, best, dumped>>

CreateMemoryInfo == Setup("mem", "info", {"mem"}, {})
GetInputInfo == Setup("info", "print", {"info"}, {"info"})

(* The summary prints output_names[1] where it is not NULL; of a graph     *)
(* with one output nobody has set it.  Whatever is in the stack slot is    *)
(* taken for a string, and may be printed or not, or end the process.      *)
PrintModel == Setup("print", "input", {}, {})
PrintCrashes ==
  /\ pc = "print"
  /\ "name1" \notin held
  /\ pc' = "crashed"
  /\ UNCHANGED <<options, outputCount, held, values, out, calls, i, total, best,
                 dumped>>

-----------------------------------------------------------------------------
(* bench *)

(* malloc, fopen, fread of every element.                                  *)
ReadInput == Setup("input", "warm", {"input"}, {})

(* Another iteration of a loop, or what comes behind it.                   *)
Looping == \/ pc = "warm" /\ i < Warmups
           \/ pc = "timed" /\ i < arg.runs

LoopEnds ==
  /\ pc \in {"warm", "timed"}
  /\ ~Looping
  /\ pc' = IF pc = "warm" THEN "timed" ELSE IF arg.dump THEN "dump" ELSE "last"
  /\ i' = 0
  /\ UNCHANGED <<options, outputCount, held, values, out, calls, total, best,
                 dumped>>

(* The values a run of the network returns in out[].                       *)
Fresh == [k \in {0, 1} |-> IF k < outputCount THEN <<calls + 1, k>> ELSE NoValue]

Held(f) == {f[k] : k \in {j \in {0, 1} : j < outputCount}}

(* model_run wraps the input in a tensor, runs the network and releases    *)
(* the tensor.                                                             *)
MakeTensor ==
  /\ Looping
  /\ "tensor" \notin held
  /\ held' = held \cup {"tensor"}
  /\ UNCHANGED <<pc, options, outputCount, values, out, calls, i, total, best,
                 dumped>>

Bug_Measure(d) ==
  total' = total + d /\ best' = IF d > best THEN d ELSE best
Measure(d) == total' = total + d /\ best' = IF d < best THEN d ELSE best

ModelRun ==
  /\ Looping
  /\ "tensor" \in held
  /\ held' = held \ {"tensor"}
  /\ out' = Fresh
  /\ values' = values \cup Held(Fresh)
  /\ calls' = calls + 1
  /\ IF pc = "timed" THEN \E d \in Durations : Measure(d)
                     ELSE UNCHANGED <<total, best>>
  /\ pc' = IF pc = "warm" THEN "warmed" ELSE "ran"
  /\ UNCHANGED <<options, outputCount, i, dumped>>

(* The outputs of a warm-up run are released at once, those of a timed run *)
(* unless it is the last: they are for the dump.                           *)
Bug_ReleasedNow == pc = "warmed"
Bug_AllReleased == TRUE
ReleasedNow == pc = "warmed" \/ i + 1 < arg.runs

EndIteration ==
  /\ pc \in {"warmed", "ran"}
  /\ values' = IF ReleasedNow THEN values \ Held(out) ELSE values
  /\ i' = i + 1
  /\ pc' = IF pc = "warmed" THEN "warm" ELSE "timed"
  /\ UNCHANGED <<options, outputCount, held, out, calls, total, best, dumped>>

(* One file for each output.                                               *)
Bug_DumpedIndex == 0
DumpedIndex == i

DumpOutput ==
  /\ pc = "dump"
  /\ dumped' = [dumped EXCEPT ![DumpedIndex] = out[i]]
  /\ i' = i + 1
  /\ pc' = IF i + 1 < outputCount THEN "dump" ELSE "last"
  /\ UNCHANGED <<options, outputCount, held, values, out, calls, total, best>>

(* The outputs of the last timed run, then free() and model_close.         *)
ReleaseLast ==
  /\ pc = "last"
  /\ pc' = "close"
  /\ values' = values \ Held(out)
  /\ UNCHANGED <<options, outputCount, held, out, calls, i, total, best, dumped>>

Bug_Closed == {"input", "mem", "session"}
Closed == {"input", "mem", "session", "env"}

ModelClose == Setup("close", "exit", {}, Closed)

(* die(): a CHECKed call, malloc, fopen or fread failed.                   *)
Fallible == {"env", "opts", "append", "session", "names", "mem", "info",
             "input", "warm", "timed", "dump"}
Fail ==
  /\ pc \in Fallible
  /\ pc \in {"warm", "timed"} => Looping
  /\ pc' = "died"
  /\ UNCHANGED <<options, outputCount, held, values, out, calls, i, total, best,
                 dumped>>

Next ==
  \/ CreateEnv \/ CreateOptions \/ AppendBackend \/ CreateSession \/ GetNames
  \/ CreateMemoryInfo \/ GetInputInfo \/ PrintModel \/ PrintCrashes
  \/ ReadInput \/ LoopEnds \/ MakeTensor \/ ModelRun \/ EndIteration
  \/ DumpOutput \/ ReleaseLast \/ ModelClose \/ Fail

Spec == Init /\ [][Next]_vars

-----------------------------------------------------------------------------
(* Properties *)

(* Every variable keeps the type the code gives it; in particular the      *)
(* array of two names and of two outputs is never indexed beyond its end.  *)
TypeOK ==
  /\ pc \in Fallible \cup {"print", "warmed", "ran", "last", "close", "exit", "died", "crashed"}
  /\ arg \in [runs : Runs, dump : BOOLEAN, backend : BOOLEAN]
  /\ outputs \in GraphOutputs
  /\ outputCount \in 0 .. 2
  /\ held \subseteq Things
  /\ values \subseteq (Nat \X {0, 1})
  /\ out \in [{0, 1} -> Nat \X {0, 1}]
  /\ calls \in Nat /\ i \in Nat /\ total \in Nat /\ best \in Nat
  /\ dumped \in [{0, 1} -> Nat \X {0, 1}]

(* The outputs the dump reads and the last release frees are alive: the    *)
(* releases in the loops and the one behind them never meet.               *)
OutputsLive == pc \in {"dump", "last"} => Held(out) \subseteq values

(* The outputs of at most one frame are alive at a time, however many runs *)
(* --runs asks for.                                                        *)
OneFrameHeld == \A v, w \in values : v[1] = w[1]

(* When bench returns, every value and every object of ORT is released,    *)
(* except the names, which belong to the allocator and never are.          *)
EverythingReleased == pc = "exit" => values = {} /\ held \subseteq Names

(* The files of --dump hold the outputs of the last timed run, each output *)
(* in the file of its index.                                               *)
DumpIsLastRun ==
  pc = "exit" /\ arg.dump =>
    \A k \in {0, 1} : k < outputCount => dumped[k] = <<Warmups + arg.runs, k>>

(* The best of the runs so far is no longer than their mean.               *)
BestAtMostMean == pc = "timed" => i = 0 \/ best * i <= total

(* A graph needs no second output to be benchmarked.                       *)
SingleOutputBenched == pc # "crashed"
=============================================================================
