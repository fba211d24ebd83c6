----------------------------- MODULE Bench_proofs -----------------------------
(***************************************************************************)
(* Proofs about Bench, for any numbers of warm-up and timed runs, any      *)
(* number of outputs and any times.                                        *)
(***************************************************************************)
EXTENDS Bench, TLAPS

-----------------------------------------------------------------------------
(* Where the process is, and what it counts *)

AfterNames == {"mem", "info", "print", "input", "warm", "warmed", "timed", "ran",
               "dump", "last", "close", "exit"}

BeforeRuns == {"env", "opts", "append", "session", "names", "mem", "info",
               "print", "input"}

(* The loop counters, and the number of runs of the network so far.        *)
CountInv ==
  /\ pc \in AfterNames => outputCount \in 1 .. 2
  /\ pc \in BeforeRuns => calls = 0 /\ i = 0 /\ total = 0 /\ best = BestStart
  /\ pc = "warm" => i \in 0 .. Warmups /\ calls = i
  /\ pc = "warmed" => i \in 0 .. Warmups - 1 /\ calls = i + 1
  /\ pc = "timed" => i \in 0 .. arg.runs /\ calls = Warmups + i
  /\ pc = "ran" => i \in 0 .. arg.runs - 1 /\ calls = Warmups + i + 1
  /\ pc = "dump" => i \in 0 .. outputCount - 1
  /\ pc \in {"dump", "last", "close", "exit"} => calls = Warmups + arg.runs

LEMMA FreshTyped ==
  ASSUME calls \in Nat, outputCount \in 0 .. 2
  PROVE  Fresh \in [{0, 1} -> Nat \X {0, 1}] /\ Held(Fresh) \subseteq Nat \X {0, 1}
<1>1. Fresh \in [{0, 1} -> Nat \X {0, 1}]
  BY DEF Fresh, NoValue
<1>2. QED
  BY <1>1 DEF Held

LEMMA TypeInit == Init => TypeOK /\ CountInv
<1>1. Init => TypeOK
  BY BenchAssumption DEF Init, TypeOK, Fallible, NoValue, Things
<1>2. Init => CountInv
  BY DEF Init, CountInv, AfterNames, BeforeRuns
<1>3. QED
  BY <1>1, <1>2

LEMMA TypeStep ==
  ASSUME TypeOK, CountInv, [Next]_vars
  PROVE  TypeOK' /\ CountInv'
<1> USE BenchAssumption
<1>0. arg.runs \in Nat
  BY DEF TypeOK
<1>1. CASE CreateEnv
  BY <1>1 DEF CreateEnv, Setup, Step, TypeOK, CountInv, AfterNames, BeforeRuns,
       Fallible, Things, options
<1>2. CASE CreateOptions
  BY <1>2 DEF CreateOptions, Setup, Step, TypeOK, CountInv, AfterNames,
       BeforeRuns, Fallible, Things, options
<1>3. CASE AppendBackend
  BY <1>3 DEF AppendBackend, Setup, Step, TypeOK, CountInv, AfterNames,
       BeforeRuns, Fallible, Things, options
<1>4. CASE CreateSession
  BY <1>4 DEF CreateSession, Setup, Step, TypeOK, CountInv, AfterNames,
       BeforeRuns, Fallible, Things, options
<1>5. CASE GetNames
  BY <1>5 DEF GetNames, Step, Clamp, TypeOK, CountInv, AfterNames, BeforeRuns,
       Fallible, Things, options
<1>6. CASE CreateMemoryInfo
  BY <1>6 DEF CreateMemoryInfo, Setup, Step, TypeOK, CountInv, AfterNames,
       BeforeRuns, Fallible, Things, options
<1>7. CASE GetInputInfo
  BY <1>7 DEF GetInputInfo, Setup, Step, TypeOK, CountInv, AfterNames,
       BeforeRuns, Fallible, Things, options
<1>8. CASE PrintModel
  BY <1>8 DEF PrintModel, Setup, Step, TypeOK, CountInv, AfterNames, BeforeRuns,
       Fallible, Things, options
<1>9. CASE PrintCrashes
  BY <1>9 DEF PrintCrashes, TypeOK, CountInv, AfterNames, BeforeRuns, Fallible,
       Things, options
<1>10. CASE ReadInput
  BY <1>10 DEF ReadInput, Setup, Step, TypeOK, CountInv, AfterNames, BeforeRuns,
       Fallible, Things, options
<1>11. CASE LoopEnds
  BY <1>11, <1>0 DEF LoopEnds, Looping, TypeOK, CountInv, AfterNames,
       BeforeRuns, Fallible, Things, options
<1>12. CASE MakeTensor
  BY <1>12 DEF MakeTensor, Looping, TypeOK, CountInv, AfterNames, BeforeRuns,
       Fallible, Things, options
<1>13. CASE ModelRun
  <2>1. /\ out' \in [{0, 1} -> Nat \X {0, 1}] /\ values' \subseteq Nat \X {0, 1}
        /\ calls' \in Nat
    BY <1>13, FreshTyped DEF ModelRun, TypeOK
  <2>2. total' \in Nat /\ best' \in Nat
    BY <1>13 DEF ModelRun, Measure, TypeOK
  <2>3. QED
    BY <1>13, <1>0, <2>1, <2>2 DEF ModelRun, Looping, TypeOK, CountInv,
         AfterNames, BeforeRuns, Fallible, Things, options
<1>14. CASE EndIteration
  BY <1>14, <1>0 DEF EndIteration, TypeOK, CountInv, AfterNames, BeforeRuns,
       Fallible, Things, options
<1>15. CASE DumpOutput
  <2>1. i \in {0, 1}
    BY <1>15 DEF DumpOutput, CountInv, TypeOK
  <2>2. dumped' \in [{0, 1} -> Nat \X {0, 1}]
    BY <1>15, <2>1 DEF DumpOutput, DumpedIndex, TypeOK
  <2>3. i' \in Nat /\ (pc' = "dump" => i' \in 0 .. outputCount - 1)
    BY <1>15 DEF DumpOutput, TypeOK
  <2>4. QED
    BY <1>15, <2>2, <2>3 DEF DumpOutput, TypeOK, CountInv, AfterNames,
         BeforeRuns, Fallible, options
<1>16. CASE ReleaseLast
  BY <1>16 DEF ReleaseLast, TypeOK, CountInv, AfterNames, BeforeRuns, Fallible,
       Things, options
<1>17. CASE ModelClose
  BY <1>17 DEF ModelClose, Setup, Step, Closed, TypeOK, CountInv, AfterNames,
       BeforeRuns, Fallible, Things, options
<1>18. CASE Fail
  BY <1>18 DEF Fail, Fallible, Looping, TypeOK, CountInv, AfterNames,
       BeforeRuns, Fallible, Things, options
<1>19. CASE UNCHANGED vars
  BY <1>19 DEF vars, TypeOK, CountInv, AfterNames, BeforeRuns, Fallible, Things,
       options
<1>20. QED
  BY <1>1, <1>2, <1>3, <1>4, <1>5, <1>6, <1>7, <1>8, <1>9, <1>10, <1>11, <1>12,
       <1>13, <1>14, <1>15, <1>16, <1>17, <1>18, <1>19 DEF Next

(* Types hold: no loop indexes the two names or outputs beyond their end.  *)
THEOREM TypeCorrect == Spec => []TypeOK
<1> QED
  BY TypeInit, TypeStep, PTL DEF Spec

-----------------------------------------------------------------------------
(* The OrtValues *)

(* Is the frame of the last run of the network still to be released?       *)
FrameKept == \/ pc \in {"warmed", "ran"}
             \/ pc = "timed" /\ i = arg.runs /\ i > 0
             \/ pc \in {"dump", "last"} /\ arg.runs > 0

Ended == {"exit", "died", "crashed"}

ValuesInv ==
  /\ calls > 0 => \A k \in {0, 1} : k < outputCount => out[k] = <<calls, k>>
  /\ values \in {{}, Held(out)}
  /\ calls = 0 => values = {}
  /\ pc \notin {"died", "crashed"} => values = IF FrameKept THEN Held(out) ELSE {}

LEMMA ValuesInit == Init => ValuesInv
<1> SUFFICES ASSUME Init PROVE ValuesInv
  OBVIOUS
<1>1. pc = "env" /\ values = {} /\ calls = 0
  BY DEF Init
<1>2. QED
  BY <1>1 DEF ValuesInv, FrameKept

LEMMA ValuesStep ==
  ASSUME TypeOK, CountInv, ValuesInv, [Next]_vars
  PROVE  ValuesInv'
<1> USE BenchAssumption
<1>0. arg.runs \in Nat
  BY DEF TypeOK
<1>1. CASE GetNames
  <2>1. calls = 0 /\ values = {} /\ pc' = "mem"
    BY <1>1 DEF GetNames, Step, CountInv, ValuesInv, BeforeRuns
  <2>2. QED
    BY <1>1, <2>1 DEF GetNames, ValuesInv, FrameKept
<1>2. CASE LoopEnds
  <2>1. values = IF FrameKept THEN Held(out) ELSE {}
    BY <1>2 DEF LoopEnds, ValuesInv
  <2>2. pc = "warm" => ~FrameKept /\ ~FrameKept'
    BY <1>2, <1>0 DEF LoopEnds, FrameKept
  <2>3. pc = "timed" => i = arg.runs
    BY <1>2, <1>0 DEF LoopEnds, Looping, CountInv
  <2>4. pc = "timed" => FrameKept' = FrameKept
    BY <1>2, <1>0, <2>3 DEF LoopEnds, FrameKept, options
  <2>5. values' = values /\ Held(out)' = Held(out) /\ pc \in {"warm", "timed"}
    BY <1>2 DEF LoopEnds, Held
  <2>6. values' = IF FrameKept' THEN Held(out)' ELSE {}
    BY <2>1, <2>2, <2>4, <2>5
  <2>7. QED
    BY <1>2, <2>6 DEF LoopEnds, ValuesInv
<1>3. CASE ModelRun
  <2>1. values = {}
    BY <1>3, <1>0 DEF ModelRun, Looping, ValuesInv, FrameKept
  <2>2. out' = Fresh /\ outputCount' = outputCount /\ values' = Held(Fresh)
    BY <1>3, <2>1 DEF ModelRun
  <2>3. values' = Held(out)'
    BY <2>2 DEF Held
  <2>4. pc' \in {"warmed", "ran"} /\ calls' = calls + 1 /\ calls' > 0
    BY <1>3 DEF ModelRun, TypeOK
  <2>5. \A k \in {0, 1} : k < outputCount' => out'[k] = <<calls', k>>
    BY <2>2, <2>4 DEF Fresh
  <2>6. QED
    BY <2>3, <2>4, <2>5 DEF ValuesInv, FrameKept
<1>4. CASE EndIteration
  <2>1. values = Held(out) /\ Held(out)' = Held(out)
    BY <1>4 DEF EndIteration, ValuesInv, FrameKept, Held
  <2>2. values' = IF ReleasedNow THEN {} ELSE Held(out)
    BY <1>4, <2>1 DEF EndIteration
  <2>3. FrameKept' <=> ~ReleasedNow
    <3>1. CASE pc = "warmed"
      BY <1>4, <3>1 DEF EndIteration, FrameKept, ReleasedNow
    <3>2. CASE pc = "ran"
      BY <1>4, <1>0, <3>2 DEF EndIteration, FrameKept, ReleasedNow, CountInv,
           options
    <3>3. QED
      BY <1>4, <3>1, <3>2 DEF EndIteration
  <2>4. calls' = calls /\ out' = out /\ outputCount' = outputCount /\ calls > 0
        /\ pc' \notin {"died", "crashed"}
    BY <1>4 DEF EndIteration, CountInv, TypeOK
  <2>5. QED
    BY <2>1, <2>2, <2>3, <2>4 DEF ValuesInv
<1>5. CASE DumpOutput
  <2>1. FrameKept' = FrameKept /\ Held(out)' = Held(out)
    BY <1>5 DEF DumpOutput, FrameKept, Held, options
  <2>2. QED
    BY <1>5, <2>1 DEF DumpOutput, ValuesInv
<1>6. CASE ReleaseLast
  <2>1. values' = {}
    BY <1>6 DEF ReleaseLast, ValuesInv
  <2>2. QED
    BY <1>6, <2>1 DEF ReleaseLast, ValuesInv, FrameKept
<1>7. CASE CreateEnv \/ CreateOptions \/ AppendBackend \/ CreateSession
     \/ CreateMemoryInfo \/ GetInputInfo \/ PrintModel \/ PrintCrashes
     \/ ReadInput \/ MakeTensor \/ ModelClose \/ Fail
  BY <1>7 DEF CreateEnv, Setup, Step, CreateOptions, AppendBackend,
       CreateSession, CreateMemoryInfo, GetInputInfo, PrintModel, PrintCrashes,
       ReadInput, MakeTensor, Looping, ModelClose, Closed, Fail, Fallible,
       CountInv, ValuesInv, FrameKept, TypeOK, AfterNames, BeforeRuns, Held,
       options
<1>8. CASE UNCHANGED vars
  BY <1>8 DEF vars, CountInv, ValuesInv, FrameKept, TypeOK, AfterNames,
       BeforeRuns, Held, options
<1>9. QED
  BY <1>1, <1>2, <1>3, <1>4, <1>5, <1>6, <1>7, <1>8 DEF Next

LEMMA ValuesSafe == Spec => []ValuesInv
<1> QED
  BY TypeInit, TypeStep, ValuesInit, ValuesStep, PTL DEF Spec

(* bench: where at least one run is timed, the outputs that are dumped and *)
(* then released are alive; with --runs 0 they are not.                    *)
THEOREM DumpedValuesLive ==
  ASSUME 0 \notin Runs
  PROVE  Spec => []OutputsLive
<1>1. ASSUME TypeOK, ValuesInv PROVE OutputsLive
  <2>1. arg.runs \in Nat /\ arg.runs # 0
    BY <1>1, BenchAssumption DEF TypeOK
  <2>2. QED
    BY <1>1, <2>1 DEF OutputsLive, ValuesInv, FrameKept
<1>2. QED
  BY <1>1, TypeInit, TypeStep, ValuesSafe, PTL DEF Spec

(* bench: however many runs are timed, the outputs of one frame at most    *)
(* are alive.                                                              *)
THEOREM HoldsOneFrame == Spec => []OneFrameHeld
<1>1. ASSUME TypeOK, ValuesInv PROVE OneFrameHeld
  <2>1. CASE calls = 0
    BY <1>1, <2>1 DEF ValuesInv, OneFrameHeld
  <2>2. CASE calls > 0
    <3>1. ASSUME NEW v \in Held(out) PROVE v[1] = calls
      BY <1>1, <2>2, <3>1 DEF ValuesInv, Held
    <3>2. QED
      BY <1>1, <3>1 DEF ValuesInv, OneFrameHeld
  <2>3. QED
    BY <1>1, <2>1, <2>2 DEF TypeOK
<1>2. QED
  BY <1>1, TypeInit, TypeStep, ValuesSafe, PTL DEF Spec

-----------------------------------------------------------------------------
(* The rest of what is acquired, and the files *)

HeldInv ==
  /\ "info" \notin held
  /\ pc \notin {"append", "session", "died"} => "opts" \notin held
  /\ pc \in {"last", "close", "exit", "dump"} => "tensor" \notin held
  /\ "tensor" \in held => pc \in {"warm", "timed", "died"}
  /\ "tensor" \in held /\ pc \in {"warm", "timed"} => Looping
  /\ pc = "exit" => held \subseteq Names

LEMMA HeldStep ==
  ASSUME TypeOK, HeldInv, [Next]_vars
  PROVE  HeldInv'
<1>1. CASE CreateEnv
  BY <1>1 DEF CreateEnv, Setup, Step, HeldInv, TypeOK, Things, Names, Looping,
       Fallible, options
<1>2. CASE CreateOptions
  BY <1>2 DEF CreateOptions, Setup, Step, HeldInv, TypeOK, Things, Names,
       Looping, Fallible, options
<1>3. CASE AppendBackend
  BY <1>3 DEF AppendBackend, Setup, Step, HeldInv, TypeOK, Things, Names,
       Looping, Fallible, options
<1>4. CASE CreateSession
  BY <1>4 DEF CreateSession, Setup, Step, HeldInv, TypeOK, Things, Names,
       Looping, Fallible, options
<1>5. CASE GetNames
  BY <1>5 DEF GetNames, Step, Clamp, HeldInv, TypeOK, Things, Names, Looping,
       Fallible, options
<1>6. CASE CreateMemoryInfo
  BY <1>6 DEF CreateMemoryInfo, Setup, Step, HeldInv, TypeOK, Things, Names,
       Looping, Fallible, options
<1>7. CASE GetInputInfo
  BY <1>7 DEF GetInputInfo, Setup, Step, HeldInv, TypeOK, Things, Names,
       Looping, Fallible, options
<1>8. CASE PrintModel
  BY <1>8 DEF PrintModel, Setup, Step, HeldInv, TypeOK, Things, Names, Looping,
       Fallible, options
<1>9. CASE PrintCrashes
  BY <1>9 DEF PrintCrashes, HeldInv, TypeOK, Things, Names, Looping, Fallible,
       options
<1>10. CASE ReadInput
  BY <1>10 DEF ReadInput, Setup, Step, HeldInv, TypeOK, Things, Names, Looping,
       Fallible, options
<1>11. CASE LoopEnds
  BY <1>11 DEF LoopEnds, Looping, HeldInv, TypeOK, Things, Names, Looping,
       Fallible, options
<1>12. CASE MakeTensor
  BY <1>12 DEF MakeTensor, Looping, HeldInv, TypeOK, Things, Names, Looping,
       Fallible, options
<1>13. CASE ModelRun
  BY <1>13 DEF ModelRun, Looping, HeldInv, TypeOK, Things, Names, Looping,
       Fallible, options
<1>14. CASE EndIteration
  BY <1>14 DEF EndIteration, HeldInv, TypeOK, Things, Names, Looping, Fallible,
       options
<1>15. CASE DumpOutput
  BY <1>15 DEF DumpOutput, DumpedIndex, HeldInv, TypeOK, Things, Names, Looping,
       Fallible, options
<1>16. CASE ReleaseLast
  BY <1>16 DEF ReleaseLast, HeldInv, TypeOK, Things, Names, Looping, Fallible,
       options
<1>17. CASE ModelClose
  BY <1>17 DEF ModelClose, Setup, Step, Closed, HeldInv, TypeOK, Things, Names,
       Looping, Fallible, options
<1>18. CASE Fail
  BY <1>18 DEF Fail, Fallible, Looping, HeldInv, TypeOK, Things, Names, Looping,
       Fallible, options
<1>19. CASE UNCHANGED vars
  BY <1>19 DEF vars, HeldInv, TypeOK, Things, Names, Looping, Fallible, options
<1>20. QED
  BY <1>1, <1>2, <1>3, <1>4, <1>5, <1>6, <1>7, <1>8, <1>9, <1>10, <1>11, <1>12,
       <1>13, <1>14, <1>15, <1>16, <1>17, <1>18, <1>19 DEF Next

(* bench and model_close: when bench returns, every OrtValue and every     *)
(* object of ORT is released, but for the names.                           *)
THEOREM NothingKept == Spec => []EverythingReleased
<1>1. Init => HeldInv
  BY DEF Init, HeldInv
<1>2. HeldInv /\ ValuesInv => EverythingReleased
  BY DEF HeldInv, ValuesInv, FrameKept, EverythingReleased
<1>3. QED
  BY <1>1, <1>2, TypeInit, TypeStep, HeldStep, ValuesSafe, PTL DEF Spec

DumpInv ==
  /\ pc = "dump" => \A k \in {0, 1} : k < i => dumped[k] = out[k]
  /\ pc \in {"last", "close", "exit"} /\ arg.dump =>
       \A k \in {0, 1} : k < outputCount => dumped[k] = out[k]

LEMMA DumpStep ==
  ASSUME TypeOK, CountInv, DumpInv, [Next]_vars
  PROVE  DumpInv'
<1>1. CASE DumpOutput
  <2>1. i \in {0, 1} /\ i' = i + 1 /\ out' = out /\ outputCount' = outputCount /\ outputCount \in 0 .. 2
    BY <1>1 DEF DumpOutput, CountInv, TypeOK
  <2>2. \A k \in {0, 1} : k < i + 1 => dumped'[k] = out[k]
    BY <1>1, <2>1 DEF DumpOutput, DumpedIndex, DumpInv, TypeOK
  <2>3. pc' = "last" => i + 1 >= outputCount
    BY <1>1, <2>1 DEF DumpOutput
  <2>4. QED
    BY <1>1, <2>1, <2>2, <2>3 DEF DumpOutput, DumpInv
<1>2. CASE CreateEnv \/ CreateOptions \/ AppendBackend \/ CreateSession
     \/ GetNames \/ CreateMemoryInfo \/ GetInputInfo \/ PrintModel
     \/ PrintCrashes \/ ReadInput \/ LoopEnds \/ MakeTensor \/ ModelRun
     \/ EndIteration \/ ReleaseLast \/ ModelClose \/ Fail
  BY <1>2 DEF CreateEnv, Setup, Step, CreateOptions, AppendBackend,
       CreateSession, GetNames, Clamp, CreateMemoryInfo, GetInputInfo,
       PrintModel, PrintCrashes, ReadInput, LoopEnds, Looping, MakeTensor,
       ModelRun, EndIteration, ReleaseLast, ModelClose, Closed, Fail, Fallible,
       DumpInv, TypeOK, CountInv, options
<1>3. CASE UNCHANGED vars
  BY <1>3 DEF vars, DumpInv, TypeOK, CountInv, options
<1>4. QED
  BY <1>1, <1>2, <1>3 DEF Next

(* bench: the files of --dump hold the outputs of the last timed run, each *)
(* in the file of its index.                                               *)
THEOREM DumpsLastRun == Spec => []DumpIsLastRun
<1>1. Init => DumpInv
  BY DEF Init, DumpInv
<1>2. ASSUME TypeOK, CountInv, ValuesInv, DumpInv PROVE DumpIsLastRun
  <2> SUFFICES ASSUME pc = "exit", arg.dump, NEW k \in {0, 1}, k < outputCount
               PROVE  dumped[k] = <<Warmups + arg.runs, k>>
    BY DEF DumpIsLastRun
  <2>0. arg.runs \in Nat
    BY <1>2, BenchAssumption DEF TypeOK
  <2>1. calls = Warmups + arg.runs /\ calls > 0
    BY <1>2, <2>0, BenchAssumption DEF CountInv
  <2>2. out[k] = <<calls, k>>
    BY <1>2, <2>1 DEF ValuesInv
  <2>3. QED
    BY <1>2, <2>1, <2>2 DEF DumpInv
<1>3. QED
  BY <1>1, <1>2, TypeInit, TypeStep, DumpStep, ValuesSafe, PTL DEF Spec

-----------------------------------------------------------------------------
(* The times *)

TimesInv ==
  /\ pc \in BeforeRuns \cup {"warm", "warmed"} => total = 0 /\ best = BestStart
  /\ pc = "timed" => i = 0 \/ best * i <= total
  /\ pc = "ran" => best * (i + 1) <= total

(* A mean of k times that is at least a, and one more time d.              *)
LEMMA OneMoreTime ==
  ASSUME NEW a \in Nat, NEW b \in Nat, NEW d \in Nat, NEW k \in Nat, NEW t \in Nat,
         b <= a, b <= d, k = 0 \/ a * k <= t
  PROVE  b * (k + 1) <= t + d
<1>1. a * k \in Nat /\ b * k \in Nat
  OBVIOUS
<1>2. b * k <= a * k
  <2>1. a * k = b * k + (a - b) * k /\ (a - b) * k >= 0
    OBVIOUS
  <2>2. QED
    BY <1>1, <2>1
<1>3. b * (k + 1) = b * k + b
  OBVIOUS
<1>4. b * k <= t
  <2>1. CASE k = 0
    BY <2>1
  <2>2. CASE a * k <= t
    BY <1>1, <1>2, <2>2
  <2>3. QED
    BY <2>1, <2>2
<1>5. QED
  BY <1>1, <1>3, <1>4

LEMMA MeasureBounds ==
  ASSUME total \in Nat, best \in Nat, i \in Nat, NEW d \in Nat, Measure(d),
         i = 0 \/ best * i <= total
  PROVE  best' * (i + 1) <= total'
<1>1. total' = total + d /\ best' \in Nat /\ best' <= d /\ best' <= best
  BY DEF Measure
<1>2. \A a, b, k, t \in Nat :
        b <= a /\ b <= d /\ (k = 0 \/ a * k <= t) => b * (k + 1) <= t + d
  BY OneMoreTime
<1>3. best' * (i + 1) <= total + d
  BY <1>1, <1>2, Zenon
<1>4. QED
  BY <1>1, <1>3, Zenon

LEMMA TimesStep ==
  ASSUME TypeOK, CountInv, TimesInv, [Next]_vars
  PROVE  TimesInv'
<1>1. CASE ModelRun
  <2>1. CASE pc = "warm"
    BY <1>1, <2>1 DEF ModelRun, TimesInv, BeforeRuns
  <2>2. CASE pc = "timed"
    <3>1. PICK d \in Durations : Measure(d)
      BY <1>1, <2>2 DEF ModelRun
    <3>2. best' * (i + 1) <= total' /\ i' = i /\ pc' = "ran"
      BY <1>1, <2>2, <3>1, MeasureBounds, BenchAssumption DEF ModelRun,
           TimesInv, TypeOK
    <3>3. QED
      BY <3>2 DEF TimesInv, BeforeRuns
  <2>3. QED
    BY <1>1, <2>1, <2>2 DEF ModelRun, Looping
<1>2. CASE EndIteration
  <2>1. i' = i + 1 /\ best' = best /\ total' = total
    BY <1>2 DEF EndIteration
  <2>2. CASE pc = "warmed"
    BY <1>2, <2>2 DEF EndIteration, TimesInv, BeforeRuns
  <2>3. CASE pc = "ran"
    BY <1>2, <2>1, <2>3 DEF EndIteration, TimesInv, BeforeRuns
  <2>4. QED
    BY <1>2, <2>2, <2>3 DEF EndIteration
<1>3. CASE CreateEnv \/ CreateOptions \/ AppendBackend \/ CreateSession
     \/ GetNames \/ CreateMemoryInfo \/ GetInputInfo \/ PrintModel
     \/ PrintCrashes \/ ReadInput \/ LoopEnds \/ MakeTensor \/ DumpOutput
     \/ ReleaseLast \/ ModelClose \/ Fail
  BY <1>3 DEF CreateEnv, Setup, Step, CreateOptions, AppendBackend,
       CreateSession, GetNames, Clamp, CreateMemoryInfo, GetInputInfo,
       PrintModel, PrintCrashes, ReadInput, LoopEnds, Looping, MakeTensor,
       DumpOutput, DumpedIndex, ReleaseLast, ModelClose, Closed, Fail, Fallible,
       TimesInv, TypeOK, CountInv, BeforeRuns, options
<1>4. CASE UNCHANGED vars
  BY <1>4 DEF vars, TimesInv, TypeOK, CountInv, BeforeRuns, options
<1>5. QED
  BY <1>1, <1>2, <1>3, <1>4 DEF Next

(* bench: the best of the runs so far is at most their mean.               *)
THEOREM BestBelowMean == Spec => []BestAtMostMean
<1>1. Init => TimesInv
  BY DEF Init, TimesInv
<1>2. TimesInv => BestAtMostMean
  BY DEF TimesInv, BestAtMostMean
<1>3. QED
  BY <1>1, <1>2, TypeInit, TypeStep, TimesStep, PTL DEF Spec
=============================================================================
