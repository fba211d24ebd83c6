--------------------------- MODULE ProbeApp_proofs ---------------------------
(***************************************************************************)
(* Proofs about ProbeApp, for any packages, any number of launches and     *)
(* updates, any lines and any sink that the longest report fits.           *)
(***************************************************************************)
EXTENDS ProbeApp, SequenceTheorems, TLAPS

(* The lines reported at every place in probe_run.                         *)
LinesAt ==
  /\ step = "idle"    => emitted = 0 /\ node = 0
  /\ step = "domain"  => emitted = 0 /\ node = 0
  /\ step = "heading" => emitted = 1 /\ node = 0
  /\ step = "nodes"   => emitted = 2 + node /\ node \in 0 .. 5
  /\ step = "library" => emitted = 8
  /\ step = "load"    => emitted = 9
  /\ step = "control" => emitted = 10
  /\ step = "resolve" => emitted = 11
  /\ step = "open"    => emitted = 12
  /\ step = "verdict" => emitted = 13

(* Every line is in the sink, and took no more of it than a longest one.   *)
SinkInv ==
  /\ emitted \in Nat /\ node \in Nat /\ len \in Nat
  /\ LinesAt
  /\ kept = emitted
  /\ len <= emitted * (LineMax + 1)

-----------------------------------------------------------------------------
(* With thirteen lines in it the sink has room for another.                *)
LEMMA RoomForAnother ==
  ASSUME emitted \in 0 .. 13, len \in Nat, len <= emitted * (LineMax + 1),
         NEW n \in LineLengths
  PROVE  /\ Fits(n)
         /\ LineTakes(n) \in Nat
         /\ len + LineTakes(n) <= (emitted + 1) * (LineMax + 1)
<1> DEFINE L == LineMax + 1
<1>1. L \in Nat /\ n \in Nat /\ n + 1 <= L /\ Cap \in Nat /\ 14 * L + 1 < Cap
  BY ProbeAssumption DEF MaxLines
<1> HIDE DEF L
<1>2. emitted * L <= 13 * L /\ (emitted + 1) * L = emitted * L + L /\ emitted * L \in Nat
  <2>1. \A a, b, c \in Nat : a <= b => a * c <= b * c
    OBVIOUS
  <2>2. \A a, c \in Nat : (a + 1) * c = a * c + c /\ a * c \in Nat
    OBVIOUS
  <2>3. emitted \in Nat /\ emitted <= 13
    OBVIOUS
  <2>4. QED
    BY <1>1, <2>1, <2>2, <2>3
<1>3. len <= emitted * L
  BY DEF L
<1>4. Fits(n)
  BY <1>1, <1>2, <1>3 DEF Fits
<1>5. LineTakes(n) \in Nat /\ len + LineTakes(n) <= (emitted + 1) * L
  BY <1>1, <1>2, <1>3 DEF LineTakes
<1>6. QED
  BY <1>4, <1>5 DEF L

(* So a line reported by any step but the last is kept.                    *)
LEMMA LineKept ==
  ASSUME SinkInv, emitted \in 0 .. 13, NEW from, NEW to, Line(from, to)
  PROVE  /\ step = from /\ step' = to
         /\ emitted' = emitted + 1 /\ kept' = emitted'
         /\ emitted' \in Nat /\ len' \in Nat
         /\ len' <= emitted' * (LineMax + 1)
<1>1. PICK n \in LineLengths : Emit(n)
  BY DEF Line
<1>2. Fits(n) /\ LineTakes(n) \in Nat
      /\ len + LineTakes(n) <= (emitted + 1) * (LineMax + 1)
  BY RoomForAnother DEF SinkInv
<1>3. emitted' = emitted + 1 /\ len' = len + LineTakes(n) /\ kept' = kept + 1
  BY <1>1, <1>2 DEF Emit
<1>4. QED
  BY <1>2, <1>3 DEF Line, SinkInv

LEMMA SinkStep ==
  ASSUME SinkInv, ProbeStep
  PROVE  SinkInv'
<1>1. CASE Domain
  <2>1. step = "domain" /\ emitted = 0
    BY <1>1 DEF Domain, Line, SinkInv, LinesAt
  <2>2. QED
    BY <1>1, <2>1, LineKept DEF Domain, Quiet, SinkInv, LinesAt
<1>2. CASE Heading
  <2>1. step = "heading" /\ emitted = 1
    BY <1>2 DEF Heading, Line, SinkInv, LinesAt
  <2>2. QED
    BY <1>2, <2>1, LineKept DEF Heading, Quiet, SinkInv, LinesAt
<1>3. CASE ProbeNode
  <2>1. step = "nodes" /\ emitted = 2 + node /\ node \in 0 .. 5 /\ emitted \in 0 .. 13
    BY <1>3 DEF ProbeNode, Line, SinkInv, LinesAt
  <2> DEFINE to == IF MoreNodes(node + 1) THEN "nodes" ELSE "library"
  <2>2. Line("nodes", to) /\ node' = node + 1
    BY <1>3 DEF ProbeNode
  <2>3. step' = to /\ emitted' = emitted + 1 /\ kept' = emitted' /\ len' \in Nat
        /\ len' <= emitted' * (LineMax + 1)
    BY <2>1, <2>2, LineKept
  <2>4. LinesAt'
    BY <2>1, <2>2, <2>3 DEF LinesAt, MoreNodes, NodeOpens
  <2>5. QED
    BY <2>1, <2>2, <2>3, <2>4 DEF SinkInv
<1>4. CASE Library
  <2>1. step = "library" /\ emitted = 8
    BY <1>4 DEF Library, Line, SinkInv, LinesAt
  <2>2. QED
    BY <1>4, <2>1, LineKept DEF Library, Quiet, SinkInv, LinesAt
<1>5. CASE Load
  <2>1. step = "load" /\ emitted = 9
    BY <1>5 DEF Load, Line, SinkInv, LinesAt
  <2> DEFINE to == IF device.library THEN "control" ELSE "done"
  <2>2. Line("load", to) /\ node' = node
    BY <1>5 DEF Load, Quiet
  <2>3. step' = to /\ emitted' = emitted + 1 /\ kept' = emitted' /\ len' \in Nat
        /\ len' <= emitted' * (LineMax + 1)
    BY <2>1, <2>2, LineKept
  <2>4. QED
    BY <2>1, <2>2, <2>3 DEF SinkInv, LinesAt
<1>6. CASE Control
  <2>1. step = "control" /\ emitted = 10
    BY <1>6 DEF Control, Line, SinkInv, LinesAt
  <2>2. QED
    BY <1>6, <2>1, LineKept DEF Control, SinkInv, LinesAt
<1>7. CASE NotExported
  <2>1. step = "resolve" /\ emitted = 11
    BY <1>7 DEF NotExported, Line, SinkInv, LinesAt
  <2>2. QED
    BY <1>7, <2>1, LineKept DEF NotExported, Quiet, SinkInv, LinesAt
<1>8. CASE SetPath
  <2>1. step = "resolve" /\ emitted = 11
    BY <1>8 DEF SetPath, Line, SinkInv, LinesAt
  <2>2. QED
    BY <1>8, <2>1, LineKept DEF SetPath, SinkInv, LinesAt
<1>9. CASE OpenHandle
  <2>1. step = "open" /\ emitted = 12
    BY <1>9 DEF OpenHandle, Line, SinkInv, LinesAt
  <2>2. QED
    BY <1>9, <2>1, LineKept DEF OpenHandle, SinkInv, LinesAt
<1>10. CASE Verdict
  <2>1. step = "verdict" /\ emitted = 13
    BY <1>10 DEF Verdict, Line, SinkInv, LinesAt
  <2>2. QED
    BY <1>10, <2>1, LineKept DEF Verdict, Quiet, SinkInv, LinesAt
<1>11. QED
  BY <1>1, <1>2, <1>3, <1>4, <1>5, <1>6, <1>7, <1>8, <1>9, <1>10 DEF ProbeStep

(* The frame of a call is set up and torn down empty.                      *)
LEMMA SinkEmpty ==
  ASSUME SinkInv
  PROVE  /\ FrameGone => SinkInv'
         /\ CallProbe => SinkInv'
<1>1. LineMax + 1 \in Nat /\ 0 * (LineMax + 1) = 0
  BY ProbeAssumption
<1>2. FrameGone => SinkInv'
  BY <1>1 DEF FrameGone, SinkInv, LinesAt
<1>3. CallProbe => SinkInv'
  BY DEF CallProbe, sinkVars, SinkInv, LinesAt
<1>4. QED
  BY <1>2, <1>3

(* The sink is as it should be at every place in probe_run.                *)
LEMMA SinkInvariant == Spec => []SinkInv
<1>1. Init => SinkInv
  <2>1. 0 * (LineMax + 1) = 0
    BY ProbeAssumption
  <2>2. QED
    BY <2>1 DEF Init, ProbeInit, SinkInv, LinesAt
<1>2. SinkInv /\ [Next]_vars => SinkInv'
  <2> SUFFICES ASSUME SinkInv, [Next]_vars PROVE SinkInv'
    OBVIOUS
  <2>1. CASE Kill \/ Install \/ ProbeReturns
    BY <2>1, SinkEmpty DEF Kill, Install, ProcessGone, ProbeReturns, ReturnFromProbe
  <2>2. CASE RunProbe
    BY <2>2, SinkEmpty DEF RunProbe
  <2>3. CASE InProbe
    BY <2>3, SinkStep DEF InProbe
  <2>4. CASE \/ Launch \/ ListLibs \/ Stage \/ EndCopy \/ StagingThrows \/ SetEnv
             \/ StartBenchmark \/ NoRuntime \/ TimeModel \/ TimingFails \/ EndBenchmark
             \/ OpenTxt \/ WriteTxt \/ SaveFails \/ Show \/ UNCHANGED vars
    <3>1. UNCHANGED <<step, node, sinkVars>>
      BY <2>4 DEF Launch, ListLibs, Stage, EndCopy, StagingThrows, SetEnv, StartBenchmark,
           NoRuntime, TimeModel, TimingFails, Timed, EndBenchmark, OpenTxt, WriteTxt,
           SaveFails, Show, Throw, vars, probeVars
    <3>2. QED
      BY <3>1 DEF SinkInv, LinesAt, sinkVars
  <2>5. QED
    BY <2>1, <2>2, <2>3, <2>4 DEF Next, OnCreate
<1>3. QED
  BY <1>1, <1>2, PTL DEF Spec

(* However long its lines are and whatever the library offers, a probe     *)
(* never finds the sink full: no line is missing from its report.          *)
THEOREM ReportHasEveryLine == Spec => []NoLineLost
<1>1. SinkInv => NoLineLost
  BY DEF SinkInv, NoLineLost
<1>2. QED
  BY <1>1, SinkInvariant, PTL

-----------------------------------------------------------------------------
(* Once probe_run is past the request, the process has made it.            *)
PdInv ==
  /\ handles \in Nat
  /\ handles > 0 \/ step \in {"resolve", "open", "verdict"} =>
       (device.control => pd # "untried")

(* In no process is a handle open that was opened without asking for an    *)
(* unsigned process domain first, where the library lets one ask.          *)
THEOREM PdAskedFirst == Spec => []PdBeforeHandle
<1>1. Init => PdInv
  BY DEF Init, ProbeInit, PdInv
<1>2. PdInv /\ [Next]_vars => PdInv'
  <2> SUFFICES ASSUME PdInv, [Next]_vars PROVE PdInv'
    OBVIOUS
  <2> USE DEF PdInv
  <2>1. CASE Kill \/ Install
    BY <2>1 DEF Kill, Install, ProcessGone, FrameGone, ProcessEnds
  <2>2. CASE ProbeReturns \/ RunProbe
    BY <2>2 DEF ProbeReturns, ReturnFromProbe, FrameGone, RunProbe, CallProbe, processVars
  <2>3. CASE InProbe
    <3>1. CASE Domain \/ Heading \/ ProbeNode \/ Library \/ Load \/ Verdict
      <4>1. UNCHANGED <<device, pd, handles>>
        BY <3>1 DEF Domain, Heading, ProbeNode, Library, Load, Verdict, Quiet, processVars
      <4>2. step' \in {"heading", "nodes", "library", "load", "control", "done"}
        BY <3>1 DEF Domain, Heading, ProbeNode, Library, Load, Verdict, Line
      <4>3. QED
        BY <4>1, <4>2
    <3>2. CASE Control
      <4>1. IF device.control THEN pd' \in {"enabled", "refused"} ELSE pd' = pd
        BY <3>2 DEF Control
      <4>2. UNCHANGED <<device, handles>>
        BY <3>2 DEF Control
      <4>3. QED
        BY <4>1, <4>2
    <3>3. CASE NotExported \/ SetPath
      <4>1. UNCHANGED <<device, pd, handles>> /\ step = "resolve"
        BY <3>3 DEF NotExported, SetPath, Quiet, processVars, Line
      <4>2. QED
        BY <4>1
    <3>4. CASE OpenHandle
      <4>1. handles' \in {handles, handles + 1} /\ UNCHANGED <<device, pd>> /\ step = "open"
        BY <3>4 DEF OpenHandle, Line
      <4>2. QED
        BY <4>1
    <3>5. QED
      BY <2>3, <3>1, <3>2, <3>3, <3>4 DEF InProbe, ProbeStep
  <2>4. CASE \/ Launch \/ ListLibs \/ Stage \/ EndCopy \/ StagingThrows \/ SetEnv
             \/ StartBenchmark \/ NoRuntime \/ TimeModel \/ TimingFails \/ EndBenchmark
             \/ OpenTxt \/ WriteTxt \/ SaveFails \/ Show \/ UNCHANGED vars
    <3>1. UNCHANGED <<device, step, pd, handles>>
      BY <2>4 DEF Launch, ListLibs, Stage, EndCopy, StagingThrows, SetEnv, StartBenchmark,
           NoRuntime, TimeModel, TimingFails, Timed, EndBenchmark, OpenTxt, WriteTxt,
           SaveFails, Show, Throw, vars, probeVars, processVars
    <3>2. QED
      BY <3>1
  <2>5. QED
    BY <2>1, <2>2, <2>3, <2>4 DEF Next, OnCreate
<1>3. PdInv => PdBeforeHandle
  BY DEF PdInv, PdBeforeHandle
<1>4. QED
  BY <1>1, <1>2, <1>3, PTL DEF Spec

-----------------------------------------------------------------------------
(* The libraries that are not in the way any more are staged, and so are   *)
(* the models before the one whose turn it is.                             *)
BehindCall == {"probe", "models", "model copy", "bench"}

LibsReady == \A f \in package.dsp : Current(f)
ModelsReady == \A j \in 1 .. i - 1 : ModelSeq[j] # copying => Current(ModelSeq[j])

StageInv ==
  /\ disk \in [Files -> [of : Nat, whole : BOOLEAN]] /\ version \in Nat
  /\ package \in Packages
  /\ at \in {"libs", "lib copy"} =>
       /\ todo \subseteq package.dsp
       /\ \A f \in package.dsp \ todo : Current(f)
  /\ at = "lib copy" => copying \in todo
  /\ at \in BehindCall \cup {"call"} => env /\ LibsReady
  /\ at \in {"list", "libs", "lib copy", "call", "probe"} => i = 1
  /\ at \in {"list", "libs", "call", "probe", "models"} => copying = NoFile
  /\ at = "models" => i \in 1 .. Len(ModelSeq) + 1 /\ ModelsReady
  /\ at = "model copy" =>
       i \in 1 .. Len(ModelSeq) /\ copying = ModelSeq[i] /\ ModelsReady
  /\ at = "bench" => \A f \in ModelFiles : Current(f)

LEMMA ModelsAreFiles ==
  /\ Len(ModelSeq) \in Nat
  /\ \A j \in 1 .. Len(ModelSeq) : ModelSeq[j] \in ModelFiles
  /\ \A f \in ModelFiles : \E j \in 1 .. Len(ModelSeq) : f = ModelSeq[j]
  /\ ModelFiles \subseteq Files /\ Libs \subseteq Files
BY AppAssumption DEF ModelFiles, Files

(* Outside of onCreate nothing is claimed.                                 *)
LEMMA StageIdle ==
  ASSUME StageInv, version' \in Nat, package' \in Packages, disk' = disk,
         at' \in {"off", "save", "write", "show", "shown"}
  PROVE  StageInv'
BY DEF StageInv, BehindCall

LEMMA StageStep ==
  ASSUME StageInv, OnCreate
  PROVE  StageInv'
<1>1. disk \in [Files -> [of : Nat, whole : BOOLEAN]] /\ version \in Nat
      /\ package \in Packages /\ package.dsp \subseteq Libs
  BY AppAssumption DEF StageInv
<1>2. CASE StagingThrows \/ NoRuntime \/ EndBenchmark \/ OpenTxt \/ WriteTxt \/ SaveFails
           \/ Show
  <2>1. UNCHANGED <<disk, version, package>>
    BY <1>2 DEF StagingThrows, NoRuntime, EndBenchmark, OpenTxt, WriteTxt, SaveFails, Show,
         Throw, storeVars
  <2>2. at' \in {"save", "write", "show", "shown"}
    BY <1>2 DEF StagingThrows, NoRuntime, EndBenchmark, OpenTxt, WriteTxt, SaveFails, Show,
         Throw
  <2>3. QED
    BY <1>1, <2>1, <2>2, StageIdle
<1>3. CASE ListLibs
  <2>1. /\ at = "list" /\ at' = "libs" /\ todo' = package.dsp
        /\ UNCHANGED <<disk, version, package, i, copying>>
    BY <1>3 DEF ListLibs, storeVars
  <2>2. QED
    BY <2>1 DEF StageInv, BehindCall, Current
<1>4. CASE Stage
  <2>1. PICK f \in Files : Staged(f) /\ OpenCopy(f)
    BY <1>4 DEF Stage
  <2>2. /\ disk' = [disk EXCEPT ![f] = Content(version, FALSE)] /\ copying' = f
        /\ UNCHANGED <<todo, i, version, package, env>>
    BY <1>4, <2>1 DEF Stage, OpenCopy, probeVars, processVars
  <2>3. disk' \in [Files -> [of : Nat, whole : BOOLEAN]]
    BY <1>1, <2>2 DEF Content
  <2>4. \A g \in Files \ {f} : Current(g) => Current(g)'
    BY <1>1, <2>2 DEF Current
  <2>5. CASE at = "libs" /\ f \in todo
    <3>1. at' = "lib copy"
      BY <2>1, <2>5 DEF OpenCopy
    <3>2. \A g \in package.dsp \ todo : Current(g)'
      BY <1>1, <2>4, <2>5, ModelsAreFiles DEF StageInv
    <3>3. QED
      BY <1>1, <2>2, <2>3, <2>5, <3>1, <3>2 DEF StageInv, BehindCall
  <2>6. CASE at = "models" /\ i <= Len(ModelSeq) /\ f = ModelSeq[i]
    <3>1. at' = "model copy"
      BY <2>1, <2>6 DEF OpenCopy
    <3>2. i \in 1 .. Len(ModelSeq)
      BY <2>6, ModelsAreFiles DEF StageInv
    <3>3. LibsReady'
      <4>1. f \notin package.dsp
        BY <1>1, <2>6, <3>2, ModelsAreFiles, AppAssumption
      <4>2. LibsReady
        BY <2>6 DEF StageInv, BehindCall
      <4>3. QED
        BY <1>1, <2>2, <2>4, <4>1, <4>2, ModelsAreFiles DEF LibsReady
    <3>4. ModelsReady'
      <4>1. \A j \in 1 .. i - 1 : ModelSeq[j] \in Files /\ Current(ModelSeq[j])
        <5>1. copying = NoFile /\ ModelsReady
          BY <2>6 DEF StageInv
        <5>2. \A j \in 1 .. i - 1 : j \in 1 .. Len(ModelSeq)
          BY <3>2, ModelsAreFiles
        <5>3. \A j \in 1 .. i - 1 : ModelSeq[j] \in Files /\ ModelSeq[j] # NoFile
          BY <5>2, ModelsAreFiles, AppAssumption
        <5>4. QED
          BY <5>1, <5>3 DEF ModelsReady
      <4>2. QED
        BY <2>2, <2>4, <4>1 DEF ModelsReady
    <3>5. env'
      BY <2>2, <2>6 DEF StageInv, BehindCall
    <3>6. QED
      BY <1>1, <2>2, <2>3, <2>6, <3>1, <3>2, <3>3, <3>4, <3>5 DEF StageInv, BehindCall
  <2>7. QED
    BY <2>1, <2>5, <2>6 DEF Staged
<1>5. CASE EndCopy
  <2>1. /\ disk' = [disk EXCEPT ![copying] = Content(version, TRUE)]
        /\ copying' = NoFile /\ UNCHANGED <<version, package, env>>
    BY <1>5 DEF EndCopy, probeVars, processVars
  <2>2. disk' \in [Files -> [of : Nat, whole : BOOLEAN]]
    BY <1>1, <2>1 DEF Content
  <2>3. \A g \in Files : Current(g) \/ g = copying => Current(g)'
    BY <1>1, <2>1 DEF Current
  <2>4. CASE at = "lib copy"
    <3>1. at' = "libs" /\ todo' = todo \ {copying} /\ i' = i
      BY <1>5, <2>4 DEF EndCopy
    <3>2. todo \subseteq package.dsp /\ copying \in todo
          /\ \A f \in package.dsp \ todo : Current(f)
      BY <2>4 DEF StageInv
    <3>3. \A f \in package.dsp \ todo' : Current(f)'
      BY <1>1, <2>3, <3>1, <3>2, ModelsAreFiles
    <3>4. i' = 1
      BY <2>4, <3>1 DEF StageInv
    <3>5. QED
      BY <1>1, <2>1, <2>2, <3>1, <3>2, <3>3, <3>4 DEF StageInv, BehindCall
  <2>5. CASE at = "model copy"
    <3>1. at' = "models" /\ i' = i + 1
      BY <1>5, <2>5 DEF EndCopy
    <3>2. i \in 1 .. Len(ModelSeq) /\ copying = ModelSeq[i] /\ ModelsReady /\ env /\ LibsReady
      BY <2>5 DEF StageInv, BehindCall
    <3>3. LibsReady'
      BY <1>1, <2>1, <2>3, <3>2, ModelsAreFiles DEF LibsReady
    <3>4. ModelsReady'
      <4> SUFFICES ASSUME NEW j \in 1 .. i PROVE Current(ModelSeq[j])'
        BY <3>1, <3>2, ModelsAreFiles DEF ModelsReady
      <4>1. ModelSeq[j] \in Files
        BY <3>2, ModelsAreFiles
      <4>2. ModelSeq[j] = copying \/ Current(ModelSeq[j])
        <5>1. j = i \/ j \in 1 .. i - 1
          BY <3>2
        <5>2. QED
          BY <3>2, <5>1 DEF ModelsReady
      <4>3. QED
        BY <2>3, <4>1, <4>2
    <3>5. i' \in 1 .. Len(ModelSeq) + 1
      BY <3>1, <3>2, ModelsAreFiles
    <3>6. QED
      BY <1>1, <2>1, <2>2, <3>1, <3>2, <3>3, <3>4, <3>5 DEF StageInv, BehindCall
  <2>6. QED
    BY <1>5, <2>4, <2>5 DEF EndCopy, Copying
<1>6. CASE SetEnv
  <2>1. /\ at = "libs" /\ todo = {} /\ at' = "call" /\ env'
        /\ UNCHANGED <<disk, version, package, todo, copying, i>>
    BY <1>6 DEF SetEnv, storeVars, localVars
  <2>2. LibsReady'
    BY <2>1 DEF StageInv, LibsReady, Current
  <2>3. QED
    BY <2>1, <2>2 DEF StageInv, BehindCall
<1>7. CASE RunProbe \/ InProbe \/ ProbeReturns
  <2>1. /\ at \in {"call", "probe"} /\ at' \in {"probe", "models"}
        /\ UNCHANGED <<disk, version, package, todo, copying, i>>
    BY <1>7 DEF RunProbe, InProbe, ProbeReturns, storeVars, localVars
  <2>2. env /\ LibsReady /\ i = 1 /\ copying = NoFile
    BY <2>1 DEF StageInv, BehindCall
  <2>3. env'
    <3>1. CASE RunProbe \/ ProbeReturns
      BY <2>2, <3>1 DEF RunProbe, CallProbe, ProbeReturns, ReturnFromProbe, processVars
    <3>2. CASE InProbe
      BY <2>2, <3>2 DEF InProbe, ProbeStep, Domain, Heading, ProbeNode, Library, Load,
           Control, NotExported, SetPath, OpenHandle, Verdict, Quiet, processVars
    <3>3. QED
      BY <1>7, <3>1, <3>2
  <2>4. LibsReady'
    BY <2>1, <2>2 DEF LibsReady, Current
  <2>5. ModelsReady' /\ i' \in 1 .. Len(ModelSeq) + 1
    BY <2>1, <2>2, ModelsAreFiles DEF ModelsReady
  <2>6. QED
    BY <1>1, <2>1, <2>2, <2>3, <2>4, <2>5 DEF StageInv, BehindCall
<1>8. CASE StartBenchmark
  <2>1. /\ at = "models" /\ i > Len(ModelSeq) /\ at' = "bench"
        /\ UNCHANGED <<disk, version, package, env>>
    BY <1>8 DEF StartBenchmark, AllStaged, storeVars, probeVars, processVars
  <2>2. env /\ LibsReady /\ copying = NoFile /\ i \in 1 .. Len(ModelSeq) + 1 /\ ModelsReady
    BY <2>1 DEF StageInv, BehindCall
  <2>3. LibsReady'
    BY <2>1, <2>2 DEF LibsReady, Current
  <2>4. (\A f \in ModelFiles : Current(f))'
    <3> SUFFICES ASSUME NEW f \in ModelFiles PROVE Current(f)
      BY <2>1 DEF Current
    <3>1. PICK j \in 1 .. Len(ModelSeq) : f = ModelSeq[j]
      BY ModelsAreFiles
    <3>2. j \in 1 .. i - 1
      BY <2>1, <2>2, ModelsAreFiles
    <3>3. ModelSeq[j] # copying
      BY <2>2, <3>1, ModelsAreFiles, AppAssumption
    <3>4. QED
      BY <2>2, <3>1, <3>2, <3>3 DEF ModelsReady
  <2>5. QED
    BY <1>1, <2>1, <2>2, <2>3, <2>4 DEF StageInv, BehindCall
<1>9. CASE TimeModel \/ TimingFails
  <2>1. at = "bench" /\ at' = at /\ UNCHANGED <<disk, version, package, env>>
    BY <1>9 DEF TimeModel, TimingFails, Timed, storeVars, probeVars, processVars
  <2>2. QED
    BY <2>1 DEF StageInv, BehindCall, LibsReady, Current
<1>10. QED
  BY <1>2, <1>3, <1>4, <1>5, <1>6, <1>7, <1>8, <1>9 DEF OnCreate

(* Whenever a handle or a session is opened, every library of the package  *)
(* and, for a session, every model is on disk whole and of this build,     *)
(* whatever kills and updates there have been, and the loader knows where. *)
THEOREM LoadersFindFiles == Spec => []LoadsStagedFiles
<1>1. Init => StageInv
  BY AppAssumption DEF Init, ProbeInit, StageInv, BehindCall, Absent, Content
<1>2. StageInv /\ [Next]_vars => StageInv'
  <2> SUFFICES ASSUME StageInv, [Next]_vars PROVE StageInv'
    OBVIOUS
  <2>1. CASE OnCreate
    BY <2>1, StageStep
  <2>2. CASE Kill \/ Install
    <3>1. disk' = disk /\ at' = "off"
      BY <2>2 DEF Kill, Install, ProcessGone
    <3>2. version \in Nat /\ package \in Packages
      BY DEF StageInv
    <3>3. version' \in Nat /\ package' \in Packages
      <4>1. CASE Kill
        BY <3>2, <4>1 DEF Kill
      <4>2. CASE Install
        BY <3>2, <4>2 DEF Install
      <4>3. QED
        BY <2>2, <4>1, <4>2
    <3>4. QED
      BY <3>1, <3>3, StageIdle
  <2>3. CASE Launch
    <3>1. /\ at' = "list" /\ i' = 1 /\ copying' = NoFile
          /\ UNCHANGED <<disk, version, package>>
      BY <2>3 DEF Launch, storeVars
    <3>2. QED
      BY <3>1 DEF StageInv, BehindCall
  <2>4. CASE UNCHANGED vars
    <3>1. UNCHANGED <<disk, version, package, at, todo, copying, i, env>>
      BY <2>4 DEF vars, storeVars, localVars, probeVars, processVars
    <3>2. QED
      BY <3>1 DEF StageInv, BehindCall, LibsReady, ModelsReady, Current
  <2>5. QED
    BY <2>1, <2>2, <2>3, <2>4 DEF Next
<1>3. StageInv => LoadsStagedFiles
  BY DEF StageInv, BehindCall, LibsReady, LoadsStagedFiles
<1>4. QED
  BY <1>1, <1>2, <1>3, PTL DEF Spec

-----------------------------------------------------------------------------
(* probe.txt holds this launch's report from the moment it is written, and *)
(* nothing of another one when it is.                                      *)
SavedInv ==
  /\ report \in Seq(Sections)
  /\ i \in Nat \ {0} /\ on \in {"npu", "cpu"}
  /\ at = "write" => txt.report = <<>>
  /\ at = "show" /\ ~unsaved => txt = [report |-> report, whole |-> TRUE]
  /\ at = "shown" /\ ~unsaved => txt = [report |-> screen, whole |-> TRUE]

LEMMA SavedStep ==
  ASSUME SavedInv, Next
  PROVE  SavedInv'
<1>1. report \in Seq(Sections) /\ i \in Nat \ {0} /\ on \in {"npu", "cpu"}
  BY DEF SavedInv
<1>2. ProbeSection \in Seq(Sections) /\ Threw \in Seq(Sections) /\ NoReport \in Seq(Sections)
  BY DEF ProbeSection, Threw, NoReport, Sections
<1>3. CASE Launch \/ Kill \/ Install
  BY <1>2, <1>3 DEF Launch, Kill, Install, ProcessGone, SavedInv
<1>4. CASE ListLibs \/ Stage \/ SetEnv \/ RunProbe \/ InProbe
  <2>1. UNCHANGED <<report, on>> /\ i' = i
    BY <1>4 DEF ListLibs, Stage, OpenCopy, SetEnv, RunProbe, InProbe, localVars
  <2>2. at' \notin {"write", "show", "shown"}
    BY <1>4 DEF ListLibs, Stage, OpenCopy, SetEnv, RunProbe, InProbe
  <2>3. QED
    BY <1>1, <2>1, <2>2 DEF SavedInv
<1>5. CASE EndCopy \/ StartBenchmark
  <2>1. report' = report /\ on' \in {"npu", "cpu"}
    BY <1>1, <1>5 DEF EndCopy, StartBenchmark
  <2>2. i' \in {i, i + 1, 1}
    BY <1>5 DEF EndCopy, StartBenchmark
  <2>3. at' \notin {"write", "show", "shown"}
    BY <1>5 DEF EndCopy, StartBenchmark
  <2>4. QED
    BY <1>1, <2>1, <2>2, <2>3 DEF SavedInv
<1>6. CASE StagingThrows \/ NoRuntime \/ ProbeReturns
  BY <1>1, <1>2, <1>6 DEF StagingThrows, NoRuntime, Throw, ProbeReturns, SavedInv
<1>7. CASE TimeModel \/ TimingFails
  <2>1. /\ at = "bench" /\ at' = at /\ i <= Len(ModelSeq)
        /\ report' = Append(report, Timing(ModelSeq[i], on))
        /\ i' = NextTiming.i /\ on' = NextTiming.on
    BY <1>7 DEF TimeModel, TimingFails, Timed
  <2>2. Timing(ModelSeq[i], on) \in Sections
    <3>1. ModelSeq[i] \in ModelFiles
      BY <1>1, <2>1, ModelsAreFiles
    <3>2. QED
      BY <1>1, <3>1 DEF Timing, Sections
  <2>3. report' \in Seq(Sections)
    BY <1>1, <2>1, <2>2
  <2>4. i' \in Nat \ {0} /\ on' \in {"npu", "cpu"}
    BY <1>1, <2>1 DEF NextTiming
  <2>5. QED
    BY <2>1, <2>3, <2>4 DEF SavedInv
<1>8. CASE EndBenchmark
  BY <1>1, <1>8 DEF EndBenchmark, localVars, SavedInv
<1>9. CASE OpenTxt
  BY <1>1, <1>9 DEF OpenTxt, Truncated, NoReport, localVars, SavedInv
<1>10. CASE WriteTxt
  <2>1. txt.report \o report = report
    <3>1. txt.report = <<>>
      BY <1>10 DEF WriteTxt, SavedInv
    <3>2. <<>> \o report = report
      BY <1>1
    <3>3. QED
      BY <3>1, <3>2
  <2>2. txt' = [report |-> report, whole |-> TRUE] /\ at' = "show" /\ UNCHANGED localVars
    BY <1>10, <2>1 DEF WriteTxt
  <2>3. QED
    BY <1>1, <2>2 DEF localVars, SavedInv
<1>11. CASE SaveFails
  BY <1>1, <1>11 DEF SaveFails, SavedInv
<1>12. CASE Show
  <2>1. at = "show" /\ at' = "shown" /\ screen' = report
        /\ UNCHANGED <<txt, i, on, report, unsaved>>
    BY <1>12 DEF Show, storeVars
  <2>2. QED
    BY <1>1, <2>1 DEF SavedInv
<1>13. QED
  BY <1>3, <1>4, <1>5, <1>6, <1>7, <1>8, <1>9, <1>10, <1>11, <1>12 DEF Next, OnCreate

(* When a report is shown and could be saved, probe.txt holds that report  *)
(* and nothing else, whatever earlier launches left in the file.           *)
THEOREM SavedReportIsShown == Spec => []SavedIsShown
<1>1. Init => SavedInv
  BY DEF Init, SavedInv, NoReport
<1>2. SavedInv /\ [Next]_vars => SavedInv'
  <2> SUFFICES ASSUME SavedInv, [Next]_vars PROVE SavedInv'
    OBVIOUS
  <2>1. CASE Next
    BY <2>1, SavedStep
  <2>2. CASE UNCHANGED vars
    BY <2>2 DEF vars, storeVars, localVars, SavedInv
  <2>3. QED
    BY <2>1, <2>2
<1>3. SavedInv => SavedIsShown
  BY DEF SavedInv, SavedIsShown
<1>4. QED
  BY <1>1, <1>2, <1>3, PTL DEF Spec
-----------------------------------------------------------------------------
(* The timings made are those of the models before the one whose turn it   *)
(* is, each on both processors, and of that one on the NPU when it is      *)
(* about to run on the CPU; the report has the probe and these.            *)
SectionAt(j) == Timing(ModelSeq[(j + 1) \div 2], IF j % 2 = 1 THEN "npu" ELSE "cpu")

TimingsMade == 2 * (i - 1) + IF on = "cpu" THEN 1 ELSE 0

ReportSoFar ==
  /\ Len(report) = 1 + TimingsMade
  /\ report[1] = "probe"
  /\ \A j \in 1 .. TimingsMade : report[j + 1] = SectionAt(j)

Preparing == {"list", "libs", "lib copy", "call", "probe", "models", "model copy"}
Reporting == {"save", "write", "show", "shown"}

ReportInv ==
  /\ report \in Seq(Sections)
  /\ at \in Preparing \cup {"bench"} => ~unstaged
  /\ at \in {"models", "model copy"} => report = ProbeSection
  /\ at = "bench" =>
       /\ i \in 1 .. Len(ModelSeq) + 1 /\ on \in {"npu", "cpu"}
       /\ on = "cpu" => i <= Len(ModelSeq)
       /\ ReportSoFar
  /\ at \in Reporting => report = IF unstaged THEN Threw ELSE FullReport

LEMMA SectionsOfReports ==
  /\ ProbeSection \in Seq(Sections) /\ Len(ProbeSection) = 1 /\ ProbeSection[1] = "probe"
  /\ Threw \in Seq(Sections) /\ NoReport \in Seq(Sections)
  /\ \A j \in 1 .. 2 * Len(ModelSeq) : SectionAt(j) \in Sections
<1>1. ProbeSection \in Seq(Sections) /\ Len(ProbeSection) = 1 /\ ProbeSection[1] = "probe"
      /\ Threw \in Seq(Sections) /\ NoReport \in Seq(Sections)
  BY DEF ProbeSection, Threw, NoReport, Sections
<1>2. ASSUME NEW j \in 1 .. 2 * Len(ModelSeq) PROVE SectionAt(j) \in Sections
  <2>1. (j + 1) \div 2 \in 1 .. Len(ModelSeq)
    BY ModelsAreFiles
  <2>2. ModelSeq[(j + 1) \div 2] \in ModelFiles
    BY <2>1, ModelsAreFiles
  <2>3. QED
    BY <2>2 DEF SectionAt, Timing, Sections
<1>3. QED
  BY <1>1, <1>2

(* With every timing made the report is the full one.                      *)
LEMMA ReportIsFull ==
  ASSUME report \in Seq(Sections), ReportSoFar, TimingsMade = 2 * Len(ModelSeq)
  PROVE  report = FullReport
<1> DEFINE n == 2 * Len(ModelSeq)
           times == [j \in 1 .. n |-> SectionAt(j)]
<1>1. n \in Nat
  BY ModelsAreFiles
<1>2. times \in Seq(Sections) /\ Len(times) = n /\ \A j \in 1 .. n : times[j] = SectionAt(j)
  <2>1. times \in [1 .. n -> Sections]
    BY SectionsOfReports
  <2>2. QED
    BY <1>1, <2>1
<1>3. FullReport = ProbeSection \o times
  BY DEF FullReport, SectionAt
<1> HIDE DEF n, times
<1>4. /\ FullReport \in Seq(Sections) /\ Len(FullReport) = 1 + n
      /\ \A j \in 1 .. 1 + n :
           FullReport[j] = IF j <= 1 THEN ProbeSection[j] ELSE times[j - 1]
  <2> DEFINE p == ProbeSection
  <2>1. p \in Seq(Sections) /\ Len(p) = 1
    BY SectionsOfReports
  <2> HIDE DEF p
  <2>2. /\ p \o times \in Seq(Sections) /\ Len(p \o times) = Len(p) + Len(times)
        /\ \A j \in 1 .. Len(p) + Len(times) :
             (p \o times)[j] = IF j <= Len(p) THEN p[j] ELSE times[j - Len(p)]
    BY <1>2, <2>1, ConcatProperties
  <2>3. FullReport = p \o times
    BY <1>3 DEF p
  <2>4. QED
    BY <1>1, <1>2, <2>1, <2>2, <2>3 DEF p
<1>5. Len(report) = 1 + n /\ report[1] = "probe" /\ \A j \in 1 .. n : report[j + 1] = SectionAt(j)
  <2>1. TimingsMade = n
    BY DEF n
  <2>2. QED
    BY <2>1 DEF ReportSoFar
<1>6. ASSUME NEW j \in 1 .. Len(report) PROVE report[j] = FullReport[j]
  <2>1. CASE j = 1
    BY <1>1, <1>4, <1>5, <2>1, SectionsOfReports
  <2>2. CASE j # 1
    <3>1. j - 1 \in 1 .. n /\ (j - 1) + 1 = j /\ j \in 1 .. 1 + n /\ ~(j <= 1)
      BY <1>1, <1>5, <2>2
    <3>2. report[(j - 1) + 1] = SectionAt(j - 1)
      BY <1>5, <3>1
    <3>3. FullReport[j] = times[j - 1]
      BY <1>4, <3>1
    <3>4. times[j - 1] = SectionAt(j - 1)
      BY <1>2, <3>1
    <3>5. QED
      BY <3>1, <3>2, <3>3, <3>4
  <2>3. QED
    BY <2>1, <2>2
<1>7. QED
  BY <1>4, <1>5, <1>6, SeqEqual

(* A timing, whether it fails or not, adds the next section to the report. *)
LEMMA TimingStep ==
  ASSUME ReportInv, TimeModel \/ TimingFails
  PROVE  ReportInv'
<1>1. /\ at = "bench" /\ at' = at /\ i <= Len(ModelSeq) /\ unstaged' = unstaged
      /\ report' = Append(report, Timing(ModelSeq[i], on))
      /\ i' = NextTiming.i /\ on' = NextTiming.on
  BY DEF TimeModel, TimingFails, Timed
<1>2. /\ report \in Seq(Sections) /\ i \in 1 .. Len(ModelSeq) + 1 /\ on \in {"npu", "cpu"}
      /\ Len(report) = 1 + TimingsMade /\ report[1] = "probe" /\ ~unstaged
      /\ \A j \in 1 .. TimingsMade : report[j + 1] = SectionAt(j)
  BY <1>1 DEF ReportInv, ReportSoFar
<1>3. TimingsMade \in Nat /\ TimingsMade + 1 \in 1 .. 2 * Len(ModelSeq)
  BY <1>1, <1>2, ModelsAreFiles DEF TimingsMade
<1>4. /\ i' \in 1 .. Len(ModelSeq) + 1 /\ on' \in {"npu", "cpu"}
      /\ on' = "cpu" => i' <= Len(ModelSeq)
      /\ TimingsMade' = TimingsMade + 1
  BY <1>1, <1>2, ModelsAreFiles DEF NextTiming, TimingsMade
<1>5. Timing(ModelSeq[i], on) = SectionAt(TimingsMade + 1)
  <2>1. CASE on = "npu"
    <3>1. TimingsMade = 2 * (i - 1)
      BY <1>2, <2>1 DEF TimingsMade
    <3>2. (TimingsMade + 1 + 1) \div 2 = i /\ (TimingsMade + 1) % 2 = 1
      BY <1>2, <3>1
    <3>3. QED
      BY <2>1, <3>2 DEF SectionAt
  <2>2. CASE on = "cpu"
    <3>1. TimingsMade = 2 * (i - 1) + 1
      BY <1>2, <2>2 DEF TimingsMade
    <3>2. (TimingsMade + 1 + 1) \div 2 = i /\ (TimingsMade + 1) % 2 = 0
      BY <1>2, <3>1
    <3>3. QED
      BY <2>2, <3>2 DEF SectionAt
  <2>3. QED
    BY <1>2, <2>1, <2>2
<1>6. SectionAt(TimingsMade + 1) \in Sections
  BY <1>3, SectionsOfReports
<1> DEFINE k == TimingsMade
<1> HIDE DEF k
<1>7. /\ report' \in Seq(Sections) /\ Len(report') = k + 2
      /\ \A j \in 1 .. k + 1 : report'[j] = report[j]
      /\ report'[k + 2] = SectionAt(k + 1)
  <2>1. Len(report) = 1 + k /\ report' = Append(report, SectionAt(k + 1)) /\ k \in Nat
    BY <1>1, <1>2, <1>3, <1>5 DEF k
  <2>2. SectionAt(k + 1) \in Sections
    BY <1>6 DEF k
  <2>3. QED
    BY <1>2, <2>1, <2>2, AppendProperties
<1>8. ReportSoFar'
  <2>1. k \in Nat /\ TimingsMade' = k + 1
    BY <1>3, <1>4 DEF k
  <2>2. report'[1] = "probe"
    BY <1>2, <1>7, <2>1
  <2>3. ASSUME NEW j \in 1 .. k + 1 PROVE report'[j + 1] = SectionAt(j)
    <3>1. CASE j = k + 1
      <4>1. j + 1 = k + 2
        BY <2>1, <3>1
      <4>2. QED
        BY <1>7, <3>1, <4>1
    <3>2. CASE j # k + 1
      <4>1. j \in 1 .. k /\ j + 1 \in 1 .. k + 1
        BY <2>1, <3>2
      <4>2. report[j + 1] = SectionAt(j)
        BY <1>2, <4>1 DEF k
      <4>3. QED
        BY <1>7, <4>1, <4>2
    <3>3. QED
      BY <3>1, <3>2
  <2>4. Len(report') = 1 + (k + 1)
    BY <1>7, <2>1
  <2>5. QED
    BY <2>1, <2>2, <2>3, <2>4 DEF ReportSoFar, SectionAt
<1>9. QED
  BY <1>1, <1>2, <1>4, <1>7, <1>8 DEF ReportInv, Preparing, Reporting

LEMMA ReportStep ==
  ASSUME ReportInv, Next
  PROVE  ReportInv'
<1>1. report \in Seq(Sections)
  BY DEF ReportInv
<1>2. CASE Launch \/ Kill \/ Install
  <2>1. report' = NoReport /\ unstaged' = FALSE /\ at' \in {"list", "off"}
    BY <1>2 DEF Launch, Kill, Install, ProcessGone
  <2>2. QED
    BY <2>1, SectionsOfReports DEF ReportInv, Preparing, Reporting
<1>3. CASE ListLibs \/ SetEnv \/ RunProbe \/ InProbe
  <2>1. UNCHANGED <<report, unstaged>>
    BY <1>3 DEF ListLibs, SetEnv, RunProbe, InProbe, localVars
  <2>2. at \in Preparing /\ at' \in {"libs", "call", "probe"}
    BY <1>3 DEF ListLibs, SetEnv, RunProbe, InProbe, Preparing
  <2>3. QED
    BY <1>1, <2>1, <2>2 DEF ReportInv, Preparing, Reporting
<1>4. CASE Stage \/ EndCopy
  <2>1. UNCHANGED <<report, unstaged>>
    BY <1>4 DEF Stage, EndCopy
  <2>2. \/ at \in {"libs", "lib copy"} /\ at' \in {"libs", "lib copy"}
        \/ at \in {"models", "model copy"} /\ at' \in {"models", "model copy"}
    BY <1>4 DEF Stage, Staged, OpenCopy, EndCopy, Copying
  <2>3. QED
    BY <1>1, <2>1, <2>2 DEF ReportInv, Preparing, Reporting
<1>5. CASE StagingThrows \/ NoRuntime
  <2>1. report' = Threw /\ unstaged' = TRUE /\ at' = "save"
    BY <1>5 DEF StagingThrows, NoRuntime, Throw
  <2>2. QED
    BY <2>1, SectionsOfReports DEF ReportInv, Preparing, Reporting
<1>6. CASE ProbeReturns
  <2>1. at = "probe" /\ at' = "models" /\ report' = ProbeSection /\ unstaged' = unstaged
    BY <1>6 DEF ProbeReturns
  <2>2. QED
    BY <2>1, SectionsOfReports DEF ReportInv, Preparing, Reporting
<1>7. CASE StartBenchmark
  <2>1. /\ at = "models" /\ at' = "bench" /\ i' = 1 /\ on' = "npu"
        /\ UNCHANGED <<report, unstaged>>
    BY <1>7 DEF StartBenchmark, AllStaged
  <2>2. report = ProbeSection /\ ~unstaged
    BY <2>1 DEF ReportInv, Preparing
  <2>3. TimingsMade' = 0
    BY <2>1 DEF TimingsMade
  <2>4. ReportSoFar'
    BY <2>1, <2>2, <2>3, SectionsOfReports DEF ReportSoFar
  <2>5. 1 \in 1 .. Len(ModelSeq) + 1
    BY ModelsAreFiles
  <2>6. QED
    BY <1>1, <2>1, <2>2, <2>4, <2>5 DEF ReportInv, Preparing, Reporting
<1>8. CASE TimeModel \/ TimingFails
  BY <1>8, TimingStep
<1>9. CASE EndBenchmark
  <2>1. /\ at = "bench" /\ at' = "save" /\ i > Len(ModelSeq)
        /\ UNCHANGED <<report, unstaged>>
    BY <1>9 DEF EndBenchmark, localVars
  <2>2. /\ i \in 1 .. Len(ModelSeq) + 1 /\ on \in {"npu", "cpu"} /\ ReportSoFar /\ ~unstaged
        /\ on = "cpu" => i <= Len(ModelSeq)
    BY <2>1 DEF ReportInv
  <2>3. TimingsMade = 2 * Len(ModelSeq)
    BY <2>1, <2>2, ModelsAreFiles DEF TimingsMade
  <2>4. report = FullReport
    BY <1>1, <2>2, <2>3, ReportIsFull
  <2>5. FullReport' = FullReport
    BY DEF FullReport
  <2>6. QED
    BY <1>1, <2>1, <2>2, <2>4, <2>5 DEF ReportInv, Preparing, Reporting
<1>10. CASE OpenTxt \/ WriteTxt \/ SaveFails \/ Show
  <2>1. at \in Reporting /\ at' \in Reporting /\ UNCHANGED <<report, unstaged>>
    BY <1>10 DEF OpenTxt, WriteTxt, SaveFails, Show, Reporting, localVars
  <2>2. FullReport' = FullReport
    BY DEF FullReport
  <2>3. QED
    BY <1>1, <2>1, <2>2 DEF ReportInv, Preparing, Reporting
<1>11. QED
  BY <1>2, <1>3, <1>4, <1>5, <1>6, <1>7, <1>8, <1>9, <1>10 DEF Next, OnCreate

(* A report that is saved or shown has the probe and every model on both   *)
(* processors, whichever of them failed, unless a file could not be staged *)
(* or ORT not be started; however many models there are.                   *)
THEOREM FailuresContained == Spec => []FailureContained
<1>1. Init => ReportInv
  BY SectionsOfReports DEF Init, ReportInv, Preparing, Reporting
<1>2. ReportInv /\ [Next]_vars => ReportInv'
  <2> SUFFICES ASSUME ReportInv, [Next]_vars PROVE ReportInv'
    OBVIOUS
  <2>1. CASE Next
    BY <2>1, ReportStep
  <2>2. CASE UNCHANGED vars
    BY <2>2 DEF vars, localVars, ReportInv, ReportSoFar, TimingsMade, SectionAt, FullReport
  <2>3. QED
    BY <2>1, <2>2
<1>3. ReportInv => FailureContained
  BY DEF ReportInv, Reporting, FailureContained
<1>4. QED
  BY <1>1, <1>2, <1>3, PTL DEF Spec
-----------------------------------------------------------------------------
(* The types of the probe, the line counter among them: fourteen lines are *)
(* the longest report, and fill less than the buffer.                      *)
LEMMA ProbeTypesStep ==
  ASSUME ProbeTypes, SinkInv, SinkInv', ProbeStep
  PROVE  ProbeTypes'
<1>1. /\ device' = device /\ node' \in {node, node + 1}
      /\ step' \in {"heading", "nodes", "library", "load", "control", "resolve", "open",
                    "verdict", "done"}
  BY DEF ProbeStep, Domain, Heading, ProbeNode, Library, Load, Control, NotExported, SetPath,
       OpenHandle, Verdict, Quiet, Line
<1>2. emitted' = emitted + 1
  BY DEF ProbeStep, Domain, Heading, ProbeNode, Library, Load, Control, NotExported, SetPath,
       OpenHandle, Verdict, Line, Emit
<1>3. step # "idle" /\ step # "done"
  BY DEF ProbeStep, Domain, Heading, ProbeNode, Library, Load, Control, NotExported, SetPath,
       OpenHandle, Verdict, Line
<1>4. emitted \in 0 .. 13
  BY <1>3 DEF ProbeTypes, SinkInv, LinesAt
<1>5. emitted' \in 0 .. MaxLines
  BY <1>2, <1>4 DEF MaxLines
<1>6. node' \in 0 .. NodeOpens
  <2>1. CASE ProbeNode
    BY <2>1 DEF ProbeNode, Line, SinkInv, LinesAt, NodeOpens
  <2>2. CASE ~ProbeNode
    <3>1. node' = node
      BY <2>2 DEF ProbeStep, Domain, Heading, Library, Load, Control, NotExported, SetPath,
           OpenHandle, Verdict, Quiet
    <3>2. QED
      BY <3>1 DEF ProbeTypes
  <2>3. QED
    BY <2>1, <2>2
<1>7. len' \in 0 .. Cap - 1 /\ kept' \in Nat
  <2> DEFINE L == LineMax + 1
  <2>1. L \in Nat /\ 14 * L + 1 < Cap /\ Cap \in Nat
    BY ProbeAssumption DEF MaxLines
  <2>2. emitted' \in 0 .. 14 /\ len' \in Nat /\ len' <= emitted' * L /\ kept' = emitted'
    BY <1>5 DEF SinkInv, MaxLines
  <2> HIDE DEF L
  <2>3. emitted' * L <= 14 * L
    <3>1. \A a, b, c \in Nat : a <= b => a * c <= b * c
      OBVIOUS
    <3>2. emitted' \in Nat /\ emitted' <= 14
      BY <2>2
    <3>3. QED
      BY <2>1, <3>1, <3>2
  <2>4. len' <= 14 * L
    <3>1. \A a, b \in Nat : a * b \in Nat
      OBVIOUS
    <3>2. emitted' \in Nat
      BY <2>2
    <3>3. emitted' * L \in Nat /\ 14 * L \in Nat
      BY <2>1, <3>1, <3>2
    <3>4. \A a, b, c \in Nat : a <= b /\ b <= c => a <= c
      OBVIOUS
    <3>5. QED
      BY <2>2, <2>3, <3>3, <3>4
  <2>5. QED
    BY <2>1, <2>2, <2>4
<1>8. env' \in BOOLEAN
  <2>1. env' = env \/ env' = TRUE
    BY DEF ProbeStep, Domain, Heading, ProbeNode, Library, Load, Control, NotExported,
         SetPath, OpenHandle, Verdict, Quiet, processVars
  <2>2. QED
    BY <2>1 DEF ProbeTypes
<1>9. pd' \in {"untried", "enabled", "refused"} /\ handles' \in Nat
  <2>1. pd' \in {pd, "enabled", "refused"} /\ handles' \in {handles, handles + 1}
    BY DEF ProbeStep, Domain, Heading, ProbeNode, Library, Load, Control, NotExported,
         SetPath, OpenHandle, Verdict, Quiet, processVars
  <2>2. QED
    BY <2>1 DEF ProbeTypes
<1>10. QED
  BY <1>1, <1>5, <1>6, <1>7, <1>8, <1>9 DEF ProbeTypes

LEMMA EmptySinkTyped == 0 \in 0 .. Cap - 1 /\ 0 \in 0 .. MaxLines /\ 0 \in 0 .. NodeOpens
<1> DEFINE L == LineMax + 1
<1>1. L \in Nat /\ 14 * L + 1 < Cap /\ Cap \in Nat
  BY ProbeAssumption DEF MaxLines
<1> HIDE DEF L
<1>2. Cap > 0
  BY <1>1
<1>3. QED
  BY <1>1, <1>2 DEF MaxLines, NodeOpens

(* No index is taken beyond the last model.                                *)
TypeInv ==
  /\ TypeOK
  /\ Copying => copying \in Files
  /\ at = "model copy" => i <= Len(ModelSeq)
  /\ at = "bench" /\ on = "cpu" => i <= Len(ModelSeq)

LEMMA ProbeTypesKept ==
  ASSUME TypeInv, SinkInv, SinkInv', [Next]_vars
  PROVE  ProbeTypes'
<1>1. ProbeTypes
  BY DEF TypeInv, TypeOK
<1>2. CASE Kill \/ Install
  <2>1. /\ step' = "idle" /\ node' = 0 /\ emitted' = 0 /\ len' = 0 /\ kept' = 0
        /\ device' = device /\ env' = FALSE /\ pd' = "untried" /\ handles' = 0
    BY <1>2 DEF Kill, Install, ProcessGone, FrameGone, ProcessEnds
  <2>2. QED
    BY <1>1, <2>1, EmptySinkTyped DEF ProbeTypes
<1>3. CASE ProbeReturns \/ RunProbe
  BY <1>1, <1>3, EmptySinkTyped
     DEF ProbeReturns, RunProbe, ReturnFromProbe, CallProbe, FrameGone, ProbeTypes, sinkVars,
         processVars
<1>4. CASE InProbe
  BY <1>1, <1>4, ProbeTypesStep DEF InProbe
<1>5. CASE SetEnv
  BY <1>1, <1>5 DEF SetEnv, ProbeTypes, sinkVars
<1>6. CASE \/ Launch \/ ListLibs \/ Stage \/ EndCopy \/ StagingThrows
           \/ StartBenchmark \/ NoRuntime \/ TimeModel \/ TimingFails \/ EndBenchmark
           \/ OpenTxt \/ WriteTxt \/ SaveFails \/ Show \/ UNCHANGED vars
  <2>1. UNCHANGED probeVars
    BY <1>6 DEF Launch, ListLibs, Stage, EndCopy, StagingThrows, StartBenchmark,
         NoRuntime, TimeModel, TimingFails, Timed, EndBenchmark, OpenTxt, WriteTxt,
         SaveFails, Show, Throw, vars
  <2>2. QED
    BY <1>1, <2>1 DEF probeVars, sinkVars, processVars, ProbeTypes
<1>7. QED
  BY <1>2, <1>3, <1>4, <1>5, <1>6 DEF Next, OnCreate

(* What is on disk and installed. *)
StoreTypes ==
  /\ package \in Packages /\ version \in 1 .. MaxVersion
  /\ disk \in [Files -> Contents]

LEMMA StoreTypesKept ==
  ASSUME TypeInv, [Next]_vars
  PROVE  StoreTypes'
<1>1. /\ package \in Packages /\ version \in 1 .. MaxVersion /\ MaxVersion \in Nat
      /\ disk \in [Files -> Contents] /\ copying \in Files \cup {NoFile}
      /\ Copying => copying \in Files
  BY AppAssumption DEF TypeInv, TypeOK
<1>2. CASE Install
  <2>1. /\ package' \in Packages /\ version' = version + 1 /\ version < MaxVersion
        /\ disk' = disk
    BY <1>2 DEF Install, ProcessGone
  <2>2. Contents \subseteq Contents'
    BY <1>1, <2>1 DEF Contents, Absent, Content
  <2>3. QED
    BY <1>1, <2>1, <2>2 DEF StoreTypes
<1>3. CASE Stage \/ EndCopy
  <2>1. UNCHANGED <<package, version>>
    BY <1>3 DEF Stage, EndCopy
  <2>2. \E f \in Files, w \in BOOLEAN : disk' = [disk EXCEPT ![f] = Content(version, w)]
    BY <1>1, <1>3 DEF Stage, OpenCopy, EndCopy
  <2>3. \A w \in BOOLEAN : Content(version, w) \in Contents
    BY <1>1 DEF Content, Contents
  <2>4. disk' \in [Files -> Contents]
    BY <1>1, <2>2, <2>3
  <2>5. Contents' = Contents
    BY <2>1 DEF Contents, Absent, Content
  <2>6. QED
    BY <1>1, <2>1, <2>4, <2>5 DEF StoreTypes
<1>4. CASE ~Install /\ ~Stage /\ ~EndCopy
  <2>1. UNCHANGED <<package, version, disk>>
    BY <1>4 DEF Next, OnCreate, Launch, Kill, ProcessGone, ListLibs, StagingThrows, SetEnv,
         RunProbe, InProbe, ProbeReturns, StartBenchmark, NoRuntime, TimeModel, TimingFails,
         Timed, EndBenchmark, OpenTxt, WriteTxt, SaveFails, Show, Throw, vars, storeVars
  <2>2. Contents' = Contents
    BY <2>1 DEF Contents, Absent, Content
  <2>3. QED
    BY <1>1, <2>1, <2>2 DEF StoreTypes
<1>5. QED
  BY <1>2, <1>3, <1>4

(* The variables of onCreate. *)
Places == {"off", "list", "libs", "lib copy", "call", "probe", "models", "model copy",
           "bench", "save", "write", "show", "shown"}

LocalTypes ==
  /\ txt.report \in Seq(Sections) /\ txt.whole \in BOOLEAN
  /\ at \in Places
  /\ todo \subseteq Libs /\ copying \in Files \cup {NoFile}
  /\ i \in 1 .. Len(ModelSeq) + 1 /\ on \in {"npu", "cpu"}
  /\ report \in Seq(Sections) /\ screen \in Seq(Sections)
  /\ unstaged \in BOOLEAN /\ unsaved \in BOOLEAN
  /\ launches \in 0 .. MaxLaunches
  /\ Copying => copying \in Files
  /\ at = "model copy" => i <= Len(ModelSeq)
  /\ at = "bench" /\ on = "cpu" => i <= Len(ModelSeq)

LEMMA LocalTypesKept ==
  ASSUME LocalTypes, package \in Packages, [Next]_vars
  PROVE  LocalTypes'
<1>0. package.dsp \subseteq Libs
  BY AppAssumption
<1>1. Len(ModelSeq) \in Nat /\ MaxLaunches \in Nat
  BY AppAssumption, ModelsAreFiles
<1>2. 1 \in 1 .. Len(ModelSeq) + 1
  BY <1>1
<1>3. CASE Launch
  <2>1. launches' \in 0 .. MaxLaunches
    <3>1. launches \in 0 .. MaxLaunches
      BY DEF LocalTypes
    <3>2. launches < MaxLaunches /\ launches' = launches + 1
      BY <1>3 DEF Launch
    <3>3. QED
      BY <1>1, <3>1, <3>2
  <2>2. QED
    <3>1. /\ at' = "list" /\ txt' = txt /\ todo' = {} /\ copying' = NoFile /\ i' = 1
          /\ on' = "npu" /\ report' = NoReport /\ screen' = NoReport
          /\ unstaged' = FALSE /\ unsaved' = FALSE
      BY <1>3 DEF Launch, storeVars
    <3>2. txt.report \in Seq(Sections) /\ txt.whole \in BOOLEAN
      BY DEF LocalTypes
    <3>3. QED
      BY <1>2, <2>1, <3>1, <3>2, SectionsOfReports DEF LocalTypes, Places, Copying
<1>4. CASE Kill \/ Install
  BY <1>2, <1>4, SectionsOfReports
     DEF Kill, Install, ProcessGone, LocalTypes, Places, Copying
<1>5. CASE ListLibs \/ SetEnv \/ RunProbe \/ InProbe \/ EndBenchmark
  BY <1>1, <1>0, <1>5 DEF ListLibs, SetEnv, RunProbe, InProbe, EndBenchmark, storeVars, localVars,
       LocalTypes, Places, Copying
<1>6. CASE Stage
  <2>1. PICK f \in Files : Staged(f) /\ OpenCopy(f)
    BY <1>6 DEF Stage
  <2>2. /\ copying' = f /\ at' \in {"lib copy", "model copy"}
        /\ at' = "model copy" => i <= Len(ModelSeq)
        /\ UNCHANGED <<todo, i, txt, on, report, screen, unstaged, unsaved, launches>>
    BY <1>6, <2>1 DEF Stage, Staged, OpenCopy
  <2>3. QED
    BY <2>2 DEF LocalTypes, Places, Copying
<1>7. CASE EndCopy
  <2>1. /\ copying' = NoFile /\ todo' \subseteq todo
        /\ \/ at' = "libs" /\ i' = i
           \/ at = "model copy" /\ at' = "models" /\ i' = i + 1
        /\ UNCHANGED <<txt, on, report, screen, unstaged, unsaved, launches>>
    BY <1>7 DEF EndCopy, Copying
  <2>2. i' \in 1 .. Len(ModelSeq) + 1
    <3>1. i \in 1 .. Len(ModelSeq) + 1
      BY DEF LocalTypes
    <3>2. i' = i \/ (at = "model copy" /\ i' = i + 1)
      BY <2>1
    <3>3. CASE i' = i
      BY <3>1, <3>3
    <3>4. CASE at = "model copy" /\ i' = i + 1
      <4>1. i <= Len(ModelSeq)
        BY <3>4 DEF LocalTypes
      <4>2. i + 1 \in 1 .. Len(ModelSeq) + 1
        BY <1>1, <3>1, <4>1
      <4>3. QED
        BY <3>4, <4>2
    <3>5. QED
      BY <3>2, <3>3, <3>4
  <2>3. QED
    BY <2>1, <2>2 DEF LocalTypes, Places, Copying
<1>8. CASE StagingThrows \/ NoRuntime
  BY <1>8, SectionsOfReports DEF StagingThrows, NoRuntime, Throw, storeVars, LocalTypes,
       Places, Copying
<1>9. CASE ProbeReturns \/ StartBenchmark
  BY <1>2, <1>9, SectionsOfReports DEF ProbeReturns, StartBenchmark, storeVars, LocalTypes,
       Places, Copying
<1>10. CASE TimeModel \/ TimingFails
  <2>1. /\ at = "bench" /\ at' = at /\ i <= Len(ModelSeq)
        /\ report' = Append(report, Timing(ModelSeq[i], on))
        /\ i' = NextTiming.i /\ on' = NextTiming.on
        /\ UNCHANGED <<txt, todo, copying, screen, unstaged, unsaved, launches>>
    BY <1>10 DEF TimeModel, TimingFails, Timed, storeVars
  <2>2. i \in 1 .. Len(ModelSeq) + 1 /\ on \in {"npu", "cpu"} /\ report \in Seq(Sections)
    BY DEF LocalTypes
  <2>3. Timing(ModelSeq[i], on) \in Sections
    <3>1. ModelSeq[i] \in ModelFiles
      BY <1>1, <2>1, <2>2, ModelsAreFiles
    <3>2. QED
      BY <2>2, <3>1 DEF Timing, Sections
  <2>4. report' \in Seq(Sections)
    BY <2>1, <2>2, <2>3
  <2>5. /\ i' \in 1 .. Len(ModelSeq) + 1 /\ on' \in {"npu", "cpu"}
        /\ on' = "cpu" => i' <= Len(ModelSeq)
    BY <1>1, <2>1, <2>2 DEF NextTiming
  <2>6. QED
    BY <2>1, <2>4, <2>5 DEF LocalTypes, Places, Copying
<1>11. CASE OpenTxt
  BY <1>11, SectionsOfReports DEF OpenTxt, Truncated, localVars, LocalTypes, Places, Copying
<1>12. CASE WriteTxt
  <2>1. /\ txt'.report = txt.report \o report /\ txt'.whole = TRUE /\ at' = "show"
        /\ UNCHANGED <<localVars, launches>>
    BY <1>12 DEF WriteTxt
  <2>2. txt'.report \in Seq(Sections)
    BY <2>1, ConcatProperties DEF LocalTypes
  <2>3. QED
    BY <2>1, <2>2 DEF localVars, LocalTypes, Places, Copying
<1>13. CASE SaveFails \/ Show
  BY <1>13 DEF SaveFails, Show, storeVars, LocalTypes, Places, Copying
<1>14. CASE UNCHANGED vars
  BY <1>14 DEF vars, storeVars, localVars, LocalTypes, Copying
<1>15. QED
  BY <1>3, <1>4, <1>5, <1>6, <1>7, <1>8, <1>9, <1>10, <1>11, <1>12, <1>13, <1>14
     DEF Next, OnCreate

(* Every variable of the app and the probe keeps its type: no device node  *)
(* and no model is taken beyond the last, a file is of no build that was   *)
(* never installed, and the sink stays within its buffer.                  *)
THEOREM TypeCorrect == Spec => []TypeOK
<1>1. TypeInv <=> ProbeTypes /\ StoreTypes /\ LocalTypes
  BY DEF TypeInv, TypeOK, StoreTypes, LocalTypes, Places
<1>2. Init => TypeInv
  <2> SUFFICES ASSUME Init PROVE TypeInv
    OBVIOUS
  <2>1. ProbeTypes
    BY EmptySinkTyped DEF Init, ProbeInit, ProbeTypes
  <2>2. StoreTypes
    BY AppAssumption DEF Init, StoreTypes, Contents
  <2>3. LocalTypes
    <3>1. 1 \in 1 .. Len(ModelSeq) + 1 /\ 0 \in 0 .. MaxLaunches
      BY AppAssumption, ModelsAreFiles
    <3>2. QED
      BY <3>1, SectionsOfReports DEF Init, LocalTypes, Places, Copying
  <2>4. QED
    BY <1>1, <2>1, <2>2, <2>3
<1>3. TypeInv /\ SinkInv /\ SinkInv' /\ [Next]_vars => TypeInv'
  <2> SUFFICES ASSUME TypeInv, SinkInv, SinkInv', [Next]_vars PROVE TypeInv'
    OBVIOUS
  <2>1. ProbeTypes' /\ StoreTypes'
    BY ProbeTypesKept, StoreTypesKept
  <2>2. LocalTypes'
    BY <1>1, LocalTypesKept DEF StoreTypes
  <2>3. QED
    BY <2>1, <2>2 DEF TypeInv, TypeOK, StoreTypes, LocalTypes, Places
<1>4. TypeInv => TypeOK
  BY DEF TypeInv
<1>5. QED
  BY <1>2, <1>3, <1>4, SinkInvariant, PTL DEF Spec
=============================================================================
