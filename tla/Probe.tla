-------------------------------- MODULE Probe --------------------------------
(***************************************************************************)
(* probe_run of probe/jni/probe_core.c: whether the process that calls it  *)
(* can reach the Hexagon NPU.  It reports line by line through a callback; *)
(* that of the app, emit of probe/jni/probe_jni.c, appends each line to a  *)
(* buffer of fixed size as long as there is room.                          *)
(*                                                                         *)
(* What a line says is left out, but not its length.  What the process     *)
(* keeps of a call when it has returned -- the environment variable, the   *)
(* process domain, the handles -- is state, for the app may call again.    *)
(***************************************************************************)
EXTENDS Naturals

CONSTANTS
  Devices,     (* What the FastRPC library of a device may offer.          *)
  LineLengths, (* The lengths a line may have.                             *)
  LineMax,     (* sizeof line - 1; the code has 511.                       *)
  Cap          (* sizeof buf; the code has 16384.                          *)

(* The lines of the longest report: the domain, two headings, two for each *)
(* of three device nodes, one each for the library, the process domain and *)
(* the path, two for the handle.                                           *)
MaxLines == 14

ASSUME ProbeAssumption ==
  /\ Devices \subseteq [library : BOOLEAN, control : BOOLEAN, open : BOOLEAN]
  /\ LineMax \in Nat
  /\ LineLengths \subseteq 0 .. LineMax
  /\ Cap \in Nat
  /\ MaxLines * (LineMax + 1) + 1 < Cap

VARIABLES
  device,  (* libcdsprpc.so loads; what it exports.                        *)
  step,    (* Where probe_run is.                                          *)
  node,    (* How many opens of device nodes it has tried.                 *)
  emitted, (* Lines reported by this call.                                 *)
  len,     (* Of the sink: bytes used.                                     *)
  kept,    (* Of the sink: lines in it.                                    *)
  env,     (* ADSP_LIBRARY_PATH is set in this process.                    *)
  pd,      (* What became of the request for an unsigned process domain.   *)
  handles  (* The handles this process has open.                           *)

sinkVars    == <<emitted, len, kept>>
processVars == <<env, pd, handles>>
probeVars   == <<device, step, node, sinkVars, processVars>>

ProcessEnds == env' = FALSE /\ pd' = "untried" /\ handles' = 0

ProbeInit ==
  /\ device \in Devices
  /\ step = "idle" /\ node = 0
  /\ emitted = 0 /\ len = 0 /\ kept = 0
  /\ env = FALSE /\ pd = "untried" /\ handles = 0

(* runProbe: a sink on the stack, empty, and the call.                     *)
CallProbe ==
  /\ step = "idle"
  /\ step' = "domain"
  /\ UNCHANGED <<device, node, sinkVars, processVars>>

(* The call is over, or its process: what was on the stack is gone.        *)
FrameGone ==
  /\ step' = "idle" /\ node' = 0
  /\ emitted' = 0 /\ len' = 0 /\ kept' = 0
  /\ UNCHANGED device

ReturnFromProbe ==
  /\ step = "done"
  /\ FrameGone
  /\ UNCHANGED processVars

-----------------------------------------------------------------------------
(* emit of probe_jni.c: the line, a newline and, not counted, a zero.      *)
Fits(n) == len + n + 2 < Cap

Bug_LineTakes(n) == n + 2
LineTakes(n) == n + 1

Emit(n) ==
  /\ emitted' = emitted + 1
  /\ IF Fits(n) THEN len' = len + LineTakes(n) /\ kept' = kept + 1
                ELSE UNCHANGED <<len, kept>>

(* A step that reports one line and does nothing else.                     *)
Line(from, to) ==
  /\ step = from
  /\ step' = to
  /\ \E n \in LineLengths : Emit(n)

Quiet == UNCHANGED <<device, node, processVars>>

Domain   == Line("domain", "heading") /\ Quiet
Heading  == Line("heading", "nodes") /\ Quiet

(* Three nodes, read-only and read-write.  Whether the open succeeds shows *)
(* in the line only; the descriptor is closed at once.                     *)
NodeOpens == 6

Bug_MoreNodes(n) == n <= NodeOpens
MoreNodes(n) == n < NodeOpens

ProbeNode ==
  /\ Line("nodes", IF MoreNodes(node + 1) THEN "nodes" ELSE "library")
  /\ node' = node + 1
  /\ UNCHANGED <<device, processVars>>

Library == Line("library", "load") /\ Quiet
Load    == Line("load", IF device.library THEN "control" ELSE "done") /\ Quiet

(* remote_session_control; that it failed is reported and has no other     *)
(* consequence.                                                            *)
Bug_Control == Line("control", "resolve") /\ Quiet
Control ==
  /\ Line("control", "resolve")
  /\ IF device.control THEN pd' \in {"enabled", "refused"} ELSE UNCHANGED pd
  /\ UNCHANGED <<device, node, env, handles>>

NotExported == ~device.open /\ Line("resolve", "done") /\ Quiet

(* setenv, and the line about it.  The code does neither without a         *)
(* directory, but the app and probe_main always pass one.                  *)
SetPath ==
  /\ device.open
  /\ Line("resolve", "open")
  /\ env' = TRUE
  /\ UNCHANGED <<device, node, pd, handles>>

OpenHandle ==
  /\ Line("open", "verdict")
  /\ handles' \in {handles, handles + 1}
  /\ UNCHANGED <<device, node, env, pd>>

Verdict == Line("verdict", "done") /\ Quiet

ProbeStep ==
  \/ Domain \/ Heading \/ ProbeNode \/ Library \/ Load \/ Control \/ NotExported
  \/ SetPath \/ OpenHandle \/ Verdict

-----------------------------------------------------------------------------
(* Properties *)

ProbeTypes ==
  /\ device \in Devices
  /\ step \in {"idle", "domain", "heading", "nodes", "library", "load", "control",
               "resolve", "open", "verdict", "done"}
  /\ node \in 0 .. NodeOpens
  /\ emitted \in 0 .. MaxLines
  /\ len \in 0 .. Cap - 1
  /\ kept \in Nat
  /\ env \in BOOLEAN
  /\ pd \in {"untried", "enabled", "refused"}
  /\ handles \in Nat

(* A sink that is full drops a line without a word and takes a shorter one *)
(* after it.  Whatever the lines say, no line of a probe is ever dropped.  *)
NoLineLost == kept = emitted

(* Where the library can ask for an unsigned process domain, no process    *)
(* has a handle open without having asked.                                 *)
PdBeforeHandle == handles > 0 /\ device.control => pd # "untried"
=============================================================================
