------------------------------- MODULE OpenShim -------------------------------
(***************************************************************************)
(* probe/jni/openmode_shim.c, preloaded into a program that drives the DSP *)
(* through libcdsprpc.  It stands between the program and open, open64,    *)
(* openat and ioctl: opens of fastrpc paths are made read-only and their   *)
(* descriptors remembered, opens of the DSP shell are sent to a directory  *)
(* of the user's choice, and an ioctl on a remembered descriptor is        *)
(* reported.  The table of remembered descriptors is static and guarded by *)
(* nothing, and close() is not interposed.                                 *)
(*                                                                         *)
(* The threads are those of the program; which calls they make is left     *)
(* open.  The descriptor table is the kernel's.                            *)
(***************************************************************************)
EXTENDS Naturals

CONSTANTS
  Threads,     (* The threads of the program.                              *)
  Fds,         (* The descriptors a process may have, an interval.         *)
  Stdin,       (* The descriptors in use from the start.                   *)
  MaxTracked,  (* MAX_TRACKED; the code has 16.                            *)
  MaxOpens     (* Bound: the opens of a run.                               *)

ASSUME ShimAssumption ==
  /\ Fds \subseteq Nat
  /\ Stdin \subseteq Fds
  /\ 0 \in Fds
  /\ MaxTracked \in Nat \ {0}
  /\ MaxOpens \in Nat

(* A fastrpc device node, the DSP shell under /vendor/dsp, another library *)
(* there, any other file.                                                  *)
Paths == {"node", "shell", "library", "other"}
Modes == {"read", "write", "readwrite"}

VARIABLES
  dspDir,     (* FASTRPC_DSP_DIR is set.                                   *)
  file,       (* Per descriptor, what it is open on.                       *)
  tracked,    (* The table.                                                *)
  count,      (* tracked_count.                                            *)
  thread,     (* Per thread, where it is in the shim, and its locals.      *)
  opens,      (* Opens so far.                                             *)
  overlapped, (* Two calls of track() were under way at once.              *)
  recycled,   (* A descriptor was closed that was open on a fastrpc path,  *)
              (* or that an ioctl was under way on.                        *)
  report      (* The last ioctl: its file, whether it was reported, and    *)
              (* whether a call of track() was storing at that moment.     *)

vars == <<dspDir, file, tracked, count, thread, opens, overlapped, recycled, report>>

Free == [path |-> "free", at |-> "free", mode |-> "read"]
Idle == [pc |-> "idle", fd |-> 0, n |-> 0, on |-> Free]
NoReport == [on |-> Free, reported |-> FALSE, storing |-> FALSE]

Init ==
  /\ dspDir \in BOOLEAN
  /\ file = [d \in Fds |-> IF d \in Stdin
                             THEN [path |-> "other", at |-> "other", mode |-> "readwrite"]
                             ELSE Free]
  /\ tracked = [j \in 0 .. MaxTracked - 1 |-> 0]
  /\ count = 0
  /\ thread = [t \in Threads |-> Idle]
  /\ opens = 0
  /\ overlapped = FALSE /\ recycled = FALSE
  /\ report = NoReport

-----------------------------------------------------------------------------
(* open, open64, openat *)

IsFastrpc(p) == p \in {"node", "shell"}

(* Where an open of p is sent.                                             *)
Redirect(p) == IF dspDir /\ p \in {"shell", "library"} THEN "copy" ELSE p

Downgrade(p, mode) == IF IsFastrpc(p) THEN "read" ELSE mode

FreeFds == {d \in Fds : file[d] = Free}
Lowest(S) == CHOOSE d \in S : \A e \in S : d <= e

(* The real open succeeds, on `on`, with the lowest free descriptor; the   *)
(* wrapper goes on to track() or returns.                                  *)
Opened(t, on, tracks) ==
  /\ thread[t].pc = "idle"
  /\ opens < MaxOpens
  /\ FreeFds # {}
  /\ LET d == Lowest(FreeFds) IN
     /\ file' = [file EXCEPT ![d] = on]
     /\ thread' = IF tracks
                    THEN [thread EXCEPT ![t] = [@ EXCEPT !.pc = "track", !.fd = d]]
                    ELSE thread
  /\ opens' = opens + 1
  /\ UNCHANGED <<dspDir, tracked, count, overlapped, recycled, report>>

(* Three wrappers, each with a body of its own.  A name that openat takes  *)
(* relative to a directory is never redirected: if it is a fastrpc name it *)
(* is handled as "node", if not as "other".                                *)
open(t, p, mode) ==
  Opened(t, [path |-> p, at |-> Redirect(p), mode |-> Downgrade(p, mode)], IsFastrpc(p))

open64(t, p, mode) ==
  Opened(t, [path |-> p, at |-> Redirect(p), mode |-> Downgrade(p, mode)], IsFastrpc(p))

Bug_openat(t, p, mode) ==
  Opened(t, [path |-> p, at |-> Redirect(p), mode |-> Downgrade(p, mode)],
         FALSE)
openat(t, p, mode) ==
  Opened(t, [path |-> p, at |-> Redirect(p), mode |-> Downgrade(p, mode)], IsFastrpc(p))

(* The real open fails: track() is called with -1 and does nothing.        *)
OpenFails(t) ==
  /\ thread[t].pc = "idle"
  /\ opens < MaxOpens
  /\ opens' = opens + 1
  /\ UNCHANGED <<dspDir, file, tracked, count, thread, overlapped, recycled, report>>

InTrack(t) == thread[t].pc \in {"entry", "count", "either"}

(* track(): tracked_count is loaded once (the build is -O2) and tested.    *)
Bug_RoomFor(n) == n <= MaxTracked
RoomFor(n) == n < MaxTracked

TrackLoad(t) ==
  /\ thread[t].pc = "track"
  /\ thread' = [thread EXCEPT ![t] =
                  IF RoomFor(count) THEN [@ EXCEPT !.pc = "either", !.n = count] ELSE Idle]
  /\ overlapped' = (overlapped \/ \E u \in Threads : InTrack(u))
  /\ UNCHANGED <<dspDir, file, tracked, count, opens, recycled, report>>

(* The two stores of tracked[tracked_count++] = fd, in either order: no    *)
(* other thread is promised one.                                           *)
StoreEntry(t) ==
  /\ thread[t].pc \in {"either", "entry"}
  /\ tracked' = [tracked EXCEPT ![thread[t].n] = thread[t].fd]
  /\ thread' = [thread EXCEPT ![t] =
                  IF @.pc = "either" THEN [@ EXCEPT !.pc = "count"] ELSE Idle]
  /\ UNCHANGED <<dspDir, file, count, opens, overlapped, recycled, report>>

StoreCount(t) ==
  /\ thread[t].pc \in {"either", "count"}
  /\ count' = thread[t].n + 1
  /\ thread' = [thread EXCEPT ![t] =
                  IF @.pc = "either" THEN [@ EXCEPT !.pc = "entry"] ELSE Idle]
  /\ UNCHANGED <<dspDir, file, tracked, opens, overlapped, recycled, report>>

(* What the program may close or call ioctl on: a descriptor that is open  *)
(* and that no open has yet to return.                                     *)
Opening(t) == thread[t].pc = "track" \/ InTrack(t)
Known == {d \in Fds : file[d] # Free}
           \ {thread[t].fd : t \in {u \in Threads : Opening(u)}}

(* close() goes to the kernel, past the shim.                              *)
Close(t, d) ==
  /\ thread[t].pc = "idle"
  /\ d \in Known
  /\ file' = [file EXCEPT ![d] = Free]
  /\ recycled' = \/ recycled
                  \/ IsFastrpc(file[d].path)
                  \/ \E u \in Threads : thread[u].pc = "ioctl" /\ thread[u].fd = d
  /\ UNCHANGED <<dspDir, tracked, count, thread, opens, overlapped, report>>

(* The real ioctl, and behind it the test whether to report.               *)
Ioctl(t, d) ==
  /\ thread[t].pc = "idle"
  /\ d \in Known
  /\ thread' = [thread EXCEPT ![t] =
                  [@ EXCEPT !.pc = "ioctl", !.fd = d, !.on = file[d]]]
  /\ UNCHANGED <<dspDir, file, tracked, count, opens, overlapped, recycled, report>>

Bug_WholeTable(d) == \E j \in 0 .. MaxTracked - 1 : tracked[j] = d
IsTracked(d) == \E j \in 0 .. count - 1 : tracked[j] = d

Report(t) ==
  /\ thread[t].pc = "ioctl"
  /\ report' = [on |-> thread[t].on, reported |-> IsTracked(thread[t].fd),
                storing |-> \E u \in Threads : InTrack(u)]
  /\ thread' = [thread EXCEPT ![t] = Idle]
  /\ UNCHANGED <<dspDir, file, tracked, count, opens, overlapped, recycled>>

Step(t) ==
  \/ \E p \in Paths, mode \in Modes :
       open(t, p, mode) \/ open64(t, p, mode) \/ openat(t, p, mode)
  \/ OpenFails(t)
  \/ TrackLoad(t) \/ StoreEntry(t) \/ StoreCount(t)
  \/ \E d \in Fds : Close(t, d) \/ Ioctl(t, d)
  \/ Report(t)

Next == \E t \in Threads : Step(t)

Spec == Init /\ [][Next]_vars

-----------------------------------------------------------------------------
(* Properties *)

Files == {Free} \cup [path : Paths, at : Paths \cup {"copy"}, mode : Modes]

(* Every variable keeps the type the code gives it.  However the calls of  *)
(* track() interleave, nothing is stored behind the end of the table, nor  *)
(* does the scan of it go there.                                           *)
TypeOK ==
  /\ dspDir \in BOOLEAN
  /\ file \in [Fds -> Files]
  /\ tracked \in [0 .. MaxTracked - 1 -> Fds]
  /\ count \in 0 .. MaxTracked
  /\ thread \in [Threads ->
       [pc : {"idle", "track", "either", "entry", "count", "ioctl"},
        fd : Fds, n : 0 .. MaxTracked, on : Files]]
  /\ \A t \in Threads : InTrack(t) => thread[t].n < MaxTracked
  /\ opens \in 0 .. MaxOpens
  /\ overlapped \in BOOLEAN /\ recycled \in BOOLEAN
  /\ report \in [on : Files, reported : BOOLEAN, storing : BOOLEAN]

(* The trace shows every ioctl that touches a fastrpc path.                *)
EveryIoctlReported == IsFastrpc(report.on.path) => report.reported

(* An ioctl on a fastrpc path is missing from the trace only when the      *)
(* table was full or two opens ran into each other.                        *)
MissedOnlyFor ==
  ~EveryIoctlReported => overlapped \/ count = MaxTracked

(* An ioctl on something else is in the trace only when a descriptor was   *)
(* closed that the table holds or an ioctl was using, or track() was       *)
(* filling an entry it had counted already.                                *)
StrayOnlyFor ==
  report.reported /\ ~IsFastrpc(report.on.path) =>
    recycled \/ overlapped \/ report.storing
=============================================================================
