--------------------------- MODULE OpenShim_proofs ---------------------------
(***************************************************************************)
(* Proofs about OpenShim, for any number of threads and descriptors and a  *)
(* table of any size.                                                      *)
(***************************************************************************)
EXTENDS OpenShim, WellFoundedInduction, TLAPS

-----------------------------------------------------------------------------
(* Types *)

LEMMA LeastOfSome ==
  ASSUME NEW S, S \subseteq Nat, S # {}
  PROVE  \E m \in S : \A n \in S : m <= n
<1> DEFINE R == OpToRel(<, Nat)
<1>1. IsWellFoundedOn(R, Nat)
  BY NatLessThanWellFounded
<1> HIDE DEF R
<1>2. PICK m \in S : \A n \in S : ~ (<<n, m>> \in R)
  BY <1>1, WFMin
<1>3. \A j, k \in Nat : j < k => <<j, k>> \in R
  BY DEF R, OpToRel
<1>4. ASSUME NEW n \in S PROVE m <= n
  <2>1. ~ (n < m)
    BY <1>2, <1>3
  <2>2. QED
    BY <2>1
<1>5. QED
  BY <1>4

(* The real open returns a descriptor that is free.                        *)
LEMMA LowestFree ==
  ASSUME FreeFds # {}
  PROVE  Lowest(FreeFds) \in Fds /\ file[Lowest(FreeFds)] = Free
<1>1. \E m \in FreeFds : \A n \in FreeFds : m <= n
  BY LeastOfSome, ShimAssumption DEF FreeFds
<1>2. Lowest(FreeFds) \in FreeFds
  BY <1>1 DEF Lowest
<1>3. QED
  BY <1>2 DEF FreeFds

(* A call of open, through any of the three wrappers.                      *)
AnyOpen(t, p, mode) == open(t, p, mode) \/ open64(t, p, mode) \/ openat(t, p, mode)

(* What a call of open changes, once the real open has returned d.         *)
OpenedAs(t, p, mode, d) ==
  /\ file[d] = Free
  /\ file' = [file EXCEPT ![d] = [path |-> p, at |-> Redirect(p),
                                  mode |-> Downgrade(p, mode)]]
  /\ thread[t].pc = "idle"
  /\ thread' = IF IsFastrpc(p)
                 THEN [thread EXCEPT ![t] = [@ EXCEPT !.pc = "track", !.fd = d]]
                 ELSE thread
  /\ opens < MaxOpens /\ opens' = opens + 1
  /\ UNCHANGED <<dspDir, tracked, count, overlapped, recycled, report>>

LEMMA OpenChanges ==
  ASSUME NEW t \in Threads, NEW p \in Paths, NEW mode \in Modes, AnyOpen(t, p, mode)
  PROVE  \E d \in Fds : OpenedAs(t, p, mode, d)
<1>1. Lowest(FreeFds) \in Fds /\ file[Lowest(FreeFds)] = Free
  BY LowestFree DEF AnyOpen, open, open64, openat, Opened
<1>2. QED
  BY <1>1 DEF AnyOpen, open, open64, openat, Opened, OpenedAs

Locals == [pc : {"idle", "track", "either", "entry", "count", "ioctl"},
           fd : Fds, n : 0 .. MaxTracked, on : Files]

LEMMA IdleTyped == Idle \in Locals /\ Free \in Files /\ Idle.pc = "idle"
BY ShimAssumption DEF Idle, Locals, Free, Files

LEMMA TypeInit == Init => TypeOK
<1> SUFFICES ASSUME Init PROVE TypeOK
  OBVIOUS
<1>1. thread \in [Threads -> Locals] /\ \A t \in Threads : ~InTrack(t)
  BY IdleTyped DEF Init, InTrack
<1>2. file \in [Fds -> Files]
  BY IdleTyped DEF Init, Files, Paths, Modes
<1>3. tracked \in [0 .. MaxTracked - 1 -> Fds] /\ count \in 0 .. MaxTracked
  BY ShimAssumption DEF Init
<1>4. report \in [on : Files, reported : BOOLEAN, storing : BOOLEAN]
  BY IdleTyped DEF Init, NoReport
<1>5. opens \in 0 .. MaxOpens
  BY ShimAssumption DEF Init
<1>6. dspDir \in BOOLEAN /\ overlapped \in BOOLEAN /\ recycled \in BOOLEAN
  BY DEF Init
<1>7. QED
  BY <1>1, <1>2, <1>3, <1>4, <1>5, <1>6 DEF TypeOK, Locals

LEMMA TypeStep ==
  ASSUME TypeOK, [Next]_vars
  PROVE  TypeOK'
<1> USE ShimAssumption
<1>0. /\ thread \in [Threads -> Locals] /\ Idle \in Locals /\ Idle.pc = "idle"
      /\ \A t \in Threads : InTrack(t) => thread[t].n < MaxTracked
  BY IdleTyped DEF TypeOK, Locals
<1>1. ASSUME NEW t \in Threads, NEW p \in Paths, NEW mode \in Modes, AnyOpen(t, p, mode)
      PROVE  TypeOK'
  <2>1. PICK d \in Fds : OpenedAs(t, p, mode, d)
    BY <1>1, OpenChanges
  <2>2. [path |-> p, at |-> Redirect(p), mode |-> Downgrade(p, mode)] \in Files
    BY DEF Redirect, Downgrade, Files, Paths, Modes
  <2>3. file' \in [Fds -> Files]
    BY <2>1, <2>2 DEF OpenedAs, TypeOK
  <2>4. thread' \in [Threads -> Locals]
    BY <1>0, <2>1 DEF OpenedAs, Locals
  <2>5. \A u \in Threads : InTrack(u)' => InTrack(u) /\ thread'[u].n = thread[u].n
    BY <1>0, <2>1 DEF OpenedAs, InTrack, Locals
  <2>6. QED
    BY <1>0, <2>1, <2>3, <2>4, <2>5 DEF OpenedAs, TypeOK, Locals
<1>2. ASSUME NEW t \in Threads, OpenFails(t) PROVE TypeOK'
  BY <1>2 DEF OpenFails, TypeOK, InTrack
<1>3. ASSUME NEW t \in Threads, TrackLoad(t) PROVE TypeOK'
  <2>1. thread' \in [Threads -> Locals]
    BY <1>0, <1>3 DEF TrackLoad, RoomFor, TypeOK, Locals
  <2>2. \A u \in Threads : InTrack(u)' => thread'[u].n < MaxTracked
    BY <1>0, <1>3 DEF TrackLoad, RoomFor, InTrack, Locals
  <2>3. QED
    BY <1>3, <2>1, <2>2 DEF TrackLoad, TypeOK, Locals
<1>4. ASSUME NEW t \in Threads, StoreEntry(t) PROVE TypeOK'
  <2>1. thread' \in [Threads -> Locals]
    BY <1>0, <1>4 DEF StoreEntry, Locals
  <2>2. \A u \in Threads : InTrack(u)' => thread'[u].n < MaxTracked
    BY <1>0, <1>4 DEF StoreEntry, InTrack, Locals
  <2>3. thread[t].n \in 0 .. MaxTracked - 1 /\ thread[t].fd \in Fds
    BY <1>0, <1>4 DEF StoreEntry, InTrack, Locals
  <2>4. QED
    BY <1>4, <2>1, <2>2, <2>3 DEF StoreEntry, TypeOK, Locals
<1>5. ASSUME NEW t \in Threads, StoreCount(t) PROVE TypeOK'
  <2>1. thread' \in [Threads -> Locals]
    BY <1>0, <1>5 DEF StoreCount, Locals
  <2>2. \A u \in Threads : InTrack(u)' => thread'[u].n < MaxTracked
    BY <1>0, <1>5 DEF StoreCount, InTrack, Locals
  <2>3. count' \in 0 .. MaxTracked
    BY <1>0, <1>5 DEF StoreCount, InTrack, Locals
  <2>4. QED
    BY <1>5, <2>1, <2>2, <2>3 DEF StoreCount, TypeOK, Locals
<1>6. ASSUME NEW t \in Threads, NEW d \in Fds, Close(t, d) PROVE TypeOK'
  <2>1. file' \in [Fds -> Files] /\ recycled' \in BOOLEAN
    BY <1>6, IdleTyped DEF Close, TypeOK
  <2>2. QED
    BY <1>6, <2>1 DEF Close, TypeOK, InTrack
<1>7. ASSUME NEW t \in Threads, NEW d \in Fds, Ioctl(t, d) PROVE TypeOK'
  <2>1. thread' \in [Threads -> Locals]
    BY <1>0, <1>7 DEF Ioctl, TypeOK, Locals
  <2>2. \A u \in Threads : InTrack(u)' => thread'[u].n < MaxTracked
    BY <1>0, <1>7 DEF Ioctl, InTrack, Locals
  <2>3. QED
    BY <1>7, <2>1, <2>2 DEF Ioctl, TypeOK, Locals
<1>8. ASSUME NEW t \in Threads, Report(t) PROVE TypeOK'
  <2>1. thread' \in [Threads -> Locals]
    BY <1>0, <1>8 DEF Report, Locals
  <2>2. \A u \in Threads : InTrack(u)' => thread'[u].n < MaxTracked
    BY <1>0, <1>8 DEF Report, InTrack, Locals
  <2>3. report' \in [on : Files, reported : BOOLEAN, storing : BOOLEAN]
    BY <1>0, <1>8 DEF Report, IsTracked, Locals
  <2>4. QED
    BY <1>8, <2>1, <2>2, <2>3 DEF Report, TypeOK, Locals
<1>9. CASE UNCHANGED vars
  BY <1>9 DEF vars, TypeOK, InTrack
<1>10. QED
  BY <1>1, <1>2, <1>3, <1>4, <1>5, <1>6, <1>7, <1>8, <1>9 DEF Next, Step, AnyOpen

(* track: however the calls of several threads interleave, no entry is     *)
(* stored and none is scanned beyond the end of the table.                 *)
THEOREM TypeCorrect == Spec => []TypeOK
<1> QED
  BY TypeInit, TypeStep, PTL DEF Spec

-----------------------------------------------------------------------------
(* The table while no two calls of track overlap *)

(* A counted entry that is not still to be stored.                         *)
Filled(j) == \A t \in Threads : thread[t].pc = "entry" => thread[t].n # j

Remembered(d) == \E j \in 0 .. count - 1 : Filled(j) /\ tracked[j] = d

TrackInv ==
  ~overlapped =>
    /\ \A t, u \in Threads : InTrack(t) /\ InTrack(u) => t = u
    /\ \A t \in Threads : thread[t].pc \in {"either", "count"} => thread[t].n = count
    /\ \A t \in Threads : thread[t].pc = "entry" => thread[t].n + 1 = count
    /\ \A t \in Threads : thread[t].pc = "count" => tracked[thread[t].n] = thread[t].fd

(* Steps that do not touch the table, nor begin or end a call of track.    *)
SameTable ==
  /\ UNCHANGED <<tracked, count, overlapped>>
  /\ \A u \in Threads :
       /\ thread'[u].pc \in {"either", "entry", "count"} <=>
            thread[u].pc \in {"either", "entry", "count"}
       /\ InTrack(u) => thread'[u] = thread[u]

LEMMA OtherSteps ==
  ASSUME TypeOK, NEW t \in Threads
  PROVE  /\ \A p \in Paths, mode \in Modes : AnyOpen(t, p, mode) => SameTable
         /\ OpenFails(t) => SameTable
         /\ \A d \in Fds : Close(t, d) \/ Ioctl(t, d) => SameTable
         /\ Report(t) => SameTable
<1>0. thread \in [Threads -> Locals] /\ Idle.pc = "idle"
  BY IdleTyped DEF TypeOK, Locals
<1>1. ASSUME NEW p \in Paths, NEW mode \in Modes, AnyOpen(t, p, mode) PROVE SameTable
  <2>1. PICK d \in Fds : OpenedAs(t, p, mode, d)
    BY <1>1, OpenChanges
  <2>2. QED
    BY <1>0, <2>1 DEF OpenedAs, SameTable, InTrack, Locals
<1>2. ASSUME OpenFails(t) PROVE SameTable
  BY <1>2 DEF OpenFails, SameTable
<1>3. ASSUME NEW d \in Fds, Close(t, d) PROVE SameTable
  BY <1>3 DEF Close, SameTable
<1>4. ASSUME NEW d \in Fds, Ioctl(t, d) PROVE SameTable
  BY <1>0, <1>4 DEF Ioctl, SameTable, InTrack, Locals
<1>5. ASSUME Report(t) PROVE SameTable
  BY <1>0, <1>5 DEF Report, SameTable, InTrack, Locals
<1>6. QED
  BY <1>1, <1>2, <1>3, <1>4, <1>5

LEMMA SameTableKeeps ==
  ASSUME SameTable
  PROVE  /\ TrackInv => TrackInv'
         /\ \A j : Filled(j)' <=> Filled(j)
         /\ \A d : Remembered(d)' <=> Remembered(d)
<1>1. TrackInv => TrackInv'
  BY DEF SameTable, TrackInv, InTrack
<1>2. ASSUME NEW j PROVE Filled(j)' <=> Filled(j)
  BY DEF SameTable, Filled, InTrack
<1>3. ASSUME NEW d PROVE Remembered(d)' <=> Remembered(d)
  BY <1>2 DEF Remembered, SameTable
<1>4. QED
  BY <1>1, <1>2, <1>3

LEMMA TrackStep ==
  ASSUME TypeOK, TrackInv, [Next]_vars
  PROVE  TrackInv'
<1>0. thread \in [Threads -> Locals] /\ Idle.pc = "idle" /\ count \in Nat
      /\ tracked \in [0 .. MaxTracked - 1 -> Fds]
      /\ \A t \in Threads : InTrack(t) => thread[t].n \in 0 .. MaxTracked - 1
  BY IdleTyped, ShimAssumption DEF TypeOK, Locals
<1>1. ASSUME NEW t \in Threads, TrackLoad(t) PROVE TrackInv'
  BY <1>0, <1>1 DEF TrackLoad, TrackInv, InTrack, Locals
<1>2. ASSUME NEW t \in Threads, StoreEntry(t) PROVE TrackInv'
  BY <1>0, <1>2 DEF StoreEntry, TrackInv, InTrack, Locals
<1>3. ASSUME NEW t \in Threads, StoreCount(t) PROVE TrackInv'
  BY <1>0, <1>3 DEF StoreCount, TrackInv, InTrack, Locals
<1>4. SameTable => TrackInv'
  BY SameTableKeeps
<1>5. CASE UNCHANGED vars
  BY <1>5 DEF vars, TrackInv, InTrack
<1>6. QED
  BY <1>1, <1>2, <1>3, <1>4, <1>5, OtherSteps DEF Next, Step, AnyOpen

(* While no two calls overlap, what the table remembers it remembers for   *)
(* good, and a descriptor is remembered when its call of track ends.       *)
LEMMA TableGrows ==
  ASSUME TypeOK, TrackInv, NEW t \in Threads, ~overlapped',
         TrackLoad(t) \/ StoreEntry(t) \/ StoreCount(t)
  PROVE  /\ \A d \in Fds : Remembered(d) => Remembered(d)'
         /\ count = MaxTracked => count' = MaxTracked
         /\ \A u \in Threads \ {t} : thread'[u] = thread[u]
         /\ thread[t].pc \in {"track", "either", "entry", "count"}
         /\ Opening(t)' => thread'[t].fd = thread[t].fd
         /\ ~Opening(t)' => thread'[t].pc = "idle"
         /\ \A d \in Fds : ~Opening(t)' /\ d = thread[t].fd =>
                            count' = MaxTracked \/ Remembered(d)'
         /\ UNCHANGED <<file, recycled, report>> /\ ~overlapped
<1>0. thread \in [Threads -> Locals] /\ Idle.pc = "idle" /\ count \in 0 .. MaxTracked
      /\ MaxTracked \in Nat
      /\ tracked \in [0 .. MaxTracked - 1 -> Fds]
      /\ \A u \in Threads : InTrack(u) => thread[u].n \in 0 .. MaxTracked - 1
  BY IdleTyped, ShimAssumption DEF TypeOK, Locals
<1>a. ~overlapped
  BY DEF TrackLoad, StoreEntry, StoreCount
<1>b. /\ \A u, v \in Threads : InTrack(u) /\ InTrack(v) => u = v
      /\ \A u \in Threads : thread[u].pc \in {"either", "count"} => thread[u].n = count
      /\ \A u \in Threads : thread[u].pc = "entry" => thread[u].n + 1 = count
      /\ \A u \in Threads : thread[u].pc = "count" => tracked[thread[u].n] = thread[u].fd
      /\ ~overlapped
  BY <1>a DEF TrackInv
<1>c. /\ thread[t].pc \in {"either", "count"} => thread[t].n = count
      /\ thread[t].pc = "entry" => thread[t].n + 1 = count
      /\ thread[t].pc = "count" => tracked[thread[t].n] = thread[t].fd
  BY <1>b
<1>1. CASE TrackLoad(t)
  <2>1. \A j : Filled(j) => Filled(j)'
    BY <1>0, <1>1 DEF TrackLoad, Filled, Locals
  <2>2. \A d \in Fds : Remembered(d) => Remembered(d)'
    BY <1>1, <2>1 DEF TrackLoad, Remembered
  <2>3. ~Opening(t)' => count = MaxTracked /\ thread'[t].pc = "idle"
    BY <1>0, <1>1 DEF TrackLoad, RoomFor, Opening, InTrack, Locals
  <2>4. Opening(t)' => thread'[t].fd = thread[t].fd
    BY <1>0, <1>1 DEF TrackLoad, Opening, InTrack, Locals
  <2>5. QED
    BY <1>0, <1>b, <1>1, <2>2, <2>3, <2>4 DEF TrackLoad
<1>2. CASE StoreEntry(t)
  <2>1. thread[t].n \in 0 .. MaxTracked - 1 /\ InTrack(t)
    BY <1>0, <1>2 DEF StoreEntry, InTrack
  <2>2. \A j : Filled(j) => Filled(j)'
    BY <1>0, <1>2 DEF StoreEntry, Filled, Locals
  <2>3. ASSUME NEW j \in 0 .. count - 1, Filled(j) PROVE j # thread[t].n
    <3>1. CASE thread[t].pc = "either"
      <4>1. thread[t].n = count
        BY <1>c, <3>1
      <4>2. QED
        BY <1>0, <4>1
    <3>2. CASE thread[t].pc = "entry"
      BY <2>3, <3>2 DEF Filled
    <3>3. QED
      BY <1>2, <3>1, <3>2 DEF StoreEntry
  <2>4. \A d \in Fds : Remembered(d) => Remembered(d)'
    BY <1>0, <1>2, <2>1, <2>2, <2>3 DEF StoreEntry, Remembered
  <2>5. CASE thread[t].pc = "either"
    BY <1>0, <1>b, <1>2, <2>4, <2>5 DEF StoreEntry, Opening, InTrack, Locals
  <2>6. CASE thread[t].pc = "entry"
    <3>1. thread' = [thread EXCEPT ![t] = Idle] /\ count' = count
          /\ tracked' = [tracked EXCEPT ![thread[t].n] = thread[t].fd]
      BY <1>2, <2>6 DEF StoreEntry
    <3>2. thread[t].n \in 0 .. count' - 1
      <4>1. thread[t].n + 1 = count /\ count' = count
        BY <1>c, <2>6, <3>1
      <4>2. QED
        BY <2>1, <4>1
    <3>a. tracked'[thread[t].n] = thread[t].fd
      BY <1>0, <2>1, <3>1
    <3>3. \A j : Filled(j)'
      BY <1>0, <1>b, <2>1, <3>1 DEF Filled, InTrack
    <3>4. \A d \in Fds : d = thread[t].fd => Remembered(d)'
      BY <3>1, <3>2, <3>a, <3>3 DEF Remembered
    <3>5. QED
      BY <1>0, <1>b, <1>2, <2>4, <2>6, <3>1, <3>4 DEF StoreEntry, Opening,
           InTrack
  <2>7. QED
    BY <1>2, <2>5, <2>6 DEF StoreEntry
<1>3. CASE StoreCount(t)
  <2>1. thread[t].n = count /\ count' = count + 1 /\ InTrack(t) /\ count < MaxTracked
    BY <1>0, <1>b, <1>3 DEF StoreCount, InTrack
  <2>2. \A j \in 0 .. count - 1 : Filled(j) => Filled(j)'
    BY <1>0, <1>3, <2>1 DEF StoreCount, Filled, Locals
  <2>3. \A d \in Fds : Remembered(d) => Remembered(d)'
    BY <1>0, <1>3, <2>1, <2>2 DEF StoreCount, Remembered
  <2>4. CASE thread[t].pc = "either"
    BY <1>0, <1>b, <1>3, <2>1, <2>3, <2>4 DEF StoreCount, Opening, InTrack,
         Locals
  <2>5. CASE thread[t].pc = "count"
    <3>1. thread' = [thread EXCEPT ![t] = Idle] /\ tracked' = tracked
      BY <1>3, <2>5 DEF StoreCount
    <3>2. thread[t].n \in 0 .. count' - 1
      BY <1>0, <2>1
    <3>a. tracked'[thread[t].n] = thread[t].fd
      BY <1>c, <2>5, <3>1
    <3>3. \A j : Filled(j)'
      BY <1>0, <1>b, <2>1, <3>1 DEF Filled, InTrack
    <3>4. \A d \in Fds : d = thread[t].fd => Remembered(d)'
      BY <3>1, <3>2, <3>a, <3>3 DEF Remembered
    <3>5. QED
      BY <1>0, <1>b, <1>3, <2>1, <2>3, <2>5, <3>1, <3>4 DEF StoreCount, Opening,
           InTrack
  <2>6. QED
    BY <1>3, <2>4, <2>5 DEF StoreCount
<1>4. QED
  BY <1>1, <1>2, <1>3

-----------------------------------------------------------------------------
(* What the trace misses *)

Found(d) == count = MaxTracked \/ Remembered(d)

MissInv ==
  /\ ~overlapped =>
       /\ \A d \in Known : IsFastrpc(file[d].path) => Found(d)
       /\ \A t \in Threads :
            thread[t].pc = "ioctl" /\ IsFastrpc(thread[t].on.path) => Found(thread[t].fd)
  /\ MissedOnlyFor

(* A descriptor that is found is reported by the scan.                     *)
LEMMA RememberedIsTracked ==
  ASSUME NEW d, Remembered(d)
  PROVE  IsTracked(d)
BY DEF Remembered, IsTracked

LEMMA MissInit == Init => MissInv
<1> SUFFICES ASSUME Init PROVE MissInv
  OBVIOUS
<1>1. \A d \in Fds : ~IsFastrpc(file[d].path)
  BY DEF Init, IsFastrpc, Free
<1>2. \A t \in Threads : thread[t].pc = "idle"
  BY DEF Init, Idle
<1>3. ~IsFastrpc(report.on.path)
  BY DEF Init, NoReport, Free, IsFastrpc
<1>4. QED
  BY <1>1, <1>2, <1>3 DEF MissInv, MissedOnlyFor, EveryIoctlReported, Known

LEMMA MissStep ==
  ASSUME TypeOK, TrackInv, MissInv, [Next]_vars
  PROVE  MissInv'
<1>0. thread \in [Threads -> Locals] /\ Idle.pc = "idle" /\ file \in [Fds -> Files]
      /\ \A d : Found(d) => Remembered(d) \/ count = MaxTracked
  BY IdleTyped DEF TypeOK, Locals, Found
<1>1. ASSUME NEW t \in Threads, NEW p \in Paths, NEW mode \in Modes, AnyOpen(t, p, mode)
      PROVE  MissInv'
  <2>1. PICK d \in Fds : OpenedAs(t, p, mode, d)
    BY <1>1, OpenChanges
  <2>2. SameTable
    BY <1>1, OtherSteps
  <2>3. \A e : Found(e) <=> Found(e)'
    BY <2>2, SameTableKeeps DEF Found, SameTable
  <2>4. IsFastrpc(p) => thread'[t].pc = "track" /\ thread'[t].fd = d /\ d \notin Known'
    BY <1>0, <2>1 DEF OpenedAs, Known, Opening, Locals
  <2>5. \A u \in Threads : Opening(u) => Opening(u)' /\ thread'[u].fd = thread[u].fd
    BY <1>0, <2>1 DEF OpenedAs, Opening, InTrack, Locals
  <2>6. \A e \in Fds \ {d} : file'[e] = file[e] /\ (e \in Known' => e \in Known)
    BY <1>0, <2>1, <2>5 DEF OpenedAs, Known
  <2>7. file'[d].path = p
    BY <1>0, <2>1 DEF OpenedAs
  <2>8. ASSUME ~overlapped', NEW e \in Known', IsFastrpc(file'[e].path) PROVE Found(e)'
    <3>1. e \in Fds /\ e # d
      BY <2>4, <2>7, <2>8 DEF Known
    <3>2. QED
      BY <2>1, <2>3, <2>6, <2>8, <3>1 DEF OpenedAs, MissInv
  <2>9. \A u \in Threads : thread'[u].pc = "ioctl" => thread'[u] = thread[u]
    BY <1>0, <2>1 DEF OpenedAs, Locals
  <2>10. MissedOnlyFor'
    BY <2>1 DEF OpenedAs, MissInv, MissedOnlyFor, EveryIoctlReported
  <2>11. QED
    BY <2>1, <2>3, <2>8, <2>9, <2>10 DEF OpenedAs, MissInv
<1>2. ASSUME NEW t \in Threads, OpenFails(t) PROVE MissInv'
  BY <1>2 DEF OpenFails, MissInv, Found, Known, Opening, InTrack, Remembered,
       Filled,
     MissedOnlyFor, EveryIoctlReported
<1>3. ASSUME NEW t \in Threads, TrackLoad(t) \/ StoreEntry(t) \/ StoreCount(t)
      PROVE  MissInv'
  <2>0. report' = report
    BY <1>3 DEF TrackLoad, StoreEntry, StoreCount
  <2>1. CASE overlapped'
    BY <2>0, <2>1 DEF MissInv, MissedOnlyFor
  <2>2. CASE ~overlapped'
    <3>1. /\ \A d \in Fds : Found(d) => Found(d)'
          /\ count = MaxTracked => count' = MaxTracked
          /\ \A u \in Threads \ {t} : thread'[u] = thread[u]
          /\ Opening(t)' => thread'[t].fd = thread[t].fd
          /\ ~Opening(t)' => thread'[t].pc = "idle"
          /\ \A d \in Fds : ~Opening(t)' /\ d = thread[t].fd => Found(d)'
          /\ UNCHANGED <<file, recycled, report>> /\ ~overlapped
      BY <1>3, <2>2, TableGrows DEF Found
    <3>2. \A u \in Threads \ {t} : Opening(u)' <=> Opening(u)
      BY <3>1 DEF Opening, InTrack
    <3>3. \A d \in Known' : d \in Known \/ (d = thread[t].fd /\ ~Opening(t)')
      BY <3>1, <3>2 DEF Known
    <3>4. \A d \in Known' : IsFastrpc(file'[d].path) => Found(d)'
      BY <3>1, <3>3 DEF MissInv, Known
    <3>5. thread'[t].pc # "ioctl"
      BY <3>1 DEF Opening, InTrack
    <3>6. ASSUME NEW u \in Threads, thread'[u].pc = "ioctl", IsFastrpc(thread'[u].on.path)
          PROVE  Found(thread[u].fd)'
      <4>1. thread'[u] = thread[u] /\ thread[u].fd \in Fds
        BY <1>0, <3>1, <3>5, <3>6 DEF Locals
      <4>2. Found(thread[u].fd)
        BY <3>1, <3>6, <4>1 DEF MissInv
      <4>3. QED
        BY <3>1, <4>1, <4>2
    <3>7. MissedOnlyFor'
      BY <3>1 DEF MissInv, MissedOnlyFor, EveryIoctlReported
    <3>8. QED
      BY <3>4, <3>6, <3>7 DEF MissInv
  <2>3. QED
    BY <2>1, <2>2
<1>4. ASSUME NEW t \in Threads, NEW d \in Fds, Close(t, d) PROVE MissInv'
  <2>1. \A e : Found(e) <=> Found(e)'
    BY <1>4, OtherSteps, SameTableKeeps DEF Found, SameTable
  <2>2. \A e \in Known' : e \in Known /\ file'[e] = file[e]
    BY <1>0, <1>4 DEF Close, Known, Opening, InTrack
  <2>3. UNCHANGED <<thread, overlapped, report, count>>
    BY <1>4 DEF Close
  <2>4. QED
    BY <2>1, <2>2, <2>3 DEF MissInv, MissedOnlyFor, EveryIoctlReported
<1>5. ASSUME NEW t \in Threads, NEW d \in Fds, Ioctl(t, d) PROVE MissInv'
  <2>1. \A e : Found(e) <=> Found(e)'
    BY <1>5, OtherSteps, SameTableKeeps DEF Found, SameTable
  <2>2. UNCHANGED <<file, overlapped, report, count>> /\ d \in Known
    BY <1>5 DEF Ioctl
  <2>3. \A u \in Threads : Opening(u)' <=> Opening(u)
    BY <1>0, <1>5 DEF Ioctl, Opening, InTrack, Locals
  <2>4. \A u \in Threads : Opening(u) => thread'[u] = thread[u]
    BY <1>0, <1>5 DEF Ioctl, Opening, InTrack
  <2>5. Known' = Known
    BY <2>2, <2>3, <2>4 DEF Known
  <2>6. thread'[t].fd = d /\ thread'[t].on = file[d]
    BY <1>0, <1>5 DEF Ioctl, Locals
  <2>7. \A u \in Threads \ {t} : thread'[u] = thread[u]
    BY <1>0, <1>5 DEF Ioctl
  <2>8. QED
    BY <2>1, <2>2, <2>5, <2>6, <2>7 DEF MissInv, MissedOnlyFor,
         EveryIoctlReported
<1>6. ASSUME NEW t \in Threads, Report(t) PROVE MissInv'
  <2>1. \A e : Found(e) <=> Found(e)'
    BY <1>6, OtherSteps, SameTableKeeps DEF Found, SameTable
  <2>2. UNCHANGED <<file, overlapped, count>>
    BY <1>6 DEF Report
  <2>3. \A u \in Threads : Opening(u) => thread'[u] = thread[u] /\ Opening(u)'
    BY <1>0, <1>6 DEF Report, Opening, InTrack
  <2>4. \A u \in Threads \ {t} : thread'[u] = thread[u]
    BY <1>0, <1>6 DEF Report
  <2>5. Known' \subseteq Known /\ thread'[t].pc = "idle"
    BY <1>0, <1>6, <2>2, <2>3 DEF Known, Report
  <2>6. report'.on = thread[t].on /\ report'.reported = IsTracked(thread[t].fd)
        /\ thread[t].pc = "ioctl"
    BY <1>6 DEF Report
  <2>7. MissedOnlyFor'
    <3>1. SUFFICES ASSUME ~overlapped, IsFastrpc(thread[t].on.path),
                          ~IsTracked(thread[t].fd)
                   PROVE  count = MaxTracked
      BY <2>2, <2>6 DEF MissedOnlyFor, EveryIoctlReported
    <3>2. Found(thread[t].fd)
      BY <2>6, <3>1 DEF MissInv
    <3>3. QED
      BY <3>1, <3>2, RememberedIsTracked DEF Found
  <2>8. QED
    BY <2>1, <2>2, <2>4, <2>5, <2>7 DEF MissInv
<1>7. CASE UNCHANGED vars
  BY <1>7 DEF vars, MissInv, Found, Known, Opening, InTrack, Remembered, Filled,
     MissedOnlyFor, EveryIoctlReported
<1>8. QED
  BY <1>1, <1>2, <1>3, <1>4, <1>5, <1>6, <1>7 DEF Next, Step, AnyOpen

LEMMA TrackSafe == Spec => [](TypeOK /\ TrackInv)
<1>1. Init => TrackInv
  BY DEF Init, TrackInv, InTrack, Idle
<1>2. QED
  BY <1>1, TypeInit, TypeStep, TrackStep, PTL DEF Spec

(* track and ioctl: with any number of threads, an ioctl on a fastrpc path *)
(* is missing from the trace only once two calls of track overlapped or    *)
(* the table is full.                                                      *)
THEOREM MissedForNothingElse == Spec => []MissedOnlyFor
<1>1. MissInv => MissedOnlyFor
  BY DEF MissInv
<1>2. QED
  BY <1>1, TrackSafe, MissInit, MissStep, PTL DEF Spec

-----------------------------------------------------------------------------
(* What is in the trace and should not be *)

OpeningInv == \A t \in Threads : Opening(t) => IsFastrpc(file[thread[t].fd].path)

(* Until a descriptor is closed too early, the one an ioctl is under way   *)
(* on is what it was, and the filled entries are of fastrpc paths.         *)
StrayInv ==
  /\ OpeningInv
  /\ ~recycled =>
       \A t \in Threads : thread[t].pc = "ioctl" =>
         file[thread[t].fd] = thread[t].on /\ thread[t].on # Free
  /\ ~recycled /\ ~overlapped =>
       \A j \in 0 .. count - 1 : Filled(j) => IsFastrpc(file[tracked[j]].path)
  /\ StrayOnlyFor

LEMMA StrayInit == Init => StrayInv
<1> SUFFICES ASSUME Init PROVE StrayInv
  OBVIOUS
<1>1. \A t \in Threads : thread[t].pc = "idle"
  BY DEF Init, Idle
<1>2. count = 0 /\ ~report.reported
  BY DEF Init, NoReport
<1>3. 0 .. count - 1 = {}
  BY <1>2
<1>4. QED
  BY <1>1, <1>2, <1>3 DEF StrayInv, OpeningInv, Opening, InTrack, StrayOnlyFor

LEMMA StrayStep ==
  ASSUME TypeOK, TrackInv, StrayInv, [Next]_vars
  PROVE  StrayInv'
<1>0. /\ thread \in [Threads -> Locals] /\ Idle.pc = "idle" /\ file \in [Fds -> Files]
      /\ count \in 0 .. MaxTracked /\ MaxTracked \in Nat
      /\ tracked \in [0 .. MaxTracked - 1 -> Fds]
      /\ \A j \in 0 .. count - 1 : tracked[j] \in Fds
  <2>1. count \in 0 .. MaxTracked /\ MaxTracked \in Nat
        /\ tracked \in [0 .. MaxTracked - 1 -> Fds]
    BY ShimAssumption DEF TypeOK
  <2>2. \A j \in 0 .. count - 1 : tracked[j] \in Fds
    BY <2>1
  <2>3. QED
    BY <2>1, <2>2, IdleTyped DEF TypeOK, Locals
<1>1. ASSUME NEW t \in Threads, NEW p \in Paths, NEW mode \in Modes, AnyOpen(t, p, mode)
      PROVE  StrayInv'
  <2>1. PICK d \in Fds : OpenedAs(t, p, mode, d)
    BY <1>1, OpenChanges
  <2>2. SameTable
    BY <1>1, OtherSteps
  <2>3. UNCHANGED <<tracked, count, overlapped, recycled, report>> /\ file[d] = Free
    BY <2>1 DEF OpenedAs
  <2>4. \A e \in Fds \ {d} : file'[e] = file[e]
    BY <1>0, <2>1 DEF OpenedAs
  <2>5. ~IsFastrpc(file[d].path)
    BY <2>3 DEF Free, IsFastrpc
  <2>6. file'[d].path = p
    BY <1>0, <2>1 DEF OpenedAs
  <2>7. OpeningInv'
    <3>1. ASSUME NEW u \in Threads, Opening(u)' PROVE IsFastrpc(file[thread[u].fd].path)'
      <4>1. CASE Opening(u)
        <5>1. thread'[u].fd = thread[u].fd /\ thread[u].fd \in Fds
          BY <1>0, <2>1, <4>1 DEF OpenedAs, Opening, InTrack, Locals
        <5>2. IsFastrpc(file[thread[u].fd].path)
          BY <4>1 DEF StrayInv, OpeningInv
        <5>3. thread[u].fd # d
          BY <2>5, <5>2
        <5>4. QED
          BY <2>4, <5>1, <5>2, <5>3
      <4>2. CASE ~Opening(u)
        <5>1. u = t /\ IsFastrpc(p) /\ thread'[u].fd = d
          BY <1>0, <2>1, <3>1, <4>2 DEF OpenedAs, Opening, InTrack, Locals
        <5>2. QED
          BY <2>6, <5>1
      <4>3. QED
        BY <4>1, <4>2
    <3>2. QED
      BY <3>1 DEF OpeningInv
  <2>8. ASSUME ~recycled, NEW u \in Threads, thread'[u].pc = "ioctl"
        PROVE  file'[thread'[u].fd] = thread'[u].on /\ thread'[u].on # Free
    <3>1. thread'[u] = thread[u] /\ thread[u].fd \in Fds
      BY <1>0, <2>1, <2>8 DEF OpenedAs, Locals
    <3>2. file[thread[u].fd] = thread[u].on /\ thread[u].on # Free
      BY <2>8, <3>1 DEF StrayInv
    <3>3. QED
      BY <2>3, <2>4, <3>1, <3>2
  <2>9. ASSUME ~recycled, ~overlapped, NEW j \in 0 .. count - 1, Filled(j)'
        PROVE  IsFastrpc(file'[tracked[j]].path)
    <3>1. IsFastrpc(file[tracked[j]].path)
      BY <2>2, <2>9, SameTableKeeps DEF StrayInv
    <3>2. tracked[j] \in Fds \ {d}
      BY <1>0, <2>5, <3>1
    <3>3. QED
      BY <2>4, <3>1, <3>2
  <2>10. StrayOnlyFor'
    BY <2>3 DEF StrayInv, StrayOnlyFor
  <2>11. QED
    BY <2>3, <2>7, <2>8, <2>9, <2>10 DEF StrayInv
<1>2. ASSUME NEW t \in Threads, OpenFails(t) PROVE StrayInv'
  BY <1>2 DEF OpenFails, StrayInv, OpeningInv, Opening, InTrack, Filled,
       StrayOnlyFor
<1>3. ASSUME NEW t \in Threads, TrackLoad(t) \/ StoreEntry(t) \/ StoreCount(t)
      PROVE  StrayInv'
  <2>0. UNCHANGED <<file, recycled, report>>
    BY <1>3 DEF TrackLoad, StoreEntry, StoreCount
  <2>a. overlapped => overlapped'
    BY <1>3 DEF TrackLoad, StoreEntry, StoreCount
  <2>1. OpeningInv'
    <3>1. \A u \in Threads : Opening(u)' => Opening(u) /\ thread'[u].fd = thread[u].fd
      <4>1. CASE TrackLoad(t)
        BY <1>0, <4>1 DEF TrackLoad, Opening, InTrack, Locals
      <4>2. CASE StoreEntry(t)
        BY <1>0, <4>2 DEF StoreEntry, Opening, InTrack, Locals
      <4>3. CASE StoreCount(t)
        BY <1>0, <4>3 DEF StoreCount, Opening, InTrack, Locals
      <4>4. QED
        BY <1>3, <4>1, <4>2, <4>3
    <3>2. QED
      BY <2>0, <3>1 DEF StrayInv, OpeningInv
  <2>2. \A u \in Threads : thread'[u].pc = "ioctl" => thread'[u] = thread[u]
    BY <1>0, <1>3 DEF TrackLoad, StoreEntry, StoreCount, Locals
  <2>3. StrayOnlyFor'
    BY <2>0, <2>a DEF StrayInv, StrayOnlyFor
  <2>4. ASSUME ~recycled, ~overlapped', NEW j \in 0 .. count' - 1, Filled(j)'
        PROVE  IsFastrpc(file[tracked'[j]].path)
    <3>1. ~overlapped /\ TrackInv
      BY <2>4, <2>a
    <3>2. IsFastrpc(file[thread[t].fd].path)
      BY <1>3 DEF StrayInv, OpeningInv, Opening, InTrack, TrackLoad, StoreEntry,
           StoreCount
    <3>3. \A u \in Threads : InTrack(t) /\ InTrack(u) => u = t
      BY <3>1 DEF TrackInv
    <3>4. /\ thread[t].pc \in {"either", "count"} => thread[t].n = count
          /\ thread[t].pc = "entry" => thread[t].n + 1 = count
          /\ thread[t].pc = "count" => tracked[thread[t].n] = thread[t].fd
      BY <3>1 DEF TrackInv
    <3>5. \A k \in 0 .. count - 1 : Filled(k) => IsFastrpc(file[tracked[k]].path)
      BY <2>4, <3>1 DEF StrayInv
    <3>6. CASE TrackLoad(t)
      <4>1. Filled(j)' => Filled(j)
        BY <1>0, <3>6 DEF TrackLoad, Filled, Locals
      <4>2. QED
        BY <2>4, <3>5, <3>6, <4>1 DEF TrackLoad
    <3>7. CASE StoreEntry(t)
      <4>1. thread[t].n \in 0 .. MaxTracked - 1 /\ count' = count
            /\ tracked' = [tracked EXCEPT ![thread[t].n] = thread[t].fd]
        BY <1>0, <3>7 DEF StoreEntry, TypeOK, InTrack
      <4>2. CASE j = thread[t].n
        BY <1>0, <3>2, <4>1, <4>2
      <4>3. CASE j # thread[t].n
        <5>1. Filled(j)
          BY <1>0, <2>4, <3>7, <4>3 DEF StoreEntry, Filled
        <5>2. tracked'[j] = tracked[j]
          BY <1>0, <2>4, <4>1, <4>3
        <5>3. QED
          BY <2>4, <3>5, <4>1, <5>1, <5>2
      <4>4. QED
        BY <4>2, <4>3
    <3>8. CASE StoreCount(t)
      <4>1. thread[t].n = count /\ count' = count + 1 /\ tracked' = tracked
        BY <3>4, <3>8 DEF StoreCount
      <4>2. CASE j = count
        <5>1. thread[t].pc = "either" => thread'[t].pc = "entry" /\ thread'[t].n = j
          BY <1>0, <3>8, <4>1, <4>2 DEF StoreCount, Locals
        <5>2. thread[t].pc = "count"
          BY <2>4, <3>8, <5>1 DEF StoreCount, Filled
        <5>3. QED
          BY <3>2, <3>4, <4>1, <4>2, <5>2
      <4>3. CASE j # count
        <5>1. j \in 0 .. count - 1
          BY <1>0, <2>4, <4>1, <4>3
        <5>2. Filled(j)
          BY <1>0, <2>4, <3>8 DEF StoreCount, Filled
        <5>3. QED
          BY <3>5, <4>1, <5>1, <5>2
      <4>4. QED
        BY <4>2, <4>3
    <3>9. QED
      BY <1>3, <3>6, <3>7, <3>8
  <2>5. QED
    BY <2>0, <2>1, <2>2, <2>3, <2>4 DEF StrayInv
<1>4. ASSUME NEW t \in Threads, NEW d \in Fds, Close(t, d) PROVE StrayInv'
  <2>1. /\ UNCHANGED <<tracked, count, thread, overlapped, report>>
        /\ file' = [file EXCEPT ![d] = Free] /\ d \in Known
    BY <1>4 DEF Close
  <2>2. OpeningInv'
    BY <1>0, <2>1 DEF StrayInv, OpeningInv, Opening, InTrack, Known, Locals
  <2>3. recycled => recycled'
    BY <1>4 DEF Close
  <2>4. StrayOnlyFor'
    BY <2>1, <2>3 DEF StrayInv, StrayOnlyFor
  <2>5. ~recycled' => /\ ~recycled /\ ~IsFastrpc(file[d].path)
                      /\ \A u \in Threads : thread[u].pc = "ioctl" => thread[u].fd # d
    BY <1>4 DEF Close
  <2>6. ASSUME ~recycled', NEW u \in Threads, thread[u].pc = "ioctl"
        PROVE  file'[thread[u].fd] = thread[u].on /\ thread[u].on # Free
    <3>1. thread[u].fd \in Fds
      BY <1>0 DEF Locals
    <3>2. QED
      BY <1>0, <2>1, <2>5, <2>6, <3>1 DEF StrayInv
  <2>7. \A j : Filled(j)' <=> Filled(j)
    BY <2>1 DEF Filled
  <2>8. ASSUME ~recycled', ~overlapped, NEW j \in 0 .. count - 1, Filled(j)
        PROVE  IsFastrpc(file'[tracked[j]].path)
    <3>1. IsFastrpc(file[tracked[j]].path)
      BY <2>5, <2>8 DEF StrayInv
    <3>2. tracked[j] \in Fds /\ tracked[j] # d
      BY <1>0, <2>5, <2>8, <3>1
    <3>3. QED
      BY <1>0, <2>1, <3>1, <3>2
  <2>9. QED
    BY <2>1, <2>2, <2>4, <2>6, <2>7, <2>8 DEF StrayInv
<1>5. ASSUME NEW t \in Threads, NEW d \in Fds, Ioctl(t, d) PROVE StrayInv'
  <2>1. UNCHANGED <<file, tracked, count, overlapped, recycled, report>>
        /\ file[d] # Free
    BY <1>5 DEF Ioctl, Known
  <2>2. \A u \in Threads : Opening(u)' => Opening(u) /\ thread'[u] = thread[u]
    BY <1>0, <1>5 DEF Ioctl, Opening, InTrack, Locals
  <2>3. thread'[t].fd = d /\ thread'[t].on = file[d]
    BY <1>0, <1>5 DEF Ioctl, Locals
  <2>4. \A u \in Threads \ {t} : thread'[u] = thread[u]
    BY <1>0, <1>5 DEF Ioctl
  <2>5. \A j : Filled(j)' <=> Filled(j)
    BY <1>5, OtherSteps, SameTableKeeps
  <2>6. OpeningInv'
    BY <2>1, <2>2 DEF StrayInv, OpeningInv
  <2>7. StrayOnlyFor'
    BY <2>1 DEF StrayInv, StrayOnlyFor
  <2>8. ~recycled' =>
          \A u \in Threads : thread'[u].pc = "ioctl" =>
            file'[thread'[u].fd] = thread'[u].on /\ thread'[u].on # Free
    BY <2>1, <2>3, <2>4 DEF StrayInv
  <2>9. ~recycled' /\ ~overlapped' =>
          \A j \in 0 .. count' - 1 : Filled(j)' => IsFastrpc(file'[tracked'[j]].path)
    BY <2>1, <2>5 DEF StrayInv
  <2>10. QED
    BY <2>6, <2>7, <2>8, <2>9 DEF StrayInv
<1>6. ASSUME NEW t \in Threads, Report(t) PROVE StrayInv'
  <2>1. UNCHANGED <<file, tracked, count, overlapped, recycled>>
    BY <1>6 DEF Report
  <2>2. \A u \in Threads : Opening(u)' => Opening(u) /\ thread'[u] = thread[u]
    BY <1>0, <1>6 DEF Report, Opening, InTrack
  <2>3. \A u \in Threads : thread'[u].pc = "ioctl" => thread'[u] = thread[u]
    BY <1>0, <1>6 DEF Report
  <2>4. \A j : Filled(j)' <=> Filled(j)
    BY <1>6, OtherSteps, SameTableKeeps
  <2>5. OpeningInv'
    BY <2>1, <2>2 DEF StrayInv, OpeningInv
  <2>6. /\ report'.on = thread[t].on /\ report'.reported = IsTracked(thread[t].fd)
        /\ report'.storing = (\E u \in Threads : InTrack(u)) /\ thread[t].pc = "ioctl"
    BY <1>6 DEF Report
  <2>7. StrayOnlyFor'
    <3>1. SUFFICES ASSUME ~recycled, ~overlapped, IsTracked(thread[t].fd),
                          \A u \in Threads : ~InTrack(u)
                   PROVE  IsFastrpc(thread[t].on.path)
      BY <2>1, <2>6 DEF StrayOnlyFor
    <3>2. PICK j \in 0 .. count - 1 : tracked[j] = thread[t].fd
      BY <3>1 DEF IsTracked
    <3>3. Filled(j)
      BY <3>1 DEF Filled, InTrack
    <3>4. QED
      BY <2>6, <3>1, <3>2, <3>3 DEF StrayInv
  <2>8. ~recycled' =>
          \A u \in Threads : thread'[u].pc = "ioctl" =>
            file'[thread'[u].fd] = thread'[u].on /\ thread'[u].on # Free
    BY <2>1, <2>3 DEF StrayInv
  <2>9. ~recycled' /\ ~overlapped' =>
          \A j \in 0 .. count' - 1 : Filled(j)' => IsFastrpc(file'[tracked'[j]].path)
    BY <2>1, <2>4 DEF StrayInv
  <2>10. QED
    BY <2>5, <2>7, <2>8, <2>9 DEF StrayInv
<1>7. CASE UNCHANGED vars
  BY <1>7 DEF vars, StrayInv, OpeningInv, Opening, InTrack, Filled, StrayOnlyFor
<1>8. QED
  BY <1>1, <1>2, <1>3, <1>4, <1>5, <1>6, <1>7 DEF Next, Step, AnyOpen

(* ioctl: with any number of threads, an ioctl on something else is in the *)
(* trace only for the three reasons the property names.                    *)
THEOREM StrayForNothingElse == Spec => []StrayOnlyFor
<1>1. StrayInv => StrayOnlyFor
  BY DEF StrayInv
<1>2. QED
  BY <1>1, TrackSafe, StrayInit, StrayStep, PTL DEF Spec
=============================================================================
