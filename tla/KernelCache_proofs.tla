------------------------- MODULE KernelCache_proofs -------------------------
(***************************************************************************)
(* Proofs about KernelCache for every set of threads, processes, kernels    *)
(* and configurations.                                                      *)
(***************************************************************************)
EXTENDS KernelCacheInv, TLAPS

LEMMA ContentsTyped ==
    /\ Absent \in Content /\ Created \in Content
    /\ NoFile \notin Key /\ Partial \notin Key /\ Kernelless \notin Key
  BY CacheAssumption DEF Absent, Created, Content

LEMMA KeyTyped ==
    ASSUME TypeOK, NEW t \in Thread
    PROVE  /\ ProcOf[t] \in Proc /\ CacheKey(t) \in Key /\ DirPath(t) \in Dir
           /\ TmpDir(t) \in Content /\ CacheDir(t) \in Content
  BY CacheAssumption DEF TypeOK, CacheKey, DirPath, TmpDir, CacheDir, Key

LEMMA StartTyped ==
    ASSUME TypeOK, NEW t \in Thread, NEW source \in Source, StartScope(t, source)
    PROVE  /\ scope' \in [Thread -> {"none"} \cup Source]
           /\ events' \in [Thread -> Seq(Event)]
<1>1. [phase |-> "start", source |-> source, success |-> TRUE] \in Event
  BY DEF Event
<1>2. QED BY <1>1 DEF TypeOK, StartScope

LEMMA FinishTyped ==
    ASSUME TypeOK, NEW t \in Thread, NEW success \in BOOLEAN, FinishScope(t, success)
    PROVE  /\ scope' \in [Thread -> {"none"} \cup Source]
           /\ events' \in [Thread -> Seq(Event)]
<1>1. CASE scope[t] = "none"
  BY <1>1 DEF FinishScope, TypeOK
<1>2. CASE scope[t] # "none"
  <2>1. [phase |-> "finish", source |-> scope[t], success |-> success] \in Event
    BY <1>2 DEF Event, TypeOK
  <2>2. Append(events[t], [phase |-> "finish", source |-> scope[t],
                           success |-> success]) \in Seq(Event)
    BY <2>1 DEF TypeOK
  <2>3. events' = [events EXCEPT ![t] = Append(events[t], [phase |-> "finish",
                        source |-> scope[t], success |-> success])]
        /\ scope' = [scope EXCEPT ![t] = "none"]
    BY <1>2 DEF FinishScope, TypeOK
  <2>4. events' \in [Thread -> Seq(Event)]
    BY <2>2, <2>3 DEF TypeOK
  <2>5. QED BY <2>3, <2>4 DEF TypeOK
<1>3. QED BY <1>1, <1>2

LEMMA ContentUpdates ==
    ASSUME NEW c \in Content
    PROVE  /\ \A cu \in {NoFile, Partial} \cup Kernel : [c EXCEPT !.cu = cu] \in Content
           /\ \A cubin \in {NoFile, Partial, Kernelless} \cup Key :
                [c EXCEPT !.cubin = cubin] \in Content
  BY DEF Content

LEMMA TmpTyped ==
    ASSUME TypeOK, NEW t \in Thread, NEW content \in Content, SetTmp(t, content)
    PROVE  tmp' \in [Proc -> [Dir -> Content]]
  BY KeyTyped DEF SetTmp, TypeOK

LEMMA PlacesTyped ==
    ASSUME TypeOK, NEW t \in Thread
    PROVE  /\ Renamed(t) \in [Thread -> {"none", "tmp", "cache", "gone"}]
           /\ Emptied(t) \in [Thread -> {"none", "tmp", "cache", "gone"}]
           /\ \A file : Unlinked(t, file) \in [Thread -> {"none", "tmp", "cache", "gone"}]
           /\ Close(t) => out' \in [Thread -> {"none", "tmp", "cache", "gone"}]
  BY DEF Renamed, Emptied, Unlinked, Close, TypeOK

\* A step that changes the directory in which t has something open.
LEMMA OpenedTyped ==
    ASSUME TypeOK, NEW t \in Thread
    PROVE  /\ Opened(t) \in Content
           /\ \A file : Without(Opened(t), file) \in Content
           /\ \A content \in Content : SetOpened(t, content) =>
                tmp' \in [Proc -> [Dir -> Content]] /\ cache' \in [Dir -> Content]
<1>1. Opened(t) \in Content
  BY KeyTyped, ContentsTyped DEF Opened
<1>2. \A file : Without(Opened(t), file) \in Content
  BY <1>1, ContentUpdates DEF Without
<1>3. ASSUME NEW content \in Content, SetOpened(t, content)
      PROVE  tmp' \in [Proc -> [Dir -> Content]] /\ cache' \in [Dir -> Content]
  <2>1. tmp' \in [Proc -> [Dir -> Content]]
    BY <1>3, TmpTyped DEF SetOpened, TypeOK
  <2>2. cache' \in [Dir -> Content]
    BY <1>3, KeyTyped DEF SetOpened, TypeOK
  <2>3. QED BY <2>1, <2>2
<1>4. QED BY <1>1, <1>2, <1>3

\* What a step changes, one variable at a time.
LEMMA GotoTyped ==
    ASSUME TypeOK, NEW t \in Thread, NEW label \in PC, Goto(t, label)
    PROVE  pc' \in [Thread -> PC]
  BY DEF TypeOK, Goto

LEMMA ThrowTyped ==
    ASSUME TypeOK, NEW t \in Thread, Throw(t)
    PROVE  /\ pc' \in [Thread -> PC]
           /\ outcome' \in [Thread -> {"none", "ok", "error", "fault"}]
           /\ scope' \in [Thread -> {"none"} \cup Source]
           /\ events' \in [Thread -> Seq(Event)]
  BY FinishTyped, GotoTyped DEF TypeOK, Throw, PC

LEMMA RemovedTyped ==
    ASSUME TypeOK, NEW t \in Thread, Removed(t)
    PROVE  /\ pc' \in [Thread -> PC]
           /\ outcome' \in [Thread -> {"none", "ok", "error", "fault"}]
           /\ scope' \in [Thread -> {"none"} \cup Source]
           /\ events' \in [Thread -> Seq(Event)]
<1>1. CASE pc[t] = "clearTmp" /\ Goto(t, "createTmp") /\ UNCHANGED <<outcome, scope, events>>
  BY <1>1, GotoTyped DEF TypeOK, PC, Building, Compiling
<1>2. CASE pc[t] = "leaveTmp" /\ Goto(t, "recover") /\ UNCHANGED <<outcome, scope, events>>
  BY <1>2, GotoTyped DEF TypeOK, PC, Building, Compiling
<1>3. CASE Throw(t)
  BY <1>3, ThrowTyped
<1>4. QED BY <1>1, <1>2, <1>3 DEF Removed

LEMMA TypeCorrectInit == Init => TypeOK
  BY CacheAssumption, ContentsTyped DEF Init, TypeOK, PC, Content, Key

LEMMA TypeCorrectStep == TypeOK /\ [Next]_vars => TypeOK'
<1> SUFFICES ASSUME TypeOK, [Next]_vars PROVE TypeOK'
  OBVIOUS
<1> USE DEF PC, Building, Compiling, Removing, NvccFails, local, disk, gpu
<1>1. ASSUME NEW t \in Thread, NEW q \in Kernel, Call(t, q) PROVE TypeOK'
  BY <1>1 DEF Call, Goto, TypeOK
<1>2. ASSUME NEW t \in Thread, LookupHit(t) PROVE TypeOK'
  <2>1. kernels[ProcOf[t]][req[t]] \in Lib \cup {NoLib}
    BY KeyTyped DEF TypeOK
  <2>2. QED BY <1>2, <2>1, GotoTyped DEF LookupHit, TypeOK
<1>3. ASSUME NEW t \in Thread, LookupMiss(t) PROVE TypeOK'
  BY <1>3 DEF LookupMiss, Goto, TypeOK
<1>4. ASSUME NEW t \in Thread, Probe(t) PROVE TypeOK'
  <2>1. CASE CacheDir(t).cubin # NoFile
    BY <1>4, <2>1, StartTyped, GotoTyped DEF Probe, TypeOK, Source
  <2>2. CASE CacheDir(t).cubin = NoFile
    BY <1>4, <2>2, StartTyped, GotoTyped DEF Probe, TypeOK, Source
  <2>3. QED BY <2>1, <2>2
<1>5. ASSUME NEW t \in Thread, ListTmp(t) PROVE TypeOK'
  <2>1. Files(TmpDir(t)) \in SUBSET {"cu", "cubin"}
    BY DEF Files
  <2>2. CASE TmpDir(t).exists
    <3>1. /\ todo' = [todo EXCEPT ![t] = Files(TmpDir(t))]
          /\ out' = [out EXCEPT ![t] = "tmp"]
          /\ UNCHANGED <<pc, req, held, outcome, image, scope, events, disk, kernels, gpu>>
      BY <1>5, <2>2 DEF ListTmp
    <3>2. todo' \in [Thread -> SUBSET {"cu", "cubin"}]
          /\ out' \in [Thread -> {"none", "tmp", "cache", "gone"}]
      BY <2>1, <3>1 DEF TypeOK
    <3>3. QED BY <3>1, <3>2 DEF TypeOK
  <2>3. CASE ~TmpDir(t).exists
    BY <1>5, <2>3, RemovedTyped DEF ListTmp, TypeOK
  <2>4. QED BY <2>2, <2>3
<1>6. ASSUME NEW t \in Thread, CreateTmp(t) PROVE TypeOK'
  BY <1>6, ContentsTyped, KeyTyped, TmpTyped, GotoTyped DEF CreateTmp, TypeOK
<1>7. ASSUME NEW t \in Thread, OpenSource(t) PROVE TypeOK'
  <2>1. [TmpDir(t) EXCEPT !.cu = Partial] \in Content
    BY KeyTyped, ContentUpdates
  <2>2. CASE TmpDir(t).exists
    BY <1>7, <2>1, <2>2, TmpTyped, GotoTyped DEF OpenSource, TypeOK
  <2>3. CASE ~TmpDir(t).exists
    BY <1>7, <2>3, ThrowTyped DEF OpenSource, TypeOK
  <2>4. QED BY <2>2, <2>3
<1>8. ASSUME NEW t \in Thread, WriteSource(t) PROVE TypeOK'
  <2>1. [Opened(t) EXCEPT !.cu = req[t]] \in Content
    BY OpenedTyped, ContentUpdates DEF TypeOK
  <2>2. tmp' \in [Proc -> [Dir -> Content]] /\ cache' \in [Dir -> Content]
    BY <1>8, <2>1, OpenedTyped DEF WriteSource
  <2>3. QED BY <1>8, <2>2, PlacesTyped, GotoTyped DEF WriteSource, TypeOK
<1>9. ASSUME NEW t \in Thread, NvccRead(t) PROVE TypeOK'
  <2>1. TmpDir(t).cu \notin {NoFile, Partial}
          => <<TmpDir(t).cu, ConfigOf[ProcOf[t]]>> \in Key
    BY KeyTyped, CacheAssumption DEF Content, Key
  <2>2. CASE TmpDir(t).cu = NoFile
    BY <1>9, <2>2, GotoTyped DEF NvccRead, TypeOK
  <2>3. CASE TmpDir(t).cu # NoFile
    <3>1. image' \in [Thread -> {Kernelless} \cup Key]
      BY <1>9, <2>1, <2>3 DEF NvccRead, TypeOK
    <3>2. Goto(t, "nvccOpen")
      BY <1>9, <2>3 DEF NvccRead
    <3>3. UNCHANGED <<req, held, outcome, out, todo, scope, events, disk, kernels, gpu>>
      BY <1>9 DEF NvccRead
    <3>4. pc' \in [Thread -> PC]
      BY <3>2, GotoTyped
    <3>5. QED BY <3>1, <3>3, <3>4 DEF TypeOK
  <2>4. QED BY <2>2, <2>3
<1>10. ASSUME NEW t \in Thread, NvccOpen(t) PROVE TypeOK'
  <2>1. [TmpDir(t) EXCEPT !.cubin = Partial] \in Content
    BY KeyTyped, ContentUpdates
  <2>2. CASE TmpDir(t).exists
    BY <1>10, <2>1, <2>2, TmpTyped, GotoTyped DEF NvccOpen, TypeOK
  <2>3. CASE ~TmpDir(t).exists
    BY <1>10, <2>3, GotoTyped DEF NvccOpen, TypeOK
  <2>4. QED BY <2>2, <2>3
<1>11. ASSUME NEW t \in Thread, NvccWrite(t) PROVE TypeOK'
  <2> DEFINE result == IF \E u \in Thread \ {t} :
                           pc[u] = "nvccWrite" /\ out[u] = out[t] /\ SameTmp(t, u)
                       THEN Partial ELSE image[t]
  <2>1. result \in {NoFile, Partial, Kernelless} \cup Key
    BY DEF TypeOK
  <2>2. [Opened(t) EXCEPT !.cubin = result] \in Content
    BY <2>1, OpenedTyped, ContentUpdates
  <2> HIDE DEF result
  <2>3. SetOpened(t, [Opened(t) EXCEPT !.cubin = result])
    BY <1>11 DEF NvccWrite, result
  <2>4. tmp' \in [Proc -> [Dir -> Content]] /\ cache' \in [Dir -> Content]
    BY <2>2, <2>3, OpenedTyped
  <2>5. QED BY <1>11, <2>4, PlacesTyped, GotoTyped DEF NvccWrite, TypeOK
<1>12. ASSUME NEW t \in Thread, NEW file \in {"cu", "cubin"},
              Unlink(t, file) \/ UnlinkMissing(t, file)
       PROVE TypeOK'
  <2>1. CASE Unlink(t, file)
    <3>1. tmp' \in [Proc -> [Dir -> Content]] /\ cache' \in [Dir -> Content]
      BY <2>1, OpenedTyped DEF Unlink
    <3>2. out' \in [Thread -> {"none", "tmp", "cache", "gone"}]
      BY <2>1, PlacesTyped DEF Unlink
    <3>3. QED BY <2>1, <3>1, <3>2 DEF Unlink, TypeOK
  <2>2. CASE UnlinkMissing(t, file)
    <3>1. CASE Throw(t) /\ Close(t) /\ todo' = [todo EXCEPT ![t] = {}]
      BY <2>2, <3>1, ThrowTyped, PlacesTyped DEF UnlinkMissing, TypeOK
    <3>2. CASE todo' = [todo EXCEPT ![t] = @ \ {file}] /\ UNCHANGED <<pc, outcome, scope, events, out>>
      BY <2>2, <3>2 DEF UnlinkMissing, TypeOK
    <3>3. QED BY <2>2, <3>1, <3>2 DEF UnlinkMissing
  <2>3. QED BY <1>12, <2>1, <2>2
<1>24. ASSUME NEW t \in Thread, RemoveTmp(t) PROVE TypeOK'
  <2>1. /\ tmp' \in [Proc -> [Dir -> Content]]
        /\ out' \in [Thread -> {"none", "tmp", "cache", "gone"}]
    BY <1>24, ContentsTyped, TmpTyped, PlacesTyped DEF RemoveTmp, TypeOK
  <2>2. /\ pc' \in [Thread -> PC]
        /\ outcome' \in [Thread -> {"none", "ok", "error", "fault"}]
        /\ scope' \in [Thread -> {"none"} \cup Source]
        /\ events' \in [Thread -> Seq(Event)]
    BY <1>24, RemovedTyped, ThrowTyped DEF RemoveTmp
  <2>3. QED BY <1>24, <2>1, <2>2 DEF RemoveTmp, TypeOK
<1>13. ASSUME NEW t \in Thread, Publish(t) PROVE TypeOK'
  <2>1. CASE CanRename(t)
    <3>1. /\ cache' = [cache EXCEPT ![DirPath(t)] = TmpDir(t)]
          /\ SetTmp(t, Absent) /\ out' = Renamed(t) /\ Goto(t, "load")
          /\ UNCHANGED <<req, held, outcome, todo, image, scope, events, lost, kernels, gpu>>
      BY <1>13, <2>1 DEF Publish
    <3>2. cache' \in [Dir -> Content]
      BY <3>1, KeyTyped DEF TypeOK
    <3>3. tmp' \in [Proc -> [Dir -> Content]]
      BY <3>1, ContentsTyped, TmpTyped
    <3>4. out' \in [Thread -> {"none", "tmp", "cache", "gone"}]
      BY <3>1, PlacesTyped
    <3>5. pc' \in [Thread -> PC]
      BY <3>1, GotoTyped
    <3>6. QED BY <3>1, <3>2, <3>3, <3>4, <3>5 DEF TypeOK
  <2>2. CASE ~CanRename(t)
    BY <1>13, <2>2, GotoTyped DEF Publish, TypeOK
  <2>3. QED BY <2>1, <2>2
<1>14. ASSUME NEW t \in Thread, Recover(t) PROVE TypeOK'
  <2>1. CASE CacheDir(t).cubin # NoFile
    BY <1>14, <2>1, GotoTyped DEF Recover, TypeOK
  <2>2. CASE CacheDir(t).cubin = NoFile
    BY <1>14, <2>2, ThrowTyped DEF Recover, TypeOK
  <2>3. QED BY <2>1, <2>2
<1>15. ASSUME NEW t \in Thread, Load(t) PROVE TypeOK'
  <2>1. CASE CacheDir(t).cubin \in Key
    <3>1. [by |-> t, kernel |-> req[t], image |-> CacheDir(t).cubin] \in Lib
      BY <2>1 DEF Lib, TypeOK
    <3>2. QED BY <1>15, <2>1, <3>1, GotoTyped DEF Load, Loadable, TypeOK
  <2>2. CASE CacheDir(t).cubin \notin Key
    BY <1>15, <2>2, ThrowTyped DEF Load, Loadable, TypeOK
  <2>3. QED BY <2>1, <2>2
<1>16. ASSUME NEW t \in Thread, Store(t) PROVE TypeOK'
  <2>1. /\ scope' \in [Thread -> {"none"} \cup Source]
        /\ events' \in [Thread -> Seq(Event)]
    BY <1>16, FinishTyped DEF Store
  <2>2. QED BY <1>16, <2>1, GotoTyped DEF Store, TypeOK
<1>17. ASSUME NEW t \in Thread, Launch(t) PROVE TypeOK'
  BY <1>17, GotoTyped DEF Launch, TypeOK
<1>18. ASSUME NEW t \in Thread, Release(t) PROVE TypeOK'
  BY <1>18, GotoTyped DEF Release, TypeOK
<1>19. ASSUME NEW t \in Thread, Refused(t) PROVE TypeOK'
  <2>1. /\ scope' \in [Thread -> {"none"} \cup Source]
        /\ events' \in [Thread -> Seq(Event)]
    BY <1>19, FinishTyped DEF Refused, TypeOK
  <2>2. pc' \in [Thread -> PC]
    BY <1>19, GotoTyped DEF Refused
  <2>3. /\ outcome' \in [Thread -> {"none", "ok", "error", "fault"}]
        /\ out' \in [Thread -> {"none", "tmp", "cache", "gone"}]
    BY <1>19, PlacesTyped DEF Refused, TypeOK
  <2>4. QED BY <1>19, <2>1, <2>2, <2>3 DEF Refused, TypeOK
<1>25. ASSUME NEW t \in Thread, LoseSource(t) PROVE TypeOK'
  BY <1>25, KeyTyped, PlacesTyped, GotoTyped DEF LoseSource, TypeOK
<1>20. ASSUME NEW lib \in inflight, Complete(lib) PROVE TypeOK'
  BY <1>20 DEF Complete, TypeOK
<1>21. ASSUME NEW p \in Proc, Crash(p) PROVE TypeOK'
  BY <1>21, ContentsTyped DEF Crash, TypeOK
<1>22. CASE UNCHANGED vars
  BY <1>22 DEF vars, TypeOK
<1>23. QED
  BY <1>1, <1>2, <1>3, <1>4, <1>5, <1>6, <1>7, <1>8, <1>9, <1>10, <1>11, <1>12, <1>13,
     <1>14, <1>15, <1>16, <1>17, <1>18, <1>19, <1>20, <1>21, <1>22, <1>24, <1>25
     DEF Next, Step, BuildStep

\* The type invariant of the kernel cache.
THEOREM TypeCorrect == Spec => []TypeOK
  BY TypeCorrectInit, TypeCorrectStep, PTL DEF Spec

-----------------------------------------------------------------------------
(***************************************************************************)
(* Steps of a thread.                                                       *)
(***************************************************************************)

\* What thread t does while it compiles ...
CompileStep(t) ==
    \/ ListTmp(t) \/ RemoveTmp(t)
    \/ \E file \in {"cu", "cubin"} : Unlink(t, file) \/ UnlinkMissing(t, file)
    \/ CreateTmp(t) \/ OpenSource(t) \/ WriteSource(t) \/ LoseSource(t)
    \/ NvccRead(t) \/ NvccOpen(t) \/ NvccWrite(t)
    \/ Publish(t) \/ Recover(t)

\* ... and whatever it does.
ThreadStep(t) ==
    \/ \E q \in Kernel : Call(t, q)
    \/ LookupHit(t) \/ LookupMiss(t) \/ Probe(t)
    \/ CompileStep(t)
    \/ Load(t) \/ Store(t) \/ Launch(t) \/ Release(t)
    \/ Refused(t)

LEMMA StepsOfNext ==
    Next <=> \/ \E t \in Thread : ThreadStep(t)
             \/ \E lib \in inflight : Complete(lib)
             \/ \E p \in Proc : Crash(p)
  BY DEF Next, ThreadStep, CompileStep, Step, BuildStep

\* Where t goes, with what it has to tell.
Quietly(t, label) == Goto(t, label) /\ UNCHANGED <<outcome, scope, events>>

\* A compiling thread goes on compiling, to the load, or throws; it touches no
\* library and no image but that of its own nvcc.
LEMMA CompileMoves ==
    ASSUME TypeOK, NEW t \in Thread, CompileStep(t)
    PROVE  /\ pc[t] \in Compiling
           /\ UNCHANGED <<req, held, kernels, loaded, inflight>>
           /\ Throw(t) \/ \E label \in Compiling \cup {"load"} : Quietly(t, label)
           /\ \A u \in Thread : u # t => image'[u] = image[u] /\ todo'[u] = todo[u]
<1> USE DEF local, disk, gpu
<1>1. pc' = pc => Goto(t, pc[t])
  BY DEF Goto, TypeOK
<1>2. CASE ListTmp(t) \/ RemoveTmp(t)
  <2>1. /\ pc[t] \in Removing
        /\ UNCHANGED <<req, held, image, kernels, loaded, inflight>>
        /\ Removed(t) \/ Throw(t) \/ UNCHANGED <<pc, outcome, scope, events>>
    BY <1>2 DEF ListTmp, RemoveTmp
  <2>2. Removed(t) => Throw(t) \/ \E label \in Compiling \cup {"load"} : Quietly(t, label)
    BY DEF Removed, Quietly, Compiling
  <2>3. \A u \in Thread : u # t => todo'[u] = todo[u]
    BY <1>2 DEF ListTmp, RemoveTmp, TypeOK
  <2>4. QED BY <1>1, <2>1, <2>2, <2>3 DEF Quietly, Compiling
<1>3. ASSUME NEW file \in {"cu", "cubin"}, Unlink(t, file) \/ UnlinkMissing(t, file)
      PROVE  /\ pc[t] \in Removing
             /\ UNCHANGED <<req, held, image, kernels, loaded, inflight>>
             /\ Throw(t) \/ UNCHANGED <<pc, outcome, scope, events>>
             /\ \A u \in Thread : u # t => todo'[u] = todo[u]
  BY <1>3 DEF Unlink, UnlinkMissing, TypeOK
<1>4. CASE \E file \in {"cu", "cubin"} : Unlink(t, file) \/ UnlinkMissing(t, file)
  BY <1>1, <1>3, <1>4 DEF Quietly, Compiling
<1>5. CASE CreateTmp(t) \/ OpenSource(t) \/ WriteSource(t) \/ LoseSource(t)
  <2>1. /\ pc[t] \in {"createTmp", "openSource", "writeSource"}
        /\ UNCHANGED <<req, held, todo, image, kernels, loaded, inflight>>
    BY <1>5 DEF CreateTmp, OpenSource, WriteSource, LoseSource
  <2>2. \/ Throw(t)
        \/ \E label \in {"openSource", "writeSource", "nvccRead"} : Quietly(t, label)
    BY <1>5 DEF CreateTmp, OpenSource, WriteSource, LoseSource, Quietly
  <2>3. QED BY <2>1, <2>2 DEF Compiling
<1>6. CASE NvccRead(t) \/ NvccOpen(t) \/ NvccWrite(t)
  <2>1. /\ pc[t] \in {"nvccRead", "nvccOpen", "nvccWrite"}
        /\ UNCHANGED <<req, held, outcome, todo, scope, events, kernels, loaded, inflight>>
    BY <1>6 DEF NvccRead, NvccOpen, NvccWrite
  <2>2. \E label \in {"nvccOpen", "nvccWrite", "publish", "dropTmp"} : Goto(t, label)
    BY <1>6 DEF NvccRead, NvccOpen, NvccWrite, NvccFails
  <2>3. \A u \in Thread : u # t => image'[u] = image[u]
    BY <1>6 DEF NvccRead, NvccOpen, NvccWrite, TypeOK
  <2>4. QED BY <2>1, <2>2, <2>3 DEF Quietly, Compiling, Removing
<1>7. CASE Publish(t) \/ Recover(t)
  <2>1. /\ pc[t] \in {"publish", "recover"}
        /\ UNCHANGED <<req, held, todo, image, kernels, loaded, inflight>>
        /\ Throw(t) \/ \E label \in {"load", "leaveTmp"} : Quietly(t, label)
    BY <1>7 DEF Publish, Recover, Quietly
  <2>2. QED BY <2>1 DEF Compiling, Removing
<1>8. QED BY <1>2, <1>4, <1>5, <1>6, <1>7 DEF CompileStep

\* What is refused to t makes it leave build_kernel, fails its nvcc or its
\* rename, or fails its launch.
LEMMA RefusedMoves ==
    ASSUME TypeOK, NEW t \in Thread, Refused(t)
    PROVE  /\ UNCHANGED <<req, held, disk, kernels, gpu>>
           /\ out'[t] = "none" /\ image'[t] = Kernelless /\ todo'[t] = {}
           /\ \A u \in Thread : u # t =>
                /\ out'[u] = out[u] /\ image'[u] = image[u] /\ todo'[u] = todo[u]
                /\ outcome'[u] = outcome[u]
           /\ \/ /\ pc[t] \in Building \ {"store"} /\ Goto(t, "idle")
                 /\ outcome'[t] = "fault" /\ FinishScope(t, FALSE)
              \/ /\ pc[t] \in Compiling
                 /\ Goto(t, "dropTmp") \/ Goto(t, "leaveTmp")
                 /\ outcome'[t] = "fault" /\ UNCHANGED <<scope, events>>
              \/ /\ pc[t] = "launch" /\ Goto(t, "release")
                 /\ UNCHANGED <<outcome, scope, events>>
<1>1. /\ UNCHANGED <<req, held, disk, kernels, gpu>>
      /\ Close(t) /\ todo' = [todo EXCEPT ![t] = {}]
      /\ image' = [image EXCEPT ![t] = Kernelless]
  BY DEF Refused
<1>2. /\ out'[t] = "none" /\ image'[t] = Kernelless /\ todo'[t] = {}
      /\ \A u \in Thread : u # t =>
            out'[u] = out[u] /\ image'[u] = image[u] /\ todo'[u] = todo[u]
  BY <1>1 DEF Close, TypeOK
<1>3. CASE /\ pc[t] \in (Building \ {"nvccOpen", "nvccWrite", "store"})
           /\ Goto(t, "idle")
           /\ outcome' = [outcome EXCEPT ![t] = "fault"]
           /\ FinishScope(t, FALSE)
  BY <1>1, <1>2, <1>3 DEF TypeOK
<1>4. CASE /\ \/ pc[t] \in {"nvccRead", "nvccOpen", "nvccWrite"} /\ NvccFails(t)
              \/ pc[t] = "publish" /\ Goto(t, "leaveTmp")
           /\ outcome' = [outcome EXCEPT ![t] = "fault"]
           /\ UNCHANGED <<scope, events>>
  BY <1>1, <1>2, <1>4 DEF TypeOK, NvccFails, Compiling
<1>5. CASE pc[t] = "launch" /\ Goto(t, "release") /\ UNCHANGED <<outcome, scope, events>>
  BY <1>1, <1>2, <1>5
<1>6. QED BY <1>3, <1>4, <1>5 DEF Refused

LEMMA RefusedGoes ==
    ASSUME TypeOK, NEW t \in Thread, Refused(t)
    PROVE  /\ req' = req
           /\ \/ pc'[t] \in {"idle", "dropTmp", "leaveTmp"} /\ outcome'[t] = "fault"
              \/ pc'[t] = "release" /\ pc[t] = "launch" /\ outcome' = outcome
<1>1. \A label : Goto(t, label) => pc'[t] = label
  BY DEF Goto, TypeOK
<1>2. QED BY <1>1, RefusedMoves

-----------------------------------------------------------------------------
(***************************************************************************)
(* References.  Only loads, stores, releases and crashes touch them.        *)
(***************************************************************************)

\* The invariant speaks of pc, req, held, kernels and loaded only.
LEMMA LibInvFrame ==
    ASSUME LibInv, UNCHANGED <<pc, req, held, kernels, loaded>>
    PROVE  LibInv'
  BY DEF LibInv

\* A step of one thread within the compiling part of build_kernel, or out of
\* it by an exception, leaves the references alone.
LEMMA LibInvMove ==
    ASSUME TypeOK, LibInv, NEW t \in Thread,
           pc[t] \in Building \ {"store", "lookup"},
           NEW label \in ({"idle"} \cup Building) \ {"store"}, label # "lookup", Goto(t, label),
           UNCHANGED <<req, held, kernels, loaded>>
    PROVE  LibInv'
  BY DEF LibInv, TypeOK, Goto, Building, Compiling, Removing

LEMMA LibInvStep == TypeOK /\ TypeOK' /\ LibInv /\ [Next]_vars => LibInv'
<1> SUFFICES ASSUME TypeOK, TypeOK', LibInv, [Next]_vars PROVE LibInv'
  OBVIOUS
<1> USE DEF local, disk, gpu
<1>1. ASSUME NEW t \in Thread, NEW q \in Kernel, Call(t, q) PROVE LibInv'
  BY <1>1 DEF Call, Goto, LibInv, TypeOK, Building, Compiling, Removing
<1>2. ASSUME NEW t \in Thread, LookupHit(t) PROVE LibInv'
  BY <1>2, KeyTyped DEF LookupHit, Goto, LibInv, TypeOK, Building, Compiling, Removing
<1>3. ASSUME NEW t \in Thread, LookupMiss(t) PROVE LibInv'
  BY <1>3 DEF LookupMiss, Goto, LibInv, TypeOK, Building, Compiling, Removing
<1>4. ASSUME NEW t \in Thread, Probe(t) \/ CompileStep(t) PROVE LibInv'
  <2>1. CASE Probe(t)
    <3>1. /\ pc[t] = "probe" /\ UNCHANGED <<req, held, kernels, loaded>>
          /\ Goto(t, "load") \/ Goto(t, "clearTmp")
      BY <2>1 DEF Probe
    <3>2. QED BY <3>1, LibInvMove DEF Building, Compiling, Removing
  <2>2. CASE CompileStep(t)
    <3>1. /\ pc[t] \in Compiling
          /\ UNCHANGED <<req, held, kernels, loaded>>
          /\ Throw(t) \/ \E label \in Compiling \cup {"load"} : Goto(t, label)
      BY <2>2, CompileMoves DEF Quietly
    <3>2. \E label \in Compiling \cup {"load", "idle"} : Goto(t, label)
      BY <3>1 DEF Throw
    <3>3. \A label \in Compiling \cup {"load", "idle"} :
            label \in ({"idle"} \cup Building) \ {"store"} /\ label # "lookup"
      BY DEF Building, Compiling, Removing
    <3>4. PICK label \in Compiling \cup {"load", "idle"} : Goto(t, label)
      BY <3>2
    <3>5. label \in ({"idle"} \cup Building) \ {"store"} /\ label # "lookup"
      BY <3>3
    <3>6. pc[t] \in Building \ {"store", "lookup"}
      BY <3>1 DEF Building, Compiling, Removing
    <3>7. QED BY <3>1, <3>4, <3>5, <3>6, LibInvMove
  <2>3. QED BY <1>4, <2>1, <2>2
<1>5. ASSUME NEW t \in Thread, Load(t) PROVE LibInv'
  <2>1. CASE CacheDir(t).cubin \in Key
    <3> DEFINE lib == [by |-> t, kernel |-> req[t], image |-> CacheDir(t).cubin]
    <3>1. lib \in Lib /\ lib # NoLib /\ lib.by = t /\ lib.kernel = req[t]
      BY <2>1, NoLibAssumption DEF Lib, TypeOK
    <3>2. /\ held' = [held EXCEPT ![t] = lib]
          /\ loaded' = loaded \cup {lib}
          /\ pc[t] = "load" /\ Goto(t, "store")
          /\ UNCHANGED <<req, kernels>>
      BY <1>5, <2>1 DEF Load, Loadable
    <3> HIDE DEF lib
    <3>3. QED BY <3>1, <3>2 DEF LibInv, TypeOK, Goto, Building, Compiling, Removing
  <2>2. CASE CacheDir(t).cubin \notin Key
    BY <1>5, <2>2, LibInvMove DEF Load, Loadable, Throw, Building
  <2>3. QED BY <2>1, <2>2
<1>6. ASSUME NEW t \in Thread, Store(t) PROVE LibInv'
  <2> DEFINE p == ProcOf[t]
             q == req[t]
             old == kernels[p][q]
  <2>1. /\ p \in Proc /\ q \in Kernel /\ held[t] \in Lib /\ held[t] # NoLib
        /\ held[t].by = t /\ held[t].kernel = q /\ held[t] \in loaded
        /\ pc[t] = "store"
    BY <1>6, KeyTyped DEF Store, LibInv, TypeOK
  <2>2. old # held[t]
    BY <2>1 DEF LibInv, Building
  <2>3. /\ kernels' = [kernels EXCEPT ![p][q] = held[t]]
        /\ loaded' = IF HeldByOther(t, old) THEN loaded ELSE loaded \ {old}
        /\ pc' = [pc EXCEPT ![t] = "launch"]
        /\ UNCHANGED <<req, held>>
    BY <1>6 DEF Store, Goto
  <2>4. \A u \in Thread : held[u] # NoLib => held[u] \in loaded'
    BY <2>2, <2>3 DEF LibInv, HeldByOther
  <2>5. \A r \in Proc, k \in Kernel : kernels'[r][k] # NoLib =>
            /\ kernels'[r][k] \in loaded'
            /\ ProcOf[kernels'[r][k].by] = r
            /\ kernels'[r][k].kernel = k
    <3> SUFFICES ASSUME NEW r \in Proc, NEW k \in Kernel, kernels'[r][k] # NoLib
                 PROVE  /\ kernels'[r][k] \in loaded'
                        /\ ProcOf[kernels'[r][k].by] = r
                        /\ kernels'[r][k].kernel = k
      OBVIOUS
    <3>1. CASE r = p /\ k = q
      BY <2>1, <2>3, <2>4, <3>1 DEF TypeOK
    <3>2. CASE ~(r = p /\ k = q)
      <4>1. kernels'[r][k] = kernels[r][k]
        BY <2>1, <2>3, <3>2 DEF TypeOK
      <4>2. /\ kernels[r][k] \in loaded /\ ProcOf[kernels[r][k].by] = r
            /\ kernels[r][k].kernel = k
        BY <4>1 DEF LibInv
      <4>3. kernels[r][k] # old
        <5>1. CASE old = NoLib
          BY <4>1, <5>1
        <5>2. CASE old # NoLib
          BY <2>1, <3>2, <4>2, <5>2 DEF LibInv
        <5>3. QED BY <5>1, <5>2
      <4>4. QED BY <2>3, <4>1, <4>2, <4>3
    <3>3. QED BY <3>1, <3>2
  <2>6. \A u \in Thread : pc'[u] \in Building \ {"lookup"} =>
            \/ kernels'[ProcOf[u]][req[u]] = NoLib
            \/ kernels'[ProcOf[u]][req[u]].by # u
    <3> SUFFICES ASSUME NEW u \in Thread, pc'[u] \in Building \ {"lookup"}
                 PROVE  \/ kernels'[ProcOf[u]][req[u]] = NoLib
                        \/ kernels'[ProcOf[u]][req[u]].by # u
      OBVIOUS
    <3>1. u # t /\ pc[u] \in Building \ {"lookup"}
      BY <2>3 DEF TypeOK, Building, Compiling, Removing
    <3>2. ProcOf[u] \in Proc /\ req[u] \in Kernel
      BY KeyTyped DEF TypeOK
    <3>3. QED BY <2>1, <2>3, <3>1, <3>2 DEF LibInv, TypeOK
  <2>7. QED BY <2>1, <2>3, <2>4, <2>5, <2>6 DEF LibInv, TypeOK
<1>7. ASSUME NEW t \in Thread, Launch(t) PROVE LibInv'
  BY <1>7 DEF Launch, Goto, LibInv, TypeOK, Building, Compiling, Removing
<1>8. ASSUME NEW t \in Thread, Release(t) PROVE LibInv'
  <2> DEFINE lib == held[t]
  <2>1. /\ lib \in Lib /\ lib # NoLib /\ lib \in loaded
        /\ ProcOf[lib.by] = ProcOf[t] /\ pc[t] = "release"
    BY <1>8 DEF Release, LibInv, TypeOK
  <2>2. /\ held' = [held EXCEPT ![t] = NoLib]
        /\ loaded' = IF HeldByOther(t, lib) \/ Cached(ProcOf[t], lib)
                     THEN loaded ELSE loaded \ {lib}
        /\ pc' = [pc EXCEPT ![t] = "idle"]
        /\ UNCHANGED <<req, kernels>>
    BY <1>8 DEF Release, Goto
  <2>3. \A u \in Thread : held'[u] # NoLib => u # t /\ held'[u] = held[u] /\ held[u] \in loaded'
    BY <2>2 DEF LibInv, HeldByOther, TypeOK
  <2>4. \A p \in Proc, q \in Kernel : kernels[p][q] # NoLib => kernels[p][q] \in loaded'
    BY <2>1, <2>2 DEF LibInv, Cached
  <2>5. QED BY <2>1, <2>2, <2>3, <2>4 DEF LibInv, TypeOK, Building, Compiling, Removing
<1>9. ASSUME NEW t \in Thread, Refused(t) PROVE LibInv'
  <2>1. UNCHANGED <<req, held, kernels, loaded>>
    BY <1>9, RefusedMoves
  <2>2. CASE pc[t] = "launch" /\ Goto(t, "release")
    BY <2>1, <2>2 DEF Goto, LibInv, TypeOK, Building, Compiling, Removing
  <2>3. CASE /\ pc[t] \in Building \ {"store"}
             /\ Goto(t, "idle") \/ Goto(t, "dropTmp") \/ Goto(t, "leaveTmp")
             /\ pc[t] # "lookup" \/ Goto(t, "idle")
    <3>1. CASE Goto(t, "idle")
      BY <2>1, <2>3, <3>1 DEF Goto, LibInv, TypeOK, Building, Compiling, Removing
    <3>2. CASE pc[t] # "lookup" /\ (Goto(t, "dropTmp") \/ Goto(t, "leaveTmp"))
      BY <2>1, <2>3, <3>2, LibInvMove DEF Building, Compiling, Removing
    <3>3. QED BY <2>3, <3>1, <3>2
  <2>4. QED BY <1>9, <2>2, <2>3, RefusedMoves DEF Building, Compiling, Removing
<1>10. ASSUME NEW lib \in inflight, Complete(lib) PROVE LibInv'
  BY <1>10, LibInvFrame DEF Complete
<1>11. ASSUME NEW p \in Proc, Crash(p) PROVE LibInv'
  <2> DEFINE mine == {t \in Thread : ProcOf[t] = p}
  <2>1. /\ pc' = [t \in Thread |-> IF t \in mine THEN "idle" ELSE pc[t]]
        /\ held' = [t \in Thread |-> IF t \in mine THEN NoLib ELSE held[t]]
        /\ kernels' = [kernels EXCEPT ![p] = [q \in Kernel |-> NoLib]]
        /\ loaded' = {lib \in loaded : lib.by \notin mine}
        /\ req' = req
    BY <1>11 DEF Crash
  <2>2. \A lib \in Lib : lib.by \in Thread
    BY DEF Lib
  <2>3. ASSUME NEW t \in Thread
        PROVE  /\ held'[t] # NoLib <=> pc'[t] \in {"store", "launch", "release"}
               /\ held'[t] # NoLib => /\ held'[t] \in loaded'
                                      /\ ProcOf[held'[t].by] = ProcOf[t]
                                      /\ held'[t].kernel = req'[t]
               /\ pc'[t] = "store" => held'[t].by = t
               /\ pc'[t] \in Building \ {"lookup"} =>
                   \/ kernels'[ProcOf[t]][req'[t]] = NoLib
                   \/ kernels'[ProcOf[t]][req'[t]].by # t
    <3>1. CASE t \in mine
      BY <2>1, <3>1 DEF Building, Compiling, Removing
    <3>2. CASE t \notin mine
      <4>1. /\ pc'[t] = pc[t] /\ held'[t] = held[t]
            /\ kernels'[ProcOf[t]] = kernels[ProcOf[t]]
        BY <2>1, <3>2, KeyTyped DEF TypeOK
      <4>2. held[t] # NoLib => held[t] \in loaded'
        BY <2>1, <2>2, <3>2 DEF LibInv
      <4>3. QED BY <2>1, <4>1, <4>2 DEF LibInv
    <3>3. QED BY <3>1, <3>2
  <2>4. ASSUME NEW r \in Proc, NEW q \in Kernel, kernels'[r][q] # NoLib
        PROVE  /\ kernels'[r][q] \in loaded'
               /\ ProcOf[kernels'[r][q].by] = r
               /\ kernels'[r][q].kernel = q
    <3>1. r # p /\ kernels'[r][q] = kernels[r][q]
      BY <2>1, <2>4 DEF TypeOK
    <3>2. /\ kernels[r][q] \in loaded /\ ProcOf[kernels[r][q].by] = r
          /\ kernels[r][q].kernel = q
      BY <2>4, <3>1 DEF LibInv
    <3>3. kernels[r][q].by \notin mine
      BY <3>1, <3>2
    <3>4. QED BY <2>1, <3>1, <3>2, <3>3
  <2>5. QED BY <2>3, <2>4 DEF LibInv
<1>12. CASE UNCHANGED vars
  BY <1>12, LibInvFrame DEF vars
<1>13. QED
  BY <1>1, <1>2, <1>3, <1>4, <1>5, <1>6, <1>7, <1>8, <1>9, <1>10, <1>11, <1>12, StepsOfNext
     DEF ThreadStep

LEMMA LibInvInit == Init => LibInv
  BY NoLibAssumption, CacheAssumption DEF Init, LibInv, Building, Compiling, Removing

\* Whatever threads build and launch, in however many processes, with faults
\* and crashes: a library that someone refers to is loaded.
THEOREM ReferencedStaysLoaded == Spec => []ReferencedLoaded
<1>1. LibInv => ReferencedLoaded
  BY DEF LibInv, ReferencedLoaded
<1>2. TypeOK /\ LibInv /\ [Next]_vars => LibInv'
  BY TypeCorrectStep, LibInvStep
<1>3. QED BY <1>1, <1>2, LibInvInit, TypeCorrect, PTL DEF Spec

-----------------------------------------------------------------------------
(***************************************************************************)
(* Files, when no two threads of a process launch.                          *)
(***************************************************************************)

\* A step of t leaves the frame, the scope and the nvcc of other threads alone.
LEMMA OwnVariables ==
    ASSUME TypeOK, NEW t \in Thread, ThreadStep(t), NEW u \in Thread, u # t
    PROVE  /\ pc'[u] = pc[u] /\ req'[u] = req[u] /\ held'[u] = held[u]
           /\ outcome'[u] = outcome[u] /\ image'[u] = image[u] /\ todo'[u] = todo[u]
           /\ scope'[u] = scope[u] /\ events'[u] = events[u]
           /\ CacheKey(u)' = CacheKey(u) /\ DirPath(u)' = DirPath(u)
<1> USE DEF local, disk, gpu
<1>1. \A success : FinishScope(t, success) => scope'[u] = scope[u] /\ events'[u] = events[u]
  BY DEF FinishScope, TypeOK
<1>2. \A source : StartScope(t, source) => scope'[u] = scope[u] /\ events'[u] = events[u]
  BY DEF StartScope, TypeOK
<1>3. \A label : Goto(t, label) => pc'[u] = pc[u]
  BY DEF Goto, TypeOK
<1>4. Throw(t) => /\ pc'[u] = pc[u] /\ outcome'[u] = outcome[u]
                  /\ scope'[u] = scope[u] /\ events'[u] = events[u]
  BY <1>1, <1>3 DEF Throw, TypeOK
<1>5. /\ pc'[u] = pc[u] /\ req'[u] = req[u] /\ held'[u] = held[u]
      /\ outcome'[u] = outcome[u] /\ image'[u] = image[u] /\ todo'[u] = todo[u]
      /\ scope'[u] = scope[u] /\ events'[u] = events[u]
  <2>1. CASE \E q \in Kernel : Call(t, q)
    BY <1>3, <2>1 DEF Call, TypeOK
  <2>2. CASE LookupHit(t) \/ LookupMiss(t)
    BY <1>3, <2>2 DEF LookupHit, LookupMiss, TypeOK
  <2>3. CASE Probe(t)
    BY <1>2, <1>3, <2>3 DEF Probe
  <2>4. CASE CompileStep(t)
    <3>1. UNCHANGED <<req, held>> /\ image'[u] = image[u] /\ todo'[u] = todo[u]
      BY <2>4, CompileMoves
    <3>2. Throw(t) \/ \E label : Quietly(t, label)
      BY <2>4, CompileMoves
    <3>3. QED BY <1>3, <1>4, <3>1, <3>2 DEF Quietly
  <2>5. CASE Load(t)
    BY <1>3, <1>4, <2>5 DEF Load, Loadable, TypeOK
  <2>6. CASE Store(t)
    BY <1>1, <1>3, <2>6 DEF Store, TypeOK
  <2>7. CASE Launch(t) \/ Release(t)
    BY <1>3, <2>7 DEF Launch, Release, TypeOK
  <2>8. CASE Refused(t)
    <3>1. /\ UNCHANGED <<req, held>> /\ image'[u] = image[u] /\ todo'[u] = todo[u]
          /\ outcome'[u] = outcome[u]
      BY <2>8, RefusedMoves
    <3>2. FinishScope(t, FALSE) \/ UNCHANGED <<scope, events>>
      BY <2>8, RefusedMoves
    <3>3. \E label : Goto(t, label)
      BY <2>8, RefusedMoves
    <3>4. QED BY <1>1, <1>3, <3>1, <3>2, <3>3
  <2>9. QED
    BY <2>1, <2>2, <2>3, <2>4, <2>5, <2>6, <2>7, <2>8 DEF ThreadStep
<1>6. QED BY <1>5 DEF CacheKey, DirPath

\* A step outside of the compiling part touches no file, and nothing open but
\* its own; the disk never gives back what it has lost.
LEMMA DiskSteps ==
    ASSUME TypeOK, NEW t \in Thread, ThreadStep(t)
    PROVE  /\ lost \subseteq lost'
           /\ ~CompileStep(t) => tmp' = tmp /\ cache' = cache /\ lost' = lost
           /\ \/ CompileStep(t) \/ Refused(t)
              \/ /\ UNCHANGED <<out, todo>>
                 /\ pc[t] \in {"idle", "lookup", "probe", "load", "store", "launch", "release"}
<1> USE DEF local, disk, gpu
<1>1. CASE CompileStep(t)
  BY <1>1 DEF CompileStep, ListTmp, RemoveTmp, Unlink, UnlinkMissing, CreateTmp, OpenSource,
     WriteSource, LoseSource, NvccRead, NvccOpen, NvccWrite, Publish, Recover
<1>2. CASE Refused(t)
  BY <1>2, RefusedMoves
<1>3. CASE \/ (\E q \in Kernel : Call(t, q)) \/ LookupHit(t) \/ LookupMiss(t) \/ Probe(t)
           \/ Load(t) \/ Store(t) \/ Launch(t) \/ Release(t)
  BY <1>3 DEF Call, LookupHit, LookupMiss, Probe, Load, Store, Launch, Release
<1>4. QED BY <1>1, <1>2, <1>3 DEF ThreadStep

\* A step of t leaves what belongs to another thread alone: their tmp
\* directories are those of different processes.
LEMMA Locality ==
    ASSUME TypeOK, SingleThreaded, NEW t \in Thread, ThreadStep(t),
           NEW u \in Thread, u # t, out[u] # "cache"
    PROVE  /\ pc'[u] = pc[u] /\ req'[u] = req[u] /\ held'[u] = held[u]
           /\ outcome'[u] = outcome[u] /\ out'[u] = out[u] /\ image'[u] = image[u]
           /\ todo'[u] = todo[u]
           /\ tmp'[ProcOf[u]] = tmp[ProcOf[u]]
<1> USE DEF local, disk, gpu
<1>1. ProcOf[t] # ProcOf[u]
  BY DEF SingleThreaded
<1>2. /\ Renamed(t)[u] = out[u] /\ Emptied(t)[u] = out[u]
      /\ \A file : Unlinked(t, file)[u] = out[u]
      /\ Close(t) => out'[u] = out[u]
  BY <1>1 DEF Renamed, Emptied, Unlinked, SameTmp, Close, TypeOK
<1>3. \A content : SetTmp(t, content) => tmp'[ProcOf[u]] = tmp[ProcOf[u]]
  BY <1>1, KeyTyped DEF SetTmp, TypeOK
<1>4. \A content : SetOpened(t, content) => tmp'[ProcOf[u]] = tmp[ProcOf[u]]
  BY <1>3 DEF SetOpened
<1>5. CASE ~CompileStep(t)
  <2>1. tmp' = tmp /\ out'[u] = out[u]
    BY <1>5, DiskSteps, RefusedMoves
  <2>2. QED BY <2>1, OwnVariables
<1>6. CASE ListTmp(t) \/ RemoveTmp(t) \/ CreateTmp(t) \/ OpenSource(t) \/ WriteSource(t)
           \/ LoseSource(t) \/ \E file \in {"cu", "cubin"} : Unlink(t, file) \/ UnlinkMissing(t, file)
  <2>1. tmp'[ProcOf[u]] = tmp[ProcOf[u]]
    BY <1>3, <1>4, <1>6 DEF ListTmp, RemoveTmp, CreateTmp, OpenSource, WriteSource, LoseSource,
       Unlink, UnlinkMissing
  <2>2. out'[u] = out[u]
    BY <1>2, <1>6 DEF ListTmp, RemoveTmp, CreateTmp, OpenSource, WriteSource, LoseSource,
       Unlink, UnlinkMissing, TypeOK
  <2>3. QED BY <2>1, <2>2, OwnVariables
<1>7. CASE NvccRead(t) \/ NvccOpen(t) \/ NvccWrite(t) \/ Publish(t) \/ Recover(t)
  <2>1. tmp'[ProcOf[u]] = tmp[ProcOf[u]]
    BY <1>3, <1>4, <1>7 DEF NvccRead, NvccOpen, NvccWrite, Publish, Recover
  <2>2. out'[u] = out[u]
    BY <1>2, <1>7 DEF NvccRead, NvccOpen, NvccWrite, Publish, Recover, TypeOK
  <2>3. QED BY <2>1, <2>2, OwnVariables
<1>8. QED BY <1>5, <1>6, <1>7 DEF CompileStep

LEMMA OwnsTmpOthers ==
    ASSUME TypeOK, SingleThreaded, NEW t \in Thread, ThreadStep(t),
           NEW u \in Thread, u # t, OwnsTmp(u)
    PROVE  OwnsTmp(u)'
<1>1. out[u] # "cache"
  BY DEF OwnsTmp
<1>2. /\ pc'[u] = pc[u] /\ req'[u] = req[u] /\ out'[u] = out[u] /\ image'[u] = image[u]
      /\ todo'[u] = todo[u] /\ TmpDir(u)' = TmpDir(u) /\ CacheKey(u)' = CacheKey(u)
  BY <1>1, Locality, OwnVariables DEF TmpDir
<1>3. SourceLost(u) => SourceLost(u)'
  BY DiskSteps, OwnVariables DEF SourceLost
<1>4. QED BY <1>2, <1>3 DEF OwnsTmp

LEMMA FilesOfWithout ==
    ASSUME NEW c \in Content, NEW file \in {"cu", "cubin"}
    PROVE  /\ Files(Without(c, file)) = Files(c) \ {file}
           /\ Without(c, file).exists = c.exists
           /\ Without(c, file).cu \in {c.cu, NoFile}
           /\ Without(c, file).cubin \in {c.cubin, NoFile}
<1>1. CASE file = "cu"
  BY <1>1 DEF Files, Without, Content
<1>2. CASE file = "cubin"
  BY <1>2 DEF Files, Without, Content
<1>3. QED BY <1>1, <1>2

LEMMA EmptyIsCreated ==
    ASSUME NEW c \in Content, c.exists, Files(c) = {}
    PROVE  c = Created
  BY DEF Content, Created, Files

\* Where a thread is after its remove_all.
LEMMA RemovedMoves ==
    ASSUME TypeOK, NEW t \in Thread, Removed(t)
    PROVE  /\ pc[t] = "clearTmp" => pc'[t] = "createTmp" /\ outcome'[t] = outcome[t]
           /\ pc[t] = "leaveTmp" => pc'[t] = "recover" /\ outcome'[t] = outcome[t]
           /\ pc[t] = "dropTmp" => pc'[t] = "idle" /\ outcome'[t] \in {"fault", "error"}
                                   /\ (outcome[t] = "fault" => outcome'[t] = "fault")
           /\ pc[t] \in Removing
  BY DEF Removed, Throw, Goto, TypeOK, Removing

LEMMA OwnsTmpSelf ==
    ASSUME TypeOK, SingleThreaded, NEW t \in Thread, ThreadStep(t), OwnsTmp(t)
    PROVE  OwnsTmp(t)'
<1> USE DEF local, disk, gpu, Goto, Removing, Close
<1>1. ProcOf[t] \in Proc /\ DirPath(t) \in Dir /\ TmpDir(t) \in Content
  BY KeyTyped
<1>2. ASSUME NEW content, SetTmp(t, content)
      PROVE  tmp'[ProcOf[t]][DirPath(t)] = content
  BY <1>1, <1>2 DEF SetTmp, TypeOK
<1>3. out[t] = "none" => Renamed(t)[t] = "none"
  BY DEF Renamed
<1>4. Throw(t) => pc'[t] = "idle"
  BY DEF Throw, TypeOK
<1>5. req'[t] = req[t] => /\ DirPath(t)' = DirPath(t) /\ CacheKey(t)' = CacheKey(t)
                          /\ (SourceLost(t) => SourceLost(t)')
                          /\ (tmp' = tmp => TmpDir(t)' = TmpDir(t))
                          /\ \A content : SetTmp(t, content) => TmpDir(t)' = content
  BY <1>2, DiskSteps DEF DirPath, CacheKey, SourceLost, TmpDir
<1>6. CASE UNCHANGED <<out, todo>>
           /\ pc[t] \in {"idle", "lookup", "probe", "load", "store", "launch", "release"}
           /\ ~CompileStep(t) /\ ~Refused(t)
  <2>1. out'[t] = "none" /\ todo'[t] = {}
    BY <1>6 DEF OwnsTmp
  <2>2. pc'[t] \in {"idle", "lookup", "probe", "load", "store", "launch", "release", "clearTmp"}
    BY <1>4, <1>6 DEF ThreadStep, Call, LookupHit, LookupMiss, Probe, Load, Store, Launch,
       Release, TypeOK
  <2>3. QED BY <2>1, <2>2 DEF OwnsTmp
<1>7. CASE Refused(t)
  <2>1. out'[t] = "none" /\ todo'[t] = {}
    BY <1>7, RefusedMoves
  <2>2. pc'[t] \in {"idle", "dropTmp", "leaveTmp", "release"}
    BY <1>7, RefusedGoes
  <2>3. QED BY <2>1, <2>2 DEF OwnsTmp
<1>8. CASE ListTmp(t)
  <2>1. CASE TmpDir(t).exists
    <3>1. /\ out'[t] = "tmp" /\ todo'[t] = Files(TmpDir(t)) /\ pc'[t] \in Removing
          /\ tmp' = tmp /\ req'[t] = req[t]
      BY <1>8, <2>1 DEF ListTmp, TypeOK
    <3>2. QED BY <1>5, <2>1, <3>1 DEF OwnsTmp
  <2>2. CASE ~TmpDir(t).exists
    <3>1. out'[t] = "none" /\ todo'[t] = {} /\ Removed(t)
      BY <1>8, <2>2 DEF ListTmp, OwnsTmp
    <3>2. pc'[t] \in {"createTmp", "recover", "idle"}
      BY <3>1, RemovedMoves
    <3>3. QED BY <3>1, <3>2 DEF OwnsTmp
  <2>3. QED BY <2>1, <2>2
<1>9. ASSUME NEW file \in {"cu", "cubin"}, Unlink(t, file) PROVE OwnsTmp(t)'
  <2>1. /\ pc[t] \in Removing /\ out[t] = "tmp" /\ TmpDir(t).exists
        /\ todo[t] = Files(TmpDir(t))
    BY <1>9 DEF Unlink, OwnsTmp
  <2>2. /\ SetTmp(t, Without(TmpDir(t), file)) /\ out' = Unlinked(t, file)
        /\ todo'[t] = Files(TmpDir(t)) \ {file} /\ pc' = pc /\ req' = req
    BY <1>9, <2>1 DEF Unlink, SetOpened, Opened, TypeOK
  <2>3. out'[t] = "tmp"
    BY <2>1, <2>2 DEF Unlinked
  <2>4. TmpDir(t)' = Without(TmpDir(t), file)
    BY <1>5, <2>2
  <2>5. todo'[t] = Files(TmpDir(t)') /\ TmpDir(t)'.exists
    BY <1>1, <2>1, <2>2, <2>4, FilesOfWithout
  <2>6. QED BY <2>1, <2>2, <2>3, <2>5 DEF OwnsTmp
<1>10. ASSUME NEW file \in {"cu", "cubin"}, UnlinkMissing(t, file) PROVE OwnsTmp(t)'
  BY <1>10 DEF UnlinkMissing, OwnsTmp, Opened
<1>11. CASE RemoveTmp(t)
  <2>1. out[t] = "tmp" /\ Files(TmpDir(t)) = {} /\ TmpDir(t).exists /\ todo[t] = {}
    BY <1>11 DEF RemoveTmp, OwnsTmp
  <2>2. TmpDir(t) = Created
    BY <1>1, <2>1, EmptyIsCreated
  <2>3. out' = Emptied(t) /\ Removed(t) /\ todo' = todo
    BY <1>11, <2>1, <2>2 DEF RemoveTmp
  <2>4. out'[t] = "none" /\ todo'[t] = {}
    BY <2>1, <2>3 DEF Emptied
  <2>5. pc'[t] \in {"createTmp", "recover", "idle"}
    BY <2>3, RemovedMoves
  <2>6. QED BY <2>4, <2>5 DEF OwnsTmp
<1>12. CASE CreateTmp(t)
  <2>1. TmpDir(t)'.exists
    BY <1>5, <1>12 DEF CreateTmp, Created
  <2>2. QED BY <1>12, <2>1 DEF CreateTmp, TypeOK, OwnsTmp
<1>13. CASE OpenSource(t)
  <2>1. TmpDir(t).exists /\ out[t] = "none" /\ todo[t] = {}
    BY <1>13 DEF OpenSource, OwnsTmp
  <2>2. /\ SetTmp(t, [TmpDir(t) EXCEPT !.cu = Partial])
        /\ out'[t] = "tmp" /\ pc'[t] = "writeSource" /\ todo'[t] = {} /\ req'[t] = req[t]
    BY <1>13, <2>1 DEF OpenSource, TypeOK
  <2>3. TmpDir(t)'.exists /\ TmpDir(t)'.cu = Partial
    BY <1>1, <1>5, <2>1, <2>2 DEF Content
  <2>4. QED BY <2>2, <2>3 DEF OwnsTmp
<1>14. CASE WriteSource(t)
  <2>1. TmpDir(t).exists /\ out[t] = "tmp" /\ todo[t] = {}
    BY <1>14 DEF WriteSource, OwnsTmp
  <2>2. /\ SetTmp(t, [TmpDir(t) EXCEPT !.cu = req[t]])
        /\ out'[t] = "none" /\ pc'[t] = "nvccRead" /\ req'[t] = req[t] /\ todo'[t] = {}
    BY <1>14, <2>1 DEF WriteSource, SetOpened, Opened, TypeOK
  <2>3. TmpDir(t)'.exists /\ TmpDir(t)'.cu = req'[t]
    BY <1>1, <1>5, <2>1, <2>2 DEF Content
  <2>4. QED BY <2>2, <2>3 DEF OwnsTmp
<1>15. CASE LoseSource(t)
  <2>1. TmpDir(t).exists /\ TmpDir(t).cu = Partial /\ todo[t] = {}
    BY <1>15 DEF LoseSource, OwnsTmp
  <2>2. /\ tmp' = tmp /\ out'[t] = "none" /\ pc'[t] = "nvccRead" /\ req'[t] = req[t]
        /\ todo'[t] = {} /\ DirPath(t) \in lost'
    BY <1>15, <2>1 DEF LoseSource, TypeOK
  <2>3. TmpDir(t)' = TmpDir(t) /\ SourceLost(t)'
    BY <1>5, <2>2 DEF SourceLost
  <2>4. QED BY <2>1, <2>2, <2>3 DEF OwnsTmp
<1>16. CASE NvccRead(t)
  <2>1. /\ TmpDir(t).cu = req[t] \/ (TmpDir(t).cu = Partial /\ SourceLost(t))
        /\ TmpDir(t).exists /\ out[t] = "none" /\ todo[t] = {} /\ pc[t] = "nvccRead"
    BY <1>16 DEF NvccRead, OwnsTmp
  <2>2. req[t] \notin {NoFile, Partial} /\ Partial # NoFile
    BY CacheAssumption DEF TypeOK
  <2>3. TmpDir(t).cu # NoFile
    BY <2>1, <2>2
  <2>4. /\ pc'[t] = "nvccOpen" /\ out'[t] = "none" /\ todo'[t] = {}
        /\ tmp' = tmp /\ req'[t] = req[t]
    BY <1>16, <2>1, <2>3 DEF NvccRead, TypeOK
  <2>5. image' = [image EXCEPT ![t] = IF TmpDir(t).cu = Partial THEN Kernelless
                                      ELSE <<TmpDir(t).cu, ConfigOf[ProcOf[t]]>>]
    BY <1>16, <2>3 DEF NvccRead
  <2>6. image'[t] = IF TmpDir(t).cu = Partial THEN Kernelless
                    ELSE <<TmpDir(t).cu, ConfigOf[ProcOf[t]]>>
    BY <2>5 DEF TypeOK
  <2>7. image'[t] = CacheKey(t) \/ (image'[t] = Kernelless /\ SourceLost(t))
    BY <2>1, <2>2, <2>6 DEF CacheKey
  <2>8. QED BY <1>5, <2>1, <2>4, <2>7 DEF OwnsTmp
<1>17. CASE NvccOpen(t)
  <2>1. /\ TmpDir(t).exists /\ todo[t] = {}
        /\ image[t] = CacheKey(t) \/ (image[t] = Kernelless /\ SourceLost(t))
    BY <1>17 DEF NvccOpen, OwnsTmp
  <2>2. /\ SetTmp(t, [TmpDir(t) EXCEPT !.cubin = Partial])
        /\ out'[t] = "tmp" /\ pc'[t] = "nvccWrite" /\ todo'[t] = {}
        /\ image'[t] = image[t] /\ req'[t] = req[t]
    BY <1>17, <2>1 DEF NvccOpen, TypeOK
  <2>3. TmpDir(t)'.exists
    BY <1>1, <1>5, <2>1, <2>2 DEF Content
  <2>4. QED BY <1>5, <2>1, <2>2, <2>3 DEF OwnsTmp
<1>18. CASE NvccWrite(t)
  <2>1. /\ TmpDir(t).exists /\ out[t] = "tmp" /\ todo[t] = {}
        /\ image[t] = CacheKey(t) \/ (image[t] = Kernelless /\ SourceLost(t))
    BY <1>18 DEF NvccWrite, OwnsTmp
  <2>2. ~\E u \in Thread \ {t} :
            pc[u] = "nvccWrite" /\ out[u] = out[t] /\ SameTmp(t, u)
    BY DEF SingleThreaded, SameTmp
  <2>3. SetTmp(t, [TmpDir(t) EXCEPT !.cubin = image[t]])
    BY <1>18, <2>1, <2>2 DEF NvccWrite, SetOpened, Opened
  <2>4. /\ out'[t] = "none" /\ pc'[t] = "publish" /\ req'[t] = req[t] /\ todo'[t] = {}
    BY <1>18, <2>1 DEF NvccWrite, TypeOK
  <2>5. TmpDir(t)'.exists /\ TmpDir(t)'.cubin = image[t]
    BY <1>1, <1>5, <2>1, <2>3, <2>4 DEF Content
  <2>6. QED BY <1>5, <2>1, <2>4, <2>5 DEF OwnsTmp
<1>19. CASE Publish(t) \/ Recover(t)
  <2>1. out[t] = "none" /\ todo[t] = {}
    BY <1>19 DEF Publish, Recover, OwnsTmp
  <2>2. out'[t] = "none" /\ todo'[t] = {}
    BY <1>3, <1>19, <2>1 DEF Publish, Recover
  <2>3. pc'[t] \in {"load", "leaveTmp", "idle"}
    BY <1>4, <1>19 DEF Publish, Recover, TypeOK
  <2>4. QED BY <2>2, <2>3 DEF OwnsTmp
<1>20. CASE CompileStep(t)
  BY <1>8, <1>9, <1>10, <1>11, <1>12, <1>13, <1>14, <1>15, <1>16, <1>17, <1>18, <1>19, <1>20
     DEF CompileStep
<1>21. QED BY <1>6, <1>7, <1>20, DiskSteps

\* What happens to the cache directories: nothing, but for a rename of a whole
\* tmp directory onto a free or empty name.
Renames(t) == Publish(t) /\ CanRename(t)

LEMMA CacheStep ==
    ASSUME TypeOK, SingleThreaded, NEW t \in Thread, ThreadStep(t), OwnsTmp(t)
    PROVE  \/ cache' = cache /\ ~Renames(t)
           \/ /\ Renames(t)
              /\ CacheDir(t) \in {Absent, Created}
              /\ TmpDir(t).exists
              /\ TmpDir(t).cubin = CacheKey(t) \/ (TmpDir(t).cubin = Kernelless /\ SourceLost(t))
              /\ cache' = [cache EXCEPT ![DirPath(t)] = TmpDir(t)]
<1> USE DEF local, disk, gpu
<1>1. CASE Renames(t)
  BY <1>1 DEF Renames, Publish, CanRename, OwnsTmp
<1>2. CASE ~Renames(t)
  <2>1. \A content : SetOpened(t, content) => cache' = cache
    BY DEF SetOpened, OwnsTmp
  <2>2. CASE CompileStep(t)
    BY <1>2, <2>1, <2>2 DEF Renames, CompileStep, ListTmp, RemoveTmp, Unlink, UnlinkMissing, CreateTmp,
       OpenSource, WriteSource, LoseSource, NvccRead, NvccOpen, NvccWrite, Publish, Recover
  <2>3. QED BY <1>2, <2>2, DiskSteps
<1>3. QED BY <1>1, <1>2

LEMMA CacheKept ==
    ASSUME TypeOK, SingleThreaded, NEW t \in Thread, ThreadStep(t), OwnsTmp(t),
           CacheTidy, CacheComplete
    PROVE  /\ CacheTidy' /\ CacheComplete'
           /\ \A d \in Dir : cache[d].exists => cache'[d].exists
           /\ Renames(t) => cache'[DirPath(t)].exists
<1>0. lost \subseteq lost'
  BY DiskSteps
<1>1. CASE cache' = cache /\ ~Renames(t)
  BY <1>0, <1>1 DEF CacheTidy, CacheComplete
<1>2. CASE /\ Renames(t)
           /\ CacheDir(t) \in {Absent, Created}
           /\ TmpDir(t).exists
           /\ TmpDir(t).cubin = CacheKey(t) \/ (TmpDir(t).cubin = Kernelless /\ SourceLost(t))
           /\ cache' = [cache EXCEPT ![DirPath(t)] = TmpDir(t)]
  <2>1. CacheKey(t) \in Key /\ DirPath(t) \in Dir
    BY KeyTyped
  <2>2. \A d \in Dir : cache'[d] = IF d = DirPath(t) THEN TmpDir(t) ELSE cache[d]
    BY <1>2, <2>1 DEF TypeOK
  <2>3. QED BY <1>0, <1>2, <2>1, <2>2 DEF CacheTidy, CacheComplete, SourceLost
<1>3. QED BY <1>1, <1>2, CacheStep

LEMMA LoadReadyOthers ==
    ASSUME TypeOK, SingleThreaded, NEW t \in Thread, ThreadStep(t), OwnsTmp(t),
           CacheTidy, CacheComplete,
           NEW u \in Thread, u # t, LoadReady(u)
    PROVE  LoadReady(u)'
<1>1. DirPath(u)' = DirPath(u) /\ DirPath(u) \in Dir
  BY OwnVariables, KeyTyped
<1>2. CacheDir(u).exists => CacheDir(u)'.exists
  BY <1>1, CacheKept DEF CacheDir
<1>3. SourceLost(u) => SourceLost(u)'
  BY <1>1, DiskSteps DEF SourceLost
<1>4. pc'[u] = pc[u] /\ outcome'[u] = outcome[u]
  BY OwnVariables
<1>5. QED BY <1>2, <1>3, <1>4 DEF LoadReady

LEMMA LoadReadySelf ==
    ASSUME TypeOK, SingleThreaded, NEW t \in Thread, ThreadStep(t), OwnsTmp(t),
           CacheTidy, CacheComplete, LoadReady(t)
    PROVE  LoadReady(t)'
<1> USE DEF local, disk, gpu, Goto, Removing
<1>1. CacheKey(t) \in Key /\ DirPath(t) \in Dir /\ TmpDir(t) \in Content
  BY KeyTyped
<1>2. req'[t] = req[t] => /\ DirPath(t)' = DirPath(t) /\ (SourceLost(t) => SourceLost(t)')
                          /\ (CacheDir(t).exists => CacheDir(t)'.exists)
                          /\ (Renames(t) => CacheDir(t)'.exists)
  BY <1>1, DiskSteps, CacheKept DEF DirPath, CacheKey, SourceLost, CacheDir
<1>3. CacheDir(t).cubin # NoFile => CacheDir(t).exists
  BY <1>1 DEF CacheTidy, CacheDir, Absent
<1>4. CacheDir(t).exists =>
        CacheDir(t).cubin \in Key \/ (CacheDir(t).cubin = Kernelless /\ SourceLost(t))
  BY <1>1 DEF CacheComplete, CacheDir, SourceLost
<1>5. Throw(t) => pc'[t] = "idle" /\ outcome'[t] \in {"fault", "error"}
                  /\ (outcome[t] = "fault" => outcome'[t] = "fault")
  BY DEF Throw, TypeOK
<1>6. Kernelless # NoFile /\ NoFile \notin Key
  BY CacheAssumption, ContentsTyped
\* A step that goes on, without a word on the outcome, to where nothing counts.
<1>7. ASSUME req'[t] = req[t], outcome'[t] = outcome[t],
             pc'[t] \notin {"load", "leaveTmp", "recover", "dropTmp"}
      PROVE  LoadReady(t)'
  BY <1>2, <1>7 DEF LoadReady
<1>8. CASE \E q \in Kernel : Call(t, q)
  BY <1>8 DEF Call, TypeOK, LoadReady
<1>9. CASE LookupHit(t)
  BY <1>9 DEF LookupHit, TypeOK, LoadReady
<1>10. CASE LookupMiss(t) \/ CreateTmp(t) \/ WriteSource(t) \/ LoseSource(t) \/ NvccWrite(t)
            \/ Launch(t) \/ Release(t)
  <2>1. /\ req'[t] = req[t] /\ outcome'[t] = outcome[t]
        /\ pc'[t] \in {"probe", "openSource", "nvccRead", "publish", "release", "idle"}
    BY <1>10 DEF LookupMiss, CreateTmp, WriteSource, LoseSource, NvccWrite, Launch, Release, TypeOK
  <2>2. QED BY <1>7, <2>1
<1>11. CASE Probe(t)
  <2>1. CASE CacheDir(t).cubin # NoFile
    BY <1>2, <1>3, <1>11, <2>1 DEF Probe, TypeOK, LoadReady
  <2>2. CASE CacheDir(t).cubin = NoFile
    BY <1>7, <1>11, <2>2 DEF Probe, TypeOK
  <2>3. QED BY <2>1, <2>2
<1>12. ASSUME Removed(t), req'[t] = req[t] PROVE LoadReady(t)'
  BY <1>2, <1>12, RemovedMoves DEF LoadReady
<1>13. CASE ListTmp(t)
  <2>1. CASE TmpDir(t).exists
    <3>1. /\ req'[t] = req[t] /\ outcome'[t] = outcome[t] /\ pc'[t] = pc[t] /\ pc[t] # "load"
      BY <1>13, <2>1 DEF ListTmp
    <3>2. QED BY <1>2, <3>1 DEF LoadReady
  <2>2. CASE ~TmpDir(t).exists
    BY <1>12, <1>13, <2>2 DEF ListTmp
  <2>3. QED BY <2>1, <2>2
<1>14. ASSUME NEW file \in {"cu", "cubin"}, Unlink(t, file) PROVE LoadReady(t)'
  BY <1>2, <1>14 DEF Unlink, LoadReady
<1>15. ASSUME NEW file \in {"cu", "cubin"}, UnlinkMissing(t, file) PROVE LoadReady(t)'
  BY <1>15 DEF UnlinkMissing, OwnsTmp, Opened
<1>16. CASE RemoveTmp(t)
  <2>1. Files(TmpDir(t)) = {}
    BY <1>16 DEF RemoveTmp, OwnsTmp
  <2>2. QED BY <1>12, <1>16, <2>1 DEF RemoveTmp
<1>17. CASE OpenSource(t)
  BY <1>7, <1>17 DEF OpenSource, TypeOK, OwnsTmp
<1>18. CASE NvccRead(t)
  <2>1. TmpDir(t).cu # NoFile
    BY <1>18, CacheAssumption DEF NvccRead, OwnsTmp, TypeOK
  <2>2. QED BY <1>7, <1>18, <2>1 DEF NvccRead, TypeOK
<1>19. CASE NvccOpen(t)
  BY <1>7, <1>19 DEF NvccOpen, TypeOK, OwnsTmp
<1>20. CASE Publish(t)
  <2>1. CASE CanRename(t)
    <3>1. CacheDir(t)'.exists
      BY <1>2, <1>20, <2>1 DEF Publish, Renames
    <3>2. QED BY <1>2, <1>20, <2>1, <3>1 DEF Publish, TypeOK, LoadReady
  <2>2. CASE ~CanRename(t)
    <3>1. CacheDir(t).exists
      BY <1>1, <1>20, <2>2 DEF Publish, CanRename, OwnsTmp, CacheTidy, CacheDir
    <3>2. QED BY <1>2, <1>20, <2>2, <3>1 DEF Publish, TypeOK, LoadReady
  <2>3. QED BY <2>1, <2>2
<1>21. CASE Recover(t)
  <2>1. CASE CacheDir(t).cubin # NoFile
    BY <1>2, <1>3, <1>21, <2>1 DEF Recover, TypeOK, LoadReady
  <2>2. CASE CacheDir(t).cubin = NoFile
    <3>1. outcome[t] = "fault"
      BY <1>4, <1>6, <1>21, <2>2 DEF Recover, LoadReady
    <3>2. QED BY <1>5, <1>21, <2>2, <3>1 DEF Recover, LoadReady
  <2>3. QED BY <2>1, <2>2
<1>22. CASE Load(t)
  <2>1. CASE CacheDir(t).cubin \in Key
    BY <1>7, <1>22, <2>1 DEF Load, Loadable, TypeOK
  <2>2. CASE CacheDir(t).cubin \notin Key
    <3>1. SourceLost(t)
      BY <1>4, <1>22, <2>2 DEF Load, LoadReady
    <3>2. Throw(t) /\ req' = req
      BY <1>22, <2>2 DEF Load, Loadable
    <3>3. QED BY <1>2, <1>5, <3>1, <3>2 DEF LoadReady
  <2>3. QED BY <2>1, <2>2
<1>23. CASE Store(t)
  BY <1>23 DEF Store, TypeOK, LoadReady
<1>24. CASE Refused(t)
  <2>1. req' = req /\ (outcome'[t] = "fault" \/ (pc'[t] = "release" /\ outcome'[t] = outcome[t]))
        /\ pc'[t] # "load"
    BY <1>24, RefusedGoes
  <2>2. QED BY <1>2, <2>1 DEF LoadReady
<1>25. QED
  BY <1>8, <1>9, <1>10, <1>11, <1>13, <1>14, <1>15, <1>16, <1>17, <1>18, <1>19, <1>20, <1>21,
     <1>22, <1>23, <1>24 DEF ThreadStep, CompileStep

LEMMA CacheInvStep ==
    ASSUME SingleThreaded, TypeOK, CacheInv, [Next]_vars
    PROVE  CacheInv'
<1>1. ASSUME NEW t \in Thread, ThreadStep(t) PROVE CacheInv'
  <2>1. \A u \in Thread : OwnsTmp(u)'
    BY <1>1, OwnsTmpSelf, OwnsTmpOthers DEF CacheInv
  <2>2. \A u \in Thread : LoadReady(u)'
    BY <1>1, LoadReadySelf, LoadReadyOthers DEF CacheInv
  <2>3. QED BY <1>1, <2>1, <2>2, CacheKept DEF CacheInv
<1>2. ASSUME NEW lib \in inflight, Complete(lib) PROVE CacheInv'
  BY <1>2 DEF Complete, local, disk, CacheInv, OwnsTmp, LoadReady, CacheTidy, CacheComplete,
     TmpDir, CacheDir, DirPath, CacheKey, SourceLost
<1>3. ASSUME NEW p \in Proc, Crash(p) PROVE CacheInv'
  <2>1. cache' = cache /\ req' = req /\ lost' = lost
    BY <1>3 DEF Crash
  <2>2. ASSUME NEW t \in Thread, ProcOf[t] = p
        PROVE  OwnsTmp(t)' /\ LoadReady(t)'
    BY <1>3, <2>2 DEF Crash, OwnsTmp, LoadReady, Removing
  <2>3. ASSUME NEW t \in Thread, ProcOf[t] # p
        PROVE  OwnsTmp(t)' /\ LoadReady(t)'
    <3>1. /\ pc'[t] = pc[t] /\ outcome'[t] = outcome[t]
          /\ out'[t] = out[t] /\ image'[t] = image[t] /\ todo'[t] = todo[t]
      BY <1>3, <2>3 DEF Crash
    <3>2. tmp'[ProcOf[t]] = tmp[ProcOf[t]]
      BY <1>3, <2>3, KeyTyped DEF Crash, TypeOK
    <3>3. /\ CacheKey(t)' = CacheKey(t) /\ SourceLost(t)' = SourceLost(t)
          /\ TmpDir(t)' = TmpDir(t) /\ CacheDir(t)' = CacheDir(t)
      BY <2>1, <3>2 DEF TmpDir, CacheDir, DirPath, CacheKey, SourceLost
    <3>4. OwnsTmp(t) /\ LoadReady(t)
      BY DEF CacheInv
    <3>5. OwnsTmp(t)'
      BY <2>1, <3>1, <3>3, <3>4 DEF OwnsTmp
    <3>6. LoadReady(t)'
      BY <3>1, <3>3, <3>4 DEF LoadReady
    <3>7. QED BY <3>5, <3>6
  <2>4. QED BY <2>1, <2>2, <2>3 DEF CacheInv, CacheTidy, CacheComplete
<1>4. CASE UNCHANGED vars
  BY <1>4 DEF vars, CacheInv, OwnsTmp, LoadReady, CacheTidy, CacheComplete,
     TmpDir, CacheDir, DirPath, CacheKey, SourceLost
<1>5. QED BY <1>1, <1>2, <1>3, <1>4, StepsOfNext

\* What is in a cache directory when the program starts: nothing, or what
\* earlier runs published there.
LEMMA WarmCache ==
    ASSUME Init, NEW d \in Dir
    PROVE  \/ cache[d] = Absent
           \/ \E k \in Key : DirOf[k] = d /\ cache[d] = [exists |-> TRUE, cu |-> k[1], cubin |-> k]
<1>1. PICK warm \in SUBSET Key : cache = [e \in Dir |->
          IF \E k \in warm : DirOf[k] = e
          THEN LET k == CHOOSE k \in warm : DirOf[k] = e
               IN  [exists |-> TRUE, cu |-> k[1], cubin |-> k]
          ELSE Absent]
  BY DEF Init
<1>2. CASE \E k \in warm : DirOf[k] = d
  <2> DEFINE c == CHOOSE k \in warm : DirOf[k] = d
  <2>1. c \in warm /\ DirOf[c] = d
    BY <1>2
  <2>2. cache[d] = [exists |-> TRUE, cu |-> c[1], cubin |-> c]
    BY <1>1, <1>2
  <2> HIDE DEF c
  <2>3. QED BY <2>1, <2>2
<1>3. CASE ~\E k \in warm : DirOf[k] = d
  BY <1>1, <1>3
<1>4. QED BY <1>2, <1>3

LEMMA CacheInvInit == Init => CacheInv
<1> SUFFICES ASSUME Init PROVE CacheInv
  OBVIOUS
<1>1. \A t \in Thread : /\ pc[t] = "idle" /\ out[t] = "none" /\ outcome[t] = "none"
                        /\ todo[t] = {}
  BY DEF Init
<1>2. \A t \in Thread : OwnsTmp(t) /\ LoadReady(t)
  BY <1>1 DEF OwnsTmp, LoadReady, Removing
<1>3. ASSUME NEW d \in Dir
      PROVE  /\ cache[d].exists \/ cache[d] = Absent
             /\ cache[d].exists => cache[d].cubin \in Key
  <2>1. CASE cache[d] = Absent
    BY <2>1, ContentsTyped DEF Absent
  <2>2. ASSUME NEW k \in Key, cache[d] = [exists |-> TRUE, cu |-> k[1], cubin |-> k]
        PROVE  cache[d].exists /\ cache[d].cubin \in Key
    BY <2>2
  <2>3. QED BY <2>1, <2>2, WarmCache
<1>4. QED BY <1>2, <1>3 DEF CacheInv, CacheTidy, CacheComplete

LEMMA CacheInvariant == ASSUME SingleThreaded PROVE Spec => []CacheInv
<1>1. TypeOK /\ CacheInv /\ [Next]_vars => CacheInv'
  BY CacheInvStep
<1>2. QED BY <1>1, CacheInvInit, TypeCorrect, PTL DEF Spec

\* When no two threads of a process launch kernels, a cache directory always
\* holds its whole cubin, whatever fails, crashes or runs in other processes -
\* or the empty image of a source that the disk has lost.
THEOREM CacheStaysComplete == ASSUME SingleThreaded PROVE Spec => []CacheComplete
<1>1. CacheInv => CacheComplete
  BY DEF CacheInv
<1>2. QED BY <1>1, CacheInvariant, PTL

\* ... and build_kernel throws only when the environment refused it something or
\* the disk has lost a source of its kernel.
THEOREM ErrorsHaveReasons == ASSUME SingleThreaded PROVE Spec => []ErrorsAreExplained
<1>1. CacheInv => ErrorsAreExplained
  BY DEF CacheInv, LoadReady, SourceLost, ErrorsAreExplained
<1>2. QED BY <1>1, CacheInvariant, PTL

-----------------------------------------------------------------------------
(***************************************************************************)
(* Running kernels.                                                         *)
(***************************************************************************)

LEMMA RunningInvStep == TypeOK /\ LibInv /\ RunningInv /\ [Next]_vars => RunningInv'
<1> SUFFICES ASSUME TypeOK, LibInv, RunningInv, [Next]_vars PROVE RunningInv'
  OBVIOUS
<1> USE DEF local, disk, gpu, Goto
\* A step that stores no library and starts no kernel.
<1>1. ASSUME inflight' \subseteq inflight, UNCHANGED <<req, kernels>>,
             \A t \in Thread : pc'[t] \in {"launch", "release"} =>
                pc[t] \in {"launch", "release"}
      PROVE  RunningInv'
  BY <1>1 DEF RunningInv
<1>2. ASSUME NEW t \in Thread, ThreadStep(t) PROVE RunningInv'
  <2>1. ASSUME NEW u \in Thread, u # t PROVE pc'[u] = pc[u] /\ req'[u] = req[u]
    BY <1>2, <2>1, OwnVariables
  <2>2. Throw(t) => pc'[t] = "idle"
    BY DEF Throw, TypeOK
  <2>3. CASE \E q \in Kernel : Call(t, q)
    <3>1. /\ inflight' = inflight /\ kernels' = kernels /\ pc'[t] = "lookup"
      BY <2>3 DEF Call, TypeOK
    <3>2. QED BY <2>1, <3>1 DEF RunningInv
  <2>4. CASE LookupHit(t)
    <3>1. /\ inflight' = inflight /\ kernels' = kernels /\ req' = req
          /\ kernels[ProcOf[t]][req[t]] # NoLib
      BY <2>4 DEF LookupHit
    <3>2. QED BY <2>1, <3>1 DEF RunningInv
  <2>5. CASE Store(t)
    <3>1. /\ inflight' = inflight /\ req' = req
          /\ kernels' = [kernels EXCEPT ![ProcOf[t]][req[t]] = held[t]]
          /\ held[t] # NoLib
      BY <2>5 DEF Store, LibInv
    <3>2. \A p \in Proc, q \in Kernel : kernels[p][q] # NoLib => kernels'[p][q] # NoLib
      BY <3>1 DEF TypeOK
    <3>3. kernels'[ProcOf[t]][req[t]] # NoLib
      BY <3>1, KeyTyped DEF TypeOK
    <3>4. \A lib \in inflight : lib # NoLib => ProcOf[lib.by] \in Proc /\ lib.kernel \in Kernel
      BY CacheAssumption DEF TypeOK, Lib
    <3>5. \A u \in Thread : ProcOf[u] \in Proc /\ req[u] \in Kernel
      BY KeyTyped DEF TypeOK
    <3>6. QED BY <2>1, <3>1, <3>2, <3>3, <3>4, <3>5 DEF RunningInv
  <2>6. CASE Launch(t)
    <3>1. /\ held[t] # NoLib /\ ProcOf[held[t].by] = ProcOf[t] /\ held[t].kernel = req[t]
          /\ kernels[ProcOf[t]][req[t]] # NoLib
      BY <2>6 DEF Launch, LibInv, RunningInv
    <3>2. inflight' = inflight \cup {held[t]} /\ UNCHANGED <<req, kernels>>
          /\ pc[t] = "launch" /\ \A u \in Thread : u # t => pc'[u] = pc[u]
      BY <2>1, <2>6 DEF Launch
    <3>3. QED BY <3>1, <3>2 DEF RunningInv
  <2>7. CASE LookupMiss(t) \/ Probe(t) \/ Load(t) \/ Release(t)
    <3>1. inflight' = inflight /\ UNCHANGED <<req, kernels>>
      BY <2>7 DEF LookupMiss, Probe, Load, Release
    <3>2. pc'[t] \notin {"launch", "release"}
      BY <2>2, <2>7 DEF LookupMiss, Probe, Load, Release, TypeOK
    <3>3. QED BY <1>1, <2>1, <3>1, <3>2
  <2>8. CASE CompileStep(t)
    <3>1. inflight' = inflight /\ UNCHANGED <<req, kernels>>
      BY <2>8, CompileMoves
    <3>2. Throw(t) \/ \E label \in Compiling \cup {"load"} : Goto(t, label)
      BY <2>8, CompileMoves DEF Quietly
    <3>3. Throw(t) \/ pc'[t] \in Compiling \cup {"load"}
      BY <3>2 DEF TypeOK
    <3>4. pc'[t] \notin {"launch", "release"}
      BY <2>2, <3>3 DEF Compiling, Removing
    <3>5. QED BY <1>1, <2>1, <3>1, <3>4
  <2>9. CASE Refused(t)
    <3>1. inflight' = inflight /\ UNCHANGED <<req, kernels>>
      BY <2>9, RefusedMoves
    <3>2. pc'[t] \in {"launch", "release"} => pc[t] = "launch"
      BY <2>9, RefusedGoes
    <3>3. QED BY <1>1, <2>1, <3>1, <3>2
  <2>10. QED BY <1>2, <2>3, <2>4, <2>5, <2>6, <2>7, <2>8, <2>9 DEF ThreadStep
<1>3. ASSUME NEW lib \in inflight, Complete(lib) PROVE RunningInv'
  BY <1>1, <1>3 DEF Complete
<1>4. ASSUME NEW p \in Proc, Crash(p) PROVE RunningInv'
  <2>1. /\ kernels' = [kernels EXCEPT ![p] = [q \in Kernel |-> NoLib]] /\ req' = req
        /\ inflight' = {lib \in inflight : lib.by \notin {t \in Thread : ProcOf[t] = p}}
        /\ \A t \in Thread : pc'[t] = IF ProcOf[t] = p THEN "idle" ELSE pc[t]
    BY <1>4 DEF Crash
  <2>2. \A r \in Proc : r # p => kernels'[r] = kernels[r]
    BY <2>1 DEF TypeOK
  <2>3. ASSUME NEW lib \in inflight'
        PROVE  lib # NoLib /\ kernels'[ProcOf[lib.by]][lib.kernel] # NoLib
    <3>1. lib \in inflight /\ lib # NoLib /\ lib \in Lib
      BY <2>1 DEF RunningInv, TypeOK
    <3>2. ProcOf[lib.by] # p /\ ProcOf[lib.by] \in Proc
      BY <2>1, <3>1, CacheAssumption DEF Lib
    <3>3. QED BY <2>2, <3>1, <3>2 DEF RunningInv
  <2>4. ASSUME NEW t \in Thread, pc'[t] \in {"launch", "release"}
        PROVE  kernels'[ProcOf[t]][req'[t]] # NoLib
    BY <2>1, <2>2, <2>4, KeyTyped DEF RunningInv
  <2>5. QED BY <2>3, <2>4 DEF RunningInv
<1>5. CASE UNCHANGED vars
  BY <1>1, <1>5 DEF vars
<1>6. QED BY <1>2, <1>3, <1>4, <1>5, StepsOfNext

\* However many threads launch: a library is unloaded under a kernel that still
\* runs only when another build of the same kernel in the same process has taken
\* its place in g_kernel_cache - never because its launcher has returned.
THEOREM RunningStaysLoaded == Spec => []RunningLoaded
<1>1. Init => RunningInv
  BY DEF Init, RunningInv
<1>2. TypeOK /\ LibInv /\ RunningInv /\ [Next]_vars => (TypeOK /\ LibInv /\ RunningInv)'
  BY TypeCorrectStep, LibInvStep, RunningInvStep
<1>3. TypeOK /\ LibInv /\ RunningInv => RunningLoaded
  <2> SUFFICES ASSUME TypeOK, LibInv, RunningInv, NEW lib \in inflight
               PROVE  lib \in loaded \/ Superseded(lib)
    BY DEF RunningLoaded
  <2>1. lib # NoLib /\ kernels[ProcOf[lib.by]][lib.kernel] # NoLib
    BY DEF RunningInv
  <2>2. ProcOf[lib.by] \in Proc /\ lib.kernel \in Kernel
    BY <2>1, CacheAssumption DEF TypeOK, Lib
  <2>3. kernels[ProcOf[lib.by]][lib.kernel] \in loaded
    BY <2>1, <2>2 DEF LibInv
  <2>4. QED BY <2>1, <2>3 DEF Superseded
<1>4. QED BY <1>1, <1>2, <1>3, TypeCorrectInit, LibInvInit, PTL DEF Spec

-----------------------------------------------------------------------------
(***************************************************************************)
(* Scopes.                                                                  *)
(***************************************************************************)

LEMMA ScopeOthers ==
    ASSUME TypeOK, NEW t \in Thread, ThreadStep(t), NEW u \in Thread, u # t, ScopeOf(u)
    PROVE  ScopeOf(u)'
  BY OwnVariables DEF ScopeOf

\* The one finish of a live scope, and what it says.
LEMMA FinishOnce ==
    ASSUME TypeOK, NEW t \in Thread, ScopeOf(t), NEW success \in BOOLEAN,
           FinishScope(t, success)
    PROVE  /\ scope'[t] = "none"
           /\ scope[t] = "none" => events'[t] = events[t]
           /\ scope[t] # "none" =>
                /\ Len(events'[t]) = 2
                /\ events'[t][1].phase = "start" /\ events'[t][2].phase = "finish"
                /\ events'[t][2].source = events'[t][1].source
                /\ events'[t][2].success = success
<1>1. CASE scope[t] = "none"
  BY <1>1 DEF FinishScope
<1>2. CASE scope[t] # "none"
  <2> DEFINE e == [phase |-> "finish", source |-> scope[t], success |-> success]
  <2>1. e \in Event /\ events[t] \in Seq(Event)
    BY <1>2 DEF Event, TypeOK
  <2>2. scope'[t] = "none" /\ events'[t] = Append(events[t], e)
    BY <1>2 DEF FinishScope, TypeOK
  <2>3. Len(events[t]) = 1 /\ events[t][1].phase = "start" /\ events[t][1].source = scope[t]
    BY <1>2 DEF ScopeOf
  <2>4. e.phase = "finish" /\ e.source = scope[t] /\ e.success = success
    OBVIOUS
  <2> HIDE DEF e
  <2>5. Len(events'[t]) = 2 /\ events'[t][1] = events[t][1] /\ events'[t][2] = e
    BY <2>1, <2>2, <2>3
  <2>6. QED BY <1>2, <2>2, <2>3, <2>4, <2>5
<1>3. QED BY <1>1, <1>2

LEMMA ScopeSelf ==
    ASSUME TypeOK, NEW t \in Thread, ThreadStep(t), ScopeOf(t)
    PROVE  ScopeOf(t)'
<1> USE DEF local, disk, gpu
<1>1. \A label : Goto(t, label) => pc'[t] = label
  BY DEF Goto, TypeOK
\* An exception out of the part of build_kernel that has a scope.
<1>2. ASSUME Throw(t), pc[t] \in InScope PROVE ScopeOf(t)'
  <2>1. pc'[t] = "idle" /\ outcome'[t] \in {"fault", "error"}
    BY <1>1, <1>2 DEF Throw, TypeOK
  <2>2. scope[t] # "none"
    BY <1>2 DEF ScopeOf
  <2>3. FinishScope(t, FALSE)
    BY <1>2 DEF Throw
  <2>4. QED BY <2>1, <2>2, <2>3, FinishOnce DEF ScopeOf, InScope, Compiling, Removing
\* A step within that part.
<1>3. ASSUME pc[t] \in InScope, pc'[t] \in InScope, outcome'[t] \in {outcome[t], "fault"},
             UNCHANGED <<scope, events>>
      PROVE  ScopeOf(t)'
  BY <1>3 DEF ScopeOf, InScope, Compiling, Removing
<1>4. CASE \E q \in Kernel : Call(t, q)
  <2>1. /\ pc'[t] = "lookup" /\ outcome'[t] = "none" /\ events'[t] = <<>>
        /\ scope'[t] = "none"
    BY <1>1, <1>4 DEF Call, TypeOK, ScopeOf, InScope, Compiling, Removing
  <2>2. QED BY <2>1 DEF ScopeOf, InScope, Compiling, Removing
<1>5. CASE LookupHit(t) \/ LookupMiss(t)
  <2>1. /\ pc[t] = "lookup" /\ UNCHANGED <<scope, events>>
        /\ pc'[t] = "launch" \/ (pc'[t] = "probe" /\ outcome' = outcome)
    BY <1>1, <1>5 DEF LookupHit, LookupMiss
  <2>2. QED BY <2>1 DEF ScopeOf, InScope, Compiling, Removing
<1>6. CASE Probe(t)
  <2>1. PICK source \in Source : StartScope(t, source)
    BY <1>6 DEF Probe, Source
  <2>2. /\ pc[t] = "probe" /\ pc'[t] \in {"load", "clearTmp"} /\ outcome' = outcome
    BY <1>1, <1>6 DEF Probe
  <2> DEFINE e == [phase |-> "start", source |-> source, success |-> TRUE]
  <2>3. e \in Event /\ e.phase = "start" /\ e.source = source /\ events[t] \in Seq(Event)
    BY DEF Event, TypeOK
  <2>4. scope'[t] = source /\ events'[t] = Append(events[t], e)
    BY <2>1 DEF StartScope, TypeOK
  <2>5. Len(events[t]) = 0 /\ source # "none"
    BY <2>2 DEF ScopeOf, Source
  <2> HIDE DEF e
  <2>6. Len(events'[t]) = 1 /\ events'[t][1] = e
    BY <2>3, <2>4, <2>5
  <2>7. outcome[t] # "ok"
    BY <2>2 DEF ScopeOf
  <2>8. QED BY <2>2, <2>3, <2>4, <2>5, <2>6, <2>7 DEF ScopeOf, InScope, Compiling, Removing
<1>7. CASE CompileStep(t)
  <2>1. /\ pc[t] \in Compiling
        /\ Throw(t) \/ \E label \in Compiling \cup {"load"} : Quietly(t, label)
    BY <1>7, CompileMoves
  <2>2. Throw(t) \/ (pc'[t] \in InScope /\ UNCHANGED <<outcome, scope, events>>)
    BY <1>1, <2>1 DEF Quietly, InScope
  <2>3. QED BY <1>2, <1>3, <2>1, <2>2 DEF InScope
<1>8. CASE Load(t)
  <2>1. pc[t] \in InScope
    BY <1>8 DEF Load, InScope
  <2>2. \/ Throw(t)
        \/ pc'[t] \in InScope /\ UNCHANGED <<outcome, scope, events>>
    BY <1>1, <1>8 DEF Load, Loadable, InScope
  <2>3. QED BY <1>2, <1>3, <2>1, <2>2
<1>9. CASE Store(t)
  <2>1. FinishScope(t, TRUE) /\ pc'[t] = "launch" /\ outcome'[t] = "ok" /\ pc[t] \in InScope
    BY <1>1, <1>9 DEF Store, TypeOK, InScope
  <2>2. scope[t] # "none"
    BY <2>1 DEF ScopeOf
  <2>3. QED BY <2>1, <2>2, FinishOnce DEF ScopeOf, InScope, Compiling, Removing
<1>10. CASE Launch(t) \/ Release(t)
  <2>1. /\ pc[t] \in {"launch", "release"} /\ pc'[t] \in {"release", "idle"}
        /\ UNCHANGED <<outcome, scope, events>>
    BY <1>1, <1>10 DEF Launch, Release
  <2>2. QED BY <2>1 DEF ScopeOf, InScope, Compiling, Removing
<1>11. CASE Refused(t)
  <2>1. CASE pc[t] = "launch" /\ Goto(t, "release") /\ UNCHANGED <<outcome, scope, events>>
    BY <1>1, <2>1 DEF ScopeOf, InScope, Compiling, Removing
  <2>2. CASE /\ pc[t] \in Compiling
             /\ Goto(t, "dropTmp") \/ Goto(t, "leaveTmp")
             /\ outcome'[t] = "fault" /\ UNCHANGED <<scope, events>>
    BY <1>1, <1>3, <2>2 DEF InScope, Compiling, Removing
  <2>3. CASE /\ pc[t] \in Building \ {"store"} /\ Goto(t, "idle")
             /\ outcome'[t] = "fault" /\ FinishScope(t, FALSE)
    <3>1. pc'[t] = "idle" /\ pc[t] \in {"lookup", "probe"} \cup InScope
      BY <1>1, <2>3 DEF Building, InScope
    <3>2. CASE scope[t] = "none"
      <4>1. Len(events[t]) = 0
        BY <3>1, <3>2 DEF ScopeOf
      <4>2. QED BY <2>3, <3>1, <3>2, <4>1, FinishOnce DEF ScopeOf, InScope, Compiling, Removing
    <3>3. CASE scope[t] # "none"
      BY <2>3, <3>1, <3>3, FinishOnce DEF ScopeOf, InScope, Compiling, Removing
    <3>4. QED BY <3>2, <3>3
  <2>4. QED BY <1>11, <2>1, <2>2, <2>3, RefusedMoves
<1>12. QED
  BY <1>4, <1>5, <1>6, <1>7, <1>8, <1>9, <1>10, <1>11 DEF ThreadStep

LEMMA ScopeInvStep == TypeOK /\ ScopeInv /\ [Next]_vars => ScopeInv'
<1> SUFFICES ASSUME TypeOK, ScopeInv, [Next]_vars PROVE ScopeInv'
  OBVIOUS
<1>1. ASSUME NEW t \in Thread, ThreadStep(t) PROVE ScopeInv'
  BY <1>1, ScopeSelf, ScopeOthers DEF ScopeInv
<1>2. ASSUME NEW lib \in inflight, Complete(lib) PROVE ScopeInv'
  BY <1>2 DEF Complete, local, ScopeInv, ScopeOf
<1>3. ASSUME NEW p \in Proc, Crash(p) PROVE ScopeInv'
  <2>1. ASSUME NEW t \in Thread, ProcOf[t] = p PROVE ScopeOf(t)'
    BY <1>3, <2>1 DEF Crash, ScopeOf, InScope, Compiling, Removing
  <2>2. ASSUME NEW t \in Thread, ProcOf[t] # p PROVE ScopeOf(t)'
    <3>1. /\ pc'[t] = pc[t] /\ outcome'[t] = outcome[t]
          /\ scope'[t] = scope[t] /\ events'[t] = events[t]
      BY <1>3, <2>2 DEF Crash
    <3>2. QED BY <3>1 DEF ScopeInv, ScopeOf
  <2>3. QED BY <2>1, <2>2 DEF ScopeInv
<1>4. CASE UNCHANGED vars
  BY <1>4 DEF vars, ScopeInv, ScopeOf
<1>5. QED BY <1>1, <1>2, <1>3, <1>4, StepsOfNext

\* Whatever build_kernel does - find, compile, load, throw - and whatever other
\* threads and processes do meanwhile: the hook is told nothing, or a start and
\* one finish that says success exactly when a kernel was returned.
THEOREM ScopesStayPaired == Spec => []ScopesPaired
<1>1. Init => ScopeInv
  <2> SUFFICES ASSUME Init, NEW t \in Thread PROVE ScopeOf(t)
    BY DEF ScopeInv
  <2>1. pc[t] = "idle" /\ scope[t] = "none" /\ events[t] = <<>>
    BY DEF Init
  <2>2. QED BY <2>1 DEF ScopeOf, InScope, Compiling, Removing
<1>2. TypeOK /\ ScopeInv => ScopesPaired
  <2> SUFFICES ASSUME TypeOK, ScopeInv, NEW t \in Thread
               PROVE  /\ Len(events[t]) \in 0..2
                      /\ Len(events[t]) >= 1 => events[t][1].phase = "start"
                      /\ Len(events[t]) = 2 =>
                            /\ events[t][2].phase = "finish"
                            /\ events[t][2].source = events[t][1].source
                            /\ events[t][2].success <=> outcome[t] = "ok"
                      /\ (scope[t] # "none") <=> (Len(events[t]) = 1)
                      /\ pc[t] \notin Building => scope[t] = "none"
    BY DEF ScopesPaired
  <2>1. ScopeOf(t)
    BY DEF ScopeInv
  <2>2. QED BY <2>1 DEF ScopeOf, InScope, Building
<1>3. QED BY <1>1, <1>2, ScopeInvStep, TypeCorrect, PTL DEF Spec

=============================================================================
