------------------------- MODULE KernelStore_proofs -------------------------
(***************************************************************************)
(* Proofs about KernelCache that hold however many threads of a process     *)
(* launch: where compiled kernels are, that published ones stay, and that   *)
(* the cache implements the abstract KernelStore.                           *)
(***************************************************************************)
EXTENDS KernelCache_proofs

(***************************************************************************)
(* Names.                                                                   *)
(***************************************************************************)

LEMMA TmpNamedKept ==
    ASSUME TypeOK, TmpNamed, NEW t \in Thread, NEW c, SetTmp(t, c),
           c.cu \in Kernel => DirOf[<<c.cu, ConfigOf[ProcOf[t]]>>] = DirPath(t),
           c.cubin \in Key => DirOf[c.cubin] = DirPath(t)
    PROVE  TmpNamed'
<1> SUFFICES ASSUME NEW p \in Proc, NEW d \in Dir
             PROVE  /\ tmp'[p][d].cu \in Kernel => DirOf[<<tmp'[p][d].cu, ConfigOf[p]>>] = d
                    /\ tmp'[p][d].cubin \in Key => DirOf[tmp'[p][d].cubin] = d
  BY DEF TmpNamed
<1>1. CASE p = ProcOf[t] /\ d = DirPath(t)
  <2>1. tmp'[p][d] = c
    BY <1>1 DEF SetTmp, TypeOK
  <2>2. QED BY <1>1, <2>1
<1>2. CASE ~(p = ProcOf[t] /\ d = DirPath(t))
  <2>1. tmp'[p][d] = tmp[p][d]
    BY <1>2 DEF SetTmp, TypeOK
  <2>2. QED BY <2>1 DEF TmpNamed
<1>3. QED BY <1>1, <1>2

LEMMA CacheNamedKept ==
    ASSUME TypeOK, CacheNamed, NEW t \in Thread, NEW c,
           cache' = [cache EXCEPT ![DirPath(t)] = c],
           c.cubin \in Key => DirOf[c.cubin] = DirPath(t)
    PROVE  CacheNamed'
<1> SUFFICES ASSUME NEW d \in Dir
             PROVE  cache'[d].cubin \in Key => DirOf[cache'[d].cubin] = d
  BY DEF CacheNamed
<1>1. CASE d = DirPath(t)
  <2>1. cache'[d] = c
    BY <1>1 DEF TypeOK
  <2>2. QED BY <1>1, <2>1
<1>2. CASE d # DirPath(t)
  <2>1. cache'[d] = cache[d]
    BY <1>2 DEF TypeOK
  <2>2. QED BY <2>1 DEF CacheNamed
<1>3. QED BY <1>1, <1>2

\* What the directories of t hold has their name.
LEMMA OwnNames ==
    ASSUME TypeOK, NamedInv, NEW t \in Thread
    PROVE  /\ TmpDir(t).cu \in Kernel => DirOf[<<TmpDir(t).cu, ConfigOf[ProcOf[t]]>>] = DirPath(t)
           /\ TmpDir(t).cubin \in Key => DirOf[TmpDir(t).cubin] = DirPath(t)
           /\ CacheDir(t).cubin \in Key => DirOf[CacheDir(t).cubin] = DirPath(t)
           /\ image[t] \in Key => DirOf[image[t]] = DirPath(t)
           /\ DirOf[<<req[t], ConfigOf[ProcOf[t]]>>] = DirPath(t)
           /\ out[t] = "tmp" /\ Opened(t).cu \in Kernel
                => DirOf[<<Opened(t).cu, ConfigOf[ProcOf[t]]>>] = DirPath(t)
           /\ Opened(t).cubin \in Key => DirOf[Opened(t).cubin] = DirPath(t)
<1>1. /\ TmpDir(t).cu \in Kernel => DirOf[<<TmpDir(t).cu, ConfigOf[ProcOf[t]]>>] = DirPath(t)
      /\ TmpDir(t).cubin \in Key => DirOf[TmpDir(t).cubin] = DirPath(t)
      /\ CacheDir(t).cubin \in Key => DirOf[CacheDir(t).cubin] = DirPath(t)
      /\ image[t] \in Key => DirOf[image[t]] = DirPath(t)
      /\ DirOf[<<req[t], ConfigOf[ProcOf[t]]>>] = DirPath(t)
  BY KeyTyped DEF NamedInv, TmpNamed, CacheNamed, ImageNamed, TmpDir, CacheDir, DirPath, CacheKey
<1>2. Created.cubin \notin Key
  BY ContentsTyped DEF Created
<1>3. QED BY <1>1, <1>2 DEF Opened

\* What t writes to the directory it has open: the name of a source matters
\* only where the source is compiled.
LEMMA OpenedNamed ==
    ASSUME TypeOK, NamedInv, NEW t \in Thread, NEW c, SetOpened(t, c),
           out[t] = "tmp" /\ c.cu \in Kernel
              => DirOf[<<c.cu, ConfigOf[ProcOf[t]]>>] = DirPath(t),
           c.cubin \in Key => DirOf[c.cubin] = DirPath(t)
    PROVE  TmpNamed' /\ CacheNamed'
<1>1. TmpNamed /\ CacheNamed
  BY DEF NamedInv
<1>2. TmpNamed'
  <2>1. CASE out[t] = "tmp"
    BY <1>1, <2>1, TmpNamedKept DEF SetOpened
  <2>2. CASE out[t] # "tmp"
    BY <1>1, <2>2 DEF SetOpened, TmpNamed
  <2>3. QED BY <2>1, <2>2
<1>3. CacheNamed'
  <2>1. CASE out[t] = "cache"
    BY <1>1, <2>1, CacheNamedKept DEF SetOpened
  <2>2. CASE out[t] # "cache"
    BY <1>1, <2>2 DEF SetOpened, CacheNamed
  <2>3. QED BY <2>1, <2>2
<1>4. QED BY <1>2, <1>3

\* A step that does not change what nvcc will write ...
LEMMA ImageKept ==
    ASSUME TypeOK, NamedInv, NEW t \in Thread, ThreadStep(t),
           \/ image'[t] = Kernelless
           \/ image' = image /\ pc[t] \notin {"nvccOpen", "nvccWrite"}
    PROVE  \A u \in Thread : ImageNamed(u)'
<1>1. ImageNamed(t)'
  <2>1. image'[t] \notin Key
    BY ContentsTyped DEF NamedInv, ImageNamed
  <2>2. QED BY <2>1 DEF ImageNamed
<1>2. ASSUME NEW u \in Thread, u # t PROVE ImageNamed(u)'
  BY <1>2, OwnVariables DEF NamedInv, ImageNamed
<1>3. QED BY <1>1, <1>2

LEMMA NamedStep ==
    ASSUME TypeOK, NamedInv, NEW t \in Thread, ThreadStep(t)
    PROVE  NamedInv'
<1> USE DEF local, disk, gpu
<1>1. TmpDir(t) \in Content /\ CacheDir(t) \in Content /\ DirPath(t) \in Dir
  BY KeyTyped
<1>2. TmpNamed /\ CacheNamed
  BY DEF NamedInv
<1>3. Absent.cu \notin Kernel /\ Absent.cubin \notin Key
      /\ Created.cu \notin Kernel /\ Created.cubin \notin Key
      /\ Partial \notin Kernel /\ Partial \notin Key
  BY CacheAssumption, ContentsTyped DEF Absent, Created
<1>4. cache' = cache => CacheNamed'
  BY <1>2 DEF CacheNamed
<1>5. tmp' = tmp => TmpNamed'
  BY <1>2 DEF TmpNamed
<1>6. SetTmp(t, Absent) => TmpNamed'
  BY <1>2, <1>3, TmpNamedKept
<1>7. CASE ~CompileStep(t)
  <2>1. tmp' = tmp /\ cache' = cache
    BY <1>7, DiskSteps
  <2>2. \/ image'[t] = Kernelless
        \/ image' = image /\ pc[t] \notin {"nvccOpen", "nvccWrite"}
    <3>1. CASE Refused(t)
      BY <3>1, RefusedMoves
    <3>2. CASE ~Refused(t)
      BY <1>7, <3>2 DEF ThreadStep, Call, LookupHit, LookupMiss, Probe, Load, Store, Launch, Release
    <3>3. QED BY <3>1, <3>2
  <2>3. QED BY <1>4, <1>5, <2>1, <2>2, ImageKept DEF NamedInv
<1>8. CASE ListTmp(t) \/ LoseSource(t) \/ Recover(t) \/ RemoveTmp(t)
           \/ \E file \in {"cu", "cubin"} : UnlinkMissing(t, file)
  <2>1. /\ SetTmp(t, Absent) \/ tmp' = tmp
        /\ cache' = cache /\ image' = image
        /\ pc[t] \notin {"nvccOpen", "nvccWrite"}
    BY <1>8 DEF ListTmp, LoseSource, Recover, RemoveTmp, UnlinkMissing, Removing
  <2>2. QED BY <1>4, <1>5, <1>6, <2>1, ImageKept DEF NamedInv
<1>17. ASSUME NEW file \in {"cu", "cubin"}, Unlink(t, file) PROVE NamedInv'
  <2> DEFINE c == Without(Opened(t), file)
  <2>1. /\ SetOpened(t, c) /\ image' = image /\ pc[t] \notin {"nvccOpen", "nvccWrite"}
    BY <1>17 DEF Unlink, Removing
  <2>2. Opened(t) \in Content
    BY OpenedTyped
  <2>3. c.cu \in {Opened(t).cu, NoFile} /\ c.cubin \in {Opened(t).cubin, NoFile}
    BY <2>2, FilesOfWithout
  <2> HIDE DEF c
  <2>4. NoFile \notin Kernel /\ NoFile \notin Key
    BY CacheAssumption, ContentsTyped
  <2>5. TmpNamed' /\ CacheNamed'
    BY <2>1, <2>3, <2>4, OwnNames, OpenedNamed
  <2>6. QED BY <2>1, <2>5, ImageKept DEF NamedInv
<1>9. CASE CreateTmp(t)
  <2>1. /\ SetTmp(t, Created) \/ SetTmp(t, TmpDir(t))
        /\ cache' = cache /\ image' = image
        /\ pc[t] \notin {"nvccOpen", "nvccWrite"}
    BY <1>9 DEF CreateTmp
  <2>2. TmpNamed'
    <3>1. CASE SetTmp(t, Created)
      BY <1>2, <1>3, <3>1, TmpNamedKept
    <3>2. CASE SetTmp(t, TmpDir(t))
      BY <1>2, <3>2, OwnNames, TmpNamedKept
    <3>3. QED BY <2>1, <3>1, <3>2
  <2>3. QED BY <1>4, <2>1, <2>2, ImageKept DEF NamedInv
<1>10. CASE OpenSource(t)
  <2> DEFINE c == [TmpDir(t) EXCEPT !.cu = Partial]
  <2>1. c.cu = Partial /\ c.cubin = TmpDir(t).cubin
    BY <1>1 DEF Content
  <2>2. /\ SetTmp(t, c) \/ tmp' = tmp
        /\ cache' = cache /\ image' = image /\ pc[t] \notin {"nvccOpen", "nvccWrite"}
    BY <1>10 DEF OpenSource
  <2> HIDE DEF c
  <2>3. SetTmp(t, c) => TmpNamed'
    BY <1>2, <1>3, <2>1, OwnNames, TmpNamedKept
  <2>4. QED BY <1>4, <1>5, <2>2, <2>3, ImageKept DEF NamedInv
<1>11. CASE WriteSource(t)
  <2> DEFINE c == [Opened(t) EXCEPT !.cu = req[t]]
  <2>1. c.cu = req[t] /\ c.cubin = Opened(t).cubin
    BY OpenedTyped DEF Content
  <2>2. SetOpened(t, c) /\ image' = image /\ pc[t] \notin {"nvccOpen", "nvccWrite"}
    BY <1>11 DEF WriteSource
  <2> HIDE DEF c
  <2>3. TmpNamed' /\ CacheNamed'
    BY <2>1, <2>2, OwnNames, OpenedNamed
  <2>4. QED BY <2>2, <2>3, ImageKept DEF NamedInv
<1>12. CASE NvccRead(t)
  <2>1. tmp' = tmp /\ cache' = cache /\ req' = req /\ pc[t] = "nvccRead"
    BY <1>12 DEF NvccRead
  <2>2. CASE TmpDir(t).cu = NoFile \/ TmpDir(t).cu = Partial
    <3>1. image'[t] = Kernelless \/ image' = image
      BY <1>12, <2>2 DEF NvccRead, TypeOK
    <3>2. QED BY <1>4, <1>5, <2>1, <3>1, ImageKept DEF NamedInv
  <2>3. CASE TmpDir(t).cu \notin {NoFile, Partial}
    <3>1. TmpDir(t).cu \in Kernel
      BY <1>1, <2>3 DEF Content
    <3>2. image'[t] = <<TmpDir(t).cu, ConfigOf[ProcOf[t]]>> /\ pc'[t] = "nvccOpen"
      BY <1>12, <2>3 DEF NvccRead, Goto, TypeOK
    <3>3. DirPath(t)' = DirPath(t)
      BY <2>1 DEF DirPath, CacheKey
    <3>4. ImageNamed(t)'
      BY <3>1, <3>2, <3>3, OwnNames DEF ImageNamed
    <3>5. ASSUME NEW u \in Thread, u # t PROVE ImageNamed(u)'
      BY <3>5, OwnVariables DEF NamedInv, ImageNamed
    <3>6. QED BY <1>4, <1>5, <2>1, <3>4, <3>5 DEF NamedInv
  <2>4. QED BY <2>2, <2>3
<1>13. CASE NvccOpen(t)
  <2> DEFINE c == [TmpDir(t) EXCEPT !.cubin = Partial]
  <2>1. c.cubin = Partial /\ c.cu = TmpDir(t).cu
    BY <1>1 DEF Content
  <2>2. /\ cache' = cache /\ req' = req
        /\ \/ SetTmp(t, c) /\ image' = image /\ pc'[t] = "nvccWrite"
           \/ tmp' = tmp /\ image'[t] = Kernelless
    BY <1>13 DEF NvccOpen, NvccFails, Goto, TypeOK
  <2> HIDE DEF c
  <2>3. TmpNamed'
    BY <1>2, <1>3, <1>5, <2>1, <2>2, OwnNames, TmpNamedKept
  <2>4. CASE image' = image /\ pc'[t] = "nvccWrite"
    <3>1. ImageNamed(t)'
      BY <2>2, <2>4 DEF NamedInv, ImageNamed, DirPath, CacheKey
    <3>2. ASSUME NEW u \in Thread, u # t PROVE ImageNamed(u)'
      BY <3>2, OwnVariables DEF NamedInv, ImageNamed
    <3>3. QED BY <1>4, <2>2, <2>3, <3>1, <3>2 DEF NamedInv
  <2>5. CASE image'[t] = Kernelless
    BY <1>4, <2>2, <2>3, <2>5, ImageKept DEF NamedInv
  <2>6. QED BY <2>2, <2>4, <2>5
<1>14. CASE NvccWrite(t)
  <2> DEFINE shared == \E u \in Thread \ {t} :
                         pc[u] = "nvccWrite" /\ out[u] = out[t] /\ SameTmp(t, u)
             result == IF shared THEN Partial ELSE image[t]
             c == [Opened(t) EXCEPT !.cubin = result]
  <2>1. c.cubin = result /\ c.cu = Opened(t).cu
    BY OpenedTyped DEF Content
  <2>2. result = Partial \/ result = image[t]
    OBVIOUS
  <2>3. SetOpened(t, c) /\ image'[t] = Kernelless
    BY <1>14 DEF NvccWrite, TypeOK
  <2> HIDE DEF shared, result, c
  <2>4. result \in Key => DirOf[result] = DirPath(t)
    BY <1>3, <2>2, OwnNames
  <2>5. TmpNamed' /\ CacheNamed'
    BY <2>1, <2>3, <2>4, OwnNames, OpenedNamed
  <2>6. QED BY <2>3, <2>5, ImageKept DEF NamedInv
<1>15. CASE Publish(t)
  <2>1. /\ image' = image /\ pc[t] = "publish"
        /\ \/ cache' = [cache EXCEPT ![DirPath(t)] = TmpDir(t)] /\ SetTmp(t, Absent)
           \/ cache' = cache /\ tmp' = tmp
    BY <1>15 DEF Publish
  <2>2. cache' = [cache EXCEPT ![DirPath(t)] = TmpDir(t)] => CacheNamed'
    BY <1>2, OwnNames, CacheNamedKept
  <2>3. QED BY <1>4, <1>5, <1>6, <2>1, <2>2, ImageKept DEF NamedInv
<1>16. QED
  BY <1>7, <1>8, <1>9, <1>10, <1>11, <1>12, <1>13, <1>14, <1>15, <1>17 DEF CompileStep

LEMMA NamedInvStep == TypeOK /\ NamedInv /\ [Next]_vars => NamedInv'
<1> SUFFICES ASSUME TypeOK, NamedInv, [Next]_vars PROVE NamedInv'
  OBVIOUS
<1>1. ASSUME NEW t \in Thread, ThreadStep(t) PROVE NamedInv'
  BY <1>1, NamedStep
<1>2. ASSUME NEW lib \in inflight, Complete(lib) PROVE NamedInv'
  BY <1>2 DEF Complete, local, disk, NamedInv, TmpNamed, CacheNamed, ImageNamed, DirPath, CacheKey
<1>3. ASSUME NEW p \in Proc, Crash(p) PROVE NamedInv'
  <2>1. cache' = cache /\ req' = req
    BY <1>3 DEF Crash
  <2>2. CacheNamed'
    BY <2>1 DEF NamedInv, CacheNamed
  <2>3. \A t \in Thread : ImageNamed(t)'
    <3>1. ASSUME NEW t \in Thread, ProcOf[t] = p PROVE ImageNamed(t)'
      BY <1>3, <3>1, ContentsTyped DEF Crash, ImageNamed
    <3>2. ASSUME NEW t \in Thread, ProcOf[t] # p PROVE ImageNamed(t)'
      <4>1. pc'[t] = pc[t] /\ image'[t] = image[t]
        BY <1>3, <3>2 DEF Crash
      <4>2. QED BY <2>1, <4>1 DEF NamedInv, ImageNamed, DirPath, CacheKey
    <3>3. QED BY <3>1, <3>2
  <2>4. TmpNamed'
    <3>1. Absent.cu \notin Kernel /\ Absent.cubin \notin Key
      BY CacheAssumption, ContentsTyped DEF Absent
    <3>2. tmp' = tmp \/ tmp' = [tmp EXCEPT ![p] = [d \in Dir |-> Absent]]
      BY <1>3 DEF Crash
    <3>3. ASSUME NEW r \in Proc, NEW d \in Dir
          PROVE  tmp'[r][d] = tmp[r][d] \/ tmp'[r][d] = Absent
      <4>1. CASE r = p /\ tmp' = [tmp EXCEPT ![p] = [e \in Dir |-> Absent]]
        <5>1. tmp'[p] = [e \in Dir |-> Absent]
          BY <4>1 DEF TypeOK
        <5>2. QED BY <4>1, <5>1
      <4>2. CASE r # p \/ tmp' = tmp
        BY <3>2, <4>2 DEF TypeOK
      <4>3. QED BY <3>2, <4>1, <4>2
    <3>4. QED BY <3>1, <3>3 DEF NamedInv, TmpNamed
  <2>5. QED BY <2>2, <2>3, <2>4 DEF NamedInv
<1>4. CASE UNCHANGED vars
  BY <1>4 DEF vars, NamedInv, TmpNamed, CacheNamed, ImageNamed, DirPath, CacheKey
<1>5. QED BY <1>1, <1>2, <1>3, <1>4, StepsOfNext

LEMMA NamedInvInit == Init => NamedInv
<1> SUFFICES ASSUME Init PROVE NamedInv
  OBVIOUS
<1>1. Absent.cu \notin Kernel /\ Absent.cubin \notin Key
  BY CacheAssumption, ContentsTyped DEF Absent
<1>2. TmpNamed
  BY <1>1 DEF Init, TmpNamed
<1>3. \A t \in Thread : ImageNamed(t)
  BY ContentsTyped DEF Init, ImageNamed
<1>4. ASSUME NEW d \in Dir PROVE cache[d].cubin \in Key => DirOf[cache[d].cubin] = d
  <2>1. CASE cache[d] = Absent
    BY <1>1, <2>1
  <2>2. ASSUME NEW k \in Key, DirOf[k] = d,
               cache[d] = [exists |-> TRUE, cu |-> k[1], cubin |-> k]
        PROVE  DirOf[cache[d].cubin] = d
    BY <2>2
  <2>3. QED BY <2>1, <2>2, WarmCache
<1>5. QED BY <1>2, <1>3, <1>4 DEF NamedInv, CacheNamed

-----------------------------------------------------------------------------
(***************************************************************************)
(* Kernels.  From the names of the directories, when the hash tells the     *)
(* cache keys apart.                                                        *)
(***************************************************************************)

\* What a thread holds, and what g_kernel_cache holds, was compiled from the
\* key it is used for.
LEMMA RightStep ==
    ASSUME TypeOK, LibInv, NoCollision, CacheNamed, RightInv,
           NEW t \in Thread, ThreadStep(t)
    PROVE  RightInv'
<1> USE DEF local, disk, gpu
<1>1. CacheKey(t) \in Key /\ DirPath(t) \in Dir /\ ProcOf[t] \in Proc
  BY KeyTyped
<1>2. \A u \in Thread : req'[u] = req[u] => CacheKey(u)' = CacheKey(u)
  BY DEF CacheKey
<1>3. CASE /\ UNCHANGED <<held, kernels>>
           /\ \A u \in Thread : held[u] # NoLib => req'[u] = req[u]
  BY <1>2, <1>3 DEF RightInv, KernelsRight, RightKernel
<1>4. CASE \E q \in Kernel : Call(t, q)
  <2>1. held[t] = NoLib
    BY <1>4 DEF Call, LibInv
  <2>2. \A u \in Thread : u # t => req'[u] = req[u]
    BY <1>4 DEF Call, TypeOK
  <2>3. QED BY <1>3, <1>4, <2>1, <2>2 DEF Call
<1>5. CASE LookupHit(t)
  <2>1. /\ held' = [held EXCEPT ![t] = kernels[ProcOf[t]][req[t]]]
        /\ kernels[ProcOf[t]][req[t]] # NoLib
        /\ UNCHANGED <<req, kernels>>
    BY <1>5 DEF LookupHit
  <2>2. kernels[ProcOf[t]][req[t]].image = CacheKey(t)
    BY <1>1, <2>1 DEF RightInv, KernelsRight, CacheKey, TypeOK
  <2>3. QED BY <1>2, <2>1, <2>2 DEF RightInv, KernelsRight, RightKernel, TypeOK
<1>6. CASE Load(t)
  <2>1. CASE CacheDir(t).cubin \in Key
    <3>1. CacheDir(t).cubin = CacheKey(t)
      BY <1>1, <2>1 DEF CacheNamed, NoCollision, CacheDir, DirPath
    <3>2. /\ held' = [held EXCEPT ![t] =
                [by |-> t, kernel |-> req[t], image |-> CacheDir(t).cubin]]
          /\ UNCHANGED <<req, kernels>>
      BY <1>6, <2>1 DEF Load, Loadable
    <3>3. QED BY <1>2, <3>1, <3>2 DEF RightInv, KernelsRight, RightKernel, TypeOK
  <2>2. CASE CacheDir(t).cubin \notin Key
    BY <1>3, <1>6, <2>2 DEF Load, Loadable
  <2>3. QED BY <2>1, <2>2
<1>7. CASE Store(t)
  <2>1. /\ kernels' = [kernels EXCEPT ![ProcOf[t]][req[t]] = held[t]]
        /\ UNCHANGED <<req, held>>
    BY <1>7 DEF Store
  <2>2. held[t] # NoLib /\ held[t].image = <<req[t], ConfigOf[ProcOf[t]]>>
    BY <1>7 DEF Store, LibInv, RightInv, RightKernel, CacheKey
  <2>3. QED BY <1>2, <2>1, <2>2 DEF RightInv, KernelsRight, RightKernel, TypeOK
<1>8. CASE Release(t)
  BY <1>2, <1>8 DEF Release, RightInv, KernelsRight, RightKernel, TypeOK
<1>9. CASE LookupMiss(t) \/ Probe(t) \/ CompileStep(t) \/ Launch(t) \/ Refused(t)
  <2>1. UNCHANGED <<req, held, kernels>>
    BY <1>9, CompileMoves, RefusedMoves DEF LookupMiss, Probe, Launch
  <2>2. QED BY <1>3, <2>1
<1>10. QED
  BY <1>4, <1>5, <1>6, <1>7, <1>8, <1>9 DEF ThreadStep

LEMMA RightInvStep ==
    ASSUME NoCollision, TypeOK, LibInv, NamedInv, RightInv, [Next]_vars
    PROVE  RightInv'
<1>1. ASSUME NEW t \in Thread, ThreadStep(t) PROVE RightInv'
  BY <1>1, RightStep DEF NamedInv
<1>2. ASSUME NEW lib \in inflight, Complete(lib) PROVE RightInv'
  BY <1>2 DEF Complete, local, RightInv, KernelsRight, RightKernel, CacheKey
<1>3. ASSUME NEW p \in Proc, Crash(p) PROVE RightInv'
  <2>1. req' = req
    BY <1>3 DEF Crash
  <2>2. \A t \in Thread : held'[t] = NoLib \/ held'[t] = held[t]
    BY <1>3 DEF Crash
  <2>3. RightKernel'
    BY <2>1, <2>2 DEF RightInv, RightKernel, CacheKey
  <2>4. kernels' = [kernels EXCEPT ![p] = [q \in Kernel |-> NoLib]]
    BY <1>3 DEF Crash
  <2>5. KernelsRight'
    BY <2>4 DEF RightInv, KernelsRight, TypeOK
  <2>6. QED BY <2>3, <2>5 DEF RightInv
<1>4. CASE UNCHANGED vars
  BY <1>4 DEF vars, RightInv, KernelsRight, RightKernel, CacheKey
<1>5. QED BY <1>1, <1>2, <1>3, <1>4, StepsOfNext

LEMMA RightInvInit == Init => RightInv
  BY DEF Init, RightInv, KernelsRight, RightKernel

LEMMA RightInvariant ==
    ASSUME NoCollision PROVE Spec => [](TypeOK /\ NamedInv /\ RightInv)
<1>1. Init => TypeOK /\ LibInv /\ NamedInv /\ RightInv
  BY TypeCorrectInit, LibInvInit, NamedInvInit, RightInvInit
<1>2. TypeOK /\ LibInv /\ NamedInv /\ RightInv /\ [Next]_vars
        => (TypeOK /\ LibInv /\ NamedInv /\ RightInv)'
  BY TypeCorrectStep, LibInvStep, NamedInvStep, RightInvStep
<1>3. QED BY <1>1, <1>2, PTL DEF Spec

\* The kernel a launch uses was compiled from the code the launch generated and
\* with the flags of its process: whatever threads race to build, whatever is
\* truncated, renamed or left behind by a crash, an image under another key is
\* never loaded for it, as long as the hash tells the keys apart.
THEOREM KernelIsRight == ASSUME NoCollision PROVE Spec => []RightKernel
<1>1. RightInv => RightKernel
  BY DEF RightInv
<1>2. QED BY <1>1, RightInvariant, PTL

-----------------------------------------------------------------------------
(***************************************************************************)
(* Files.  What holds of the directories however many threads race for      *)
(* them, and that it keeps what is published as it is, but for a remove_all *)
(* that another thread of the process has renamed the directory away from.  *)
(***************************************************************************)

Erases(t) ==
    /\ pc[t] \in Removing /\ out[t] = "cache"
    /\ \E u \in Thread \ {t} : ProcOf[u] = ProcOf[t]

Kept(t) == \A d \in Dir : cache[d].cubin \in Key =>
    \/ cache'[d].cubin = cache[d].cubin
    \/ cache'[d].cubin = NoFile /\ Erases(t) /\ DirPath(t) = d

LEMMA TmpTidyKept ==
    ASSUME TypeOK, TmpTidy, NEW t \in Thread, NEW c, SetTmp(t, c), c.exists \/ c = Absent
    PROVE  TmpTidy'
<1> SUFFICES ASSUME NEW p \in Proc, NEW d \in Dir
             PROVE  tmp'[p][d].exists \/ tmp'[p][d] = Absent
  BY DEF TmpTidy
<1>1. tmp'[p][d] = IF p = ProcOf[t] /\ d = DirPath(t) THEN c ELSE tmp[p][d]
  BY DEF SetTmp, TypeOK
<1>2. QED BY <1>1 DEF TmpTidy

\* A file of u that is open in a tmp directory that t does not use stays where
\* it is; one that is open in the tmp directory t uses is in t's.
LEMMA TmpOfOthers ==
    ASSUME TypeOK, NEW t \in Thread, NEW u \in Thread
    PROVE  /\ SameTmp(t, u) => TmpDir(u) = TmpDir(t) /\ DirPath(u) = DirPath(t)
           /\ \A c : SetTmp(t, c) =>
                tmp'[ProcOf[u]][DirPath(u)] = IF SameTmp(t, u) THEN c ELSE TmpDir(u)
<1>1. SameTmp(t, u) => TmpDir(u) = TmpDir(t) /\ DirPath(u) = DirPath(t)
  BY DEF SameTmp, TmpDir
<1>2. ASSUME NEW c, SetTmp(t, c)
      PROVE  tmp'[ProcOf[u]][DirPath(u)] = IF SameTmp(t, u) THEN c ELSE TmpDir(u)
  BY <1>2, KeyTyped DEF SetTmp, SameTmp, TmpDir, TypeOK
<1>3. QED BY <1>1, <1>2

\* What t has open is its own; afterwards it has nothing open, or what it just
\* created.
LEMMA OpenFileSelf ==
    ASSUME TypeOK, FilesInv, NEW t \in Thread, ThreadStep(t)
    PROVE  OpenFile(t)'
<1> USE DEF local, disk, gpu
<1>1. /\ TmpDir(t) \in Content /\ ProcOf[t] \in Proc /\ DirPath(t) \in Dir
  BY KeyTyped
<1>2. \A label : Goto(t, label) => pc'[t] = label
  BY DEF Goto, TypeOK
<1>3. OpenFile(t)
  BY DEF FilesInv
<1>4. pc[t] \notin {"writeSource", "nvccWrite"} \cup Removing => out[t] = "none"
  BY <1>3 DEF OpenFile
<1>5. Throw(t) => pc'[t] = "idle"
  BY <1>2 DEF Throw
<1>6. Close(t) => out'[t] = "none"
  BY DEF Close, TypeOK
<1>7. ASSUME out'[t] = "none" PROVE OpenFile(t)'
  BY <1>7 DEF OpenFile
<1>8. CASE ~CompileStep(t)
  <2>1. CASE Refused(t)
    BY <1>7, <2>1, RefusedMoves
  <2>2. CASE ~Refused(t)
    <3>1. out' = out /\ pc[t] \notin {"writeSource", "nvccWrite"} \cup Removing
      BY <1>8, <2>2, DiskSteps DEF Removing
    <3>2. QED BY <1>4, <1>7, <3>1
  <2>3. QED BY <2>1, <2>2
<1>9. CASE CreateTmp(t) \/ NvccRead(t) \/ Recover(t)
  <2>1. out' = out /\ pc[t] \notin {"writeSource", "nvccWrite"} \cup Removing
    BY <1>9 DEF CreateTmp, NvccRead, Recover, Removing
  <2>2. QED BY <1>4, <1>7, <2>1
<1>10. CASE WriteSource(t) \/ LoseSource(t) \/ NvccWrite(t)
  BY <1>6, <1>7, <1>10 DEF WriteSource, LoseSource, NvccWrite
<1>11. CASE Publish(t)
  <2>1. out[t] = "none" /\ (out' = Renamed(t) \/ out' = out)
    BY <1>4, <1>11 DEF Publish, Removing
  <2>2. out'[t] = "none"
    BY <2>1 DEF Renamed
  <2>3. QED BY <1>7, <2>2
<1>12. CASE OpenSource(t)
  <2>1. CASE TmpDir(t).exists
    <3>1. /\ out'[t] = "tmp" /\ pc'[t] = "writeSource" /\ req' = req
          /\ SetTmp(t, [TmpDir(t) EXCEPT !.cu = Partial])
      BY <1>2, <1>12, <2>1 DEF OpenSource, TypeOK
    <3>2. TmpDir(t)' = [TmpDir(t) EXCEPT !.cu = Partial]
      BY <1>1, <3>1 DEF TmpDir, DirPath, CacheKey, SetTmp, TypeOK
    <3>3. TmpDir(t)'.cu # NoFile
      BY <1>1, <3>2, CacheAssumption DEF Content
    <3>4. QED BY <3>1, <3>3 DEF OpenFile
  <2>2. CASE ~TmpDir(t).exists
    <3>1. out' = out /\ pc[t] = "openSource"
      BY <1>12, <2>2 DEF OpenSource
    <3>2. QED BY <1>4, <1>7, <3>1 DEF Removing
  <2>3. QED BY <2>1, <2>2
<1>13. CASE NvccOpen(t)
  <2>1. CASE TmpDir(t).exists
    <3>1. /\ out'[t] = "tmp" /\ pc'[t] = "nvccWrite" /\ req' = req
          /\ SetTmp(t, [TmpDir(t) EXCEPT !.cubin = Partial])
      BY <1>2, <1>13, <2>1 DEF NvccOpen, TypeOK
    <3>2. TmpDir(t)' = [TmpDir(t) EXCEPT !.cubin = Partial]
      BY <1>1, <3>1 DEF TmpDir, DirPath, CacheKey, SetTmp, TypeOK
    <3>3. TmpDir(t)'.cubin = Partial
      BY <1>1, <3>2 DEF Content
    <3>4. QED BY <3>1, <3>3 DEF OpenFile
  <2>2. CASE ~TmpDir(t).exists
    <3>1. out' = out /\ pc[t] = "nvccOpen"
      BY <1>13, <2>2 DEF NvccOpen
    <3>2. QED BY <1>4, <1>7, <3>1 DEF Removing
  <2>3. QED BY <2>1, <2>2
\* The steps of a remove_all: the directory stays open until the last.
<1>14. ASSUME pc[t] \in Removing, pc'[t] \in Removing, out'[t] \in {"tmp", out[t]}
       PROVE  OpenFile(t)'
  BY <1>3, <1>14 DEF OpenFile, Removing
<1>15. CASE ListTmp(t)
  <2>1. CASE TmpDir(t).exists
    <3>1. pc[t] \in Removing /\ pc' = pc /\ out'[t] = "tmp"
      BY <1>15, <2>1 DEF ListTmp, TypeOK
    <3>2. QED BY <1>14, <3>1
  <2>2. CASE ~TmpDir(t).exists
    <3>1. out'[t] = "none"
      BY <1>15, <2>2 DEF ListTmp
    <3>2. QED BY <1>7, <3>1
  <2>3. QED BY <2>1, <2>2
<1>16. ASSUME NEW file \in {"cu", "cubin"}, Unlink(t, file) PROVE OpenFile(t)'
  <2>1. pc[t] \in Removing /\ pc' = pc /\ out' = Unlinked(t, file)
    BY <1>16 DEF Unlink
  <2>2. out'[t] = out[t]
    BY <2>1 DEF Unlinked, Removing
  <2>3. QED BY <1>14, <2>1, <2>2
<1>17. ASSUME NEW file \in {"cu", "cubin"}, UnlinkMissing(t, file) PROVE OpenFile(t)'
  <2>1. pc[t] \in Removing /\ (Close(t) \/ UNCHANGED <<pc, out>>)
    BY <1>17 DEF UnlinkMissing
  <2>2. QED BY <1>6, <1>7, <1>14, <2>1
<1>18. CASE RemoveTmp(t)
  <2>1. Close(t) \/ out' = Emptied(t)
    BY <1>18 DEF RemoveTmp
  <2>2. out'[t] = "none"
    BY <1>6, <2>1 DEF Emptied
  <2>3. QED BY <1>7, <2>2
<1>19. QED
  BY <1>8, <1>9, <1>10, <1>11, <1>12, <1>13, <1>15, <1>16, <1>17, <1>18 DEF CompileStep

\* What a step of t must leave another thread u that has a file open.
StillOpen(u) ==
    \/ out'[u] = "none"
    \/ out'[u] = "gone" /\ out[u] # "none"
    \/ /\ out'[u] = out[u]
       /\ pc[u] = "writeSource" => /\ out[u] = "tmp" => TmpDir(u)'.cu # NoFile
                                   /\ out[u] = "cache" => CacheDir(u)'.cu # NoFile
       /\ pc[u] = "nvccWrite" => /\ out[u] = "tmp" => TmpDir(u)'.cubin = Partial
                                 /\ out[u] = "cache" => CacheDir(u)'.cubin = Partial

\* Only a call changes the directory that t works with.
LEMMA OwnDirPath ==
    ASSUME TypeOK, NEW t \in Thread, ThreadStep(t), pc[t] # "idle"
    PROVE  DirPath(t)' = DirPath(t) /\ CacheKey(t)' = CacheKey(t)
<1>1. req' = req
  BY CompileMoves, RefusedMoves DEF ThreadStep, Call, LookupHit, LookupMiss, Probe, Load, Store,
     Launch, Release, local
<1>2. QED BY <1>1 DEF DirPath, CacheKey

\* A step that moves no open file into the cache.
LEMMA FilesKept ==
    ASSUME TypeOK, FilesInv, NEW t \in Thread, ThreadStep(t), TmpTidy',
           out'[t] = "cache" => out[t] = "cache",
           \A u \in Thread : u # t => StillOpen(u)
    PROVE  FilesInv'
<1>1. ASSUME NEW u \in Thread, u # t PROVE OpenFile(u)'
  <2>1. pc'[u] = pc[u]
    BY <1>1, OwnVariables
  <2>2. OpenFile(u) /\ StillOpen(u)
    BY <1>1 DEF FilesInv
  <2>3. out'[u] # "none" => pc'[u] \in {"writeSource", "nvccWrite"} \cup Removing
    BY <2>1, <2>2 DEF OpenFile, StillOpen
  <2>4. QED BY <2>1, <2>2, <2>3 DEF OpenFile, StillOpen
<1>2. ASSUME NEW u \in Thread, NEW v \in Thread PROVE OneWriter(u, v)'
  <2>1. ASSUME NEW w \in Thread
        PROVE  out'[w] = "cache" => out[w] = "cache" /\ DirPath(w)' = DirPath(w)
    <3>1. CASE w = t
      <4>1. out[t] = "cache" => pc[t] # "idle"
        BY DEF FilesInv, OpenFile, Removing
      <4>2. QED BY <3>1, <4>1, OwnDirPath
    <3>2. CASE w # t
      BY <3>2, OwnVariables DEF StillOpen
    <3>3. QED BY <3>1, <3>2
  <2>2. OneWriter(u, v)
    BY DEF FilesInv
  <2>3. QED BY <2>1, <2>2 DEF OneWriter
<1>3. QED BY <1>1, <1>2, OpenFileSelf DEF FilesInv

\* What u finds in its directories when t changed one of its own.
LEMMA OthersFind ==
    ASSUME TypeOK, FilesInv, NEW t \in Thread, ThreadStep(t), NEW u \in Thread, u # t
    PROVE  /\ cache' = cache => CacheDir(u)' = CacheDir(u)
           /\ tmp' = tmp => TmpDir(u)' = TmpDir(u)
           /\ \A c : SetTmp(t, c) => TmpDir(u)' = IF SameTmp(t, u) THEN c ELSE TmpDir(u)
           /\ \A c : cache' = [cache EXCEPT ![DirPath(t)] = c] =>
                CacheDir(u)' = IF DirPath(u) = DirPath(t) THEN c ELSE CacheDir(u)
           /\ OpenFile(u)
           /\ out[u] = "tmp" /\ SameTmp(t, u) /\ pc[u] = "writeSource" => TmpDir(t).cu # NoFile
           /\ out[u] = "tmp" /\ SameTmp(t, u) /\ pc[u] = "nvccWrite" => TmpDir(t).cubin = Partial
<1>1. DirPath(u)' = DirPath(u) /\ DirPath(u) \in Dir
  BY OwnVariables, KeyTyped
<1>2. OpenFile(u)
  BY DEF FilesInv
<1>3. SameTmp(t, u) => TmpDir(u) = TmpDir(t)
  BY TmpOfOthers
<1>4. \A c : SetTmp(t, c) => TmpDir(u)' = IF SameTmp(t, u) THEN c ELSE TmpDir(u)
  BY <1>1, TmpOfOthers DEF TmpDir
<1>5. \A c : cache' = [cache EXCEPT ![DirPath(t)] = c] =>
        CacheDir(u)' = IF DirPath(u) = DirPath(t) THEN c ELSE CacheDir(u)
  BY <1>1 DEF CacheDir, TypeOK
<1>6. /\ cache' = cache => CacheDir(u)' = CacheDir(u)
      /\ tmp' = tmp => TmpDir(u)' = TmpDir(u)
  BY <1>1 DEF TmpDir, CacheDir
<1>7. QED BY <1>2, <1>3, <1>4, <1>5, <1>6 DEF OpenFile

\* The files stay as they are.
LEMMA NoFileStep ==
    ASSUME TypeOK, FilesInv, NEW t \in Thread, ThreadStep(t),
           tmp' = tmp, cache' = cache, out'[t] = "cache" => out[t] = "cache",
           \A u \in Thread : u # t => out'[u] = out[u]
    PROVE  FilesInv' /\ Kept(t)
<1>1. TmpTidy' /\ Kept(t)
  BY DEF FilesInv, TmpTidy, Kept
<1>2. \A u \in Thread : u # t => StillOpen(u)
  BY OthersFind DEF StillOpen, OpenFile
<1>3. QED BY <1>1, <1>2, FilesKept

\* remove_all removes the tmp directory, which is empty.
LEMMA RemoveStep ==
    ASSUME TypeOK, FilesInv, NEW t \in Thread, ThreadStep(t),
           SetTmp(t, Absent), out' = Emptied(t), cache' = cache
    PROVE  FilesInv' /\ Kept(t)
<1>1. TmpTidy' /\ Kept(t)
  BY TmpTidyKept DEF FilesInv, Kept
<1>2. out'[t] # "cache"
  BY DEF Emptied
<1>3. ASSUME NEW u \in Thread, u # t PROVE StillOpen(u)
  <2>1. CASE out[u] = "tmp" /\ SameTmp(t, u)
    BY <1>3, <2>1 DEF Emptied, StillOpen
  <2>2. CASE ~(out[u] = "tmp" /\ SameTmp(t, u))
    <3>1. out'[u] = out[u]
      BY <1>3, <2>2 DEF Emptied
    <3>2. CacheDir(u)' = CacheDir(u) /\ (out[u] = "tmp" => TmpDir(u)' = TmpDir(u)) /\ OpenFile(u)
      BY <1>3, <2>2, OthersFind
    <3>3. QED BY <3>1, <3>2 DEF StillOpen, OpenFile
  <2>3. QED BY <2>1, <2>2
<1>4. QED BY <1>1, <1>2, <1>3, FilesKept

\* remove_all unlinks a file: of the tmp directory ...
LEMMA UnlinkTmpStep ==
    ASSUME TypeOK, FilesInv, NEW t \in Thread, ThreadStep(t), NEW file \in {"cu", "cubin"},
           Unlink(t, file), out[t] = "tmp"
    PROVE  FilesInv' /\ Kept(t)
<1> DEFINE c == Without(TmpDir(t), file)
<1>1. /\ pc[t] \in Removing /\ file \in Files(TmpDir(t))
      /\ SetTmp(t, c) /\ cache' = cache /\ out' = Unlinked(t, file)
  BY DEF Unlink, SetOpened, Opened
<1>2. TmpDir(t) \in Content /\ (TmpDir(t).exists \/ TmpDir(t) = Absent)
  BY KeyTyped DEF FilesInv, TmpTidy, TmpDir
<1>3. c.exists /\ (file = "cu" => c.cubin = TmpDir(t).cubin) /\ (file = "cubin" => c.cu = TmpDir(t).cu)
  BY <1>1, <1>2 DEF Content, Without, Files, Absent
<1> HIDE DEF c
<1>4. TmpTidy' /\ Kept(t)
  BY <1>1, <1>3, TmpTidyKept DEF FilesInv, Kept
<1>5. out'[t] = out[t]
  BY <1>1 DEF Unlinked, Removing
<1>6. ASSUME NEW u \in Thread, u # t PROVE StillOpen(u)
  <2>1. /\ CacheDir(u)' = CacheDir(u) /\ OpenFile(u)
        /\ TmpDir(u)' = IF SameTmp(t, u) THEN c ELSE TmpDir(u)
    BY <1>1, <1>6, OthersFind
  <2>2. CASE /\ pc[u] = IF file = "cu" THEN "writeSource" ELSE "nvccWrite"
             /\ out[u] = out[t] /\ SameTmp(t, u)
    BY <1>1, <2>2 DEF Unlinked, StillOpen
  <2>3. CASE ~(/\ pc[u] = IF file = "cu" THEN "writeSource" ELSE "nvccWrite"
               /\ out[u] = out[t] /\ SameTmp(t, u))
    <3>1. out'[u] = out[u]
      BY <1>1, <2>3 DEF Unlinked
    <3>2. CASE out[u] = "tmp" /\ SameTmp(t, u)
      <4>1. pc[u] = "writeSource" => TmpDir(t).cu # NoFile /\ file = "cubin"
        BY <1>6, <2>3, <3>2, OthersFind
      <4>2. pc[u] = "nvccWrite" => TmpDir(t).cubin = Partial /\ file = "cu"
        BY <1>6, <2>3, <3>2, OthersFind
      <4>3. QED BY <1>3, <2>1, <3>1, <3>2, <4>1, <4>2 DEF StillOpen
    <3>3. CASE ~(out[u] = "tmp" /\ SameTmp(t, u))
      BY <2>1, <3>1, <3>3 DEF StillOpen, OpenFile
    <3>4. QED BY <3>2, <3>3
  <2>4. QED BY <2>2, <2>3
<1>7. QED BY <1>4, <1>5, <1>6, FilesKept

\* ... or of the cache directory that the tmp directory has become.
LEMMA UnlinkCacheStep ==
    ASSUME TypeOK, FilesInv, NEW t \in Thread, ThreadStep(t), NEW file \in {"cu", "cubin"},
           Unlink(t, file), out[t] = "cache"
    PROVE  FilesInv' /\ Kept(t)
<1> DEFINE c == Without(CacheDir(t), file)
<1>1. /\ pc[t] \in Removing /\ tmp' = tmp /\ out' = Unlinked(t, file)
      /\ cache' = [cache EXCEPT ![DirPath(t)] = c]
  BY DEF Unlink, SetOpened, Opened
<1>2. CacheDir(t) \in Content /\ DirPath(t) \in Dir
  BY KeyTyped
<1>3. /\ file = "cu" => c.cubin = CacheDir(t).cubin
      /\ file = "cubin" => c.cu = CacheDir(t).cu /\ c.cubin = NoFile
  BY <1>2 DEF Content, Without
<1> HIDE DEF c
<1>4. TmpTidy'
  BY <1>1 DEF FilesInv, TmpTidy
<1>5. Kept(t)
  <2>1. Erases(t)
    BY <1>1 DEF Erases, FilesInv, OpenFile
  <2>2. \A d \in Dir : cache'[d] = IF d = DirPath(t) THEN c ELSE cache[d]
    BY <1>1 DEF TypeOK
  <2>3. QED BY <1>3, <2>1, <2>2 DEF Kept, CacheDir
<1>6. out'[t] = out[t]
  BY <1>1 DEF Unlinked, Removing
<1>7. ASSUME NEW u \in Thread, u # t PROVE StillOpen(u)
  <2>1. /\ TmpDir(u)' = TmpDir(u) /\ OpenFile(u)
        /\ CacheDir(u)' = IF DirPath(u) = DirPath(t) THEN c ELSE CacheDir(u)
    BY <1>1, <1>7, OthersFind
  <2>2. CASE /\ pc[u] = IF file = "cu" THEN "writeSource" ELSE "nvccWrite"
             /\ out[u] = out[t] /\ SameTmp(t, u)
    BY <1>1, <2>2 DEF Unlinked, StillOpen
  <2>3. CASE ~(/\ pc[u] = IF file = "cu" THEN "writeSource" ELSE "nvccWrite"
               /\ out[u] = out[t] /\ SameTmp(t, u))
    <3>1. out'[u] = out[u]
      BY <1>1, <2>3 DEF Unlinked
    <3>2. CASE out[u] = "cache" /\ DirPath(u) = DirPath(t)
      <4>1. ProcOf[u] = ProcOf[t]
        BY <3>2 DEF FilesInv, OneWriter
      <4>2. SameTmp(t, u) /\ CacheDir(u) = CacheDir(t)
        BY <3>2, <4>1 DEF SameTmp, CacheDir
      <4>3. pc[u] = "writeSource" => CacheDir(t).cu # NoFile /\ file = "cubin"
        BY <2>1, <2>3, <3>2, <4>2 DEF OpenFile
      <4>4. pc[u] = "nvccWrite" => CacheDir(t).cubin = Partial /\ file = "cu"
        BY <2>1, <2>3, <3>2, <4>2 DEF OpenFile
      <4>5. QED BY <1>3, <2>1, <3>1, <3>2, <4>3, <4>4 DEF StillOpen
    <3>3. CASE ~(out[u] = "cache" /\ DirPath(u) = DirPath(t))
      BY <2>1, <3>1, <3>3 DEF StillOpen, OpenFile
    <3>4. QED BY <3>2, <3>3
  <2>4. QED BY <2>2, <2>3
<1>8. QED BY <1>4, <1>6, <1>7, <1>5, FilesKept

\* A directory or a file is created or written under the tmp path.
LEMMA TmpStep ==
    ASSUME TypeOK, FilesInv, NEW t \in Thread, ThreadStep(t),
           NEW c, SetTmp(t, c), cache' = cache, out'[t] # "cache",
           \A u \in Thread : u # t => out'[u] = out[u],
           c.exists \/ c = Absent,
           TmpDir(t).cu # NoFile => c.cu # NoFile,
           \A u \in Thread : u # t /\ out[u] = "tmp" /\ SameTmp(t, u) /\ pc[u] = "nvccWrite"
                                => c.cubin = Partial
    PROVE  FilesInv' /\ Kept(t)
<1>1. TmpTidy' /\ Kept(t)
  BY TmpTidyKept DEF FilesInv, Kept
<1>2. ASSUME NEW u \in Thread, u # t PROVE StillOpen(u)
  <2>1. /\ CacheDir(u)' = CacheDir(u) /\ OpenFile(u)
        /\ TmpDir(u)' = IF SameTmp(t, u) THEN c ELSE TmpDir(u)
    BY <1>2, OthersFind
  <2>2. CASE SameTmp(t, u)
    <3>1. out[u] = "tmp" /\ pc[u] = "writeSource" => c.cu # NoFile
      BY <1>2, <2>2, OthersFind
    <3>2. QED BY <1>2, <2>1, <2>2, <3>1 DEF StillOpen, OpenFile
  <2>3. CASE ~SameTmp(t, u)
    BY <1>2, <2>1, <2>3 DEF StillOpen, OpenFile
  <2>4. QED BY <2>2, <2>3
<1>3. QED BY <1>1, <1>2, FilesKept

\* A file that was open in a published directory is written there.
LEMMA CacheFileStep ==
    ASSUME TypeOK, FilesInv, NEW t \in Thread, ThreadStep(t),
           NEW c, cache' = [cache EXCEPT ![DirPath(t)] = c], tmp' = tmp, out'[t] = "none",
           \A u \in Thread : u # t => out'[u] = out[u],
           CacheDir(t).cubin \in Key => c.cubin = CacheDir(t).cubin,
           CacheDir(t).cu # NoFile => c.cu # NoFile,
           \A u \in Thread : u # t /\ out[u] = "cache" /\ DirPath(u) = DirPath(t)
                                /\ pc[u] = "nvccWrite" => c.cubin = Partial
    PROVE  FilesInv' /\ Kept(t)
<1>1. TmpTidy'
  BY DEF FilesInv, TmpTidy
<1>2. Kept(t)
  <2>1. \A d \in Dir : cache'[d] = IF d = DirPath(t) THEN c ELSE cache[d]
    BY DEF TypeOK
  <2>2. QED BY <2>1 DEF Kept, CacheDir
<1>3. ASSUME NEW u \in Thread, u # t PROVE StillOpen(u)
  <2>1. /\ TmpDir(u)' = TmpDir(u) /\ OpenFile(u)
        /\ CacheDir(u)' = IF DirPath(u) = DirPath(t) THEN c ELSE CacheDir(u)
    BY <1>3, OthersFind
  <2>2. CASE DirPath(u) = DirPath(t)
    <3>1. CacheDir(u) = CacheDir(t)
      BY <2>2 DEF CacheDir
    <3>2. QED BY <1>3, <2>1, <2>2, <3>1 DEF StillOpen, OpenFile
  <2>3. CASE DirPath(u) # DirPath(t)
    BY <1>3, <2>1, <2>3 DEF StillOpen, OpenFile
  <2>4. QED BY <2>2, <2>3
<1>4. QED BY <1>1, <1>2, <1>3, FilesKept

\* rename(2) onto a free or empty name takes what is open in the tmp directory
\* along; what was open in the directory it replaces is gone.
LEMMA RenameStep ==
    ASSUME TypeOK, FilesInv, NEW t \in Thread, ThreadStep(t), Publish(t), CanRename(t)
    PROVE  FilesInv' /\ Kept(t)
<1>1. /\ cache' = [cache EXCEPT ![DirPath(t)] = TmpDir(t)]
      /\ SetTmp(t, Absent) /\ out' = Renamed(t)
      /\ pc[t] = "publish" /\ CacheDir(t) \in {Absent, Created}
  BY DEF Publish, CanRename
<1>2. CacheDir(t).cubin = NoFile /\ DirPath(t) \in Dir
  BY <1>1, KeyTyped DEF Absent, Created
<1>3. TmpTidy'
  BY <1>1, TmpTidyKept DEF FilesInv
<1>4. Kept(t)
  <2>1. \A d \in Dir : cache'[d] = IF d = DirPath(t) THEN TmpDir(t) ELSE cache[d]
    BY <1>1 DEF TypeOK
  <2>2. QED BY <1>2, <2>1, ContentsTyped DEF Kept, CacheDir
<1>5. out'[t] = "none"
  <2>1. out[t] = "none"
    BY <1>1 DEF FilesInv, OpenFile, Removing
  <2>2. QED BY <1>1, <2>1 DEF Renamed
<1>6. ASSUME NEW u \in Thread, u # t
      PROVE  /\ OpenFile(u)'
             /\ DirPath(u)' = DirPath(u)
             /\ out'[u] = "cache" =>
                  SameTmp(t, u) \/ (out[u] = "cache" /\ DirPath(u) # DirPath(t))
  <2>1. /\ OpenFile(u) /\ pc'[u] = pc[u] /\ DirPath(u)' = DirPath(u)
        /\ TmpDir(u)' = IF SameTmp(t, u) THEN Absent ELSE TmpDir(u)
        /\ CacheDir(u)' = IF DirPath(u) = DirPath(t) THEN TmpDir(t) ELSE CacheDir(u)
    BY <1>1, <1>6, OthersFind, OwnVariables
  <2>2. CASE out[u] = "tmp" /\ SameTmp(t, u)
    <3>1. /\ out'[u] = "cache" /\ CacheDir(u)' = TmpDir(t) /\ TmpDir(u) = TmpDir(t)
          /\ ProcOf[t] = ProcOf[u]
      BY <1>1, <2>1, <2>2, TmpOfOthers DEF Renamed, SameTmp
    <3>2. QED BY <1>6, <2>1, <2>2, <3>1 DEF OpenFile
  <2>3. CASE ~(out[u] = "tmp" /\ SameTmp(t, u)) /\ out[u] = "cache" /\ DirPath(u) = DirPath(t)
    <3>1. out'[u] = "gone"
      BY <1>1, <2>3 DEF Renamed
    <3>2. QED BY <2>1, <2>3, <3>1 DEF OpenFile
  <2>4. CASE ~(out[u] = "tmp" /\ SameTmp(t, u)) /\ ~(out[u] = "cache" /\ DirPath(u) = DirPath(t))
    <3>1. out'[u] = out[u]
      BY <1>1, <2>4 DEF Renamed
    <3>2. out[u] = "tmp" => TmpDir(u)' = TmpDir(u)
      BY <2>1, <2>4
    <3>3. out[u] = "cache" => CacheDir(u)' = CacheDir(u)
      BY <2>1, <2>4
    <3>4. QED BY <2>1, <2>4, <3>1, <3>2, <3>3 DEF OpenFile
  <2>5. QED BY <2>2, <2>3, <2>4
<1>7. ASSUME NEW u \in Thread, NEW v \in Thread PROVE OneWriter(u, v)'
  <2>1. CASE u = t \/ v = t
    BY <1>5, <2>1 DEF OneWriter
  <2>2. CASE u # t /\ v # t
    <3>1. OneWriter(u, v)
      BY DEF FilesInv
    <3>2. \A w \in Thread : SameTmp(t, w) => DirPath(w) = DirPath(t) /\ ProcOf[w] = ProcOf[t]
      BY DEF SameTmp
    <3>3. QED BY <1>6, <2>2, <3>1, <3>2 DEF OneWriter
  <2>3. QED BY <2>1, <2>2
<1>8. QED BY <1>3, <1>4, <1>5, <1>6, <1>7, OpenFileSelf DEF FilesInv

LEMMA FilesStep ==
    ASSUME TypeOK, FilesInv, NEW t \in Thread, ThreadStep(t)
    PROVE  FilesInv' /\ Kept(t)
<1> USE DEF local, disk, gpu
<1>1. TmpDir(t) \in Content /\ CacheDir(t) \in Content /\ DirPath(t) \in Dir
      /\ req[t] \in Kernel
  BY KeyTyped DEF TypeOK
<1>2. TmpDir(t).exists \/ TmpDir(t) = Absent
  BY KeyTyped DEF FilesInv, TmpTidy, TmpDir
<1>3. NoFile # Partial /\ req[t] # NoFile /\ Partial \notin Key
  BY <1>1, CacheAssumption, ContentsTyped
<1>4. OpenFile(t) /\ Absent.cu = NoFile /\ Absent.cubin = NoFile
  BY DEF FilesInv, Absent
<1>14. Close(t) => out'[t] = "none" /\ \A u \in Thread : u # t => out'[u] = out[u]
  BY DEF Close, TypeOK
<1>5. CASE ~CompileStep(t)
  <2>1. tmp' = tmp /\ cache' = cache
    BY <1>5, DiskSteps
  <2>2. out'[t] \in {"none", out[t]} /\ \A u \in Thread : u # t => out'[u] = out[u]
    BY <1>5, DiskSteps, RefusedMoves
  <2>3. QED BY <2>1, <2>2, NoFileStep
<1>6. CASE ListTmp(t) \/ LoseSource(t) \/ NvccRead(t) \/ Recover(t)
           \/ \E file \in {"cu", "cubin"} : UnlinkMissing(t, file)
  <2>1. /\ tmp' = tmp /\ cache' = cache
        /\ out' = [out EXCEPT ![t] = "tmp"] \/ Close(t) \/ out' = out
    BY <1>6 DEF ListTmp, LoseSource, NvccRead, Recover, UnlinkMissing
  <2>2. out'[t] \in {"none", "tmp", out[t]} /\ \A u \in Thread : u # t => out'[u] = out[u]
    BY <1>14, <2>1 DEF TypeOK
  <2>3. QED BY <2>1, <2>2, NoFileStep
<1>15. CASE RemoveTmp(t)
  <2>1. cache' = cache /\ ((SetTmp(t, Absent) /\ out' = Emptied(t)) \/ (tmp' = tmp /\ Close(t)))
    BY <1>15 DEF RemoveTmp
  <2>2. CASE SetTmp(t, Absent) /\ out' = Emptied(t)
    BY <2>1, <2>2, RemoveStep
  <2>3. CASE tmp' = tmp /\ Close(t)
    BY <1>14, <2>1, <2>3, NoFileStep
  <2>4. QED BY <2>1, <2>2, <2>3
<1>16. ASSUME NEW file \in {"cu", "cubin"}, Unlink(t, file) PROVE FilesInv' /\ Kept(t)
  <2>1. out[t] \in {"tmp", "cache"}
    BY <1>16 DEF Unlink, Opened, Files, Created
  <2>2. QED BY <1>16, <2>1, UnlinkTmpStep, UnlinkCacheStep
<1>7. CASE CreateTmp(t)
  <2> DEFINE c == IF TmpDir(t).exists THEN TmpDir(t) ELSE Created
  <2>1. SetTmp(t, c) /\ cache' = cache /\ out' = out /\ out[t] = "none"
    BY <1>4, <1>7 DEF CreateTmp, OpenFile, Removing
  <2>2. c.exists /\ (TmpDir(t).cu # NoFile => c.cu # NoFile)
    BY <1>2, <1>4 DEF Created
  <2>3. TmpDir(t).cubin = Partial => c.cubin = Partial
    BY <1>2, <1>3, <1>4
  <2> HIDE DEF c
  <2>4. \A u \in Thread : u # t /\ out[u] = "tmp" /\ SameTmp(t, u) /\ pc[u] = "nvccWrite"
                              => c.cubin = Partial
    BY <2>3, OthersFind
  <2>5. QED BY <2>1, <2>2, <2>4, TmpStep
<1>8. CASE OpenSource(t)
  <2>1. CASE TmpDir(t).exists
    <3> DEFINE c == [TmpDir(t) EXCEPT !.cu = Partial]
    <3>1. /\ SetTmp(t, c) /\ cache' = cache /\ out' = [out EXCEPT ![t] = "tmp"]
      BY <1>8, <2>1 DEF OpenSource
    <3>2. c.exists /\ c.cu # NoFile /\ c.cubin = TmpDir(t).cubin
      BY <1>1, <1>3, <2>1 DEF Content
    <3> HIDE DEF c
    <3>3. out'[t] # "cache" /\ \A u \in Thread : u # t => out'[u] = out[u]
      BY <3>1 DEF TypeOK
    <3>4. \A u \in Thread : u # t /\ out[u] = "tmp" /\ SameTmp(t, u) /\ pc[u] = "nvccWrite"
                                => c.cubin = Partial
      BY <3>2, OthersFind
    <3>5. QED BY <3>1, <3>2, <3>3, <3>4, TmpStep
  <2>2. CASE ~TmpDir(t).exists
    <3>1. tmp' = tmp /\ cache' = cache /\ out' = out /\ out[t] = "none"
      BY <1>4, <1>8, <2>2 DEF OpenSource, OpenFile, Removing
    <3>2. QED BY <3>1, NoFileStep
  <2>3. QED BY <2>1, <2>2
<1>9. CASE NvccOpen(t)
  <2>1. CASE TmpDir(t).exists
    <3> DEFINE c == [TmpDir(t) EXCEPT !.cubin = Partial]
    <3>1. /\ SetTmp(t, c) /\ cache' = cache /\ out' = [out EXCEPT ![t] = "tmp"]
      BY <1>9, <2>1 DEF NvccOpen
    <3>2. c.exists /\ c.cu = TmpDir(t).cu /\ c.cubin = Partial
      BY <1>1, <2>1 DEF Content
    <3> HIDE DEF c
    <3>3. out'[t] # "cache" /\ \A u \in Thread : u # t => out'[u] = out[u]
      BY <3>1 DEF TypeOK
    <3>4. QED BY <3>1, <3>2, <3>3, TmpStep
  <2>2. CASE ~TmpDir(t).exists
    <3>1. tmp' = tmp /\ cache' = cache /\ out' = out /\ out[t] = "none"
      BY <1>4, <1>9, <2>2 DEF NvccOpen, OpenFile, Removing
    <3>2. QED BY <3>1, NoFileStep
  <2>3. QED BY <2>1, <2>2
<1>10. CASE WriteSource(t)
  <2>1. out'[t] = "none" /\ \A u \in Thread : u # t => out'[u] = out[u]
    BY <1>10, <1>14 DEF WriteSource
  <2>2. CASE out[t] = "tmp"
    <3> DEFINE c == [TmpDir(t) EXCEPT !.cu = req[t]]
    <3>1. SetTmp(t, c) /\ cache' = cache
      BY <1>10, <2>2 DEF WriteSource, SetOpened, Opened
    <3>2. TmpDir(t).exists
      BY <1>2, <1>4, <1>10, <2>2 DEF WriteSource, OpenFile
    <3>3. c.exists /\ c.cu # NoFile /\ c.cubin = TmpDir(t).cubin
      BY <1>1, <1>3, <3>2 DEF Content
    <3> HIDE DEF c
    <3>4. \A u \in Thread : u # t /\ out[u] = "tmp" /\ SameTmp(t, u) /\ pc[u] = "nvccWrite"
                                => c.cubin = Partial
      BY <3>3, OthersFind
    <3>5. QED BY <2>1, <3>1, <3>3, <3>4, TmpStep
  <2>3. CASE out[t] = "cache"
    <3> DEFINE c == [CacheDir(t) EXCEPT !.cu = req[t]]
    <3>1. cache' = [cache EXCEPT ![DirPath(t)] = c] /\ tmp' = tmp
      BY <1>10, <2>3 DEF WriteSource, SetOpened, Opened, CacheDir
    <3>2. c.cu # NoFile /\ c.cubin = CacheDir(t).cubin
      BY <1>1, <1>3 DEF Content
    <3> HIDE DEF c
    <3>3. ASSUME NEW u \in Thread, u # t, out[u] = "cache", DirPath(u) = DirPath(t),
                 pc[u] = "nvccWrite"
          PROVE  c.cubin = Partial
      BY <3>2, <3>3 DEF FilesInv, OpenFile, CacheDir
    <3>4. QED BY <2>1, <3>1, <3>2, <3>3, CacheFileStep
  <2>4. CASE out[t] \notin {"tmp", "cache"}
    <3>1. tmp' = tmp /\ cache' = cache
      BY <1>10, <2>4 DEF WriteSource, SetOpened
    <3>2. QED BY <2>1, <3>1, NoFileStep
  <2>5. QED BY <2>2, <2>3, <2>4
<1>11. CASE NvccWrite(t)
  <2> DEFINE shared == \E u \in Thread \ {t} :
                         pc[u] = "nvccWrite" /\ out[u] = out[t] /\ SameTmp(t, u)
             result == IF shared THEN Partial ELSE image[t]
  <2>1. out'[t] = "none" /\ (\A u \in Thread : u # t => out'[u] = out[u]) /\ pc[t] = "nvccWrite"
    BY <1>11, <1>14 DEF NvccWrite
  <2>2. \A u \in Thread : u # t /\ pc[u] = "nvccWrite" /\ out[u] = out[t] /\ SameTmp(t, u)
                              => result = Partial
    OBVIOUS
  <2>3. /\ out[t] = "tmp" => SetTmp(t, [TmpDir(t) EXCEPT !.cubin = result])
        /\ out[t] # "tmp" => tmp' = tmp
        /\ out[t] = "cache" => cache' = [cache EXCEPT ![DirPath(t)] =
                                            [CacheDir(t) EXCEPT !.cubin = result]]
        /\ out[t] # "cache" => cache' = cache
    BY <1>11 DEF NvccWrite, SetOpened, Opened
  <2> HIDE DEF shared, result
  <2>4. CASE out[t] = "tmp"
    <3> DEFINE c == [TmpDir(t) EXCEPT !.cubin = result]
    <3>1. SetTmp(t, c) /\ cache' = cache
      BY <2>3, <2>4
    <3>2. TmpDir(t).exists
      BY <1>2, <1>3, <1>4, <2>1, <2>4 DEF OpenFile
    <3>3. c.exists /\ c.cu = TmpDir(t).cu /\ c.cubin = result
      BY <1>1, <3>2 DEF Content
    <3> HIDE DEF c
    <3>4. \A u \in Thread : u # t /\ out[u] = "tmp" /\ SameTmp(t, u) /\ pc[u] = "nvccWrite"
                                => c.cubin = Partial
      BY <2>2, <2>4, <3>3
    <3>5. QED BY <2>1, <3>1, <3>3, <3>4, TmpStep
  <2>5. CASE out[t] = "cache"
    <3> DEFINE c == [CacheDir(t) EXCEPT !.cubin = result]
    <3>1. cache' = [cache EXCEPT ![DirPath(t)] = c] /\ tmp' = tmp
      BY <2>3, <2>5
    <3>2. c.cu = CacheDir(t).cu /\ c.cubin = result
      BY <1>1 DEF Content
    <3> HIDE DEF c
    <3>3. CacheDir(t).cubin \notin Key
      BY <1>3, <1>4, <2>1, <2>5 DEF OpenFile
    <3>4. ASSUME NEW u \in Thread, u # t, out[u] = "cache", DirPath(u) = DirPath(t),
                 pc[u] = "nvccWrite"
          PROVE  c.cubin = Partial
      <4>1. ProcOf[u] = ProcOf[t]
        BY <2>5, <3>4 DEF FilesInv, OneWriter
      <4>2. SameTmp(t, u)
        BY <3>4, <4>1 DEF SameTmp
      <4>3. QED BY <2>2, <2>5, <3>2, <3>4, <4>2
    <3>5. QED BY <2>1, <3>1, <3>2, <3>3, <3>4, CacheFileStep
  <2>6. CASE out[t] \notin {"tmp", "cache"}
    BY <2>1, <2>3, <2>6, NoFileStep
  <2>7. QED BY <2>4, <2>5, <2>6
<1>12. CASE Publish(t)
  <2>1. CASE CanRename(t)
    BY <1>12, <2>1, RenameStep
  <2>2. CASE ~CanRename(t)
    <3>1. tmp' = tmp /\ cache' = cache /\ out' = out /\ out[t] = "none"
      BY <1>4, <1>12, <2>2 DEF Publish, OpenFile, Removing
    <3>2. QED BY <3>1, NoFileStep
  <2>3. QED BY <2>1, <2>2
<1>13. QED
  BY <1>5, <1>6, <1>7, <1>8, <1>9, <1>10, <1>11, <1>12, <1>15, <1>16 DEF CompileStep

LEMMA FilesInvStep ==
    ASSUME TypeOK, FilesInv, [Next]_vars
    PROVE  FilesInv' /\ (cache' = cache \/ \E t \in Thread : ThreadStep(t) /\ Kept(t))
<1>1. ASSUME NEW t \in Thread, ThreadStep(t) PROVE FilesInv' /\ (cache' = cache \/ \E u \in Thread : ThreadStep(u) /\ Kept(u))
  BY <1>1, FilesStep
<1>2. ASSUME NEW lib \in inflight, Complete(lib) PROVE FilesInv' /\ cache' = cache
  BY <1>2 DEF Complete, local, disk, FilesInv, TmpTidy, OpenFile, OneWriter, TmpDir,
     CacheDir, DirPath, CacheKey
<1>3. ASSUME NEW p \in Proc, Crash(p) PROVE FilesInv' /\ cache' = cache
  <2>1. cache' = cache /\ req' = req
    BY <1>3 DEF Crash
  <2>2. ASSUME NEW t \in Thread
        PROVE  /\ OpenFile(t)'
               /\ DirPath(t)' = DirPath(t)
               /\ out'[t] \in {"none", out[t]}
    <3>1. DirPath(t)' = DirPath(t) /\ CacheDir(t)' = CacheDir(t)
      BY <2>1 DEF CacheDir, DirPath, CacheKey
    <3>2. CASE ProcOf[t] = p
      BY <1>3, <3>1, <3>2 DEF Crash, OpenFile, Removing
    <3>3. CASE ProcOf[t] # p
      <4>1. pc'[t] = pc[t] /\ out'[t] = out[t]
        BY <1>3, <3>3 DEF Crash
      <4>2. tmp'[ProcOf[t]] = tmp[ProcOf[t]]
        BY <1>3, <3>3, KeyTyped DEF Crash, TypeOK
      <4>3. TmpDir(t)' = TmpDir(t) /\ OpenFile(t)
        BY <3>1, <4>2 DEF TmpDir, FilesInv
      <4>4. QED BY <3>1, <4>1, <4>3 DEF OpenFile
    <3>4. QED BY <3>2, <3>3
  <2>3. \A t, u \in Thread : OneWriter(t, u)'
    BY <2>2 DEF FilesInv, OneWriter
  <2>4. TmpTidy'
    <3>1. tmp' = tmp \/ tmp' = [tmp EXCEPT ![p] = [d \in Dir |-> Absent]]
      BY <1>3 DEF Crash
    <3>2. CASE tmp' = [tmp EXCEPT ![p] = [d \in Dir |-> Absent]]
      <4>1. \A r \in Proc : tmp'[r] = IF r = p THEN [d \in Dir |-> Absent] ELSE tmp[r]
        BY <3>2 DEF TypeOK
      <4>2. QED BY <4>1 DEF FilesInv, TmpTidy
    <3>3. QED BY <3>1, <3>2 DEF FilesInv, TmpTidy
  <2>5. QED BY <2>1, <2>2, <2>3, <2>4 DEF FilesInv
<1>4. ASSUME UNCHANGED vars PROVE FilesInv' /\ cache' = cache
  BY <1>4 DEF vars, FilesInv, TmpTidy, OpenFile, OneWriter, TmpDir, CacheDir, DirPath,
     CacheKey
<1>5. QED BY <1>1, <1>2, <1>3, <1>4, StepsOfNext

LEMMA FilesInvInit == Init => FilesInv
<1> SUFFICES ASSUME Init PROVE FilesInv
  OBVIOUS
<1>1. \A t \in Thread : pc[t] = "idle" /\ out[t] = "none"
  BY DEF Init
<1>2. TmpTidy
  BY DEF Init, TmpTidy
<1>3. QED BY <1>1, <1>2 DEF FilesInv, OpenFile, OneWriter

LEMMA FilesInvariant == Spec => [](TypeOK /\ FilesInv)
<1>1. TypeOK /\ FilesInv /\ [Next]_vars => FilesInv'
  BY FilesInvStep
<1>2. QED BY <1>1, FilesInvInit, TypeCorrect, PTL DEF Spec

\* A published cubin is never replaced, removed or written to: not by threads
\* that race for one tmp directory and have files open in what the others
\* publish, not by a crash, not even by another kernel with the same hash.  The
\* one exception is a remove_all that is under way in the tmp directory when
\* another thread of the same process renames it.
THEOREM PublishedIsNeverReplaced == Spec => PublishedStays
<1>1. \A t \in Thread : Erases(t) => ErasedBySharer(DirPath(t))
  BY DEF Erases, ErasedBySharer
<1>2. TypeOK /\ FilesInv /\ [Next]_vars =>
        [\A d \in Dir : cache[d].cubin \in Key =>
            \/ cache'[d].cubin = cache[d].cubin
            \/ cache'[d].cubin = NoFile /\ ErasedBySharer(d)]_vars
  BY <1>1, FilesInvStep DEF Kept
<1>3. QED BY <1>2, FilesInvariant, PTL DEF Spec, PublishedStays

-----------------------------------------------------------------------------
(***************************************************************************)
(* The refinement.  A call asks, a hit reuses, a load fetches, a store      *)
(* loads, an exception refuses, a crash restarts; what happens in between   *)
(* publishes the kernel, loses it to a sharer of the tmp directory, or is   *)
(* nothing that the abstract store can see.                                 *)
(***************************************************************************)

StoreInv == TypeOK /\ LibInv /\ NamedInv /\ FilesInv /\ RightInv

LEMMA StoreInvStep ==
    ASSUME NoCollision, StoreInv, [Next]_vars PROVE StoreInv'
  BY TypeCorrectStep, LibInvStep, NamedInvStep, FilesInvStep, RightInvStep DEF StoreInv

\* Only t's own request and its outcome change.
LEMMA RequestOthers ==
    ASSUME TypeOK, NEW t \in Thread, ThreadStep(t)
    PROVE  /\ Asked' = [Asked EXCEPT ![t] = IF pc'[t] \in Building THEN CacheKey(t)' ELSE NoFile]
           /\ Fetched' = [Fetched EXCEPT ![t] = (pc'[t] = "store")]
           /\ Granted' = [Granted EXCEPT ![t] =
                IF pc'[t] \in Building THEN "none"
                ELSE IF outcome'[t] = "fault" THEN "error" ELSE outcome'[t]]
<1>1. \A u \in Thread : u # t => /\ pc'[u] = pc[u] /\ outcome'[u] = outcome[u]
                                 /\ CacheKey(u)' = CacheKey(u)
  BY OwnVariables
<1>2. /\ Asked' = [Asked EXCEPT ![t] = IF pc'[t] \in Building THEN CacheKey(t)' ELSE NoFile]
      /\ Granted' = [Granted EXCEPT ![t] =
            IF pc'[t] \in Building THEN "none"
            ELSE IF outcome'[t] = "fault" THEN "error" ELSE outcome'[t]]
  BY <1>1 DEF Asked, Granted
<1>3. Fetched' = [Fetched EXCEPT ![t] = (pc'[t] = "store")]
  BY <1>1 DEF Fetched
<1>4. QED BY <1>2, <1>3

\* A step inside build_kernel, or outside of it.
LEMMA RequestKept ==
    ASSUME TypeOK, NEW t \in Thread, ThreadStep(t),
           pc[t] # "store" /\ pc'[t] # "store",
           \/ pc[t] \in Building /\ pc'[t] \in Building /\ req'[t] = req[t]
           \/ pc[t] \notin Building /\ pc'[t] \notin Building /\ outcome'[t] = outcome[t]
    PROVE  Asked' = Asked /\ Fetched' = Fetched /\ Granted' = Granted
<1>1. \A u \in Thread : u # t => /\ pc'[u] = pc[u] /\ outcome'[u] = outcome[u]
                                 /\ CacheKey(u)' = CacheKey(u)
  BY OwnVariables
<1>2. req'[t] = req[t] => CacheKey(t)' = CacheKey(t)
  BY DEF CacheKey
<1>3. Asked' = Asked /\ Granted' = Granted
  BY <1>1, <1>2 DEF Asked, Granted
<1>4. \A u \in Thread : (pc'[u] = "store") <=> (pc[u] = "store")
  BY <1>1
<1>5. Fetched' = Fetched
  BY <1>4 DEF Fetched
<1>6. QED BY <1>3, <1>5

LEMMA PublishedKept ==
    ASSUME TypeOK, \A d \in Dir : cache'[d].cubin = cache[d].cubin
    PROVE  Published' = Published
  BY CacheAssumption DEF Published

LEMMA ResidentKept == ASSUME kernels' = kernels PROVE Resident' = Resident
  BY DEF Resident

\* What happens in the cache directory of t publishes t's kernel or nothing, or
\* loses it when t erases it.
LEMMA PublishedStep ==
    ASSUME NoCollision, TypeOK, NEW t \in Thread, Kept(t),
           \A d \in Dir : d # DirPath(t) => cache'[d] = cache[d]
    PROVE  \/ Published' \in {Published, Published \cup {CacheKey(t)}}
           \/ Erases(t) /\ Published' = Published \ {CacheKey(t)}
<1>1. CacheKey(t) \in Key /\ DirPath(t) = DirOf[CacheKey(t)] /\ DirPath(t) \in Dir
  BY KeyTyped DEF DirPath
<1>2. ASSUME NEW k \in Key, k # CacheKey(t)
      PROVE  cache'[DirOf[k]].cubin = k <=> cache[DirOf[k]].cubin = k
  <2>1. DirOf[k] # DirPath(t) /\ DirOf[k] \in Dir
    BY <1>1, <1>2, CacheAssumption DEF NoCollision
  <2>2. QED BY <2>1
<1>3. cache[DirPath(t)].cubin = CacheKey(t) =>
        \/ cache'[DirPath(t)].cubin = CacheKey(t)
        \/ Erases(t) /\ cache'[DirPath(t)].cubin # CacheKey(t)
  BY <1>1, ContentsTyped DEF Kept
<1>4. QED BY <1>1, <1>2, <1>3 DEF Published

\* Compiling changes no other directory than that of the kernel, and it does
\* not change that one when it throws.
LEMMA OwnDirectory ==
    ASSUME TypeOK, NEW t \in Thread, CompileStep(t)
    PROVE  /\ \A d \in Dir : d # DirPath(t) => cache'[d] = cache[d]
           /\ cache' = cache \/ pc'[t] \in Compiling \cup {"load"}
<1> USE DEF local, disk, gpu
<1>1. \A label : Goto(t, label) => pc'[t] = label
  BY DEF Goto, TypeOK
<1>2. ASSUME NEW c, cache' = [cache EXCEPT ![DirPath(t)] = c]
      PROVE  \A d \in Dir : d # DirPath(t) => cache'[d] = cache[d]
  BY <1>2 DEF TypeOK
<1>3. ASSUME NEW c, SetOpened(t, c)
      PROVE  \A d \in Dir : d # DirPath(t) => cache'[d] = cache[d]
  BY <1>2, <1>3 DEF SetOpened
<1>4. CASE ListTmp(t) \/ RemoveTmp(t) \/ CreateTmp(t) \/ OpenSource(t) \/ LoseSource(t)
           \/ NvccRead(t) \/ NvccOpen(t) \/ Recover(t)
  BY <1>4 DEF ListTmp, RemoveTmp, CreateTmp, OpenSource, LoseSource, NvccRead, NvccOpen, Recover
<1>5. ASSUME NEW file \in {"cu", "cubin"}, Unlink(t, file) \/ UnlinkMissing(t, file)
      PROVE  /\ \A d \in Dir : d # DirPath(t) => cache'[d] = cache[d]
             /\ cache' = cache \/ pc'[t] \in Compiling \cup {"load"}
  <2>1. CASE Unlink(t, file)
    BY <1>3, <2>1 DEF Unlink, Compiling
  <2>2. CASE UnlinkMissing(t, file)
    BY <2>2 DEF UnlinkMissing
  <2>3. QED BY <1>5, <2>1, <2>2
<1>6. CASE WriteSource(t) \/ NvccWrite(t)
  BY <1>1, <1>3, <1>6 DEF WriteSource, NvccWrite, Compiling
<1>7. CASE Publish(t)
  <2>1. /\ cache' = cache \/ cache' = [cache EXCEPT ![DirPath(t)] = TmpDir(t)]
        /\ pc'[t] \in {"load", "leaveTmp"}
    BY <1>1, <1>7 DEF Publish
  <2>2. QED BY <1>2, <2>1 DEF Compiling, Removing
<1>8. QED BY <1>4, <1>5, <1>6, <1>7 DEF CompileStep

\* A step inside build_kernel: it publishes, loses or does nothing to be seen.
LEMMA BuildImplements ==
    ASSUME NoCollision, StoreInv, NEW t \in Thread, ThreadStep(t),
           pc[t] \in Building, pc'[t] \in Building, pc[t] # "store", pc'[t] # "store",
           req' = req, kernels' = kernels,
           \A d \in Dir : d # DirPath(t) => cache'[d] = cache[d]
    PROVE  KS!Publish(t) \/ KS!Lose(t) \/ UNCHANGED <<Published, Resident, Asked, Fetched, Granted>>
<1>1. TypeOK
  BY DEF StoreInv
<1>2. Asked' = Asked /\ Fetched' = Fetched /\ Granted' = Granted /\ Resident' = Resident
  BY <1>1, RequestKept, ResidentKept
<1>3. Kept(t)
  BY FilesStep DEF StoreInv
<1>4. Asked[t] = CacheKey(t) /\ CacheKey(t) # NoFile
  BY <1>1, KeyTyped, ContentsTyped DEF Asked
<1>5. CASE Published' = Published
  BY <1>2, <1>5
<1>6. CASE Published' = Published \cup {CacheKey(t)}
  BY <1>2, <1>4, <1>6 DEF KS!Publish
<1>7. CASE Erases(t) /\ Published' = Published \ {CacheKey(t)}
  BY <1>2, <1>4, <1>7 DEF KS!Lose, Erases
<1>8. QED BY <1>1, <1>3, <1>5, <1>6, <1>7, PublishedStep

LEMMA RefuseImplements ==
    ASSUME StoreInv, NEW t \in Thread, ThreadStep(t),
           pc[t] \in Building, pc'[t] \notin Building, outcome'[t] \in {"fault", "error"},
           kernels' = kernels, cache' = cache
    PROVE  KS!Refuse(t)
<1>1. TypeOK /\ CacheKey(t) # NoFile
  BY KeyTyped, ContentsTyped DEF StoreInv
<1>2. Published' = Published /\ Resident' = Resident
  BY <1>1, PublishedKept, ResidentKept
<1>3. Asked[t] # NoFile
  BY <1>1 DEF Asked
<1>4. /\ Asked' = [Asked EXCEPT ![t] = NoFile] /\ Granted' = [Granted EXCEPT ![t] = "error"]
      /\ Fetched' = [Fetched EXCEPT ![t] = (pc'[t] = "store")]
  BY <1>1, RequestOthers
<1>5. pc'[t] # "store"
  BY DEF Building
<1>6. Fetched' = [Fetched EXCEPT ![t] = FALSE]
  BY <1>4, <1>5
<1>7. QED BY <1>2, <1>3, <1>4, <1>6 DEF KS!Refuse, KS!Grant

LEMMA AskImplements ==
    ASSUME StoreInv, NEW t \in Thread, NEW q \in Kernel, Call(t, q)
    PROVE  \E i \in Key : KS!Ask(t, i)
<1> DEFINE i == <<q, ConfigOf[ProcOf[t]]>>
<1>1. TypeOK /\ ThreadStep(t) /\ i \in Key
  BY CacheAssumption DEF StoreInv, ThreadStep, Key
<1>2. /\ pc[t] = "idle" /\ pc'[t] = "lookup" /\ CacheKey(t)' = i
      /\ kernels' = kernels /\ cache' = cache
  BY <1>1 DEF Call, Goto, TypeOK, CacheKey, disk
<1> HIDE DEF i
<1>3. Published' = Published /\ Resident' = Resident
  BY <1>1, <1>2, PublishedKept, ResidentKept
<1>4. Asked[t] = NoFile
  BY <1>2 DEF Asked, Building, Compiling, Removing
<1>5. Asked' = [Asked EXCEPT ![t] = i] /\ Granted' = [Granted EXCEPT ![t] = "none"]
  BY <1>1, <1>2, RequestOthers DEF Building
<1>6. \A u \in Thread : (pc'[u] = "store") <=> (pc[u] = "store")
  BY <1>1, <1>2, OwnVariables
<1>7. Fetched' = Fetched
  BY <1>6 DEF Fetched
<1>8. QED BY <1>1, <1>3, <1>4, <1>5, <1>7 DEF KS!Ask

LEMMA ReuseImplements ==
    ASSUME StoreInv, NEW t \in Thread, LookupHit(t) PROVE KS!Reuse(t)
<1>1. TypeOK /\ ThreadStep(t) /\ ProcOf[t] \in Proc /\ req[t] \in Kernel
  BY KeyTyped DEF StoreInv, ThreadStep, Step, BuildStep, TypeOK
<1>2. /\ pc[t] = "lookup" /\ pc'[t] = "launch" /\ outcome'[t] = "ok"
      /\ kernels' = kernels /\ cache' = cache
      /\ kernels[ProcOf[t]][req[t]] # NoLib
  BY <1>1 DEF LookupHit, Goto, TypeOK, disk
<1>3. Published' = Published /\ Resident' = Resident
  BY <1>1, <1>2, PublishedKept, ResidentKept
<1>4. Asked[t] = CacheKey(t)
  BY <1>2 DEF Asked, Building
<1>5. kernels[ProcOf[t]][req[t]].image = CacheKey(t)
  BY <1>1, <1>2 DEF StoreInv, RightInv, KernelsRight, CacheKey
<1>6. Asked[t] \in Resident[ProcOf[t]]
  BY <1>1, <1>2, <1>4, <1>5 DEF Resident
<1>7. Asked' = [Asked EXCEPT ![t] = NoFile] /\ Granted' = [Granted EXCEPT ![t] = "ok"]
  BY <1>1, <1>2, RequestOthers DEF Building, Compiling, Removing
<1>8. Fetched' = [Fetched EXCEPT ![t] = FALSE]
  <2>1. (pc'[t] = "store") = FALSE
    BY <1>2
  <2>2. QED BY <1>1, <2>1, RequestOthers
<1>9. QED BY <1>3, <1>6, <1>7, <1>8 DEF KS!Reuse, KS!Grant

LEMMA StoreImplements ==
    ASSUME NoCollision, StoreInv, NEW t \in Thread, Store(t) PROVE KS!Load(t)
<1> DEFINE p == ProcOf[t]
<1>1. /\ TypeOK /\ ThreadStep(t) /\ p \in Proc /\ req[t] \in Kernel
      /\ CacheKey(t) \in Key /\ DirPath(t) \in Dir /\ DirPath(t) = DirOf[CacheKey(t)]
  BY KeyTyped DEF StoreInv, ThreadStep, Step, BuildStep, TypeOK, DirPath
<1>2. /\ pc[t] = "store" /\ pc'[t] = "launch" /\ outcome'[t] = "ok" /\ cache' = cache
      /\ kernels' = [kernels EXCEPT ![p][req[t]] = held[t]]
  BY <1>1 DEF Store, Goto, TypeOK, disk
<1>3. Asked[t] = CacheKey(t)
  BY <1>2 DEF Asked, Building
<1>4. Fetched[t]
  BY <1>2 DEF Fetched
<1>5. held[t] # NoLib /\ held[t].image = CacheKey(t)
  BY <1>2 DEF StoreInv, LibInv, RightInv, RightKernel
<1>6. Resident' = [Resident EXCEPT ![p] = @ \cup {CacheKey(t)}]
  <2>1. ASSUME NEW r \in Proc, r # p PROVE Resident'[r] = Resident[r]
    <3>1. kernels'[r] = kernels[r]
      BY <1>1, <1>2, <2>1 DEF TypeOK
    <3>2. QED BY <3>1 DEF Resident
  <2>2. Resident'[p] = Resident[p] \cup {CacheKey(t)}
    <3>1. \A q \in Kernel : kernels'[p][q] = IF q = req[t] THEN held[t] ELSE kernels[p][q]
      BY <1>1, <1>2 DEF TypeOK
    <3>2. kernels[p][req[t]] # NoLib => kernels[p][req[t]].image = CacheKey(t)
      BY <1>1 DEF StoreInv, RightInv, KernelsRight, CacheKey
    <3>3. Resident[p] = {kernels[p][q].image : q \in {r \in Kernel : kernels[p][r] # NoLib}}
      BY <1>1 DEF Resident
    <3>4. Resident'[p] = {kernels'[p][q].image : q \in {r \in Kernel : kernels'[p][r] # NoLib}}
      BY <1>1 DEF Resident
    <3>5. ASSUME NEW k PROVE k \in Resident'[p] <=> k \in Resident[p] \cup {CacheKey(t)}
      <4>1. CASE k = CacheKey(t)
        BY <1>1, <1>5, <3>1, <3>4, <4>1
      <4>2. CASE k # CacheKey(t)
        <5>1. \A q \in Kernel : kernels'[p][q] # NoLib /\ kernels'[p][q].image = k
                             <=> kernels[p][q] # NoLib /\ kernels[p][q].image = k
          BY <1>5, <3>1, <3>2, <4>2
        <5>2. QED BY <3>3, <3>4, <4>2, <5>1
      <4>3. QED BY <4>1, <4>2
    <3>6. QED BY <3>5
  <2>3. QED BY <1>1, <2>1, <2>2 DEF Resident
<1>7. Published' = Published
  BY <1>1, <1>2, PublishedKept
<1>8. Asked' = [Asked EXCEPT ![t] = NoFile] /\ Granted' = [Granted EXCEPT ![t] = "ok"]
  BY <1>1, <1>2, RequestOthers DEF Building, Compiling, Removing
<1>9. Fetched' = [Fetched EXCEPT ![t] = FALSE]
  <2>1. (pc'[t] = "store") = FALSE
    BY <1>2
  <2>2. QED BY <1>1, <2>1, RequestOthers
<1>10. QED BY <1>3, <1>4, <1>6, <1>7, <1>8, <1>9 DEF KS!Load, KS!Grant

\* A load that succeeds has read a published cubin, and that of its own key.
LEMMA FetchImplements ==
    ASSUME NoCollision, StoreInv, NEW t \in Thread, Load(t), pc'[t] = "store"
    PROVE  KS!Fetch(t)
<1>1. /\ TypeOK /\ ThreadStep(t)
      /\ CacheKey(t) \in Key /\ DirPath(t) \in Dir /\ DirPath(t) = DirOf[CacheKey(t)]
  BY KeyTyped DEF StoreInv, ThreadStep, DirPath
<1>2. pc[t] = "load" /\ req' = req /\ kernels' = kernels /\ cache' = cache
  BY DEF Load, disk
<1>3. CacheDir(t).cubin \in Key
  <2>1. Throw(t) => pc'[t] = "idle"
    BY <1>1 DEF Throw, Goto, TypeOK
  <2>2. QED BY <2>1 DEF Load, Loadable
<1>4. CacheDir(t).cubin = CacheKey(t)
  <2>1. DirOf[CacheDir(t).cubin] = DirPath(t)
    BY <1>1, <1>3 DEF StoreInv, NamedInv, CacheNamed, CacheDir
  <2>2. QED BY <1>1, <1>3, <2>1 DEF NoCollision
<1>5. Asked[t] \in Published
  BY <1>1, <1>2, <1>4 DEF Asked, Building, Published, CacheDir
<1>6. Published' = Published /\ Resident' = Resident
  BY <1>1, <1>2, PublishedKept, ResidentKept
<1>7. Asked' = Asked /\ Granted' = Granted
  <2>1. \A u \in Thread : /\ pc'[u] = pc[u] \/ (pc[u] \in Building /\ pc'[u] \in Building)
                          /\ outcome'[u] = outcome[u] \/ pc'[u] \in Building
                          /\ CacheKey(u)' = CacheKey(u)
    BY <1>1, <1>2, OwnVariables DEF Building, CacheKey
  <2>2. QED BY <2>1 DEF Asked, Granted
<1>8. Fetched' = [Fetched EXCEPT ![t] = TRUE]
  <2>1. (pc'[t] = "store") = TRUE
    OBVIOUS
  <2>2. QED BY <1>1, <2>1, RequestOthers
<1>9. QED BY <1>5, <1>6, <1>7, <1>8 DEF KS!Fetch

LEMMA RestartImplements ==
    ASSUME StoreInv, NEW p \in Proc, Crash(p) PROVE KS!Restart(p)
<1>1. TypeOK /\ cache' = cache /\ req' = req
  BY DEF StoreInv, Crash
<1>2. Published' = Published
  BY <1>1, PublishedKept
<1>3. Resident' = [Resident EXCEPT ![p] = {}]
  <2>1. kernels' = [kernels EXCEPT ![p] = [q \in Kernel |-> NoLib]]
    BY DEF Crash
  <2>2. \A r \in Proc : r # p => Resident'[r] = Resident[r]
    BY <1>1, <2>1 DEF Resident, TypeOK
  <2>3. Resident'[p] = {}
    <3>1. \A q \in Kernel : kernels'[p][q] = NoLib
      BY <1>1, <2>1 DEF TypeOK
    <3>2. QED BY <3>1 DEF Resident
  <2>4. QED BY <2>2, <2>3 DEF Resident
<1>4. ASSUME NEW t \in Thread, ProcOf[t] = p PROVE pc'[t] = "idle" /\ outcome'[t] = "none"
  BY <1>4 DEF Crash
<1>5. ASSUME NEW t \in Thread, ProcOf[t] # p
      PROVE  pc'[t] = pc[t] /\ outcome'[t] = outcome[t] /\ CacheKey(t)' = CacheKey(t)
  BY <1>1, <1>5 DEF Crash, CacheKey
<1>6. "idle" \notin Building
  BY DEF Building, Compiling, Removing
<1>7. Asked' = [t \in Thread |-> IF ProcOf[t] = p THEN NoFile ELSE Asked[t]]
  BY <1>4, <1>5, <1>6 DEF Asked
<1>8. Granted' = [t \in Thread |-> IF ProcOf[t] = p THEN "none" ELSE Granted[t]]
  BY <1>4, <1>5, <1>6 DEF Granted
<1>9. Fetched' = [t \in Thread |-> IF ProcOf[t] = p THEN FALSE ELSE Fetched[t]]
  BY <1>4, <1>5 DEF Fetched
<1>10. QED BY <1>2, <1>3, <1>7, <1>8, <1>9 DEF KS!Restart

LEMMA StepImplements ==
    ASSUME NoCollision, StoreInv, [Next]_vars
    PROVE  [KS!Next]_<<Published, Resident, Asked, Fetched, Granted>>
<1> USE DEF local, disk, gpu
<1> DEFINE Stutter == UNCHANGED <<Published, Resident, Asked, Fetched, Granted>>
<1>1. TypeOK
  BY DEF StoreInv
<1>2. ASSUME NEW t \in Thread, ThreadStep(t)
      PROVE  \/ \E i \in Key : KS!Ask(t, i)
             \/ KS!Publish(t) \/ KS!Lose(t) \/ KS!Fetch(t) \/ KS!Load(t)
             \/ KS!Reuse(t) \/ KS!Refuse(t) \/ Stutter
  <2>1. \A label : Goto(t, label) => pc'[t] = label
    BY <1>1 DEF Goto, TypeOK
  <2>2. Throw(t) => pc'[t] = "idle" /\ outcome'[t] \in {"fault", "error"}
    BY <1>1, <2>1 DEF Throw, TypeOK
  <2>3. "idle" \notin Building /\ "launch" \notin Building /\ "release" \notin Building
    BY DEF Building, Compiling, Removing
  <2>4. CASE \E q \in Kernel : Call(t, q)
    BY <2>4, AskImplements
  <2>5. CASE LookupHit(t)
    BY <2>5, ReuseImplements
  <2>6. CASE Store(t)
    BY <2>6, StoreImplements
  <2>7. CASE CompileStep(t)
    <3>1. pc[t] \in Building /\ pc[t] # "store" /\ UNCHANGED <<req, kernels>>
      BY <1>1, <2>7, CompileMoves DEF Building, Compiling, Removing
    <3>2. CASE Throw(t)
      <4>1. pc'[t] \notin Compiling \cup {"load"}
        BY <2>2, <3>2 DEF Compiling, Removing
      <4>2. QED BY <1>1, <1>2, <2>2, <2>3, <2>7, <3>1, <3>2, <4>1, OwnDirectory, RefuseImplements
    <3>3. CASE ~Throw(t)
      <4>1. pc'[t] \in Compiling \cup {"load"}
        BY <1>1, <2>1, <2>7, <3>3, CompileMoves DEF Quietly
      <4>2. pc'[t] \in Building /\ pc'[t] # "store"
        BY <4>1 DEF Building, Compiling, Removing
      <4>3. QED BY <1>1, <1>2, <2>7, <3>1, <4>2, OwnDirectory, BuildImplements
    <3>4. QED BY <3>2, <3>3
  <2>8. CASE LookupMiss(t) \/ Probe(t)
    <3>1. /\ pc[t] \in Building /\ pc[t] # "store" /\ UNCHANGED <<req, kernels, cache>>
          /\ pc'[t] \in Building /\ pc'[t] # "store"
      BY <2>1, <2>8 DEF LookupMiss, Probe, Building, Compiling, Removing
    <3>2. QED BY <1>2, <3>1, BuildImplements
  <2>9. CASE Load(t)
    <3>1. pc[t] \in Building /\ UNCHANGED <<req, kernels, cache>>
      BY <2>9 DEF Load, Building
    <3>2. Throw(t) \/ pc'[t] = "store"
      BY <2>1, <2>9 DEF Load
    <3>3. CASE pc'[t] = "store"
      BY <2>9, <3>3, FetchImplements
    <3>4. CASE Throw(t)
      BY <1>2, <2>2, <2>3, <3>1, <3>4, RefuseImplements
    <3>5. QED BY <3>2, <3>3, <3>4
  \* steps outside of build_kernel
  <2>10. ASSUME pc[t] \in {"launch", "release"}, pc'[t] \in {"release", "idle"},
                UNCHANGED <<outcome, kernels, cache>>
         PROVE  Stutter
    <3>1. Asked' = Asked /\ Fetched' = Fetched /\ Granted' = Granted
      BY <1>1, <1>2, <2>3, <2>10, RequestKept
    <3>2. QED BY <1>1, <2>10, <3>1, PublishedKept, ResidentKept
  <2>11. CASE Launch(t) \/ Release(t)
    <3>1. /\ pc[t] \in {"launch", "release"} /\ pc'[t] \in {"release", "idle"}
          /\ UNCHANGED <<outcome, kernels, cache>>
      BY <2>1, <2>11 DEF Launch, Release
    <3>2. QED BY <2>10, <3>1
  <2>12. CASE Refused(t)
    <3>1. UNCHANGED <<req, kernels, cache>>
      BY <1>1, <2>12, RefusedMoves
    <3>2. \/ pc[t] = "launch" /\ pc'[t] = "release" /\ outcome' = outcome
          \/ pc[t] \in Building \ {"store"} /\ pc'[t] = "idle" /\ outcome'[t] = "fault"
          \/ pc[t] \in Compiling /\ pc'[t] \in {"dropTmp", "leaveTmp"}
      BY <1>1, <2>1, <2>12, RefusedMoves
    <3>3. CASE pc[t] = "launch" /\ pc'[t] = "release" /\ outcome' = outcome
      BY <2>10, <3>1, <3>3
    <3>4. CASE pc[t] \in Building \ {"store"} /\ pc'[t] = "idle" /\ outcome'[t] = "fault"
      BY <1>2, <2>3, <3>1, <3>4, RefuseImplements
    <3>5. CASE pc[t] \in Compiling /\ pc'[t] \in {"dropTmp", "leaveTmp"}
      <4>1. /\ pc[t] \in Building /\ pc[t] # "store"
            /\ pc'[t] \in Building /\ pc'[t] # "store"
        BY <3>5 DEF Building, Compiling, Removing
      <4>2. QED BY <1>2, <3>1, <4>1, BuildImplements
    <3>6. QED BY <3>2, <3>3, <3>4, <3>5
  <2>13. QED
    BY <1>2, <2>4, <2>5, <2>6, <2>7, <2>8, <2>9, <2>11, <2>12 DEF ThreadStep
<1>3. ASSUME NEW lib \in inflight, Complete(lib) PROVE Stutter
  BY <1>3 DEF Complete, Published, Resident, Asked, Fetched, Granted, CacheKey
<1>4. ASSUME NEW p \in Proc, Crash(p) PROVE KS!Restart(p)
  BY <1>4, RestartImplements
<1>5. CASE UNCHANGED vars
  BY <1>5 DEF vars, Published, Resident, Asked, Fetched, Granted, CacheKey
<1> HIDE DEF Stutter
<1>6. CASE \E t \in Thread : ThreadStep(t)
  BY <1>2, <1>6 DEF KS!Next, Stutter
<1>7. CASE \E p \in Proc : Crash(p)
  BY <1>4, <1>7 DEF KS!Next
<1>8. QED
  BY <1>3, <1>5, <1>6, <1>7, StepsOfNext DEF Stutter

LEMMA InitImplements == Init => KS!Init
<1> SUFFICES ASSUME Init PROVE KS!Init
  OBVIOUS
<1>1. \A t \in Thread : pc[t] = "idle" /\ outcome[t] = "none"
  BY DEF Init
<1>2. \A p \in Proc, q \in Kernel : kernels[p][q] = NoLib
  BY DEF Init
<1>3. Published \in SUBSET Key
  BY DEF Published
<1>4. Resident = [p \in Proc |-> {}]
  BY <1>2 DEF Resident
<1>5. Asked = [t \in Thread |-> NoFile] /\ Granted = [t \in Thread |-> "none"]
  BY <1>1 DEF Asked, Granted, Building, Compiling, Removing
<1>6. Fetched = [t \in Thread |-> FALSE]
  BY <1>1 DEF Fetched
<1>7. QED BY <1>3, <1>4, <1>5, <1>6 DEF KS!Init

\* The kernel cache implements the abstract store: only asked-for kernels are
\* published, only published ones are fetched and become resident, a request is
\* granted only a resident kernel, and nothing published is lost but to a thread
\* that asked for the same kernel in a process with other threads - for any
\* number of threads and processes that race, fail and crash, as long as the
\* hash tells the cache keys apart.
THEOREM CacheImplementsStore == ASSUME NoCollision PROVE Spec => ImplementsStore
<1>1. Init => StoreInv
  BY TypeCorrectInit, LibInvInit, NamedInvInit, FilesInvInit, RightInvInit DEF StoreInv
<1>2. StoreInv /\ [Next]_vars => StoreInv'
  BY StoreInvStep
<1>3. StoreInv /\ [Next]_vars => [KS!Next]_<<Published, Resident, Asked, Fetched, Granted>>
  BY StepImplements
<1>4. QED
  BY <1>1, <1>2, <1>3, InitImplements, PTL DEF Spec, ImplementsStore, KS!Spec, KS!vars

=============================================================================
