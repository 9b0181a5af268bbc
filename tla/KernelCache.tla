----------------------------- MODULE KernelCache -----------------------------
(***************************************************************************)
(* The JIT kernel cache of crates/deepgemm-sys/csrc/deepgemm_raw_runtime.cc *)
(* (build_kernel, load_cached_kernel, KernelRuntime) as the threads of      *)
(* several processes run it over one cache directory on disk, from the call *)
(* of build_kernel to the launch and the release of the kernel it returns.  *)
(*                                                                         *)
(* A step of a thread is one access to what threads share: a critical       *)
(* section of g_runtime_mutex, one file system call, or one of the three    *)
(* things nvcc does to the shared directories (read the source, open the    *)
(* output, write it).  remove_all is several: it opens and lists the        *)
(* directory, unlinks what it listed and removes the directory.             *)
(*                                                                         *)
(* The file system follows POSIX: what is open stays open when its          *)
(* directory is renamed or its name is removed, so each thread remembers    *)
(* where the file or directory it (or its nvcc) has open is now (variable   *)
(* out).                                                                    *)
(*                                                                         *)
(* Not modelled: exhausted memory; the CUDA library a failing KernelRuntime *)
(* constructor leaves loaded; a machine crash (the cache is never synced).  *)
(***************************************************************************)
EXTENDS Naturals, Sequences

CONSTANTS
    Thread,         \* the threads that launch kernels
    Proc,           \* the processes they belong to
    ProcOf,         \* the process of each thread
    Kernel,         \* a kernel's name and generated code
    Config,         \* nvcc path and flags
    ConfigOf,       \* the compiler configuration each process computed
    Dir,            \* the names kernel.<name>.<hash> of cache directories
    DirOf,          \* the directory of each cache key
    EnvFaults,      \* the disk, nvcc and the driver may refuse what is asked
    MayCrash,       \* a process may die, with its nvcc, and be started again
    NoLib, NoFile, Partial, Kernelless

Key == Kernel \X Config

ASSUME CacheAssumption ==
    /\ ProcOf \in [Thread -> Proc]
    /\ ConfigOf \in [Proc -> Config]
    /\ DirOf \in [Key -> Dir]
    /\ Kernel # {}
    /\ EnvFaults \in BOOLEAN /\ MayCrash \in BOOLEAN
    /\ {NoFile, Partial, Kernelless} \cap (Key \cup Kernel) = {}
    /\ NoFile # Partial /\ NoFile # Kernelless /\ Partial # Kernelless

\* A loaded CUDA library: the thread and the kernel it was loaded for, and
\* the key its cubin was compiled from.
Lib == [by : Thread, kernel : Kernel, image : Key]

ASSUME NoLibAssumption == NoLib \notin Lib

\* The files of a tmp or cache directory.  kernel.cu is absent, truncated or
\* the source of a kernel; kernel.cubin is absent, being written, an image
\* without a kernel (an empty source compiles to one) or the image of a key.
Content == [exists : BOOLEAN,
            cu : {NoFile, Partial} \cup Kernel,
            cubin : {NoFile, Partial, Kernelless} \cup Key]

Absent == [exists |-> FALSE, cu |-> NoFile, cubin |-> NoFile]
Created == [exists |-> TRUE, cu |-> NoFile, cubin |-> NoFile]

Source == {"disk", "jit"}
Event == [phase : {"start", "finish"}, source : Source, success : BOOLEAN]

VARIABLES
    pc,         \* where each thread is
    req,        \* the kernel each thread last asked for
    held,       \* the shared_ptr<KernelRuntime> in the thread's frame
    outcome,    \* how its last build_kernel ended: "fault" when the
                \* environment refused something, "error" when it did not
    out,        \* where the file or directory the thread has open is now
    todo,       \* the files its remove_all has listed and not yet unlinked
    image,      \* what the thread's nvcc will write
    scope,      \* the KernelMaterializationScope alive in the thread
    events,     \* the events the hook got during the thread's last call
    tmp,        \* tmp[p][d]: <cache root>/tmp/<name>.<pid>.<hash>
    cache,      \* cache[d]: <cache root>/cache/kernel.<name>.<hash>
    lost,       \* history: the directories whose source the disk has lost
    kernels,    \* g_kernel_cache of each process
    loaded,     \* the libraries the CUDA driver holds
    inflight    \* the libraries with a kernel running on the GPU

disk == <<tmp, cache, lost>>
gpu == <<loaded, inflight>>
local == <<req, held, outcome, out, todo, image, scope, events>>
vars == <<pc, req, held, outcome, out, todo, image, scope, events,
          tmp, cache, lost, kernels, loaded, inflight>>

\* build_kernel removes its tmp directory before it compiles, when nvcc failed
\* and when the rename did.
Removing == {"clearTmp", "dropTmp", "leaveTmp"}

\* The steps of build_kernel in which it is compiling.
Compiling == Removing \cup {"createTmp", "openSource", "writeSource", "nvccRead",
                            "nvccOpen", "nvccWrite", "publish", "recover"}
Building == {"lookup", "probe", "load", "store"} \cup Compiling
PC == {"idle", "launch", "release"} \cup Building

-----------------------------------------------------------------------------
(* The cache key and the paths derived from it. *)

CacheKey(t) == <<req[t], ConfigOf[ProcOf[t]]>>

\* (mutant: the flags are not part of the hash)
DirPathNoFlags(t) == DirOf[<<req[t], CHOOSE c \in Config : TRUE>>]
DirPath(t) == DirOf[CacheKey(t)]
TmpDir(t) == tmp[ProcOf[t]][DirPath(t)]
CacheDir(t) == cache[DirPath(t)]

SameTmp(t, u) == ProcOf[t] = ProcOf[u] /\ DirPath(t) = DirPath(u)

SetTmp(t, content) == tmp' = [tmp EXCEPT ![ProcOf[t]][DirPath(t)] = content]

Goto(t, label) == pc' = [pc EXCEPT ![t] = label]

\* The files in a directory, and the directory without one of them.
Files(content) == (IF content.cu = NoFile THEN {} ELSE {"cu"}) \cup
                  (IF content.cubin = NoFile THEN {} ELSE {"cubin"})

Without(content, file) ==
    IF file = "cu" THEN [content EXCEPT !.cu = NoFile]
                   ELSE [content EXCEPT !.cubin = NoFile]

\* The directory that t has open or that holds the file t has open; what is in
\* a directory that is gone does not matter.
Opened(t) == IF out[t] = "tmp" THEN TmpDir(t)
             ELSE IF out[t] = "cache" THEN CacheDir(t)
             ELSE Created

SetOpened(t, content) ==
    /\ IF out[t] = "tmp" THEN SetTmp(t, content) ELSE UNCHANGED tmp
    /\ cache' = IF out[t] = "cache" THEN [cache EXCEPT ![DirPath(t)] = content]
                                    ELSE cache

Close(t) == out' = [out EXCEPT ![t] = "none"]

\* Where what is open is, once t has unlinked a file of the directory it has
\* open, removed its empty tmp directory, or renamed that onto its cache
\* directory (which, if it was there, was empty).
Unlinked(t, file) ==
    LET writer == IF file = "cu" THEN "writeSource" ELSE "nvccWrite" IN
    [u \in Thread |->
        IF pc[u] = writer /\ out[u] = out[t] /\ SameTmp(t, u) THEN "gone" ELSE out[u]]
Emptied(t) ==
    [u \in Thread |-> IF u = t THEN "none"
                      ELSE IF out[u] = "tmp" /\ SameTmp(t, u) THEN "gone" ELSE out[u]]
Renamed(t) ==
    [u \in Thread |-> IF out[u] = "tmp" /\ SameTmp(t, u) THEN "cache"
                      ELSE IF out[u] = "cache" /\ DirPath(u) = DirPath(t) THEN "gone"
                      ELSE out[u]]

-----------------------------------------------------------------------------
(* KernelMaterializationScope: its constructor reports a start, and exactly *)
(* one of finish_success and the destructor reports the finish.             *)

StartScope(t, source) ==
    /\ scope' = [scope EXCEPT ![t] = source]
    /\ events' = [events EXCEPT ![t] = Append(@,
            [phase |-> "start", source |-> source, success |-> TRUE])]

\* (mutant: the destructor does not report the failure)
FinishScopeOnSuccess(t, success) ==
    IF scope[t] = "none" THEN UNCHANGED <<scope, events>>
    ELSE /\ scope' = [scope EXCEPT ![t] = "none"]
         /\ events' = IF success
                THEN [events EXCEPT ![t] = Append(@,
                        [phase |-> "finish", source |-> scope[t], success |-> TRUE])]
                ELSE events

FinishScope(t, success) ==
    IF scope[t] = "none" THEN UNCHANGED <<scope, events>>
    ELSE /\ scope' = [scope EXCEPT ![t] = "none"]
         /\ events' = [events EXCEPT ![t] = Append(@,
                [phase |-> "finish", source |-> scope[t], success |-> success])]

\* build_kernel leaves by an exception.
Throw(t) ==
    /\ Goto(t, "idle")
    /\ outcome' = [outcome EXCEPT ![t] = IF @ = "fault" THEN "fault" ELSE "error"]
    /\ FinishScope(t, FALSE)

(* A library is unloaded when the last shared_ptr to it goes. *)
\* (mutant: plain pointers, the cache entry is the only owner)
HeldByNobody(t, lib) == FALSE
HeldByOther(t, lib) == \E u \in Thread \ {t} : held[u] = lib

\* (mutant: the cache keeps weak references)
CachedWeakly(p, lib) == FALSE
Cached(p, lib) == lib # NoLib /\ kernels[p][lib.kernel] = lib

-----------------------------------------------------------------------------
Init ==
    /\ pc = [t \in Thread |-> "idle"]
    /\ req = [t \in Thread |-> CHOOSE q \in Kernel : TRUE]
    /\ held = [t \in Thread |-> NoLib]
    /\ outcome = [t \in Thread |-> "none"]
    /\ out = [t \in Thread |-> "none"]
    /\ todo = [t \in Thread |-> {}]
    /\ lost = {}
    /\ image = [t \in Thread |-> Kernelless]
    /\ scope = [t \in Thread |-> "none"]
    /\ events = [t \in Thread |-> <<>>]
    /\ tmp = [p \in Proc |-> [d \in Dir |-> Absent]]
    \* earlier runs may have filled the cache
    /\ \E warm \in SUBSET Key : cache = [d \in Dir |->
            IF \E k \in warm : DirOf[k] = d
            THEN LET k == CHOOSE k \in warm : DirOf[k] = d
                 IN  [exists |-> TRUE, cu |-> k[1], cubin |-> k]
            ELSE Absent]
    /\ kernels = [p \in Proc |-> [q \in Kernel |-> NoLib]]
    /\ loaded = {}
    /\ inflight = {}

-----------------------------------------------------------------------------
(* build_kernel and load_cached_kernel *)

\* A launch asks for its kernel; the environment decides the cache key.
Call(t, q) ==
    /\ pc[t] = "idle"
    /\ Goto(t, "lookup")
    /\ req' = [req EXCEPT ![t] = q]
    /\ outcome' = [outcome EXCEPT ![t] = "none"]
    /\ events' = [events EXCEPT ![t] = <<>>]
    /\ UNCHANGED <<held, out, todo, image, scope, disk, kernels, gpu>>

\* The launch hot path: found in g_kernel_cache, no event.
LookupHit(t) ==
    /\ pc[t] = "lookup"
    /\ kernels[ProcOf[t]][req[t]] # NoLib
    /\ held' = [held EXCEPT ![t] = kernels[ProcOf[t]][req[t]]]
    /\ outcome' = [outcome EXCEPT ![t] = "ok"]
    /\ Goto(t, "launch")
    /\ UNCHANGED <<req, out, todo, image, scope, events, disk, kernels, gpu>>

LookupMiss(t) ==
    /\ pc[t] = "lookup"
    /\ kernels[ProcOf[t]][req[t]] = NoLib
    /\ Goto(t, "probe")
    /\ UNCHANGED <<local, disk, kernels, gpu>>

\* Is there a cubin on disk?  Load it, or compile one.
Probe(t) ==
    /\ pc[t] = "probe"
    /\ IF CacheDir(t).cubin # NoFile
       THEN StartScope(t, "disk") /\ Goto(t, "load")
       ELSE StartScope(t, "jit") /\ Goto(t, "clearTmp")
    /\ UNCHANGED <<req, held, outcome, out, todo, image, disk, kernels, gpu>>

\* Where build_kernel goes on when its remove_all(tmp_dir) is done: it compiles,
\* throws because nvcc failed, or looks what is in the way of its rename.
Removed(t) ==
    \/ /\ pc[t] = "clearTmp" /\ Goto(t, "createTmp")
       /\ UNCHANGED <<outcome, scope, events>>
    \/ /\ pc[t] = "leaveTmp" /\ Goto(t, "recover")
       /\ UNCHANGED <<outcome, scope, events>>
    \/ pc[t] = "dropTmp" /\ Throw(t)

\* remove_all opens and lists the directory, if there is one ...
ListTmp(t) ==
    /\ pc[t] \in Removing /\ out[t] = "none"
    /\ IF TmpDir(t).exists
       THEN /\ out' = [out EXCEPT ![t] = "tmp"]
            /\ todo' = [todo EXCEPT ![t] = Files(TmpDir(t))]
            /\ UNCHANGED <<pc, outcome, scope, events>>
       ELSE Removed(t) /\ UNCHANGED <<out, todo>>
    /\ UNCHANGED <<req, held, image, disk, kernels, gpu>>

\* ... unlinks what it listed, wherever the directory is by now ...
Unlink(t, file) ==
    /\ pc[t] \in Removing /\ file \in todo[t]
    /\ file \in Files(Opened(t))
    /\ SetOpened(t, Without(Opened(t), file))
    /\ out' = Unlinked(t, file)
    /\ todo' = [todo EXCEPT ![t] = @ \ {file}]
    /\ UNCHANGED <<pc, req, held, outcome, image, scope, events, lost, kernels, gpu>>

\* (what another thread has unlinked, C++ libraries pass over or throw at) ...
UnlinkMissing(t, file) ==
    /\ pc[t] \in Removing /\ file \in todo[t]
    /\ file \notin Files(Opened(t))
    /\ \/ /\ todo' = [todo EXCEPT ![t] = @ \ {file}]
          /\ UNCHANGED <<pc, outcome, scope, events, out>>
       \/ Throw(t) /\ Close(t) /\ todo' = [todo EXCEPT ![t] = {}]
    /\ UNCHANGED <<req, held, image, disk, kernels, gpu>>

\* ... and removes the directory of that name, which must be empty.
RemoveTmp(t) ==
    /\ pc[t] \in Removing /\ out[t] # "none" /\ todo[t] = {}
    /\ IF TmpDir(t) = Created THEN SetTmp(t, Absent) /\ out' = Emptied(t)
                              ELSE UNCHANGED tmp /\ Close(t)
    /\ IF Files(TmpDir(t)) = {} THEN Removed(t) ELSE Throw(t)
    /\ UNCHANGED <<req, held, todo, image, cache, lost, kernels, gpu>>

\* create_directories(tmp_dir)
CreateTmp(t) ==
    /\ pc[t] = "createTmp"
    /\ SetTmp(t, IF TmpDir(t).exists THEN TmpDir(t) ELSE Created)
    /\ Goto(t, "openSource")
    /\ UNCHANGED <<local, cache, lost, kernels, gpu>>

\* write_file opens and truncates kernel.cu ...
OpenSource(t) ==
    /\ pc[t] = "openSource"
    /\ IF TmpDir(t).exists
       THEN /\ SetTmp(t, [TmpDir(t) EXCEPT !.cu = Partial])
            /\ out' = [out EXCEPT ![t] = "tmp"]
            /\ Goto(t, "writeSource")
            /\ UNCHANGED <<outcome, scope, events>>
       ELSE /\ Throw(t)
            /\ UNCHANGED <<tmp, out>>
    /\ UNCHANGED <<req, held, todo, image, cache, lost, kernels, gpu>>

\* ... and its contents reach the file, wherever the file is by now.
WriteSource(t) ==
    /\ pc[t] = "writeSource"
    /\ SetOpened(t, [Opened(t) EXCEPT !.cu = req[t]])
    /\ Close(t)
    /\ Goto(t, "nvccRead")
    /\ UNCHANGED <<req, held, outcome, todo, image, scope, events, lost, kernels, gpu>>

\* (mutant: the exit status of nvcc is not looked at)
NvccFailsUnseen(t) == Goto(t, "publish")
NvccFails(t) == Goto(t, "dropTmp")

\* nvcc opens the source by its path and compiles what it finds there.
NvccRead(t) ==
    /\ pc[t] = "nvccRead"
    /\ IF TmpDir(t).cu = NoFile
       THEN NvccFails(t) /\ UNCHANGED image
       ELSE /\ image' = [image EXCEPT ![t] =
                    IF TmpDir(t).cu = Partial THEN Kernelless
                    ELSE <<TmpDir(t).cu, ConfigOf[ProcOf[t]]>>]
            /\ Goto(t, "nvccOpen")
    /\ UNCHANGED <<req, held, outcome, out, todo, scope, events, disk, kernels, gpu>>

\* nvcc creates or truncates the output by its path.
NvccOpen(t) ==
    /\ pc[t] = "nvccOpen"
    /\ IF TmpDir(t).exists
       THEN /\ SetTmp(t, [TmpDir(t) EXCEPT !.cubin = Partial])
            /\ out' = [out EXCEPT ![t] = "tmp"]
            /\ Goto(t, "nvccWrite")
            /\ UNCHANGED image
       ELSE /\ image' = [image EXCEPT ![t] = Kernelless]
            /\ NvccFails(t)
            /\ UNCHANGED <<tmp, out>>
    /\ UNCHANGED <<req, held, outcome, todo, scope, events, cache, lost, kernels, gpu>>

\* nvcc finishes the output and exits with 0.  A file that another nvcc still
\* has open (it truncated it) is not whole before that one is done too.
NvccWrite(t) ==
    LET shared == \E u \in Thread \ {t} :
                    pc[u] = "nvccWrite" /\ out[u] = out[t] /\ SameTmp(t, u)
        result == IF shared THEN Partial ELSE image[t]
    IN
    /\ pc[t] = "nvccWrite"
    /\ SetOpened(t, [Opened(t) EXCEPT !.cubin = result])
    /\ Close(t)
    /\ image' = [image EXCEPT ![t] = Kernelless]
    /\ Goto(t, "publish")
    /\ UNCHANGED <<req, held, outcome, todo, scope, events, lost, kernels, gpu>>

\* (mutant: the cache directory is not created)
CanRenameNoParent(t) ==
    /\ TmpDir(t).exists
    /\ CacheDir(t) = Absent
    /\ \E d \in Dir : cache[d].exists

\* rename(2) moves a directory onto a free or empty name only.
CanRename(t) ==
    /\ TmpDir(t).exists
    /\ CacheDir(t) \in {Absent, Created}

Publish(t) ==
    /\ pc[t] = "publish"
    /\ IF CanRename(t)
       THEN /\ cache' = [cache EXCEPT ![DirPath(t)] = TmpDir(t)]
            /\ SetTmp(t, Absent)
            /\ out' = Renamed(t)
            /\ Goto(t, "load")
       ELSE /\ Goto(t, "leaveTmp")
            /\ UNCHANGED <<cache, tmp, out>>
    /\ UNCHANGED <<req, held, outcome, todo, image, scope, events, lost, kernels, gpu>>

\* (mutants: a lost race is an error; the rename is tried until it succeeds;
\* it is tried again after the directory in the way is removed)
RecoverGivesUp(t) ==
    /\ pc[t] = "recover"
    /\ Throw(t)
    /\ UNCHANGED <<req, held, out, todo, image, disk, kernels, gpu>>
RecoverRetries(t) ==
    /\ pc[t] = "recover"
    /\ Goto(t, "publish")
    /\ UNCHANGED <<local, disk, kernels, gpu>>
RecoverReplaces(t) ==
    /\ pc[t] = "recover"
    /\ cache' = [cache EXCEPT ![DirPath(t)] = Absent]
    /\ Goto(t, "publish")
    /\ UNCHANGED <<local, tmp, lost, kernels, gpu>>

\* The rename failed: go on if someone else published the kernel.
Recover(t) ==
    /\ pc[t] = "recover"
    /\ IF CacheDir(t).cubin # NoFile
       THEN Goto(t, "load") /\ UNCHANGED <<outcome, scope, events>>
       ELSE Throw(t)
    /\ UNCHANGED <<req, held, out, todo, image, disk, kernels, gpu>>

\* What KernelRuntime's constructor accepts: a whole image with one kernel.
\* (mutant: the kernels of the image are not counted)
LoadableUncounted(cubin) == cubin \notin {NoFile, Partial}
Loadable(cubin) == cubin \in Key

Load(t) ==
    LET cubin == CacheDir(t).cubin
        lib == [by |-> t, kernel |-> req[t], image |-> cubin] IN
    /\ pc[t] = "load"
    /\ IF Loadable(cubin)
       THEN /\ held' = [held EXCEPT ![t] = lib]
            /\ loaded' = loaded \cup {lib}
            /\ Goto(t, "store")
            /\ UNCHANGED <<outcome, scope, events>>
       ELSE /\ Throw(t)
            /\ UNCHANGED <<held, loaded>>
    /\ UNCHANGED <<req, out, todo, image, disk, kernels, inflight>>

\* g_kernel_cache[key] = runtime: the entry it replaces loses a reference.
Store(t) ==
    LET p == ProcOf[t]
        old == kernels[p][req[t]] IN
    /\ pc[t] = "store"
    /\ kernels' = [kernels EXCEPT ![p][req[t]] = held[t]]
    /\ loaded' = IF HeldByOther(t, old) THEN loaded ELSE loaded \ {old}
    /\ FinishScope(t, TRUE)
    /\ outcome' = [outcome EXCEPT ![t] = "ok"]
    /\ Goto(t, "launch")
    /\ UNCHANGED <<req, held, out, todo, image, disk, inflight>>

-----------------------------------------------------------------------------
(* The launch that asked for the kernel *)

\* cuLaunchKernelEx puts the kernel on a stream and returns.
Launch(t) ==
    /\ pc[t] = "launch"
    /\ inflight' = inflight \cup {held[t]}
    /\ Goto(t, "release")
    /\ UNCHANGED <<local, disk, kernels, loaded>>

\* The launcher returns and drops its shared_ptr.
Release(t) ==
    /\ pc[t] = "release"
    /\ held' = [held EXCEPT ![t] = NoLib]
    /\ loaded' = IF HeldByOther(t, held[t]) \/ Cached(ProcOf[t], held[t])
                 THEN loaded ELSE loaded \ {held[t]}
    /\ Goto(t, "idle")
    /\ UNCHANGED <<req, outcome, out, todo, image, scope, events, disk, kernels, inflight>>

\* The GPU is done with the launches of a kernel.
Complete(lib) ==
    /\ lib \in inflight
    /\ inflight' = inflight \ {lib}
    /\ UNCHANGED <<pc, local, disk, kernels, loaded>>

-----------------------------------------------------------------------------
(* The environment *)

\* A file system call, a driver call or the start of nvcc is refused to t, or
\* nvcc fails on its own.  A remove_all that is refused has done its work in part.
Refused(t) ==
    /\ EnvFaults
    /\ \/ /\ pc[t] \in (Building \ {"nvccOpen", "nvccWrite", "store"})
          /\ Goto(t, "idle")
          /\ outcome' = [outcome EXCEPT ![t] = "fault"]
          /\ FinishScope(t, FALSE)
       \/ /\ \/ pc[t] \in {"nvccRead", "nvccOpen", "nvccWrite"} /\ NvccFails(t)
             \/ pc[t] = "publish" /\ Goto(t, "leaveTmp")
          /\ outcome' = [outcome EXCEPT ![t] = "fault"]
          /\ UNCHANGED <<scope, events>>
       \/ /\ pc[t] = "launch" /\ Goto(t, "release")
          /\ UNCHANGED <<outcome, scope, events>>
    /\ Close(t)
    /\ todo' = [todo EXCEPT ![t] = {}]
    /\ image' = [image EXCEPT ![t] = Kernelless]
    /\ UNCHANGED <<req, held, disk, kernels, gpu>>

\* The disk has no room for the text that the ofstream of write_file writes when
\* it is closed: kernel.cu stays as it is, and nothing reports it.
LoseSource(t) ==
    /\ EnvFaults
    /\ pc[t] = "writeSource"
    /\ lost' = lost \cup {DirPath(t)}
    /\ Close(t)
    /\ Goto(t, "nvccRead")
    /\ UNCHANGED <<req, held, outcome, todo, image, scope, events, tmp, cache, kernels, gpu>>

\* The process dies and takes its nvcc along.  Its successor may be given the
\* same pid, and then finds the tmp directories left behind.
Crash(p) ==
    LET mine == {t \in Thread : ProcOf[t] = p}
        reset(f, value) == [t \in Thread |-> IF t \in mine THEN value ELSE f[t]] IN
    /\ MayCrash
    /\ pc' = reset(pc, "idle")
    /\ held' = reset(held, NoLib)
    /\ outcome' = reset(outcome, "none")
    /\ out' = reset(out, "none")
    /\ todo' = reset(todo, {})
    /\ image' = reset(image, Kernelless)
    /\ scope' = reset(scope, "none")
    /\ events' = reset(events, <<>>)
    /\ \E samePid \in BOOLEAN :
         tmp' = IF samePid THEN tmp ELSE [tmp EXCEPT ![p] = [d \in Dir |-> Absent]]
    /\ kernels' = [kernels EXCEPT ![p] = [q \in Kernel |-> NoLib]]
    /\ loaded' = {lib \in loaded : lib.by \notin mine}
    /\ inflight' = {lib \in inflight : lib.by \notin mine}
    /\ UNCHANGED <<req, cache, lost>>

-----------------------------------------------------------------------------
(* The specification *)

BuildStep(t) ==
    \/ LookupHit(t) \/ LookupMiss(t) \/ Probe(t)
    \/ ListTmp(t) \/ RemoveTmp(t)
    \/ \E file \in {"cu", "cubin"} : Unlink(t, file) \/ UnlinkMissing(t, file)
    \/ CreateTmp(t) \/ OpenSource(t) \/ WriteSource(t)
    \/ NvccRead(t) \/ NvccOpen(t) \/ NvccWrite(t)
    \/ Publish(t) \/ Recover(t)
    \/ Load(t) \/ Store(t)

Step(t) == BuildStep(t) \/ Launch(t) \/ Release(t)

Next ==
    \/ \E t \in Thread :
        \/ \E q \in Kernel : Call(t, q)
        \/ Step(t)
        \/ Refused(t)
        \/ LoseSource(t)
    \/ \E lib \in inflight : Complete(lib)
    \/ \E p \in Proc : Crash(p)

Spec == Init /\ [][Next]_vars

\* Threads are scheduled and nvcc ends; nothing obliges a thread to launch,
\* the environment to fail or the GPU to finish.
Fairness == \A t \in Thread : WF_vars(Step(t))

FairSpec == Spec /\ Fairness

-----------------------------------------------------------------------------
(* Properties *)

\* No two threads of a process launch kernels.
SingleThreaded == \A t, u \in Thread : ProcOf[t] = ProcOf[u] => t = u

\* The 64-bit hash tells the cache keys in use apart.
NoCollision == \A k, l \in Key : DirOf[k] = DirOf[l] => k = l

TypeOK ==
    /\ pc \in [Thread -> PC]
    /\ req \in [Thread -> Kernel]
    /\ held \in [Thread -> Lib \cup {NoLib}]
    /\ outcome \in [Thread -> {"none", "ok", "error", "fault"}]
    /\ out \in [Thread -> {"none", "tmp", "cache", "gone"}]
    /\ todo \in [Thread -> SUBSET {"cu", "cubin"}]
    /\ image \in [Thread -> {Kernelless} \cup Key]
    /\ scope \in [Thread -> {"none"} \cup Source]
    /\ events \in [Thread -> Seq(Event)]
    /\ tmp \in [Proc -> [Dir -> Content]]
    /\ cache \in [Dir -> Content]
    /\ lost \subseteq Dir
    /\ kernels \in [Proc -> [Kernel -> Lib \cup {NoLib}]]
    /\ loaded \subseteq Lib
    /\ inflight \subseteq Lib \cup {NoLib}

\* A cache directory is never seen without its whole cubin, whatever fails,
\* crashes or runs in other processes: build_kernel compiles aside and renames.
\* The one exception is the empty image of a source that the disk has lost.
CacheComplete == \A d \in Dir : cache[d].exists =>
    \/ cache[d].cubin \in Key
    \/ cache[d].cubin = Kernelless /\ d \in lost

\* A kernel the cache holds stays there, unchanged: no later launch, failure
\* or crash makes build_kernel replace or remove a published cubin.  The one
\* exception: a remove_all of a thread that shares its tmp directory with other
\* threads of its process unlinks what one of them renamed in the meantime.
ErasedBySharer(d) == \E t, u \in Thread :
    /\ t # u /\ ProcOf[t] = ProcOf[u]
    /\ pc[t] \in Removing /\ out[t] = "cache" /\ DirPath(t) = d

PublishedStays ==
    [][\A d \in Dir : cache[d].cubin \in Key =>
        \/ cache'[d].cubin = cache[d].cubin
        \/ cache'[d].cubin = NoFile /\ ErasedBySharer(d)]_vars

\* build_kernel throws only when the environment refused it something: races
\* with other launches, and what crashed processes left behind, are no reason
\* to.  The one exception is a kernel whose source the disk has lost.
ErrorsAreExplained == \A t \in Thread : outcome[t] = "error" => DirPath(t) \in lost

\* The kernel a launch uses was compiled from the code the launch generated
\* and with the compiler flags of its process, though processes that use other
\* flags share the cache directory.
RightKernel == \A t \in Thread : held[t] # NoLib => held[t].image = CacheKey(t)

\* A library that a launcher or g_kernel_cache still refers to is loaded, though
\* threads that built the same kernel replace each other's cache entry.
ReferencedLoaded ==
    /\ \A t \in Thread : held[t] # NoLib => held[t] \in loaded
    /\ \A p \in Proc, q \in Kernel : kernels[p][q] # NoLib => kernels[p][q] \in loaded

\* No library is unloaded while the GPU still runs a kernel of it, except that
\* of a thread that built a kernel at the same time as another thread of its
\* process, whose library has taken the place in g_kernel_cache.
Superseded(lib) == kernels[ProcOf[lib.by]][lib.kernel] \notin {NoLib, lib}

RunningLoaded == \A lib \in inflight : lib \in loaded \/ Superseded(lib)

\* The hook sees nothing, or one start and one finish of the same source, and
\* the finish says success exactly when build_kernel returned a kernel; the
\* scope is open exactly between the two.
ScopesPaired == \A t \in Thread :
    LET e == events[t] IN
    /\ Len(e) \in 0..2
    /\ Len(e) >= 1 => e[1].phase = "start"
    /\ Len(e) = 2 => /\ e[2].phase = "finish"
                     /\ e[2].source = e[1].source
                     /\ e[2].success <=> outcome[t] = "ok"
    /\ (scope[t] # "none") <=> (Len(e) = 1)
    /\ pc[t] \notin Building => scope[t] = "none"

\* A cache directory with files in it that no launch is building holds the
\* cubin that later launches reuse.
CompiledIsReusable == \A d \in Dir :
    /\ cache[d] \notin {Absent, Created}
    /\ \A t \in Thread : pc[t] \in Building => DirPath(t) # d
    => cache[d].cubin \in Key

\* Every launch ends, and without faults and crashes it leaves its kernel in the cache.
LaunchEnds == \A t \in Thread : pc[t] # "idle" ~> pc[t] = "idle"
LaunchPublishes == \A k \in Key :
    (\E t \in Thread : pc[t] = "lookup" /\ CacheKey(t) = k) ~> cache[DirOf[k]].cubin = k

\* The abstract store this module implements.  An item is published when the
\* directory of its key holds its cubin; a request lasts as long as build_kernel.
Published == {k \in Key : cache[DirOf[k]].cubin = k}
Resident == [p \in Proc |->
    {kernels[p][q].image : q \in {r \in Kernel : kernels[p][r] # NoLib}}]
Asked == [t \in Thread |-> IF pc[t] \in Building THEN CacheKey(t) ELSE NoFile]
Fetched == [t \in Thread |-> pc[t] = "store"]
Granted == [t \in Thread |->
    IF pc[t] \in Building THEN "none"
    ELSE IF outcome[t] = "fault" THEN "error" ELSE outcome[t]]

KS == INSTANCE KernelStore WITH
    Item <- Key,
    NoItem <- NoFile,
    published <- Published,
    resident <- Resident,
    asked <- Asked,
    fetched <- Fetched,
    granted <- Granted

\* The threads, the files and the caches together behave as the abstract store:
\* only asked-for kernels are published, only published ones become resident,
\* nothing published is lost but to threads that share a tmp directory, a
\* request is granted only a resident kernel.
ImplementsStore == KS!Spec

=============================================================================
