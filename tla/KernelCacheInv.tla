--------------------------- MODULE KernelCacheInv ---------------------------
(***************************************************************************)
(* The inductive invariants behind the safety properties of KernelCache.    *)
(***************************************************************************)
EXTENDS KernelCache

\* References and libraries.  A thread holds a library from the load to the
\* release; a library belongs to the process and the kernel it was loaded for;
\* a thread that is past its lookup has not yet put a library of its own into
\* g_kernel_cache, so the entry its store replaces is never the one it holds.
LibInv ==
    /\ \A t \in Thread :
        /\ held[t] # NoLib <=> pc[t] \in {"store", "launch", "release"}
        /\ held[t] # NoLib => /\ held[t] \in loaded
                              /\ ProcOf[held[t].by] = ProcOf[t]
                              /\ held[t].kernel = req[t]
        /\ pc[t] = "store" => held[t].by = t
        /\ pc[t] \in Building \ {"lookup"} =>
            \/ kernels[ProcOf[t]][req[t]] = NoLib
            \/ kernels[ProcOf[t]][req[t]].by # t
    /\ \A p \in Proc, q \in Kernel : kernels[p][q] # NoLib =>
        /\ kernels[p][q] \in loaded
        /\ ProcOf[kernels[p][q].by] = p
        /\ kernels[p][q].kernel = q

\* Scopes.  A KernelMaterializationScope is alive from the probe until
\* build_kernel is left, and its thread's events are its start and then its
\* finish.
InScope == Compiling \cup {"load", "store"}

ScopeOf(t) ==
    LET e == events[t] IN
    /\ scope[t] # "none" <=> pc[t] \in InScope
    /\ pc[t] \in {"lookup", "probe"} => Len(e) = 0 /\ outcome[t] # "ok"
    /\ scope[t] # "none" => /\ Len(e) = 1
                            /\ e[1].phase = "start" /\ e[1].source = scope[t]
                            /\ outcome[t] # "ok"
    /\ scope[t] = "none" =>
        \/ Len(e) = 0
        \/ /\ Len(e) = 2
           /\ e[1].phase = "start" /\ e[2].phase = "finish"
           /\ e[2].source = e[1].source
           /\ e[2].success <=> outcome[t] = "ok"

ScopeInv == \A t \in Thread : ScopeOf(t)

\* Files, when no two threads of a process launch.  The tmp directory of a
\* thread holds what it put there, its remove_all finds what it has listed, and
\* what it publishes is whole - or empty, once the disk has lost the source.
SourceLost(t) == DirPath(t) \in lost

OwnsTmp(t) ==
    /\ out[t] \in {"none", "tmp"}
    /\ pc[t] \in {"writeSource", "nvccWrite"} => out[t] = "tmp"
    /\ out[t] = "tmp" => /\ pc[t] \in {"writeSource", "nvccWrite"} \cup Removing
                         /\ TmpDir(t).exists
    /\ todo[t] = IF pc[t] \in Removing /\ out[t] = "tmp" THEN Files(TmpDir(t)) ELSE {}
    /\ pc[t] \in {"openSource", "nvccRead", "nvccOpen", "publish"} => TmpDir(t).exists
    /\ pc[t] = "writeSource" => TmpDir(t).cu = Partial
    /\ pc[t] = "nvccRead" =>
        TmpDir(t).cu = req[t] \/ (TmpDir(t).cu = Partial /\ SourceLost(t))
    /\ pc[t] \in {"nvccOpen", "nvccWrite"} =>
        image[t] = CacheKey(t) \/ (image[t] = Kernelless /\ SourceLost(t))
    /\ pc[t] = "publish" =>
        TmpDir(t).cubin = CacheKey(t) \/ (TmpDir(t).cubin = Kernelless /\ SourceLost(t))

\* What a thread that loads, or lost the race to publish, counts on; and that
\* it throws only when the environment refused something or lost its source.
LoadReady(t) ==
    /\ pc[t] = "load" => CacheDir(t).exists
    /\ pc[t] \in {"leaveTmp", "recover"} => outcome[t] = "fault" \/ CacheDir(t).exists
    /\ pc[t] = "dropTmp" => outcome[t] = "fault"
    /\ outcome[t] = "error" => SourceLost(t)

CacheTidy == \A d \in Dir : cache[d].exists \/ cache[d] = Absent

CacheInv ==
    /\ \A t \in Thread : OwnsTmp(t) /\ LoadReady(t)
    /\ CacheTidy /\ CacheComplete

\* Files, whatever threads do.  A file that is open for writing is one that the
\* directory it is in by now shows unfinished: nobody renames a directory onto
\* that one, and what was open in a renamed directory is all of one process.  A
\* thread has something open in a cache directory only if another thread of its
\* process renamed it there.
OpenFile(t) ==
    /\ out[t] # "none" => pc[t] \in {"writeSource", "nvccWrite"} \cup Removing
    /\ pc[t] = "writeSource" => /\ out[t] = "tmp" => TmpDir(t).cu # NoFile
                                /\ out[t] = "cache" => CacheDir(t).cu # NoFile
    /\ pc[t] = "nvccWrite" => /\ out[t] = "tmp" => TmpDir(t).cubin = Partial
                              /\ out[t] = "cache" => CacheDir(t).cubin = Partial
    /\ out[t] = "cache" => \E u \in Thread \ {t} : ProcOf[u] = ProcOf[t]

OneWriter(t, u) ==
    out[t] = "cache" /\ out[u] = "cache" /\ DirPath(t) = DirPath(u) => ProcOf[t] = ProcOf[u]

TmpTidy == \A p \in Proc, d \in Dir : tmp[p][d].exists \/ tmp[p][d] = Absent

FilesInv ==
    /\ TmpTidy
    /\ \A t \in Thread : OpenFile(t)
    /\ \A t, u \in Thread : OneWriter(t, u)

\* Names, whatever threads do: everything compiled is in, or on its way to, the
\* directory that its cache key names.
TmpNamed == \A p \in Proc, d \in Dir :
    /\ tmp[p][d].cu \in Kernel => DirOf[<<tmp[p][d].cu, ConfigOf[p]>>] = d
    /\ tmp[p][d].cubin \in Key => DirOf[tmp[p][d].cubin] = d

CacheNamed == \A d \in Dir : cache[d].cubin \in Key => DirOf[cache[d].cubin] = d

ImageNamed(t) == image[t] \in Key =>
    /\ pc[t] \in {"nvccOpen", "nvccWrite"}
    /\ DirOf[image[t]] = DirPath(t)

NamedInv == TmpNamed /\ CacheNamed /\ \A t \in Thread : ImageNamed(t)

KernelsRight == \A p \in Proc, q \in Kernel :
    kernels[p][q] # NoLib => kernels[p][q].image = <<q, ConfigOf[p]>>

\* Kernels, when the hash tells the cache keys apart: what is loaded for a
\* kernel, and what g_kernel_cache has for it, is that kernel.
RightInv == KernelsRight /\ RightKernel

\* Launches.  What runs, or is about to, is in g_kernel_cache or was replaced
\* there: the cache has an entry for the kernel as long as the process lives.
RunningInv ==
    /\ \A lib \in inflight : lib # NoLib /\ kernels[ProcOf[lib.by]][lib.kernel] # NoLib
    /\ \A t \in Thread : pc[t] \in {"launch", "release"} =>
        kernels[ProcOf[t]][req[t]] # NoLib
=============================================================================
