--------------------------- MODULE CompilerConfig ---------------------------
(***************************************************************************)
(* How the threads of one process agree on a compiler configuration, in     *)
(* crates/deepgemm-sys/csrc/deepgemm_raw_runtime.cc: deepgemm_init sets the *)
(* paths and forgets the configuration; the first build_kernel after that   *)
(* computes a new one from the paths and the device of its thread, without  *)
(* holding g_runtime_mutex in between, and stores it for everyone.          *)
(*                                                                         *)
(* A step is one critical section of g_runtime_mutex.  What a thread does   *)
(* between two of them (running nvcc --version, asking the driver for its   *)
(* device) touches nothing the others change and is part of the next step.  *)
(*                                                                         *)
(* Abstracted: the two paths of deepgemm_init are one root; of the flags    *)
(* only the include paths and the architecture are kept, the rest comes     *)
(* from environment variables, which are constant.                          *)
(***************************************************************************)
EXTENDS Naturals

CONSTANTS
    Thread,
    Root,       \* the (deepgemm_root, cuda_home) pairs deepgemm_init is given
    BadRoot,    \* those without the headers or nvcc that runtime_init requires
    NoRoot,     \* deepgemm_init was never called
    EnvNvcc,    \* the toolkit DG_JIT_NVCC_COMPILER names, NoRoot if unset
    Device,     \* the CUDA devices of the machine
    CapabilityOf,   \* [Device -> Capability]
    VersionOf,  \* [Root -> Version]: the nvcc of each toolkit
    NoConfig

Capability == {"9.0", "10.0", "10.1", "10.3"}
Version == {"< 12.3", ">= 12.3", ">= 12.9"}
ArchFlag == {"90a", "100a", "100f", "101a"}

ASSUME ConfigAssumption ==
    /\ BadRoot \subseteq Root
    /\ NoRoot \notin Root
    /\ EnvNvcc \in Root \cup {NoRoot}
    /\ CapabilityOf \in [Device -> Capability]
    /\ VersionOf \in [Root -> Version]
    /\ Device # {}

\* CompilerConfig: the nvcc to run and the flags to give it.
Config == [nvcc : Root, include : Root, arch : ArchFlag]

ASSUME NoConfigAssumption == NoConfig \notin Config

VARIABLES
    root,       \* g_deepgemm_root, g_cuda_home and the include paths
    cached,     \* g_compiler_config_cache
    pc,         \* where each thread is
    device,     \* the device of each thread's CUDA context
    config,     \* the configuration each thread is computing or was given
    current,    \* (history) the threads that were given one since the last init
    overlapped, \* (history) the last init came while a thread was computing one
    madeFor     \* (history) the device of the thread that stored the last one

vars == <<root, cached, pc, device, config, current, overlapped, madeFor>>

\* A configuration whose flags are not computed yet.
Draft == [nvcc : Root, include : {NoRoot}, arch : {"none"}]

-----------------------------------------------------------------------------
\* (mutant: every Blackwell device gets the flag of compute capability 10.0)
NvccArchExact(capability, version) ==
    CASE capability = "9.0" -> "90a"
      [] capability = "10.1" -> "101a"
      [] OTHER -> "100a"

\* nvcc_arch: what --gpu-architecture is given.
NvccArch(capability, version) ==
    CASE capability = "9.0" -> "90a"
      [] capability = "10.1" -> "101a"
      [] OTHER -> IF version = ">= 12.9" THEN "100f" ELSE "100a"

\* The devices that run what was compiled for an architecture (CUDA: a flag
\* with an "a" is for one compute capability, one with an "f" for its family).
RunsOn(arch) ==
    CASE arch = "90a" -> {"9.0"}
      [] arch = "100a" -> {"10.0"}
      [] arch = "100f" -> {"10.0", "10.3"}
      [] arch = "101a" -> {"10.1"}

\* A thread has read a path and not stored the configuration yet.
Computing(t) == pc[t] \in {"flags", "store"}

Goto(t, label) == pc' = [pc EXCEPT ![t] = label]

Init ==
    /\ root = NoRoot
    /\ cached = NoConfig
    /\ pc = [t \in Thread |-> "idle"]
    /\ device \in [Thread -> Device]
    /\ config = [t \in Thread |-> NoConfig]
    /\ current = {}
    /\ overlapped = FALSE
    /\ madeFor = CHOOSE d \in Device : TRUE

\* cudaSetDevice, between two launches.
SetDevice(t, d) ==
    /\ pc[t] = "idle"
    /\ device' = [device EXCEPT ![t] = d]
    /\ UNCHANGED <<root, cached, pc, config, current, overlapped, madeFor>>

\* runtime_init; it leaves everything alone when it throws.
\* (mutant: it keeps the configuration of the last root)
RuntimeInitKeeping(t, r) ==
    /\ pc[t] = "idle"
    /\ r \notin BadRoot
    /\ root' = r
    /\ current' = {}
    /\ overlapped' = \E u \in Thread : Computing(u)
    /\ UNCHANGED <<cached, pc, device, config, madeFor>>
RuntimeInit(t, r) ==
    /\ pc[t] = "idle"
    /\ r \notin BadRoot
    /\ root' = r
    /\ cached' = NoConfig
    /\ current' = {}
    /\ overlapped' = \E u \in Thread : Computing(u)
    /\ UNCHANGED <<pc, device, config, madeFor>>

\* (mutant: a kernel is built before deepgemm_init)
BuildKernelUnchecked(t) ==
    /\ pc[t] = "idle"
    /\ Goto(t, "lookup")
    /\ UNCHANGED <<root, cached, device, config, current, overlapped, madeFor>>

\* build_kernel: runtime_is_initialized, or throw.
BuildKernel(t) ==
    /\ pc[t] = "idle"
    /\ root # NoRoot
    /\ Goto(t, "lookup")
    /\ UNCHANGED <<root, cached, device, config, current, overlapped, madeFor>>

\* compiler_config: the configuration is there ...
Cached(t) ==
    /\ pc[t] = "lookup"
    /\ cached # NoConfig
    /\ config' = [config EXCEPT ![t] = cached]
    /\ current' = current \cup {t}
    /\ Goto(t, "built")
    /\ UNCHANGED <<root, cached, device, overlapped, madeFor>>

\* ... or it has to be computed.
Missing(t) ==
    /\ pc[t] = "lookup"
    /\ cached = NoConfig
    /\ Goto(t, "nvccPath")
    /\ UNCHANGED <<root, cached, device, config, current, overlapped, madeFor>>

\* nvcc_path
NvccPath(t) ==
    LET nvcc == IF EnvNvcc # NoRoot THEN EnvNvcc ELSE root IN
    /\ pc[t] = "nvccPath"
    /\ config' = [config EXCEPT ![t] = [nvcc |-> nvcc, include |-> NoRoot, arch |-> "none"]]
    /\ Goto(t, "flags")
    /\ UNCHANGED <<root, cached, device, current, overlapped, madeFor>>

\* compiler_flags: nvcc_version and current_device_info, then the paths.
CompilerFlags(t) ==
    LET version == VersionOf[config[t].nvcc] IN
    /\ pc[t] = "flags"
    /\ version # "< 12.3"
    /\ config' = [config EXCEPT ![t] = [@ EXCEPT
            !.include = root,
            !.arch = NvccArch(CapabilityOf[device[t]], version)]]
    /\ Goto(t, "store")
    /\ UNCHANGED <<root, cached, device, current, overlapped, madeFor>>

\* nvcc is too old, or nvcc or the driver fails: compiler_flags throws.
CompilerFlagsThrow(t) ==
    /\ pc[t] = "flags"
    /\ config' = [config EXCEPT ![t] = NoConfig]
    /\ Goto(t, "idle")
    /\ UNCHANGED <<root, cached, device, current, overlapped, madeFor>>

\* The first of the threads that computed a configuration decides.
\* (mutant: each thread returns the one it computed)
StoreOwn(t) ==
    /\ pc[t] = "store"
    /\ cached' = config[t]
    /\ current' = current \cup {t}
    /\ Goto(t, "built")
    /\ UNCHANGED <<root, device, config, overlapped, madeFor>>
Store(t) ==
    /\ pc[t] = "store"
    /\ cached' = IF cached = NoConfig THEN config[t] ELSE cached
    /\ config' = [config EXCEPT ![t] = cached']
    /\ current' = current \cup {t}
    /\ madeFor' = IF cached = NoConfig THEN device[t] ELSE madeFor
    /\ Goto(t, "built")
    /\ UNCHANGED <<root, device, overlapped>>

\* The kernel is compiled, or found, and launched.
Launched(t) ==
    /\ pc[t] = "built"
    /\ config' = [config EXCEPT ![t] = NoConfig]
    /\ Goto(t, "idle")
    /\ UNCHANGED <<root, cached, device, current, overlapped, madeFor>>

Next == \E t \in Thread :
    \/ \E d \in Device : SetDevice(t, d)
    \/ \E r \in Root : RuntimeInit(t, r)
    \/ BuildKernel(t) \/ Cached(t) \/ Missing(t) \/ NvccPath(t)
    \/ CompilerFlags(t) \/ CompilerFlagsThrow(t) \/ Store(t) \/ Launched(t)

Spec == Init /\ [][Next]_vars

-----------------------------------------------------------------------------
(* Properties *)

TypeOK ==
    /\ root \in Root \cup {NoRoot}
    /\ cached \in Config \cup {NoConfig}
    /\ pc \in [Thread -> {"idle", "lookup", "nvccPath", "flags", "store", "built"}]
    /\ device \in [Thread -> Device]
    /\ config \in [Thread -> Config \cup Draft \cup {NoConfig}]
    /\ \A t \in Thread :
        /\ pc[t] \in {"store", "built"} => config[t] \in Config
        /\ pc[t] = "flags" => config[t] \in Draft
    /\ current \subseteq Thread
    /\ overlapped \in BOOLEAN
    /\ madeFor \in Device

Given(t) == pc[t] = "built"

\* All kernels built since the last deepgemm_init are built with one and the
\* same configuration, however many threads compute one at the same time: the
\* cubins of a process do not mix compilers.
OneConfigPerInit ==
    \A t \in Thread : Given(t) /\ t \in current => config[t] = cached

\* A configuration runs on the device of the thread it is given to.
RunsOnDevice == \A t \in Thread :
    Given(t) => CapabilityOf[device[t]] \in RunsOn(config[t].arch)

\* The compute capabilities that share code: each with itself, and 10.0 with
\* 10.3 once nvcc has a flag for the family (before, it has none for 10.3).
Alike(c, d, version) ==
    \/ c = d /\ c # "10.3"
    \/ {c, d} \subseteq {"10.0", "10.3"} /\ version = ">= 12.9"

\* In a process that mixes devices, kernels built since the last deepgemm_init
\* run on every device that is like that of the thread whose configuration was
\* stored, though threads on other kinds of device computed one at the same time.
RunsLikeFirst == \A t \in Thread :
    /\ Given(t) /\ t \in current
    /\ Alike(CapabilityOf[device[t]], CapabilityOf[madeFor], VersionOf[config[t].nvcc])
    => CapabilityOf[device[t]] \in RunsOn(config[t].arch)

\* Kernels are built with the compiler and the headers of the toolkit that
\* deepgemm_init was last called with, unless the environment names an nvcc.
ConfigOfLastInit ==
    cached # NoConfig => /\ cached.nvcc = IF EnvNvcc = NoRoot THEN root ELSE EnvNvcc
                         /\ cached.include = root

\* It is so at least from a deepgemm_init on that comes while no thread
\* computes a configuration: what threads were building before with the old
\* one, or begin to look up, does not bring it back.
ConfigOfQuietInit == ~overlapped => ConfigOfLastInit

=============================================================================
