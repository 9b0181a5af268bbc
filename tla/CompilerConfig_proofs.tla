------------------------ MODULE CompilerConfig_proofs ------------------------
(***************************************************************************)
(* Theorems about CompilerConfig: the threads of a process agree on one     *)
(* configuration per deepgemm_init, and it is that of the last one unless   *)
(* it was called while one was being computed.                              *)
(***************************************************************************)
EXTENDS CompilerConfig, TLAPS

\* The architecture flag nvcc_arch returns is one of those listed.
LEMMA NvccArchTyped ==
    ASSUME NEW capability \in Capability, NEW version \in Version
    PROVE  NvccArch(capability, version) \in ArchFlag
  BY DEF NvccArch, ArchFlag

\* Past runtime_is_initialized there is a root, and a configuration being
\* computed has what its step has filled in.
RootInv == (cached # NoConfig \/ \E t \in Thread : pc[t] # "idle") => root # NoRoot

LEMMA DraftTyped ==
    ASSUME TypeOK, root # NoRoot
    PROVE  [nvcc |-> IF EnvNvcc # NoRoot THEN EnvNvcc ELSE root,
            include |-> NoRoot, arch |-> "none"] \in Draft
  BY ConfigAssumption DEF TypeOK, Draft

LEMMA TypeStep ==
    ASSUME TypeOK, RootInv, [Next]_vars
    PROVE  (TypeOK /\ RootInv)'
<1> USE DEF Goto, RootInv
<1>1. ASSUME NEW t \in Thread, NEW d \in Device, SetDevice(t, d)
      PROVE  (TypeOK /\ RootInv)'
  BY <1>1 DEF SetDevice, TypeOK
<1>2. ASSUME NEW t \in Thread, NEW r \in Root, RuntimeInit(t, r)
      PROVE  (TypeOK /\ RootInv)'
  BY <1>2, ConfigAssumption DEF RuntimeInit, TypeOK
<1>3. ASSUME NEW t \in Thread, BuildKernel(t) PROVE (TypeOK /\ RootInv)'
  BY <1>3 DEF BuildKernel, TypeOK
<1>4. ASSUME NEW t \in Thread, Cached(t) PROVE (TypeOK /\ RootInv)'
  BY <1>4 DEF Cached, TypeOK
<1>5. ASSUME NEW t \in Thread, Missing(t) PROVE (TypeOK /\ RootInv)'
  BY <1>5 DEF Missing, TypeOK
<1>6. ASSUME NEW t \in Thread, NvccPath(t) PROVE (TypeOK /\ RootInv)'
  BY <1>6, DraftTyped DEF NvccPath, TypeOK
<1>7. ASSUME NEW t \in Thread, CompilerFlags(t) PROVE (TypeOK /\ RootInv)'
  <2> DEFINE flag == NvccArch(CapabilityOf[device[t]], VersionOf[config[t].nvcc])
  <2>1. config[t] \in Draft /\ config[t].nvcc \in Root /\ root \in Root
    BY <1>7 DEF CompilerFlags, TypeOK, Draft
  <2>2. flag \in ArchFlag
    BY <2>1, NvccArchTyped, ConfigAssumption DEF TypeOK
  <2>3. config' = [config EXCEPT ![t] = [@ EXCEPT !.include = root, !.arch = flag]]
    BY <1>7 DEF CompilerFlags
  <2> HIDE DEF flag
  <2>4. [config[t] EXCEPT !.include = root, !.arch = flag] \in Config
    BY <2>1, <2>2 DEF Draft, Config
  <2>5. QED BY <1>7, <2>3, <2>4 DEF CompilerFlags, TypeOK
<1>8. ASSUME NEW t \in Thread, CompilerFlagsThrow(t) PROVE (TypeOK /\ RootInv)'
  BY <1>8 DEF CompilerFlagsThrow, TypeOK
<1>9. ASSUME NEW t \in Thread, Store(t) PROVE (TypeOK /\ RootInv)'
  BY <1>9, NoConfigAssumption DEF Store, TypeOK
<1>10. ASSUME NEW t \in Thread, Launched(t) PROVE (TypeOK /\ RootInv)'
  BY <1>10 DEF Launched, TypeOK
<1>11. CASE UNCHANGED vars
  BY <1>11 DEF vars, TypeOK
<1>12. QED
  BY <1>1, <1>2, <1>3, <1>4, <1>5, <1>6, <1>7, <1>8, <1>9, <1>10, <1>11 DEF Next

LEMMA TypeInit == Init => TypeOK /\ RootInv
<1>1. (CHOOSE d \in Device : TRUE) \in Device
  BY ConfigAssumption
<1>2. QED BY <1>1 DEF Init, TypeOK, RootInv

\* No kernel is built before deepgemm_init, so every configuration given out
\* has a compiler, headers and an architecture.
THEOREM TypeCorrect == Spec => []TypeOK
<1>1. TypeOK /\ RootInv /\ [Next]_vars => (TypeOK /\ RootInv)'
  BY TypeStep
<1>2. QED BY <1>1, TypeInit, PTL DEF Spec

-----------------------------------------------------------------------------
LEMMA AgreementStep ==
    ASSUME TypeOK, OneConfigPerInit, cached # NoConfig \/ current = {}, [Next]_vars
    PROVE  (OneConfigPerInit /\ (cached # NoConfig \/ current = {}))'
<1> USE NoConfigAssumption DEF Goto, OneConfigPerInit, Given
<1>1. ASSUME NEW t \in Thread, NEW r \in Root, RuntimeInit(t, r)
      PROVE  (OneConfigPerInit /\ (cached # NoConfig \/ current = {}))'
  BY <1>1 DEF RuntimeInit
<1>2. ASSUME NEW t \in Thread, Cached(t) \/ Store(t)
      PROVE  (OneConfigPerInit /\ (cached # NoConfig \/ current = {}))'
  <2>1. cached' # NoConfig /\ config'[t] = cached'
    BY <1>2 DEF Cached, Store, TypeOK
  <2>2. ASSUME NEW u \in Thread, u # t, Given(u)', u \in current'
        PROVE  config'[u] = cached'
    <3>1. Given(u) /\ u \in current /\ config'[u] = config[u]
      BY <1>2, <2>2 DEF Cached, Store, TypeOK
    <3>2. cached # NoConfig /\ cached' = cached
      BY <1>2, <3>1 DEF Cached, Store
    <3>3. QED BY <3>1, <3>2
  <2>3. QED BY <2>1, <2>2
<1>3. ASSUME NEW t \in Thread, NEW d \in Device, SetDevice(t, d)
      PROVE  (OneConfigPerInit /\ (cached # NoConfig \/ current = {}))'
  BY <1>3 DEF SetDevice
<1>4. ASSUME NEW t \in Thread,
             BuildKernel(t) \/ Missing(t) \/ NvccPath(t) \/ CompilerFlags(t)
                \/ CompilerFlagsThrow(t) \/ Launched(t)
      PROVE  (OneConfigPerInit /\ (cached # NoConfig \/ current = {}))'
  <2>1. pc'[t] # "built" /\ UNCHANGED <<cached, current>>
    BY <1>4 DEF BuildKernel, Missing, NvccPath, CompilerFlags, CompilerFlagsThrow,
       Launched, TypeOK
  <2>2. ASSUME NEW u \in Thread, u # t PROVE pc'[u] = pc[u] /\ config'[u] = config[u]
    BY <1>4, <2>2 DEF BuildKernel, Missing, NvccPath, CompilerFlags,
       CompilerFlagsThrow, Launched, TypeOK
  <2>3. QED BY <2>1, <2>2
<1>5. CASE UNCHANGED vars
  BY <1>5 DEF vars
<1>6. QED BY <1>1, <1>2, <1>3, <1>4, <1>5 DEF Next

\* However many threads compute a configuration at the same time, all kernels
\* built since the last deepgemm_init are built with one and the same.
THEOREM OneConfig == Spec => []OneConfigPerInit
<1>1. Init => OneConfigPerInit /\ (cached # NoConfig \/ current = {})
  BY DEF Init, OneConfigPerInit
<1>2. QED BY <1>1, TypeCorrect, AgreementStep, PTL DEF Spec

-----------------------------------------------------------------------------
\* What threads have computed since a deepgemm_init that overlapped none.
FreshInv ==
    ~overlapped =>
        /\ ConfigOfLastInit
        /\ \A t \in Thread :
            /\ Computing(t) =>
                   config[t].nvcc = IF EnvNvcc = NoRoot THEN root ELSE EnvNvcc
            /\ pc[t] = "store" => config[t].include = root

LEMMA FreshStep ==
    ASSUME TypeOK, RootInv, FreshInv, [Next]_vars
    PROVE  FreshInv'
<1> USE NoConfigAssumption DEF Goto, FreshInv, ConfigOfLastInit, Computing
<1>1. ASSUME NEW t \in Thread, NEW r \in Root, RuntimeInit(t, r) PROVE FreshInv'
  BY <1>1 DEF RuntimeInit
<1>2. ASSUME NEW t \in Thread, CompilerFlags(t) PROVE FreshInv'
  <2> DEFINE flag == NvccArch(CapabilityOf[device[t]], VersionOf[config[t].nvcc])
  <2>1. /\ config[t] \in Draft /\ pc[t] = "flags"
        /\ config' = [config EXCEPT ![t] = [@ EXCEPT !.include = root, !.arch = flag]]
        /\ pc' = [pc EXCEPT ![t] = "store"] /\ UNCHANGED <<root, cached, overlapped>>
    BY <1>2 DEF CompilerFlags, TypeOK
  <2> HIDE DEF flag
  <2>2. config'[t].include = root /\ config'[t].nvcc = config[t].nvcc
    BY <2>1 DEF Draft, TypeOK
  <2>3. ASSUME NEW u \in Thread, u # t PROVE pc'[u] = pc[u] /\ config'[u] = config[u]
    BY <2>1, <2>3 DEF TypeOK
  <2>4. QED BY <2>1, <2>2, <2>3
<1>3. ASSUME NEW t \in Thread, NvccPath(t) PROVE FreshInv'
  BY <1>3 DEF NvccPath, TypeOK
<1>4. ASSUME NEW t \in Thread, Store(t) PROVE FreshInv'
  BY <1>4 DEF Store, TypeOK
<1>5. ASSUME NEW t \in Thread,
             (\E d \in Device : SetDevice(t, d)) \/ BuildKernel(t) \/ Cached(t)
                \/ Missing(t) \/ CompilerFlagsThrow(t) \/ Launched(t)
      PROVE  FreshInv'
  <2>1. /\ pc'[t] \notin {"flags", "store"} \/ (pc'[t] = pc[t] /\ config' = config)
        /\ UNCHANGED <<cached, root, overlapped>>
    BY <1>5 DEF SetDevice, BuildKernel, Cached, Missing, CompilerFlagsThrow, Launched, TypeOK
  <2>2. ASSUME NEW u \in Thread, u # t PROVE pc'[u] = pc[u] /\ config'[u] = config[u]
    BY <1>5, <2>2 DEF SetDevice, BuildKernel, Cached, Missing, CompilerFlagsThrow,
       Launched, TypeOK
  <2>3. QED BY <2>1, <2>2
<1>6. CASE UNCHANGED vars
  BY <1>6 DEF vars
<1>7. QED BY <1>1, <1>2, <1>3, <1>4, <1>5, <1>6 DEF Next

\* From a deepgemm_init on that overlaps no computation, kernels are built with
\* the compiler and the headers it was given.
THEOREM LastInitDecides == Spec => []ConfigOfQuietInit
<1>1. Init => FreshInv
  BY DEF Init, FreshInv, ConfigOfLastInit, Computing
<1>2. TypeOK /\ RootInv /\ FreshInv /\ [Next]_vars => (TypeOK /\ RootInv /\ FreshInv)'
  BY TypeStep, FreshStep
<1>3. FreshInv => ConfigOfQuietInit
  BY DEF FreshInv, ConfigOfQuietInit
<1>4. QED BY <1>1, <1>2, <1>3, TypeInit, PTL DEF Spec

-----------------------------------------------------------------------------
(***************************************************************************)
(* Devices.  The configuration is computed for the device of one thread and *)
(* given to all, so code runs on the devices that are like that one.        *)
(***************************************************************************)

\* A configuration that compiler_flags computed on a device.
MadeOn(c, d) ==
    /\ c.nvcc \in Root /\ VersionOf[c.nvcc] # "< 12.3"
    /\ c.arch = NvccArch(CapabilityOf[d], VersionOf[c.nvcc])

DevicesInv ==
    /\ cached # NoConfig => MadeOn(cached, madeFor)
    /\ \A t \in Thread : pc[t] = "store" => MadeOn(config[t], device[t])

\* nvcc_arch gives devices that are alike a flag that covers both.
LEMMA AlikeRuns ==
    ASSUME NEW c, NEW d \in Device, NEW e \in Device, MadeOn(c, d),
           Alike(CapabilityOf[e], CapabilityOf[d], VersionOf[c.nvcc])
    PROVE  CapabilityOf[e] \in RunsOn(c.arch)
<1>1. \A v \in Version : /\ NvccArch("9.0", v) = "90a" /\ NvccArch("10.1", v) = "101a"
                         /\ NvccArch("10.0", v) \in {"100a", "100f"}
  BY DEF NvccArch
<1>2. /\ NvccArch("10.0", ">= 12.9") = "100f" /\ NvccArch("10.3", ">= 12.9") = "100f"
  BY DEF NvccArch
<1>3. /\ RunsOn("90a") = {"9.0"} /\ RunsOn("100a") = {"10.0"}
      /\ RunsOn("100f") = {"10.0", "10.3"} /\ RunsOn("101a") = {"10.1"}
  BY DEF RunsOn
<1>4. /\ VersionOf[c.nvcc] \in Version /\ CapabilityOf[e] \in Capability
      /\ CapabilityOf[d] \in Capability /\ c.arch = NvccArch(CapabilityOf[d], VersionOf[c.nvcc])
  BY ConfigAssumption DEF MadeOn
<1>5. CASE CapabilityOf[e] = CapabilityOf[d] /\ CapabilityOf[e] # "10.3"
  BY <1>1, <1>3, <1>4, <1>5 DEF Capability
<1>6. CASE /\ {CapabilityOf[e], CapabilityOf[d]} \subseteq {"10.0", "10.3"}
           /\ VersionOf[c.nvcc] = ">= 12.9"
  BY <1>2, <1>3, <1>4, <1>6
<1>7. QED BY <1>5, <1>6 DEF Alike

LEMMA DevicesStep ==
    ASSUME TypeOK, DevicesInv, [Next]_vars
    PROVE  DevicesInv'
<1> USE NoConfigAssumption DEF Goto, DevicesInv
<1>1. ASSUME NEW t \in Thread, CompilerFlags(t) PROVE DevicesInv'
  <2> DEFINE flag == NvccArch(CapabilityOf[device[t]], VersionOf[config[t].nvcc])
  <2>1. config[t] \in Draft /\ config[t].nvcc \in Root /\ device[t] \in Device
    BY <1>1 DEF CompilerFlags, TypeOK, Draft
  <2>2. /\ config' = [config EXCEPT ![t] = [@ EXCEPT !.include = root, !.arch = flag]]
        /\ pc' = [pc EXCEPT ![t] = "store"] /\ UNCHANGED <<cached, device, madeFor>>
        /\ VersionOf[config[t].nvcc] # "< 12.3"
    BY <1>1 DEF CompilerFlags
  <2>3. flag = NvccArch(CapabilityOf[device[t]], VersionOf[config[t].nvcc])
    OBVIOUS
  <2> HIDE DEF flag
  <2>4. config'[t].arch = flag /\ config'[t].nvcc = config[t].nvcc
    BY <2>1, <2>2 DEF Draft, TypeOK
  <2>5. MadeOn(config'[t], device'[t])
    BY <2>1, <2>2, <2>3, <2>4 DEF MadeOn
  <2>6. ASSUME NEW u \in Thread, u # t PROVE pc'[u] = pc[u] /\ config'[u] = config[u]
    BY <2>2, <2>6 DEF TypeOK
  <2>7. QED BY <2>2, <2>5, <2>6
<1>2. ASSUME NEW t \in Thread, Store(t) PROVE DevicesInv'
  <2>1. /\ pc[t] = "store" /\ device' = device /\ MadeOn(config[t], device[t])
        /\ cached' = (IF cached = NoConfig THEN config[t] ELSE cached)
        /\ madeFor' = IF cached = NoConfig THEN device[t] ELSE madeFor
    BY <1>2 DEF Store
  <2>2. MadeOn(cached', madeFor')
    BY <2>1
  <2>3. pc'[t] # "store"
    BY <1>2 DEF Store, TypeOK
  <2>4. ASSUME NEW u \in Thread, u # t PROVE pc'[u] = pc[u] /\ config'[u] = config[u]
    BY <1>2, <2>4 DEF Store, TypeOK
  <2>5. QED BY <2>1, <2>2, <2>3, <2>4
<1>3. ASSUME NEW t \in Thread,
             \/ (\E d \in Device : SetDevice(t, d)) \/ (\E r \in Root : RuntimeInit(t, r))
             \/ BuildKernel(t) \/ Cached(t) \/ Missing(t) \/ NvccPath(t)
             \/ CompilerFlagsThrow(t) \/ Launched(t)
      PROVE  DevicesInv'
  <2>1. /\ \/ pc'[t] # "store"
           \/ pc'[t] = pc[t] /\ config' = config /\ device' = device
        /\ cached' \in {cached, NoConfig} /\ madeFor' = madeFor
    BY <1>3 DEF SetDevice, RuntimeInit, BuildKernel, Cached, Missing, NvccPath,
       CompilerFlagsThrow, Launched, TypeOK
  <2>2. ASSUME NEW u \in Thread, u # t
        PROVE  pc'[u] = pc[u] /\ config'[u] = config[u] /\ device'[u] = device[u]
    BY <1>3, <2>2 DEF SetDevice, RuntimeInit, BuildKernel, Cached, Missing, NvccPath,
       CompilerFlagsThrow, Launched, TypeOK
  <2>3. QED BY <2>1, <2>2
<1>4. CASE UNCHANGED vars
  BY <1>4 DEF vars
<1>5. QED BY <1>1, <1>2, <1>3, <1>4 DEF Next

\* Whatever devices a process mixes, and however many threads compute a
\* configuration for theirs at the same time: kernels built since the last
\* deepgemm_init run on the device of their launch whenever that is like the
\* device of the thread whose configuration was stored.
THEOREM RunsWithFirst == Spec => []RunsLikeFirst
<1>1. Init => DevicesInv
  BY DEF Init, DevicesInv
<1>2. TypeOK /\ DevicesInv /\ [Next]_vars => DevicesInv'
  BY DevicesStep
<1>3. TypeOK /\ DevicesInv /\ OneConfigPerInit => RunsLikeFirst
  <2> SUFFICES ASSUME TypeOK, DevicesInv, OneConfigPerInit, NEW t \in Thread,
                      Given(t), t \in current,
                      Alike(CapabilityOf[device[t]], CapabilityOf[madeFor],
                            VersionOf[config[t].nvcc])
               PROVE  CapabilityOf[device[t]] \in RunsOn(config[t].arch)
    BY DEF RunsLikeFirst
  <2>1. config[t] = cached /\ config[t] \in Config
    BY DEF OneConfigPerInit, TypeOK, Given
  <2>2. MadeOn(config[t], madeFor)
    BY <2>1, NoConfigAssumption DEF DevicesInv
  <2>3. device[t] \in Device /\ madeFor \in Device
    BY DEF TypeOK
  <2>4. QED BY <2>2, <2>3, AlikeRuns
<1>4. QED BY <1>1, <1>2, <1>3, OneConfig, TypeCorrect, PTL DEF Spec
=============================================================================
