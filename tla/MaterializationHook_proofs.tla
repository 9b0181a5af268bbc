---------------------- MODULE MaterializationHook_proofs ----------------------
(***************************************************************************)
(* Proofs about MaterializationHook: its types, that a replaced hook is     *)
(* silent whatever the threads register, and that a registered hook is told *)
(* of every load and compile unless its registration overlapped another.    *)
(***************************************************************************)
EXTENDS MaterializationHook, SequenceTheorems, TLAPS

Phase == {"start", "finish"}

\* The last scope of t began, and everything since then happened, while the
\* last registered hook was in the Mutex and no registration was under way.
Quiet == \A t \in Thread : steady[t] # {} =>
    /\ \A u \in Thread : ~Registering(u)
    /\ ~poisoned
    /\ steady[t] = {last}

\* The Mutex holds what was stored last and is never locked between two steps.
InMutex == locked = NoThread /\ (~poisoned => closure = last)

\* A callback that is about to call a hook cloned the one that is registered.
ClonedLast == \A t \in Thread :
    pc[t] = "call" /\ steady[t] # {} => held[t] \in steady[t]

SilentInv == Quiet /\ InMutex /\ ClonedLast /\ ReplacedHookIsSilent

\* When the last registration was alone: the native pointer, or what is about
\* to become it, agrees with the Mutex, and no second registration is under way.
InStep == ~raced =>
    /\ (~poisoned /\ \A u \in Thread : ~Registering(u)) => (native <=> closure # NoHook)
    /\ \A u \in Thread : pc[u] = "pass" /\ ~poisoned => (callback[u] <=> closure # NoHook)
    /\ \A u, v \in Thread : Registering(u) /\ Registering(v) => u = v

\* What the steady hook h has been told, by the point t has reached.
Told(t, h) ==
    /\ event[t] = "start" /\ pc[t] \in {"emit", "clone", "call"} => seen[t] = <<>>
    /\ event[t] = "start" /\ pc[t] \in {"hook", "return"} => seen[t] = <<<<h, "start">>>>
    /\ event[t] = "finish" /\ pc[t] \in {"work", "emit", "clone", "call"} =>
            seen[t] = <<<<h, "start">>>>
    /\ (event[t] = "finish" /\ pc[t] \in {"hook", "return"}) \/ pc[t] = "idle" =>
            seen[t] = <<<<h, "start">>, <<h, "finish">>>>
    /\ pc[t] = "work" => event[t] = "finish"
    /\ pc[t] # "idle" => event[t] \in Phase

ToldInv == ~raced => \A t \in Thread, h \in Hook : steady[t] = {h} => Told(t, h)

-----------------------------------------------------------------------------
\* A callback calls a hook only if it found one.
HasHook == \A t \in Thread : pc[t] = "call" => held[t] \in Hook

\* A thread that is reporting, or runs a hook, has an event to report.
HasEvent == \A t \in Thread :
    pc[t] # "idle" /\ (Registering(t) => back[t] = "hook") => event[t] \in Phase

LEMMA NextCases ==
    ASSUME NEW P,
           ASSUME NEW t \in Thread, Register(t) PROVE P,
           ASSUME NEW t \in Thread, BeginScope(t) PROVE P,
           ASSUME NEW t \in Thread, NEW h \in Option, StoreClosure(t, h) PROVE P,
           ASSUME NEW t \in Thread, NEW h \in Option, StorePanics(t, h) PROVE P,
           ASSUME NEW t \in Thread, PassCallback(t) PROVE P,
           ASSUME NEW t \in Thread, Work(t) PROVE P,
           ASSUME NEW t \in Thread, Emit(t) PROVE P,
           ASSUME NEW t \in Thread, CloneClosure(t) PROVE P,
           ASSUME NEW t \in Thread, CallHook(t) PROVE P,
           ASSUME NEW t \in Thread, HookEnds(t) PROVE P,
           ASSUME NEW t \in Thread, HookReturns(t) PROVE P,
           ASSUME UNCHANGED vars PROVE P,
           [Next]_vars
    PROVE  P
  BY DEF Next, Step, Store

TypesOfStep == TypeOK /\ HasHook /\ HasEvent

LEMMA TypesInit == Init => TypesOfStep
<1> SUFFICES ASSUME Init PROVE TypesOfStep
  OBVIOUS
<1> USE HookAssumption DEF Init, Option
<1>1. seen \in [Thread -> Seq(Hook \X {"start", "finish"})]
  <2>1. <<>> \in Seq(Hook \X {"start", "finish"})
    OBVIOUS
  <2>2. QED
    BY <2>1
<1>2. TypeOK
  BY <1>1 DEF TypeOK
<1>3. HasHook /\ HasEvent
  BY DEF HasHook, HasEvent
<1>4. QED
  BY <1>2, <1>3 DEF TypesOfStep

LEMMA TypesStep == TypesOfStep /\ [Next]_vars => TypesOfStep'
<1> SUFFICES ASSUME TypesOfStep, [Next]_vars PROVE TypesOfStep'
  OBVIOUS
<1> USE HookAssumption DEF TypesOfStep, TypeOK, HasHook, HasEvent, Registering, Phase,
         Option, registration, Goto
<1>1. ASSUME NEW t \in Thread, Register(t) PROVE TypesOfStep'
  BY <1>1 DEF Register
<1>2. ASSUME NEW t \in Thread, BeginScope(t) PROVE TypesOfStep'
  <2>1. <<>> \in Seq(Hook \X {"start", "finish"})
    OBVIOUS
  <2>2. seen' \in [Thread -> Seq(Hook \X {"start", "finish"})]
    BY <1>2, <2>1 DEF BeginScope
  <2>3. QED
    BY <1>2, <2>2 DEF BeginScope
<1>3. ASSUME NEW t \in Thread, NEW h \in Option, StoreClosure(t, h) PROVE TypesOfStep'
  BY <1>3 DEF StoreClosure
<1>4. ASSUME NEW t \in Thread, NEW h \in Option, StorePanics(t, h) PROVE TypesOfStep'
  BY <1>4 DEF StorePanics
<1>5. ASSUME NEW t \in Thread, PassCallback(t) PROVE TypesOfStep'
  BY <1>5 DEF PassCallback
<1>6. ASSUME NEW t \in Thread, Work(t) PROVE TypesOfStep'
  BY <1>6 DEF Work
<1>7. ASSUME NEW t \in Thread, Emit(t) PROVE TypesOfStep'
  BY <1>7 DEF Emit, Reported
<1>8. ASSUME NEW t \in Thread, CloneClosure(t) PROVE TypesOfStep'
  <2>1. CASE HasClosure
    <3> USE DEF CloneClosure, LockedInHook
    <3>1. closure \in Hook
      BY <2>1 DEF HasClosure
    <3>2. /\ pc' = [pc EXCEPT ![t] = "call"]
          /\ held' = [held EXCEPT ![t] = closure]
          /\ locked' = NoThread
          /\ UNCHANGED <<registration, event, seen, steady>>
      BY <1>8, <2>1
    <3>3. TypeOK'
      BY <3>1, <3>2
    <3>4. HasHook'
      BY <3>1, <3>2
    <3>5. HasEvent'
      BY <1>8, <3>2
    <3>6. QED
      BY <3>3, <3>4, <3>5
  <2>2. CASE ~HasClosure
    <3> USE DEF CloneClosure, Reported
    <3>1. TypeOK'
      BY <1>8, <2>2
    <3>2. HasHook'
      BY <1>8, <2>2
    <3>3. HasEvent'
      BY <1>8, <2>2
    <3>4. QED
      BY <3>1, <3>2, <3>3
  <2>3. QED
    BY <2>1, <2>2
<1>9. ASSUME NEW t \in Thread, CallHook(t) PROVE TypesOfStep'
  <2>1. <<held[t], event[t]>> \in Hook \X {"start", "finish"}
    BY <1>9 DEF CallHook
  <2>2. Append(seen[t], <<held[t], event[t]>>) \in Seq(Hook \X {"start", "finish"})
    BY <2>1
  <2>3. seen' \in [Thread -> Seq(Hook \X {"start", "finish"})]
    BY <1>9, <2>2 DEF CallHook
  <2>4. QED
    BY <1>9, <2>3 DEF CallHook
<1>10. ASSUME NEW t \in Thread, HookEnds(t) PROVE TypesOfStep'
  BY <1>10 DEF HookEnds
<1>11. ASSUME NEW t \in Thread, HookReturns(t) PROVE TypesOfStep'
  BY <1>11 DEF HookReturns, Reported
<1>12. ASSUME UNCHANGED vars PROVE TypesOfStep'
  BY <1>12 DEF vars
<1>13. QED
  BY <1>1, <1>2, <1>3, <1>4, <1>5, <1>6, <1>7, <1>8, <1>9, <1>10, <1>11, <1>12,
     NextCases

\* Every variable keeps its type, whatever is registered and reported.
THEOREM TypeCorrect == Spec => []TypeOK
<1>1. TypesOfStep => TypeOK
  BY DEF TypesOfStep
<1>2. QED
  BY <1>1, TypesInit, TypesStep, PTL DEF Spec

-----------------------------------------------------------------------------
LEMMA SilentInit == Init => SilentInv
BY DEF Init, SilentInv, Quiet, InMutex, ClonedLast, ReplacedHookIsSilent

LEMMA SilentStep == TypesOfStep /\ SilentInv /\ [Next]_vars => SilentInv'
<1> SUFFICES ASSUME TypesOfStep, SilentInv, [Next]_vars PROVE SilentInv'
  OBVIOUS
<1> USE HookAssumption
    DEF SilentInv, Quiet, InMutex, ClonedLast, ReplacedHookIsSilent, TypesOfStep,
        TypeOK, Registering, Option, registration, Goto
<1>1. ASSUME NEW t \in Thread, Register(t) PROVE SilentInv'
  BY <1>1 DEF Register
<1>2. ASSUME NEW t \in Thread, BeginScope(t) PROVE SilentInv'
  <2> USE DEF BeginScope
  <2>1. Quiet'
    BY <1>2
  <2>2. InMutex'
    BY <1>2
  <2>3. ClonedLast'
    BY <1>2
  <2>4. ReplacedHookIsSilent'
    <3>1. seen' = [seen EXCEPT ![t] = <<>>] /\ \A u \in Thread \ {t} : steady'[u] = steady[u]
      BY <1>2
    <3>2. seen'[t] = <<>>
      BY <3>1
    <3>3. SUFFICES ASSUME NEW u \in Thread, steady'[u] # {},
                          NEW i \in 1..Len(seen'[u])
                   PROVE  seen'[u][i][1] \in steady'[u]
      OBVIOUS
    <3>4. CASE u = t
      BY <3>2, <3>3, <3>4
    <3>5. CASE u # t
      BY <3>1, <3>3, <3>5
    <3>6. QED
      BY <3>4, <3>5
  <2>5. QED
    BY <2>1, <2>2, <2>3, <2>4
<1>3. ASSUME NEW t \in Thread, NEW h \in Option, StoreClosure(t, h) PROVE SilentInv'
  BY <1>3 DEF StoreClosure
<1>4. ASSUME NEW t \in Thread, NEW h \in Option, StorePanics(t, h) PROVE SilentInv'
  BY <1>4 DEF StorePanics
<1>5. ASSUME NEW t \in Thread, PassCallback(t) PROVE SilentInv'
  BY <1>5 DEF PassCallback
<1>6. ASSUME NEW t \in Thread, Work(t) PROVE SilentInv'
  BY <1>6 DEF Work
<1>7. ASSUME NEW t \in Thread, Emit(t) PROVE SilentInv'
  BY <1>7 DEF Emit, Reported
<1>8. ASSUME NEW t \in Thread, CloneClosure(t) PROVE SilentInv'
  <2> USE DEF CloneClosure, HasClosure, LockedInHook, Reported
  <2>1. Quiet'
    BY <1>8
  <2>2. InMutex'
    BY <1>8
  <2>3. ClonedLast'
    <3>1. CASE HasClosure
      <4>1. /\ pc' = [pc EXCEPT ![t] = "call"]
            /\ held' = [held EXCEPT ![t] = closure]
            /\ steady' = steady
        BY <1>8, <3>1
      <4>2. steady[t] # {} => closure \in steady[t]
        BY <3>1
      <4>3. QED
        BY <4>1, <4>2
    <3>2. CASE ~HasClosure
      <4>1. /\ \A u \in Thread : pc'[u] = "call" => pc[u] = "call"
            /\ steady' = steady
            /\ held' = held
        BY <1>8, <3>2
      <4>2. QED
        BY <4>1
    <3>3. QED
      BY <3>1, <3>2
  <2>4. ReplacedHookIsSilent'
    BY <1>8
  <2>5. QED
    BY <2>1, <2>2, <2>3, <2>4
<1>9. ASSUME NEW t \in Thread, CallHook(t) PROVE SilentInv'
  <2> USE DEF CallHook
  <2>1. Quiet'
    BY <1>9
  <2>2. InMutex'
    BY <1>9
  <2>3. ClonedLast'
    BY <1>9
  <2>4. ReplacedHookIsSilent'
    <3>1. /\ IF steady[t] = {} THEN seen' = seen
             ELSE seen' = [seen EXCEPT ![t] = Append(seen[t], <<held[t], event[t]>>)]
          /\ steady' = steady
          /\ pc[t] = "call"
      BY <1>9
    <3>2. SUFFICES ASSUME NEW u \in Thread, steady[u] # {},
                          NEW i \in 1..Len(seen'[u])
                   PROVE  seen'[u][i][1] \in steady[u]
      BY <3>1
    <3>3. CASE u # t
      BY <3>1, <3>2, <3>3
    <3>4. CASE u = t
      <4>1. seen[t] \in Seq(Hook \X {"start", "finish"})
        OBVIOUS
      <4>2. seen'[t] = Append(seen[t], <<held[t], event[t]>>)
        BY <3>1, <3>2, <3>4
      <4>3. Len(seen'[t]) = Len(seen[t]) + 1 /\ Len(seen[t]) \in Nat
        BY <4>1, <4>2
      <4>4. CASE i = Len(seen[t]) + 1
        <5>1. seen'[t][i] = <<held[t], event[t]>>
          BY <4>1, <4>2, <4>4
        <5>2. QED
          BY <5>1, <3>1, <3>2, <3>4
      <4>5. CASE i \in 1..Len(seen[t])
        <5>1. seen'[t][i] = seen[t][i]
          BY <4>1, <4>2, <4>5
        <5>2. QED
          BY <5>1, <4>5, <3>2, <3>4
      <4>6. QED
        BY <4>3, <4>4, <4>5, <3>2, <3>4
    <3>5. QED
      BY <3>3, <3>4
  <2>5. QED
    BY <2>1, <2>2, <2>3, <2>4
<1>10. ASSUME NEW t \in Thread, HookEnds(t) PROVE SilentInv'
  BY <1>10 DEF HookEnds
<1>11. ASSUME NEW t \in Thread, HookReturns(t) PROVE SilentInv'
  BY <1>11 DEF HookReturns, Reported
<1>12. ASSUME UNCHANGED vars PROVE SilentInv'
  BY <1>12 DEF vars
<1>13. QED
  BY <1>1, <1>2, <1>3, <1>4, <1>5, <1>6, <1>7, <1>8, <1>9, <1>10, <1>11, <1>12,
     NextCases

\* A hook that has been replaced or cleared is not called for the scopes that
\* begin afterwards, for all threads, registrars and hooks, panics included.
THEOREM ReplacedIsSilent == Spec => []ReplacedHookIsSilent
<1>1. SilentInv => ReplacedHookIsSilent
  BY DEF SilentInv
<1>2. QED
  BY <1>1, TypesInit, TypesStep, SilentInit, SilentStep, PTL DEF Spec

-----------------------------------------------------------------------------
LEMMA InStepInit == Init => InStep
BY DEF Init, InStep, Registering

LEMMA InStepStep ==
    ASSUME TypesOfStep, SilentInv, InStep, [Next]_vars
    PROVE  InStep'
<1> USE HookAssumption
    DEF InStep, SilentInv, InMutex, TypesOfStep, TypeOK,
        Registering, Option, registration, Goto
<1>0. ASSUME NEW t \in Thread, ~Registering(t), UNCHANGED registration,
             NEW label \in {"idle", "work", "clone"}, Goto(t, label)
      PROVE  InStep'
  <2>1. \A u \in Thread : Registering(u)' <=> Registering(u)
    BY <1>0
  <2>2. \A u \in Thread : pc'[u] = "pass" => pc[u] = "pass"
    BY <1>0
  <2>3. QED
    BY <1>0, <2>1, <2>2
<1>1. ASSUME NEW t \in Thread, Register(t) PROVE InStep'
  BY <1>1 DEF Register
<1>2. ASSUME NEW t \in Thread, BeginScope(t) PROVE InStep'
  BY <1>2 DEF BeginScope
<1>3. ASSUME NEW t \in Thread, NEW h \in Option, StoreClosure(t, h) PROVE InStep'
  <2>0. SUFFICES ASSUME ~raced PROVE InStep'
    BY <1>3 DEF StoreClosure
  <2>1. Registering(t) /\ pc' = [pc EXCEPT ![t] = "pass"]
    BY <1>3 DEF StoreClosure
  <2>2. /\ \A u \in Thread : Registering(u) => u = t
        /\ \A u \in Thread : Registering(u)' => u = t
    BY <2>0, <2>1
  <2>3. ~poisoned' => (callback'[t] <=> closure' # NoHook)
    <3>1. CASE poisoned
      BY <1>3, <3>1 DEF StoreClosure
    <3>2. CASE ~poisoned
      <4>1. closure' = h /\ callback' = [callback EXCEPT ![t] = h # NoHook]
        BY <1>3, <3>2 DEF StoreClosure
      <4>2. QED
        BY <4>1
    <3>3. QED
      BY <3>1, <3>2
  <2>4. QED
    BY <2>1, <2>2, <2>3
<1>4. ASSUME NEW t \in Thread, NEW h \in Option, StorePanics(t, h) PROVE InStep'
  BY <1>4 DEF StorePanics
<1>5. ASSUME NEW t \in Thread, PassCallback(t) PROVE InStep'
  BY <1>5 DEF PassCallback
<1>6. ASSUME NEW t \in Thread, Work(t) PROVE InStep'
  BY <1>6 DEF Work
<1>7. ASSUME NEW t \in Thread, Emit(t) PROVE InStep'
  <2>1. ~Registering(t) /\ UNCHANGED registration
    BY <1>7 DEF Emit
  <2>2. Goto(t, "clone") \/ Goto(t, "work") \/ Goto(t, "idle")
    BY <1>7 DEF Emit, Reported
  <2>3. QED
    BY <1>0, <2>1, <2>2
<1>8. ASSUME NEW t \in Thread, CloneClosure(t) PROVE InStep'
  <2>1. CASE HasClosure
    BY <1>8, <2>1 DEF CloneClosure, LockedInHook
  <2>2. CASE ~HasClosure
    <3>1. ~Registering(t) /\ UNCHANGED registration
      BY <1>8 DEF CloneClosure
    <3>2. Goto(t, "work") \/ Goto(t, "idle")
      BY <1>8, <2>2 DEF CloneClosure, Reported
    <3>3. QED
      BY <1>0, <3>1, <3>2
  <2>3. QED
    BY <2>1, <2>2
<1>9. ASSUME NEW t \in Thread, CallHook(t) PROVE InStep'
  BY <1>9 DEF CallHook
<1>10. ASSUME NEW t \in Thread, HookEnds(t) PROVE InStep'
  BY <1>10 DEF HookEnds
<1>11. ASSUME NEW t \in Thread, HookReturns(t) PROVE InStep'
  BY <1>11 DEF HookReturns, Reported
<1>12. ASSUME UNCHANGED vars PROVE InStep'
  BY <1>12 DEF vars
<1>13. QED
  BY <1>1, <1>2, <1>3, <1>4, <1>5, <1>6, <1>7, <1>8, <1>9, <1>10, <1>11, <1>12,
     NextCases

LEMMA ToldInit == Init => ToldInv
BY HookAssumption DEF Init, ToldInv

\* A thread with a steady hook finds it in both places.
LEMMA SteadyIsFound ==
    ASSUME TypesOfStep, SilentInv, InStep, ~raced,
           NEW t \in Thread, NEW h \in Hook, steady[t] = {h}
    PROVE  /\ closure = h /\ native = TRUE /\ HasClosure
           /\ \A u \in Thread : ~Registering(u)
           /\ pc[t] = "call" => held[t] = h
<1> USE HookAssumption DEF SilentInv, TypesOfStep, TypeOK
<1>1. (\A u \in Thread : ~Registering(u)) /\ ~poisoned /\ last = h
  BY DEF Quiet
<1>2. closure = h
  BY <1>1 DEF InMutex
<1>3. closure # NoHook
  BY <1>2
<1>4. native <=> closure # NoHook
  BY <1>1 DEF InStep
<1>5. native = TRUE /\ HasClosure
  BY <1>1, <1>3, <1>4 DEF HasClosure
<1>6. pc[t] = "call" => held[t] = h
  BY DEF ClonedLast
<1>7. QED
  BY <1>1, <1>2, <1>5, <1>6

LEMMA PairAppended ==
    ASSUME NEW x, NEW y PROVE Append(<<x>>, y) = <<x, y>>
<1>1. <<x>> \in Seq({x, y}) /\ <<x, y>> \in Seq({x, y})
  OBVIOUS
<1>2. Append(<<x>>, y) \in Seq({x, y}) /\ Len(Append(<<x>>, y)) = 2
  BY <1>1
<1>3. \A i \in 1..2 : Append(<<x>>, y)[i] = <<x, y>>[i]
  BY <1>1
<1>4. QED
  BY <1>1, <1>2, <1>3, SeqEqual

LEMMA ToldStep ==
    ASSUME TypesOfStep, SilentInv, InStep, ToldInv, [Next]_vars
    PROVE  ToldInv'
<1> SUFFICES ASSUME ~raced', NEW u \in Thread, NEW g \in Hook, steady'[u] = {g}
             PROVE  Told(u, g)'
  BY DEF ToldInv
<1> USE HookAssumption
    DEF Told, TypesOfStep, TypeOK, Registering, Option, registration, Goto
<1>1. ASSUME NEW t \in Thread, Register(t) PROVE Told(u, g)'
  BY <1>1 DEF Register
<1>2. ASSUME NEW t \in Thread, BeginScope(t) PROVE Told(u, g)'
  BY <1>2 DEF BeginScope, ToldInv, Phase
<1>0. ASSUME steady' = steady, raced' = raced PROVE ~raced /\ Told(u, g) /\ steady[u] = {g}
  BY <1>0 DEF ToldInv
<1>3. ASSUME NEW t \in Thread, NEW h \in Option, StoreClosure(t, h) PROVE Told(u, g)'
  BY <1>3, <1>0, SteadyIsFound DEF StoreClosure
<1>4. ASSUME NEW t \in Thread, NEW h \in Option, StorePanics(t, h) PROVE Told(u, g)'
  BY <1>4, <1>0, SteadyIsFound DEF StorePanics
<1>5. ASSUME NEW t \in Thread, PassCallback(t) PROVE Told(u, g)'
  BY <1>5, <1>0, SteadyIsFound DEF PassCallback
<1>6. ASSUME NEW t \in Thread, Work(t) PROVE Told(u, g)'
  BY <1>6, <1>0 DEF Work
<1>7. ASSUME NEW t \in Thread, Emit(t) PROVE Told(u, g)'
  BY <1>7, <1>0, SteadyIsFound DEF Emit, Reported
<1>8. ASSUME NEW t \in Thread, CloneClosure(t) PROVE Told(u, g)'
  BY <1>8, <1>0, SteadyIsFound DEF CloneClosure, LockedInHook, Reported
<1>9. ASSUME NEW t \in Thread, CallHook(t) PROVE Told(u, g)'
  <2>0. Told(u, g) /\ steady[u] = {g} /\ ~raced
    BY <1>9, <1>0 DEF CallHook
  <2>1. /\ Told(u, g) /\ steady[u] = {g}
        /\ pc' = [pc EXCEPT ![t] = "hook"]
        /\ IF steady[t] = {} THEN seen' = seen
           ELSE seen' = [seen EXCEPT ![t] = Append(seen[t], <<held[t], event[t]>>)]
        /\ event' = event /\ pc[t] = "call"
    BY <1>9, <2>0 DEF CallHook
  <2>2. CASE u # t
    BY <2>1, <2>2
  <2>3. CASE u = t
    <3>0. /\ steady[t] # {}
          /\ seen'[t] = Append(seen[t], <<held[t], event[t]>>)
      BY <2>1, <2>3
    <3>1. held[t] = g
      BY <2>0, <2>1, <2>3, SteadyIsFound
    <3>2. event[t] = "start" \/ event[t] = "finish"
      BY <2>1, <2>3 DEF Phase
    <3>3. CASE event[t] = "start"
      <4>0. seen[t] = <<>>
        BY <2>1, <2>3, <3>3
      <4>1. seen'[t] = Append(<<>>, <<g, "start">>)
        BY <3>0, <3>1, <3>3, <4>0
      <4>2. seen'[t] = <<<<g, "start">>>>
        BY <4>1
      <4>3. QED
        BY <2>1, <2>3, <3>3, <4>2 DEF Phase
    <3>4. CASE event[t] = "finish"
      <4>0. seen[t] = <<<<g, "start">>>>
        BY <2>1, <2>3, <3>4
      <4>1. seen'[t] = Append(<<<<g, "start">>>>, <<g, "finish">>)
        BY <3>0, <3>1, <3>4, <4>0
      <4>2. seen'[t] = <<<<g, "start">>, <<g, "finish">>>>
        BY <4>1, PairAppended
      <4>3. QED
        BY <2>1, <2>3, <3>4, <4>2 DEF Phase
    <3>5. QED
      BY <3>2, <3>3, <3>4
  <2>4. QED
    BY <2>2, <2>3
<1>10. ASSUME NEW t \in Thread, HookEnds(t) PROVE Told(u, g)'
  BY <1>10, <1>0 DEF HookEnds
<1>11. ASSUME NEW t \in Thread, HookReturns(t) PROVE Told(u, g)'
  BY <1>11, <1>0 DEF HookReturns, Reported, Phase
<1>12. ASSUME UNCHANGED vars PROVE Told(u, g)'
  BY <1>12, <1>0 DEF vars
<1>13. QED
  BY <1>1, <1>2, <1>3, <1>4, <1>5, <1>6, <1>7, <1>8, <1>9, <1>10, <1>11, <1>12,
     NextCases

\* A registered hook is told of the start and the finish of every load and
\* compile, once each, when its registration did not overlap another one.
THEOREM LoneIsTold == Spec => []LoneHookIsTold
<1>1. ToldInv => LoneHookIsTold
  BY DEF ToldInv, Told, LoneHookIsTold, RegisteredHookIsTold, ScopeDone
<1>2. InStep /\ TypesOfStep /\ SilentInv /\ [Next]_vars => InStep'
  BY InStepStep
<1>3. ToldInv /\ InStep /\ TypesOfStep /\ SilentInv /\ [Next]_vars => ToldInv'
  BY ToldStep
<1>4. QED
  BY <1>1, <1>2, <1>3, TypesInit, TypesStep, SilentInit, SilentStep, InStepInit,
     ToldInit, PTL DEF Spec

=============================================================================
