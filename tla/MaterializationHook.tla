------------------------- MODULE MaterializationHook -------------------------
(***************************************************************************)
(* The process-global materialization hook.  It lives in two places: the    *)
(* closure behind a Mutex in crates/deepgemm/src/runtime.rs, and a function *)
(* pointer behind a mutex of its own in deepgemm_raw_runtime.cc, which is   *)
(* either null or the one callback that looks the closure up.               *)
(* set_kernel_materialization_hook writes them one after the other; an      *)
(* event of a KernelMaterializationScope reads them in the other order and  *)
(* calls the closure with neither mutex held, so that a hook may itself     *)
(* register hooks.                                                          *)
(*                                                                         *)
(* A step is one critical section, the call of the hook or its return.      *)
(* Not modelled: a hook that launches kernels (its scopes nest in the one   *)
(* being reported); event_from_raw refusing an event (the runtime sends     *)
(* only names, sources and phases it knows).                                *)
(***************************************************************************)
EXTENDS Naturals, Sequences

CONSTANTS
    Thread,
    Registrar,      \* the threads that register hooks
    Hook,           \* the closures
    NoHook,
    DropMayPanic,   \* dropping a replaced closure may panic, in the Mutex
    NoThread

ASSUME HookAssumption ==
    /\ Registrar \subseteq Thread
    /\ NoHook \notin Hook
    /\ DropMayPanic \in BOOLEAN
    /\ NoThread \notin Thread

VARIABLES
    closure,    \* the Option<Arc<KernelMaterializationHook>> in the Mutex
    poisoned,   \* whether a thread panicked with the Mutex locked
    locked,     \* the thread whose guard is alive, if any
    native,     \* g_kernel_materialization_hook is the callback, not null
    pc,         \* what each thread is doing
    back,       \* where a registration returns to: "idle", or the "hook" it was made in
    callback,   \* what the registration passes on: the callback, not null
    event,      \* the event the thread reports: "start", "finish", or "none"
    held,       \* the closure the thread has cloned
    last,       \* (history) the hook stored last
    raced,      \* (history) the last registration began during another one
    steady,     \* (history) {h} if all along the last scope h was what had been
                \* registered last and no registration was under way; or {}
    seen        \* (history) the calls of hooks for the last scope, if it is steady

vars == <<closure, poisoned, locked, native, pc, back, callback, event, held,
          last, raced, seen, steady>>

registration == <<closure, poisoned, native, back, callback, last, raced>>

Option == Hook \cup {NoHook}

Goto(t, label) == pc' = [pc EXCEPT ![t] = label]

Registering(t) == pc[t] \in {"store", "pass"}

Init ==
    /\ closure = NoHook
    /\ poisoned = FALSE
    /\ locked = NoThread
    /\ native = FALSE
    /\ pc = [t \in Thread |-> "idle"]
    /\ back = [t \in Thread |-> "idle"]
    /\ callback = [t \in Thread |-> FALSE]
    /\ event = [t \in Thread |-> "none"]
    /\ held = [t \in Thread |-> NoHook]
    /\ last = NoHook
    /\ raced = FALSE
    /\ seen = [t \in Thread |-> <<>>]
    /\ steady = [t \in Thread |-> {}]

-----------------------------------------------------------------------------
(* set_kernel_materialization_hook *)

\* It is called, by a thread or by the hook that runs in it.
Register(t) ==
    /\ t \in Registrar
    /\ pc[t] \in {"idle", "hook"}
    /\ back' = [back EXCEPT ![t] = pc[t]]
    /\ raced' = \E u \in Thread : Registering(u)
    /\ steady' = [u \in Thread |-> {}]
    /\ seen' = [u \in Thread |-> <<>>]
    /\ Goto(t, "store")
    /\ UNCHANGED <<closure, poisoned, locked, native, callback, event, held, last>>

\* (mutants: the callback is chosen before the closure is stored; the closure
\* is stored once, as in a OnceLock)
StoreClosureLate(t, h) ==
    /\ pc[t] = "store"
    /\ locked = NoThread
    /\ callback' = [callback EXCEPT ![t] = ~poisoned /\ closure # NoHook]
    /\ closure' = IF poisoned THEN closure ELSE h
    /\ Goto(t, "pass")
    /\ last' = h
    /\ UNCHANGED <<poisoned, locked, native, back, event, held, raced, seen, steady>>
StoreClosureOnce(t, h) ==
    /\ pc[t] = "store"
    /\ locked = NoThread
    /\ callback' = [callback EXCEPT ![t] = ~poisoned /\ h # NoHook]
    /\ closure' = IF poisoned \/ closure # NoHook THEN closure ELSE h
    /\ Goto(t, "pass")
    /\ last' = h
    /\ UNCHANGED <<poisoned, locked, native, back, event, held, raced, seen, steady>>

\* The closure is stored, or the Mutex is poisoned and the closure dropped.
StoreClosure(t, h) ==
    /\ pc[t] = "store"
    /\ locked = NoThread
    /\ IF poisoned
       THEN callback' = [callback EXCEPT ![t] = FALSE] /\ UNCHANGED closure
       ELSE callback' = [callback EXCEPT ![t] = h # NoHook] /\ closure' = h
    /\ Goto(t, "pass")
    /\ last' = h
    /\ UNCHANGED <<poisoned, locked, native, back, event, held, raced, seen, steady>>

\* The closure that was there is dropped, unless a callback still holds it, and
\* may panic; the panic leaves set_kernel_materialization_hook (and the hook that
\* called it) with the new closure in a poisoned Mutex.
StorePanics(t, h) ==
    /\ DropMayPanic
    /\ pc[t] = "store"
    /\ locked = NoThread
    /\ ~poisoned
    /\ closure \notin {NoHook, h} /\ \A u \in Thread : held[u] # closure
    /\ closure' = h
    /\ poisoned' = TRUE
    /\ last' = h
    /\ Goto(t, IF back[t] = "hook" THEN "return" ELSE "idle")
    /\ back' = [back EXCEPT ![t] = "idle"]
    /\ UNCHANGED <<locked, native, callback, event, held, raced, seen, steady>>

\* The callback or null goes to the native runtime, and the call returns.
PassCallback(t) ==
    /\ pc[t] = "pass"
    /\ native' = callback[t]
    /\ Goto(t, back[t])
    /\ back' = [back EXCEPT ![t] = "idle"]
    /\ callback' = [callback EXCEPT ![t] = FALSE]
    /\ UNCHANGED <<closure, poisoned, locked, event, held, last, raced, seen, steady>>

-----------------------------------------------------------------------------
(* KernelMaterializationScope and kernel_materialization_callback *)

BeginScope(t) ==
    /\ pc[t] = "idle"
    /\ event' = [event EXCEPT ![t] = "start"]
    /\ seen' = [seen EXCEPT ![t] = <<>>]
    /\ steady' = [steady EXCEPT ![t] =
            IF poisoned \/ \E u \in Thread : Registering(u) THEN {} ELSE {last}]
    /\ Goto(t, "emit")
    /\ UNCHANGED <<registration, locked, held>>

\* The event is reported; the finish follows the start.
Reported(t) ==
    IF event[t] = "start"
    THEN event' = [event EXCEPT ![t] = "finish"] /\ Goto(t, "work")
    ELSE event' = [event EXCEPT ![t] = "none"] /\ Goto(t, "idle")

\* The kernel is compiled or loaded between the two.
Work(t) ==
    /\ pc[t] = "work"
    /\ Goto(t, "emit")
    /\ UNCHANGED <<registration, locked, event, held, seen, steady>>

\* emit_kernel_materialization_event copies the pointer.
Emit(t) ==
    /\ pc[t] = "emit"
    /\ IF native THEN Goto(t, "clone") /\ UNCHANGED event
                 ELSE Reported(t)
    /\ UNCHANGED <<registration, locked, held, seen, steady>>

\* Who has the Mutex locked while the hook runs.
\* (mutant: the guard lives to the end of the callback)
LockedInHookLong(t) == t
LockedInHook(t) == NoThread

\* Whether the callback finds a closure to call.
\* (mutant: it takes one for granted)
HasClosureAlways == ~poisoned
HasClosure == ~poisoned /\ closure # NoHook

\* kernel_materialization_callback clones the closure ...
CloneClosure(t) ==
    /\ pc[t] = "clone"
    /\ locked = NoThread
    /\ IF HasClosure
       THEN /\ held' = [held EXCEPT ![t] = closure]
            /\ locked' = LockedInHook(t)
            /\ Goto(t, "call")
            /\ UNCHANGED event
       ELSE Reported(t) /\ UNCHANGED <<locked, held>>
    /\ UNCHANGED <<registration, seen, steady>>

\* ... and calls it ...
CallHook(t) ==
    /\ pc[t] = "call"
    /\ seen' = IF steady[t] = {} THEN seen
               ELSE [seen EXCEPT ![t] = Append(@, <<held[t], event[t]>>)]
    /\ Goto(t, "hook")
    /\ UNCHANGED <<registration, locked, event, held, steady>>

\* ... until it returns, or panics: catch_unwind makes them the same.
HookEnds(t) ==
    /\ pc[t] = "hook"
    /\ Goto(t, "return")
    /\ UNCHANGED <<registration, locked, event, held, seen, steady>>

HookReturns(t) ==
    /\ pc[t] = "return"
    /\ held' = [held EXCEPT ![t] = NoHook]
    /\ locked' = NoThread
    /\ Reported(t)
    /\ UNCHANGED <<registration, seen, steady>>

-----------------------------------------------------------------------------
Store(t) == \E h \in Option : StoreClosure(t, h) \/ StorePanics(t, h)

Step(t) ==
    \/ Store(t) \/ PassCallback(t)
    \/ Work(t) \/ Emit(t) \/ CloneClosure(t) \/ CallHook(t) \/ HookEnds(t)
    \/ HookReturns(t)

Next == \E t \in Thread : Register(t) \/ BeginScope(t) \/ Step(t)

Spec == Init /\ [][Next]_vars

\* Threads are scheduled, compilations end, and hooks return after any number
\* of registrations: a hook that could return again and again does.
Fairness == \A t \in Thread : WF_vars(Step(t)) /\ SF_vars(HookEnds(t))

FairSpec == Spec /\ Fairness

-----------------------------------------------------------------------------
(* Properties *)

TypeOK ==
    /\ closure \in Option
    /\ poisoned \in BOOLEAN
    /\ locked \in Thread \cup {NoThread}
    /\ native \in BOOLEAN
    /\ pc \in [Thread -> {"idle", "store", "pass", "emit", "work", "clone",
                          "call", "hook", "return"}]
    /\ back \in [Thread -> {"idle", "hook"}]
    /\ callback \in [Thread -> BOOLEAN]
    /\ event \in [Thread -> {"none", "start", "finish"}]
    /\ held \in [Thread -> Option]
    /\ last \in Option
    /\ raced \in BOOLEAN
    /\ seen \in [Thread -> Seq(Hook \X {"start", "finish"})]
    /\ steady \in [Thread -> SUBSET Option]

ScopeDone(t) == pc[t] = "idle" /\ event[t] = "none"

\* A hook that stays registered all through a disk load or a JIT compile is
\* told of its start and of its finish, once each.
RegisteredHookIsTold == \A t \in Thread, h \in Hook :
    ScopeDone(t) /\ steady[t] = {h} => seen[t] = <<<<h, "start">>, <<h, "finish">>>>

\* So it is at least when the last registration did not begin during another
\* one: whatever registrations did to each other before, one that is alone
\* brings the closure and the pointer back together.
LoneHookIsTold == ~raced => RegisteredHookIsTold

\* After a hook has been cleared or replaced, by a call that has returned, the
\* loads and compiles that begin then are not reported to it, though the two
\* places the hook lives in are not written together.
ReplacedHookIsSilent == \A t \in Thread : steady[t] # {} =>
    \A i \in 1..Len(seen[t]) : seen[t][i][1] \in steady[t]

\* Every report ends, though hooks register hooks and many threads report.
ReportsEnd == \A t \in Thread : pc[t] = "emit" ~> pc[t] \in {"work", "idle"}
=============================================================================
