----------------------------- MODULE KernelStore -----------------------------
(***************************************************************************)
(* What the kernel cache of deepgemm-rs promises to a launch, with every    *)
(* detail of how it keeps the promise left out: a store of published        *)
(* kernels shared by all processes (the JIT cache directory), a set of      *)
(* resident kernels per process (the process-local cache), and one request  *)
(* per thread at a time.                                                    *)
(*                                                                         *)
(*   - a kernel is published only on behalf of a thread that asked for it;  *)
(*   - a kernel becomes resident only after it was fetched while published; *)
(*   - a published kernel stays published, whatever fails or crashes, but   *)
(*     for what a thread that asked for it does in a process that has other *)
(*     threads;                                                             *)
(*   - a resident kernel stays resident for the life of the process;        *)
(*   - a request succeeds only when its kernel is resident.                 *)
(*                                                                         *)
(* The module KernelCache implements this one (its ImplementsStore).        *)
(***************************************************************************)
CONSTANTS
    Thread,     \* the threads that launch kernels
    Proc,       \* the processes they belong to
    ProcOf,     \* the process of each thread, in [Thread -> Proc]
    Item,       \* what can be published: a kernel built under a configuration
    NoItem      \* a thread that asks for nothing; no Item

VARIABLES
    published,  \* the items any process can load from the shared cache
    resident,   \* resident[p]: the items process p has loaded
    asked,      \* asked[t]: the item thread t is being served
    fetched,    \* fetched[t]: t has read the item from the shared cache
    granted     \* granted[t]: the outcome of the last request of t

vars == <<published, resident, asked, fetched, granted>>

-----------------------------------------------------------------------------

\* The cache directory survives from earlier runs: any part of it may be there.
Init ==
    /\ published \in SUBSET Item
    /\ resident = [p \in Proc |-> {}]
    /\ asked = [t \in Thread |-> NoItem]
    /\ fetched = [t \in Thread |-> FALSE]
    /\ granted = [t \in Thread |-> "none"]

Ask(t, i) ==
    /\ asked[t] = NoItem
    /\ asked' = [asked EXCEPT ![t] = i]
    /\ granted' = [granted EXCEPT ![t] = "none"]
    /\ UNCHANGED <<published, resident, fetched>>

Publish(t) ==
    /\ asked[t] # NoItem
    /\ published' = published \cup {asked[t]}
    /\ UNCHANGED <<resident, asked, fetched, granted>>

\* What another thread of the process published for t is taken away by t.
Lose(t) ==
    /\ asked[t] # NoItem
    /\ \E u \in Thread \ {t} : ProcOf[u] = ProcOf[t]
    /\ published' = published \ {asked[t]}
    /\ UNCHANGED <<resident, asked, fetched, granted>>

Fetch(t) ==
    /\ asked[t] \in published
    /\ fetched' = [fetched EXCEPT ![t] = TRUE]
    /\ UNCHANGED <<published, resident, asked, granted>>

\* A request ends.
Grant(t, result) ==
    /\ asked' = [asked EXCEPT ![t] = NoItem]
    /\ fetched' = [fetched EXCEPT ![t] = FALSE]
    /\ granted' = [granted EXCEPT ![t] = result]
    /\ UNCHANGED published

\* The kernel that was fetched becomes resident and serves the request ...
Load(t) ==
    /\ fetched[t]
    /\ resident' = [resident EXCEPT ![ProcOf[t]] = @ \cup {asked[t]}]
    /\ Grant(t, "ok")

\* ... or one that is resident already does ...
Reuse(t) ==
    /\ asked[t] \in resident[ProcOf[t]]
    /\ Grant(t, "ok")
    /\ UNCHANGED resident

\* ... or the request fails.
Refuse(t) ==
    /\ asked[t] # NoItem
    /\ Grant(t, "error")
    /\ UNCHANGED resident

\* A process dies and is started again: it forgets what it had loaded.
Restart(p) ==
    /\ resident' = [resident EXCEPT ![p] = {}]
    /\ asked' = [t \in Thread |-> IF ProcOf[t] = p THEN NoItem ELSE asked[t]]
    /\ fetched' = [t \in Thread |-> IF ProcOf[t] = p THEN FALSE ELSE fetched[t]]
    /\ granted' = [t \in Thread |-> IF ProcOf[t] = p THEN "none" ELSE granted[t]]
    /\ UNCHANGED published

Next ==
    \/ \E t \in Thread :
        \/ \E i \in Item : Ask(t, i)
        \/ Publish(t)
        \/ Lose(t)
        \/ Fetch(t)
        \/ Load(t)
        \/ Reuse(t)
        \/ Refuse(t)
    \/ \E p \in Proc : Restart(p)

Spec == Init /\ [][Next]_vars

=============================================================================
