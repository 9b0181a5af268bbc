----------------------------- MODULE KernelLaunch -----------------------------
(***************************************************************************)
(* The threads of one process that launch kernels: mqa logits with or       *)
(* without the cleaning kernel, FP8 GEMM, the scheduler metadata of paged   *)
(* mqa logits and the paged kernel that reads it.  They share the SM count  *)
(* override, the kernels loaded so far and the CUDA functions in them; each *)
(* has a current GPU and an error string of its own.                        *)
(*                                                                         *)
(* A step is one critical section with what its thread does alone before or *)
(* after it, one call of the CUDA driver, or a run of the hook.  A launch is*)
(* what tells launches apart: the generated code, the grid and the shared   *)
(* memory asked for.  A stream is the sequence of the launches it accepted. *)
(*                                                                         *)
(* Not modelled: shapes and their validation, descriptors, the disk cache   *)
(* (KernelCache), PDL, and the execution of what was enqueued.              *)
(***************************************************************************)
EXTENDS Naturals, Sequences

CONSTANTS
    Thread,
    Gpu,
    Stream,         \* the streams of Candle devices, of which a GPU may have several
    GpuOf,          \* the GPU of each stream
    SmCount,        \* the SMs of each GPU
    Major,          \* the compute capability of each GPU: 9 or 10
    Batch,          \* batch sizes
    BatchAlign,     \* 32 in the code
    HookMayCall,    \* the materialization hook calls DeepGEMM
    MaxSms,         \* bound on what set_num_sms is given
    MaxCalls        \* bound on the number of calls

ASSUME LaunchAssumption ==
    /\ GpuOf \in [Stream -> Gpu]
    /\ SmCount \in [Gpu -> Nat \ {0}]
    /\ Major \in [Gpu -> {9, 10}]
    /\ Batch \subseteq Nat \ {0}
    /\ BatchAlign \in Nat \ {0}
    /\ HookMayCall \in BOOLEAN
    /\ MaxSms \in Nat /\ MaxCalls \in Nat

VARIABLES
    override,   \* g_num_sms_override
    cache,      \* g_kernel_cache: the CUDA function for each code
    attr,       \* the shared memory each function may be launched with
    queue,      \* what each stream accepted
    plans,      \* the PagedMqaLogitsPlans that were returned
    current,    \* the GPU whose context is current in each thread
    pc,         \* what each thread is doing
    call,       \* the call it is in
    todo,       \* the launches the call has still to make
    fn,         \* the function its next launch uses
    error,      \* the status of the exception it throws
    lastError,  \* g_last_error, one for each thread
    result,     \* what its last call returned
    sent,       \* (history) how many launches of its last call were accepted
    calls       \* how many calls were made

vars == <<override, cache, attr, queue, plans, current, pc, call, todo, fn,
          error, lastError, result, sent, calls>>

Status == {"invalid", "cuda", "internal"}

\* The text of an error: whose it is, and what, or the hook's own error.
NoMessage == <<>>
Message(t, status) == <<t, status>>
Text == {NoMessage} \cup (Thread \X (Status \cup {"hook"}))

None == [status |-> "none", message |-> NoMessage]
Ok == [status |-> "ok", message |-> NoMessage]
Refused == [status |-> "refused", message |-> NoMessage]

Goto(t, label) == pc' = [pc EXCEPT ![t] = label]

-----------------------------------------------------------------------------
(* The generated code and the launches *)

AlignedBatch(b) == ((b + BatchAlign - 1) \div BatchAlign) * BatchAlign

\* The batch size is in the code of the SM90 metadata kernel, rounded up.
\* (mutant: it is not)
BatchInCodeNever(g, b) == 0
BatchInCode(g, b) == IF Major[g] = 9 THEN AlignedBatch(b) ELSE 0

MetadataSmem(g, b) == IF Major[g] = 9 THEN AlignedBatch(b) ELSE 2 * b

Code(kernel, major, sms, batch) ==
    [kernel |-> kernel, major |-> major, sms |-> sms, batch |-> batch]

CodeSet == [kernel : {"mqa", "clean", "gemm", "metadata", "paged"},
            major : {0, 9, 10}, sms : Nat, batch : Nat]

\* A CUfunction: whose load created it, in the context of which GPU.
Fn(code, t, g) == [code |-> code, by |-> t, gpu |-> g]
FnSet == [code : CodeSet, by : Thread, gpu : Gpu]
NoFn == [code |-> "none"]

\* The shared memory of the other kernels follows from their code: 1 stands for it.
Launch(code, grid, smem) == [code |-> code, grid |-> grid, smem |-> smem]
LaunchSet == [code : CodeSet, grid : Nat \ {0}, smem : Nat \ {0}]

LogitsLaunch(g, n) == Launch(Code("mqa", Major[g], n, 0), n, 1)
CleanLaunch(n) == Launch(Code("clean", 0, 0, 0), n, 1)
GemmLaunch(g, n) == Launch(Code("gemm", Major[g], n, 0), n, 1)
MetadataLaunch(g, n, b) ==
    Launch(Code("metadata", Major[g], n, BatchInCode(g, b)), 1, MetadataSmem(g, b))
PagedLaunch(g, n) == Launch(Code("paged", Major[g], 0, 0), n, 1)

\* clean_logits is an option of mqa logits, written as an operation of its own.
LaunchCall == [op : {"mqa", "mqa_clean", "gemm"}, stream : Stream, batch : {0}]
PlanCall == [op : {"plan"}, stream : Stream, batch : Batch]
PagedCall(s) == [op |-> "paged", stream |-> s, batch |-> 0]
DeviceCall == LaunchCall \cup PlanCall \cup {PagedCall(s) : s \in Stream}
NoCall == [op |-> "none"]
SetCall == [op |-> "set"]

\* The launches of a call, in their order, for n SMs.
Program(c, n) ==
    LET g == GpuOf[c.stream] IN
    IF c.op = "mqa" THEN <<LogitsLaunch(g, n)>>
    ELSE IF c.op = "mqa_clean" THEN <<LogitsLaunch(g, n), CleanLaunch(n)>>
    ELSE IF c.op = "gemm" THEN <<GemmLaunch(g, n)>>
    ELSE IF c.op = "plan" THEN <<MetadataLaunch(g, n, c.batch)>>
    ELSE <<PagedLaunch(g, n)>>

Plan == [stream : Stream, sms : Nat \ {0}]

-----------------------------------------------------------------------------
Init ==
    /\ override = 0
    /\ cache = <<>>
    /\ attr = <<>>
    /\ queue = [s \in Stream |-> <<>>]
    /\ plans = {}
    /\ current \in [Thread -> Gpu]
    /\ pc = [t \in Thread |-> "idle"]
    /\ call = [t \in Thread |-> NoCall]
    /\ todo = [t \in Thread |-> <<>>]
    /\ fn = [t \in Thread |-> NoFn]
    /\ error = [t \in Thread |-> "none"]
    /\ lastError = [t \in Thread |-> NoMessage]
    /\ result = [t \in Thread |-> None]
    /\ sent = [t \in Thread |-> 0]
    /\ calls = 0

driver == <<cache, attr, queue, plans>>
errors == <<error, lastError, result>>

(* External: the thread makes another GPU current, for a call still to come. *)
SetDevice(t, g) ==
    /\ pc[t] = "idle"
    /\ calls < MaxCalls
    /\ current' = [current EXCEPT ![t] = g]
    /\ UNCHANGED <<override, driver, pc, call, todo, fn, errors, sent, calls>>

-----------------------------------------------------------------------------
(* Errors: g_last_error and ffi_call *)

\* g_last_error is thread_local.  (mutant: it is not)
SlotShared(t) == CHOOSE u \in Thread : TRUE
Slot(t) == t

\* A native call that succeeds clears the text, as does device_info, which the
\* bindings call before they check the device.
ClearError(t) == lastError' = [lastError EXCEPT ![Slot(t)] = NoMessage]

\* A call begins ...
Enter(t, c) ==
    /\ pc[t] = "idle"
    /\ calls < MaxCalls
    /\ calls' = calls + 1
    /\ call' = [call EXCEPT ![t] = c]
    /\ sent' = [sent EXCEPT ![t] = 0]

\* ... and is refused before its native call, ...
Refuse(t) ==
    /\ Goto(t, "idle")
    /\ result' = [result EXCEPT ![t] = Refused]
    /\ UNCHANGED error

\* ... or goes on to its first launch, ...
GoOn(t) ==
    /\ Goto(t, "build")
    /\ result' = [result EXCEPT ![t] = None]
    /\ UNCHANGED error

\* ... or throws, and ffi_call keeps the text of the exception ...
Throw(t, status) ==
    /\ Goto(t, "caught")
    /\ error' = [error EXCEPT ![t] = status]
    /\ lastError' = [lastError EXCEPT ![Slot(t)] = Message(t, status)]
    /\ result' = [result EXCEPT ![t] = None]

\* ... (also when the hook ran before it came to ffi_call) ...
Catch(t) ==
    /\ pc[t] = "finish"
    /\ lastError' = [lastError EXCEPT ![Slot(t)] = Message(t, error[t])]
    /\ Goto(t, "caught")
    /\ UNCHANGED <<override, driver, current, call, todo, fn, error, result, sent, calls>>

\* ... which check_raw_status reads, ...
Report(t) ==
    /\ pc[t] = "caught"
    /\ result' = [result EXCEPT ![t] = [status |-> error[t], message |-> lastError[Slot(t)]]]
    /\ error' = [error EXCEPT ![t] = "none"]
    /\ todo' = [todo EXCEPT ![t] = <<>>]
    /\ fn' = [fn EXCEPT ![t] = NoFn]
    /\ Goto(t, "idle")
    /\ UNCHANGED <<override, driver, current, call, lastError, sent, calls>>

\* ... or returns.
Return(t) ==
    /\ Goto(t, "idle")
    /\ ClearError(t)
    /\ result' = [result EXCEPT ![t] = Ok]
    /\ UNCHANGED error

-----------------------------------------------------------------------------
(* The SM count *)

SetNumSms(t, n) ==
    /\ Enter(t, SetCall)
    /\ IF n > SmCount[current[t]]
       THEN Throw(t, "invalid") /\ UNCHANGED override
       ELSE Return(t) /\ override' = n
    /\ UNCHANGED <<driver, current, todo, fn>>

\* (mutant: without the fallback)
EffectiveOverride(t) == override
Effective(t) == IF override > 0 THEN override ELSE SmCount[current[t]]

-----------------------------------------------------------------------------
(* The calls *)

OnCurrent(t, s) == current[t] = GpuOf[s]

\* fp8_fp4_mqa_logits and fp8_gemm_nt read the SM count once, for all their launches.
Begin(t, c) ==
    /\ c \in LaunchCall
    /\ Enter(t, c)
    /\ ClearError(t)
    /\ IF OnCurrent(t, c.stream)
       THEN GoOn(t) /\ todo' = [todo EXCEPT ![t] = Program(c, Effective(t))]
       ELSE Refuse(t) /\ UNCHANGED todo
    /\ UNCHANGED <<override, driver, current, fn>>

\* So does paged_mqa_logits_plan, whose native call checks it.
BeginPlan(t, c) ==
    /\ c \in PlanCall
    /\ Enter(t, c)
    /\ \/ /\ ~OnCurrent(t, c.stream)
          /\ Refuse(t) /\ ClearError(t) /\ UNCHANGED todo
       \/ /\ OnCurrent(t, c.stream) /\ Effective(t) > SmCount[current[t]]
          /\ Throw(t, "invalid") /\ UNCHANGED todo
       \/ /\ OnCurrent(t, c.stream) /\ Effective(t) <= SmCount[current[t]]
          /\ GoOn(t) /\ ClearError(t)
          /\ todo' = [todo EXCEPT ![t] = Program(c, Effective(t))]
    /\ UNCHANGED <<override, driver, current, fn>>

\* ensure_same_device compares Candle devices.
\* (mutant: it compares GPUs)
SameDeviceGpu(s, u) == GpuOf[s] = GpuOf[u]
SameDevice(s, u) == s = u

\* fp8_fp4_paged_mqa_logits launches with the SM count of its plan.
BeginPaged(t, s, p) ==
    /\ p \in plans
    /\ Enter(t, PagedCall(s))
    /\ \/ /\ ~SameDevice(s, p.stream)
          /\ Refuse(t) /\ UNCHANGED <<lastError, todo>>
       \/ /\ SameDevice(s, p.stream) /\ ~OnCurrent(t, s)
          /\ Refuse(t) /\ ClearError(t) /\ UNCHANGED todo
       \/ /\ SameDevice(s, p.stream) /\ OnCurrent(t, s)
          /\ IF p.sms > SmCount[GpuOf[s]]
             THEN Throw(t, "invalid") /\ UNCHANGED todo
             ELSE /\ GoOn(t) /\ ClearError(t)
                  /\ todo' = [todo EXCEPT ![t] = Program(PagedCall(s), p.sms)]
    /\ UNCHANGED <<override, driver, current, fn>>

-----------------------------------------------------------------------------
(* build_kernel *)

Lookup(t) ==
    /\ pc[t] = "build"
    /\ LET code == Head(todo[t]).code IN
       IF code \in DOMAIN cache
       THEN fn' = [fn EXCEPT ![t] = cache[code]] /\ Goto(t, "attr")
       ELSE UNCHANGED fn /\ Goto(t, "load")
    /\ UNCHANGED <<override, driver, current, call, todo, errors, sent, calls>>

\* The kernel is compiled or found on disk and loaded into the current context.
Load(t) ==
    /\ pc[t] = "load"
    /\ LET code == Head(todo[t]).code
           f == Fn(code, t, current[t]) IN
       /\ fn' = [fn EXCEPT ![t] = f]
       /\ cache' = [c \in DOMAIN cache \cup {code} |-> IF c = code THEN f ELSE cache[c]]
       /\ attr' = [h \in DOMAIN attr \cup {f} |-> IF h = f THEN 0 ELSE attr[h]]
    /\ Goto(t, "attr")
    /\ UNCHANGED <<override, queue, plans, current, call, todo, errors, sent, calls>>

\* (mutant: the caller of the cleaning kernel swallows the error)
LoadFailsQuietly(t) ==
    /\ pc[t] = "load"
    /\ IF sent[t] = 0
       THEN /\ error' = [error EXCEPT ![t] = "internal"]
            /\ Goto(t, "finish")
            /\ UNCHANGED <<lastError, result>>
       ELSE Return(t)
    /\ UNCHANGED <<override, driver, current, call, todo, fn, sent, calls>>
LoadFails(t) ==
    /\ pc[t] = "load"
    /\ error' = [error EXCEPT ![t] = "internal"]
    /\ Goto(t, "finish")
    /\ UNCHANGED <<override, driver, current, call, todo, fn, lastError, result, sent, calls>>

\* The hook runs in the thread that loads, also while the exception unwinds, and
\* its own calls leave their errors, or none.
HookCalls(t) ==
    /\ HookMayCall
    /\ pc[t] \in {"load", "finish"}
    /\ \E text \in {NoMessage, Message(t, "hook")} :
           lastError' = [lastError EXCEPT ![Slot(t)] = text]
    /\ UNCHANGED <<override, driver, current, pc, call, todo, fn, error, result, sent, calls>>

-----------------------------------------------------------------------------
(* launch_kernel: the attribute, then the launch *)

SetAttribute(t) ==
    /\ pc[t] = "attr"
    /\ attr' = [attr EXCEPT ![fn[t]] = Head(todo[t]).smem]
    /\ Goto(t, "launch")
    /\ UNCHANGED <<override, cache, queue, plans, current, call, todo, fn, errors, sent, calls>>

\* External: the driver takes a function of the stream's context, and no more
\* shared memory than the function was granted last.
Accepts(t) ==
    /\ fn[t].gpu = GpuOf[call[t].stream]
    /\ Head(todo[t]).smem <= attr[fn[t]]

\* (mutant: the SM count is read again)
GridAgain(t) == Effective(t)
Grid(t) == Head(todo[t]).grid

LaunchKernel(t) ==
    /\ pc[t] = "launch"
    /\ Accepts(t)
    /\ LET s == call[t].stream IN
       /\ queue' = [queue EXCEPT ![s] =
                        Append(@, [Head(todo[t]) EXCEPT !.code = fn[t].code, !.grid = Grid(t)])]
       /\ plans' = IF call[t].op # "plan" THEN plans
                   ELSE plans \cup {[stream |-> s, sms |-> Head(todo[t]).code.sms]}
    /\ sent' = [sent EXCEPT ![t] = @ + 1]
    /\ todo' = [todo EXCEPT ![t] = Tail(@)]
    /\ fn' = [fn EXCEPT ![t] = NoFn]
    /\ IF Len(todo[t]) = 1 THEN Return(t) ELSE Goto(t, "build") /\ UNCHANGED errors
    /\ UNCHANGED <<override, cache, attr, current, call, calls>>

LaunchRejected(t) ==
    /\ pc[t] = "launch"
    /\ ~Accepts(t)
    /\ Throw(t, "cuda")
    /\ UNCHANGED <<override, driver, current, call, todo, fn, sent, calls>>

-----------------------------------------------------------------------------
Step(t) ==
    \/ Lookup(t) \/ Load(t) \/ LoadFails(t) \/ HookCalls(t)
    \/ SetAttribute(t) \/ LaunchKernel(t) \/ LaunchRejected(t)
    \/ Catch(t) \/ Report(t)

Call(t) ==
    \/ \E g \in Gpu : SetDevice(t, g)
    \/ \E n \in 0..MaxSms : SetNumSms(t, n)
    \/ \E c \in LaunchCall : Begin(t, c)
    \/ \E c \in PlanCall : BeginPlan(t, c)
    \/ \E s \in Stream, p \in plans : BeginPaged(t, s, p)

\* All calls were made and have returned: the bound is reached, nothing waits.
Done == calls = MaxCalls /\ (\A t \in Thread : pc[t] = "idle") /\ UNCHANGED vars

Next == (\E t \in Thread : Call(t) \/ Step(t)) \/ Done

Spec == Init /\ [][Next]_vars

-----------------------------------------------------------------------------
(* Properties *)

Label == {"idle", "build", "load", "finish", "attr", "launch", "caught"}

TypeOK ==
    /\ override \in Nat
    /\ DOMAIN cache \subseteq CodeSet /\ cache \in [DOMAIN cache -> FnSet]
    /\ DOMAIN attr \subseteq FnSet /\ attr \in [DOMAIN attr -> Nat]
    /\ queue \in [Stream -> Seq(LaunchSet)]
    /\ plans \subseteq Plan
    /\ current \in [Thread -> Gpu]
    /\ pc \in [Thread -> Label]
    /\ call \in [Thread -> DeviceCall \cup {NoCall, SetCall}]
    /\ todo \in [Thread -> Seq(LaunchSet)]
    /\ fn \in [Thread -> FnSet \cup {NoFn}]
    /\ error \in [Thread -> Status \cup {"none"}]
    /\ lastError \in [Thread -> Text]
    /\ result \in [Thread -> [status : Status \cup {"none", "ok", "refused"}, message : Text]]
    /\ sent \in [Thread -> Nat]
    /\ calls \in Nat

\* A persistent kernel shares its work out among the SM count that is compiled
\* into it; it is always launched with that many blocks, whatever set_num_sms
\* does while it is being built.
GridMatchesCode == \A s \in Stream : \A i \in 1..Len(queue[s]) :
    queue[s][i].code.kernel \in {"mqa", "gemm"} => queue[s][i].grid = queue[s][i].code.sms

\* A paged launch comes after a metadata kernel on its own stream that was
\* compiled for as many SMs as the launch has blocks: it never reads a schedule
\* that is missing, too short, or still to be written by another stream.
ScheduleFits == \A s \in Stream : \A i \in 1..Len(queue[s]) :
    queue[s][i].code.kernel = "paged" =>
        \E j \in 1..(i - 1) :
            /\ queue[s][j].code.kernel = "metadata"
            /\ queue[s][j].code.sms = queue[s][i].grid

\* The driver is asked for the launches in todo with functions that accept them.
LaunchIsAccepted == \A t \in Thread : pc[t] = "launch" => Accepts(t)

\* A launch is refused by the driver for two reasons only: the function belongs
\* to the context of another GPU, or it is the SM100 metadata kernel, whose
\* shared memory is not in its code, and another thread lowered the attribute.
RejectedForCause == \A t \in Thread : pc[t] = "launch" /\ ~Accepts(t) =>
    \/ fn[t].gpu # GpuOf[call[t].stream]
    \/ fn[t].code.kernel = "metadata" /\ fn[t].code.major = 10

\* The error text a caller gets is that of its own failed call, though threads
\* fail together and the hook makes calls that fail or succeed in between.
ErrorIsOwn == \A t \in Thread :
    result[t].status \in Status => result[t].message = Message(t, result[t].status)

\* A call that returns Ok has launched everything it promised; one that is
\* refused or has invalid arguments has launched nothing.
OutcomeTellsLaunches == \A t \in Thread : pc[t] = "idle" =>
    /\ result[t].status = "ok" =>
           sent[t] = IF call[t].op = "mqa_clean" THEN 2
                     ELSE IF call[t].op = "set" THEN 0 ELSE 1
    /\ result[t].status \in {"refused", "invalid"} => sent[t] = 0
=============================================================================
