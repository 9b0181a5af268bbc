------------------------- MODULE KernelLaunch_proofs --------------------------
(***************************************************************************)
(* Proofs about KernelLaunch, for any threads, GPUs, streams, batch sizes   *)
(* and bounds.  LaunchInv is the inductive invariant under all of them:     *)
(* the types, what each label says of the locals of the call, and how the   *)
(* launches still to make relate to the call and to the plans.              *)
(***************************************************************************)
EXTENDS KernelLaunch, TLAPS

Busy == {"build", "load", "attr", "launch"}

\* What a launch of the call c must be.
Fits(c, l) ==
    /\ l.code.kernel \in {"mqa", "gemm"} => l.grid = l.code.sms
    /\ c.op = "plan" => l.code.kernel = "metadata" /\ l.code.sms # 0
    /\ l.code.kernel = "paged" => c.op = "paged"

LabelInv == \A t \in Thread :
    /\ pc[t] \in Busy => call[t] \in DeviceCall /\ todo[t] # <<>>
    /\ pc[t] \in {"attr", "launch"} =>
           fn[t] \in DOMAIN attr /\ fn[t].code = Head(todo[t]).code
    /\ pc[t] \in {"finish", "caught"} => error[t] \in Status

CacheInv == \A c \in DOMAIN cache : cache[c] \in DOMAIN attr /\ cache[c].code = c

TodoInv == \A t \in Thread : pc[t] \in Busy =>
    \A i \in 1..Len(todo[t]) : Fits(call[t], todo[t][i])

LaunchInv == TypeOK /\ LabelInv /\ CacheInv /\ TodoInv

-----------------------------------------------------------------------------
(* The launches of a call *)

LEMMA AlignedBatchPositive ==
    ASSUME NEW b \in Nat \ {0} PROVE AlignedBatch(b) \in Nat \ {0}
<1>1. BatchAlign \in Nat \ {0}
  BY LaunchAssumption
<1> DEFINE q == (b + BatchAlign - 1) \div BatchAlign
<1>2. q \in Nat /\ q >= 1
  BY <1>1
<1>3. q * BatchAlign \in Nat \ {0}
  <2> HIDE DEF q
  <2> QED BY <1>1, <1>2
<1> QED BY <1>3 DEF AlignedBatch

LEMMA LaunchType ==
    ASSUME NEW g \in Gpu, NEW n \in Nat \ {0}
    PROVE /\ LogitsLaunch(g, n) \in LaunchSet
          /\ CleanLaunch(n) \in LaunchSet
          /\ GemmLaunch(g, n) \in LaunchSet
          /\ PagedLaunch(g, n) \in LaunchSet
          /\ \A b \in Batch : MetadataLaunch(g, n, b) \in LaunchSet
<1>1. Major[g] \in {9, 10}
  BY LaunchAssumption
<1>2. ASSUME NEW b \in Batch
      PROVE BatchInCode(g, b) \in Nat /\ MetadataSmem(g, b) \in Nat \ {0}
  <2>1. b \in Nat \ {0}
    BY LaunchAssumption
  <2>2. AlignedBatch(b) \in Nat \ {0}
    BY <2>1, AlignedBatchPositive
  <2>3. QED
    BY <2>1, <2>2 DEF BatchInCode, MetadataSmem
<1>3. \A b \in Batch : MetadataLaunch(g, n, b) \in LaunchSet
  BY <1>1, <1>2 DEF MetadataLaunch, LaunchSet, Launch, Code, CodeSet
<1>4. QED
  BY <1>1, <1>3 DEF LogitsLaunch, CleanLaunch, GemmLaunch, PagedLaunch, LaunchSet,
                    Launch, Code, CodeSet

LEMMA ProgramFits ==
    ASSUME NEW c \in DeviceCall, NEW n \in Nat \ {0}
    PROVE /\ Program(c, n) \in Seq(LaunchSet)
          /\ Program(c, n) # <<>>
          /\ \A i \in 1..Len(Program(c, n)) : Fits(c, Program(c, n)[i])
<1>0. c.stream \in Stream /\ GpuOf[c.stream] \in Gpu
  BY LaunchAssumption DEF DeviceCall, LaunchCall, PlanCall, PagedCall
<1> DEFINE g == GpuOf[c.stream]
<1>1. CASE c.op = "mqa"
  <2>1. Program(c, n) = <<LogitsLaunch(g, n)>>
    BY <1>1 DEF Program
  <2>2. QED
    BY <1>0, <1>1, <2>1, LaunchType DEF Fits, LogitsLaunch, Launch, Code
<1>2. CASE c.op = "mqa_clean"
  <2>1. Program(c, n) = <<LogitsLaunch(g, n), CleanLaunch(n)>>
    BY <1>2 DEF Program
  <2>2. QED
    BY <1>0, <1>2, <2>1, LaunchType DEF Fits, LogitsLaunch, CleanLaunch, Launch, Code
<1>3. CASE c.op = "gemm"
  <2>1. Program(c, n) = <<GemmLaunch(g, n)>>
    BY <1>3 DEF Program
  <2>2. QED
    BY <1>0, <1>3, <2>1, LaunchType DEF Fits, GemmLaunch, Launch, Code
<1>4. CASE c.op = "plan"
  <2>1. Program(c, n) = <<MetadataLaunch(g, n, c.batch)>>
    BY <1>4 DEF Program
  <2>2. c.batch \in Batch
    BY <1>4 DEF DeviceCall, LaunchCall, PlanCall, PagedCall
  <2>3. QED
    BY <1>0, <1>4, <2>1, <2>2, LaunchType DEF Fits, MetadataLaunch, Launch, Code
<1>5. CASE c.op = "paged"
  <2>1. Program(c, n) = <<PagedLaunch(g, n)>>
    BY <1>5 DEF Program
  <2>2. QED
    BY <1>0, <1>5, <2>1, LaunchType DEF Fits, PagedLaunch, Launch, Code
<1>6. QED
  BY <1>1, <1>2, <1>3, <1>4, <1>5 DEF DeviceCall, LaunchCall, PlanCall, PagedCall
-----------------------------------------------------------------------------
(* The inductive invariant *)

LEMMA LaunchInit == Init => LaunchInv
<1> SUFFICES ASSUME Init PROVE LaunchInv
  OBVIOUS
<1>1. TypeOK
  BY DEF Init, TypeOK, Label, Text, None, NoMessage
<1>2. LabelInv /\ CacheInv /\ TodoInv
  BY DEF Init, LabelInv, CacheInv, TodoInv, Busy
<1>3. QED
  BY <1>1, <1>2 DEF LaunchInv

LEMMA ResultType ==
    {None, Ok, Refused} \subseteq
        [status : Status \cup {"none", "ok", "refused"}, message : Text]
  BY DEF None, Ok, Refused, Text

\* How a native call goes on or ends.
Outcome(t) ==
    \/ Refuse(t) /\ (ClearError(t) \/ UNCHANGED lastError)
    \/ GoOn(t) /\ ClearError(t)
    \/ \E status \in Status : Throw(t, status)
    \/ Return(t)

\* What such a step leaves of the call, and the rest of the types.
Begun(t) ==
    /\ pc' \in [Thread -> Label]
    /\ error' \in [Thread -> Status \cup {"none"}]
    /\ lastError' \in [Thread -> Text]
    /\ result' \in [Thread -> [status : Status \cup {"none", "ok", "refused"}, message : Text]]

LEMMA OutcomeType ==
    ASSUME TypeOK, NEW t \in Thread, Outcome(t)
    PROVE  Begun(t)
<1> USE DEF Begun, Goto, TypeOK
<1>0. NoMessage \in Text /\ {"idle", "build", "caught"} \subseteq Label
  BY DEF Text, Label
<1>1. CASE Refuse(t) /\ (ClearError(t) \/ UNCHANGED lastError)
  BY <1>0, <1>1, ResultType DEF Refuse, ClearError, Slot
<1>2. CASE GoOn(t) /\ ClearError(t)
  BY <1>0, <1>2, ResultType DEF GoOn, ClearError, Slot
<1>3. ASSUME NEW status \in Status, Throw(t, status) PROVE Begun(t)
  <2>1. Message(t, status) \in Text
    BY DEF Message, Text
  <2>2. QED
    BY <1>0, <1>3, <2>1, ResultType DEF Throw, Slot
<1>4. CASE Return(t)
  BY <1>0, <1>4, ResultType DEF Return, ClearError, Slot
<1>5. QED
  BY <1>1, <1>2, <1>3, <1>4 DEF Outcome

LEMMA EnterType ==
    ASSUME TypeOK, NEW t \in Thread, NEW c \in DeviceCall \cup {NoCall, SetCall},
           Enter(t, c)
    PROVE  /\ call' \in [Thread -> DeviceCall \cup {NoCall, SetCall}]
           /\ sent' \in [Thread -> Nat]
           /\ calls' \in Nat
  BY DEF TypeOK, Enter

LEMMA EffectiveType ==
    ASSUME TypeOK, NEW t \in Thread PROVE Effective(t) \in Nat \ {0}
  BY LaunchAssumption DEF TypeOK, Effective

\* A step of t changes nothing of the other threads' calls, and no launch of
\* theirs: what is left to show is about t.
Frame(t) == \A u \in Thread : u # t =>
    pc'[u] = pc[u] /\ call'[u] = call[u] /\ todo'[u] = todo[u] /\ fn'[u] = fn[u]
        /\ error'[u] = error[u]

LEMMA FrameHolds ==
    ASSUME LaunchInv, NEW t \in Thread, Frame(t),
           cache' = cache, DOMAIN attr \subseteq DOMAIN attr',
           pc'[t] \in Busy => call'[t] \in DeviceCall /\ todo'[t] # <<>>,
           pc'[t] \in {"attr", "launch"} =>
               fn'[t] \in DOMAIN attr' /\ fn'[t].code = Head(todo'[t]).code,
           pc'[t] \in {"finish", "caught"} => error'[t] \in Status,
           pc'[t] \in Busy =>
               \A i \in 1..Len(todo'[t]) : Fits(call'[t], todo'[t][i])
    PROVE  LabelInv' /\ CacheInv' /\ TodoInv'
<1>1. LabelInv'
  BY DEF LaunchInv, LabelInv, Frame
<1>2. CacheInv'
  BY DEF LaunchInv, CacheInv
<1>3. TodoInv'
  BY DEF LaunchInv, TodoInv, Frame
<1>4. QED
  BY <1>1, <1>2, <1>3

LEMMA SetDeviceStep ==
    ASSUME LaunchInv, NEW t \in Thread, NEW g \in Gpu, SetDevice(t, g)
    PROVE  LaunchInv'
<1>1. TypeOK'
  BY DEF LaunchInv, SetDevice, TypeOK, driver, errors
<1>2. LabelInv' /\ CacheInv' /\ TodoInv'
  BY DEF LaunchInv, SetDevice, LabelInv, CacheInv, TodoInv, driver, errors
<1>3. QED
  BY <1>1, <1>2 DEF LaunchInv

LEMMA CatchStep ==
    ASSUME LaunchInv, NEW t \in Thread, Catch(t) \/ Report(t) \/ HookCalls(t)
    PROVE  LaunchInv'
<1>1. CASE Catch(t)
  <2>1. error[t] \in Status
    BY <1>1 DEF LaunchInv, LabelInv, Catch
  <2>2. TypeOK'
    BY <1>1, <2>1 DEF LaunchInv, Catch, TypeOK, driver, Slot, Goto, Label, Text, Message
  <2>3. LabelInv' /\ CacheInv' /\ TodoInv'
    BY <1>1, <2>1, FrameHolds
       DEF Catch, driver, Goto, Frame, LaunchInv, TypeOK, Busy
  <2>4. QED
    BY <2>2, <2>3 DEF LaunchInv
<1>2. CASE Report(t)
  <2>1. error[t] \in Status
    BY <1>2 DEF LaunchInv, LabelInv, Report
  <2>2. TypeOK'
    BY <1>2, <2>1 DEF LaunchInv, Report, TypeOK, driver, Slot, Goto, Label, Text
  <2>3. LabelInv' /\ CacheInv' /\ TodoInv'
    BY <1>2, <2>1, FrameHolds
       DEF Report, driver, Goto, Frame, LaunchInv, TypeOK, Busy
  <2>4. QED
    BY <2>2, <2>3 DEF LaunchInv
<1>3. CASE HookCalls(t)
  <2>1. TypeOK'
    BY <1>3 DEF LaunchInv, HookCalls, TypeOK, driver, Slot, Text, Message, NoMessage
  <2>2. LabelInv' /\ CacheInv' /\ TodoInv'
    BY <1>3 DEF LaunchInv, HookCalls, LabelInv, CacheInv, TodoInv, driver
  <2>3. QED
    BY <2>1, <2>2 DEF LaunchInv
<1>4. QED
  BY <1>1, <1>2, <1>3

LEMMA SetNumSmsStep ==
    ASSUME LaunchInv, NEW t \in Thread, NEW n \in 0..MaxSms, SetNumSms(t, n)
    PROVE  LaunchInv'
<1>1. n \in Nat
  BY LaunchAssumption
<1>2. TypeOK'
  <2>1. Begun(t)
    BY OutcomeType DEF LaunchInv, SetNumSms, Outcome, Status
  <2>2. QED
    BY <1>1, <2>1, EnterType DEF LaunchInv, SetNumSms, TypeOK, driver, Begun
<1>3. LabelInv' /\ CacheInv' /\ TodoInv'
  <2>0. /\ call' = [call EXCEPT ![t] = SetCall]
        /\ Throw(t, "invalid") \/ Return(t)
        /\ UNCHANGED <<driver, current, todo, fn>>
    BY DEF SetNumSms, Enter
  <2>1. Frame(t) /\ cache' = cache /\ attr' = attr
    BY <2>0 DEF Throw, Return, Goto, driver, Frame, LaunchInv, TypeOK
  <2>2. \/ pc'[t] = "idle"
        \/ pc'[t] = "caught" /\ error'[t] = "invalid"
    BY <2>0 DEF Throw, Return, Goto, LaunchInv, TypeOK
  <2>3. QED
    BY <2>1, <2>2, FrameHolds DEF Busy, Status
<1>4. QED
  BY <1>2, <1>3 DEF LaunchInv

\* A call begins: it is refused, or throws, or its launches are fixed, for n SMs.
Starts(t, c, n) ==
    /\ Enter(t, c)
    /\ \/ Refuse(t) /\ (ClearError(t) \/ UNCHANGED lastError) /\ UNCHANGED todo
       \/ Throw(t, "invalid") /\ UNCHANGED todo
       \/ GoOn(t) /\ ClearError(t) /\ todo' = [todo EXCEPT ![t] = Program(c, n)]
    /\ UNCHANGED <<override, driver, current, fn>>

LEMMA BeginStarts ==
    ASSUME TypeOK, NEW t \in Thread, NEW c, Begin(t, c) \/ BeginPlan(t, c)
    PROVE  /\ c \in LaunchCall \cup PlanCall /\ Effective(t) \in Nat \ {0}
           /\ Starts(t, c, Effective(t))
<1>1. c \in LaunchCall \cup PlanCall /\ Effective(t) \in Nat \ {0}
  BY EffectiveType DEF Begin, BeginPlan
<1>2. CASE Begin(t, c)
  BY <1>1, <1>2 DEF Begin, Starts
<1>3. CASE BeginPlan(t, c)
  BY <1>1, <1>3 DEF BeginPlan, Starts
<1>4. QED
  BY <1>1, <1>2, <1>3

LEMMA PagedStarts ==
    ASSUME TypeOK, NEW t \in Thread, NEW s \in Stream, NEW p, BeginPaged(t, s, p)
    PROVE  /\ p \in plans /\ p \in Plan /\ p.sms \in Nat \ {0}
           /\ Starts(t, PagedCall(s), p.sms)
<1>1. p \in plans /\ p \in Plan /\ p.sms \in Nat \ {0}
  BY DEF BeginPaged, TypeOK, Plan
<1>2. Starts(t, PagedCall(s), p.sms)
  BY DEF BeginPaged, Starts
<1>3. QED
  BY <1>1, <1>2

LEMMA StartOutcome ==
    ASSUME NEW t, NEW c, NEW n, Starts(t, c, n) PROVE Outcome(t)
  BY DEF Starts, Outcome, Status

LEMMA StartStep ==
    ASSUME LaunchInv, NEW t \in Thread, NEW c \in DeviceCall, NEW n \in Nat \ {0},
           Starts(t, c, n)
    PROVE  LaunchInv'
<1>1. PICK p : /\ p = Program(c, n) /\ p \in Seq(LaunchSet) /\ p # <<>>
               /\ \A i \in 1..Len(p) : Fits(c, p[i])
  BY ProgramFits
<1>2. /\ Enter(t, c)
      /\ \/ Refuse(t) /\ UNCHANGED todo
         \/ Throw(t, "invalid") /\ UNCHANGED todo
         \/ GoOn(t) /\ todo' = [todo EXCEPT ![t] = p]
      /\ UNCHANGED <<override, driver, current, fn>>
  BY <1>1 DEF Starts
<1>3. TypeOK'
  <2>1. Begun(t)
    BY OutcomeType, StartOutcome DEF LaunchInv
  <2>2. todo' \in [Thread -> Seq(LaunchSet)]
    BY <1>1, <1>2 DEF LaunchInv, TypeOK
  <2>3. QED
    BY <1>2, <2>1, <2>2, EnterType DEF LaunchInv, TypeOK, driver, Begun
<1>4. LabelInv' /\ CacheInv' /\ TodoInv'
  <2>1. Frame(t)
    BY <1>2 DEF Enter, GoOn, Refuse, Throw, Goto, Frame, LaunchInv, TypeOK
  <2>2. \/ pc'[t] = "idle"
        \/ pc'[t] = "caught" /\ error'[t] = "invalid"
        \/ pc'[t] = "build" /\ todo'[t] = p
    BY <1>2 DEF GoOn, Refuse, Throw, Goto, LaunchInv, TypeOK
  <2>3. call'[t] = c /\ cache' = cache /\ attr' = attr
    BY <1>2 DEF Enter, driver, LaunchInv, TypeOK
  <2>4. QED
    BY <1>1, <2>1, <2>2, <2>3, FrameHolds DEF Busy, Status
<1>5. QED
  BY <1>3, <1>4 DEF LaunchInv

LEMMA BeginStep ==
    ASSUME LaunchInv, NEW t \in Thread, Call(t)
    PROVE  LaunchInv'
<1>0. TypeOK
  BY DEF LaunchInv
<1>1. ASSUME NEW c, Begin(t, c) \/ BeginPlan(t, c) PROVE LaunchInv'
  <2>1. c \in DeviceCall
    BY <1>0, <1>1, BeginStarts DEF DeviceCall
  <2>2. QED
    BY <1>0, <1>1, <2>1, BeginStarts, StartStep
<1>2. ASSUME NEW s \in Stream, NEW p, BeginPaged(t, s, p) PROVE LaunchInv'
  <2>1. PagedCall(s) \in DeviceCall
    BY DEF DeviceCall
  <2>2. QED
    BY <1>0, <1>2, <2>1, PagedStarts, StartStep
<1>3. QED
  BY <1>1, <1>2, SetDeviceStep, SetNumSmsStep DEF Call

LEMMA HeadType ==
    ASSUME LaunchInv, NEW t \in Thread, pc[t] \in Busy
    PROVE  /\ todo[t] \in Seq(LaunchSet) /\ todo[t] # <<>> /\ Head(todo[t]) = todo[t][1]
           /\ Head(todo[t]) \in LaunchSet /\ Fits(call[t], Head(todo[t]))
<1>1. todo[t] \in Seq(LaunchSet) /\ todo[t] # <<>>
  BY DEF LaunchInv, TypeOK, LabelInv
<1>2. Len(todo[t]) >= 1 /\ Head(todo[t]) = todo[t][1] /\ Head(todo[t]) \in LaunchSet
  BY <1>1
<1>3. QED
  BY <1>1, <1>2 DEF LaunchInv, TodoInv

LEMMA LookupStep ==
    ASSUME LaunchInv, NEW t \in Thread, Lookup(t)
    PROVE  LaunchInv'
<1>1. pc[t] \in Busy
  BY DEF Lookup, Busy
<1> DEFINE code == Head(todo[t]).code
<1>2. code \in DOMAIN cache =>
          cache[code] \in FnSet /\ cache[code] \in DOMAIN attr /\ cache[code].code = code
  BY DEF LaunchInv, CacheInv, TypeOK
<1>3. /\ \/ /\ code \in DOMAIN cache
            /\ fn' = [fn EXCEPT ![t] = cache[code]] /\ pc' = [pc EXCEPT ![t] = "attr"]
         \/ UNCHANGED fn /\ pc' = [pc EXCEPT ![t] = "load"]
      /\ UNCHANGED <<override, driver, current, call, todo, errors, sent, calls>>
  BY DEF Lookup, Goto
<1>4. call[t] \in DeviceCall /\ todo[t] # <<>> /\
      \A i \in 1..Len(todo[t]) : Fits(call[t], todo[t][i])
  BY <1>1 DEF LaunchInv, LabelInv, TodoInv
<1> HIDE DEF code
<1>5. TypeOK'
  BY <1>2, <1>3 DEF LaunchInv, TypeOK, driver, errors, Label
<1>6. LabelInv' /\ CacheInv' /\ TodoInv'
  <2>1. Frame(t)
    BY <1>3 DEF Frame, errors, LaunchInv, TypeOK
  <2>2. pc'[t] = "attr" => fn'[t] \in DOMAIN attr' /\ fn'[t].code = Head(todo'[t]).code
    BY <1>2, <1>3 DEF driver, LaunchInv, TypeOK, code
  <2>3. QED
    BY <1>3, <1>4, <2>1, <2>2, FrameHolds DEF driver, errors, LaunchInv, TypeOK
<1>7. QED
  BY <1>5, <1>6 DEF LaunchInv

\* A function that is loaded becomes the one of its code; those that are in use
\* stay in attr.
LEMMA LoadStep ==
    ASSUME LaunchInv, NEW t \in Thread, Load(t)
    PROVE  LaunchInv'
<1> DEFINE code == Head(todo[t]).code
           f == Fn(code, t, current[t])
<1>1. /\ pc[t] = "load"
      /\ fn' = [fn EXCEPT ![t] = f]
      /\ cache' = [c \in DOMAIN cache \cup {code} |-> IF c = code THEN f ELSE cache[c]]
      /\ attr' = [h \in DOMAIN attr \cup {f} |-> IF h = f THEN 0 ELSE attr[h]]
      /\ pc' = [pc EXCEPT ![t] = "attr"]
      /\ UNCHANGED <<override, queue, plans, current, call, todo, errors, sent, calls>>
  BY DEF Load, Goto
<1>2. code \in CodeSet /\ todo[t] # <<>> /\ call[t] \in DeviceCall
  BY <1>1, HeadType DEF Busy, LaunchSet, LaunchInv, LabelInv
<1>3. f \in FnSet /\ f.code = code
  BY <1>2 DEF Fn, FnSet, LaunchInv, TypeOK
<1> HIDE DEF code, f
<1>4. DOMAIN cache' = DOMAIN cache \cup {code} /\ DOMAIN attr' = DOMAIN attr \cup {f}
  BY <1>1
<1>5. TypeOK'
  <2>1. cache' \in [DOMAIN cache' -> FnSet] /\ DOMAIN cache' \subseteq CodeSet
    BY <1>1, <1>2, <1>3, <1>4 DEF LaunchInv, TypeOK
  <2>2. attr' \in [DOMAIN attr' -> Nat] /\ DOMAIN attr' \subseteq FnSet
    BY <1>1, <1>3, <1>4 DEF LaunchInv, TypeOK
  <2>3. fn' \in [Thread -> FnSet \cup {NoFn}] /\ pc' \in [Thread -> Label]
    BY <1>1, <1>3 DEF LaunchInv, TypeOK, Label
  <2>4. QED
    BY <1>1, <2>1, <2>2, <2>3 DEF LaunchInv, TypeOK, errors
<1>6. CacheInv'
  BY <1>1, <1>3, <1>4 DEF LaunchInv, CacheInv
<1>7. LabelInv'
  <2>1. ASSUME NEW u \in Thread, u # t
        PROVE  pc'[u] = pc[u] /\ fn'[u] = fn[u] /\ todo'[u] = todo[u]
               /\ call'[u] = call[u] /\ error'[u] = error[u]
    BY <1>1, <2>1 DEF errors, LaunchInv, TypeOK
  <2>2. fn'[t] = f /\ pc'[t] = "attr" /\ todo'[t] = todo[t] /\ call'[t] = call[t]
    BY <1>1 DEF LaunchInv, TypeOK
  <2>3. QED
    BY <1>2, <1>3, <1>4, <2>1, <2>2 DEF LaunchInv, LabelInv, code
<1>8. TodoInv'
  BY <1>1 DEF LaunchInv, TodoInv, TypeOK, Busy
<1>9. QED
  BY <1>5, <1>6, <1>7, <1>8 DEF LaunchInv

LEMMA LoadFailsStep ==
    ASSUME LaunchInv, NEW t \in Thread, LoadFails(t) \/ LaunchRejected(t)
    PROVE  LaunchInv'
<1>1. CASE LoadFails(t)
  <2>1. TypeOK'
    BY <1>1 DEF LoadFails, Goto, LaunchInv, TypeOK, driver, Label, Status
  <2>2. LabelInv' /\ CacheInv' /\ TodoInv'
    BY <1>1, FrameHolds DEF LoadFails, Goto, driver, Frame, LaunchInv, TypeOK, Busy, Status
  <2>3. QED
    BY <2>1, <2>2 DEF LaunchInv
<1>2. CASE LaunchRejected(t)
  <2>1. TypeOK'
    <3>1. Begun(t)
      BY <1>2, OutcomeType DEF LaunchInv, LaunchRejected, Outcome, Status
    <3>2. QED
      BY <1>2, <3>1 DEF LaunchRejected, LaunchInv, TypeOK, driver, Begun
  <2>2. LabelInv' /\ CacheInv' /\ TodoInv'
    BY <1>2, FrameHolds DEF LaunchRejected, Throw, Goto, driver, Frame, LaunchInv,
       TypeOK, Busy, Status
  <2>3. QED
    BY <2>1, <2>2 DEF LaunchInv
<1>3. QED
  BY <1>1, <1>2

LEMMA SetAttributeStep ==
    ASSUME LaunchInv, NEW t \in Thread, SetAttribute(t)
    PROVE  LaunchInv'
<1>1. /\ pc[t] = "attr" /\ pc' = [pc EXCEPT ![t] = "launch"]
      /\ attr' = [attr EXCEPT ![fn[t]] = Head(todo[t]).smem]
      /\ UNCHANGED <<override, cache, queue, plans, current, call, todo, fn, errors,
                     sent, calls>>
  BY DEF SetAttribute, Goto
<1>2. /\ Head(todo[t]).smem \in Nat /\ call[t] \in DeviceCall /\ todo[t] # <<>>
      /\ fn[t] \in DOMAIN attr /\ fn[t].code = Head(todo[t]).code
      /\ \A i \in 1..Len(todo[t]) : Fits(call[t], todo[t][i])
  BY <1>1, HeadType DEF Busy, LaunchSet, LaunchInv, LabelInv, TodoInv
<1>3. DOMAIN attr' = DOMAIN attr /\ attr' \in [DOMAIN attr -> Nat]
  BY <1>1, <1>2 DEF LaunchInv, TypeOK
<1>4. TypeOK'
  BY <1>1, <1>3 DEF LaunchInv, TypeOK, errors, Label
<1>5. Frame(t) /\ pc'[t] = "launch"
  BY <1>1 DEF Frame, errors, LaunchInv, TypeOK
<1>6. LabelInv' /\ CacheInv' /\ TodoInv'
  BY <1>1, <1>2, <1>3, <1>5, FrameHolds
<1>7. QED
  BY <1>4, <1>6 DEF LaunchInv

\* What a launch that is accepted adds to its stream, and leaves to do.
LEMMA LaunchKernelEffect ==
    ASSUME LaunchInv, NEW t \in Thread, LaunchKernel(t)
    PROVE  /\ call[t] \in DeviceCall /\ call[t].stream \in Stream
           /\ Fits(call[t], Head(todo[t])) /\ Head(todo[t]) \in LaunchSet
           /\ queue' = [queue EXCEPT ![call[t].stream] = Append(@, Head(todo[t]))]
           /\ todo' = [todo EXCEPT ![t] = Tail(todo[t])]
           /\ todo'[t] \in Seq(LaunchSet)
           /\ \A i \in 1..Len(todo'[t]) : todo'[t][i] = todo[t][i + 1]
           /\ Len(todo[t]) # 1 => Len(todo'[t]) > 0
           /\ Len(todo'[t]) = Len(todo[t]) - 1
<1>1. pc[t] = "launch" /\ pc[t] \in Busy
  BY DEF LaunchKernel, Busy
<1>2. call[t] \in DeviceCall /\ call[t].stream \in Stream
  BY <1>1 DEF LaunchInv, LabelInv, DeviceCall, LaunchCall, PlanCall, PagedCall
<1> DEFINE l == Head(todo[t])
<1>3. todo[t] \in Seq(LaunchSet) /\ todo[t] # <<>> /\ l \in LaunchSet /\ Fits(call[t], l)
  BY <1>1, HeadType
<1>4. [l EXCEPT !.code = fn[t].code, !.grid = Grid(t)] = l
  <2>1. fn[t].code = l.code /\ Grid(t) = l.grid
    BY <1>1 DEF LaunchInv, LabelInv, Grid
  <2>2. QED
    BY <1>3, <2>1 DEF LaunchSet
<1>5. queue' = [queue EXCEPT ![call[t].stream] = Append(@, l)]
  BY <1>4 DEF LaunchKernel
<1>6. todo' = [todo EXCEPT ![t] = Tail(todo[t])] /\ todo'[t] = Tail(todo[t])
  BY DEF LaunchKernel, LaunchInv, TypeOK
<1>7. /\ Tail(todo[t]) \in Seq(LaunchSet)
      /\ Len(Tail(todo[t])) = Len(todo[t]) - 1
      /\ \A i \in 1..Len(Tail(todo[t])) : Tail(todo[t])[i] = todo[t][i + 1]
      /\ Len(todo[t]) \in Nat \ {0}
  BY <1>3
<1>8. Len(todo[t]) # 1 => Len(todo'[t]) > 0
  <2> DEFINE k == Len(todo[t])
             m == Len(todo'[t])
  <2>1. k \in Nat \ {0} /\ m = k - 1
    BY <1>6, <1>7
  <2> HIDE DEF k, m
  <2>2. k # 1 => m > 0
    BY <2>1
  <2>3. QED
    BY <2>2 DEF k, m
<1>9. \A i \in 1..Len(todo'[t]) : todo'[t][i] = todo[t][i + 1]
  BY <1>6, <1>7
<1>10. todo'[t] \in Seq(LaunchSet) /\ Len(todo'[t]) = Len(todo[t]) - 1
  BY <1>6, <1>7
<1>11. QED
  BY <1>2, <1>3, <1>5, <1>6, <1>8, <1>9, <1>10

LEMMA LaunchKernelStep ==
    ASSUME LaunchInv, NEW t \in Thread, LaunchKernel(t)
    PROVE  LaunchInv'
<1> DEFINE s == call[t].stream
<1>0. /\ pc[t] = "launch" /\ sent' = [sent EXCEPT ![t] = @ + 1]
      /\ plans' = IF call[t].op # "plan" THEN plans
                  ELSE plans \cup {[stream |-> s, sms |-> Head(todo[t]).code.sms]}
      /\ fn' = [fn EXCEPT ![t] = NoFn]
      /\ \/ Len(todo[t]) = 1 /\ Return(t)
         \/ Len(todo[t]) # 1 /\ Goto(t, "build") /\ UNCHANGED errors
      /\ UNCHANGED <<override, cache, attr, current, call, calls>>
  BY DEF LaunchKernel
<1>1. /\ call[t] \in DeviceCall /\ s \in Stream
      /\ Fits(call[t], Head(todo[t])) /\ Head(todo[t]) \in LaunchSet
      /\ queue' = [queue EXCEPT ![s] = Append(@, Head(todo[t]))]
      /\ todo' = [todo EXCEPT ![t] = Tail(todo[t])]
      /\ todo'[t] \in Seq(LaunchSet)
      /\ \A i \in 1..Len(todo'[t]) : todo'[t][i] = todo[t][i + 1]
      /\ Len(todo[t]) # 1 => Len(todo'[t]) > 0
      /\ Len(todo'[t]) = Len(todo[t]) - 1
  BY LaunchKernelEffect
<1>2. TypeOK'
  <2>1. Begun(t)
    <3>1. CASE Return(t)
      BY <3>1, OutcomeType DEF LaunchInv, Outcome
    <3>2. CASE Goto(t, "build") /\ UNCHANGED errors
      BY <3>2 DEF LaunchInv, TypeOK, Begun, errors, Goto, Label
    <3>3. QED
      BY <1>0, <3>1, <3>2
  <2>2. queue' \in [Stream -> Seq(LaunchSet)]
    BY <1>1 DEF LaunchInv, TypeOK
  <2>3. plans' \subseteq Plan
    <3>1. Head(todo[t]).code.sms \in Nat
      BY <1>1 DEF LaunchSet, CodeSet
    <3>2. call[t].op = "plan" => Head(todo[t]).code.sms # 0
      BY <1>1 DEF Fits
    <3>3. QED
      BY <1>0, <1>1, <3>1, <3>2 DEF LaunchInv, TypeOK, Plan
  <2>4. todo' \in [Thread -> Seq(LaunchSet)] /\ fn' \in [Thread -> FnSet \cup {NoFn}]
        /\ sent' \in [Thread -> Nat]
    BY <1>0, <1>1 DEF LaunchInv, TypeOK
  <2>5. QED
    BY <1>0, <2>1, <2>2, <2>3, <2>4 DEF LaunchInv, TypeOK, Begun
<1>3. LabelInv' /\ CacheInv' /\ TodoInv'
  <2>1. Frame(t)
    BY <1>0, <1>1 DEF Frame, Return, Goto, errors, LaunchInv, TypeOK
  <2>2. pc'[t] = "idle" \/ (pc'[t] = "build" /\ Len(todo[t]) # 1)
    BY <1>0 DEF Return, Goto, LaunchInv, TypeOK
  <2>3. \A i \in 1..Len(todo'[t]) : Fits(call[t], todo'[t][i])
    <3>1. \A i \in 1..Len(todo[t]) : Fits(call[t], todo[t][i])
      BY <1>0 DEF LaunchInv, TodoInv, Busy
    <3>2. Len(todo[t]) \in Nat
      BY DEF LaunchInv, TypeOK
    <3>3. QED
      BY <1>1, <3>1, <3>2
  <2>4. pc'[t] = "build" => todo'[t] # <<>>
    <3>1. pc'[t] = "build" => Len(todo'[t]) > 0
      BY <1>1, <2>2
    <3>2. QED
      BY <3>1
  <2>5. QED
    BY <1>0, <1>1, <2>1, <2>2, <2>3, <2>4, FrameHolds DEF Busy
<1>4. QED
  BY <1>2, <1>3 DEF LaunchInv

LEMMA LaunchStep == LaunchInv /\ [Next]_vars => LaunchInv'
<1> SUFFICES ASSUME LaunchInv, [Next]_vars PROVE LaunchInv'
  OBVIOUS
<1>1. CASE UNCHANGED vars
  BY <1>1 DEF vars, LaunchInv, TypeOK, LabelInv, CacheInv, TodoInv
<1>2. ASSUME NEW t \in Thread, Call(t) PROVE LaunchInv'
  BY <1>2, BeginStep
<1>3. ASSUME NEW t \in Thread, Step(t) PROVE LaunchInv'
  BY <1>3, LookupStep, LoadStep, LoadFailsStep, CatchStep,
     SetAttributeStep, LaunchKernelStep DEF Step
<1>4. QED
  BY <1>1, <1>2, <1>3 DEF Next, Done

LEMMA LaunchInvariant == Spec => []LaunchInv
  BY LaunchInit, LaunchStep, PTL DEF Spec

\* The state of the launching threads keeps its types: in particular every call
\* knows a positive SM count and a loaded function before it launches.
THEOREM TypeCorrect == Spec => []TypeOK
<1>1. LaunchInv => TypeOK
  BY DEF LaunchInv
<1>2. QED
  BY <1>1, LaunchInvariant, PTL

-----------------------------------------------------------------------------
(* Grids *)

LEMMA QueueStep ==
    ASSUME LaunchInv, [Next]_vars
    PROVE  \/ queue' = queue /\ plans' = plans
           \/ \E t \in Thread : LaunchKernel(t)
<1> USE DEF driver
<1>1. CASE UNCHANGED vars
  BY <1>1 DEF vars
<1>2. ASSUME NEW t \in Thread, Call(t) PROVE queue' = queue /\ plans' = plans
  BY <1>2 DEF Call, SetDevice, BeginPaged, SetNumSms, Begin, BeginPlan
<1>3. ASSUME NEW t \in Thread, Step(t), ~LaunchKernel(t)
      PROVE  queue' = queue /\ plans' = plans
  BY <1>3 DEF Step, Lookup, Load, LoadFails, HookCalls, SetAttribute,
              LaunchRejected, Catch, Report
<1>4. QED
  BY <1>1, <1>2, <1>3 DEF Next, Done

LEMMA GridStep == LaunchInv /\ GridMatchesCode /\ [Next]_vars => GridMatchesCode'
<1> SUFFICES ASSUME LaunchInv, GridMatchesCode, [Next]_vars PROVE GridMatchesCode'
  OBVIOUS
<1>1. CASE queue' = queue
  BY <1>1 DEF GridMatchesCode
<1>2. ASSUME NEW t \in Thread, LaunchKernel(t) PROVE GridMatchesCode'
  <2> DEFINE c == call[t].stream
             l == Head(todo[t])
  <2>1. /\ queue' = [queue EXCEPT ![c] = Append(queue[c], l)] /\ c \in Stream
        /\ Fits(call[t], l) /\ l \in LaunchSet
    BY <1>2, LaunchKernelEffect
  <2> HIDE DEF c, l
  <2>2. ASSUME NEW s \in Stream, NEW i \in 1..Len(queue'[s]),
               queue'[s][i].code.kernel \in {"mqa", "gemm"}
        PROVE  queue'[s][i].grid = queue'[s][i].code.sms
    <3>0. queue[s] \in Seq(LaunchSet)
      BY DEF LaunchInv, TypeOK
    <3>1. CASE s # c
      BY <2>1, <2>2, <3>1 DEF GridMatchesCode, LaunchInv, TypeOK
    <3>2. CASE s = c
      <4>1. queue'[s] = Append(queue[s], l)
        BY <2>1, <3>2 DEF LaunchInv, TypeOK
      <4>2. CASE i = Len(queue[s]) + 1
        <5>1. queue'[s][i] = l
          BY <2>1, <3>0, <4>1, <4>2
        <5>2. QED
          BY <2>1, <2>2, <5>1 DEF Fits
      <4>3. CASE i \in 1..Len(queue[s])
        <5>1. queue'[s][i] = queue[s][i]
          BY <2>1, <3>0, <4>1, <4>3
        <5>2. QED
          BY <2>2, <4>3, <5>1 DEF GridMatchesCode
      <4>4. QED
        BY <2>1, <3>0, <4>1, <4>2, <4>3
    <3>3. QED
      BY <3>1, <3>2
  <2>3. QED
    BY <2>2 DEF GridMatchesCode
<1>3. QED
  BY <1>1, <1>2, QueueStep

\* Whatever set_num_sms does meanwhile, a kernel runs with the number of blocks
\* it was compiled for, for any threads, GPUs and SM counts.
THEOREM GridsMatch == Spec => []GridMatchesCode
<1>1. Init => GridMatchesCode
  BY DEF Init, GridMatchesCode
<1>2. QED
  BY <1>1, GridStep, LaunchInvariant, PTL DEF Spec

-----------------------------------------------------------------------------
(* Errors *)

ErrorInv == \A t \in Thread :
    /\ pc[t] = "caught" => lastError[t] = Message(t, error[t])
    /\ result[t].status \in Status => result[t].message = Message(t, result[t].status)

LEMMA NoErrorResult ==
    None.status \notin Status /\ Ok.status \notin Status /\ Refused.status \notin Status
  BY DEF None, Ok, Refused, Status

\* A step of t that goes on or ends its call: only its own text changes.
LEMMA OutcomeError ==
    ASSUME TypeOK, ErrorInv, NEW t \in Thread, pc[t] # "caught", Outcome(t)
    PROVE  ErrorInv'
<1>1. /\ \A u \in Thread : u # t => pc'[u] = pc[u] /\ lastError'[u] = lastError[u]
             /\ error'[u] = error[u] /\ result'[u] = result[u]
      /\ result'[t] \in {None, Ok, Refused}
      /\ pc'[t] = "caught" => lastError'[t] = Message(t, error'[t])
  BY DEF TypeOK, Outcome, Refuse, GoOn, Throw, Return, ClearError, Goto, Slot
<1>2. QED
  BY <1>1, NoErrorResult DEF ErrorInv

LEMMA ErrorStep == LaunchInv /\ ErrorInv /\ [Next]_vars => ErrorInv'
<1> SUFFICES ASSUME LaunchInv, ErrorInv, [Next]_vars PROVE ErrorInv'
  OBVIOUS
<1>0. TypeOK
  BY DEF LaunchInv
<1>1. CASE UNCHANGED vars
  BY <1>1 DEF vars, ErrorInv
<1>2. ASSUME NEW t \in Thread, NEW g \in Gpu, SetDevice(t, g) PROVE ErrorInv'
  BY <1>2 DEF SetDevice, errors, ErrorInv
<1>3. ASSUME NEW t \in Thread, NEW n \in 0..MaxSms, SetNumSms(t, n) PROVE ErrorInv'
  <2>1. Outcome(t) /\ pc[t] # "caught"
    BY <1>3 DEF SetNumSms, Enter, Outcome, Status
  <2>2. QED
    BY <1>0, <2>1, OutcomeError
<1>4. ASSUME NEW t \in Thread, NEW c, NEW n, Starts(t, c, n) PROVE ErrorInv'
  <2>1. Outcome(t) /\ pc[t] # "caught"
    BY <1>4, StartOutcome DEF Starts, Enter
  <2>2. QED
    BY <1>0, <2>1, OutcomeError
<1>5. ASSUME NEW t \in Thread, Call(t) PROVE ErrorInv'
  BY <1>0, <1>2, <1>3, <1>4, <1>5, BeginStarts, PagedStarts DEF Call
<1>6. ASSUME NEW t \in Thread, Lookup(t) \/ Load(t) \/ SetAttribute(t) PROVE ErrorInv'
  BY <1>0, <1>6 DEF Lookup, Load, SetAttribute, errors, Goto, ErrorInv, TypeOK
<1>7. ASSUME NEW t \in Thread, LoadFails(t) PROVE ErrorInv'
  BY <1>0, <1>7 DEF LoadFails, Goto, ErrorInv, TypeOK
<1>8. ASSUME NEW t \in Thread, HookCalls(t) PROVE ErrorInv'
  BY <1>0, <1>8 DEF HookCalls, Slot, ErrorInv, TypeOK
<1>9. ASSUME NEW t \in Thread, LaunchKernel(t) PROVE ErrorInv'
  <2>1. CASE Return(t)
    BY <1>0, <1>9, <2>1, OutcomeError DEF LaunchKernel, Outcome
  <2>2. CASE Goto(t, "build") /\ UNCHANGED errors
    BY <1>0, <2>2 DEF errors, Goto, ErrorInv, TypeOK
  <2>3. QED
    BY <1>9, <2>1, <2>2 DEF LaunchKernel
<1>10. ASSUME NEW t \in Thread, LaunchRejected(t) PROVE ErrorInv'
  BY <1>0, <1>10, OutcomeError DEF LaunchRejected, Outcome, Status
<1>11. ASSUME NEW t \in Thread, Catch(t) PROVE ErrorInv'
  BY <1>0, <1>11 DEF Catch, Slot, Goto, ErrorInv, TypeOK
<1>12. ASSUME NEW t \in Thread, Report(t) PROVE ErrorInv'
  <2>1. /\ pc[t] = "caught" /\ pc' = [pc EXCEPT ![t] = "idle"]
        /\ result' = [result EXCEPT ![t] = [status |-> error[t], message |-> lastError[t]]]
        /\ error' = [error EXCEPT ![t] = "none"] /\ lastError' = lastError
    BY <1>12 DEF Report, Slot, Goto
  <2>2. lastError[t] = Message(t, error[t])
    BY <2>1 DEF ErrorInv
  <2>3. QED
    BY <1>0, <2>1, <2>2 DEF ErrorInv, TypeOK
<1>13. QED
  BY <1>1, <1>5, <1>6, <1>7, <1>8, <1>9, <1>10, <1>11, <1>12 DEF Next, Step, Done

\* The text of an error is that of the caller's own failed call, for any threads
\* that fail together and any calls the hook makes in between.
THEOREM ErrorsAreOwn == Spec => []ErrorIsOwn
<1>1. Init => ErrorInv
  BY NoErrorResult DEF Init, ErrorInv
<1>2. ErrorInv => ErrorIsOwn
  BY DEF ErrorInv, ErrorIsOwn
<1>3. QED
  BY <1>1, <1>2, ErrorStep, LaunchInvariant, PTL DEF Spec

-----------------------------------------------------------------------------
(* Schedules *)

\* The schedule of a plan was enqueued on its stream, and a paged launch that is
\* still to be made has a plan.
PlansInv == \A p \in plans : \E j \in 1..Len(queue[p.stream]) :
    queue[p.stream][j].code.kernel = "metadata" /\ queue[p.stream][j].code.sms = p.sms

PagedInv == \A t \in Thread : pc[t] \in Busy =>
    \A i \in 1..Len(todo[t]) : todo[t][i].code.kernel = "paged" =>
        [stream |-> call[t].stream, sms |-> todo[t][i].grid] \in plans

ScheduleInv == PlansInv /\ PagedInv /\ ScheduleFits

LEMMA PagedProgram ==
    ASSUME NEW s \in Stream, NEW n \in Nat \ {0}
    PROVE  /\ Len(Program(PagedCall(s), n)) = 1
           /\ Program(PagedCall(s), n)[1].grid = n
<1>1. Program(PagedCall(s), n) = <<PagedLaunch(GpuOf[s], n)>>
  BY DEF Program, PagedCall
<1>2. QED
  BY <1>1 DEF PagedLaunch, Launch

LEMMA OtherProgram ==
    ASSUME NEW c \in LaunchCall \cup PlanCall, NEW n \in Nat \ {0}
    PROVE  \A i \in 1..Len(Program(c, n)) : Program(c, n)[i].code.kernel # "paged"
<1>1. c \in DeviceCall /\ c.op # "paged"
  BY DEF DeviceCall, LaunchCall, PlanCall
<1>2. QED
  BY <1>1, ProgramFits DEF Fits

\* A step that makes no launch leaves the streams and the plans, and only
\* BeginPaged leaves a paged launch to be made.
LEMMA NoLaunchStep ==
    ASSUME LaunchInv, ScheduleInv, [Next]_vars, \A t \in Thread : ~LaunchKernel(t)
    PROVE  ScheduleInv'
<1>1. queue' = queue /\ plans' = plans
  BY QueueStep
<1>2. PlansInv' /\ ScheduleFits'
  BY <1>1 DEF ScheduleInv, PlansInv, ScheduleFits
<1>3. PagedInv'
  <2> SUFFICES ASSUME NEW u \in Thread, pc'[u] \in Busy,
                      NEW i \in 1..Len(todo'[u]), todo'[u][i].code.kernel = "paged"
               PROVE  [stream |-> call'[u].stream, sms |-> todo'[u][i].grid] \in plans
    BY <1>1 DEF PagedInv
  <2>1. CASE pc[u] \in Busy /\ todo'[u] = todo[u] /\ call'[u] = call[u]
    BY <2>1 DEF ScheduleInv, PagedInv
  <2>2. ASSUME ~(pc[u] \in Busy /\ todo'[u] = todo[u] /\ call'[u] = call[u])
        PROVE  \/ \E c \in LaunchCall : Begin(u, c)
               \/ \E c \in PlanCall : BeginPlan(u, c)
               \/ \E s \in Stream, p \in plans : BeginPaged(u, s, p)
    <3> USE DEF LaunchInv, TypeOK, Busy, Goto, Enter, Refuse, GoOn, Throw, Return
    <3>1. CASE UNCHANGED vars
      BY <2>2, <3>1 DEF vars
    <3>2. ASSUME NEW t \in Thread, \E g \in Gpu : SetDevice(t, g) PROVE FALSE
      BY <2>2, <3>2 DEF SetDevice
    <3>3. ASSUME NEW t \in Thread, \E n \in 0..MaxSms : SetNumSms(t, n) PROVE FALSE
      BY <2>2, <3>3 DEF SetNumSms
    <3>4. ASSUME NEW t \in Thread, Step(t) PROVE FALSE
      <4>1. /\ pc'[u] \in Busy => pc[u] \in Busy
            /\ call' = call
            /\ pc'[u] \in Busy => todo'[u] = todo[u]
        BY <3>4 DEF Step, Lookup, Load, LoadFails, HookCalls, SetAttribute,
                    LaunchRejected, Catch, Report
      <4>2. QED
        BY <2>2, <4>1
    <3>5. ASSUME NEW t \in Thread, t # u, NEW c, NEW n, Starts(t, c, n) PROVE FALSE
      BY <2>2, <3>5 DEF Starts
    <3>6. ASSUME NEW t \in Thread, Call(t)
          PROVE  \/ \E c \in LaunchCall : Begin(u, c)
                 \/ \E c \in PlanCall : BeginPlan(u, c)
                 \/ \E s \in Stream, p \in plans : BeginPaged(u, s, p)
      <4>1. \/ \E c \in LaunchCall : Begin(t, c)
            \/ \E c \in PlanCall : BeginPlan(t, c)
            \/ \E s \in Stream, p \in plans : BeginPaged(t, s, p)
        BY <3>2, <3>3, <3>6, Zenon DEF Call
      <4>2. \E c, n : Starts(t, c, n)
        <5>1. TypeOK
          BY DEF LaunchInv
        <5>2. QED
          BY <4>1, <5>1, BeginStarts, PagedStarts, Zenon
      <4>3. t = u
        BY <3>5, <4>2, Zenon
      <4>4. QED
        BY <4>1, <4>3, Zenon
    <3>7. QED
      BY <3>1, <3>4, <3>6, Zenon DEF Next, Done
  <2>3. ASSUME NEW c, Begin(u, c) \/ BeginPlan(u, c) PROVE FALSE
    <3>1. /\ c \in LaunchCall \cup PlanCall /\ Effective(u) \in Nat \ {0}
          /\ Starts(u, c, Effective(u))
      BY <2>3, BeginStarts DEF LaunchInv
    <3>2. PICK q : q = Program(c, Effective(u))
                   /\ \A k \in 1..Len(q) : q[k].code.kernel # "paged"
      BY <3>1, OtherProgram
    <3>3. pc'[u] \in {"idle", "caught"} \/ todo' = [todo EXCEPT ![u] = q]
      BY <3>1, <3>2 DEF Starts, Refuse, Throw, Goto, LaunchInv, TypeOK
    <3>4. todo'[u] = q
      BY <3>3 DEF Busy, LaunchInv, TypeOK
    <3>5. QED
      BY <3>2, <3>4
  <2>4. ASSUME NEW s \in Stream, NEW p \in plans, BeginPaged(u, s, p)
        PROVE  [stream |-> call'[u].stream, sms |-> todo'[u][i].grid] \in plans
    <3>1. p.sms \in Nat \ {0} /\ p \in Plan /\ Starts(u, PagedCall(s), p.sms)
      BY <2>4, PagedStarts DEF LaunchInv
    <3>2. PICK q : q = Program(PagedCall(s), p.sms) /\ Len(q) = 1 /\ q[1].grid = p.sms
      BY <3>1, PagedProgram
    <3>3. pc'[u] \notin {"idle", "caught"}
      BY DEF Busy
    <3>4. s = p.stream
      <4>1. CASE ~SameDevice(s, p.stream)
        <5>1. Refuse(u)
          BY <2>4, <4>1 DEF BeginPaged
        <5>2. QED
          BY <3>3, <5>1 DEF Refuse, Goto, LaunchInv, TypeOK
      <4>2. QED
        BY <4>1 DEF SameDevice
    <3>5. call' = [call EXCEPT ![u] = PagedCall(s)]
      BY <3>1 DEF Starts, Enter
    <3>6. todo' = [todo EXCEPT ![u] = q]
      BY <3>1, <3>2, <3>3 DEF Starts, Refuse, Throw, Goto, LaunchInv, TypeOK
    <3>7. todo'[u] = q /\ call'[u] = PagedCall(s)
      BY <3>5, <3>6 DEF LaunchInv, TypeOK
    <3>8. i = 1
      BY <3>2, <3>7
    <3>9. todo'[u][i].grid = p.sms /\ call'[u].stream = s
      <4>1. PagedCall(s).stream = s
        BY DEF PagedCall
      <4>2. todo'[u][i].grid = p.sms
        BY <3>2, <3>7, <3>8
      <4>3. QED
        BY <3>7, <4>1, <4>2
    <3>10. [stream |-> s, sms |-> p.sms] = p
      BY <3>1, <3>4 DEF Plan
    <3>11. QED
      BY <3>9, <3>10
  <2>5. QED
    BY <2>1, <2>2, <2>3, <2>4
<1>4. QED
  BY <1>2, <1>3 DEF ScheduleInv

LEMMA LaunchScheduleStep ==
    ASSUME LaunchInv, ScheduleInv, NEW t \in Thread, LaunchKernel(t)
    PROVE  ScheduleInv'
<1> DEFINE c == call[t].stream
           l == Head(todo[t])
<1>1. /\ queue' = [queue EXCEPT ![c] = Append(queue[c], l)] /\ c \in Stream
      /\ Fits(call[t], l) /\ l \in LaunchSet
      /\ todo' = [todo EXCEPT ![t] = Tail(todo[t])]
      /\ \A i \in 1..Len(todo'[t]) : todo'[t][i] = todo[t][i + 1]
      /\ Len(todo'[t]) = Len(todo[t]) - 1
  BY LaunchKernelEffect
<1>2. /\ pc[t] = "launch" /\ call' = call
      /\ plans' = IF call[t].op # "plan" THEN plans
                  ELSE plans \cup {[stream |-> c, sms |-> l.code.sms]}
  BY DEF LaunchKernel
<1>3. todo[t] \in Seq(LaunchSet) /\ todo[t] # <<>> /\ l = todo[t][1]
  BY <1>2, HeadType DEF Busy
<1> HIDE DEF c, l
<1>4. plans \subseteq plans'
  BY <1>2
<1>5. ASSUME NEW s \in Stream
      PROVE  /\ Len(queue[s]) \in Nat /\ Len(queue'[s]) \in Nat
             /\ Len(queue[s]) <= Len(queue'[s])
             /\ \A i \in 1..Len(queue[s]) : queue'[s][i] = queue[s][i]
             /\ \A i \in 1..Len(queue'[s]) :
                    i \notin 1..Len(queue[s]) => s = c /\ queue'[s][i] = l
  <2>1. queue[s] \in Seq(LaunchSet)
    BY DEF LaunchInv, TypeOK
  <2>2. CASE s = c
    <3>1. queue'[s] = Append(queue[s], l)
      BY <1>1, <2>2 DEF LaunchInv, TypeOK
    <3>2. QED
      BY <1>1, <2>1, <2>2, <3>1
  <2>3. CASE s # c
    <3>1. queue'[s] = queue[s]
      BY <1>1, <2>3 DEF LaunchInv, TypeOK
    <3>2. QED
      BY <2>1, <3>1
  <2>4. QED
    BY <2>2, <2>3
<1>6. l \in LaunchSet /\ queue'[c][Len(queue'[c])] = l /\ Len(queue'[c]) >= 1
  <2>1. queue[c] \in Seq(LaunchSet) /\ queue'[c] = Append(queue[c], l)
    BY <1>1 DEF LaunchInv, TypeOK
  <2>2. QED
    BY <1>1, <2>1
<1>7. PlansInv'
  <2> SUFFICES ASSUME NEW p \in plans'
               PROVE  \E j \in 1..Len(queue'[p.stream]) :
                          /\ queue'[p.stream][j].code.kernel = "metadata"
                          /\ queue'[p.stream][j].code.sms = p.sms
    BY DEF PlansInv
  <2>1. CASE p \in plans
    <3>1. p.stream \in Stream
      BY <2>1 DEF LaunchInv, TypeOK, Plan
    <3>2. PICK j \in 1..Len(queue[p.stream]) :
              /\ queue[p.stream][j].code.kernel = "metadata"
              /\ queue[p.stream][j].code.sms = p.sms
      BY <2>1 DEF ScheduleInv, PlansInv
    <3>3. j \in 1..Len(queue'[p.stream]) /\ queue'[p.stream][j] = queue[p.stream][j]
      BY <1>5, <3>1, <3>2
    <3>4. QED
      BY <3>2, <3>3
  <2>2. CASE p \notin plans
    <3>1. call[t].op = "plan" /\ p.stream = c /\ p.sms = l.code.sms
      BY <1>2, <2>2
    <3>2. l.code.kernel = "metadata"
      BY <1>1, <3>1 DEF Fits
    <3>3. Len(queue'[c]) \in 1..Len(queue'[c])
      BY <1>1, <1>5, <1>6
    <3>4. QED
      BY <1>6, <3>1, <3>2, <3>3
  <2>3. QED
    BY <2>1, <2>2
<1>8. PagedInv'
  <2> SUFFICES ASSUME NEW u \in Thread, pc'[u] \in Busy,
                      NEW i \in 1..Len(todo'[u]), todo'[u][i].code.kernel = "paged"
               PROVE  [stream |-> call'[u].stream, sms |-> todo'[u][i].grid] \in plans'
    BY DEF PagedInv
  <2>1. CASE u # t
    <3>1. pc'[u] = pc[u] /\ todo'[u] = todo[u]
      BY <1>1, <2>1 DEF LaunchKernel, Return, Goto, LaunchInv, TypeOK
    <3>2. QED
      BY <1>2, <1>4, <3>1 DEF ScheduleInv, PagedInv
  <2>2. CASE u = t
    <3>1. i + 1 \in 1..Len(todo[t]) /\ todo'[u][i] = todo[t][i + 1]
      BY <1>1, <1>3, <2>2
    <3>2. QED
      BY <1>2, <1>4, <2>2, <3>1 DEF ScheduleInv, PagedInv, Busy
  <2>3. QED
    BY <2>1, <2>2
<1>9. ScheduleFits'
  <2> SUFFICES ASSUME NEW s \in Stream, NEW i \in 1..Len(queue'[s]),
                      queue'[s][i].code.kernel = "paged"
               PROVE  \E j \in 1..(i - 1) :
                          /\ queue'[s][j].code.kernel = "metadata"
                          /\ queue'[s][j].code.sms = queue'[s][i].grid
    BY DEF ScheduleFits
  <2>1. CASE i \in 1..Len(queue[s])
    <3>1. queue'[s][i] = queue[s][i]
      BY <1>5, <2>1
    <3>2. PICK j \in 1..(i - 1) : /\ queue[s][j].code.kernel = "metadata"
                                  /\ queue[s][j].code.sms = queue[s][i].grid
      BY <2>1, <3>1 DEF ScheduleInv, ScheduleFits
    <3>3. queue'[s][j] = queue[s][j]
      BY <1>5, <2>1, <3>2
    <3>4. QED
      BY <3>1, <3>2, <3>3
  <2>2. CASE i \notin 1..Len(queue[s])
    <3>1. s = c /\ queue'[s][i] = l
      BY <1>5, <2>2
    <3>2. [stream |-> c, sms |-> l.grid] \in plans
      <4>1. 1 \in 1..Len(todo[t]) /\ todo[t][1].code.kernel = "paged"
        BY <1>3, <3>1
      <4>2. QED
        BY <1>2, <1>3, <4>1 DEF ScheduleInv, PagedInv, Busy, c
    <3>3. PICK j \in 1..Len(queue[c]) :
              /\ queue[c][j].code.kernel = "metadata"
              /\ queue[c][j].code.sms = l.grid
      BY <3>2 DEF ScheduleInv, PlansInv
    <3>4. j \in 1..(i - 1) /\ queue'[s][j] = queue[s][j]
      BY <1>5, <2>2, <3>1, <3>3
    <3>5. QED
      BY <3>1, <3>3, <3>4
  <2>3. QED
    BY <2>1, <2>2
<1>10. QED
  BY <1>7, <1>8, <1>9 DEF ScheduleInv

\* Paged logits are computed with a schedule that was enqueued before on the same
\* stream and made for as many SMs, for any threads, streams and SM overrides.
THEOREM SchedulesFit == Spec => []ScheduleFits
<1>1. Init => ScheduleInv
  BY DEF Init, ScheduleInv, PlansInv, PagedInv, ScheduleFits, Busy
<1>2. LaunchInv /\ ScheduleInv /\ [Next]_vars => ScheduleInv'
  BY NoLaunchStep, LaunchScheduleStep
<1>3. ScheduleInv => ScheduleFits
  BY DEF ScheduleInv
<1>4. QED
  BY <1>1, <1>2, <1>3, LaunchInvariant, PTL DEF Spec

-----------------------------------------------------------------------------
(* Outcomes *)

Promised(c) == IF c.op = "mqa_clean" THEN 2 ELSE IF c.op = "set" THEN 0 ELSE 1

\* What t has sent and has still to send is what its call promises; only a call
\* that sent nothing throws for its arguments.
CountOf(t) ==
    /\ pc[t] \in Busy => sent[t] + Len(todo[t]) = Promised(call[t])
    /\ pc[t] = "finish" => error[t] = "internal"
    /\ pc[t] = "caught" /\ error[t] = "invalid" => sent[t] = 0
    /\ pc[t] = "idle" =>
           /\ result[t].status = "ok" => sent[t] = Promised(call[t])
           /\ result[t].status \in {"refused", "invalid"} => sent[t] = 0

CountInv == \A t \in Thread : CountOf(t)

LEMMA ProgramLength ==
    ASSUME NEW c \in DeviceCall, NEW n
    PROVE  Len(Program(c, n)) = Promised(c)
<1>1. c.op \in {"mqa", "mqa_clean", "gemm", "plan", "paged"}
  BY DEF DeviceCall, LaunchCall, PlanCall, PagedCall
<1>2. CASE c.op = "mqa_clean"
  BY <1>2 DEF Program, Promised
<1>3. CASE c.op # "mqa_clean"
  <2>1. PICK l : Program(c, n) = <<l>>
    BY <1>1, <1>3 DEF Program
  <2>2. QED
    BY <1>1, <1>3, <2>1 DEF Promised
<1>4. QED
  BY <1>2, <1>3

\* A step of t that leaves what the others did and sent.
Alone(t) == \A u \in Thread : u # t =>
    /\ pc'[u] = pc[u] /\ call'[u] = call[u] /\ todo'[u] = todo[u]
    /\ error'[u] = error[u] /\ result'[u] = result[u] /\ sent'[u] = sent[u]

LEMMA AloneHolds ==
    ASSUME CountInv, NEW t \in Thread, Alone(t), CountOf(t)' PROVE CountInv'
<1>1. ASSUME NEW u \in Thread, u # t PROVE CountOf(u)'
  <2>1. CountOf(u)
    BY DEF CountInv
  <2>2. QED
    BY <1>1, <2>1 DEF Alone, CountOf
<1>2. QED
  BY <1>1 DEF CountInv

LEMMA StartCount ==
    ASSUME TypeOK, CountInv, NEW t \in Thread, NEW c \in DeviceCall, NEW n,
           Starts(t, c, n)
    PROVE  CountInv'
<1>1. PICK p : p = Program(c, n) /\ Len(p) = Promised(c)
  BY ProgramLength
<1>2. /\ call' = [call EXCEPT ![t] = c] /\ sent' = [sent EXCEPT ![t] = 0]
      /\ \/ Refuse(t) /\ UNCHANGED todo
         \/ Throw(t, "invalid") /\ UNCHANGED todo
         \/ GoOn(t) /\ todo' = [todo EXCEPT ![t] = p]
  BY <1>1 DEF Starts, Enter
<1>3. Alone(t)
  BY <1>2 DEF Alone, Refuse, Throw, GoOn, Goto, TypeOK
<1>4. call'[t] = c /\ sent'[t] = 0
  BY <1>2 DEF TypeOK
<1>5. \/ pc'[t] = "idle" /\ result'[t] = Refused
      \/ pc'[t] = "caught"
      \/ pc'[t] = "build" /\ todo'[t] = p
  BY <1>2 DEF Refuse, Throw, GoOn, Goto, TypeOK
<1>6. Promised(c) \in Nat
  BY DEF Promised
<1>7. CountOf(t)'
  BY <1>1, <1>4, <1>5, <1>6 DEF CountOf, Busy, Refused
<1>8. QED
  BY <1>3, <1>7, AloneHolds

LEMMA SetCount ==
    ASSUME TypeOK, CountInv, NEW t \in Thread, NEW n, SetNumSms(t, n)
    PROVE  CountInv'
<1>1. /\ call' = [call EXCEPT ![t] = SetCall] /\ sent' = [sent EXCEPT ![t] = 0]
      /\ Throw(t, "invalid") \/ Return(t)
      /\ UNCHANGED todo
  BY DEF SetNumSms, Enter
<1>2. Alone(t)
  BY <1>1 DEF Alone, Throw, Return, Goto, TypeOK
<1>3. call'[t] = SetCall /\ sent'[t] = 0
  BY <1>1 DEF TypeOK
<1>4. pc'[t] = "idle" \/ pc'[t] = "caught"
  BY <1>1 DEF Throw, Return, Goto, TypeOK
<1>5. CountOf(t)'
  BY <1>3, <1>4 DEF CountOf, Busy, Promised, SetCall
<1>6. QED
  BY <1>2, <1>5, AloneHolds

LEMMA LaunchCount ==
    ASSUME LaunchInv, CountInv, NEW t \in Thread, LaunchKernel(t)
    PROVE  CountInv'
<1>0. TypeOK
  BY DEF LaunchInv
<1>1. /\ todo' = [todo EXCEPT ![t] = Tail(todo[t])]
      /\ Len(todo'[t]) = Len(todo[t]) - 1
      /\ call[t] \in DeviceCall
  BY LaunchKernelEffect
<1>2. /\ pc[t] = "launch" /\ call' = call /\ sent' = [sent EXCEPT ![t] = @ + 1]
      /\ \/ Len(todo[t]) = 1 /\ Return(t)
         \/ Len(todo[t]) # 1 /\ Goto(t, "build") /\ UNCHANGED errors
  BY DEF LaunchKernel
<1>3. Alone(t)
  BY <1>0, <1>1, <1>2 DEF Alone, Return, Goto, errors, TypeOK
<1>4. sent[t] + Len(todo[t]) = Promised(call[t])
  BY <1>2 DEF CountInv, CountOf, Busy
<1>5. /\ sent[t] \in Nat /\ Len(todo[t]) \in Nat /\ Promised(call[t]) \in Nat
      /\ sent'[t] = sent[t] + 1 /\ call'[t] = call[t]
  BY <1>0, <1>2 DEF TypeOK, Promised
<1>6. \/ pc'[t] = "idle" /\ result'[t] = Ok /\ Len(todo[t]) = 1
      \/ pc'[t] = "build"
  BY <1>0, <1>2 DEF Return, Goto, TypeOK
<1>7. sent'[t] + Len(todo'[t]) = Promised(call'[t])
      /\ (Len(todo[t]) = 1 => sent'[t] = Promised(call'[t]))
  <2>1. \A a, b \in Nat : (a + 1) + (b - 1) = a + b /\ (b = 1 => a + 1 = a + b)
    OBVIOUS
  <2>2. QED
    BY <1>1, <1>4, <1>5, <2>1, Zenon
<1>8. CountOf(t)'
  BY <1>6, <1>7 DEF CountOf, Busy, Ok
<1>9. QED
  BY <1>3, <1>8, AloneHolds

LEMMA CountStep == LaunchInv /\ CountInv /\ [Next]_vars => CountInv'
<1> SUFFICES ASSUME LaunchInv, CountInv, [Next]_vars PROVE CountInv'
  OBVIOUS
<1>0. TypeOK
  BY DEF LaunchInv
<1>1. CASE UNCHANGED vars
  BY <1>1 DEF vars, CountInv, CountOf
<1>2. ASSUME NEW t \in Thread, Call(t) PROVE CountInv'
  <2>1. ASSUME NEW g \in Gpu, SetDevice(t, g) PROVE CountInv'
    BY <2>1 DEF SetDevice, errors, CountInv, CountOf
  <2>2. ASSUME NEW c, Begin(t, c) \/ BeginPlan(t, c) PROVE CountInv'
    <3>1. c \in DeviceCall /\ Starts(t, c, Effective(t))
      BY <1>0, <2>2, BeginStarts DEF DeviceCall
    <3>2. QED
      BY <1>0, <3>1, StartCount
  <2>3. ASSUME NEW s \in Stream, NEW p, BeginPaged(t, s, p) PROVE CountInv'
    <3>1. PagedCall(s) \in DeviceCall /\ Starts(t, PagedCall(s), p.sms)
      BY <1>0, <2>3, PagedStarts DEF DeviceCall
    <3>2. QED
      BY <1>0, <3>1, StartCount
  <2>4. QED
    BY <1>0, <1>2, <2>1, <2>2, <2>3, SetCount DEF Call
<1>3. ASSUME NEW t \in Thread, Lookup(t) \/ Load(t) \/ SetAttribute(t) PROVE CountInv'
  <2>1. /\ pc[t] \in Busy
        /\ \E l \in {"attr", "load", "launch"} : pc' = [pc EXCEPT ![t] = l]
        /\ UNCHANGED <<call, todo, errors, sent>>
    BY <1>3 DEF Lookup, Load, SetAttribute, Goto, Busy
  <2>2. Alone(t) /\ pc'[t] \in Busy
    BY <1>0, <2>1 DEF Alone, errors, TypeOK, Busy
  <2>3. CountOf(t)'
    BY <2>1, <2>2 DEF CountInv, CountOf, Busy, errors
  <2>4. QED
    BY <2>2, <2>3, AloneHolds
<1>4. ASSUME NEW t \in Thread, LoadFails(t) PROVE CountInv'
  <2>1. /\ pc' = [pc EXCEPT ![t] = "finish"] /\ error' = [error EXCEPT ![t] = "internal"]
        /\ UNCHANGED <<call, todo, result, sent>>
    BY <1>4 DEF LoadFails, Goto
  <2>2. Alone(t) /\ pc'[t] = "finish" /\ error'[t] = "internal"
    BY <1>0, <2>1 DEF Alone, TypeOK
  <2>3. CountOf(t)'
    BY <2>2 DEF CountOf, Busy
  <2>4. QED
    BY <2>2, <2>3, AloneHolds
<1>5. ASSUME NEW t \in Thread, HookCalls(t) PROVE CountInv'
  <2>1. UNCHANGED <<pc, call, todo, error, result, sent>>
    BY <1>5 DEF HookCalls
  <2>2. QED
    BY <2>1 DEF CountInv, CountOf
<1>6. ASSUME NEW t \in Thread, LaunchRejected(t) PROVE CountInv'
  <2>1. Alone(t) /\ pc'[t] = "caught" /\ error'[t] = "cuda"
    BY <1>0, <1>6 DEF LaunchRejected, Throw, Goto, Alone, TypeOK
  <2>2. CountOf(t)'
    BY <2>1 DEF CountOf, Busy
  <2>3. QED
    BY <2>1, <2>2, AloneHolds
<1>7. ASSUME NEW t \in Thread, Catch(t) PROVE CountInv'
  <2>1. Alone(t) /\ pc'[t] = "caught" /\ error'[t] = error[t] /\ pc[t] = "finish"
    BY <1>0, <1>7 DEF Catch, Goto, Alone, TypeOK
  <2>2. error[t] = "internal"
    BY <2>1 DEF CountInv, CountOf
  <2>3. CountOf(t)'
    BY <2>1, <2>2 DEF CountOf, Busy
  <2>4. QED
    BY <2>1, <2>3, AloneHolds
<1>8. ASSUME NEW t \in Thread, Report(t) PROVE CountInv'
  <2>1. /\ pc[t] = "caught" /\ pc'[t] = "idle"
        /\ result'[t].status = error[t] /\ sent'[t] = sent[t]
    BY <1>0, <1>8 DEF Report, Goto, TypeOK
  <2>2. Alone(t)
    BY <1>0, <1>8 DEF Report, Goto, Alone, TypeOK
  <2>3. error[t] \in Status
    BY <2>1 DEF LaunchInv, LabelInv
  <2>4. CountOf(t)'
    BY <2>1, <2>3 DEF CountInv, CountOf, Busy, Status
  <2>5. QED
    BY <2>2, <2>4, AloneHolds
<1>9. QED
  BY <1>1, <1>2, <1>3, <1>4, <1>5, <1>6, <1>7, <1>8, LaunchCount DEF Next, Step, Done

\* A call that returns Ok has launched all it promised, and one that is refused
\* or has invalid arguments nothing, for any threads, faults and interleavings.
THEOREM OutcomesTellLaunches == Spec => []OutcomeTellsLaunches
<1>1. Init => CountInv
  <2>1. ASSUME Init, NEW t \in Thread
        PROVE  pc[t] = "idle" /\ result[t] = None
    BY <2>1 DEF Init
  <2>2. None.status = "none"
    BY DEF None
  <2>3. QED
    BY <2>1, <2>2 DEF CountInv, CountOf, Busy
<1>2. CountInv => OutcomeTellsLaunches
  BY DEF CountInv, CountOf, OutcomeTellsLaunches, Promised
<1>3. QED
  BY <1>1, <1>2, CountStep, LaunchInvariant, PTL DEF Spec

-----------------------------------------------------------------------------
(* Shared memory *)

\* The shared memory a code asks for, unless it is that of SM100 metadata, and
\* the launches that ask for it.
InCode(code) == code.kernel = "metadata" => code.major # 10
SmemOf(code) == IF code.kernel = "metadata" THEN code.batch ELSE 1
AsCoded(l) == InCode(l.code) => l.smem = SmemOf(l.code)

\* A function that was loaded is of a code that is cached; so the thread that
\* loads a code never loaded it before, and granting memory to the functions in
\* use is left to the launches of the same code.
SmemInv ==
    /\ \A t \in Thread : pc[t] \in Busy => \A i \in 1..Len(todo[t]) : AsCoded(todo[t][i])
    /\ \A f \in DOMAIN attr : f.code \in DOMAIN cache
    /\ \A t \in Thread : pc[t] = "load" =>
           \A f \in DOMAIN attr : f.by = t => f.code # Head(todo[t]).code
    /\ \A t \in Thread : pc[t] = "launch" /\ InCode(fn[t].code) =>
           attr[fn[t]] = SmemOf(fn[t].code)

LEMMA ProgramAsCoded ==
    ASSUME NEW c \in DeviceCall, NEW n \in Nat \ {0}
    PROVE  \A i \in 1..Len(Program(c, n)) : AsCoded(Program(c, n)[i])
<1>1. ASSUME NEW g \in Gpu, NEW b
      PROVE  /\ AsCoded(LogitsLaunch(g, n)) /\ AsCoded(CleanLaunch(n))
             /\ AsCoded(GemmLaunch(g, n)) /\ AsCoded(PagedLaunch(g, n))
             /\ AsCoded(MetadataLaunch(g, n, b))
  <2>1. Major[g] \in {9, 10}
    BY LaunchAssumption
  <2>2. AsCoded(MetadataLaunch(g, n, b))
    BY <2>1 DEF AsCoded, InCode, SmemOf, MetadataLaunch, MetadataSmem, BatchInCode,
                Launch, Code
  <2>3. QED
    BY <2>2 DEF AsCoded, InCode, SmemOf, LogitsLaunch, CleanLaunch, GemmLaunch,
                PagedLaunch, Launch, Code
<1>2. GpuOf[c.stream] \in Gpu
  BY LaunchAssumption DEF DeviceCall, LaunchCall, PlanCall, PagedCall
<1>3. CASE c.op = "mqa_clean"
  BY <1>1, <1>2, <1>3 DEF Program
<1>4. CASE c.op # "mqa_clean"
  <2>1. \E l : Program(c, n) = <<l>> /\ AsCoded(l)
    BY <1>1, <1>2, <1>4 DEF Program
  <2>2. QED
    BY <2>1
<1>5. QED
  BY <1>3, <1>4

\* A step of t that loads nothing and grants nothing.
LEMMA SmemFrame ==
    ASSUME SmemInv, NEW t \in Thread, Frame(t), cache' = cache, attr' = attr,
           pc'[t] \notin {"load", "launch"},
           pc'[t] \in Busy => \A i \in 1..Len(todo'[t]) : AsCoded(todo'[t][i])
    PROVE  SmemInv'
  BY DEF SmemInv, Frame

LEMMA StartSmem ==
    ASSUME LaunchInv, SmemInv, NEW t \in Thread, NEW c \in DeviceCall,
           NEW n \in Nat \ {0}, Starts(t, c, n)
    PROVE  SmemInv'
<1>1. PICK p : p = Program(c, n) /\ \A i \in 1..Len(p) : AsCoded(p[i])
  BY ProgramAsCoded
<1>2. /\ Enter(t, c)
      /\ \/ Refuse(t) /\ UNCHANGED todo
         \/ Throw(t, "invalid") /\ UNCHANGED todo
         \/ GoOn(t) /\ todo' = [todo EXCEPT ![t] = p]
      /\ UNCHANGED <<override, driver, current, fn>>
  BY <1>1 DEF Starts
<1>3. Frame(t) /\ cache' = cache /\ attr' = attr
  BY <1>2 DEF Enter, GoOn, Refuse, Throw, Goto, Frame, driver, LaunchInv, TypeOK
<1>4. \/ pc'[t] \in {"idle", "caught"}
      \/ pc'[t] = "build" /\ todo'[t] = p
  BY <1>2 DEF GoOn, Refuse, Throw, Goto, LaunchInv, TypeOK
<1>5. QED
  BY <1>1, <1>3, <1>4, SmemFrame DEF Busy

LEMMA LookupSmem ==
    ASSUME LaunchInv, SmemInv, NEW t \in Thread, Lookup(t)
    PROVE  SmemInv'
<1>1. /\ pc[t] \in Busy /\ Frame(t) /\ todo' = todo /\ cache' = cache /\ attr' = attr
      /\ \/ pc'[t] = "attr"
         \/ pc'[t] = "load" /\ Head(todo[t]).code \notin DOMAIN cache
  BY DEF Lookup, Goto, Frame, Busy, driver, errors, LaunchInv, TypeOK
<1>2. \A i \in 1..Len(todo[t]) : AsCoded(todo[t][i])
  BY <1>1 DEF SmemInv
<1>3. CASE pc'[t] = "attr"
  BY <1>1, <1>2, <1>3, SmemFrame
<1>4. CASE pc'[t] = "load" /\ Head(todo[t]).code \notin DOMAIN cache
  BY <1>1, <1>2, <1>4 DEF SmemInv, Frame
<1>5. QED
  BY <1>1, <1>3, <1>4

LEMMA LoadSmem ==
    ASSUME LaunchInv, SmemInv, NEW t \in Thread, Load(t)
    PROVE  SmemInv'
<1> DEFINE code == Head(todo[t]).code
           f == Fn(code, t, current[t])
<1>1. /\ pc[t] = "load"
      /\ cache' = [c \in DOMAIN cache \cup {code} |-> IF c = code THEN f ELSE cache[c]]
      /\ attr' = [h \in DOMAIN attr \cup {f} |-> IF h = f THEN 0 ELSE attr[h]]
      /\ todo' = todo /\ pc'[t] = "attr"
      /\ \A u \in Thread : u # t => pc'[u] = pc[u] /\ fn'[u] = fn[u]
  BY DEF Load, Goto, LaunchInv, TypeOK
<1>2. f.code = code /\ f.by = t
  BY DEF Fn
<1>3. f \notin DOMAIN attr
  BY <1>1, <1>2 DEF SmemInv
<1> HIDE DEF f
<1>4. DOMAIN cache' = DOMAIN cache \cup {code} /\ DOMAIN attr' = DOMAIN attr \cup {f}
      /\ \A h \in DOMAIN attr : attr'[h] = attr[h]
  BY <1>1, <1>3
<1>5. \A u \in Thread : pc'[u] \in Busy =>
          \A i \in 1..Len(todo'[u]) : AsCoded(todo'[u][i])
  BY <1>1 DEF SmemInv, Busy
<1>6. \A h \in DOMAIN attr' : h.code \in DOMAIN cache'
  BY <1>2, <1>4 DEF SmemInv
<1>7. ASSUME NEW u \in Thread, pc'[u] = "load", NEW h \in DOMAIN attr', h.by = u
      PROVE  h.code # Head(todo'[u]).code
  <2>1. u # t /\ pc[u] = "load" /\ h # f
    BY <1>1, <1>2, <1>7
  <2>2. QED
    BY <1>1, <1>4, <1>7, <2>1 DEF SmemInv
<1>8. ASSUME NEW u \in Thread, pc'[u] = "launch", InCode(fn'[u].code)
      PROVE  attr'[fn'[u]] = SmemOf(fn'[u].code)
  <2>1. pc[u] = "launch" /\ fn'[u] = fn[u]
    BY <1>1, <1>8
  <2>2. fn[u] \in DOMAIN attr /\ attr[fn[u]] = SmemOf(fn[u].code)
    BY <1>8, <2>1 DEF LaunchInv, LabelInv, SmemInv
  <2>3. QED
    BY <1>4, <2>1, <2>2
<1>9. QED
  BY <1>5, <1>6, <1>7, <1>8 DEF SmemInv

LEMMA GrantSmem ==
    ASSUME LaunchInv, SmemInv, NEW t \in Thread, SetAttribute(t)
    PROVE  SmemInv'
<1>1. /\ pc[t] = "attr" /\ pc'[t] = "launch"
      /\ attr' = [attr EXCEPT ![fn[t]] = Head(todo[t]).smem]
      /\ todo' = todo /\ fn' = fn /\ cache' = cache
      /\ \A u \in Thread : u # t => pc'[u] = pc[u]
  BY DEF SetAttribute, Goto, LaunchInv, TypeOK
<1>2. fn[t] \in DOMAIN attr /\ fn[t].code = Head(todo[t]).code
  BY <1>1 DEF LaunchInv, LabelInv
<1>3. AsCoded(Head(todo[t]))
  <2>1. todo[t] \in Seq(LaunchSet) /\ todo[t] # <<>> /\ Head(todo[t]) = todo[t][1]
    BY <1>1, HeadType DEF Busy
  <2>2. 1 \in 1..Len(todo[t])
    BY <2>1
  <2>3. QED
    BY <1>1, <2>1, <2>2 DEF SmemInv, Busy
<1>4. DOMAIN attr' = DOMAIN attr /\ attr'[fn[t]] = Head(todo[t]).smem
      /\ \A h \in DOMAIN attr : h # fn[t] => attr'[h] = attr[h]
  BY <1>1, <1>2
<1>5. \A u \in Thread : pc'[u] \in Busy =>
          \A i \in 1..Len(todo'[u]) : AsCoded(todo'[u][i])
  BY <1>1 DEF SmemInv, Busy
<1>6. \A h \in DOMAIN attr' : h.code \in DOMAIN cache'
  BY <1>1, <1>4 DEF SmemInv
<1>7. \A u \in Thread : pc'[u] = "load" =>
          \A h \in DOMAIN attr' : h.by = u => h.code # Head(todo'[u]).code
  BY <1>1, <1>4 DEF SmemInv
<1>8. ASSUME NEW u \in Thread, pc'[u] = "launch", InCode(fn'[u].code)
      PROVE  attr'[fn'[u]] = SmemOf(fn'[u].code)
  <2>1. CASE fn[u] = fn[t]
    BY <1>1, <1>2, <1>3, <1>4, <1>8, <2>1 DEF AsCoded
  <2>2. CASE fn[u] # fn[t]
    <3>1. pc[u] = "launch"
      BY <1>1, <1>8, <2>2
    <3>2. fn[u] \in DOMAIN attr /\ attr[fn[u]] = SmemOf(fn[u].code)
      BY <1>1, <1>8, <3>1 DEF LaunchInv, LabelInv, SmemInv
    <3>3. QED
      BY <1>1, <1>4, <2>2, <3>2
  <2>3. QED
    BY <2>1, <2>2
<1>9. QED
  BY <1>5, <1>6, <1>7, <1>8 DEF SmemInv

LEMMA LaunchSmem ==
    ASSUME LaunchInv, SmemInv, NEW t \in Thread, LaunchKernel(t)
    PROVE  SmemInv'
<1>1. /\ todo' = [todo EXCEPT ![t] = Tail(todo[t])]
      /\ \A i \in 1..Len(todo'[t]) : todo'[t][i] = todo[t][i + 1]
      /\ Len(todo'[t]) = Len(todo[t]) - 1
  BY LaunchKernelEffect
<1>2. /\ pc[t] = "launch" /\ cache' = cache /\ attr' = attr /\ call' = call
      /\ fn' = [fn EXCEPT ![t] = NoFn]
      /\ \/ Len(todo[t]) = 1 /\ Return(t)
         \/ Len(todo[t]) # 1 /\ Goto(t, "build") /\ UNCHANGED errors
  BY DEF LaunchKernel
<1>3. Frame(t) /\ pc'[t] \in {"idle", "build"}
  BY <1>1, <1>2 DEF Frame, Return, Goto, errors, LaunchInv, TypeOK
<1>4. ASSUME NEW i \in 1..Len(todo'[t]) PROVE AsCoded(todo'[t][i])
  <2>1. Len(todo[t]) \in Nat
    BY DEF LaunchInv, TypeOK
  <2>2. i + 1 \in 1..Len(todo[t])
    BY <1>1, <2>1
  <2>3. QED
    BY <1>1, <1>2, <2>2 DEF SmemInv, Busy
<1>5. QED
  BY <1>2, <1>3, <1>4, SmemFrame

LEMMA SmemStep == LaunchInv /\ SmemInv /\ [Next]_vars => SmemInv'
<1> SUFFICES ASSUME LaunchInv, SmemInv, [Next]_vars PROVE SmemInv'
  OBVIOUS
<1>0. TypeOK
  BY DEF LaunchInv
<1>1. CASE UNCHANGED vars
  BY <1>1 DEF vars, SmemInv
<1>2. ASSUME NEW t \in Thread, (\E g \in Gpu : SetDevice(t, g)) \/ HookCalls(t)
      PROVE  SmemInv'
  <2>1. UNCHANGED <<pc, todo, fn, cache, attr>>
    BY <1>2 DEF SetDevice, HookCalls, driver
  <2>2. QED
    BY <2>1 DEF SmemInv
<1>3. ASSUME NEW t \in Thread, \/ \E n \in 0..MaxSms : SetNumSms(t, n)
                               \/ LoadFails(t) \/ LaunchRejected(t)
                               \/ Catch(t) \/ Report(t)
      PROVE  SmemInv'
  <2>1. Frame(t) /\ cache' = cache /\ attr' = attr
    BY <1>0, <1>3 DEF SetNumSms, Enter, Throw, Return, LoadFails, LaunchRejected, Catch,
                      Report, Goto, Frame, driver, TypeOK
  <2>2. pc'[t] \in {"idle", "caught", "finish"}
    BY <1>0, <1>3 DEF SetNumSms, Throw, Return, LoadFails, LaunchRejected, Catch,
                      Report, Goto, TypeOK
  <2>3. QED
    BY <2>1, <2>2, SmemFrame DEF Busy
<1>4. ASSUME NEW t \in Thread, Call(t) PROVE SmemInv'
  <2>1. ASSUME NEW c, Begin(t, c) \/ BeginPlan(t, c) PROVE SmemInv'
    <3>1. c \in DeviceCall /\ Effective(t) \in Nat \ {0} /\ Starts(t, c, Effective(t))
      BY <1>0, <2>1, BeginStarts DEF DeviceCall
    <3>2. QED
      BY <3>1, StartSmem
  <2>2. ASSUME NEW s \in Stream, NEW p, BeginPaged(t, s, p) PROVE SmemInv'
    <3>1. /\ PagedCall(s) \in DeviceCall /\ p.sms \in Nat \ {0}
          /\ Starts(t, PagedCall(s), p.sms)
      BY <1>0, <2>2, PagedStarts DEF DeviceCall
    <3>2. QED
      BY <3>1, StartSmem
  <2>3. QED
    BY <1>2, <1>3, <1>4, <2>1, <2>2 DEF Call
<1>5. QED
  BY <1>1, <1>2, <1>3, <1>4, LookupSmem, LoadSmem, GrantSmem, LaunchSmem
     DEF Next, Step, Done

\* The driver refuses a launch only because the function is another GPU's, or
\* because another SM100 metadata launch lowered the attribute, for any threads,
\* GPUs, batches and interleavings of the two driver calls.
THEOREM RejectionsHaveCauses == Spec => []RejectedForCause
<1>1. Init => SmemInv
  <2> SUFFICES ASSUME Init PROVE SmemInv
    OBVIOUS
  <2>1. (\A t \in Thread : pc[t] = "idle") /\ DOMAIN attr = {}
    BY DEF Init
  <2>2. QED
    BY <2>1 DEF SmemInv, Busy
<1>2. LaunchInv /\ SmemInv => RejectedForCause
  <2> SUFFICES ASSUME LaunchInv, SmemInv, NEW t \in Thread, pc[t] = "launch",
                      fn[t].gpu = GpuOf[call[t].stream],
                      ~(fn[t].code.kernel = "metadata" /\ fn[t].code.major = 10)
               PROVE  Accepts(t)
    BY DEF RejectedForCause
  <2>1. /\ InCode(fn[t].code) /\ attr[fn[t]] = SmemOf(fn[t].code)
        /\ fn[t].code = Head(todo[t]).code
    BY DEF InCode, SmemInv, LaunchInv, LabelInv
  <2>2. AsCoded(Head(todo[t])) /\ Head(todo[t]).smem \in Nat
    <3>1. /\ todo[t] \in Seq(LaunchSet) /\ todo[t] # <<>> /\ Head(todo[t]) = todo[t][1]
          /\ Head(todo[t]) \in LaunchSet
      BY HeadType DEF Busy
    <3>2. 1 \in 1..Len(todo[t])
      BY <3>1
    <3>3. QED
      BY <3>1, <3>2 DEF SmemInv, Busy, LaunchSet
  <2>3. Head(todo[t]).smem = attr[fn[t]]
    BY <2>1, <2>2 DEF AsCoded
  <2>4. QED
    BY <2>2, <2>3 DEF Accepts
<1>3. QED
  BY <1>1, <1>2, SmemStep, LaunchInvariant, PTL DEF Spec

=============================================================================
