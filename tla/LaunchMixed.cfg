\* Two threads launch on a Hopper GPU with two Candle devices and on a Blackwell GPU.
CONSTANTS
    t1 = t1  t2 = t2  a = a  b = b  s1 = s1  s2 = s2  s3 = s3
    Thread = {t1, t2}
    Gpu = {a, b}
    Stream = {s1, s2, s3}
    GpuOf <- StreamGpu
    SmCount <- Unequal
    Major <- HopperAndBlackwell
    Batch = {1, 3}
    BatchAlign = 2
    HookMayCall = TRUE
    MaxSms = 2
    MaxCalls = 3
SPECIFICATION Spec
INVARIANTS TypeOK GridMatchesCode ScheduleFits RejectedForCause ErrorIsOwn OutcomeTellsLaunches
SYMMETRY Alike
