\* One thread launches on one Blackwell GPU and then on another.
CONSTANTS
    t1 = t1  t2 = t2  a = a  b = b  s1 = s1  s2 = s2  s3 = s3
    Thread = {t1}
    Gpu = {a, b}
    Stream = {s1, s3}
    GpuOf <- StreamGpu
    SmCount <- Uniform
    Major <- Blackwells
    Batch = {1, 3}
    BatchAlign = 2
    HookMayCall = FALSE
    MaxSms = 2
    MaxCalls = 2
SPECIFICATION Spec
INVARIANT LaunchIsAccepted
