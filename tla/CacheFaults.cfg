\* Two processes race for one cache directory: refused calls, lost writes, crashes and restarts.
CONSTANTS
    t1 = t1  t2 = t2  t3 = t3  p1 = p1  p2 = p2  p3 = p3
    q1 = q1  c1 = c1  c2 = c2
    Thread = {t1, t2}
    Proc = {p1, p2}
    ProcOf <- OwnProc
    Kernel = {q1}
    Config = {c1}
    ConfigOf <- SameConfig
    Dir <- MCDir
    DirOf <- MCDirOf
    EnvFaults = TRUE
    MayCrash = TRUE
    NoLib = NoLib  NoFile = NoFile  Partial = Partial  Kernelless = Kernelless
SPECIFICATION Spec
INVARIANTS CacheComplete ErrorsAreExplained
PROPERTIES PublishedStays
