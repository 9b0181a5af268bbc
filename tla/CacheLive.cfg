\* Three processes, one with other compiler flags, nothing refused: every launch comes to its end.
CONSTANTS
    t1 = t1  t2 = t2  t3 = t3  p1 = p1  p2 = p2  p3 = p3
    q1 = q1  c1 = c1  c2 = c2
    Thread = {t1, t2, t3}
    Proc = {p1, p2, p3}
    ProcOf <- OwnProc3
    Kernel = {q1}
    Config = {c1, c2}
    ConfigOf <- ThreeConfigs
    Dir <- MCDir
    DirOf <- MCDirOf
    EnvFaults = FALSE
    MayCrash = FALSE
    NoLib = NoLib  NoFile = NoFile  Partial = Partial  Kernelless = Kernelless
SPECIFICATION FairSpec
INVARIANTS RightKernel
PROPERTIES LaunchEnds LaunchPublishes
