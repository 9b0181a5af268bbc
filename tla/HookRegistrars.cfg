\* Two threads register hooks, which may panic when they are dropped, and report to them.
CONSTANTS
    t1 = t1  t2 = t2  h1 = h1  h2 = h2
    Thread = {t1, t2}
    Registrar = {t1, t2}
    Hook = {h1, h2}
    NoHook = NoHook
    DropMayPanic = TRUE
    NoThread = NoThread
SPECIFICATION FairSpec
INVARIANTS TypeOK ReplacedHookIsSilent LoneHookIsTold
PROPERTIES ReportsEnd
