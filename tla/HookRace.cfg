\* Two threads register a hook and clear it at the same time.
CONSTANTS
    t1 = t1  t2 = t2  h1 = h1  h2 = h2
    Thread = {t1, t2}
    Registrar = {t1, t2}
    Hook = {h1}
    NoHook = NoHook
    DropMayPanic = FALSE
    NoThread = NoThread
SPECIFICATION Spec
INVARIANTS RegisteredHookIsTold
