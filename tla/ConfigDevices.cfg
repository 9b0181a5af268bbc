\* One process uses a Hopper and a Blackwell device.
CONSTANTS
    t1 = t1  t2 = t2  t3 = t3
    r1 = r1  r2 = r2  r3 = r3  g1 = g1  g2 = g2  g3 = g3
    Thread = {t1, t2}
    Root = {r1, r2, r3}
    BadRoot = {r3}
    NoRoot = NoRoot
    EnvNvcc = NoRoot
    Device = {g1, g2}
    CapabilityOf <- Mixed
    VersionOf <- Toolkits
    NoConfig = NoConfig
SPECIFICATION Spec
INVARIANTS RunsOnDevice
