SPECIFICATION Spec
CONSTANTS
    Total = 3
    Fingerprint <- MCFingerprint
    Tabs = {t1}
    ReducedMotion = {}
    MaxSwipes = 3
    MaxLoads = 1
CHECK_DEADLOCK FALSE
INVARIANT NoCardSkippedAnimated
