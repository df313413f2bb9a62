SPECIFICATION Spec
CONSTANTS
    Total = 2
    Fingerprint <- MCFingerprint
    Tabs = {t1, t2}
    ReducedMotion = {t2}
    MaxSwipes = 3
    MaxLoads = 3
CHECK_DEADLOCK FALSE
INVARIANTS TypeOK NoCardSkipped DoneMeansSeen ResumeIsExact
