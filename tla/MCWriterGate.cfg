CONSTANTS
  Task = {t1, t2, t3, t4}
  None = None
SPECIFICATION Spec
INVARIANTS TypeOK MutualExclusion NoLostWakeup
PROPERTY LockSpec
