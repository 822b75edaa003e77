CONSTANTS
    Thread = {t1, t2, t3}
    MaxInterrupts = 1
SPECIFICATION Spec
INVARIANTS
    ReadersHeldByWritersOnly
