CONSTANTS
    Thread = {t1, t2}
    MaxMessages = 6
    MaxStarts = 2
SPECIFICATION FairSpec
INVARIANT NoLostWakeup
PROPERTIES IsFifoChannel LoggedIsTaken StopReturns
CHECK_DEADLOCK FALSE
