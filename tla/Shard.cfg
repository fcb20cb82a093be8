CONSTANTS
    Adders = {a1, a2}
    Closers = {c1}
    Tasks = {t1, t2}
    Size = 2
    MaxInt = 2147483647
    Batches = {1}
    MaxAdds = 2
    MayFail = TRUE
SPECIFICATION FairSpec
PROPERTIES ImplementsQueue GettersSent CloseReturns
CHECK_DEADLOCK FALSE
