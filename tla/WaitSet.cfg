SPECIFICATION FairSpec
CONSTANTS
    Threads = {t1, t2}
    Objects = {o1}
    HandleIds = {1, 2}
    Cookies = {c1, c2}
    Entries = {e1, e2}
    None = None
INVARIANT EntriesSound
PROPERTY CloseEndsWaits
\* The wait set may be gone.
CHECK_DEADLOCK FALSE
