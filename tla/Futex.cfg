CONSTANTS
    Threads = {m0, m1, m2}
    Sleeper = m0
    NoOwner = NoOwner
    MaxSpurious = 1
SPECIFICATION NoteFairSpec
INVARIANTS WordIsExact ClearIsAlone
PROPERTIES ImplementsLock Progress HandoffTaken
