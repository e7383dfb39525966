\* Files that change at any time while they are loaded and watched.
SPECIFICATION FairSpec
CONSTANTS
    n1 = n1
    Names = {n1}
    CheckBans = TRUE
    WakeWhitelist = TRUE
INVARIANTS
    ListsCurrent
PROPERTIES
    ListsSettle
    NeverLetIn
