CONSTANTS
    Txns = {t1, t2, t3}
    Nobody = Nobody
SPECIFICATION FairSpec
CHECK_DEADLOCK FALSE
INVARIANT VTypeOK
PROPERTIES ShownIsLive RedirectsEnd
