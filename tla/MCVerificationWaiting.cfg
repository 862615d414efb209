CONSTANTS
    Txns = {t1, t2}
    Nobody = Nobody
SPECIFICATION FairSpec
CHECK_DEADLOCK FALSE
PROPERTY WaitingRedirects
