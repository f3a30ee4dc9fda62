CONSTANTS
    c1 = c1
    c2 = c2
    c3 = c3
    Nobody = Nobody
    Conns = {c1, c2, c3}
SPECIFICATION FairSpec
INVARIANTS TypeOK NoEarlyExit
PROPERTIES ExitsAfterSigterm SelfHeals
