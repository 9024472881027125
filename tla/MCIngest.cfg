SPECIFICATION Spec
CONSTANTS
    Urls = {short, long}
    Refused = {long}
    Crawls = {c1, c2}
    Submissions = {s1}
    MaxBatch = 2
    MaxOffers = 2
    MaxSubmits = 1
    MaxByHand = 2
SYMMETRY Alike
INVARIANTS
    NoArticleVanishes
    SavedOnce
CHECK_DEADLOCK FALSE
