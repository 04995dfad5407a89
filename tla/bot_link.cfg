CONSTANTS
    Users = {u1, u2}
    Exts = {t1, t2}
    Codes = {c1, c2}
    Procs = {p1, p2}
    None = None
    TTL = 1
    MaxTime = 1
    Changing = {u1}
SPECIFICATION FairSpec
INVARIANTS TypeOK OneAccountPerChat CodeLinksOnce
PROPERTIES ReplacedOnlyByRivals LinksAtomically AnswersArrive
CHECK_DEADLOCK FALSE
