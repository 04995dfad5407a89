CONSTANTS
    Procs = {p1, p2}
    Users = {u1, u2}
    Veterans = {u1}
    NoUser = NoUser
    a = a
    b = b
    c = c
    Names = {a, b, c}
    NoName = NoName
    Defaults <- MCDefaults
    Lists <- MCLists
    Renames <- MCRenames
    Currencies = {"ARS", "USD"}
    Days = {1}
    BaseCurrency = "ARS"
    BaseDay = 1
    NoConfig = NoConfig
    Tokens = {t1, t2}
    Subjects = {s1}
    Refs <- MCRefs
    NoRef = NoRef
    English <- MCEnglish
    MaxRequests = 3
SPECIFICATION Spec
SYMMETRY Symmetry
INVARIANTS TypeOK GoogleSticks SignedInProved PreferencesKept LastListWhole
CHECK_DEADLOCK FALSE
