SPECIFICATION Spec
CONSTANTS
    Nicks = {n1, n2}
    Channels = {c1}
    LikePairs <- MCFolding
    Threads = {t1, t2}
    NoName = NoName
    Nobody = Nobody
    MaxId = 2
SYMMETRY Symm
INVARIANTS ListsAgree KeysInHandAreFree
PROPERTIES NewUserHasNoChannels
