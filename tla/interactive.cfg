CONSTANTS
    Peers = {"ann", "team", "news"}
    Kind <- MCKind
    Id <- MCId
    FirstDialogs <- MCDialogs
    MaxArrivals = 1
    DIALOGS_CACHE_TTL_S = 1
    OLD = 1
    Names = {"a", "b", "long"}
    Owners <- MCOwners
    KeyOf <- MCKeyOf
    Nobody = "nobody"
    RESOLVE_CACHE_TTL_S = 2
    RESOLVE_CACHE_NEG_TTL_S = 1
    RESOLVE_CACHE_MAX = 2
    STALE = 2
    Typed <- MCTyped
    Limits = {1}
    DIALOG_PANE_MAX = 3
    Pages = {1, 2}
SPECIFICATION Spec
CHECK_DEADLOCK FALSE

INVARIANTS  HistoryOfPeer CursorInside
PROPERTIES ResolvesRecently OpenChatStays PanesCatchUp
