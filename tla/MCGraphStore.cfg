\* Two symbols and two virtual nodes, an edge of each kind, one snapshot.
CONSTANTS
    Symbols = {"s1", "s2"}
    Vids = {"v1", "v2"}
    Pairs <- MCPairs
    Texts = {"t"}
    SnapIds = {"k"}
    MaxRows = 2
    MaxEdits = 3
SPECIFICATION Spec
PROPERTY ImplementsDaemonGraph
INVARIANTS ManualEdgesHaveEnds NotesOfLiveNodes NoLeakedRemarks RoundTrip
