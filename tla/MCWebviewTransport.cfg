\* Two panels, one after the other or side by side, two requests.
SPECIFICATION FairSpec
CONSTANTS
    Requests = {r1, r2}
    MaxPanels = 2
INVARIANT
    TypeOK
PROPERTIES
    EveryRequestSettles
    ImplementsRpc
\* The user may close the panel for good.
CHECK_DEADLOCK FALSE
