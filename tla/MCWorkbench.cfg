CONSTANTS
    Slots = {s1, s2}
    Idle = Idle
    NoneYet = NoneYet
    Worlds <- MCWorlds
    Windows = {15, 60}
    Lists <- MCLists
    Texts <- MCTexts
    Found <- MCFound
SPECIFICATION Spec
INVARIANTS
    TypeOK
    AtRestDrawn
    DashboardIsOnePicture
    MapIsGraph
    DetailIsListed
PROPERTY SelectionIsKept
