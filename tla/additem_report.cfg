SPECIFICATION Spec
CONSTANTS
    Item = {i1, i2, i3}
    Player = {gm, p1}
    GameMaster = gm
    PlayerAccount = {p1}
    Nobody = Nobody
    NoItem = NoItem
    Number <- MCNumber
    Known <- MCKnown
    Natural <- MCNatural
    Rolled <- MCRolled
    Count <- MCCount
PROPERTY ReportsDestroyed
