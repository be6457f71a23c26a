CONSTANTS
    Generation <- TwoScripts
    Foreign = Foreign
    NoRow = NoRow
    SuffixId <- Ids1To4
    ForeignIds <- Id4
    Catalog <- MCCatalog
    fighter = fighter
    novice = novice
    sword = sword
    ring = ring
    amulet = amulet
    tabard = tabard
    Template <- MCTemplate
    ItemTemplates <- MCItemTemplates
    MaxPlayerLevel = 80
    PropertiesPoints <- MCPropertiesPoints
    CorePointsIndex <- MCCorePointsIndex
    NaturalProperty <- MCNatural
    ItemRoles <- MCItemRoles
    PlayerRole <- MCPlayerRole
    CanUse <- MCCanUse
    NoItem = NoItem
    Player = {fighter, novice}
    Item = {sword, ring, amulet, tabard}
    Config <- TwoConfigs
    MaxTries = 2
    MayRevert = FALSE
    LiveImport = FALSE
    MaxCrashes = 1

SPECIFICATION Spec
INVARIANTS
    TypeOK
    UpIsInstalled
PROPERTY ImplementsContract
