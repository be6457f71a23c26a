CONSTANTS
    Generation <- ThreeScripts
    Foreign = Foreign
    NoRow = NoRow
    SuffixId <- Ids1To4
    ForeignIds <- Id4
    Catalog <- MCCatalog
    fighter = fighter
    novice = novice
    sword = sword
    ring = ring
    amulet = amulet
    tabard = tabard
    Template <- MCTemplate
    ItemTemplates <- MCItemTemplates
    MaxPlayerLevel = 80
    PropertiesPoints <- MCPropertiesPoints
    CorePointsIndex <- MCCorePointsIndex
    NaturalProperty <- MCNatural
    ItemRoles <- MCItemRoles
    PlayerRole <- MCPlayerRole
    CanUse <- MCCanUse
    NoItem = NoItem
    Player = {fighter}
    Item = {sword, amulet}
    Config <- OneConfig
    MaxTries = 3
    MayRevert = TRUE
    LiveImport = FALSE
    MaxCrashes = 2

SPECIFICATION FairSpec
PROPERTIES
    RollEnds
    ImportHeals
    BootCompletes
