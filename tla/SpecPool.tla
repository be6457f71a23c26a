------------------------------ MODULE SpecPool ------------------------------
(***************************************************************************)
(* getItemEnchantCategoryMask: for whom is an item? The stats of the item  *)
(* are evidence, the classes that its subclass and inventory type suggest  *)
(* are asked which of their specs the evidence speaks for, and one of the  *)
(* specs in the pool is drawn. Its attributes and enchant categories are   *)
(* the role the suffix query looks for.                                    *)
(*                                                                         *)
(* The two switch statements fall through from case to case (leather to    *)
(* mail to plate, bow to crossbow to gun to thrown), so they are modelled  *)
(* case by case: pc is the case label the control is at.                   *)
(*                                                                         *)
(* A spec is a pair <<class, tree>>, so specToClass is its first element.  *)
(***************************************************************************)
EXTENDS SuffixAttributes

CONSTANTS
    Shape,      \* the [class, subclass, invType] an item can have
    Stat,       \* the stat types an item can have
    Level,      \* the answers of getItemPlayerLevel
    NoSpec      \* no spec drawn

-----------------------------------------------------------------------------
(***************************************************************************)
(* getEnchantCategoryMaskByClassAndSpec.                                   *)
(***************************************************************************)
Ratings == {"Haste", "Hit", "Crit"}
StrFighter == {"Str", "Sta", "Exp"} \cup Ratings
AgiFighter == {"Agi", "Sta", "AP"} \cup Ratings
Mage == {"Int", "Sta", "SP"} \cup Ratings

\* Mutant of Role: the two masks are returned in the other order.
RoleSwapped(attrs, cats) == [attrs |-> cats, cats |-> attrs]

Role(attrs, cats) == [attrs |-> attrs, cats |-> cats]

SpecRole(class, tree) ==
    CASE class = "WARRIOR" /\ tree \in {"ARMS", "FURY"} ->
            Role(StrFighter \cup {"AP"}, {"StrDPS"})
      [] class = "WARRIOR" /\ tree = "PROTECTION" ->
            Role(StrFighter \cup Defensive, {"StrTank"})
      [] class = "PALADIN" /\ tree = "HOLY" ->
            Role(Mage, {"Caster"})
      [] class = "PALADIN" /\ tree = "PROTECTION" ->
            Role((StrFighter \ {"Crit"}) \cup {"SP"} \cup Defensive, {"StrTank"})
      [] class = "PALADIN" /\ tree = "RETRIBUTION" ->
            Role(StrFighter \cup {"AP", "SP"}, {"StrDPS"})
      [] class = "HUNTER" ->
            Role(AgiFighter, {"RangedAgi"})
      [] class = "ROGUE" ->
            Role(AgiFighter \cup {"Exp"}, {})
      [] class = "PRIEST" /\ tree = "SHADOW" ->
            Role(Mage \cup {"Spi"}, {"Caster"})
      [] class = "PRIEST" /\ tree # "SHADOW" ->
            Role((Mage \ {"Hit"}) \cup {"Spi"}, {"Caster"})
      [] class = "DEATH_KNIGHT" /\ tree \in {"BLOOD", "FROST", "UNHOLY"} ->
            Role(StrFighter \cup {"AP"} \cup Defensive, {"StrDPS", "StrTank"})
      [] class = "SHAMAN" /\ tree = "ELEMENTAL" ->
            Role(Mage, {"Caster"})
      [] class = "SHAMAN" /\ tree = "ENHANCEMENT" ->
            Role(StrFighter \cup {"Agi", "Int", "AP", "SP"}, {"AgiDPS"})
      [] class = "SHAMAN" /\ tree = "RESTORATION" ->
            Role(Mage \ {"Hit"}, {"Caster"})
      [] class \in {"MAGE", "WARLOCK"} ->
            Role(Mage \cup {"Spi"}, {"Caster"})
      [] class = "DRUID" /\ tree = "BALANCE" ->
            Role(Mage \cup {"Spi"}, {"Caster"})
      [] class = "DRUID" /\ tree = "FERAL_COMBAT" ->
            Role(AgiFighter \cup {"Str", "Exp", "Def", "Dodge"}, {"AgiDPS", "AgiTank"})
      [] class = "DRUID" /\ tree = "RESTORATION" ->
            Role((Mage \ {"Hit"}) \cup {"Spi"}, {"Caster"})
      [] OTHER -> Role({}, {})

-----------------------------------------------------------------------------
(***************************************************************************)
(* getItemPotentialRoles: what a stat is evidence of. The other stats of   *)
(* ItemModType are evidence of nothing.                                    *)
(***************************************************************************)
StatEvidence(stat) ==
    CASE stat = "AGILITY"  -> {"agi"}
      [] stat = "STRENGTH" -> {"str"}
      [] stat \in {"INTELLECT", "SPIRIT", "HIT_SPELL", "CRIT_SPELL", "HASTE_SPELL",
                   "SPELL_POWER", "SPELL_DAMAGE_DONE", "SPELL_HEALING_DONE",
                   "SPELL_PENETRATION", "MANA_REGENERATION"} -> {"caster"}
      [] stat \in {"HIT_MELEE", "CRIT_MELEE", "HASTE_MELEE", "EXPERTISE"} -> {"melee"}
      [] stat \in {"HIT_RANGED", "CRIT_RANGED", "HASTE_RANGED",
                   "RANGED_ATTACK_POWER"} -> {"ranged"}
      [] stat \in {"ATTACK_POWER", "ARMOR_PENETRATION"} -> {"phys"}
      [] stat \in {"DEFENSE_SKILL", "DODGE", "PARRY", "BLOCK_RATING",
                   "BLOCK_VALUE"} -> {"tank"}
      [] OTHER -> {}

Evidence(stats) == UNION {StatEvidence(s) : s \in stats}

-----------------------------------------------------------------------------
(***************************************************************************)
(* itemRoleRoleCheckToClassSpecs_*: the specs of a class for the evidence  *)
(* ev on an item of the given shape, or, with force, what the class gives  *)
(* an item without evidence for it. rc.isX is "x" \in ev.                  *)
(***************************************************************************)
Specs(class, trees) == {class} \X trees

Some(ev, kinds) == ev \cap kinds # {}

Fights(ev) == Some(ev, {"melee", "phys"})

IsShield(shape) == shape.class = "ARMOR" /\ shape.subclass = "SHIELD"
IsHoldable(shape) == shape.invType = "HOLDABLE"

\* Mutant of Warrior: the tank test comes after the fighter test.
WarriorFightsFirst(ev, force, shape) ==
    Specs("WARRIOR",
        IF IsShield(shape) THEN
            IF Some(ev, {"melee", "phys", "str", "tank"}) \/ force THEN {"PROTECTION"} ELSE {}
        ELSE IF "agi" \notin ev /\ Fights(ev) THEN {"ARMS", "FURY"}
        ELSE IF "tank" \in ev THEN {"PROTECTION"}
        ELSE IF "str" \in ev \/ force THEN {"PROTECTION", "ARMS", "FURY"}
        ELSE {})

Warrior(ev, force, shape) ==
    Specs("WARRIOR",
        IF IsShield(shape) THEN
            IF Some(ev, {"melee", "phys", "str", "tank"}) \/ force THEN {"PROTECTION"} ELSE {}
        ELSE IF "tank" \in ev THEN {"PROTECTION"}
        ELSE IF "agi" \notin ev /\ Fights(ev) THEN {"ARMS", "FURY"}
        ELSE IF "str" \in ev \/ force THEN {"PROTECTION", "ARMS", "FURY"}
        ELSE {})

Paladin(ev, force, shape) ==
    Specs("PALADIN",
        IF IsShield(shape) THEN
            IF Some(ev, {"melee", "phys", "str", "tank"}) THEN {"PROTECTION"}
            ELSE IF "caster" \in ev THEN {"HOLY"}
            ELSE IF force THEN {"HOLY", "PROTECTION"}
            ELSE {}
        ELSE IF IsHoldable(shape) THEN
            IF "caster" \in ev \/ force THEN {"HOLY"} ELSE {}
        ELSE IF "tank" \in ev THEN {"PROTECTION"}
        ELSE IF "caster" \in ev THEN {"HOLY"}
        ELSE IF "agi" \notin ev /\ Fights(ev) THEN {"RETRIBUTION"}
        ELSE IF "str" \in ev \/ force THEN {"HOLY", "PROTECTION", "RETRIBUTION"}
        ELSE {})

Hunter(ev, force) ==
    Specs("HUNTER",
        IF \/ Some(ev, {"ranged", "agi"})
           \/ "str" \notin ev /\ "phys" \in ev
           \/ force
        THEN {"BEAST_MASTERY", "MARKSMANSHIP", "SURVIVAL"} ELSE {})

Rogue(ev, force) ==
    Specs("ROGUE",
        IF "agi" \in ev \/ ("str" \notin ev /\ Fights(ev)) \/ force
        THEN {"ASSASSINATION", "COMBAT", "SUBTLETY"} ELSE {})

DeathKnight(ev, force) ==
    Specs("DEATH_KNIGHT",
        IF "tank" \in ev THEN {"BLOOD"}
        ELSE IF Some(ev, {"melee", "phys", "str", "agi"}) \/ force
             THEN {"BLOOD", "FROST", "UNHOLY"}
        ELSE {})

Shaman(ev, force, shape) ==
    Specs("SHAMAN",
        IF IsShield(shape) \/ IsHoldable(shape) THEN
            IF "caster" \in ev \/ force THEN {"ELEMENTAL", "RESTORATION"} ELSE {}
        ELSE IF "agi" \in ev \/ ("str" \notin ev /\ Fights(ev)) THEN {"ENHANCEMENT"}
        ELSE IF "caster" \in ev THEN {"ELEMENTAL", "RESTORATION"}
        ELSE IF force THEN {"ENHANCEMENT", "ELEMENTAL", "RESTORATION"}
        ELSE {})

Druid(ev, force, shape) ==
    Specs("DRUID",
        IF IsHoldable(shape) THEN
            IF "caster" \in ev \/ force THEN {"BALANCE", "RESTORATION"} ELSE {}
        ELSE IF Some(ev, {"tank", "agi"}) \/ ("str" \notin ev /\ Fights(ev))
             THEN {"FERAL_COMBAT"}
        ELSE IF "caster" \in ev THEN {"BALANCE", "RESTORATION"}
        ELSE IF force THEN {"BALANCE", "FERAL_COMBAT", "RESTORATION"}
        ELSE {})

\* Priest, Mage and Warlock, which only differ in the names of their trees.
CasterTrees == [PRIEST  |-> {"DISCIPLINE", "HOLY", "SHADOW"},
                MAGE    |-> {"ARCANE", "FIRE", "FROST"},
                WARLOCK |-> {"AFFLICTION", "DEMONOLOGY", "DESTRUCTION"}]

ClothCaster(class, ev, force) ==
    Specs(class, IF "caster" \in ev \/ force THEN CasterTrees[class] ELSE {})

ClassSpecs(class, ev, force, shape) ==
    CASE class = "WARRIOR"      -> Warrior(ev, force, shape)
      [] class = "PALADIN"      -> Paladin(ev, force, shape)
      [] class = "HUNTER"       -> Hunter(ev, force)
      [] class = "ROGUE"        -> Rogue(ev, force)
      [] class = "DEATH_KNIGHT" -> DeathKnight(ev, force)
      [] class = "SHAMAN"       -> Shaman(ev, force, shape)
      [] class = "DRUID"        -> Druid(ev, force, shape)
      [] OTHER                  -> ClothCaster(class, ev, force)

-----------------------------------------------------------------------------
\* Items for which getItemEnchantCategoryMask is called.
Item == [shape : Shape, stats : SUBSET Stat, level : Level]

ClothClasses   == {"PRIEST", "MAGE", "WARLOCK"}
LeatherClasses == {"ROGUE", "DRUID"}
MailClasses    == {"HUNTER", "SHAMAN"}
PlateClasses   == {"DEATH_KNIGHT", "PALADIN", "WARRIOR"}
PlayerClass == ClothClasses \cup LeatherClasses \cup MailClasses \cup PlateClasses

\* The cases that ask a list of classes, forcing the same list if no spec is
\* in the pool after that, and break.
ListCase ==
    [SHIELD  |-> {"WARRIOR", "PALADIN", "SHAMAN"},
     IDOL    |-> {"DRUID"},
     LIBRAM  |-> {"PALADIN"},
     TOTEM   |-> {"SHAMAN"},
     SIGIL   |-> {"DEATH_KNIGHT"},
     DAGGER  |-> {"WARRIOR", "HUNTER", "ROGUE", "PRIEST", "SHAMAN", "MAGE", "WARLOCK", "DRUID"},
     FIST    |-> {"WARRIOR", "HUNTER", "ROGUE", "SHAMAN", "DRUID"},
     AXE     |-> {"WARRIOR", "HUNTER", "ROGUE", "SHAMAN", "DEATH_KNIGHT", "PALADIN"},
     MACE    |-> {"WARRIOR", "ROGUE", "SHAMAN", "DEATH_KNIGHT", "PALADIN", "PRIEST", "DRUID"},
     SWORD   |-> {"WARRIOR", "ROGUE", "DEATH_KNIGHT", "PALADIN", "MAGE", "WARLOCK", "HUNTER"},
     POLEARM |-> {"WARRIOR", "HUNTER", "DEATH_KNIGHT", "PALADIN", "DRUID"},
     STAFF   |-> {"WARRIOR", "HUNTER", "PRIEST", "SHAMAN", "MAGE", "WARLOCK", "DRUID"},
     AXE2    |-> {"WARRIOR", "HUNTER", "SHAMAN", "DEATH_KNIGHT", "PALADIN"},
     MACE2   |-> {"WARRIOR", "SHAMAN", "DEATH_KNIGHT", "PALADIN", "DRUID"},
     SWORD2  |-> {"WARRIOR", "DEATH_KNIGHT", "PALADIN", "HUNTER"}]

\* The subclasses that have an empty case, or none.
Uncased == {"ARMOR_MISC", "SPEAR", "obsolete", "EXOTIC", "EXOTIC2", "MISC", "FISHING_POLE"}

Subclass == {"CLOTH", "LEATHER", "MAIL", "PLATE", "BOW", "CROSSBOW", "GUN", "THROWN", "WAND"}
               \cup DOMAIN ListCase \cup Uncased

\* The inventory types that every class is asked for.
Worn == {"NECK", "CLOAK", "FINGER", "TRINKET"}

\* Body armour is of an armour type; cloaks are cloth, and jewelry is of none.
ASSUME ShapeAssumption ==
    /\ Level \subseteq Int
    /\ \A s \in Shape :
          /\ s.subclass \in Subclass
          /\ s.invType = "CHEST" => s.subclass \in {"CLOTH", "LEATHER", "MAIL", "PLATE"}
          /\ s.invType \in Worn => s.subclass \in {"CLOTH", "ARMOR_MISC"}

VARIABLES
    item,   \* the item the mask is computed for
    pc,     \* where the control is
    pool,   \* specPool
    spec    \* chosenSpec

vars == <<item, pc, pool, spec>>

Init ==
    /\ item \in Item
    /\ pc = item.shape.subclass
    /\ pool = {}
    /\ spec = NoSpec

Asked(classes, force) ==
    UNION {ClassSpecs(c, Evidence(item.stats), force, item.shape) : c \in classes}

\* Mutant of PoolWith: each class that has no answer is forced.
PoolForcedEach(classes, fallback) ==
    LET answers(c) == Asked({c}, FALSE) IN
    pool \cup UNION {IF answers(c) # {} THEN answers(c) ELSE Asked({c}, TRUE) : c \in classes}
         \cup IF pool \cup UNION {answers(c) : c \in classes} = {} THEN Asked(fallback \ classes, TRUE) ELSE {}

\* The pool after asking classes, and forcing those of fallback if it is empty.
PoolWith(classes, fallback) ==
    LET answered == pool \cup Asked(classes, FALSE) IN
    IF answered = {} THEN Asked(fallback, TRUE) ELSE answered

GoTo(label) == pc' = label /\ UNCHANGED <<item, spec>>

Cloth ==
    /\ pc = "CLOTH"
    /\ pool' = IF item.shape.invType # "CLOAK" THEN pool \cup Asked(ClothClasses, TRUE)
                                               ELSE pool
    /\ GoTo("INVTYPE")

\* Mutant of Leather: the break for items above level 40 is missing.
LeatherFallsThrough ==
    /\ pc = "LEATHER"
    /\ pool' = IF item.level > 40 THEN PoolWith(LeatherClasses, LeatherClasses)
                                  ELSE pool \cup Asked(LeatherClasses, FALSE)
    /\ GoTo("MAIL")

\* Below level 41 the control falls through to mail.
Leather ==
    /\ pc = "LEATHER"
    /\ \/ /\ item.level > 40
          /\ pool' = PoolWith(LeatherClasses, LeatherClasses)
          /\ GoTo("INVTYPE")
       \/ /\ item.level <= 40
          /\ pool' = pool \cup Asked(LeatherClasses, FALSE)
          /\ GoTo("MAIL")

\* isMail: the control did not fall through from leather.
IsMail == item.shape.subclass = "MAIL"

\* Mail below level 41 is for those who wear plate later: it falls through.
Mail ==
    /\ pc = "MAIL"
    /\ \/ /\ ~IsMail \/ item.level > 40
          /\ pool' = PoolWith(MailClasses,
                              IF IsMail THEN MailClasses ELSE MailClasses \cup LeatherClasses)
          /\ GoTo("INVTYPE")
       \/ /\ IsMail /\ item.level <= 40
          /\ pool' = pool
          /\ GoTo("PLATE")

Plate ==
    /\ pc = "PLATE"
    /\ pool' = PoolWith(PlateClasses, PlateClasses)
    /\ GoTo("INVTYPE")

\* The cases of ListCase.
List ==
    /\ pc \in DOMAIN ListCase
    /\ pool' = PoolWith(ListCase[pc], ListCase[pc])
    /\ GoTo("INVTYPE")

\* Bow falls through to crossbow, to gun, to thrown.
Shooter ==
    /\ pc \in {"BOW", "CROSSBOW", "GUN"}
    /\ pool' = pool \cup Asked({"HUNTER"}, FALSE)
    /\ GoTo("THROWN")

Thrown ==
    /\ pc = "THROWN"
    /\ pool' = PoolWith({"WARRIOR", "ROGUE"}, {"WARRIOR", "HUNTER", "ROGUE"})
    /\ GoTo("INVTYPE")

Wand ==
    /\ pc = "WAND"
    /\ pool' = pool \cup Asked(ClothClasses, TRUE)
    /\ GoTo("INVTYPE")

NoCase ==
    /\ pc \in Uncased
    /\ pool' = pool
    /\ GoTo("INVTYPE")

\* The switch on the inventory type.
InventoryType ==
    /\ pc = "INVTYPE"
    /\ pool' = CASE item.shape.invType = "HOLDABLE" ->
                      pool \cup Asked(ClothClasses, TRUE)
                           \cup Asked({"SHAMAN", "DRUID", "PALADIN"}, FALSE)
                 [] item.shape.invType \in Worn -> PoolWith(PlayerClass, PlayerClass)
                 [] OTHER -> pool
    /\ GoTo("DRAW")

\* SelectRandomContainerElement; an empty pool returns without a role.
Draw ==
    /\ pc = "DRAW"
    /\ \/ /\ pool = {}
          /\ pc' = "nothing"
          /\ UNCHANGED spec
       \/ /\ spec' \in pool
          /\ pc' = "drawn"
    /\ UNCHANGED <<item, pool>>

Next ==
    \/ Cloth \/ Leather \/ Mail \/ Plate \/ List
    \/ Shooter \/ Thrown \/ Wand \/ NoCase
    \/ InventoryType \/ Draw

Spec == Init /\ [][Next]_vars

\* What getItemEnchantCategoryMask returns for the drawn spec.
DrawnRole == SpecRole(spec[1], spec[2])

-----------------------------------------------------------------------------
\* The spec s of the pool is one the evidence speaks for.
Answers(s) == s \in ClassSpecs(s[1], Evidence(item.stats), FALSE, item.shape)

\* Items whose case forces the cloth classes without asking anyone.
ForcesCasters ==
    \/ item.shape.subclass = "CLOTH" /\ item.shape.invType # "CLOAK"
    \/ item.shape.subclass = "WAND"
    \/ IsHoldable(item.shape)

\* Hunters are among the last resorts of thrown weapons without being asked.
Unasked(s) == item.shape.subclass = "THROWN" /\ s[1] = "HUNTER"

\* Specs without evidence are a last resort: they are in the pool only if no
\* class that was asked, in whichever case the control fell through, answered
\* to the evidence.
ForcedIsLastResort ==
    pc = "DRAW" /\ ~ForcesCasters =>
        \/ \A s \in pool : Answers(s)
        \/ \A s \in pool : ~Answers(s) \/ Unasked(s)

\* The best body armour of a class at a level, as the comments of the
\* leather, mail and plate cases have it.
BestArmor(class, level) ==
    CASE class \in ClothClasses   -> "CLOTH"
      [] class \in LeatherClasses -> "LEATHER"
      [] class \in MailClasses    -> IF level > 40 THEN "MAIL" ELSE "LEATHER"
      [] class \in PlateClasses   -> IF level > 40 THEN "PLATE" ELSE "MAIL"

\* Body armour is drawn for a class whose best armour it is at its level, plate
\* of any level for a class that wears plate: the fall-throughs from leather to
\* mail and from mail to plate reach those classes and no others.
ArmorSuitsWearer ==
    pc = "drawn" /\ item.shape.invType = "CHEST" =>
        LET level == IF item.shape.subclass = "PLATE" THEN 80 ELSE item.level IN
        item.shape.subclass = BestArmor(spec[1], level)

\* An item with caster stats only is drawn for a spec that uses spell power,
\* unless no class that can use it has one (bows, guns, crossbows, thrown
\* weapons and sigils).
CasterItemSuitsCaster ==
    /\ pc = "drawn"
    /\ Evidence(item.stats) = {"caster"}
    /\ item.shape.subclass \notin {"BOW", "CROSSBOW", "GUN", "THROWN", "SIGIL"}
    => "SP" \in DrawnRole.attrs

\* A strength item with defensive stats is drawn for a spec that uses defense
\* rating, though many more specs answer to strength or melee stats, unless no
\* class that is asked tanks.
TankItemSuitsTank ==
    LET ev == Evidence(item.stats) IN
    /\ pc = "drawn"
    /\ {"tank", "str"} \subseteq ev /\ ev \subseteq {"tank", "str", "melee", "phys"}
    /\ ~ForcesCasters
    /\ item.shape.subclass # "TOTEM"
    /\ ~(item.shape.subclass = "MAIL" /\ item.level > 40)
    => "Def" \in DrawnRole.attrs

\* Whatever spec is drawn, the generator has made suffixes of one, two and
\* three attributes that the spec uses all of (every tier has all of them), so
\* the query of a roll for the item has a row to return.
DrawnRoleHasSuffix ==
    pc = "drawn" => \A n \in 1..3 : Combinations(n, DrawnRole.attrs) # {}

\* Every item that is asked about has someone it is for: the error that
\* "Spec pool is empty somehow" is not logged.
PoolNeverEmpty == pc # "nothing"
=============================================================================
