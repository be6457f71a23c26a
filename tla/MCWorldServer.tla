--------------------------- MODULE MCWorldServer ---------------------------
(***************************************************************************)
(* A small realm: a sword and a ring without a random property, an amulet  *)
(* with one, a tabard that cannot roll; three scripts, the second with     *)
(* other suffixes under the same IDs and one ID more, the third with a     *)
(* later start and fewer IDs; a player with talents and one without.       *)
(***************************************************************************)
EXTENDS WorldServer

CONSTANTS fighter, novice, sword, ring, amulet, tabard

T(invType, class, subclass, itemLevel, required) ==
    [invType |-> invType, quality |-> RARE, class |-> class, subclass |-> subclass,
     itemLevel |-> itemLevel, required |-> required, testing |-> FALSE]

MCTemplate ==
    sword  :> T("WEAPON", WEAPON, 7, 70, 0)  @@
    ring   :> T("FINGER", ARMOR, 0, 20, 60)  @@
    amulet :> T("NECK", ARMOR, 0, 90, 0)     @@
    tabard :> T("TABARD", ARMOR, 0, 1, 1)

\* What else is in item_template: the weapons and armour of the sword's level,
\* two of them alike, ask for 60 1/3 on average, which is rounded up to the
\* least level of the suffixes for swords.
MCItemTemplates ==
    MCTemplate @@
    "axe"    :> T("WEAPON", WEAPON, 4, 70, 60) @@
    "copy"   :> T("WEAPON", WEAPON, 4, 70, 60) @@
    "helmet" :> T("HEAD", ARMOR, 2, 70, 61)    @@
    "potion" :> T("NON_EQUIP", 12, 0, 70, 1)   @@
    "test"   :> [T("WEAPON", WEAPON, 7, 70, 80) EXCEPT !.testing = TRUE]

Points(p) == [column \in {"uncommon", "rare", "epic"} |-> [i \in 0..4 |-> p]]

MCPropertiesPoints == 20 :> Points(2) @@ 70 :> Points(30) @@ 90 :> Points(20)

MCCorePointsIndex == "WEAPON" :> 3 @@ "FINGER" :> 2 @@ "NECK" :> 2

StrDps == [attrs |-> {"Str", "Sta"}, cats |-> {"StrDPS"}]
Caster == [attrs |-> {"Int", "Sta"}, cats |-> {"Caster"}]
Nobody == [attrs |-> {}, cats |-> {}]

MCItemRoles  == [i \in Item |-> IF i = sword THEN {StrDps, Caster} ELSE {Caster}]
MCPlayerRole == [p \in Player |-> IF p = fighter THEN StrDps ELSE Nobody]
MCCanUse     == Player \X {sword}
MCNatural    == [i \in Item |-> IF i = amulet THEN 7 ELSE 0]

AnyItem(attrs, quality, allocs) ==
    [minLevel |-> 0, maxLevel |-> 0, class |-> 0, subs |-> {},
     quality |-> quality, attrs |-> attrs, cats |-> {}, allocs |-> allocs]

OnSwords(attrs, quality, cats, allocs) ==
    [minLevel |-> 61, maxLevel |-> 80, class |-> WEAPON, subs |-> {7, 8},
     quality |-> quality, attrs |-> attrs, cats |-> cats, allocs |-> allocs]

MCCatalog ==
    1 :> [first |-> 1, next |-> 3, suffix |->
              1 :> AnyItem({"Sta"}, 0, {10000}) @@
              2 :> OnSwords({}, 0, {"StrDPS"}, {1})] @@
    2 :> [first |-> 1, next |-> 4, suffix |->
              1 :> AnyItem({"Int", "Sta"}, 0, {3333}) @@
              2 :> AnyItem({"Str"}, 1, {12000}) @@
              3 :> OnSwords({"Sta"}, 0, {"StrDPS", "Caster"}, {1, 7500})] @@
    3 :> [first |-> 2, next |-> 3, suffix |-> 2 :> AnyItem({"Sta"}, 0, {12000})]

Pcts(first, others) == [k \in Tier |-> IF k = 0 THEN first ELSE others]

LootOnly    == [hooks |-> {"OnLoot"}, preference |-> FALSE, pcts |-> Pcts(30, 0)]
EveryHook   == [hooks |-> Hook, preference |-> TRUE, pcts |-> Pcts(100, 50)]

OneConfig  == {EveryHook}
TwoConfigs == {LootOnly, EveryHook}

TwoScripts == 1..2
ThreeScripts == 1..3
Ids1To4 == 1..4
Id4     == {4}
=============================================================================
