----------------------------- MODULE MCSpecPool -----------------------------
(***************************************************************************)
(* Every case of the two switch statements, for items with any evidence,   *)
(* on both sides of level 40.                                              *)
(***************************************************************************)
EXTENDS SpecPool

\* One stat of each kind, and one that is evidence of nothing.
MCStat == {"AGILITY", "STRENGTH", "SPELL_POWER", "HIT_MELEE", "HIT_RANGED",
           "ATTACK_POWER", "PARRY", "STAMINA"}

Armor(subclass, invType) == [class |-> "ARMOR", subclass |-> subclass, invType |-> invType]
Weapon(subclass) == [class |-> "WEAPON", subclass |-> subclass, invType |-> "WEAPON"]

\* The shapes that items of the game have: cloaks are cloth, jewelry and what
\* is held in the off hand has no armour type.
MCShape ==
    {Armor(subclass, "CHEST") : subclass \in {"CLOTH", "LEATHER", "MAIL", "PLATE"}}
    \cup {Armor("CLOTH", "CLOAK"), Armor("SHIELD", "SHIELD")}
    \cup {Armor("ARMOR_MISC", invType) :
             invType \in {"NECK", "FINGER", "TRINKET", "HOLDABLE"}}
    \cup {Armor(subclass, "RELIC") : subclass \in {"IDOL", "LIBRAM", "TOTEM", "SIGIL"}}
    \cup {Weapon(subclass) :
             subclass \in {"BOW", "CROSSBOW", "GUN", "THROWN", "WAND", "DAGGER", "FIST",
                           "AXE", "MACE", "SWORD", "POLEARM", "STAFF", "AXE2", "MACE2",
                           "SWORD2"} \cup (Uncased \ {"ARMOR_MISC"})}

MCLevel == {40, 41}

=============================================================================
