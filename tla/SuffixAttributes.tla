-------------------------- MODULE SuffixAttributes --------------------------
(***************************************************************************)
(* The vocabulary that the server module (src/RandomEnchants.cpp) and the  *)
(* suffix generator (golang/pkg/acoremodrandomsuffix) share: they number   *)
(* attributes and enchant categories alike, so that a mask the generator   *)
(* writes into the tables means the same to the query that reads it.       *)
(* And what the generator makes of them: which combinations of attributes  *)
(* are suffixes (attributes.go), and which attributes a weapon of a        *)
(* category can have (enchantcategories.go). A mask is the set of its bits.*)
(***************************************************************************)
EXTENDS Integers, FiniteSets

Attribute ==
    {"Str", "Agi", "Int", "Spi", "Sta", "AP", "SP", "Haste", "Hit", "Crit",
     "Exp", "Def", "Dodge", "Parry"}

EnchantCategory ==
    {"StrDPS", "StrTank", "AgiDPS", "AgiTank", "RangedAgi", "Caster"}

Defensive == {"Def", "Dodge", "Parry"}

\* Attributes.IsValid.
IsValid(combi) ==
    LET isAgi       == "Agi" \in combi
        isStr       == "Str" \in combi
        isMelee     == isAgi \/ isStr
        isMagic     == combi \cap {"Spi", "Int", "SP"} # {}
        isDefensive == combi \cap Defensive # {}
    IN  /\ ~({"Agi", "Str", "Int"} \subseteq combi)
        /\ ~(isMelee /\ "Spi" \in combi)
        /\ ~({"Agi", "Parry"} \subseteq combi)
        /\ ~(isMagic /\ ~isMelee /\ (isDefensive \/ combi \cap {"AP", "Exp"} # {}))
        /\ ~(isAgi /\ ~isStr /\ combi \cap {"Int", "SP"} # {} /\ isDefensive)
        /\ ~(isAgi /\ ~isStr /\ isDefensive /\ "Exp" \in combi)

\* generateAttributeCombinations, and IsValid on what it returns.
Combinations(n, attrs) == {combi \in SUBSET attrs : Cardinality(combi) = n /\ IsValid(combi)}

\* EnchantCategory.WeaponAttributes.
WeaponAttributes(ec) ==
    CASE ec = "StrDPS"    -> {"Str", "AP", "Haste", "Hit", "Crit", "Exp"}
      [] ec = "StrTank"   -> {"Str", "Sta", "Haste", "Hit", "Exp", "Def", "Dodge", "Parry"}
      [] ec = "AgiDPS"    -> {"Agi", "AP", "Haste", "Hit", "Crit", "Exp"}
      [] ec = "AgiTank"   -> {"Agi", "Sta", "Haste", "Hit", "Exp", "Def", "Dodge"}
      [] ec = "RangedAgi" -> {"Agi", "AP", "Haste", "Hit", "Crit"}
      [] ec = "Caster"    -> {"Int", "Spi", "SP", "Haste", "Hit", "Crit"}
=============================================================================
