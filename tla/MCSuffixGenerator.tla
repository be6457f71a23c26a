-------------------------- MODULE MCSuffixGenerator --------------------------
(***************************************************************************)
(* Suffixes of up to two of four attributes in one to three tiers, and     *)
(* weapons with up to three categories in different orders: sharing no     *)
(* attribute, some, nearly all. The last weapon names a category twice,    *)
(* which the generator does not accept. Weapons take their attributes from *)
(* the full tables of the code.                                            *)
(***************************************************************************)
EXTENDS SuffixGenerator

Weapons == <<[enchant |-> 10, cats |-> <<"StrDPS", "AgiDPS", "RangedAgi">>],
             [enchant |-> 11, cats |-> <<"Caster", "StrTank">>],
             [enchant |-> 12, cats |-> <<"RangedAgi", "AgiDPS", "StrDPS">>],
             [enchant |-> 13, cats |-> <<"RangedAgi", "AgiDPS", "RangedAgi">>]>>

MCConfig(numAttrs, numWeaponAttrs, tiers, weapons, start) ==
    [attrs |-> {"Agi", "Sta", "Dodge", "Exp"}, numAttrs |-> numAttrs,
     numWeaponAttrs |-> numWeaponAttrs, tiers |-> tiers, weapons |-> weapons,
     start |-> start]

MCConfigs ==
    {MCConfig(2, 1, 3, SubSeq(Weapons, 1, 2), 5),
     MCConfig(2, 1, 2, SubSeq(Weapons, 1, 3), 1),
     MCConfig(1, 2, 2, SubSeq(Weapons, 3, 3), 30),
     MCConfig(1, 1, 1, Weapons, 1),
     MCConfig(1, 2, 2, SubSeq(Weapons, 3, 4), 1)}

\* Plain suffixes only: four of them, on both sides of the limit.
MCLimitConfigs == {MCConfig(1, 1, 1, <<>>, start) : start \in 1..8}
=============================================================================
