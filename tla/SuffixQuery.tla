---------------------------- MODULE SuffixQuery ----------------------------
(***************************************************************************)
(* The decisions a roll takes on plain data, without any state of its own: *)
(* which items may roll, which tiers a roll can reach, which rows of       *)
(* item_enchantment_random_suffixes the query of getCustomRandomSuffix     *)
(* returns, and which suffixes have enough allocation points for an item   *)
(* (src/RandomEnchants.cpp).                                               *)
(*                                                                         *)
(* Masks are sets of their bits: mask & x > 0 is a non-empty intersection, *)
(* mask & ~x = 0 is inclusion, mask = 0 is {}.                             *)
(*                                                                         *)
(* A template (a row of item_template) is a record                         *)
(*   [invType, quality, class, subclass, itemLevel, required, testing]     *)
(* where required is RequiredLevel, and testing says that the name is one  *)
(* the query of getItemPlayerLevel leaves out. A suffix (one               *)
(* customRandomSuffixEntry of the generator, which prints both SQL rows    *)
(* from it) is a record                                                    *)
(*   [minLevel, maxLevel, class, subs, quality, attrs, cats, allocs].      *)
(* A role is what a roll looks for: [attrs, cats].                         *)
(***************************************************************************)
EXTENDS Integers, FiniteSets, FiniteSetsExt, TLC

CONSTANTS
    ItemTemplates,          \* item_template: a function from entries to templates
    MaxPlayerLevel,         \* CONFIG_MAX_PLAYER_LEVEL
    PropertiesPoints,       \* sRandomPropertiesPointsStore: by item level,
                            \* column ("uncommon", ...) and index 0..4
    CorePointsIndex         \* the index by inventory type, where the patch
                            \* leaves the core's switch as it is

WEAPON == 2
ARMOR  == 4

NORMAL    == 1
UNCOMMON  == 2
RARE      == 3
EPIC      == 4
LEGENDARY == 5

(***************************************************************************)
(* The inventory types without suffix points; RELIC is not among them.     *)
(***************************************************************************)
InvTypesWithoutPoints == {"NON_EQUIP", "BAG", "TABARD", "AMMO", "QUIVER"}

\* The early returns of RollPossibleEnchant that only look at the template.
MayRoll(t) ==
    /\ t.invType \notin InvTypesWithoutPoints
    /\ t.quality \in UNCOMMON..LEGENDARY
    /\ t.class \in {WEAPON, ARMOR}

-----------------------------------------------------------------------------
\* The level a player needs for an item: the required level of the item or, if
\* it has none, what weapons and armour of its item level require on average.
getItemPlayerLevel(t) ==
    LET peers == {entry \in DOMAIN ItemTemplates :
                    LET u == ItemTemplates[entry] IN
                    /\ u.itemLevel = t.itemLevel
                    /\ u.class \in {WEAPON, ARMOR}
                    /\ u.required # 0
                    /\ ~u.testing}
        sum   == MapThenSumSet(LAMBDA entry : ItemTemplates[entry].required, peers)
    IN  IF t.required # 0 THEN t.required
        ELSE IF peers = {} THEN MaxPlayerLevel
        ELSE (sum + Cardinality(peers) - 1) \div Cardinality(peers)

\* The patched switches of GenerateEnchSuffixFactor: relics count as ranged
\* weapons, legendary items as epic ones. An item level the store does not
\* have, and any other inventory type or quality, has no points.
PointsIndex ==
    [i \in {"RANGED", "THROWN", "RANGEDRIGHT", "RELIC"} |-> 4] @@ CorePointsIndex

PointsColumn ==
    NORMAL :> "uncommon" @@ UNCOMMON :> "uncommon" @@ RARE :> "rare" @@
    EPIC :> "epic" @@ LEGENDARY :> "epic"

GenerateEnchSuffixFactor(t) ==
    IF /\ t.itemLevel \in DOMAIN PropertiesPoints
       /\ t.invType \in DOMAIN PointsIndex
       /\ t.quality \in DOMAIN PointsColumn
       THEN PropertiesPoints[t.itemLevel][PointsColumn[t.quality]][PointsIndex[t.invType]]
       ELSE 0

-----------------------------------------------------------------------------
(***************************************************************************)
(* GetRolledEnchantLevel. pcts are config_enchant_pcts in per cent. A roll *)
(* is rand_chance() cast to float: 0..100, the cast can round up to 100.   *)
(***************************************************************************)
MAX_RAND_ENCHANT_TIERS == 4

Tier == 0 .. MAX_RAND_ENCHANT_TIERS - 1

Roll == 0..100

StageFails(roll, pct) == roll + pct < 100

\* The results GetRolledEnchantLevel can return; -1 is a failed roll.
RolledEnchantLevels(pcts) ==
    {tier \in Tier \cup {-1} :
        /\ \A k \in Tier : k <= tier =>
              \E roll \in Roll : ~StageFails(roll, pcts[k])
        /\ tier + 1 \in Tier =>
              \E roll \in Roll : StageFails(roll, pcts[tier + 1])}

-----------------------------------------------------------------------------
(***************************************************************************)
(* The WHERE clause of the query in getCustomRandomSuffix.                 *)
(***************************************************************************)
LevelFits(s, level) ==
    \/ s.minLevel <= level /\ level <= s.maxLevel
    \/ s.minLevel = 0 /\ s.maxLevel = 0

ClassFits(s, t) ==
    \/ s.class = 0
    \/ s.class = t.class /\ (s.subs = {} \/ t.subclass \in s.subs)

AttrsFit(s, role) ==
    s.attrs = {} \/ (s.attrs \cap role.attrs # {} /\ s.attrs \subseteq role.attrs)

CatsFit(s, role) == s.cats = {} \/ s.cats \cap role.cats # {}

\* Row s is a candidate for an item with template t, a rolled tier and a role.
RowMatches(s, t, tier, role) ==
    /\ LevelFits(s, getItemPlayerLevel(t))
    /\ ClassFits(s, t)
    /\ s.quality = tier
    /\ AttrsFit(s, role)
    /\ CatsFit(s, role)

-----------------------------------------------------------------------------
(***************************************************************************)
(* basepoints = int32(minAllocPct * suffFactor / 10000), where the product *)
(* is a uint32 and minAllocPct starts at 3567587328 and only ever takes an *)
(* AllocationPct above 100. A uint32 is a pair of 16 bit halves here.      *)
(***************************************************************************)
W16 == 65536

U32(n) == [hi |-> n \div W16, lo |-> n % W16]

\* 3567587328 = 54437 * 65536 + 4096.
NoAllocPct == [hi |-> 54437, lo |-> 4096]

MinAllocPct(allocs) ==
    LET stats == {a \in allocs : a > 100} IN
    IF stats = {} THEN NoAllocPct
                  ELSE U32(CHOOSE a \in stats : \A b \in stats : a <= b)

\* x * n modulo 2^32.
Times(x, n) ==
    LET low == x.lo * n IN
    [hi |-> (x.hi * n + low \div W16) % W16, lo |-> low % W16]

\* x / 10000, by long division on the halves.
DivTenThousand(x) ==
    (x.hi \div 10000) * W16 + ((x.hi % 10000) * W16 + x.lo) \div 10000

Basepoints(allocs, factor) == DivTenThousand(Times(MinAllocPct(allocs), factor))

\* The test of the reroll loop: the suffix shows at least one point.
HasPoints(s, t) == Basepoints(s.allocs, GenerateEnchSuffixFactor(t)) >= 1
=============================================================================
