-------------------------- MODULE SuffixGenerator --------------------------
(***************************************************************************)
(* The offline generator (ProcessFromReader in config.go and Generate in   *)
(* generate.go). It truncates its three output files, numbers the suffixes *)
(* it makes one after the other, and writes the SQL script for the server, *)
(* then the two DBC files for the client. It can be stopped between any    *)
(* two steps, and be run again.                                            *)
(*                                                                         *)
(* A suffix is a record [id, weapon, attrs, tier, cats]: the enchant ID of *)
(* the weapon suffix it extends or NoWeapon, its attribute mask, its       *)
(* EnchantQuality, its enchant category mask. The order in which the       *)
(* combinations of one size come is fixed and of no consequence.           *)
(***************************************************************************)
EXTENDS SuffixAttributes, Sequences, SequencesExt

CONSTANTS
    Configs,    \* the configurations; weapons come by enchant ID
    NoWeapon,
    MaxID,      \* math.MaxInt16
    MaxRuns     \* bound on the runs of a behaviour

Output == {"sql", "suffixDBC", "enchantDBC"}

\* Up to five enchants for a suffix, up to five tiers: customRandomSuffixEntry
\* has no place and latinNumerals no numeral for more. A weapon's own enchant
\* takes one of the places.
Config == [attrs : SUBSET Attribute, numAttrs : 1..5, numWeaponAttrs : 1..4, tiers : 1..5,
           weapons : Seq([enchant : Nat, cats : Seq(EnchantCategory)]), start : Nat]

ASSUME GeneratorAssumption ==
    /\ MaxRuns \in Nat
    /\ MaxID \in Nat
    /\ NoWeapon \notin Nat
    /\ Configs \subseteq Config
    /\ \A c \in Configs :
          /\ c.numAttrs <= Cardinality(c.attrs)
          /\ \A i, j \in DOMAIN c.weapons :
                i < j => c.weapons[i].enchant < c.weapons[j].enchant

VARIABLES
    pc,         \* "idle", "open", "plain", "base", "weapon", "limit", "write"
    config,     \* of this run
    todo,       \* the combinations that the innermost loop has left
    pos,        \* its outer loops: the size, or the weapon and category, it is at
    suffixes,   \* suffEntries
    nextID,     \* irsDBCID
    outputs,    \* [Output -> "old", "empty", "partial" or "new"]
    runs,       \* runs begun
    result      \* of the last run: "none", "ok" or "refused"

vars == <<pc, config, todo, pos, suffixes, nextID, outputs, runs, result>>

Start == [size |-> 1, weapon |-> 1, cat |-> 0]

Init ==
    /\ pc = "idle"
    /\ config \in Configs
    /\ todo = {}
    /\ pos = Start
    /\ suffixes = <<>>
    /\ nextID = 0
    /\ outputs = [o \in Output |-> "old"]
    /\ runs = 0
    /\ result = "none"

-----------------------------------------------------------------------------
\* A run: what an earlier one has written is old now.
Run ==
    /\ pc = "idle"
    /\ runs < MaxRuns
    /\ pc' = "open"
    /\ runs' = runs + 1
    /\ config' \in Configs
    /\ outputs' = [o \in Output |-> IF outputs[o] = "empty" THEN "empty" ELSE "old"]
    /\ result' = "none"
    /\ UNCHANGED <<todo, pos, suffixes, nextID>>

\* The outputs in the order they are opened in and written in.
Order == <<"sql", "suffixDBC", "enchantDBC">>

\* Mutant of OpenOutput: files are opened without O_TRUNC.
OpenWithoutTruncate ==
    /\ pc = "open"
    /\ pc' = "plain"
    /\ todo' = Combinations(1, config.attrs)
    /\ pos' = Start
    /\ suffixes' = <<>>
    /\ nextID' = config.start
    /\ UNCHANGED <<config, outputs, runs, result>>

\* mkDirAndOpenFile, for one output after the other.
OpenOutput ==
    /\ pc = "open"
    /\ \/ \E i \in DOMAIN Order :
             /\ outputs[Order[i]] # "empty"
             /\ \A j \in 1 .. i - 1 : outputs[Order[j]] = "empty"
             /\ outputs' = [outputs EXCEPT ![Order[i]] = "empty"]
             /\ UNCHANGED <<pc, todo, pos, suffixes, nextID>>
       \/ /\ \A o \in Output : outputs[o] = "empty"
          /\ pc' = "plain"
          /\ todo' = Combinations(1, config.attrs)
          /\ pos' = Start
          /\ suffixes' = <<>>
          /\ nextID' = config.start
          /\ UNCHANGED outputs
    /\ UNCHANGED <<config, runs, result>>

-----------------------------------------------------------------------------
NewSuffix(id, weapon, attrs, tier, cats) ==
    [id |-> id, weapon |-> weapon, attrs |-> attrs, tier |-> tier, cats |-> cats]

\* Mutant of Tiers: the ID is incremented before it is used.
TiersFromNext(n, weapon, attrs, cats) ==
    [k \in 1..n |-> NewSuffix(nextID + k, weapon, attrs, k - 1, cats)]

\* Mutant of Tiers: tiers are counted from one.
TiersFromOne(n, weapon, attrs, cats) ==
    [k \in 1..n |-> NewSuffix(nextID + k - 1, weapon, attrs, k, cats)]

\* One suffix for each tier 0 .. n - 1, numbered from nextID.
Tiers(n, weapon, attrs, cats) ==
    [k \in 1..n |-> NewSuffix(nextID + k - 1, weapon, attrs, k - 1, cats)]

AddSuffixes(new) ==
    /\ suffixes' = suffixes \o new
    /\ nextID' = nextID + Len(new)

\* The turns of the loops over combinations come in one fixed order.
NextCombi == CHOOSE combi \in todo : TRUE

\* A combination of attributes: a suffix for every tier.
PlainSuffixes ==
    /\ pc = "plain"
    /\ todo # {}
    /\ AddSuffixes(Tiers(config.tiers, NoWeapon, NextCombi, {}))
    /\ todo' = todo \ {NextCombi}
    /\ UNCHANGED <<pc, config, pos, outputs, runs, result>>

\* Mutant of NextSize: the loop over the sizes stops one short.
NextSizeBelow ==
    /\ pc = "plain"
    /\ todo = {}
    /\ IF pos.size < config.numAttrs - 1
          THEN /\ pos' = [pos EXCEPT !.size = @ + 1]
               /\ todo' = Combinations(pos.size + 1, config.attrs)
               /\ UNCHANGED pc
          ELSE /\ pc' = "base"
               /\ UNCHANGED <<pos, todo>>
    /\ UNCHANGED <<config, suffixes, nextID, outputs, runs, result>>

\* The combinations of one more attribute, up to numAttrs.
NextSize ==
    /\ pc = "plain"
    /\ todo = {}
    /\ IF pos.size < config.numAttrs
          THEN /\ pos' = [pos EXCEPT !.size = @ + 1]
               /\ todo' = Combinations(pos.size + 1, config.attrs)
               /\ UNCHANGED pc
          ELSE /\ pc' = "base"
               /\ UNCHANGED <<pos, todo>>
    /\ UNCHANGED <<config, suffixes, nextID, outputs, runs, result>>

Weapon == config.weapons[pos.weapon]

\* GetMask panics if an entry is in the list already.
MaskPanics(entries) == ~ IsInjective(entries)

\* The mask of the categories is that of the weapon's own suffix, the first.
RepeatedCategory ==
    /\ pc = "base"
    /\ pos.weapon <= Len(config.weapons)
    /\ MaskPanics(Weapon.cats)
    /\ pc' = "idle"
    /\ UNCHANGED <<config, todo, pos, suffixes, nextID, outputs, runs, result>>

\* The weapon's own suffix: no attributes, all its categories, the lowest tier.
WeaponBase ==
    /\ pc = "base"
    /\ IF pos.weapon <= Len(config.weapons)
          THEN /\ ~ MaskPanics(Weapon.cats)
               /\ AddSuffixes(<<NewSuffix(nextID, Weapon.enchant, {}, 0, ToSet(Weapon.cats))>>)
               /\ pos' = [pos EXCEPT !.cat = 0]
               /\ pc' = "weapon"
          ELSE /\ pc' = "limit"
               /\ UNCHANGED <<suffixes, nextID, pos>>
    /\ UNCHANGED <<config, todo, outputs, runs, result>>

NextCategory ==
    /\ pc = "weapon"
    /\ todo = {}
    /\ IF pos.cat < Len(Weapon.cats)
          THEN /\ pos' = [pos EXCEPT !.cat = @ + 1]
               /\ todo' = Combinations(config.numWeaponAttrs,
                                    WeaponAttributes(Weapon.cats[pos.cat + 1]))
               /\ UNCHANGED pc
          ELSE /\ pos' = [pos EXCEPT !.weapon = @ + 1]
               /\ pc' = "base"
               /\ UNCHANGED todo
    /\ UNCHANGED <<config, suffixes, nextID, outputs, runs, result>>

\* Mutant of SeenIndexes: only the first of the suffixes with these attributes.
FirstSeenIndex(attrs) ==
    LET seen == {i \in DOMAIN suffixes : suffixes[i].weapon = Weapon.enchant
                                         /\ suffixes[i].attrs = attrs}
    IN  {i \in seen : \A j \in seen : i <= j}

\* seenWeaponAttrMaskToSuffEntriesIdx: this weapon's suffixes with these
\* attributes. The base suffix is not in the map.
SeenIndexes(attrs) ==
    {i \in DOMAIN suffixes :
        /\ suffixes[i].weapon = Weapon.enchant
        /\ suffixes[i].attrs = attrs
        /\ attrs # {}}

\* Mutant of WeaponTiers: the last tier is not left out.
AllTiers(n) == n

\* Weapon suffixes do not have the last tier.
WeaponTiers(n) == n - 1

\* A combination of a category's attributes: if an earlier category of the
\* weapon had it, its suffixes serve this one too.
WeaponSuffixes ==
    /\ pc = "weapon"
    /\ todo # {}
    /\ LET attrs == NextCombi
           ec    == Weapon.cats[pos.cat]
           seen  == SeenIndexes(attrs)
       IN  IF seen # {}
              THEN /\ suffixes' = [i \in DOMAIN suffixes |->
                                     IF i \in seen
                                        THEN [suffixes[i] EXCEPT !.cats = @ \cup {ec}]
                                        ELSE suffixes[i]]
                   /\ UNCHANGED nextID
              ELSE AddSuffixes(Tiers(WeaponTiers(config.tiers), Weapon.enchant, attrs, {ec}))
    /\ todo' = todo \ {NextCombi}
    /\ UNCHANGED <<pc, config, pos, outputs, runs, result>>

-----------------------------------------------------------------------------
\* Mutant of TooMany: the limit is on the number of suffixes.
TooManySuffixes(id) == id - config.start > MaxID

TooMany(id) == id > MaxID

\* irsDBCID is one past the last ID here.
CheckLimit ==
    /\ pc = "limit"
    /\ IF TooMany(nextID) THEN pc' = "idle" /\ result' = "refused"
                          ELSE pc' = "write" /\ UNCHANGED result
    /\ UNCHANGED <<config, todo, pos, suffixes, nextID, outputs, runs>>

\* The script, then DBC.Export of the two files: one after the other, and none
\* of them at once.
WriteOutput ==
    /\ pc = "write"
    /\ \E i \in DOMAIN Order :
          /\ \A j \in 1 .. i - 1 : outputs[Order[j]] = "new"
          /\ \/ /\ outputs[Order[i]] \notin {"partial", "new"}
                /\ outputs' = [outputs EXCEPT ![Order[i]] = "partial"]
                /\ UNCHANGED <<pc, result>>
             \/ /\ outputs[Order[i]] = "partial"
                /\ outputs' = [outputs EXCEPT ![Order[i]] = "new"]
                /\ IF i = Len(Order) THEN pc' = "idle" /\ result' = "ok"
                                     ELSE UNCHANGED <<pc, result>>
    /\ UNCHANGED <<config, todo, pos, suffixes, nextID, runs>>

\* Any other panic, an append or an export that fails, an output that cannot be
\* opened or written, or a kill.
Stop ==
    /\ pc # "idle"
    /\ pc' = "idle"
    /\ todo' = {}
    /\ UNCHANGED <<config, pos, suffixes, nextID, outputs, runs, result>>

Next ==
    \/ Run \/ OpenOutput
    \/ PlainSuffixes \/ NextSize
    \/ RepeatedCategory \/ WeaponBase \/ NextCategory \/ WeaponSuffixes
    \/ CheckLimit \/ WriteOutput \/ Stop

Spec == Init /\ [][Next]_vars

-----------------------------------------------------------------------------
\* The suffixes a run with n tiers can make.
Suffix(n) ==
    [id : Nat, weapon : Nat \cup {NoWeapon}, attrs : SUBSET Attribute,
     tier : 0 .. n - 1, cats : SUBSET EnchantCategory]

\* The types of the variables; what the loops are at is there. A suffix has a
\* tier that StatPointAllocTiers has.
TypeOK ==
    /\ pc \in {"idle", "open", "plain", "base", "weapon", "limit", "write"}
    /\ config \in Configs
    /\ todo \in SUBSET SUBSET Attribute
    /\ pos \in [size : Nat, weapon : Nat \ {0}, cat : Nat]
    /\ pc = "base" => todo = {}
    /\ pc = "weapon" =>
          /\ pos.weapon \in DOMAIN config.weapons
          /\ pos.cat \in 0 .. Len(Weapon.cats)
          /\ todo # {} => pos.cat # 0
    /\ pc \notin {"idle", "open"} => suffixes \in Seq(Suffix(config.tiers))
    /\ nextID \in Nat
    /\ outputs \in [Output -> {"old", "empty", "partial", "new"}]
    /\ runs \in 0 .. MaxRuns
    /\ result \in {"none", "ok", "refused"}

Complete == pc \in {"limit", "write"}

\* The suffixes are numbered without a gap from the start ID, in any order of
\* weapons and categories, as the catalog of SuffixTables assumes. The DELETE
\* of the script covers them, and nextID, the ID behind the last.
IdsAreContiguous ==
    pc \notin {"idle", "open"} =>
        /\ nextID = config.start + Len(suffixes)
        /\ \A i \in DOMAIN suffixes : suffixes[i].id = config.start + i - 1

\* Every valid combination of up to numAttrs attributes has exactly one suffix
\* without a weapon in every tier, open to all categories, and there is no
\* other one: a roll that a combination satisfies finds it in each tier.
PlainSuffixesAreComplete ==
    Complete =>
        LET plain  == {s \in ToSet(suffixes) : s.weapon = NoWeapon}
            combis == UNION {Combinations(n, config.attrs) : n \in 1 .. config.numAttrs}
        IN  /\ {<<s.attrs, s.tier>> : s \in plain} = combis \X (0 .. config.tiers - 1)
            /\ \A s, t \in plain : s.attrs = t.attrs /\ s.tier = t.tier => s = t
            /\ \A s \in plain : s.cats = {}

\* The categories of weapon w that use attributes attrs.
CategoriesOf(w, attrs) == {ec \in ToSet(w.cats) : attrs \subseteq WeaponAttributes(ec)}

\* In every tier but the last, each category of a weapon finds each of its
\* combinations exactly once, and a suffix is offered to all the categories
\* that use its attributes, whatever the order the categories come in.
WeaponSuffixesAreShared ==
    Complete =>
        \A i \in DOMAIN config.weapons :
            LET w == config.weapons[i] IN
            \A ec \in ToSet(w.cats) :
                \A attrs \in Combinations(config.numWeaponAttrs, WeaponAttributes(ec)) :
                    \A tier \in 0 .. config.tiers - 2 :
                        \E s \in ToSet(suffixes) :
                            /\ s.weapon = w.enchant /\ s.tier = tier
                            /\ s.attrs = attrs /\ s.cats = CategoriesOf(w, attrs)
                            /\ \A t \in ToSet(suffixes) :
                                  t.weapon = s.weapon /\ t.tier = tier /\ t.attrs = attrs => t = s

\* In the highest tier a roll finds no weapon suffix, only plain ones.
LastTierIsPlain ==
    Complete /\ config.tiers > 1 =>
        \A s \in ToSet(suffixes) : s.tier = config.tiers - 1 => s.weapon = NoWeapon

\* Every suffix of a script that was written has an ID the client can hold.
WrittenIdsFit ==
    pc = "write" => \A s \in ToSet(suffixes) : s.id <= MaxID

\* Outputs of two runs are never mixed: wherever a run stops and however often
\* it is repeated, no file of an earlier run, nor a part of one, lies beside one
\* of a later run or a part of it.
NoMixedOutputs ==
    ~\E o, p \in Output : outputs[o] = "old" /\ outputs[p] \in {"partial", "new"}

\* "the highest ID number should be MaxInt16": a run is refused only if it has
\* given out a higher ID.
RefusedOnlyBeyondLimit ==
    pc = "idle" /\ result = "refused" => \E s \in ToSet(suffixes) : s.id > MaxID
=============================================================================
