----------------------- MODULE SuffixGenerator_proofs -----------------------
(***************************************************************************)
(* Proofs about the generator, for every configuration: the types of its   *)
(* variables, the numbering of the suffixes, the limit, that outputs of    *)
(* two runs are never mixed, and that the last tier is left to plain       *)
(* suffixes.                                                               *)
(***************************************************************************)
EXTENDS SuffixGenerator, SequenceTheorems, TLAPS

Offered == Nat \cup {NoWeapon}

LEMMA ConfigType == \A c \in Configs : c \in Config
  BY GeneratorAssumption

LEMMA NextCombiType ==
  ASSUME todo \in SUBSET SUBSET Attribute, todo # {}
  PROVE  NextCombi \in todo /\ NextCombi \in SUBSET Attribute
  BY DEF NextCombi

\* What the loop over the tiers appends.
LEMMA TiersType ==
  ASSUME nextID \in Nat, NEW n \in Nat, NEW m \in Nat, n <= m,
         NEW weapon \in Offered, NEW attrs \in SUBSET Attribute,
         NEW cats \in SUBSET EnchantCategory
  PROVE  LET new == Tiers(n, weapon, attrs, cats) IN
         /\ new \in Seq(Suffix(m))
         /\ Len(new) = n
         /\ \A k \in 1..n : new[k].id = nextID + k - 1
  <1> DEFINE new == Tiers(n, weapon, attrs, cats)
  <1>1. ASSUME NEW k \in 1..n
        PROVE  /\ NewSuffix(nextID + k - 1, weapon, attrs, k - 1, cats) \in Suffix(m)
               /\ new[k] = NewSuffix(nextID + k - 1, weapon, attrs, k - 1, cats)
    <2>1. nextID + k - 1 \in Nat /\ k - 1 \in 0 .. m - 1
      OBVIOUS
    <2> QED
      BY <2>1 DEF NewSuffix, Suffix, Tiers, Offered
  <1>2. new \in [1..n -> Suffix(m)]
    BY <1>1 DEF Tiers
  <1>3. new \in Seq(Suffix(m))
    BY <1>2, SeqDef
  <1>4. Len(new) = n
    BY <1>2, <1>3, LenProperties
  <1>5. ASSUME NEW k \in 1..n PROVE new[k].id = nextID + k - 1
    <2> DEFINE elt == NewSuffix(nextID + k - 1, weapon, attrs, k - 1, cats)
    <2>1. new[k] = elt
      BY <1>1
    <2>2. elt.id = nextID + k - 1
      BY DEF NewSuffix
    <2> QED
      BY <2>1, <2>2
  <1> QED
    BY <1>3, <1>4, <1>5

\* The suffixes from start on are numbered without a gap.
Numbered(seq, start) == \A i \in DOMAIN seq : seq[i].id = start + i - 1

\* Suffixes numbered from nextID continue the numbering.
LEMMA AddingNumbers ==
  ASSUME NEW S, NEW start \in Nat, suffixes \in Seq(S), NEW new \in Seq(S),
         nextID = start + Len(suffixes), Numbered(suffixes, start),
         \A k \in 1 .. Len(new) : new[k].id = nextID + k - 1,
         AddSuffixes(new)
  PROVE  /\ nextID' = start + Len(suffixes')
         /\ Numbered(suffixes', start)
  <1>1. suffixes' = suffixes \o new /\ nextID' = nextID + Len(new)
    BY DEF AddSuffixes
  <1>2. Len(suffixes) \in Nat /\ Len(new) \in Nat
        /\ DOMAIN suffixes = 1 .. Len(suffixes)
    BY LenProperties
  <1>3. /\ suffixes' \in Seq(S)
        /\ Len(suffixes') = Len(suffixes) + Len(new)
        /\ \A i \in 1 .. Len(suffixes) + Len(new) : suffixes'[i] =
              IF i <= Len(suffixes) THEN suffixes[i] ELSE new[i - Len(suffixes)]
    BY <1>1, ConcatProperties
  <1>4. DOMAIN suffixes' = 1 .. Len(suffixes) + Len(new)
    BY <1>3, LenProperties
  <1>5. ASSUME NEW i \in DOMAIN suffixes' PROVE suffixes'[i].id = start + i - 1
    <2>1. CASE i <= Len(suffixes)
      <3>1. i \in DOMAIN suffixes
        BY <1>2, <1>4, <2>1
      <3> QED
        BY <1>2, <1>3, <1>4, <2>1, <3>1 DEF Numbered
    <2>2. CASE ~(i <= Len(suffixes))
      <3>1. i - Len(suffixes) \in 1 .. Len(new)
        BY <1>2, <1>4, <2>2
      <3>2. suffixes'[i] = new[i - Len(suffixes)]
        BY <1>3, <1>4, <2>2
      <3> QED
        BY <1>2, <1>4, <3>1, <3>2
    <2> QED
      BY <2>1, <2>2
  <1> QED
    BY <1>1, <1>2, <1>3, <1>5 DEF Numbered

LEMMA AddingType ==
  ASSUME NEW S, suffixes \in Seq(S), NEW new \in Seq(S), nextID \in Nat, AddSuffixes(new)
  PROVE  suffixes' \in Seq(S) /\ nextID' \in Nat
  BY ConcatProperties, LenProperties DEF AddSuffixes

\* Sharing a suffix changes its categories only.
LEMMA SharingKeeps ==
  ASSUME NEW n \in Nat, suffixes \in Seq(Suffix(n)), NEW seen, NEW ec \in EnchantCategory,
         suffixes' = [i \in DOMAIN suffixes |->
                        IF i \in seen THEN [suffixes[i] EXCEPT !.cats = @ \cup {ec}]
                                      ELSE suffixes[i]]
  PROVE  /\ suffixes' \in Seq(Suffix(n))
         /\ Len(suffixes') = Len(suffixes)
         /\ DOMAIN suffixes' = DOMAIN suffixes
         /\ \A i \in DOMAIN suffixes : suffixes'[i].id = suffixes[i].id
  <1>1. /\ Len(suffixes) \in Nat /\ DOMAIN suffixes = 1 .. Len(suffixes)
        /\ \A i \in DOMAIN suffixes : suffixes[i] \in Suffix(n)
    BY LenProperties, ElementOfSeq
  <1>2. ASSUME NEW i \in DOMAIN suffixes
        PROVE  suffixes'[i] \in Suffix(n) /\ suffixes'[i].id = suffixes[i].id
    <2>1. suffixes[i] \in Suffix(n)
      BY <1>1
    <2>2. /\ [suffixes[i] EXCEPT !.cats = @ \cup {ec}] \in Suffix(n)
          /\ [suffixes[i] EXCEPT !.cats = @ \cup {ec}].id = suffixes[i].id
      BY <2>1 DEF Suffix
    <2> QED
      BY <2>1, <2>2
  <1>3. suffixes' \in [1 .. Len(suffixes) -> Suffix(n)]
    BY <1>1, <1>2
  <1>4. suffixes' \in Seq(Suffix(n))
    BY <1>1, <1>3, SeqDef
  <1>5. Len(suffixes') = Len(suffixes) /\ DOMAIN suffixes' = DOMAIN suffixes
    BY <1>1, <1>3, <1>4, LenProperties
  <1> QED
    BY <1>2, <1>4, <1>5

-----------------------------------------------------------------------------
LEMMA TypeInit == Init => TypeOK
  BY GeneratorAssumption, ConfigType DEF Init, TypeOK, Start, Config, Output

LEMMA CombinationsType ==
  ASSUME NEW n, NEW attrs \in SUBSET Attribute
  PROVE  Combinations(n, attrs) \in SUBSET SUBSET Attribute
  BY DEF Combinations

LEMMA WeaponAttributesType ==
  ASSUME NEW ec \in EnchantCategory PROVE WeaponAttributes(ec) \in SUBSET Attribute
  BY DEF EnchantCategory, WeaponAttributes, Attribute

\* The weapon that the loops are at.
LEMMA WeaponType ==
  ASSUME TypeOK, pos.weapon \in 1 .. Len(config.weapons)
  PROVE  /\ pos.weapon \in DOMAIN config.weapons
         /\ Weapon \in [enchant : Nat, cats : Seq(EnchantCategory)]
         /\ Len(Weapon.cats) \in Nat
         /\ \A i \in 1 .. Len(Weapon.cats) : Weapon.cats[i] \in EnchantCategory
  <1>1. config.weapons \in Seq([enchant : Nat, cats : Seq(EnchantCategory)])
    BY ConfigType DEF TypeOK, Config
  <1>2. /\ pos.weapon \in DOMAIN config.weapons
        /\ Weapon \in [enchant : Nat, cats : Seq(EnchantCategory)]
    BY <1>1, LenProperties, ElementOfSeq DEF Weapon
  <1> QED
    BY <1>2, LenProperties, ElementOfSeq

LEMMA TypeNext == TypeOK /\ [Next]_vars => TypeOK'
  <1> SUFFICES ASSUME TypeOK, [Next]_vars PROVE TypeOK'
    OBVIOUS
  <1>0. config \in Config /\ config.attrs \in SUBSET Attribute
        /\ config.tiers \in 1..5 /\ config.start \in Nat /\ config.numAttrs \in 1..5
    BY ConfigType DEF TypeOK, Config
  <1>1. CASE Run
    BY <1>1, GeneratorAssumption DEF Run, TypeOK
  <1>2. CASE OpenOutput
    <2>1. CASE outputs' # outputs
      BY <1>2, <2>1 DEF OpenOutput, TypeOK
    <2>2. CASE outputs' = outputs
      <3>1. CASE pc' = "open" /\ UNCHANGED <<todo, pos, suffixes, nextID>>
        BY <1>2, <2>2, <3>1 DEF OpenOutput, TypeOK
      <3>2. CASE /\ pc' = "plain" /\ todo' = Combinations(1, config.attrs) /\ pos' = Start
                 /\ suffixes' = <<>> /\ nextID' = config.start
        BY <1>0, <1>2, <2>2, <3>2, CombinationsType, EmptySeq DEF OpenOutput, TypeOK, Start
      <3> QED
        BY <1>2, <3>1, <3>2 DEF OpenOutput
    <2> QED
      BY <2>1, <2>2
  <1>3. CASE PlainSuffixes
    <2>1. NextCombi \in SUBSET Attribute
      BY <1>3, NextCombiType DEF PlainSuffixes, TypeOK
    <2>2. suffixes \in Seq(Suffix(config.tiers)) /\ nextID \in Nat
      BY <1>3 DEF PlainSuffixes, TypeOK
    <2>3. Tiers(config.tiers, NoWeapon, NextCombi, {}) \in Seq(Suffix(config.tiers))
      <3>1. /\ config.tiers \in Nat /\ config.tiers <= config.tiers
            /\ NoWeapon \in Offered /\ {} \in SUBSET EnchantCategory
        BY <1>0 DEF Offered
      <3> QED
        BY <2>1, <2>2, <3>1, TiersType
    <2>4. suffixes' \in Seq(Suffix(config.tiers)) /\ nextID' \in Nat
      BY <1>3, <2>2, <2>3, AddingType DEF PlainSuffixes
    <2> QED
      BY <1>3, <2>4 DEF PlainSuffixes, TypeOK
  <1>4. CASE NextSize
    <2>1. Combinations(pos.size + 1, config.attrs) \in SUBSET SUBSET Attribute
      BY <1>0, CombinationsType
    <2> QED
      BY <1>0, <1>4, <2>1 DEF NextSize, TypeOK
  <1>5. CASE WeaponBase
    <2>1. CASE pos.weapon <= Len(config.weapons)
      <3>1. config.weapons \in Seq([enchant : Nat, cats : Seq(EnchantCategory)])
        BY <1>0 DEF Config
      <3>2. pos.weapon \in 1 .. Len(config.weapons)
        BY <2>1, <3>1, LenProperties DEF TypeOK
      <3> DEFINE base == NewSuffix(nextID, Weapon.enchant, {}, 0, ToSet(Weapon.cats))
      <3>3. /\ ToSet(Weapon.cats) \in SUBSET EnchantCategory
            /\ Weapon.enchant \in Nat /\ Len(Weapon.cats) \in Nat
        BY <3>2, WeaponType, LenProperties DEF ToSet
      <3>4. base \in Suffix(config.tiers)
        BY <1>0, <3>3 DEF TypeOK, NewSuffix, Suffix
      <3>5. <<base>> \in Seq(Suffix(config.tiers))
        BY <3>4
      <3>6. suffixes \in Seq(Suffix(config.tiers)) /\ nextID \in Nat
        BY <1>5 DEF WeaponBase, TypeOK
      <3>7. AddSuffixes(<<base>>)
        BY <1>5, <2>1 DEF WeaponBase
      <3>8. suffixes' \in Seq(Suffix(config.tiers)) /\ nextID' \in Nat
        BY <3>5, <3>6, <3>7, AddingType
      <3>9. /\ pc' = "weapon" /\ pos' = [pos EXCEPT !.cat = 0] /\ todo = {} /\ todo' = todo
            /\ UNCHANGED <<config, outputs, runs, result>>
        BY <1>5, <2>1 DEF WeaponBase, TypeOK
      <3>10. Weapon' = Weapon
        BY <3>9 DEF Weapon, TypeOK
      <3> QED
        BY <3>2, <3>3, <3>8, <3>9, <3>10, WeaponType DEF TypeOK
    <2>2. CASE ~(pos.weapon <= Len(config.weapons))
      BY <1>5, <2>2 DEF WeaponBase, TypeOK
    <2> QED
      BY <2>1, <2>2
  <1>6. CASE NextCategory
    <2>1. pos.weapon \in DOMAIN config.weapons /\ pos.cat \in 0 .. Len(Weapon.cats)
      BY <1>6 DEF NextCategory, TypeOK
    <2>2. pos.weapon \in 1 .. Len(config.weapons)
      BY <1>0, <2>1, LenProperties DEF Config
    <2>3. CASE pos.cat < Len(Weapon.cats)
      <3>1. pos.cat + 1 \in 1 .. Len(Weapon.cats) /\ Len(Weapon.cats) \in Nat
        BY <2>1, <2>2, <2>3, WeaponType
      <3>2. Combinations(config.numWeaponAttrs, WeaponAttributes(Weapon.cats[pos.cat + 1]))
               \in SUBSET SUBSET Attribute
        BY <2>2, <3>1, WeaponType, WeaponAttributesType, CombinationsType
      <3>3. /\ pos' = [pos EXCEPT !.cat = @ + 1] /\ todo' \in SUBSET SUBSET Attribute
            /\ UNCHANGED <<pc, config, suffixes, nextID, outputs, runs, result>>
        BY <1>6, <2>3, <3>2 DEF NextCategory
      <3>4. Weapon' = Weapon
        BY <3>3 DEF Weapon, TypeOK
      <3> QED
        BY <1>6, <2>1, <3>1, <3>3, <3>4 DEF NextCategory, TypeOK
    <2>4. CASE ~(pos.cat < Len(Weapon.cats))
      BY <1>6, <2>4 DEF NextCategory, TypeOK
    <2> QED
      BY <2>3, <2>4
  <1>7. CASE WeaponSuffixes
    <2>1. /\ pos.weapon \in DOMAIN config.weapons /\ pos.cat \in 1 .. Len(Weapon.cats)
          /\ NextCombi \in SUBSET Attribute
          /\ suffixes \in Seq(Suffix(config.tiers)) /\ nextID \in Nat
      <3>1. pos.weapon \in DOMAIN config.weapons /\ pos.cat \in 0 .. Len(Weapon.cats)
            /\ pos.cat # 0 /\ pos.cat \in Nat
        BY <1>7 DEF WeaponSuffixes, TypeOK
      <3> QED
        BY <1>7, <3>1, NextCombiType DEF WeaponSuffixes, TypeOK
    <2>2. pos.weapon \in 1 .. Len(config.weapons)
      BY <1>0, <2>1, LenProperties DEF Config
    <2> DEFINE ec == Weapon.cats[pos.cat]
               seen == SeenIndexes(NextCombi)
    <2>3. ec \in EnchantCategory /\ Weapon.enchant \in Nat
      BY <2>1, <2>2, WeaponType
    <2>4. suffixes' \in Seq(Suffix(config.tiers)) /\ nextID' \in Nat
      <3>1. CASE seen # {}
        <4>1. /\ nextID' = nextID
              /\ suffixes' = [i \in DOMAIN suffixes |->
                   IF i \in seen THEN [suffixes[i] EXCEPT !.cats = @ \cup {ec}]
                                 ELSE suffixes[i]]
          BY <1>7, <3>1 DEF WeaponSuffixes
        <4>2. config.tiers \in Nat
          BY <1>0
        <4> HIDE DEF ec, seen
        <4>3. suffixes' \in Seq(Suffix(config.tiers))
          BY <2>1, <2>3, <4>1, <4>2, SharingKeeps
        <4> QED
          BY <2>1, <4>1, <4>3
      <3>2. CASE seen = {}
        <4>1. /\ WeaponTiers(config.tiers) \in Nat /\ config.tiers \in Nat
              /\ WeaponTiers(config.tiers) <= config.tiers
              /\ Weapon.enchant \in Offered /\ {ec} \in SUBSET EnchantCategory
          BY <1>0, <2>3 DEF WeaponTiers, Offered
        <4>2. Tiers(WeaponTiers(config.tiers), Weapon.enchant, NextCombi, {ec})
                 \in Seq(Suffix(config.tiers))
          BY <2>1, <4>1, TiersType
        <4> QED
          BY <1>7, <2>1, <3>2, <4>2, AddingType DEF WeaponSuffixes
      <3> QED
        BY <3>1, <3>2
    <2>5. todo' \in SUBSET SUBSET Attribute /\ UNCHANGED <<pc, config, pos, outputs, runs, result>>
      BY <1>7 DEF WeaponSuffixes, TypeOK
    <2>6. Weapon' = Weapon
      BY <2>5 DEF Weapon
    <2> QED
      BY <1>7, <2>1, <2>4, <2>5, <2>6 DEF WeaponSuffixes, TypeOK
  <1>8. CASE CheckLimit
    BY <1>8 DEF CheckLimit, TypeOK
  <1>9. CASE WriteOutput
    BY <1>9 DEF WriteOutput, TypeOK, Output, Order
  <1>10. CASE Stop
    BY <1>10 DEF Stop, TypeOK
  <1>11. CASE UNCHANGED vars
    BY <1>11 DEF vars, TypeOK, Weapon
  <1>12. CASE RepeatedCategory
    BY <1>12 DEF RepeatedCategory, TypeOK
  <1> QED
    BY <1>1, <1>2, <1>3, <1>4, <1>5, <1>6, <1>7, <1>8, <1>9, <1>10, <1>11, <1>12 DEF Next

\* The variables of the generator have their types in every reachable state:
\* the loops never read a weapon or a category beyond the ends of the
\* configuration, and no suffix has a tier the configuration does not have.
THEOREM GeneratorTypeCorrect == Spec => []TypeOK
  BY TypeInit, TypeNext, PTL DEF Spec

-----------------------------------------------------------------------------
\* IdsAreContiguous is inductive given the types: suffixes are only appended,
\* with the next ID, or have their categories changed.
LEMMA IdsNext == TypeOK /\ IdsAreContiguous /\ [Next]_vars => IdsAreContiguous'
  <1> SUFFICES ASSUME TypeOK, IdsAreContiguous, [Next]_vars PROVE IdsAreContiguous'
    OBVIOUS
  <1>0. /\ config \in Config /\ config.tiers \in 1..5 /\ config.start \in Nat
        /\ nextID \in Nat
    BY ConfigType DEF TypeOK, Config
  <1> DEFINE Contiguous == nextID = config.start + Len(suffixes) /\ Numbered(suffixes, config.start)
             Loops == pc \notin {"idle", "open"} /\ config' = config
  <1>a. Loops => Contiguous /\ suffixes \in Seq(Suffix(config.tiers))
    BY DEF IdsAreContiguous, Numbered, TypeOK
  <1>b. Loops /\ nextID' = config.start + Len(suffixes') /\ Numbered(suffixes', config.start)
           => IdsAreContiguous'
    BY DEF IdsAreContiguous, Numbered
  <1>c. UNCHANGED <<config, suffixes, nextID>> /\ pc \notin {"idle", "open"} => IdsAreContiguous'
    BY DEF IdsAreContiguous
  <1>1. CASE Run
    BY <1>1 DEF Run, IdsAreContiguous
  <1>2. CASE OpenOutput
    <2>1. CASE pc' = "open"
      BY <2>1 DEF IdsAreContiguous
    <2>2. CASE suffixes' = <<>> /\ nextID' = config.start /\ config' = config
      BY <1>0, <2>2 DEF IdsAreContiguous
    <2> QED
      BY <1>2, <2>1, <2>2 DEF OpenOutput
  <1>3. CASE PlainSuffixes
    <2>1. Loops /\ NextCombi \in SUBSET Attribute
      BY <1>3, NextCombiType DEF PlainSuffixes, TypeOK
    <2>2. /\ config.tiers \in Nat /\ config.tiers <= config.tiers
          /\ NoWeapon \in Offered /\ {} \in SUBSET EnchantCategory
      BY <1>0 DEF Offered
    <2> DEFINE new == Tiers(config.tiers, NoWeapon, NextCombi, {})
    <2>3. /\ new \in Seq(Suffix(config.tiers)) /\ Len(new) = config.tiers
          /\ \A k \in 1..config.tiers : new[k].id = nextID + k - 1
      BY <1>0, <2>1, <2>2, TiersType
    <2>4. AddSuffixes(new)
      BY <1>3 DEF PlainSuffixes
    <2> HIDE DEF new
    <2>5. nextID' = config.start + Len(suffixes') /\ Numbered(suffixes', config.start)
      BY <1>0, <1>a, <2>1, <2>3, <2>4, AddingNumbers
    <2> QED
      BY <1>b, <2>1, <2>5
  <1>4. CASE NextSize
    BY <1>4, <1>c DEF NextSize
  <1>5. CASE WeaponBase
    <2>1. CASE pos.weapon <= Len(config.weapons)
      <3>1. config.weapons \in Seq([enchant : Nat, cats : Seq(EnchantCategory)])
        BY <1>0 DEF Config
      <3>2. pos.weapon \in 1 .. Len(config.weapons)
        BY <2>1, <3>1, LenProperties DEF TypeOK
      <3>3. ToSet(Weapon.cats) \in SUBSET EnchantCategory /\ Weapon.enchant \in Nat
        BY <3>2, WeaponType, LenProperties DEF ToSet
      <3> DEFINE base == NewSuffix(nextID, Weapon.enchant, {}, 0, ToSet(Weapon.cats))
                 new  == <<base>>
      <3>4. base \in Suffix(config.tiers) /\ base.id = nextID
        BY <1>0, <3>3 DEF NewSuffix, Suffix
      <3>5. AddSuffixes(new) /\ Loops
        BY <1>5, <2>1 DEF WeaponBase
      <3> HIDE DEF base
      <3>6. /\ new \in Seq(Suffix(config.tiers)) /\ Len(new) = 1
            /\ \A k \in 1..1 : new[k].id = nextID + k - 1
        BY <1>0, <3>4
      <3> HIDE DEF new
      <3>7. nextID' = config.start + Len(suffixes') /\ Numbered(suffixes', config.start)
        BY <1>0, <1>a, <3>5, <3>6, AddingNumbers
      <3> QED
        BY <1>b, <3>5, <3>7
    <2>2. CASE ~(pos.weapon <= Len(config.weapons))
      BY <1>5, <1>c, <2>2 DEF WeaponBase
    <2> QED
      BY <2>1, <2>2
  <1>6. CASE NextCategory
    BY <1>6, <1>c DEF NextCategory
  <1>7. CASE WeaponSuffixes
    <2>1. /\ Loops /\ NextCombi \in SUBSET Attribute /\ pos.weapon \in DOMAIN config.weapons
          /\ pos.cat \in 1 .. Len(Weapon.cats)
      <3>1. pos.weapon \in DOMAIN config.weapons /\ pos.cat \in 0 .. Len(Weapon.cats)
            /\ pos.cat # 0 /\ pos.cat \in Nat
        BY <1>7 DEF WeaponSuffixes, TypeOK
      <3> QED
        BY <1>7, <3>1, NextCombiType DEF WeaponSuffixes, TypeOK
    <2>2. pos.weapon \in 1 .. Len(config.weapons)
      BY <1>0, <2>1, LenProperties DEF Config
    <2> DEFINE ec   == Weapon.cats[pos.cat]
               seen == SeenIndexes(NextCombi)
               new  == Tiers(WeaponTiers(config.tiers), Weapon.enchant, NextCombi, {ec})
    <2>3. ec \in EnchantCategory /\ Weapon.enchant \in Nat
      BY <2>1, <2>2, WeaponType
    <2>4. CASE seen # {}
      <3>1. /\ nextID' = nextID
            /\ suffixes' = [i \in DOMAIN suffixes |->
                 IF i \in seen THEN [suffixes[i] EXCEPT !.cats = @ \cup {ec}]
                               ELSE suffixes[i]]
        BY <1>7, <2>4 DEF WeaponSuffixes
      <3>2. config.tiers \in Nat
        BY <1>0
      <3> HIDE DEF ec, seen
      <3>3. /\ Len(suffixes') = Len(suffixes) /\ DOMAIN suffixes' = DOMAIN suffixes
            /\ \A i \in DOMAIN suffixes : suffixes'[i].id = suffixes[i].id
        BY <1>a, <2>1, <2>3, <3>1, <3>2, SharingKeeps
      <3>4. nextID' = config.start + Len(suffixes') /\ Numbered(suffixes', config.start)
        BY <1>a, <2>1, <3>1, <3>3 DEF Numbered
      <3> QED
        BY <1>b, <2>1, <3>4
    <2>5. CASE seen = {}
      <3>1. /\ WeaponTiers(config.tiers) \in Nat /\ config.tiers \in Nat
            /\ WeaponTiers(config.tiers) <= config.tiers
            /\ Weapon.enchant \in Offered /\ {ec} \in SUBSET EnchantCategory
        BY <1>0, <2>3 DEF WeaponTiers, Offered
      <3>2. /\ new \in Seq(Suffix(config.tiers)) /\ Len(new) = WeaponTiers(config.tiers)
            /\ \A k \in 1 .. WeaponTiers(config.tiers) : new[k].id = nextID + k - 1
        BY <1>0, <2>1, <3>1, TiersType
      <3>3. AddSuffixes(new)
        BY <1>7, <2>5 DEF WeaponSuffixes
      <3> HIDE DEF new
      <3>4. nextID' = config.start + Len(suffixes') /\ Numbered(suffixes', config.start)
        BY <1>0, <1>a, <2>1, <3>2, <3>3, AddingNumbers
      <3> QED
        BY <1>b, <2>1, <3>4
    <2> QED
      BY <2>4, <2>5
  <1>8. CASE CheckLimit
    BY <1>8, <1>c DEF CheckLimit
  <1>9. CASE WriteOutput
    BY <1>9, <1>c DEF WriteOutput
  <1>10. CASE Stop
    BY <1>10 DEF Stop, IdsAreContiguous
  <1>11. CASE UNCHANGED vars
    BY <1>11 DEF vars, IdsAreContiguous
  <1>12. CASE RepeatedCategory
    BY <1>12 DEF RepeatedCategory, IdsAreContiguous
  <1> QED
    BY <1>1, <1>2, <1>3, <1>4, <1>5, <1>6, <1>7, <1>8, <1>9, <1>10, <1>11, <1>12 DEF Next

\* The suffixes of a run are numbered from its start ID without a gap, for
\* every configuration, as the catalog of SuffixTables assumes.
THEOREM SuffixIdsAreContiguous == Spec => []IdsAreContiguous
  <1>1. Init => IdsAreContiguous
    BY DEF Init, IdsAreContiguous
  <1> QED
    BY <1>1, IdsNext, GeneratorTypeCorrect, PTL DEF Spec

\* Output is written only past the check on the number that comes next.
LimitChecked == pc = "write" => nextID <= MaxID

LEMMA LimitNext == TypeOK /\ LimitChecked /\ [Next]_vars => LimitChecked'
  <1> SUFFICES ASSUME TypeOK, LimitChecked, [Next]_vars PROVE LimitChecked'
    OBVIOUS
  <1>1. CASE CheckLimit
    BY <1>1, GeneratorAssumption DEF CheckLimit, TooMany, LimitChecked, TypeOK
  <1>2. CASE pc' # "write"
    BY <1>2 DEF LimitChecked
  <1>3. CASE pc' = pc /\ nextID' = nextID
    BY <1>3 DEF LimitChecked
  <1>4. CASE pc # "write" /\ pc' = pc
    BY <1>4 DEF LimitChecked
  <1> QED
    BY <1>1, <1>2, <1>3, <1>4
    DEF vars, Next, Run, OpenOutput, PlainSuffixes, NextSize, WeaponBase, NextCategory,
        WeaponSuffixes, RepeatedCategory, WriteOutput, Stop

\* No run writes a suffix whose ID does not fit, at any limit: the check reads
\* a counter that is past the last ID, so the numbering is what makes it safe.
THEOREM EveryWrittenIdFits == Spec => []WrittenIdsFit
  <1>1. TypeOK /\ IdsAreContiguous /\ LimitChecked => WrittenIdsFit
    <2> SUFFICES ASSUME TypeOK, IdsAreContiguous, LimitChecked, pc = "write",
                        NEW i \in DOMAIN suffixes
                 PROVE  suffixes[i].id <= MaxID
      BY DEF WrittenIdsFit, ToSet
    <2>1. suffixes \in Seq(Suffix(config.tiers)) /\ config.start \in Nat
      BY ConfigType DEF TypeOK, Config
    <2>2. i \in 1 .. Len(suffixes) /\ Len(suffixes) \in Nat
      BY <2>1, LenProperties
    <2>3. suffixes[i].id = config.start + i - 1 /\ config.start + Len(suffixes) <= MaxID
      BY DEF IdsAreContiguous, LimitChecked
    <2> QED
      BY <2>1, <2>2, <2>3, GeneratorAssumption
  <1>2. Init => LimitChecked
    BY DEF Init, LimitChecked
  <1> QED
    BY <1>1, <1>2, LimitNext, GeneratorTypeCorrect, SuffixIdsAreContiguous, PTL DEF Spec

-----------------------------------------------------------------------------
\* What makes NoMixedOutputs inductive. Nothing is written until every output
\* has been truncated, and nothing is new while they are.
OutputPhases ==
    /\ NoMixedOutputs
    /\ pc = "open" => \A o \in Output : outputs[o] \notin {"partial", "new"}
    /\ pc \notin {"idle", "open"} => \A o \in Output : outputs[o] # "old"

LEMMA OutputPhasesNext == TypeOK /\ OutputPhases /\ [Next]_vars => OutputPhases'
  <1> SUFFICES ASSUME TypeOK, OutputPhases, [Next]_vars PROVE OutputPhases'
    OBVIOUS
  <1> USE DEF OutputPhases, NoMixedOutputs, Output
  <1>1. CASE Run
    BY <1>1 DEF Run, TypeOK
  <1>2. CASE OpenOutput
    <2>1. ASSUME NEW i \in DOMAIN Order, outputs' = [outputs EXCEPT ![Order[i]] = "empty"],
                 pc = "open", pc' = pc
          PROVE  OutputPhases'
      BY <2>1 DEF TypeOK
    <2>2. CASE outputs' = outputs /\ pc' = "plain" /\ \A o \in Output : outputs[o] = "empty"
      BY <2>2
    <2> QED
      BY <1>2, <2>1, <2>2 DEF OpenOutput
  <1>3. CASE WriteOutput
    BY <1>3 DEF WriteOutput, TypeOK, Order
  <1>4. CASE UNCHANGED outputs /\ pc \notin {"idle", "open"} /\ pc' # "open"
    BY <1>4
  <1>5. CASE Stop
    BY <1>5 DEF Stop
  <1>6. CASE UNCHANGED vars
    BY <1>6 DEF vars
  <1> QED
    BY <1>1, <1>2, <1>3, <1>4, <1>5, <1>6
    DEF Next, PlainSuffixes, NextSize, RepeatedCategory, WeaponBase, NextCategory, WeaponSuffixes,
        CheckLimit

\* However often the generator is run, wherever each run stops and whatever
\* the configurations are, no output of an earlier run lies beside one of a
\* later run.
THEOREM OutputsAreNeverMixed == Spec => []NoMixedOutputs
  <1>1. Init => OutputPhases
    BY DEF Init, OutputPhases, NoMixedOutputs, Output
  <1>2. OutputPhases => NoMixedOutputs
    BY DEF OutputPhases
  <1> QED
    BY <1>1, <1>2, OutputPhasesNext, GeneratorTypeCorrect, PTL DEF Spec

-----------------------------------------------------------------------------
\* The suffixes that leave the last of n tiers to plain ones, if it is not the
\* only one.
Capped(n) == {s \in Suffix(n) : n > 1 /\ s.tier = n - 1 => s.weapon = NoWeapon}

CappedInv == pc \notin {"idle", "open"} => suffixes \in Seq(Capped(config.tiers))

\* The loop over the tiers stays within them if it makes plain suffixes, or
\* leaves the last tier out.
LEMMA TiersCapped ==
  ASSUME nextID \in Nat, NEW n \in Nat, NEW m \in Nat, n <= m,
         NEW weapon \in Offered, NEW attrs \in SUBSET Attribute,
         NEW cats \in SUBSET EnchantCategory,
         weapon = NoWeapon \/ n < m
  PROVE  Tiers(n, weapon, attrs, cats) \in Seq(Capped(m))
  <1> DEFINE new == Tiers(n, weapon, attrs, cats)
  <1>1. ASSUME NEW k \in 1..n PROVE new[k] \in Capped(m)
    <2>1. /\ nextID + k - 1 \in Nat /\ k - 1 \in 0 .. m - 1
          /\ k - 1 = m - 1 => weapon = NoWeapon
      OBVIOUS
    <2>2. NewSuffix(nextID + k - 1, weapon, attrs, k - 1, cats) \in Capped(m)
      BY <2>1 DEF NewSuffix, Suffix, Capped, Offered
    <2> QED
      BY <2>2 DEF Tiers
  <1>2. new \in [1..n -> Capped(m)]
    BY <1>1 DEF Tiers
  <1> QED
    BY <1>2, SeqDef

\* Sharing keeps the suffixes in every set that does not look at categories.
LEMMA SharingStays ==
  ASSUME NEW S, suffixes \in Seq(S), NEW seen, NEW ec,
         \A s \in S : [s EXCEPT !.cats = @ \cup {ec}] \in S,
         suffixes' = [i \in DOMAIN suffixes |->
                        IF i \in seen THEN [suffixes[i] EXCEPT !.cats = @ \cup {ec}]
                                      ELSE suffixes[i]]
  PROVE  suffixes' \in Seq(S)
  <1>1. /\ Len(suffixes) \in Nat /\ DOMAIN suffixes = 1 .. Len(suffixes)
        /\ \A i \in DOMAIN suffixes : suffixes[i] \in S
    BY LenProperties, ElementOfSeq
  <1>2. ASSUME NEW i \in DOMAIN suffixes PROVE suffixes'[i] \in S
    <2>1. suffixes[i] \in S /\ [suffixes[i] EXCEPT !.cats = @ \cup {ec}] \in S
      BY <1>1
    <2>2. suffixes'[i] = IF i \in seen THEN [suffixes[i] EXCEPT !.cats = @ \cup {ec}]
                                       ELSE suffixes[i]
      OBVIOUS
    <2> QED
      BY <2>1, <2>2
  <1>3. suffixes' \in [1 .. Len(suffixes) -> S]
    BY <1>1, <1>2
  <1> QED
    BY <1>1, <1>3, SeqDef

LEMMA CappedNext == TypeOK /\ CappedInv /\ [Next]_vars => CappedInv'
  <1> SUFFICES ASSUME TypeOK, CappedInv, [Next]_vars PROVE CappedInv'
    OBVIOUS
  <1>0. /\ config \in Config /\ config.tiers \in 1..5 /\ nextID \in Nat
        /\ config.tiers \in Nat
    <2>1. config \in Config /\ config.tiers \in 1..5 /\ nextID \in Nat
      BY ConfigType DEF TypeOK, Config
    <2> QED
      BY <2>1
  <1> DEFINE S == Capped(config.tiers)
             Loops == pc \notin {"idle", "open"} /\ config' = config
  <1>a. Loops => suffixes \in Seq(S)
    BY DEF CappedInv
  <1>b. Loops /\ suffixes' \in Seq(S) => CappedInv'
    BY DEF CappedInv
  <1>c. UNCHANGED <<config, suffixes>> /\ pc \notin {"idle", "open"} => CappedInv'
    BY DEF CappedInv
  <1>1. CASE pc' \in {"idle", "open"}
    BY <1>1 DEF CappedInv
  <1>2. CASE OpenOutput
    <2>1. CASE suffixes' = <<>>
      BY <2>1 DEF CappedInv
    <2>2. CASE pc' = pc
      BY <1>1, <1>2, <2>2 DEF OpenOutput
    <2> QED
      BY <1>2, <2>1, <2>2 DEF OpenOutput
  <1>3. CASE PlainSuffixes
    <2>1. Loops /\ NextCombi \in SUBSET Attribute
      BY <1>3, NextCombiType DEF PlainSuffixes, TypeOK
    <2>2. NoWeapon \in Offered /\ {} \in SUBSET EnchantCategory
      BY DEF Offered
    <2>3. config.tiers <= config.tiers
      BY <1>0
    <2>4. Tiers(config.tiers, NoWeapon, NextCombi, {}) \in Seq(S)
      BY <1>0, <2>1, <2>2, <2>3, TiersCapped
    <2>5. AddSuffixes(Tiers(config.tiers, NoWeapon, NextCombi, {}))
      BY <1>3 DEF PlainSuffixes
    <2>6. suffixes \in Seq(S)
      BY <1>a, <2>1
    <2> HIDE DEF S
    <2>7. suffixes' \in Seq(S)
      BY <1>0, <2>4, <2>5, <2>6, AddingType
    <2> QED
      BY <1>b, <2>1, <2>7
  <1>4. CASE WeaponBase /\ pos.weapon <= Len(config.weapons)
    <2>1. config.weapons \in Seq([enchant : Nat, cats : Seq(EnchantCategory)])
      BY <1>0 DEF Config
    <2>2. pos.weapon \in 1 .. Len(config.weapons)
      BY <1>4, <2>1, LenProperties DEF TypeOK
    <2>3. ToSet(Weapon.cats) \in SUBSET EnchantCategory /\ Weapon.enchant \in Nat
      BY <2>2, WeaponType, LenProperties DEF ToSet
    <2> DEFINE base == NewSuffix(nextID, Weapon.enchant, {}, 0, ToSet(Weapon.cats))
    <2>4. base \in S
      BY <1>0, <2>3 DEF NewSuffix, Suffix, Capped
    <2>5. AddSuffixes(<<base>>) /\ Loops
      BY <1>4 DEF WeaponBase
    <2>6. suffixes \in Seq(S)
      BY <1>a, <2>5
    <2> HIDE DEF S, base
    <2>7. <<base>> \in Seq(S)
      BY <2>4
    <2>8. suffixes' \in Seq(S)
      BY <1>0, <2>5, <2>6, <2>7, AddingType
    <2> QED
      BY <1>b, <2>5, <2>8
  <1>5. CASE WeaponSuffixes
    <2>1. /\ Loops /\ NextCombi \in SUBSET Attribute /\ pos.weapon \in DOMAIN config.weapons
          /\ pos.cat \in 1 .. Len(Weapon.cats)
      <3>1. pos.weapon \in DOMAIN config.weapons /\ pos.cat \in 0 .. Len(Weapon.cats)
            /\ pos.cat # 0 /\ pos.cat \in Nat
        BY <1>5 DEF WeaponSuffixes, TypeOK
      <3> QED
        BY <1>5, <3>1, NextCombiType DEF WeaponSuffixes, TypeOK
    <2>2. pos.weapon \in 1 .. Len(config.weapons)
      BY <1>0, <2>1, LenProperties DEF Config
    <2> DEFINE ec   == Weapon.cats[pos.cat]
               seen == SeenIndexes(NextCombi)
               new  == Tiers(WeaponTiers(config.tiers), Weapon.enchant, NextCombi, {ec})
    <2>3. ec \in EnchantCategory /\ Weapon.enchant \in Nat
      BY <2>1, <2>2, WeaponType
    <2>4. suffixes \in Seq(S)
      BY <1>a, <2>1
    <2>5. CASE seen # {}
      <3>1. suffixes' = [i \in DOMAIN suffixes |->
                 IF i \in seen THEN [suffixes[i] EXCEPT !.cats = @ \cup {ec}]
                               ELSE suffixes[i]]
        BY <1>5, <2>5 DEF WeaponSuffixes
      <3> HIDE DEF ec, seen
      <3>2. \A s \in S : [s EXCEPT !.cats = @ \cup {ec}] \in S
        BY <2>3 DEF Capped, Suffix
      <3> HIDE DEF S
      <3>3. suffixes' \in Seq(S)
        BY <2>4, <3>1, <3>2, SharingStays
      <3> QED
        BY <1>b, <2>1, <3>3
    <2>6. CASE seen = {}
      <3>1. /\ WeaponTiers(config.tiers) \in Nat /\ WeaponTiers(config.tiers) < config.tiers
            /\ WeaponTiers(config.tiers) <= config.tiers
            /\ Weapon.enchant \in Offered /\ {ec} \in SUBSET EnchantCategory
        BY <1>0, <2>3 DEF WeaponTiers, Offered
      <3>2. new \in Seq(S)
        BY <1>0, <2>1, <3>1, TiersCapped
      <3>3. AddSuffixes(new)
        BY <1>5, <2>6 DEF WeaponSuffixes
      <3> HIDE DEF new, S
      <3>4. suffixes' \in Seq(S)
        BY <1>0, <2>4, <3>2, <3>3, AddingType
      <3> QED
        BY <1>b, <2>1, <3>4
    <2> QED
      BY <2>5, <2>6
  <1>6. CASE UNCHANGED vars
    BY <1>6 DEF vars, CappedInv
  <1> QED
    BY <1>1, <1>2, <1>3, <1>4, <1>5, <1>6, <1>c
    DEF Next, Run, NextSize, RepeatedCategory, WeaponBase, NextCategory, CheckLimit, WriteOutput,
        Stop

\* Whatever the configuration, no suffix of a weapon is in the highest of
\* several tiers.
THEOREM LastTierStaysPlain == Spec => []LastTierIsPlain
  <1>1. Init => CappedInv
    BY DEF Init, CappedInv
  <1>2. TypeOK /\ CappedInv => LastTierIsPlain
    <2> SUFFICES ASSUME TypeOK, CappedInv, Complete, config.tiers > 1,
                        NEW i \in DOMAIN suffixes, suffixes[i].tier = config.tiers - 1
                 PROVE  suffixes[i].weapon = NoWeapon
      BY DEF LastTierIsPlain, ToSet
    <2>1. suffixes \in Seq(Capped(config.tiers))
      BY DEF CappedInv, Complete
    <2>2. suffixes[i] \in Capped(config.tiers)
      BY <2>1, LenProperties, ElementOfSeq
    <2> QED
      BY <2>2 DEF Capped
  <1> QED
    BY <1>1, <1>2, CappedNext, GeneratorTypeCorrect, PTL DEF Spec
=============================================================================
