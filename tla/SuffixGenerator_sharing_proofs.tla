------------------- MODULE SuffixGenerator_sharing_proofs -------------------
(***************************************************************************)
(* The proofs that the generator shares the suffixes of a weapon between   *)
(* its categories, and that its suffixes without a weapon are complete,    *)
(* for every configuration.                                                *)
(*                                                                         *)
(* The loops pass a weapon's categories one after the other, and each      *)
(* category's combinations. The invariant says what is there for a weapon  *)
(* and a combination half way: nothing, as long as no category that uses   *)
(* it has been passed; one suffix for every tier but the last, offered to  *)
(* all the categories that have been passed and use it, afterwards.        *)
(***************************************************************************)
EXTENDS SuffixGenerator_proofs, FiniteSetTheorems

\* The combinations that any category can ask for.
Combis == Combinations(config.numWeaponAttrs, Attribute)

\* Where seq has suffixes with these attributes that extend enchant e.
Of(seq, e, attrs) == {i \in DOMAIN seq : seq[i].weapon = e /\ seq[i].attrs = attrs}

\* With n tiers, those suffixes are what the categories of cats need.
Filled(seq, n, e, attrs, cats) ==
    /\ \A i \in Of(seq, e, attrs) : cats # {} /\ seq[i].cats = cats
    /\ cats # {} =>
          \A tier \in 0 .. n - 2 :
              \E i \in Of(seq, e, attrs) :
                  /\ seq[i].tier = tier
                  /\ \A j \in Of(seq, e, attrs) : seq[j].tier = tier => j = i

\* The loops have passed the combination for category c of weapon v.
Passed(v, c, attrs) ==
    \/ v < pos.weapon
    \/ /\ pc = "weapon" /\ v = pos.weapon
       /\ c < pos.cat \/ (c = pos.cat /\ attrs \notin todo)

Served(v, attrs) ==
    LET cats == config.weapons[v].cats IN
    {cats[c] : c \in {d \in DOMAIN cats : attrs \subseteq WeaponAttributes(cats[d])
                                          /\ Passed(v, d, attrs)}}

InWeapons == pc \in {"base", "weapon", "limit", "write"}

AllFilled ==
    \A v \in DOMAIN config.weapons, attrs \in Combis :
        Filled(suffixes, config.tiers, config.weapons[v].enchant, attrs, Served(v, attrs))

SharingInv ==
    /\ pc = "plain" => /\ pos.weapon = 1
                       /\ \A i \in DOMAIN suffixes : suffixes[i].weapon = NoWeapon
    /\ Complete => pos.weapon > Len(config.weapons)
    /\ pc = "weapon" /\ todo # {} =>
          todo \subseteq Combinations(config.numWeaponAttrs,
                                      WeaponAttributes(Weapon.cats[pos.cat]))
    /\ InWeapons => AllFilled


-----------------------------------------------------------------------------
(***************************************************************************)
(* What appending and sharing do to a list of suffixes.                    *)
(***************************************************************************)
LEMMA Appended ==
  ASSUME NEW S, NEW seq \in Seq(S), NEW new \in Seq(S)
  PROVE  /\ Len(seq) \in Nat /\ Len(new) \in Nat
         /\ DOMAIN seq = 1 .. Len(seq)
         /\ DOMAIN (seq \o new) = 1 .. Len(seq) + Len(new)
         /\ \A i \in 1 .. Len(seq) : (seq \o new)[i] = seq[i]
         /\ \A k \in 1 .. Len(new) : (seq \o new)[Len(seq) + k] = new[k]
  <1>1. Len(seq) \in Nat /\ Len(new) \in Nat /\ DOMAIN seq = 1 .. Len(seq)
    BY LenProperties
  <1>2. /\ seq \o new \in Seq(S)
        /\ Len(seq \o new) = Len(seq) + Len(new)
        /\ \A i \in 1 .. Len(seq) + Len(new) : (seq \o new)[i] =
              IF i <= Len(seq) THEN seq[i] ELSE new[i - Len(seq)]
    BY ConcatProperties
  <1>3. DOMAIN (seq \o new) = 1 .. Len(seq) + Len(new)
    BY <1>2, LenProperties
  <1>4. ASSUME NEW k \in 1 .. Len(new) PROVE (seq \o new)[Len(seq) + k] = new[k]
    <2>1. /\ Len(seq) + k \in 1 .. Len(seq) + Len(new) /\ ~(Len(seq) + k <= Len(seq))
          /\ (Len(seq) + k) - Len(seq) = k
      BY <1>1
    <2> QED
      BY <1>2, <2>1
  <1>5. \A i \in 1 .. Len(seq) : (seq \o new)[i] = seq[i]
    BY <1>1, <1>2
  <1> QED
    BY <1>1, <1>3, <1>4, <1>5

\* Other suffixes may follow.
LEMMA FilledStays ==
  ASSUME NEW S, NEW seq \in Seq(S), NEW new \in Seq(S), NEW n, NEW e, NEW attrs, NEW cats,
         Filled(seq, n, e, attrs, cats),
         \A k \in 1 .. Len(new) : ~(new[k].weapon = e /\ new[k].attrs = attrs)
  PROVE  Filled(seq \o new, n, e, attrs, cats)
  <1> DEFINE all == seq \o new
  <1>1. /\ Len(seq) \in Nat /\ Len(new) \in Nat
        /\ DOMAIN seq = 1 .. Len(seq) /\ DOMAIN all = 1 .. Len(seq) + Len(new)
        /\ \A i \in 1 .. Len(seq) : all[i] = seq[i]
        /\ \A k \in 1 .. Len(new) : all[Len(seq) + k] = new[k]
    BY Appended
  <1> HIDE DEF all
  <1>2. ASSUME NEW i \in Of(all, e, attrs) PROVE i \in Of(seq, e, attrs)
    <2>1. CASE i \in 1 .. Len(seq)
      BY <1>1, <1>2, <2>1 DEF Of
    <2>2. CASE i \notin 1 .. Len(seq)
      <3>1. i - Len(seq) \in 1 .. Len(new) /\ i = Len(seq) + (i - Len(seq))
        BY <1>1, <1>2, <2>2 DEF Of
      <3>2. all[i] = new[i - Len(seq)]
        BY <1>1, <3>1
      <3> QED
        BY <1>2, <3>1, <3>2 DEF Of
    <2> QED
      BY <2>1, <2>2
  <1>3. ASSUME NEW i \in Of(seq, e, attrs) PROVE i \in Of(all, e, attrs) /\ all[i] = seq[i]
    BY <1>1, <1>3 DEF Of
  <1>4. Of(all, e, attrs) = Of(seq, e, attrs)
    BY <1>2, <1>3
  <1>5. Filled(all, n, e, attrs, cats)
    BY <1>3, <1>4 DEF Filled
  <1> QED
    BY <1>5 DEF all

\* What the loop over the tiers appends is what its category needs.
LEMMA FilledFirst ==
  ASSUME NEW S, NEW seq \in Seq(S), NEW new \in Seq(S), NEW n \in Nat, n > 0,
         NEW e, NEW attrs, NEW ec,
         Of(seq, e, attrs) = {}, Len(new) = n - 1,
         \A k \in 1 .. n - 1 : /\ new[k].weapon = e /\ new[k].attrs = attrs
                               /\ new[k].tier = k - 1 /\ new[k].cats = {ec}
  PROVE  Filled(seq \o new, n, e, attrs, {ec})
  <1> DEFINE all == seq \o new
             L == Len(seq)
  <1>1. /\ L \in Nat /\ DOMAIN seq = 1 .. L
        /\ DOMAIN all = 1 .. L + (n - 1)
        /\ \A i \in 1 .. L : all[i] = seq[i]
        /\ \A k \in 1 .. n - 1 : all[L + k] = new[k]
    BY Appended
  <1> HIDE DEF all, L
  <1>2. ASSUME NEW i \in Of(all, e, attrs)
        PROVE  /\ i - L \in 1 .. n - 1
               /\ all[i].cats = {ec} /\ all[i].tier = (i - L) - 1
    <2>1. i \notin 1 .. L
      BY <1>1, <1>2 DEF Of
    <2>2. i - L \in 1 .. n - 1 /\ i = L + (i - L)
      BY <1>1, <1>2, <2>1 DEF Of
    <2>3. all[i] = new[i - L]
      BY <1>1, <2>2
    <2> QED
      BY <2>2, <2>3
  <1>3. ASSUME NEW tier \in 0 .. n - 2
        PROVE  \E i \in Of(all, e, attrs) :
                  /\ all[i].tier = tier
                  /\ \A j \in Of(all, e, attrs) : all[j].tier = tier => j = i
    <2> DEFINE k == tier + 1
    <2>1. k \in 1 .. n - 1 /\ k - 1 = tier
      OBVIOUS
    <2>2. L + k \in DOMAIN all /\ all[L + k] = new[k]
      BY <1>1, <2>1
    <2>3. L + k \in Of(all, e, attrs) /\ all[L + k].tier = tier
      BY <2>1, <2>2 DEF Of
    <2>4. ASSUME NEW j \in Of(all, e, attrs), all[j].tier = tier PROVE j = L + k
      <3>1. j - L \in 1 .. n - 1 /\ (j - L) - 1 = tier /\ j \in DOMAIN all
        BY <1>2, <2>4 DEF Of
      <3>2. L \in Int /\ j \in Int
        BY <1>1, <3>1
      <3> QED
        BY <3>1, <3>2
    <2> QED
      BY <2>3, <2>4
  <1>4. Filled(all, n, e, attrs, {ec})
    BY <1>2, <1>3 DEF Filled
  <1> QED
    BY <1>4 DEF all

\* seq with the suffixes of a weapon and a combination offered to ec as well.
Shared(seq, e, attrs, ec) ==
    [i \in DOMAIN seq |-> IF i \in Of(seq, e, attrs)
                             THEN [seq[i] EXCEPT !.cats = @ \cup {ec}]
                             ELSE seq[i]]

LEMMA SharedFields ==
  ASSUME NEW m \in Nat, NEW seq \in Seq(Suffix(m)), NEW e, NEW attrs, NEW ec,
         NEW new, new = Shared(seq, e, attrs, ec)
  PROVE  /\ DOMAIN new = DOMAIN seq
         /\ \A i \in DOMAIN seq :
               /\ new[i].weapon = seq[i].weapon /\ new[i].attrs = seq[i].attrs
               /\ new[i].tier = seq[i].tier
               /\ i \in Of(seq, e, attrs) => new[i].cats = seq[i].cats \cup {ec}
               /\ i \notin Of(seq, e, attrs) => new[i].cats = seq[i].cats
  <1>1. DOMAIN new = DOMAIN seq
    BY DEF Shared
  <1>2. ASSUME NEW i \in DOMAIN seq
        PROVE  /\ new[i].weapon = seq[i].weapon /\ new[i].attrs = seq[i].attrs
               /\ new[i].tier = seq[i].tier
               /\ i \in Of(seq, e, attrs) => new[i].cats = seq[i].cats \cup {ec}
               /\ i \notin Of(seq, e, attrs) => new[i].cats = seq[i].cats
    <2> DEFINE s == [seq[i] EXCEPT !.cats = @ \cup {ec}]
    <2>1. seq[i] \in Suffix(m)
      BY LenProperties, ElementOfSeq
    <2>2. /\ s.weapon = seq[i].weapon /\ s.attrs = seq[i].attrs
          /\ s.tier = seq[i].tier /\ s.cats = seq[i].cats \cup {ec}
      BY <2>1 DEF Suffix
    <2>3. new[i] = IF i \in Of(seq, e, attrs) THEN s ELSE seq[i]
      BY DEF Shared
    <2> HIDE DEF s
    <2> QED
      BY <2>2, <2>3
  <1> QED
    BY <1>1, <1>2

LEMMA FilledShared ==
  ASSUME NEW m \in Nat, NEW seq \in Seq(Suffix(m)), NEW n, NEW e, NEW attrs, NEW ec,
         NEW cats, Of(seq, e, attrs) # {}, Filled(seq, n, e, attrs, cats),
         NEW new, new = Shared(seq, e, attrs, ec)
  PROVE  Filled(new, n, e, attrs, cats \cup {ec})
  <1>1. /\ DOMAIN new = DOMAIN seq
        /\ \A i \in DOMAIN seq :
               /\ new[i].weapon = seq[i].weapon /\ new[i].attrs = seq[i].attrs
               /\ new[i].tier = seq[i].tier
               /\ i \in Of(seq, e, attrs) => new[i].cats = seq[i].cats \cup {ec}
    BY SharedFields
  <1>2. Of(new, e, attrs) = Of(seq, e, attrs) /\ Of(seq, e, attrs) \subseteq DOMAIN seq
    BY <1>1 DEF Of
  <1>3. \A i \in Of(seq, e, attrs) : /\ new[i].tier = seq[i].tier
                                     /\ new[i].cats = seq[i].cats \cup {ec}
    BY <1>1, <1>2
  <1>4. /\ cats # {}
        /\ \A i \in Of(seq, e, attrs) : seq[i].cats = cats
        /\ \A tier \in 0 .. n - 2 :
              \E i \in Of(seq, e, attrs) :
                  /\ seq[i].tier = tier
                  /\ \A j \in Of(seq, e, attrs) : seq[j].tier = tier => j = i
    BY DEF Filled
  <1>5. \A i \in Of(new, e, attrs) : cats \cup {ec} # {} /\ new[i].cats = cats \cup {ec}
    BY <1>2, <1>3, <1>4
  <1>6. ASSUME NEW tier \in 0 .. n - 2
        PROVE  \E i \in Of(new, e, attrs) :
                  /\ new[i].tier = tier
                  /\ \A j \in Of(new, e, attrs) : new[j].tier = tier => j = i
    BY <1>2, <1>3, <1>4
  <1> QED
    BY <1>5, <1>6 DEF Filled

\* Suffixes of another weapon or combination are not touched.
LEMMA SharedElsewhere ==
  ASSUME NEW m \in Nat, NEW seq \in Seq(Suffix(m)), NEW n, NEW e, NEW attrs, NEW ec,
         NEW e2, NEW attrs2, NEW cats, e2 # e \/ attrs2 # attrs,
         Filled(seq, n, e2, attrs2, cats),
         NEW new, new = Shared(seq, e, attrs, ec)
  PROVE  Filled(new, n, e2, attrs2, cats)
  <1>1. /\ DOMAIN new = DOMAIN seq
        /\ \A i \in DOMAIN seq :
               /\ new[i].weapon = seq[i].weapon /\ new[i].attrs = seq[i].attrs
               /\ new[i].tier = seq[i].tier
               /\ i \notin Of(seq, e, attrs) => new[i].cats = seq[i].cats
    BY SharedFields
  <1>2. Of(new, e2, attrs2) = Of(seq, e2, attrs2) /\ Of(seq, e2, attrs2) \subseteq DOMAIN seq
    BY <1>1 DEF Of
  <1>3. \A i \in Of(seq, e2, attrs2) : i \notin Of(seq, e, attrs)
    BY DEF Of
  <1>4. \A i \in Of(seq, e2, attrs2) : new[i].tier = seq[i].tier /\ new[i].cats = seq[i].cats
    BY <1>1, <1>2, <1>3
  <1> QED
    BY <1>2, <1>4 DEF Filled

-----------------------------------------------------------------------------
(***************************************************************************)
(* Weapons, combinations and what the loops have passed.                   *)
(***************************************************************************)
LEMMA WeaponsOfConfig ==
  ASSUME TypeOK
  PROVE  /\ config.tiers \in 1..5 /\ config.tiers \in Nat
         /\ Len(config.weapons) \in Nat
         /\ DOMAIN config.weapons = 1 .. Len(config.weapons)
         /\ \A v \in DOMAIN config.weapons :
               /\ config.weapons[v].enchant \in Nat
               /\ config.weapons[v].cats \in Seq(EnchantCategory)
               /\ DOMAIN config.weapons[v].cats = 1 .. Len(config.weapons[v].cats)
               /\ Len(config.weapons[v].cats) \in Nat
               /\ \A d \in DOMAIN config.weapons[v].cats :
                     config.weapons[v].cats[d] \in EnchantCategory
         /\ \A v, w \in DOMAIN config.weapons :
               config.weapons[v].enchant = config.weapons[w].enchant => v = w
  <1> DEFINE W == [enchant : Nat, cats : Seq(EnchantCategory)]
  <1>1. config \in Config /\ config \in Configs
    BY ConfigType DEF TypeOK
  <1>2. config.tiers \in 1..5 /\ config.weapons \in Seq(W)
    BY <1>1 DEF Config
  <1>3. config.tiers \in Nat
    BY <1>2
  <1> HIDE DEF W
  <1>4. /\ Len(config.weapons) \in Nat
        /\ DOMAIN config.weapons = 1 .. Len(config.weapons)
        /\ \A v \in DOMAIN config.weapons : config.weapons[v] \in W
    BY <1>2, LenProperties, ElementOfSeq
  <1>5. ASSUME NEW v \in DOMAIN config.weapons
        PROVE  /\ config.weapons[v].enchant \in Nat
               /\ config.weapons[v].cats \in Seq(EnchantCategory)
    BY <1>4 DEF W
  <1>6. ASSUME NEW v \in DOMAIN config.weapons
        PROVE  /\ DOMAIN config.weapons[v].cats = 1 .. Len(config.weapons[v].cats)
               /\ Len(config.weapons[v].cats) \in Nat
               /\ \A d \in DOMAIN config.weapons[v].cats :
                     config.weapons[v].cats[d] \in EnchantCategory
    BY <1>5, LenProperties, ElementOfSeq
  <1>7. ASSUME NEW v \in DOMAIN config.weapons, NEW w \in DOMAIN config.weapons,
               config.weapons[v].enchant = config.weapons[w].enchant
        PROVE  v = w
    <2>1. \A i, j \in DOMAIN config.weapons :
              i < j => config.weapons[i].enchant < config.weapons[j].enchant
      BY <1>1, GeneratorAssumption
    <2>2. /\ v < w => config.weapons[v].enchant < config.weapons[w].enchant
          /\ w < v => config.weapons[w].enchant < config.weapons[v].enchant
      BY <2>1
    <2>3. /\ config.weapons[v].enchant \in Nat /\ config.weapons[w].enchant \in Nat
          /\ v \in Int /\ w \in Int
      BY <1>4, <1>5
    <2> QED
      BY <1>7, <2>2, <2>3
  <1> QED
    BY <1>2, <1>3, <1>4, <1>5, <1>6, <1>7

LEMMA CombinationsOfCategory ==
  ASSUME NEW n, NEW ec \in EnchantCategory
  PROVE  \A attrs : attrs \in Combinations(n, WeaponAttributes(ec)) <=>
                       /\ attrs \in Combinations(n, Attribute)
                       /\ attrs \subseteq WeaponAttributes(ec)
  BY WeaponAttributesType DEF Combinations

LEMMA CombisAreNotEmpty ==
  ASSUME TypeOK, NEW attrs \in Combis
  PROVE  attrs # {}
  <1>1. config.numWeaponAttrs \in 1..4
    BY ConfigType DEF TypeOK, Config
  <1>2. Cardinality(attrs) = config.numWeaponAttrs
    BY DEF Combis, Combinations
  <1> QED
    BY <1>1, <1>2, FS_EmptySet

LEMMA ServedSame ==
  ASSUME config' = config, NEW v, NEW attrs,
         \A d \in DOMAIN config.weapons[v].cats :
            attrs \subseteq WeaponAttributes(config.weapons[v].cats[d]) =>
               (Passed(v, d, attrs)' <=> Passed(v, d, attrs))
  PROVE  Served(v, attrs)' = Served(v, attrs)
  BY DEF Served

\* Suffixes of other weapons or combinations, or none, may be appended.
LEMMA AllFilledStays ==
  ASSUME AllFilled, config' = config, NEW S, suffixes \in Seq(S), NEW new \in Seq(S),
         suffixes' = suffixes \o new,
         \A k \in 1 .. Len(new) : new[k].attrs \notin Combis,
         \A v \in DOMAIN config.weapons, attrs \in Combis :
            Served(v, attrs)' = Served(v, attrs)
  PROVE  AllFilled'
  <1> SUFFICES ASSUME NEW v \in DOMAIN config.weapons, NEW attrs \in Combis
               PROVE  Filled(suffixes', config.tiers, config.weapons[v].enchant, attrs,
                             Served(v, attrs))
    BY DEF AllFilled, Combis
  <1> DEFINE e == config.weapons[v].enchant
             cats == Served(v, attrs)
             n == config.tiers
  <1>1. Filled(suffixes, n, e, attrs, cats)
    BY DEF AllFilled
  <1>2. \A k \in 1 .. Len(new) : ~(new[k].weapon = e /\ new[k].attrs = attrs)
    OBVIOUS
  <1> HIDE DEF e, cats, n
  <1>3. Filled(suffixes \o new, n, e, attrs, cats)
    BY <1>1, <1>2, FilledStays
  <1> QED
    BY <1>3 DEF e, cats, n

LEMMA AllFilledSame ==
  ASSUME AllFilled, config' = config, suffixes' = suffixes,
         \A v \in DOMAIN config.weapons, attrs \in Combis :
            Served(v, attrs)' = Served(v, attrs)
  PROVE  AllFilled'
  BY DEF AllFilled, Combis

-----------------------------------------------------------------------------
(***************************************************************************)
(* One lemma for every kind of turn.                                       *)
(***************************************************************************)
LEMMA PlainStep ==
  ASSUME TypeOK, SharingInv, PlainSuffixes
  PROVE  SharingInv'
  <1>1. /\ pc = "plain" /\ UNCHANGED <<pc, config, pos>>
        /\ AddSuffixes(Tiers(config.tiers, NoWeapon, NextCombi, {}))
        /\ todo # {}
    BY DEF PlainSuffixes
  <1> DEFINE S == {s \in Suffix(config.tiers) : s.weapon = NoWeapon}
             new == Tiers(config.tiers, NoWeapon, NextCombi, {})
  <1>2. config.tiers \in Nat /\ nextID \in Nat /\ suffixes \in Seq(Suffix(config.tiers))
    BY <1>1, WeaponsOfConfig DEF TypeOK
  <1>3. NextCombi \in SUBSET Attribute /\ NoWeapon \in Offered /\ {} \in SUBSET EnchantCategory
    BY <1>1, NextCombiType DEF TypeOK, Offered
  <1>4. config.tiers <= config.tiers
    BY <1>2
  <1>5. /\ new \in Seq(Suffix(config.tiers)) /\ Len(new) = config.tiers
    BY <1>2, <1>3, <1>4, TiersType
  <1>6. \A k \in 1 .. config.tiers : new[k].weapon = NoWeapon
    BY DEF Tiers, NewSuffix
  <1>7. suffixes' = suffixes \o new
    BY <1>1 DEF AddSuffixes
  <1> HIDE DEF new
  <1>8. /\ DOMAIN suffixes = 1 .. Len(suffixes) /\ Len(suffixes) \in Nat
        /\ DOMAIN suffixes' = 1 .. Len(suffixes) + config.tiers
        /\ \A i \in 1 .. Len(suffixes) : suffixes'[i] = suffixes[i]
        /\ \A k \in 1 .. config.tiers : suffixes'[Len(suffixes) + k] = new[k]
    BY <1>2, <1>5, <1>7, Appended
  <1>9. ASSUME NEW i \in DOMAIN suffixes' PROVE suffixes'[i].weapon = NoWeapon
    <2>1. CASE i \in 1 .. Len(suffixes)
      BY <1>1, <1>8, <2>1 DEF SharingInv
    <2>2. CASE i \notin 1 .. Len(suffixes)
      <3>1. /\ i - Len(suffixes) \in 1 .. config.tiers
            /\ i = Len(suffixes) + (i - Len(suffixes))
        BY <1>2, <1>8, <2>2
      <3>2. suffixes'[i] = new[i - Len(suffixes)]
        BY <1>8, <3>1
      <3> QED
        BY <1>6, <3>1, <3>2
    <2> QED
      BY <2>1, <2>2
  <1>10. pos.weapon = 1
    BY <1>1 DEF SharingInv
  <1> QED
    BY <1>1, <1>9, <1>10 DEF SharingInv, Complete, InWeapons

\* Before the first weapon there is nothing for any.
LEMMA ToWeaponsStep ==
  ASSUME TypeOK, SharingInv, NextSize, pc' = "base"
  PROVE  SharingInv'
  <1>1. pc = "plain" /\ UNCHANGED <<config, pos, suffixes, todo>>
    BY DEF NextSize
  <1>2. pos.weapon = 1 /\ \A i \in DOMAIN suffixes : suffixes[i].weapon = NoWeapon
    BY <1>1 DEF SharingInv
  <1> SUFFICES AllFilled'
    BY DEF SharingInv, Complete, InWeapons
  <1> SUFFICES ASSUME NEW v \in DOMAIN config.weapons, NEW attrs \in Combis
               PROVE  Filled(suffixes, config.tiers, config.weapons[v].enchant, attrs,
                             Served(v, attrs)')
    BY <1>1 DEF AllFilled, Combis
  <1>3. config.weapons[v].enchant # NoWeapon /\ v \in Nat /\ v >= 1
    BY WeaponsOfConfig, GeneratorAssumption
  <1>4. \A d : ~Passed(v, d, attrs)'
    BY <1>1, <1>2, <1>3 DEF Passed
  <1>5. Served(v, attrs)' = {}
    BY <1>4 DEF Served
  <1>6. Of(suffixes, config.weapons[v].enchant, attrs) = {}
    BY <1>2, <1>3 DEF Of
  <1> QED
    BY <1>5, <1>6 DEF Filled

\* A weapon's own suffix is none of those that are shared.
LEMMA BaseStep ==
  ASSUME TypeOK, SharingInv, WeaponBase
  PROVE  SharingInv'
  <1>1. pc = "base" /\ UNCHANGED <<config, todo>> /\ todo = {} /\ AllFilled
    BY DEF WeaponBase, TypeOK, SharingInv, InWeapons
  <1>2. CASE pos.weapon <= Len(config.weapons)
    <2> DEFINE base == NewSuffix(nextID, Weapon.enchant, {}, 0, ToSet(Weapon.cats))
    <2>1. /\ pc' = "weapon" /\ pos' = [pos EXCEPT !.cat = 0]
          /\ suffixes' = suffixes \o <<base>>
      BY <1>2 DEF WeaponBase, AddSuffixes
    <2>2. pos'.weapon = pos.weapon /\ pos'.cat = 0
      BY <2>1 DEF TypeOK
    <2>3. ASSUME NEW v \in DOMAIN config.weapons, NEW attrs \in Combis
          PROVE  Served(v, attrs)' = Served(v, attrs)
      <3>1. \A d \in DOMAIN config.weapons[v].cats : d \in Nat /\ d >= 1
        BY WeaponsOfConfig
      <3>2. \A d \in DOMAIN config.weapons[v].cats :
               Passed(v, d, attrs)' <=> Passed(v, d, attrs)
        BY <1>1, <2>1, <2>2, <3>1 DEF Passed
      <3> QED
        BY <1>1, <3>2, ServedSame
    <2>4. base.attrs = {}
      BY DEF NewSuffix
    <2> DEFINE S == Suffix(config.tiers) \cup {base}
    <2>5. suffixes \in Seq(S)
      <3>1. suffixes \in Seq(Suffix(config.tiers))
        BY <1>1 DEF TypeOK
      <3> QED
        BY <3>1, SeqDef, LenProperties, ElementOfSeq
    <2>6. base \in S
      OBVIOUS
    <2> HIDE DEF base, S
    <2>7. <<base>> \in Seq(S) /\ Len(<<base>>) = 1 /\ <<base>>[1] = base
      BY <2>6
    <2>8. \A k \in 1 .. Len(<<base>>) : <<base>>[k].attrs \notin Combis
      BY <2>4, <2>7, CombisAreNotEmpty
    <2>9. AllFilled'
      BY <1>1, <2>1, <2>3, <2>5, <2>7, <2>8, AllFilledStays
    <2> QED
      BY <1>1, <2>1, <2>9 DEF SharingInv, Complete
  <1>3. CASE ~(pos.weapon <= Len(config.weapons))
    <2>1. pc' = "limit" /\ UNCHANGED <<suffixes, pos>>
      BY <1>3 DEF WeaponBase
    <2>2. ASSUME NEW v \in DOMAIN config.weapons, NEW attrs \in Combis
          PROVE  Served(v, attrs)' = Served(v, attrs)
      BY <1>1, <2>1, ServedSame DEF Passed
    <2>3. AllFilled'
      BY <1>1, <2>1, <2>2, AllFilledSame
    <2>4. pos.weapon > Len(config.weapons)
      BY <1>3, WeaponsOfConfig DEF TypeOK
    <2> QED
      BY <1>1, <2>1, <2>3, <2>4 DEF SharingInv, Complete
  <1> QED
    BY <1>2, <1>3

\* From one category to the next, or to the next weapon.
LEMMA CategoryStep ==
  ASSUME TypeOK, SharingInv, NextCategory
  PROVE  SharingInv'
  <1>1. pc = "weapon" /\ todo = {} /\ UNCHANGED <<config, suffixes>> /\ AllFilled
    BY DEF NextCategory, SharingInv, InWeapons
  <1>2. /\ pos.weapon \in DOMAIN config.weapons /\ pos.weapon \in Nat /\ pos.cat \in Nat
        /\ pos.cat \in 0 .. Len(Weapon.cats) /\ Len(Weapon.cats) \in Nat
        /\ DOMAIN Weapon.cats = 1 .. Len(Weapon.cats)
        /\ \A d \in DOMAIN Weapon.cats : Weapon.cats[d] \in EnchantCategory
    BY <1>1, WeaponsOfConfig DEF TypeOK, Weapon
  <1>3. CASE pos.cat < Len(Weapon.cats)
    <2> DEFINE ec == Weapon.cats[pos.cat + 1]
    <2>1. /\ pc' = "weapon" /\ pos' = [pos EXCEPT !.cat = @ + 1]
          /\ todo' = Combinations(config.numWeaponAttrs, WeaponAttributes(ec))
      BY <1>1, <1>3 DEF NextCategory
    <2>2. pos'.weapon = pos.weapon /\ pos'.cat = pos.cat + 1 /\ Weapon' = Weapon
      BY <1>1, <2>1 DEF TypeOK, Weapon
    <2>3. ec \in EnchantCategory
      BY <1>2, <1>3
    <2>4. ASSUME NEW v \in DOMAIN config.weapons, NEW attrs \in Combis
          PROVE  Served(v, attrs)' = Served(v, attrs)
      <3>1. ASSUME NEW d \in DOMAIN config.weapons[v].cats,
                   attrs \subseteq WeaponAttributes(config.weapons[v].cats[d])
            PROVE  Passed(v, d, attrs)' <=> Passed(v, d, attrs)
        <4>1. d \in Nat /\ v \in Nat
          BY WeaponsOfConfig
        <4>2. v = pos.weapon /\ d = pos.cat + 1 => attrs \in todo'
          <5>1. v = pos.weapon /\ d = pos.cat + 1 => attrs \subseteq WeaponAttributes(ec)
            BY <3>1 DEF Weapon
          <5> QED
            BY <2>1, <2>3, <5>1, CombinationsOfCategory DEF Combis
        <4> QED
          BY <1>1, <1>2, <2>1, <2>2, <4>1, <4>2 DEF Passed
      <3> QED
        BY <1>1, <3>1, ServedSame
    <2>5. AllFilled'
      BY <1>1, <2>4, AllFilledSame
    <2>6. todo' \subseteq Combinations(config'.numWeaponAttrs,
                                      WeaponAttributes(Weapon'.cats[pos'.cat]))
      BY <1>1, <2>1, <2>2
    <2> QED
      BY <2>1, <2>5, <2>6 DEF SharingInv, Complete
  <1>4. CASE ~(pos.cat < Len(Weapon.cats))
    <2>1. /\ pc' = "base" /\ pos' = [pos EXCEPT !.weapon = @ + 1]
      BY <1>4 DEF NextCategory
    <2>2. pos'.weapon = pos.weapon + 1 /\ pos.cat = Len(Weapon.cats)
      BY <1>2, <1>4, <2>1 DEF TypeOK
    <2>3. ASSUME NEW v \in DOMAIN config.weapons, NEW attrs \in Combis
          PROVE  Served(v, attrs)' = Served(v, attrs)
      <3>1. ASSUME NEW d \in DOMAIN config.weapons[v].cats
            PROVE  Passed(v, d, attrs)' <=> Passed(v, d, attrs)
        <4>1. /\ d \in Nat /\ v \in Nat
              /\ v = pos.weapon => d <= Len(Weapon.cats)
          BY WeaponsOfConfig DEF Weapon
        <4> QED
          BY <1>1, <1>2, <2>1, <2>2, <4>1 DEF Passed
      <3> QED
        BY <1>1, <3>1, ServedSame
    <2>4. AllFilled'
      BY <1>1, <2>3, AllFilledSame
    <2> QED
      BY <2>1, <2>4 DEF SharingInv, Complete
  <1> QED
    BY <1>3, <1>4

\* A category's combination: the first category that uses it makes suffixes,
\* the others are added to those.
LEMMA CombinationStep ==
  ASSUME TypeOK, SharingInv, WeaponSuffixes
  PROVE  SharingInv'
  <1> SUFFICES ASSUME NEW a, a = NextCombi, NEW w, w = pos.weapon
               PROVE  SharingInv'
    OBVIOUS
  <1> DEFINE e == Weapon.enchant
             ec == Weapon.cats[pos.cat]
             n == config.tiers
             new == Tiers(WeaponTiers(n), e, a, {ec})
  <1>1. /\ pc = "weapon" /\ todo # {} /\ AllFilled /\ todo' = todo \ {a}
        /\ UNCHANGED <<pc, config, pos>> /\ nextID \in Nat
        /\ suffixes \in Seq(Suffix(n))
    BY DEF WeaponSuffixes, SharingInv, InWeapons, TypeOK
  <1>2. /\ pos.weapon \in DOMAIN config.weapons /\ pos.cat \in DOMAIN Weapon.cats
        /\ e \in Nat /\ ec \in EnchantCategory /\ n \in Nat /\ n > 0
    <2>1. pos.weapon \in DOMAIN config.weapons /\ pos.cat \in 0 .. Len(Weapon.cats) /\ pos.cat # 0
      BY <1>1 DEF TypeOK
    <2>2. /\ Weapon.enchant \in Nat /\ Len(Weapon.cats) \in Nat
          /\ DOMAIN Weapon.cats = 1 .. Len(Weapon.cats)
          /\ \A d \in DOMAIN Weapon.cats : Weapon.cats[d] \in EnchantCategory
      BY <2>1, WeaponsOfConfig DEF Weapon
    <2>3. pos.cat \in DOMAIN Weapon.cats
      BY <2>1, <2>2
    <2> QED
      BY <2>1, <2>2, <2>3, WeaponsOfConfig
  <1>3. /\ a \in todo /\ a \in SUBSET Attribute /\ a \in Combis
        /\ a \subseteq WeaponAttributes(ec)
    <2>1. a \in todo /\ a \in SUBSET Attribute
      BY <1>1, NextCombiType DEF TypeOK
    <2>2. a \in Combinations(config.numWeaponAttrs, WeaponAttributes(ec))
      BY <1>1, <2>1 DEF SharingInv
    <2> QED
      BY <1>2, <2>1, <2>2, CombinationsOfCategory DEF Combis
  <1>4. a # {}
    BY <1>3, CombisAreNotEmpty
  <1>5. SeenIndexes(a) = Of(suffixes, e, a)
    BY <1>4 DEF SeenIndexes, Of
  <1>6. IF Of(suffixes, e, a) # {}
           THEN suffixes' = Shared(suffixes, e, a, ec)
           ELSE suffixes' = suffixes \o new
    BY <1>5 DEF WeaponSuffixes, Shared, AddSuffixes
  <1>7. Served(w, a)' = Served(w, a) \cup {ec}
    <2> DEFINE cats == config.weapons[w].cats
    <2>1. cats = Weapon.cats
      BY DEF Weapon
    <2>2. ASSUME NEW d \in DOMAIN cats
          PROVE  Passed(w, d, a)' <=> Passed(w, d, a) \/ d = pos.cat
      <3>1. a \notin todo'
        BY <1>1
      <3>2. d \in Nat /\ pos.cat \in Nat /\ w \in Nat
        BY <1>2, <2>1, WeaponsOfConfig
      <3> QED
        BY <1>1, <3>1, <3>2 DEF Passed
    <2>3. pos.cat \in DOMAIN cats /\ cats[pos.cat] = ec
      BY <1>2, <2>1
    <2> HIDE DEF ec
    <2>4. Served(w, a)' =
             {cats[c] : c \in {d \in DOMAIN cats : a \subseteq WeaponAttributes(cats[d])
                                     /\ (Passed(w, d, a) \/ d = pos.cat)}}
      BY <1>1, <2>2 DEF Served
    <2>5. Served(w, a) =
             {cats[c] : c \in {d \in DOMAIN cats : a \subseteq WeaponAttributes(cats[d])
                                     /\ Passed(w, d, a)}}
      BY DEF Served
    <2> QED
      BY <1>3, <2>3, <2>4, <2>5
  <1>8. ASSUME NEW v \in DOMAIN config.weapons, NEW attrs \in Combis,
               v # w \/ attrs # a
        PROVE  /\ Served(v, attrs)' = Served(v, attrs)
               /\ config.weapons[v].enchant # e \/ attrs # a
    <2>1. attrs # a => (attrs \notin todo' <=> attrs \notin todo)
      BY <1>1
    <2>2. \A d \in DOMAIN config.weapons[v].cats : Passed(v, d, attrs)' <=> Passed(v, d, attrs)
      BY <1>1, <1>8, <2>1 DEF Passed
    <2>3. config.weapons[v].enchant = e => v = w
      BY <1>2, WeaponsOfConfig DEF Weapon
    <2> QED
      BY <1>1, <1>8, <2>2, <2>3, ServedSame
  <1>9. Filled(suffixes, n, e, a, Served(w, a))
    BY <1>1, <1>2, <1>3 DEF AllFilled, Weapon
  <1>10. ASSUME NEW v \in DOMAIN config.weapons, NEW attrs \in Combis
         PROVE  Filled(suffixes', n, config.weapons[v].enchant, attrs, Served(v, attrs)')
    <2> DEFINE e2 == config.weapons[v].enchant
               cats2 == Served(v, attrs)
               cats == Served(w, a)
    <2>1. Filled(suffixes, n, e2, attrs, cats2)
      BY <1>1 DEF AllFilled
    <2>2. CASE Of(suffixes, e, a) # {}
      <3>1. suffixes' = Shared(suffixes, e, a, ec)
        BY <1>6, <2>2
      <3>2. CASE v = w /\ attrs = a
        <4>1. e2 = e /\ Served(v, attrs)' = cats \cup {ec}
          BY <1>7, <3>2 DEF Weapon
        <4> HIDE DEF e, ec, n, e2, cats, cats2
        <4>2. Filled(suffixes', n, e, a, cats \cup {ec})
          BY <1>1, <1>2, <1>9, <2>2, <3>1, FilledShared DEF cats
        <4> QED
          BY <3>2, <4>1, <4>2 DEF e2
      <3>3. CASE ~(v = w /\ attrs = a)
        <4>1. Served(v, attrs)' = cats2 /\ (e2 # e \/ attrs # a)
          BY <1>8, <3>3
        <4> HIDE DEF e, ec, n, e2, cats, cats2
        <4>2. Filled(suffixes', n, e2, attrs, cats2)
          BY <1>1, <1>2, <2>1, <3>1, <4>1, SharedElsewhere
        <4> QED
          BY <4>1, <4>2 DEF e2
      <3> QED
        BY <3>2, <3>3
    <2>3. CASE Of(suffixes, e, a) = {}
      <3>1. suffixes' = suffixes \o new
        BY <1>6, <2>3
      <3>2. /\ new \in Seq(Suffix(n)) /\ Len(new) = n - 1
            /\ \A k \in 1 .. n - 1 : /\ new[k].weapon = e /\ new[k].attrs = a
                                     /\ new[k].tier = k - 1 /\ new[k].cats = {ec}
        <4>1. /\ WeaponTiers(n) = n - 1 /\ WeaponTiers(n) \in Nat /\ WeaponTiers(n) <= n
              /\ e \in Offered /\ {ec} \in SUBSET EnchantCategory
          BY <1>2 DEF WeaponTiers, Offered
        <4>2. new \in Seq(Suffix(n)) /\ Len(new) = WeaponTiers(n)
          BY <1>1, <1>2, <1>3, <4>1, TiersType
        <4>3. \A k \in 1 .. WeaponTiers(n) : new[k] = NewSuffix(nextID + k - 1, e, a, k - 1, {ec})
          BY DEF Tiers
        <4> HIDE DEF new, e, ec, n
        <4>4. ASSUME NEW k \in 1 .. n - 1
              PROVE  /\ new[k].weapon = e /\ new[k].attrs = a
                     /\ new[k].tier = k - 1 /\ new[k].cats = {ec}
          <5>1. new[k] = NewSuffix(nextID + k - 1, e, a, k - 1, {ec})
            BY <4>1, <4>3
          <5> QED
            BY <5>1 DEF NewSuffix
        <4> QED
          BY <4>1, <4>2, <4>4
      <3>3. CASE v = w /\ attrs = a
        <4>1. e2 = e /\ Served(v, attrs)' = cats \cup {ec}
          BY <1>7, <3>3 DEF Weapon
        <4> HIDE DEF e, ec, n, e2, cats, cats2, new
        <4>2. Filled(suffixes \o new, n, e, a, {ec})
          BY <1>1, <1>2, <2>3, <3>2, FilledFirst
        <4>3. CASE cats = {}
          BY <3>1, <3>3, <4>1, <4>2, <4>3 DEF e2
        <4>4. CASE cats # {}
          <5>1. n = 1
            <6>1. ASSUME n # 1 PROVE FALSE
              <7>1. 0 \in 0 .. n - 2
                BY <1>2, <6>1
              <7>2. Filled(suffixes, n, e, a, cats)
                BY <1>9 DEF cats
              <7>3. \E i \in Of(suffixes, e, a) : suffixes[i].tier = 0
                BY <4>4, <7>1, <7>2 DEF Filled
              <7> QED
                BY <2>3, <7>3
            <6> QED
              BY <6>1
          <5>2. Of(suffixes', e, a) = {}
            <6>1. /\ DOMAIN suffixes = 1 .. Len(suffixes) /\ Len(suffixes) \in Nat
                  /\ DOMAIN suffixes' = 1 .. Len(suffixes) + Len(new)
                  /\ \A i \in 1 .. Len(suffixes) : suffixes'[i] = suffixes[i]
              BY <1>1, <3>1, <3>2, Appended
            <6>2. DOMAIN suffixes' = DOMAIN suffixes
              BY <3>2, <5>1, <6>1
            <6> QED
              BY <2>3, <6>1, <6>2 DEF Of
          <5>3. \A tier : tier \notin 0 .. n - 2
            BY <5>1
          <5> QED
            BY <3>3, <4>1, <5>2, <5>3 DEF Filled, e2
        <4> QED
          BY <4>3, <4>4
      <3>4. CASE ~(v = w /\ attrs = a)
        <4>1. Served(v, attrs)' = cats2 /\ (e2 # e \/ attrs # a)
          BY <1>8, <3>4
        <4> HIDE DEF e, ec, n, e2, cats, cats2, new
        <4>2. \A k \in 1 .. Len(new) : ~(new[k].weapon = e2 /\ new[k].attrs = attrs)
          BY <3>2, <4>1
        <4>3. Filled(suffixes', n, e2, attrs, cats2)
          BY <1>1, <2>1, <3>1, <3>2, <4>2, FilledStays
        <4> QED
          BY <4>1, <4>3 DEF e2
      <3> QED
        BY <3>3, <3>4
    <2> QED
      BY <2>2, <2>3
  <1>11. AllFilled'
    BY <1>1, <1>10 DEF AllFilled, Combis
  <1>12. todo' \subseteq Combinations(config'.numWeaponAttrs,
                                      WeaponAttributes(Weapon'.cats[pos'.cat]))
    BY <1>1 DEF SharingInv, Weapon
  <1> QED
    BY <1>1, <1>11, <1>12 DEF SharingInv, Complete

-----------------------------------------------------------------------------
LEMMA SharingNext == TypeOK /\ SharingInv /\ [Next]_vars => SharingInv'
  <1> SUFFICES ASSUME TypeOK, SharingInv, [Next]_vars PROVE SharingInv'
    OBVIOUS
  <1>1. CASE pc' \in {"idle", "open"}
    BY <1>1 DEF SharingInv, Complete, InWeapons
  <1>2. CASE pc' = "plain" /\ pos' = Start /\ suffixes' = <<>>
    BY <1>2 DEF SharingInv, Complete, InWeapons, Start
  <1>3. CASE NextSize /\ pc' # "base"
    <2>1. pc = "plain" /\ pc' = pc /\ UNCHANGED suffixes /\ pos' = [pos EXCEPT !.size = @ + 1]
      BY <1>3 DEF NextSize
    <2>2. pos'.weapon = pos.weapon
      BY <2>1 DEF TypeOK
    <2> QED
      BY <2>1, <2>2 DEF SharingInv, Complete, InWeapons
  <1>4. CASE /\ pc \in {"limit", "write"} /\ pc' = "write"
             /\ UNCHANGED <<config, todo, pos, suffixes>>
    <2>1. AllFilled /\ pos.weapon > Len(config.weapons)
      BY <1>4 DEF SharingInv, InWeapons, Complete
    <2>2. ASSUME NEW v \in DOMAIN config.weapons, NEW attrs \in Combis
          PROVE  Served(v, attrs)' = Served(v, attrs)
      BY <1>4, ServedSame DEF Passed
    <2>3. AllFilled'
      BY <1>4, <2>1, <2>2, AllFilledSame
    <2> QED
      BY <1>4, <2>1, <2>3 DEF SharingInv, Complete
  <1>5. CASE UNCHANGED vars
    <2>1. ASSUME NEW v \in DOMAIN config.weapons, NEW attrs \in Combis
          PROVE  Served(v, attrs)' = Served(v, attrs)
      BY <1>5, ServedSame DEF Passed, vars
    <2>2. AllFilled => AllFilled'
      BY <1>5, <2>1, AllFilledSame DEF vars
    <2> QED
      BY <1>5, <2>2 DEF SharingInv, Complete, InWeapons, vars, Weapon
  <1>6. CASE OpenOutput
    BY <1>1, <1>2, <1>6 DEF OpenOutput
  <1>7. CASE CheckLimit \/ WriteOutput
    BY <1>1, <1>4, <1>7 DEF CheckLimit, WriteOutput
  <1> QED
    BY <1>1, <1>3, <1>5, <1>6, <1>7, PlainStep, ToWeaponsStep, BaseStep, CategoryStep,
       CombinationStep
    DEF Next, Run, RepeatedCategory, Stop

\* When the loops are through they have passed every category, so that a
\* combination's suffixes are offered to all the categories that use it.
LEMMA PassedAll ==
  ASSUME TypeOK, SharingInv, Complete, NEW v \in DOMAIN config.weapons, NEW attrs
  PROVE  Served(v, attrs) = CategoriesOf(config.weapons[v], attrs)
  <1>1. v < pos.weapon
    BY WeaponsOfConfig DEF SharingInv, TypeOK
  <1>2. \A d : Passed(v, d, attrs)
    BY <1>1 DEF Passed
  <1> QED
    BY <1>2 DEF Served, CategoriesOf, ToSet

\* For every configuration, whatever categories a weapon has and in which order
\* they come: each of them finds each of its combinations exactly once in every
\* tier but the last, and a suffix is offered to all that use its attributes.
THEOREM SharingIsComplete == Spec => []WeaponSuffixesAreShared
  <1>1. Init => SharingInv
    BY DEF Init, SharingInv, Complete, InWeapons
  <1>2. TypeOK /\ SharingInv => WeaponSuffixesAreShared
    <2> SUFFICES ASSUME TypeOK, SharingInv, Complete,
                        NEW v \in DOMAIN config.weapons,
                        NEW ec \in ToSet(config.weapons[v].cats),
                        NEW attrs \in Combinations(config.numWeaponAttrs, WeaponAttributes(ec)),
                        NEW tier \in 0 .. config.tiers - 2
                 PROVE  LET w == config.weapons[v] IN
                        \E s \in ToSet(suffixes) :
                            /\ s.weapon = w.enchant /\ s.tier = tier
                            /\ s.attrs = attrs /\ s.cats = CategoriesOf(w, attrs)
                            /\ \A t \in ToSet(suffixes) :
                                  t.weapon = s.weapon /\ t.tier = tier /\ t.attrs = attrs => t = s
      BY DEF WeaponSuffixesAreShared
    <2> DEFINE e == config.weapons[v].enchant
               cats == CategoriesOf(config.weapons[v], attrs)
    <2>1. ec \in EnchantCategory
      BY WeaponsOfConfig DEF ToSet
    <2>2. attrs \in Combis /\ attrs \subseteq WeaponAttributes(ec)
      BY <2>1, CombinationsOfCategory DEF Combis
    <2>3. cats # {}
      BY <2>2 DEF CategoriesOf
    <2>4. Filled(suffixes, config.tiers, e, attrs, cats)
      <3>1. AllFilled
        BY DEF SharingInv, InWeapons, Complete
      <3> QED
        BY <2>2, <3>1, PassedAll DEF AllFilled
    <2> HIDE DEF e, cats
    <2>5. PICK i \in Of(suffixes, e, attrs) :
             /\ suffixes[i].tier = tier /\ suffixes[i].cats = cats
             /\ \A j \in Of(suffixes, e, attrs) : suffixes[j].tier = tier => j = i
      BY <2>3, <2>4 DEF Filled
    <2>6. i \in DOMAIN suffixes /\ suffixes[i].weapon = e /\ suffixes[i].attrs = attrs
      BY DEF Of
    <2>7. ASSUME NEW j \in DOMAIN suffixes, suffixes[j].weapon = suffixes[i].weapon,
                 suffixes[j].tier = tier, suffixes[j].attrs = attrs
          PROVE  suffixes[j] = suffixes[i]
      BY <2>5, <2>6, <2>7 DEF Of
    <2> QED
      BY <2>5, <2>6, <2>7 DEF ToSet, e, cats
  <1> QED
    BY <1>1, <1>2, SharingNext, GeneratorTypeCorrect, PTL DEF Spec

-----------------------------------------------------------------------------
(***************************************************************************)
(* The suffixes without a weapon: the loops over sizes and combinations    *)
(* make one for every combination they pass and every tier, and the loops  *)
(* over weapons leave them alone.                                          *)
(***************************************************************************)

\* The loops over sizes and combinations have passed a.
Made(a) ==
    /\ a \in SUBSET config.attrs /\ IsValid(a)
    /\ Cardinality(a) \in 1 .. config.numAttrs
    /\ pc = "plain" => \/ Cardinality(a) < pos.size
                       \/ Cardinality(a) = pos.size /\ a \notin todo

\* In seq, there is exactly one plain suffix with attributes a in each of n tiers.
Tiered(seq, n, a) ==
    \A tier \in 0 .. n - 1 :
        \E i \in Of(seq, NoWeapon, a) :
            /\ seq[i].tier = tier
            /\ \A j \in Of(seq, NoWeapon, a) : seq[j].tier = tier => j = i

PlainInv ==
    pc \notin {"idle", "open"} =>
        /\ pc = "plain" => /\ pos.size \in 1 .. config.numAttrs
                           /\ todo \subseteq Combinations(pos.size, config.attrs)
        /\ \A i \in DOMAIN suffixes :
              suffixes[i].weapon = NoWeapon => Made(suffixes[i].attrs) /\ suffixes[i].cats = {}
        /\ \A a \in SUBSET config.attrs : Made(a) => Tiered(suffixes, config.tiers, a)

LEMMA SizesOfConfig ==
  ASSUME TypeOK
  PROVE  config.numAttrs \in 1..5 /\ config.attrs \in SUBSET Attribute
  BY ConfigType DEF TypeOK, Config

\* Suffixes of weapons may follow, and categories may be added to them.
LEMMA PlainKept ==
  ASSUME PlainInv, pc \notin {"idle", "open", "plain"}, pc' \notin {"idle", "open", "plain"},
         config' = config, DOMAIN suffixes \subseteq DOMAIN suffixes',
         \A i \in DOMAIN suffixes :
            /\ suffixes'[i].weapon = suffixes[i].weapon
            /\ suffixes'[i].attrs = suffixes[i].attrs
            /\ suffixes'[i].tier = suffixes[i].tier
            /\ suffixes[i].weapon = NoWeapon => suffixes'[i].cats = suffixes[i].cats,
         \A i \in DOMAIN suffixes' \ DOMAIN suffixes : suffixes'[i].weapon # NoWeapon
  PROVE  PlainInv'
  <1>1. \A a : Made(a)' <=> Made(a)
    BY DEF Made
  <1>2. ASSUME NEW a
        PROVE  /\ Of(suffixes', NoWeapon, a) = Of(suffixes, NoWeapon, a)
               /\ Of(suffixes, NoWeapon, a) \subseteq DOMAIN suffixes
    BY DEF Of
  <1>3. ASSUME NEW a \in SUBSET config.attrs, Made(a)
        PROVE  Tiered(suffixes', config.tiers, a)
    <2>1. Tiered(suffixes, config.tiers, a)
      BY <1>3 DEF PlainInv
    <2> QED
      BY <1>2, <2>1 DEF Tiered
  <1>4. ASSUME NEW i \in DOMAIN suffixes', suffixes'[i].weapon = NoWeapon
        PROVE  Made(suffixes'[i].attrs) /\ suffixes'[i].cats = {}
    <2>1. i \in DOMAIN suffixes /\ suffixes[i].weapon = NoWeapon
      BY <1>4
    <2> QED
      BY <2>1 DEF PlainInv
  <1> QED
    BY <1>1, <1>3, <1>4 DEF PlainInv

\* A combination gets its suffixes: it had none before.
LEMMA PlainSuffixesPlain ==
  ASSUME TypeOK, PlainInv, PlainSuffixes
  PROVE  PlainInv'
  <1> SUFFICES ASSUME NEW a, a = NextCombi PROVE PlainInv'
    OBVIOUS
  <1> DEFINE n == config.tiers
             new == Tiers(n, NoWeapon, a, {})
             L == Len(suffixes)
  <1>1. /\ pc = "plain" /\ UNCHANGED <<pc, config, pos>> /\ todo # {}
        /\ suffixes' = suffixes \o new /\ todo' = todo \ {a}
    BY DEF PlainSuffixes, AddSuffixes
  <1>2. /\ n \in Nat /\ n >= 1 /\ nextID \in Nat /\ suffixes \in Seq(Suffix(n)) /\ n <= n
        /\ config.numAttrs \in 1..5
    BY <1>1, WeaponsOfConfig, SizesOfConfig DEF TypeOK
  <1>3. a \in todo /\ a \in SUBSET Attribute /\ NoWeapon \in Offered /\ {} \in SUBSET EnchantCategory
    BY <1>1, NextCombiType DEF TypeOK, Offered
  <1>4. /\ pos.size \in 1 .. config.numAttrs /\ todo \subseteq Combinations(pos.size, config.attrs)
    BY <1>1 DEF PlainInv
  <1>5. /\ a \in SUBSET config.attrs /\ Cardinality(a) = pos.size /\ IsValid(a) /\ ~Made(a)
    <2>1. a \in SUBSET config.attrs /\ Cardinality(a) = pos.size /\ IsValid(a)
      BY <1>3, <1>4 DEF Combinations
    <2> QED
      BY <1>1, <1>2, <1>3, <1>4, <2>1 DEF Made
  <1>6. \A b : Made(b)' <=> Made(b) \/ b = a
    BY <1>1, <1>2, <1>4, <1>5 DEF Made
  <1>7. new \in Seq(Suffix(n)) /\ Len(new) = n
    BY <1>2, <1>3, TiersType
  <1>8. ASSUME NEW k \in 1 .. n
        PROVE  /\ new[k].weapon = NoWeapon /\ new[k].attrs = a
               /\ new[k].tier = k - 1 /\ new[k].cats = {}
    <2>1. new[k] = NewSuffix(nextID + k - 1, NoWeapon, a, k - 1, {})
      BY DEF Tiers
    <2> HIDE DEF new
    <2> QED
      BY <2>1 DEF NewSuffix
  <1> HIDE DEF new, n, L
  <1>9. /\ DOMAIN suffixes = 1 .. L /\ L \in Nat /\ DOMAIN suffixes' = 1 .. L + n
        /\ \A i \in 1 .. L : suffixes'[i] = suffixes[i]
        /\ \A k \in 1 .. n : suffixes'[L + k] = new[k]
    <2>1. /\ Len(suffixes) \in Nat /\ DOMAIN suffixes = 1 .. Len(suffixes)
          /\ DOMAIN suffixes' = 1 .. Len(suffixes) + Len(new)
          /\ \A i \in 1 .. Len(suffixes) : suffixes'[i] = suffixes[i]
          /\ \A k \in 1 .. Len(new) : suffixes'[Len(suffixes) + k] = new[k]
      <3>1. suffixes \in Seq(Suffix(n)) /\ new \in Seq(Suffix(n)) /\ suffixes' = suffixes \o new
        BY <1>1, <1>2, <1>7 DEF new
      <3> QED
        BY <3>1, Appended
    <2> QED
      BY <1>7, <2>1 DEF L
  <1>10. ASSUME NEW i \in DOMAIN suffixes'
         PROVE  \/ i \in DOMAIN suffixes /\ suffixes'[i] = suffixes[i]
                \/ /\ i \notin DOMAIN suffixes
                   /\ i - L \in 1 .. n /\ suffixes'[i].weapon = NoWeapon
                   /\ suffixes'[i].attrs = a /\ suffixes'[i].tier = i - L - 1
                   /\ suffixes'[i].cats = {}
    <2>1. CASE i \in 1 .. L
      BY <1>9, <2>1
    <2>2. CASE i \notin 1 .. L
      <3>1. i - L \in 1 .. n /\ i = L + (i - L)
        BY <1>2, <1>9, <2>2
      <3>2. suffixes'[i] = new[i - L]
        BY <1>9, <3>1
      <3> QED
        BY <1>8, <1>9, <2>2, <3>1, <3>2
    <2> QED
      BY <2>1, <2>2
  <1>11. ASSUME NEW i \in DOMAIN suffixes', suffixes'[i].weapon = NoWeapon
         PROVE  suffixes'[i].cats = {} /\ \A b : b = suffixes'[i].attrs => Made(b)'
    <2>1. CASE i \in DOMAIN suffixes /\ suffixes'[i] = suffixes[i]
      <3>1. Made(suffixes[i].attrs) /\ suffixes[i].cats = {}
        BY <1>1, <1>11, <2>1 DEF PlainInv
      <3> QED
        BY <1>6, <2>1, <3>1
    <2>2. CASE suffixes'[i].attrs = a /\ suffixes'[i].cats = {}
      BY <1>6, <2>2
    <2> QED
      BY <1>10, <2>1, <2>2
  <1>12. ASSUME NEW b \in SUBSET config.attrs, Made(b)'
         PROVE  Tiered(suffixes', n, b)
    <2>1. CASE b = a
      <3>1. \A i \in DOMAIN suffixes : ~(suffixes[i].weapon = NoWeapon /\ suffixes[i].attrs = a)
        BY <1>1, <1>5 DEF PlainInv
      <3>2. \A i \in Of(suffixes', NoWeapon, a) :
               i \in DOMAIN suffixes' /\ i \notin DOMAIN suffixes
               /\ i - L \in 1 .. n /\ suffixes'[i].tier = i - L - 1
        BY <1>10, <3>1 DEF Of
      <3>3. ASSUME NEW tier \in 0 .. n - 1
            PROVE  \E i \in Of(suffixes', NoWeapon, a) :
                      /\ suffixes'[i].tier = tier
                      /\ \A j \in Of(suffixes', NoWeapon, a) : suffixes'[j].tier = tier => j = i
        <4>1. tier + 1 \in 1 .. n /\ L + (tier + 1) \in DOMAIN suffixes' /\ (tier + 1) - 1 = tier
          BY <1>2, <1>9
        <4> DEFINE i == L + (tier + 1)
        <4>2. suffixes'[i] = new[tier + 1]
          BY <1>9, <4>1
        <4>3. i \in Of(suffixes', NoWeapon, a) /\ suffixes'[i].tier = tier
          BY <1>8, <4>1, <4>2 DEF Of
        <4>4. ASSUME NEW j \in Of(suffixes', NoWeapon, a), suffixes'[j].tier = tier PROVE j = i
          <5>1. j \in 1 .. L + n /\ j - L - 1 = tier
            BY <1>9, <3>2, <4>4
          <5> QED
            BY <1>2, <1>9, <5>1
        <4> QED
          BY <4>3, <4>4
      <3> QED
        BY <2>1, <3>3 DEF Tiered
    <2>2. CASE b # a
      <3>1. Tiered(suffixes, n, b)
        BY <1>1, <1>6, <1>12, <2>2 DEF PlainInv, n
      <3>2. Of(suffixes', NoWeapon, b) = Of(suffixes, NoWeapon, b)
        <4>1. ASSUME NEW i \in Of(suffixes', NoWeapon, b) PROVE i \in Of(suffixes, NoWeapon, b)
          BY <1>10, <2>2, <4>1 DEF Of
        <4>2. ASSUME NEW i \in Of(suffixes, NoWeapon, b) PROVE i \in Of(suffixes', NoWeapon, b)
          BY <1>2, <1>9, <4>2 DEF Of
        <4> QED
          BY <4>1, <4>2
      <3>3. \A i \in Of(suffixes, NoWeapon, b) : suffixes'[i] = suffixes[i]
        BY <1>9 DEF Of
      <3> QED
        BY <3>1, <3>2, <3>3 DEF Tiered
    <2> QED
      BY <2>1, <2>2
  <1>13. todo' \subseteq Combinations(pos'.size, config'.attrs) /\ pos'.size \in 1 .. config'.numAttrs
    BY <1>1, <1>4
  <1> QED
    BY <1>1, <1>11, <1>12, <1>13 DEF PlainInv, n

\* From one size to the next, or to the weapons: all that have been asked for are made.
LEMMA NextSizePlain ==
  ASSUME TypeOK, PlainInv, NextSize
  PROVE  PlainInv'
  <1>1. pc = "plain" /\ todo = {} /\ UNCHANGED <<config, suffixes>>
    BY DEF NextSize
  <1>2. config.numAttrs \in 1..5 /\ pos.size \in 1 .. config.numAttrs
    BY <1>1, SizesOfConfig DEF PlainInv
  <1>3. \A a : Made(a)' <=> Made(a)
    <2>1. CASE pos.size < config.numAttrs
      <3>1. pc' = "plain" /\ pos'.size = pos.size + 1 /\ todo' = Combinations(pos.size + 1, config.attrs)
        BY <2>1 DEF NextSize, TypeOK
      <3> TAKE a
      <3>2. /\ a \in SUBSET config.attrs /\ IsValid(a) /\ Cardinality(a) = pos.size + 1
               => a \in todo'
        BY <3>1 DEF Combinations
      <3> QED
        BY <1>1, <1>2, <3>1, <3>2 DEF Made
    <2>2. CASE ~(pos.size < config.numAttrs)
      <3>1. pc' = "base"
        BY <2>2 DEF NextSize
      <3> QED
        BY <1>1, <1>2, <2>2, <3>1 DEF Made
    <2> QED
      BY <2>1, <2>2
  <1>4. pc' = "plain" => /\ pos'.size \in 1 .. config.numAttrs
                         /\ todo' \subseteq Combinations(pos'.size, config.attrs)
    <2>1. CASE pos.size < config.numAttrs
      <3>1. pos'.size = pos.size + 1 /\ todo' = Combinations(pos.size + 1, config.attrs)
        BY <2>1 DEF NextSize, TypeOK
      <3> QED
        BY <1>2, <2>1, <3>1
    <2>2. CASE ~(pos.size < config.numAttrs)
      BY <2>2 DEF NextSize
    <2> QED
      BY <2>1, <2>2
  <1> QED
    BY <1>1, <1>3, <1>4 DEF PlainInv

LEMMA WeaponBasePlain ==
  ASSUME TypeOK, PlainInv, WeaponBase
  PROVE  PlainInv'
  <1>1. pc = "base" /\ pc' \in {"weapon", "limit"} /\ config' = config
    BY DEF WeaponBase
  <1>2. CASE pos.weapon <= Len(config.weapons)
    <2> DEFINE base == NewSuffix(nextID, Weapon.enchant, {}, 0, ToSet(Weapon.cats))
               S == Suffix(config.tiers) \cup {base}
    <2>1. suffixes' = suffixes \o <<base>>
      BY <1>2 DEF WeaponBase, AddSuffixes
    <2>2. base.weapon # NoWeapon
      <3>1. pos.weapon \in DOMAIN config.weapons
        BY <1>2, WeaponsOfConfig DEF TypeOK
      <3>2. Weapon.enchant \in Nat
        BY <3>1, WeaponsOfConfig DEF Weapon
      <3> QED
        BY <3>2, GeneratorAssumption DEF NewSuffix
    <2>3. suffixes \in Seq(S)
      <3>1. suffixes \in Seq(Suffix(config.tiers))
        BY <1>1 DEF TypeOK
      <3> QED
        BY <3>1, SeqDef, LenProperties, ElementOfSeq
    <2>4. base \in S
      OBVIOUS
    <2> HIDE DEF base, S
    <2>5. <<base>> \in Seq(S) /\ Len(<<base>>) = 1 /\ <<base>>[1] = base
      BY <2>4
    <2> DEFINE new == <<base>>
    <2> HIDE DEF new
    <2>6. /\ Len(suffixes) \in Nat /\ DOMAIN suffixes = 1 .. Len(suffixes)
          /\ DOMAIN suffixes' = 1 .. Len(suffixes) + 1
          /\ \A i \in 1 .. Len(suffixes) : suffixes'[i] = suffixes[i]
          /\ suffixes'[Len(suffixes) + 1] = base
      <3>1. new \in Seq(S) /\ Len(new) = 1 /\ new[1] = base /\ suffixes' = suffixes \o new
        BY <2>1, <2>5 DEF new
      <3>2. /\ Len(suffixes) \in Nat /\ DOMAIN suffixes = 1 .. Len(suffixes)
            /\ DOMAIN suffixes' = 1 .. Len(suffixes) + Len(new)
            /\ \A i \in 1 .. Len(suffixes) : suffixes'[i] = suffixes[i]
            /\ \A k \in 1 .. Len(new) : suffixes'[Len(suffixes) + k] = new[k]
        BY <2>3, <3>1, Appended
      <3> QED
        BY <3>1, <3>2
    <2>7. \A i \in DOMAIN suffixes' \ DOMAIN suffixes : i = Len(suffixes) + 1
      BY <2>6
    <2>8. \A i \in DOMAIN suffixes' \ DOMAIN suffixes : suffixes'[i].weapon # NoWeapon
      BY <2>2, <2>6, <2>7
    <2>9. DOMAIN suffixes \subseteq DOMAIN suffixes'
      BY <2>6
    <2> QED
      BY <1>1, <2>6, <2>8, <2>9, PlainKept
  <1>3. CASE ~(pos.weapon <= Len(config.weapons))
    <2>1. suffixes' = suffixes
      BY <1>3 DEF WeaponBase
    <2> QED
      BY <1>1, <2>1, PlainKept
  <1> QED
    BY <1>2, <1>3

LEMMA WeaponSuffixesPlain ==
  ASSUME TypeOK, PlainInv, WeaponSuffixes
  PROVE  PlainInv'
  <1> SUFFICES ASSUME NEW a, a = NextCombi PROVE PlainInv'
    OBVIOUS
  <1> DEFINE e == Weapon.enchant
             ec == Weapon.cats[pos.cat]
             n == config.tiers
             new == Tiers(WeaponTiers(n), e, a, {ec})
  <1>1. /\ pc = "weapon" /\ pc' = pc /\ config' = config /\ todo # {} /\ nextID \in Nat
        /\ suffixes \in Seq(Suffix(n)) /\ a \in SUBSET Attribute /\ n \in 1..5
    BY NextCombiType, WeaponsOfConfig DEF WeaponSuffixes, TypeOK
  <1>2. e \in Nat /\ e # NoWeapon /\ ec \in EnchantCategory
    <2>1. pos.weapon \in DOMAIN config.weapons /\ pos.cat \in 0 .. Len(Weapon.cats) /\ pos.cat # 0
      BY <1>1 DEF TypeOK
    <2>2. /\ Weapon.enchant \in Nat /\ Len(Weapon.cats) \in Nat
          /\ DOMAIN Weapon.cats = 1 .. Len(Weapon.cats)
          /\ \A d \in DOMAIN Weapon.cats : Weapon.cats[d] \in EnchantCategory
      BY <2>1, WeaponsOfConfig DEF Weapon
    <2>3. pos.cat \in DOMAIN Weapon.cats
      BY <2>1, <2>2
    <2> QED
      BY <2>2, <2>3, GeneratorAssumption
  <1>3. CASE SeenIndexes(a) # {}
    <2>1. suffixes' = [i \in DOMAIN suffixes |->
                          IF i \in SeenIndexes(a)
                             THEN [suffixes[i] EXCEPT !.cats = @ \cup {ec}]
                             ELSE suffixes[i]]
      BY <1>3 DEF WeaponSuffixes
    <2>2. ASSUME NEW i \in DOMAIN suffixes
          PROVE  /\ suffixes'[i].weapon = suffixes[i].weapon
                 /\ suffixes'[i].attrs = suffixes[i].attrs
                 /\ suffixes'[i].tier = suffixes[i].tier
                 /\ suffixes[i].weapon = NoWeapon => suffixes'[i].cats = suffixes[i].cats
      <3>1. suffixes[i] \in Suffix(n)
        BY <1>1, LenProperties, ElementOfSeq
      <3>2. suffixes[i].weapon = NoWeapon => i \notin SeenIndexes(a)
        BY <1>2 DEF SeenIndexes
      <3> DEFINE s == [suffixes[i] EXCEPT !.cats = @ \cup {ec}]
      <3>3. s.weapon = suffixes[i].weapon /\ s.attrs = suffixes[i].attrs /\ s.tier = suffixes[i].tier
        BY <3>1 DEF Suffix
      <3>4. suffixes'[i] = IF i \in SeenIndexes(a) THEN s ELSE suffixes[i]
        BY <2>1
      <3> HIDE DEF s
      <3> QED
        BY <3>2, <3>3, <3>4
    <2>3. DOMAIN suffixes' = DOMAIN suffixes
      BY <2>1
    <2> QED
      BY <1>1, <2>2, <2>3, PlainKept
  <1>4. CASE SeenIndexes(a) = {}
    <2>1. suffixes' = suffixes \o new
      BY <1>4 DEF WeaponSuffixes, AddSuffixes
    <2>2. /\ WeaponTiers(n) \in Nat /\ WeaponTiers(n) <= n /\ n \in Nat
          /\ e \in Offered /\ {ec} \in SUBSET EnchantCategory
      BY <1>1, <1>2 DEF WeaponTiers, Offered
    <2>3. new \in Seq(Suffix(n)) /\ Len(new) = WeaponTiers(n)
      BY <1>1, <2>2, TiersType
    <2>4. ASSUME NEW k \in 1 .. WeaponTiers(n) PROVE new[k].weapon = e
      <3>1. new[k] = NewSuffix(nextID + k - 1, e, a, k - 1, {ec})
        BY DEF Tiers
      <3> HIDE DEF new
      <3> QED
        BY <3>1 DEF NewSuffix
    <2> HIDE DEF new
    <2>5. /\ Len(suffixes) \in Nat /\ DOMAIN suffixes = 1 .. Len(suffixes)
          /\ DOMAIN suffixes' = 1 .. Len(suffixes) + Len(new)
          /\ \A i \in 1 .. Len(suffixes) : suffixes'[i] = suffixes[i]
          /\ \A k \in 1 .. Len(new) : suffixes'[Len(suffixes) + k] = new[k]
      BY <1>1, <2>1, <2>3, Appended
    <2>6. ASSUME NEW i \in DOMAIN suffixes' \ DOMAIN suffixes
          PROVE  suffixes'[i].weapon # NoWeapon
      <3> DEFINE k == i - Len(suffixes)
      <3>1. k \in 1 .. Len(new) /\ i = Len(suffixes) + k
        BY <2>2, <2>3, <2>5
      <3> HIDE DEF k
      <3>2. suffixes'[i] = new[k]
        BY <2>5, <3>1
      <3> QED
        BY <1>2, <2>3, <2>4, <3>1, <3>2
    <2>7. DOMAIN suffixes \subseteq DOMAIN suffixes'
      BY <2>2, <2>3, <2>5
    <2>8. \A i \in DOMAIN suffixes : suffixes'[i] = suffixes[i]
      BY <2>5
    <2> QED
      BY <1>1, <2>6, <2>7, <2>8, PlainKept
  <1> QED
    BY <1>3, <1>4

LEMMA PlainNext == TypeOK /\ PlainInv /\ [Next]_vars => PlainInv'
  <1> SUFFICES ASSUME TypeOK, PlainInv, [Next]_vars PROVE PlainInv'
    OBVIOUS
  <1>1. CASE pc' \in {"idle", "open"}
    BY <1>1 DEF PlainInv
  <1>2. CASE OpenOutput
    <2>1. CASE pc' = "plain"
      <3>1. /\ todo' = Combinations(1, config.attrs) /\ pos' = Start /\ suffixes' = <<>>
            /\ config' = config
        BY <1>2, <2>1 DEF OpenOutput
      <3>2. config.numAttrs \in 1..5
        BY SizesOfConfig
      <3>3. \A a : ~Made(a)'
        BY <2>1, <3>1, <3>2 DEF Made, Start, Combinations
      <3> QED
        BY <2>1, <3>1, <3>2, <3>3 DEF PlainInv, Start
    <2>2. CASE pc' # "plain"
      BY <1>1, <1>2, <2>2 DEF OpenOutput
    <2> QED
      BY <2>1, <2>2
  <1>3. CASE NextCategory
    <2>1. /\ pc = "weapon" /\ pc' \in {"weapon", "base"} /\ config' = config /\ suffixes' = suffixes
      BY <1>3 DEF NextCategory
    <2> QED
      BY <2>1, PlainKept
  <1>4. CASE CheckLimit \/ WriteOutput
    <2>1. /\ pc \in {"limit", "write"} /\ pc' \in {"idle", "write"} /\ config' = config
          /\ suffixes' = suffixes
      BY <1>4 DEF CheckLimit, WriteOutput
    <2> QED
      BY <1>1, <2>1, PlainKept
  <1>5. CASE UNCHANGED vars
    <2>1. \A a : Made(a)' <=> Made(a)
      BY <1>5 DEF Made, vars
    <2> QED
      BY <1>5, <2>1 DEF PlainInv, vars
  <1> QED
    BY <1>1, <1>2, <1>3, <1>4, <1>5, PlainSuffixesPlain, NextSizePlain, WeaponBasePlain,
       WeaponSuffixesPlain
    DEF Next, Run, RepeatedCategory, Stop

\* For every configuration: each valid combination of up to numAttrs attributes
\* has exactly one plain suffix in each tier, and no other one is made.
THEOREM PlainSuffixesHold == Spec => []PlainSuffixesAreComplete
  <1>1. Init => PlainInv
    BY DEF Init, PlainInv
  <1>2. TypeOK /\ PlainInv => PlainSuffixesAreComplete
    <2> DEFINE plain  == {s \in ToSet(suffixes) : s.weapon = NoWeapon}
               combis == UNION {Combinations(n, config.attrs) : n \in 1 .. config.numAttrs}
    <2> SUFFICES ASSUME TypeOK, PlainInv, Complete
                 PROVE  /\ {<<s.attrs, s.tier>> : s \in plain} = combis \X (0 .. config.tiers - 1)
                        /\ \A s, t \in plain : s.attrs = t.attrs /\ s.tier = t.tier => s = t
                        /\ \A s \in plain : s.cats = {}
      BY DEF PlainSuffixesAreComplete
    <2>1. \A a : Made(a) <=> a \in combis
      BY DEF Made, Combinations, Complete
    <2>2. ASSUME NEW s \in plain
          PROVE  \E i \in DOMAIN suffixes :
                    /\ s = suffixes[i] /\ i \in Of(suffixes, NoWeapon, s.attrs)
                    /\ s.attrs \in combis /\ s.tier \in 0 .. config.tiers - 1 /\ s.cats = {}
      <3>1. PICK i \in DOMAIN suffixes : s = suffixes[i] /\ suffixes[i].weapon = NoWeapon
        BY DEF ToSet
      <3>2. suffixes[i] \in Suffix(config.tiers)
        <4>1. suffixes \in Seq(Suffix(config.tiers))
          BY DEF TypeOK, Complete
        <4> QED
          BY <4>1, LenProperties, ElementOfSeq
      <3>3. s.tier \in 0 .. config.tiers - 1
        BY <3>1, <3>2 DEF Suffix
      <3>4. Made(s.attrs) /\ s.cats = {}
        BY <3>1 DEF PlainInv, Complete
      <3> QED
        BY <2>1, <3>1, <3>3, <3>4 DEF Of
    <2>3. ASSUME NEW a \in combis, NEW tier \in 0 .. config.tiers - 1
          PROVE  \E i \in Of(suffixes, NoWeapon, a) :
                    /\ suffixes[i] \in plain /\ suffixes[i].attrs = a /\ suffixes[i].tier = tier
                    /\ \A j \in Of(suffixes, NoWeapon, a) : suffixes[j].tier = tier => j = i
      <3>1. Made(a) /\ a \in SUBSET config.attrs
        BY <2>1 DEF Made
      <3>2. Tiered(suffixes, config.tiers, a)
        BY <3>1 DEF PlainInv, Complete
      <3> QED
        BY <3>2 DEF Tiered, Of, ToSet
    <2> HIDE DEF plain, combis
    <2>4. \A s, t \in plain : s.attrs = t.attrs /\ s.tier = t.tier => s = t
      <3> SUFFICES ASSUME NEW s \in plain, NEW t \in plain, s.attrs = t.attrs, s.tier = t.tier
                   PROVE  s = t
        OBVIOUS
      <3>1. PICK i \in Of(suffixes, NoWeapon, s.attrs) : s = suffixes[i]
        BY <2>2
      <3>2. PICK j \in Of(suffixes, NoWeapon, s.attrs) : t = suffixes[j]
        BY <2>2
      <3> QED
        BY <2>2, <2>3, <3>1, <3>2
    <2>5. {<<s.attrs, s.tier>> : s \in plain} = combis \X (0 .. config.tiers - 1)
      <3>1. ASSUME NEW s \in plain PROVE <<s.attrs, s.tier>> \in combis \X (0 .. config.tiers - 1)
        BY <2>2
      <3>2. ASSUME NEW a \in combis, NEW tier \in 0 .. config.tiers - 1
            PROVE  \E s \in plain : <<a, tier>> = <<s.attrs, s.tier>>
        BY <2>3
      <3> QED
        BY <3>1, <3>2
    <2> QED
      BY <2>2, <2>4, <2>5
  <1> QED
    BY <1>1, <1>2, PlainNext, GeneratorTypeCorrect, PTL DEF Spec
=============================================================================
