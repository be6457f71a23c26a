--------------------------- MODULE SpecPool_proofs ---------------------------
(***************************************************************************)
(* Proofs about the spec pool, for items with any shape, level and stats:  *)
(* body armour is drawn for those who wear it, specs without evidence are  *)
(* a last resort, casters' and tanks' items are drawn for casters and      *)
(* tanks, and whoever is drawn has a role that finds suffixes.             *)
(***************************************************************************)
EXTENDS SpecPool, FiniteSetTheorems, TLAPS

-----------------------------------------------------------------------------
(***************************************************************************)
(* What the classes answer.                                                *)
(***************************************************************************)
LEMMA SpecsOfClass ==
  ASSUME NEW class \in PlayerClass, NEW ev, NEW force, NEW shape,
         NEW s \in ClassSpecs(class, ev, force, shape)
  PROVE  s[1] = class
  <1> USE DEF Specs
  <1>1. CASE class = "WARRIOR"
    <2>1. s \in Warrior(ev, force, shape)
      BY <1>1 DEF ClassSpecs
    <2> QED
      BY <1>1, <2>1 DEF Warrior
  <1>2. CASE class = "PALADIN"
    <2>1. s \in Paladin(ev, force, shape)
      BY <1>2 DEF ClassSpecs
    <2> QED
      BY <1>2, <2>1 DEF Paladin
  <1>3. CASE class = "HUNTER"
    <2>1. s \in Hunter(ev, force)
      BY <1>3 DEF ClassSpecs
    <2> QED
      BY <1>3, <2>1 DEF Hunter
  <1>4. CASE class = "ROGUE"
    <2>1. s \in Rogue(ev, force)
      BY <1>4 DEF ClassSpecs
    <2> QED
      BY <1>4, <2>1 DEF Rogue
  <1>5. CASE class = "DEATH_KNIGHT"
    <2>1. s \in DeathKnight(ev, force)
      BY <1>5 DEF ClassSpecs
    <2> QED
      BY <1>5, <2>1 DEF DeathKnight
  <1>6. CASE class = "SHAMAN"
    <2>1. s \in Shaman(ev, force, shape)
      BY <1>6 DEF ClassSpecs
    <2> QED
      BY <1>6, <2>1 DEF Shaman
  <1>7. CASE class = "DRUID"
    <2>1. s \in Druid(ev, force, shape)
      BY <1>7 DEF ClassSpecs
    <2> QED
      BY <1>7, <2>1 DEF Druid
  <1>8. CASE class \in ClothClasses
    <2>1. s \in ClothCaster(class, ev, force)
      BY <1>8 DEF ClassSpecs, ClothClasses
    <2> QED
      BY <2>1 DEF ClothCaster
  <1> QED
    BY <1>1, <1>2, <1>3, <1>4, <1>5, <1>6, <1>7, <1>8
    DEF PlayerClass, LeatherClasses, MailClasses, PlateClasses

\* Whom Asked asks is who it puts into the pool.
LEMMA AskedClass ==
  ASSUME NEW classes \in SUBSET PlayerClass, NEW force, NEW s \in Asked(classes, force)
  PROVE  /\ s[1] \in classes
         /\ s \in ClassSpecs(s[1], Evidence(item.stats), force, item.shape)
  <1>1. PICK c \in classes : s \in ClassSpecs(c, Evidence(item.stats), force, item.shape)
    BY DEF Asked
  <1>2. s[1] = c
    BY <1>1, SpecsOfClass
  <1> QED
    BY <1>1, <1>2

LEMMA PoolWithClass ==
  ASSUME NEW classes \in SUBSET PlayerClass, NEW fallback \in SUBSET PlayerClass,
         NEW s \in PoolWith(classes, fallback)
  PROVE  s \in pool \/ s[1] \in classes \cup fallback
  BY AskedClass DEF PoolWith

-----------------------------------------------------------------------------
(***************************************************************************)
(* Where the control comes through.                                        *)
(***************************************************************************)
\* Every label but the item's own is reached by a fall-through, or after the
\* first switch.
Label ==
    \/ pc = item.shape.subclass /\ pool = {}
    \/ /\ pc = "MAIL"
       /\ item.shape.subclass = "LEATHER" /\ item.level <= 40
       /\ pool = Asked(LeatherClasses, FALSE)
    \/ /\ pc = "PLATE"
       /\ item.shape.subclass = "MAIL" /\ item.level <= 40
       /\ pool = {}
    \/ /\ pc = "THROWN"
       /\ item.shape.subclass \in {"BOW", "CROSSBOW", "GUN"}
       /\ pool = Asked({"HUNTER"}, FALSE)
    \/ pc \in {"INVTYPE", "DRAW", "drawn", "nothing"}

LabelInv ==
    /\ item \in Item
    /\ Label
    /\ pc = "drawn" => spec \in pool

LEMMA ItemShape ==
  ASSUME item \in Item
  PROVE  /\ item.level \in Int
         /\ item.shape.subclass \in Subclass
         /\ item.shape.subclass \notin {"INVTYPE", "DRAW", "drawn", "nothing"}
         /\ item.shape.invType = "CHEST" =>
               item.shape.subclass \in {"CLOTH", "LEATHER", "MAIL", "PLATE"}
         /\ item.shape.invType \in Worn => item.shape.subclass \in {"CLOTH", "ARMOR_MISC"}
  BY ShapeAssumption DEF Item, Subclass, ListCase, Uncased

LEMMA LabelNext == LabelInv /\ [Next]_vars => LabelInv'
  <1> SUFFICES ASSUME LabelInv, [Next]_vars PROVE LabelInv'
    OBVIOUS
  <1>0. item \in Item
    BY DEF LabelInv
  <1>1. CASE Leather
    <2>1. item.shape.subclass = "LEATHER" /\ pool = {} /\ UNCHANGED <<item, spec>>
      BY <1>1 DEF Leather, GoTo, LabelInv, Label
    <2>2. CASE pc' = "INVTYPE"
      BY <1>0, <2>1, <2>2 DEF LabelInv, Label
    <2>3. CASE /\ item.level <= 40 /\ pc' = "MAIL"
               /\ pool' = pool \cup Asked(LeatherClasses, FALSE)
      <3>1. pool' = Asked(LeatherClasses, FALSE)'
        BY <2>1, <2>3 DEF Asked
      <3> QED
        BY <1>0, <2>1, <2>3, <3>1 DEF LabelInv, Label
    <2> QED
      BY <1>1, <2>2, <2>3 DEF Leather, GoTo
  <1>2. CASE Shooter
    <2>1. /\ item.shape.subclass \in {"BOW", "CROSSBOW", "GUN"} /\ pool = {}
          /\ pc' = "THROWN" /\ UNCHANGED <<item, spec>>
      BY <1>2 DEF Shooter, GoTo, LabelInv, Label
    <2>2. pool' = Asked({"HUNTER"}, FALSE)'
      BY <1>2, <2>1 DEF Shooter, Asked
    <2> QED
      BY <1>0, <2>1, <2>2 DEF LabelInv, Label
  <1>3. CASE Mail
    <2>1. CASE pc' = "INVTYPE"
      BY <1>0, <1>3, <2>1 DEF Mail, GoTo, LabelInv, Label
    <2>2. CASE IsMail /\ item.level <= 40 /\ pc' = "PLATE" /\ pool' = pool
      <3>1. pool = {} /\ UNCHANGED <<item, spec>>
        BY <1>3, <2>2 DEF Mail, GoTo, IsMail, LabelInv, Label
      <3> QED
        BY <1>0, <2>2, <3>1 DEF IsMail, LabelInv, Label
    <2> QED
      BY <1>3, <2>1, <2>2 DEF Mail, GoTo
  <1>4. CASE pc' = "INVTYPE" /\ UNCHANGED <<item, spec>>
    BY <1>0, <1>4 DEF LabelInv, Label
  <1>5. CASE InventoryType
    BY <1>0, <1>5 DEF InventoryType, GoTo, LabelInv, Label
  <1>6. CASE Draw
    BY <1>0, <1>6 DEF Draw, LabelInv, Label
  <1>7. CASE UNCHANGED vars
    BY <1>7 DEF vars, LabelInv, Label, Asked
  <1> QED
    BY <1>1, <1>2, <1>3, <1>4, <1>5, <1>6, <1>7
    DEF Next, Cloth, Plate, List, Thrown, Wand, NoCase, GoTo

LEMMA LabelInit == Init => LabelInv
  <1> SUFFICES ASSUME Init PROVE LabelInv
    OBVIOUS
  <1>1. item \in Item /\ pc = item.shape.subclass /\ pool = {}
    BY DEF Init
  <1> QED
    BY <1>1, ItemShape DEF LabelInv, Label

-----------------------------------------------------------------------------
(***************************************************************************)
(* Body armour.                                                            *)
(***************************************************************************)
\* The level for which body armour is compared: plate is plate at any level.
ArmorLevel == IF item.shape.subclass = "PLATE" THEN 80 ELSE item.level

Wears(class) == item.shape.subclass = BestArmor(class, ArmorLevel)

LEMMA BestArmorOf ==
  ASSUME NEW level
  PROVE  /\ \A c \in ClothClasses : BestArmor(c, level) = "CLOTH"
         /\ \A c \in LeatherClasses : BestArmor(c, level) = "LEATHER"
         /\ \A c \in MailClasses : BestArmor(c, level) = IF level > 40 THEN "MAIL" ELSE "LEATHER"
         /\ \A c \in PlateClasses : BestArmor(c, level) = IF level > 40 THEN "PLATE" ELSE "MAIL"
  BY DEF BestArmor, ClothClasses, LeatherClasses, MailClasses, PlateClasses

ArmorInv == item.shape.invType = "CHEST" => \A s \in pool : Wears(s[1])

LEMMA ArmorNext == LabelInv /\ ArmorInv /\ [Next]_vars => ArmorInv'
  <1> SUFFICES ASSUME LabelInv, ArmorInv, [Next]_vars, (item.shape.invType = "CHEST")'
               PROVE  (\A s \in pool : Wears(s[1]))'
    BY DEF ArmorInv
  <1>0. item' = item /\ item.shape.invType = "CHEST" /\ \A s \in pool : Wears(s[1])
    BY DEF ArmorInv, Next, vars, Cloth, Leather, Mail, Plate, List, Shooter, Thrown, Wand,
           NoCase, InventoryType, Draw, GoTo
  <1>1. /\ item.level \in Int
        /\ item.shape.subclass \in {"CLOTH", "LEATHER", "MAIL", "PLATE"}
    BY <1>0, ItemShape DEF LabelInv
  <1>a. \A c \in PlayerClass : Wears(c)' <=> Wears(c)
    BY <1>0 DEF Wears, ArmorLevel
  <1>b. ASSUME NEW classes \in SUBSET PlayerClass, NEW fallback \in SUBSET PlayerClass,
               pool' = PoolWith(classes, fallback), \A c \in classes \cup fallback : Wears(c)
        PROVE  (\A s \in pool : Wears(s[1]))'
    <2> SUFFICES ASSUME NEW s \in PoolWith(classes, fallback) PROVE Wears(s[1])
      BY <1>0, <1>b DEF Wears, ArmorLevel
    <2> QED
      BY <1>0, <1>b, PoolWithClass
  <1>c. ASSUME NEW classes \in SUBSET PlayerClass, NEW force,
               pool' = pool \cup Asked(classes, force), \A c \in classes : Wears(c)
        PROVE  (\A s \in pool : Wears(s[1]))'
    <2> SUFFICES ASSUME NEW s \in pool \cup Asked(classes, force) PROVE Wears(s[1])
      BY <1>0, <1>c DEF Wears, ArmorLevel
    <2> QED
      BY <1>0, <1>c, AskedClass
  <1>d. pool' = pool => (\A s \in pool : Wears(s[1]))'
    BY <1>0 DEF Wears, ArmorLevel
  <1>e. /\ ClothClasses \in SUBSET PlayerClass /\ LeatherClasses \in SUBSET PlayerClass
        /\ MailClasses \in SUBSET PlayerClass /\ PlateClasses \in SUBSET PlayerClass
        /\ MailClasses \cup LeatherClasses \in SUBSET PlayerClass
    BY DEF PlayerClass
  <1>f. pc \in {"CLOTH", "LEATHER", "MAIL", "PLATE", "INVTYPE", "DRAW", "drawn", "nothing"}
    BY <1>1 DEF LabelInv, Label
  <1>2. CASE Cloth
    <2>1. \A c \in ClothClasses : Wears(c)
      <3>1. item.shape.subclass = "CLOTH"
        BY <1>2 DEF Cloth, LabelInv, Label
      <3> QED
        BY <3>1, BestArmorOf DEF Wears
    <2> QED
      BY <1>2, <1>c, <1>d, <1>e, <2>1 DEF Cloth
  <1>3. CASE Leather
    <2>1. \A c \in LeatherClasses : Wears(c)
      <3>1. item.shape.subclass = "LEATHER"
        BY <1>3 DEF Leather, LabelInv, Label
      <3> QED
        BY <3>1, BestArmorOf DEF Wears
    <2>2. \A c \in LeatherClasses \cup LeatherClasses : Wears(c)
      BY <2>1
    <2> QED
      BY <1>3, <1>b, <1>c, <1>e, <2>1, <2>2 DEF Leather
  <1>4. CASE Mail
    <2>1. CASE ~IsMail \/ item.level > 40
      <3> DEFINE fallback == IF IsMail THEN MailClasses ELSE MailClasses \cup LeatherClasses
      <3>1. pool' = PoolWith(MailClasses, fallback) /\ fallback \in SUBSET PlayerClass
        <4>1. ~(IsMail /\ item.level <= 40)
          BY <1>1, <2>1
        <4> QED
          BY <1>4, <1>e, <4>1 DEF Mail
      <3>2. /\ item.shape.subclass = "MAIL" => item.level > 40
            /\ item.shape.subclass # "MAIL" => item.shape.subclass = "LEATHER" /\ item.level <= 40
        BY <1>4, <2>1 DEF Mail, IsMail, LabelInv, Label
      <3>3. \A c \in MailClasses \cup fallback : Wears(c)
        <4>1. CASE IsMail
          BY <1>1, <3>2, <4>1, BestArmorOf DEF IsMail, Wears, ArmorLevel
        <4>2. CASE ~IsMail
          <5>1. item.shape.subclass = "LEATHER" /\ ~(item.level > 40)
            BY <1>1, <3>2, <4>2 DEF IsMail
          <5> QED
            BY <4>2, <5>1, BestArmorOf DEF Wears, ArmorLevel
        <4> QED
          BY <4>1, <4>2
      <3> HIDE DEF fallback
      <3> QED
        BY <1>b, <1>e, <3>1, <3>3
    <2>2. CASE pool' = pool
      BY <1>d, <2>2
    <2> QED
      BY <1>4, <2>1, <2>2 DEF Mail
  <1>5. CASE Plate
    <2>1. \A c \in PlateClasses \cup PlateClasses : Wears(c)
      <3>1. \/ item.shape.subclass = "PLATE"
            \/ item.shape.subclass = "MAIL" /\ ~(item.level > 40)
        BY <1>1, <1>5 DEF Plate, LabelInv, Label
      <3> QED
        BY <3>1, BestArmorOf DEF Wears, ArmorLevel
    <2> QED
      BY <1>5, <1>b, <1>e, <2>1 DEF Plate
  <1>6. CASE InventoryType
    <2>1. pool' = pool
      BY <1>0, <1>6 DEF InventoryType, Worn
    <2> QED
      BY <1>d, <2>1
  <1>7. CASE UNCHANGED pool
    BY <1>d, <1>7
  <1>8. CASE List \/ Shooter \/ Thrown \/ Wand \/ NoCase
    BY <1>f, <1>8 DEF List, Shooter, Thrown, Wand, NoCase, ListCase, Uncased
  <1> QED
    BY <1>2, <1>3, <1>4, <1>5, <1>6, <1>7, <1>8 DEF Next, vars, Draw

\* Body armour of every level, and with any stats, is drawn for a class whose
\* best armour it is, however the control falls through the armour cases.
THEOREM ArmorIsForWearers == Spec => []ArmorSuitsWearer
  <1>1. Init => ArmorInv
    BY DEF Init, ArmorInv
  <1>2. LabelInv /\ ArmorInv => ArmorSuitsWearer
    BY DEF LabelInv, ArmorInv, ArmorSuitsWearer, Wears, ArmorLevel
  <1> QED
    BY <1>1, <1>2, LabelInit, LabelNext, ArmorNext, PTL DEF Spec

-----------------------------------------------------------------------------
(***************************************************************************)
(* The last resort.                                                        *)
(***************************************************************************)
\* The specs of a pool all answer to the evidence, or none does.
AllAnswer(specs) == \A s \in specs : Answers(s)
NoneAnswers(specs) == \A s \in specs : ~Answers(s) \/ Unasked(s)

LEMMA AskedAnswers ==
  ASSUME NEW classes \in SUBSET PlayerClass
  PROVE  AllAnswer(Asked(classes, FALSE))
  BY AskedClass DEF AllAnswer, Answers

LEMMA SilentForced ==
  ASSUME NEW fallback \in SUBSET PlayerClass,
         \A c \in fallback : \/ Asked({c}, FALSE) = {}
                             \/ c = "HUNTER" /\ item.shape.subclass = "THROWN"
  PROVE  NoneAnswers(Asked(fallback, TRUE))
  <1> SUFFICES ASSUME NEW s \in Asked(fallback, TRUE), Answers(s) PROVE Unasked(s)
    BY DEF NoneAnswers
  <1>1. s[1] \in fallback
    BY AskedClass
  <1>2. s \in Asked({s[1]}, FALSE)
    BY DEF Answers, Asked
  <1> QED
    BY <1>1, <1>2 DEF Unasked

\* A case that asks and then forces, on a pool of answers.
LEMMA PoolWithResort ==
  ASSUME NEW classes \in SUBSET PlayerClass, NEW fallback \in SUBSET PlayerClass,
         AllAnswer(pool),
         pool = {} /\ Asked(classes, FALSE) = {} =>
            \A c \in fallback : \/ Asked({c}, FALSE) = {}
                                \/ c = "HUNTER" /\ item.shape.subclass = "THROWN"
  PROVE  AllAnswer(PoolWith(classes, fallback)) \/ NoneAnswers(PoolWith(classes, fallback))
  <1>1. CASE pool \cup Asked(classes, FALSE) = {}
    BY <1>1, SilentForced DEF PoolWith
  <1>2. CASE pool \cup Asked(classes, FALSE) # {}
    <2>1. PoolWith(classes, fallback) = pool \cup Asked(classes, FALSE)
      BY <1>2 DEF PoolWith
    <2> QED
      BY <2>1, AskedAnswers DEF AllAnswer
  <1> QED
    BY <1>1, <1>2

LEMMA AskedEach ==
  ASSUME NEW classes, NEW c \in classes, Asked(classes, FALSE) = {}
  PROVE  Asked({c}, FALSE) = {}
  BY DEF Asked

\* Items that every class is asked for come to the second switch with an empty
\* pool.
ResortInv ==
    pc \in {"INVTYPE", "DRAW"} /\ ~ForcesCasters =>
        /\ AllAnswer(pool) \/ NoneAnswers(pool)
        /\ pc = "INVTYPE" /\ item.shape.invType \in Worn => pool = {}

LEMMA ResortNext == LabelInv /\ ResortInv /\ [Next]_vars => ResortInv'
  <1> SUFFICES ASSUME LabelInv, ResortInv, [Next]_vars,
                      pc' \in {"INVTYPE", "DRAW"}, ~ForcesCasters'
               PROVE  /\ (AllAnswer(pool) \/ NoneAnswers(pool))'
                      /\ pc' = "INVTYPE" /\ (item.shape.invType \in Worn)' => pool' = {}
    BY DEF ResortInv
  <1>0. item' = item /\ ~ForcesCasters
    BY DEF ForcesCasters, IsHoldable, Next, vars, Cloth, Leather, Mail, Plate, List, Shooter,
           Thrown, Wand, NoCase, InventoryType, Draw, GoTo
  <1>a. AllAnswer(pool') \/ NoneAnswers(pool') => (AllAnswer(pool) \/ NoneAnswers(pool))'
    BY <1>0 DEF AllAnswer, NoneAnswers, Answers, Unasked
  <1>b. /\ item.level \in Int
        /\ item.shape.invType \in Worn => item.shape.subclass \in {"CLOTH", "ARMOR_MISC"}
    BY ItemShape DEF LabelInv
  <1>c. AllAnswer({})
    BY DEF AllAnswer
  <1>d. ASSUME NEW classes \in SUBSET PlayerClass, pool = {}, pool' = PoolWith(classes, classes)
        PROVE  AllAnswer(pool') \/ NoneAnswers(pool')
    BY <1>c, <1>d, AskedEach, PoolWithResort
  <1>e. /\ LeatherClasses \in SUBSET PlayerClass /\ MailClasses \in SUBSET PlayerClass
        /\ PlateClasses \in SUBSET PlayerClass /\ {"HUNTER"} \in SUBSET PlayerClass
        /\ MailClasses \cup LeatherClasses \in SUBSET PlayerClass
        /\ {"WARRIOR", "ROGUE"} \in SUBSET PlayerClass
        /\ {"WARRIOR", "HUNTER", "ROGUE"} \in SUBSET PlayerClass
    BY DEF PlayerClass, LeatherClasses, MailClasses, PlateClasses
  <1>1. CASE Cloth
    <2>1. pool = {} /\ item.shape.subclass = "CLOTH"
      BY <1>1 DEF Cloth, LabelInv, Label
    <2>2. pool' = {}
      BY <1>0, <1>1, <2>1 DEF Cloth, ForcesCasters
    <2> QED
      BY <1>a, <1>c, <2>2
  <1>2. CASE Leather
    <2>1. pool = {} /\ item.shape.subclass = "LEATHER"
      BY <1>2 DEF Leather, LabelInv, Label
    <2>2. pool' = PoolWith(LeatherClasses, LeatherClasses)
      BY <1>2 DEF Leather, GoTo
    <2> QED
      BY <1>0, <1>a, <1>b, <1>d, <1>e, <2>1, <2>2
  <1>3. CASE Mail
    <2> DEFINE fallback == IF IsMail THEN MailClasses ELSE MailClasses \cup LeatherClasses
    <2>1. pool' = PoolWith(MailClasses, fallback) /\ fallback \in SUBSET PlayerClass
      BY <1>3, <1>e DEF Mail, GoTo
    <2>2. CASE IsMail
      <3>1. pool = {} /\ item.shape.subclass = "MAIL"
        BY <1>3, <2>2 DEF Mail, IsMail, LabelInv, Label
      <3>2. pool' = PoolWith(MailClasses, MailClasses)
        BY <2>1, <2>2
      <3> QED
        BY <1>0, <1>a, <1>b, <1>d, <1>e, <3>1, <3>2
    <2>3. CASE ~IsMail
      <3>1. pool = Asked(LeatherClasses, FALSE) /\ item.shape.subclass = "LEATHER"
        BY <1>3, <2>3 DEF Mail, IsMail, LabelInv, Label
      <3>2. AllAnswer(pool)
        BY <1>e, <3>1, AskedAnswers
      <3>3. pool = {} /\ Asked(MailClasses, FALSE) = {} =>
              \A c \in fallback : Asked({c}, FALSE) = {}
        BY <2>3, <3>1, AskedEach
      <3> HIDE DEF fallback
      <3>4. AllAnswer(pool') \/ NoneAnswers(pool')
        BY <1>e, <2>1, <3>2, <3>3, PoolWithResort
      <3> QED
        BY <1>0, <1>a, <1>b, <3>1, <3>4
    <2> QED
      BY <2>2, <2>3
  <1>4. CASE Plate
    <2>1. pool = {} /\ item.shape.subclass \in {"MAIL", "PLATE"}
      BY <1>4 DEF Plate, LabelInv, Label
    <2>2. pool' = PoolWith(PlateClasses, PlateClasses)
      BY <1>4 DEF Plate
    <2> QED
      BY <1>0, <1>a, <1>b, <1>d, <1>e, <2>1, <2>2
  <1>5. CASE List
    <2>1. pc \in DOMAIN ListCase /\ pool' = PoolWith(ListCase[pc], ListCase[pc])
      BY <1>5 DEF List
    <2>2. pool = {} /\ item.shape.subclass \in DOMAIN ListCase
      BY <2>1 DEF LabelInv, Label, ListCase
    <2>3. ListCase[pc] \in SUBSET PlayerClass
      BY <2>1 DEF ListCase, PlayerClass, ClothClasses, LeatherClasses, MailClasses, PlateClasses
    <2>4. item.shape.subclass \notin {"CLOTH", "ARMOR_MISC"}
      BY <2>2 DEF ListCase
    <2> QED
      BY <1>0, <1>a, <1>b, <1>d, <2>1, <2>2, <2>3, <2>4
  <1>6. CASE Thrown
    <2>1. \/ pool = {} /\ item.shape.subclass = "THROWN"
          \/ pool = Asked({"HUNTER"}, FALSE) /\ item.shape.subclass \in {"BOW", "CROSSBOW", "GUN"}
      BY <1>6 DEF Thrown, LabelInv, Label
    <2>2. AllAnswer(pool)
      BY <1>c, <1>e, <2>1, AskedAnswers
    <2>3. pool = {} /\ Asked({"WARRIOR", "ROGUE"}, FALSE) = {} =>
            \A c \in {"WARRIOR", "HUNTER", "ROGUE"} :
               \/ Asked({c}, FALSE) = {}
               \/ c = "HUNTER" /\ item.shape.subclass = "THROWN"
      BY <2>1, AskedEach
    <2>4. pool' = PoolWith({"WARRIOR", "ROGUE"}, {"WARRIOR", "HUNTER", "ROGUE"})
      BY <1>6 DEF Thrown
    <2>5. AllAnswer(pool') \/ NoneAnswers(pool')
      BY <1>e, <2>2, <2>3, <2>4, PoolWithResort
    <2> QED
      BY <1>0, <1>a, <1>b, <2>1, <2>5
  <1>7. CASE NoCase
    <2>1. pool' = {}
      BY <1>7 DEF NoCase, LabelInv, Label, Uncased
    <2> QED
      BY <1>a, <1>c, <2>1
  <1>8. CASE InventoryType
    <2>1. AllAnswer(pool) \/ NoneAnswers(pool)
      BY <1>0, <1>8 DEF InventoryType, ResortInv
    <2>2. pc' = "DRAW"
      BY <1>8 DEF InventoryType, GoTo
    <2>3. CASE item.shape.invType \in Worn
      <3>1. pool = {}
        BY <1>0, <1>8, <2>3 DEF InventoryType, ResortInv
      <3>2. pool' = PoolWith(PlayerClass, PlayerClass)
        BY <1>8, <2>3 DEF InventoryType, Worn
      <3> QED
        BY <1>a, <1>d, <2>2, <3>1, <3>2
    <2>4. CASE item.shape.invType \notin Worn
      <3>1. pool' = pool
        BY <1>0, <1>8, <2>4 DEF InventoryType, ForcesCasters, IsHoldable
      <3> QED
        BY <1>a, <2>1, <2>2, <3>1
    <2> QED
      BY <2>3, <2>4
  <1>9. CASE Wand
    <2>1. item.shape.subclass = "WAND"
      BY <1>9 DEF Wand, LabelInv, Label
    <2> QED
      BY <1>0, <2>1 DEF ForcesCasters
  <1>10. CASE Shooter \/ Draw
    BY <1>10 DEF Shooter, Draw, GoTo
  <1>11. CASE UNCHANGED vars
    <2>1. pool' = pool /\ pc' = pc /\ item' = item
      BY <1>11 DEF vars
    <2> QED
      BY <1>0, <1>a, <2>1 DEF ResortInv
  <1> QED
    BY <1>1, <1>2, <1>3, <1>4, <1>5, <1>6, <1>7, <1>8, <1>9, <1>10, <1>11 DEF Next

\* For items of any shape, level and stats: a spec without evidence is in the
\* pool only if no class that was asked, in whichever case the control fell
\* through, answered to the evidence.
THEOREM ForcingIsLastResort == Spec => []ForcedIsLastResort
  <1>1. Init => ResortInv
    <2> SUFFICES ASSUME Init PROVE pc \notin {"INVTYPE", "DRAW"}
      BY DEF ResortInv
    <2>1. item \in Item /\ pc = item.shape.subclass
      BY DEF Init
    <2> QED
      BY <2>1, ItemShape
  <1>2. ResortInv => ForcedIsLastResort
    BY DEF ResortInv, ForcedIsLastResort, AllAnswer, NoneAnswers
  <1> QED
    BY <1>1, <1>2, LabelInit, LabelNext, ResortNext, PTL DEF Spec

-----------------------------------------------------------------------------
(***************************************************************************)
(* Roles and suffixes.                                                     *)
(***************************************************************************)
\* A role that uses three attributes which make a suffix together.
Rollable(s) ==
    LET attrs == SpecRole(s[1], s[2]).attrs IN
    /\ {"Sta", "Haste"} \subseteq attrs
    /\ "Hit" \in attrs \/ "Crit" \in attrs

LEMMA RoleIsRollable ==
  ASSUME NEW class \in PlayerClass, NEW ev, NEW force, NEW shape,
         NEW s \in ClassSpecs(class, ev, force, shape)
  PROVE  Rollable(s)
  <1> USE DEF Specs, Rollable
  <1>0. s[1] = class
    BY SpecsOfClass
  <1>1. CASE class = "WARRIOR"
    <2>1. s \in Warrior(ev, force, shape)
      BY <1>1 DEF ClassSpecs
    <2>2. s[2] \in {"ARMS", "FURY", "PROTECTION"}
      BY <2>1 DEF Warrior
    <2> QED
      BY <1>0, <1>1, <2>2 DEF SpecRole, Role, StrFighter, Ratings
  <1>2. CASE class = "PALADIN"
    <2>1. s \in Paladin(ev, force, shape)
      BY <1>2 DEF ClassSpecs
    <2>2. s[2] \in {"HOLY", "PROTECTION", "RETRIBUTION"}
      BY <2>1 DEF Paladin
    <2> QED
      BY <1>0, <1>2, <2>2 DEF SpecRole, Role, StrFighter, Mage, Ratings
  <1>3. CASE class = "HUNTER"
    BY <1>0, <1>3 DEF SpecRole, Role, AgiFighter, Ratings
  <1>4. CASE class = "ROGUE"
    BY <1>0, <1>4 DEF SpecRole, Role, AgiFighter, Ratings
  <1>5. CASE class = "DEATH_KNIGHT"
    <2>1. s \in DeathKnight(ev, force)
      BY <1>5 DEF ClassSpecs
    <2>2. s[2] \in {"BLOOD", "FROST", "UNHOLY"}
      BY <2>1 DEF DeathKnight
    <2> QED
      BY <1>0, <1>5, <2>2 DEF SpecRole, Role, StrFighter, Ratings
  <1>6. CASE class = "SHAMAN"
    <2>1. s \in Shaman(ev, force, shape)
      BY <1>6 DEF ClassSpecs
    <2>2. s[2] \in {"ENHANCEMENT", "ELEMENTAL", "RESTORATION"}
      BY <2>1 DEF Shaman
    <2> QED
      BY <1>0, <1>6, <2>2 DEF SpecRole, Role, StrFighter, Mage, Ratings
  <1>7. CASE class = "DRUID"
    <2>1. s \in Druid(ev, force, shape)
      BY <1>7 DEF ClassSpecs
    <2>2. s[2] \in {"BALANCE", "FERAL_COMBAT", "RESTORATION"}
      BY <2>1 DEF Druid
    <2> QED
      BY <1>0, <1>7, <2>2 DEF SpecRole, Role, AgiFighter, Mage, Ratings
  <1>8. CASE class \in ClothClasses
    BY <1>0, <1>8 DEF ClothClasses, SpecRole, Role, Mage, Ratings
  <1> QED
    BY <1>1, <1>2, <1>3, <1>4, <1>5, <1>6, <1>7, <1>8
    DEF PlayerClass, LeatherClasses, MailClasses, PlateClasses

LEMMA RollableSuffix ==
  ASSUME NEW attrs, {"Sta", "Haste"} \subseteq attrs, "Hit" \in attrs \/ "Crit" \in attrs
  PROVE  \A n \in 1..3 : Combinations(n, attrs) # {}
  <1>1. PICK r \in {"Hit", "Crit"} : r \in attrs
    OBVIOUS
  <1>2. IsFiniteSet({}) /\ Cardinality({}) = 0
    BY FS_EmptySet
  <1>3. /\ IsFiniteSet({"Sta"}) /\ Cardinality({"Sta"}) = 1
    BY FS_Singleton
  <1>4. IsFiniteSet({"Sta"} \cup {"Haste"}) /\ Cardinality({"Sta"} \cup {"Haste"}) = 2
    <2>1. "Haste" \notin {"Sta"} /\ 1 + 1 = 2
      OBVIOUS
    <2> QED
      BY <1>3, <2>1, FS_AddElement
  <1>5. Cardinality(({"Sta"} \cup {"Haste"}) \cup {r}) = 3
    <2>1. r \notin {"Sta"} \cup {"Haste"} /\ 2 + 1 = 3
      BY <1>1
    <2> QED
      BY <1>4, <2>1, FS_AddElement
  <1>6. /\ IsValid({"Sta"}) /\ IsValid({"Sta"} \cup {"Haste"})
        /\ IsValid(({"Sta"} \cup {"Haste"}) \cup {r})
    BY <1>1 DEF IsValid, Defensive
  <1>7. {"Sta"} \in Combinations(1, attrs)
    BY <1>3, <1>6 DEF Combinations
  <1>8. {"Sta"} \cup {"Haste"} \in Combinations(2, attrs)
    BY <1>4, <1>6 DEF Combinations
  <1>9. ({"Sta"} \cup {"Haste"}) \cup {r} \in Combinations(3, attrs)
    BY <1>1, <1>5, <1>6 DEF Combinations
  <1> QED
    BY <1>7, <1>8, <1>9

\* What any action of the two switches adds to the pool.
LEMMA PoolGrows ==
  ASSUME [Next]_vars, NEW s \in pool'
  PROVE  \/ s \in pool
         \/ \E c \in PlayerClass, force \in BOOLEAN :
               s \in ClassSpecs(c, Evidence(item.stats), force, item.shape)
  <1>a. ASSUME NEW classes \in SUBSET PlayerClass, NEW force \in BOOLEAN,
               s \in Asked(classes, force)
        PROVE  \E c \in PlayerClass, f \in BOOLEAN :
                  s \in ClassSpecs(c, Evidence(item.stats), f, item.shape)
    BY <1>a, AskedClass
  <1>b. ASSUME NEW classes \in SUBSET PlayerClass, NEW fallback \in SUBSET PlayerClass,
               s \in PoolWith(classes, fallback), s \notin pool
        PROVE  \E c \in PlayerClass, f \in BOOLEAN :
                  s \in ClassSpecs(c, Evidence(item.stats), f, item.shape)
    <2>1. s \in Asked(classes, FALSE) \/ s \in Asked(fallback, TRUE)
      BY <1>b DEF PoolWith
    <2> QED
      BY <1>a, <2>1
  <1> USE DEF PlayerClass, ClothClasses, LeatherClasses, MailClasses, PlateClasses
  <1>1. CASE Cloth
    BY <1>1, <1>a DEF Cloth
  <1>2. CASE Leather
    BY <1>2, <1>a, <1>b DEF Leather
  <1>3. CASE Mail
    BY <1>3, <1>b DEF Mail
  <1>4. CASE Plate
    BY <1>4, <1>b DEF Plate
  <1>5. CASE List
    <2>1. pc \in DOMAIN ListCase /\ pool' = PoolWith(ListCase[pc], ListCase[pc])
      BY <1>5 DEF List
    <2>2. ListCase[pc] \in SUBSET PlayerClass
      BY <2>1 DEF ListCase
    <2> QED
      BY <1>b, <2>1, <2>2
  <1>6. CASE Shooter \/ Thrown \/ Wand
    BY <1>6, <1>a, <1>b DEF Shooter, Thrown, Wand
  <1>7. CASE InventoryType
    <2>1. /\ {"SHAMAN", "DRUID", "PALADIN"} \in SUBSET PlayerClass
          /\ ClothClasses \in SUBSET PlayerClass /\ PlayerClass \in SUBSET PlayerClass
      OBVIOUS
    <2>2. \/ s \in pool
          \/ s \in Asked(ClothClasses, TRUE)
          \/ s \in Asked({"SHAMAN", "DRUID", "PALADIN"}, FALSE)
          \/ s \in PoolWith(PlayerClass, PlayerClass)
      BY <1>7 DEF InventoryType
    <2> HIDE DEF PlayerClass, ClothClasses, LeatherClasses, MailClasses, PlateClasses
    <2> QED
      BY <1>a, <1>b, <2>1, <2>2
  <1>8. CASE UNCHANGED pool
    BY <1>8
  <1> QED
    BY <1>1, <1>2, <1>3, <1>4, <1>5, <1>6, <1>7, <1>8 DEF Next, vars, NoCase, Draw

RollableInv == \A s \in pool : Rollable(s)

\* Whatever item it is drawn for, a role has suffixes of one, two and three
\* attributes that the generator makes, so the 50 queries of a roll are never
\* spent on a role that no suffix can fit.
THEOREM DrawnRolesRoll == Spec => []DrawnRoleHasSuffix
  <1>1. Init => RollableInv
    BY DEF Init, RollableInv
  <1>2. RollableInv /\ [Next]_vars => RollableInv'
    BY PoolGrows, RoleIsRollable DEF RollableInv, Rollable
  <1>3. LabelInv /\ RollableInv => DrawnRoleHasSuffix
    BY RollableSuffix DEF LabelInv, RollableInv, Rollable, DrawnRoleHasSuffix, DrawnRole
  <1> QED
    BY <1>1, <1>2, <1>3, LabelInit, LabelNext, PTL DEF Spec

-----------------------------------------------------------------------------
(***************************************************************************)
(* Casters and tanks. Both are drawn for if all answers to the evidence of *)
(* their items are specs of theirs, and somebody answers in every case.    *)
(***************************************************************************)
Answer(class, force) == ClassSpecs(class, Evidence(item.stats), force, item.shape)

\* Somebody of the classes speakers is asked at every label, or was before.
SomeoneSpeaks(speakers) ==
    /\ pc = "LEATHER" => speakers \cap LeatherClasses # {}
    /\ pc = "MAIL" /\ ~IsMail => speakers \cap LeatherClasses # {}
    /\ pc = "MAIL" /\ IsMail /\ item.level > 40 => speakers \cap MailClasses # {}
    /\ pc = "PLATE" => speakers \cap PlateClasses # {}
    /\ pc = "THROWN" => speakers \cap {"WARRIOR", "ROGUE"} # {}
    /\ pc \in DOMAIN ListCase => speakers \cap ListCase[pc] # {}
    /\ speakers # {}

LEMMA OnlyAnswers ==
  ASSUME LabelInv, [Next]_vars, NEW good, NEW speakers \in SUBSET PlayerClass, pool \subseteq good,
         \A c \in PlayerClass : Answer(c, FALSE) \subseteq good,
         \A c \in speakers : Answer(c, FALSE) # {},
         ForcesCasters => \A c \in ClothClasses : Answer(c, TRUE) \subseteq good,
         SomeoneSpeaks(speakers)
  PROVE  pool' \subseteq good
  <1>a. ASSUME NEW classes \in SUBSET PlayerClass PROVE Asked(classes, FALSE) \subseteq good
    BY DEF Asked, Answer
  <1>b. ASSUME NEW classes, NEW fallback, pool \cup Asked(classes, FALSE) # {}
        PROVE  PoolWith(classes, fallback) = pool \cup Asked(classes, FALSE)
    BY <1>b DEF PoolWith
  <1>f. ASSUME NEW classes, NEW c \in speakers, c \in classes PROVE Asked(classes, FALSE) # {}
    <2>1. Answer(c, FALSE) \subseteq Asked(classes, FALSE)
      BY <1>f DEF Asked, Answer
    <2> QED
      BY <2>1
  <1>c. ASSUME NEW classes \in SUBSET PlayerClass, NEW fallback,
               speakers \cap classes # {} \/ pool # {}
        PROVE  PoolWith(classes, fallback) \subseteq good
    <2>1. pool \cup Asked(classes, FALSE) # {}
      BY <1>c, <1>f
    <2> QED
      BY <1>a, <1>b, <2>1
  <1>d. /\ LeatherClasses \in SUBSET PlayerClass /\ MailClasses \in SUBSET PlayerClass
        /\ PlateClasses \in SUBSET PlayerClass /\ {"HUNTER"} \in SUBSET PlayerClass
        /\ {"WARRIOR", "ROGUE"} \in SUBSET PlayerClass
        /\ {"SHAMAN", "DRUID", "PALADIN"} \in SUBSET PlayerClass
    BY DEF PlayerClass, LeatherClasses, MailClasses, PlateClasses
  <1>e. ForcesCasters => Asked(ClothClasses, TRUE) \subseteq good
    BY DEF Asked, Answer
  <1>1. CASE Cloth
    <2>1. item.shape.subclass = "CLOTH"
      BY <1>1 DEF Cloth, LabelInv, Label
    <2> QED
      BY <1>1, <1>e, <2>1 DEF Cloth, ForcesCasters
  <1>2. CASE Leather
    <2>1. speakers \cap LeatherClasses # {}
      BY <1>2 DEF Leather, SomeoneSpeaks
    <2> QED
      BY <1>2, <1>a, <1>c, <1>d, <2>1 DEF Leather
  <1>3. CASE Mail
    <2>1. CASE IsMail /\ pool' # pool
      <3>1. /\ speakers \cap MailClasses # {}
            /\ \E f : pool' = PoolWith(MailClasses, f)
        BY <1>3, <2>1 DEF Mail, IsMail, SomeoneSpeaks
      <3> QED
        BY <1>c, <1>d, <3>1
    <2>2. CASE ~IsMail
      <3>1. pool = Asked(LeatherClasses, FALSE) /\ \E f : pool' = PoolWith(MailClasses, f)
        BY <1>3, <2>2 DEF Mail, IsMail, LabelInv, Label
      <3>2. PICK c \in speakers : c \in LeatherClasses
        BY <1>3, <2>2 DEF Mail, SomeoneSpeaks
      <3>3. pool # {}
        BY <1>f, <3>1, <3>2
      <3> QED
        BY <1>c, <1>d, <3>1, <3>3
    <2> QED
      BY <2>1, <2>2
  <1>4. CASE Plate
    BY <1>4, <1>c, <1>d DEF Plate, SomeoneSpeaks
  <1>5. CASE List
    <2>1. pc \in DOMAIN ListCase /\ pool' = PoolWith(ListCase[pc], ListCase[pc])
      BY <1>5 DEF List
    <2>2. ListCase[pc] \in SUBSET PlayerClass
      BY <2>1 DEF ListCase, PlayerClass, ClothClasses, LeatherClasses, MailClasses, PlateClasses
    <2>3. speakers \cap ListCase[pc] # {}
      BY <2>1 DEF SomeoneSpeaks, ListCase
    <2> QED
      BY <1>c, <2>1, <2>2, <2>3
  <1>6. CASE Shooter
    BY <1>6, <1>a, <1>d DEF Shooter
  <1>7. CASE Thrown
    BY <1>7, <1>c, <1>d DEF Thrown, SomeoneSpeaks
  <1>8. CASE Wand
    <2>1. item.shape.subclass = "WAND"
      BY <1>8 DEF Wand, LabelInv, Label
    <2> QED
      BY <1>8, <1>e, <2>1 DEF Wand, ForcesCasters
  <1>9. CASE InventoryType
    <2>1. speakers \cap PlayerClass # {}
      BY <1>9 DEF InventoryType, SomeoneSpeaks
    <2>2. PoolWith(PlayerClass, PlayerClass) \subseteq good
      BY <1>c, <2>1
    <2>3. Asked({"SHAMAN", "DRUID", "PALADIN"}, FALSE) \subseteq good
      BY <1>a, <1>d
    <2> QED
      BY <1>9, <1>e, <2>2, <2>3 DEF InventoryType, ForcesCasters, IsHoldable
  <1>10. CASE UNCHANGED pool
    BY <1>10
  <1> QED
    BY <1>1, <1>2, <1>3, <1>4, <1>5, <1>6, <1>7, <1>8, <1>9, <1>10 DEF Next, vars, NoCase, Draw

LEMMA ItemStays == [Next]_vars => item' = item
  BY DEF Next, vars, Cloth, Leather, Mail, Plate, List, Shooter, Thrown, Wand, NoCase,
         InventoryType, Draw, GoTo

\* The trees of casters and tanks, and their specs that use an attribute.
Tree == {"DISCIPLINE", "HOLY", "SHADOW", "ARCANE", "FIRE", "FROST", "AFFLICTION", "DEMONOLOGY",
         "DESTRUCTION", "ELEMENTAL", "RESTORATION", "BALANCE", "FERAL_COMBAT", "BLOOD", "PROTECTION"}

Users(attr) == {s \in PlayerClass \X Tree : attr \in SpecRole(s[1], s[2]).attrs}

LEMMA UserOf ==
  ASSUME NEW c \in PlayerClass, NEW tree \in Tree, NEW attr, attr \in SpecRole(c, tree).attrs
  PROVE  <<c, tree>> \in Users(attr)
  BY DEF Users

CasterSpeakers == {"PALADIN", "SHAMAN", "DRUID"} \cup ClothClasses

LEMMA CasterAnswers ==
  ASSUME NEW shape, NEW c \in PlayerClass
  PROVE  /\ ClassSpecs(c, {"caster"}, FALSE, shape) \subseteq Users("SP")
         /\ c \in CasterSpeakers => ClassSpecs(c, {"caster"}, FALSE, shape) # {}
         /\ c \in ClothClasses => ClassSpecs(c, {"caster"}, TRUE, shape) \subseteq Users("SP")
  <1>0. {"WARRIOR", "PALADIN", "HUNTER", "ROGUE", "DEATH_KNIGHT", "SHAMAN", "DRUID"}
            \subseteq PlayerClass
    BY DEF PlayerClass, LeatherClasses, MailClasses, PlateClasses
  <1>1. CASE c = "WARRIOR"
    <2>1. Warrior({"caster"}, FALSE, shape) = {}
      BY DEF Warrior, Specs, Some, Fights
    <2> QED
      BY <1>1, <2>1 DEF ClassSpecs, ClothClasses, CasterSpeakers
  <1>2. CASE c = "PALADIN"
    <2>1. Paladin({"caster"}, FALSE, shape) = {<<"PALADIN", "HOLY">>}
      BY DEF Paladin, Specs, Some, Fights
    <2>2. "SP" \in SpecRole("PALADIN", "HOLY").attrs
      BY DEF SpecRole, Role, Mage
    <2>3. <<"PALADIN", "HOLY">> \in Users("SP")
      BY <1>0, <2>2, UserOf DEF Tree
    <2> QED
      BY <1>2, <2>1, <2>3 DEF ClassSpecs, ClothClasses, CasterSpeakers
  <1>3. CASE c \in {"HUNTER", "ROGUE", "DEATH_KNIGHT"}
    <2>1. /\ Hunter({"caster"}, FALSE) = {}
          /\ Rogue({"caster"}, FALSE) = {}
          /\ DeathKnight({"caster"}, FALSE) = {}
      BY DEF Hunter, Rogue, DeathKnight, Specs, Some, Fights
    <2> QED
      BY <1>3, <2>1 DEF ClassSpecs, ClothClasses, CasterSpeakers
  <1>4. CASE c = "SHAMAN"
    <2>1. Shaman({"caster"}, FALSE, shape) = {<<"SHAMAN", "ELEMENTAL">>, <<"SHAMAN", "RESTORATION">>}
      BY DEF Shaman, Specs, Some, Fights
    <2>2. /\ "SP" \in SpecRole("SHAMAN", "ELEMENTAL").attrs
          /\ "SP" \in SpecRole("SHAMAN", "RESTORATION").attrs
      BY DEF SpecRole, Role, Mage, Ratings
    <2>3. /\ <<"SHAMAN", "ELEMENTAL">> \in Users("SP")
          /\ <<"SHAMAN", "RESTORATION">> \in Users("SP")
      BY <1>0, <2>2, UserOf DEF Tree
    <2> QED
      BY <1>4, <2>1, <2>3 DEF ClassSpecs, ClothClasses, CasterSpeakers
  <1>5. CASE c = "DRUID"
    <2>1. Druid({"caster"}, FALSE, shape) = {<<"DRUID", "BALANCE">>, <<"DRUID", "RESTORATION">>}
      BY DEF Druid, Specs, Some, Fights
    <2>2. /\ "SP" \in SpecRole("DRUID", "BALANCE").attrs
          /\ "SP" \in SpecRole("DRUID", "RESTORATION").attrs
      BY DEF SpecRole, Role, Mage, Ratings
    <2>3. /\ <<"DRUID", "BALANCE">> \in Users("SP")
          /\ <<"DRUID", "RESTORATION">> \in Users("SP")
      BY <1>0, <2>2, UserOf DEF Tree
    <2> QED
      BY <1>5, <2>1, <2>3 DEF ClassSpecs, ClothClasses, CasterSpeakers
  <1>6. CASE c \in ClothClasses
    <2>1. \A f \in BOOLEAN : ClassSpecs(c, {"caster"}, f, shape) = {c} \X CasterTrees[c]
      BY <1>6 DEF ClassSpecs, ClothClasses, ClothCaster, Specs
    <2>2. CasterTrees[c] \subseteq Tree /\ CasterTrees[c] # {}
      <3>1. /\ CasterTrees["PRIEST"] = {"DISCIPLINE", "HOLY", "SHADOW"}
            /\ CasterTrees["MAGE"] = {"ARCANE", "FIRE", "FROST"}
            /\ CasterTrees["WARLOCK"] = {"AFFLICTION", "DEMONOLOGY", "DESTRUCTION"}
        BY DEF CasterTrees
      <3> QED
        BY <1>6, <3>1 DEF ClothClasses, Tree
    <2>3. \A tree \in Tree : "SP" \in SpecRole(c, tree).attrs
      BY <1>6 DEF ClothClasses, SpecRole, Role, Mage, Ratings
    <2>4. \A s \in {c} \X CasterTrees[c] : s \in Users("SP")
      BY <2>2, <2>3, UserOf
    <2>5. {c} \X CasterTrees[c] # {}
      <3>1. PICK tree \in CasterTrees[c] : TRUE
        BY <2>2
      <3>2. <<c, tree>> \in {c} \X CasterTrees[c]
        OBVIOUS
      <3> QED
        BY <3>2
    <2>6. /\ ClassSpecs(c, {"caster"}, FALSE, shape) = {c} \X CasterTrees[c]
          /\ ClassSpecs(c, {"caster"}, TRUE, shape) = {c} \X CasterTrees[c]
      BY <2>1
    <2>7. {c} \X CasterTrees[c] \subseteq Users("SP")
      BY <2>4
    <2> QED
      BY <2>5, <2>6, <2>7
  <1> QED
    BY <1>1, <1>2, <1>3, <1>4, <1>5, <1>6
    DEF PlayerClass, LeatherClasses, MailClasses, PlateClasses

CasterItem ==
    /\ Evidence(item.stats) = {"caster"}
    /\ item.shape.subclass \notin {"BOW", "CROSSBOW", "GUN", "THROWN", "SIGIL"}

CasterInv == CasterItem => pool \subseteq Users("SP")

LEMMA CasterNext == LabelInv /\ CasterInv /\ [Next]_vars => CasterInv'
  <1> SUFFICES ASSUME LabelInv, CasterInv, [Next]_vars, CasterItem'
               PROVE  pool' \subseteq Users("SP")
    BY DEF CasterInv
  <1>1. CasterItem
    BY ItemStays DEF CasterItem
  <1>2. pool \subseteq Users("SP")
    BY <1>1 DEF CasterInv
  <1>3. CasterSpeakers \in SUBSET PlayerClass
    BY DEF CasterSpeakers, PlayerClass, LeatherClasses, MailClasses, PlateClasses
  <1>4. SomeoneSpeaks(CasterSpeakers)
    <2>1. pc \notin {"THROWN", "SIGIL"}
      BY <1>1 DEF CasterItem, LabelInv, Label
    <2> QED
      BY <2>1 DEF SomeoneSpeaks, CasterSpeakers, ListCase, LeatherClasses, MailClasses,
                  PlateClasses, ClothClasses
  <1>5. /\ \A c \in PlayerClass : Answer(c, FALSE) \subseteq Users("SP")
        /\ \A c \in CasterSpeakers : Answer(c, FALSE) # {}
        /\ \A c \in ClothClasses : Answer(c, TRUE) \subseteq Users("SP")
    BY <1>1, <1>3, CasterAnswers DEF Answer, CasterItem, PlayerClass
  <1> QED
    BY <1>2, <1>3, <1>4, <1>5, OnlyAnswers

\* Whatever case it is asked in, an item with caster stats only is drawn for a
\* spec that uses spell power, unless no class that can use it has one.
THEOREM CasterItemsAreForCasters == Spec => []CasterItemSuitsCaster
  <1>1. Init => CasterInv
    BY DEF Init, CasterInv
  <1>2. LabelInv /\ CasterInv => CasterItemSuitsCaster
    BY DEF LabelInv, CasterInv, CasterItem, CasterItemSuitsCaster, DrawnRole, Users
  <1> QED
    BY <1>1, <1>2, LabelInit, LabelNext, CasterNext, PTL DEF Spec

TankSpeakers == {"WARRIOR", "PALADIN", "DEATH_KNIGHT", "DRUID"}

TankEvidence(ev) == {"tank", "str"} \subseteq ev /\ ev \subseteq {"tank", "str", "melee", "phys"}

LEMMA TankAnswers ==
  ASSUME NEW ev, TankEvidence(ev), NEW shape, ~IsHoldable(shape), NEW c \in PlayerClass
  PROVE  /\ ClassSpecs(c, ev, FALSE, shape) \subseteq Users("Def")
         /\ c \in TankSpeakers => ClassSpecs(c, ev, FALSE, shape) # {}
  <1>0. /\ "tank" \in ev /\ "str" \in ev
        /\ "agi" \notin ev /\ "caster" \notin ev /\ "ranged" \notin ev
    BY DEF TankEvidence
  <1>a. {"WARRIOR", "PALADIN", "HUNTER", "ROGUE", "DEATH_KNIGHT", "SHAMAN", "DRUID"}
            \subseteq PlayerClass
    BY DEF PlayerClass, LeatherClasses, MailClasses, PlateClasses
  <1>1. CASE c = "WARRIOR"
    <2>1. Warrior(ev, FALSE, shape) = {<<"WARRIOR", "PROTECTION">>}
      BY <1>0 DEF Warrior, Specs, Some
    <2>2. "Def" \in SpecRole("WARRIOR", "PROTECTION").attrs
      BY DEF SpecRole, Role, Defensive
    <2>3. <<"WARRIOR", "PROTECTION">> \in Users("Def")
      BY <1>a, <2>2, UserOf DEF Tree
    <2> QED
      BY <1>1, <2>1, <2>3 DEF ClassSpecs, TankSpeakers
  <1>2. CASE c = "PALADIN"
    <2>1. Paladin(ev, FALSE, shape) = {<<"PALADIN", "PROTECTION">>}
      BY <1>0 DEF Paladin, Specs, Some
    <2>2. "Def" \in SpecRole("PALADIN", "PROTECTION").attrs
      BY DEF SpecRole, Role, Defensive
    <2>3. <<"PALADIN", "PROTECTION">> \in Users("Def")
      BY <1>a, <2>2, UserOf DEF Tree
    <2> QED
      BY <1>2, <2>1, <2>3 DEF ClassSpecs, TankSpeakers
  <1>3. CASE c = "DEATH_KNIGHT"
    <2>1. DeathKnight(ev, FALSE) = {<<"DEATH_KNIGHT", "BLOOD">>}
      BY <1>0 DEF DeathKnight, Specs, Some
    <2>2. "Def" \in SpecRole("DEATH_KNIGHT", "BLOOD").attrs
      BY DEF SpecRole, Role, Defensive
    <2>3. <<"DEATH_KNIGHT", "BLOOD">> \in Users("Def")
      BY <1>a, <2>2, UserOf DEF Tree
    <2> QED
      BY <1>3, <2>1, <2>3 DEF ClassSpecs, TankSpeakers
  <1>4. CASE c = "DRUID"
    <2>1. Druid(ev, FALSE, shape) = {<<"DRUID", "FERAL_COMBAT">>}
      BY <1>0 DEF Druid, Specs, Some
    <2>2. "Def" \in SpecRole("DRUID", "FERAL_COMBAT").attrs
      BY DEF SpecRole, Role
    <2>3. <<"DRUID", "FERAL_COMBAT">> \in Users("Def")
      BY <1>a, <2>2, UserOf DEF Tree
    <2> QED
      BY <1>4, <2>1, <2>3 DEF ClassSpecs, TankSpeakers
  <1>5. CASE c \in {"HUNTER", "ROGUE", "SHAMAN"}
    <2>1. /\ Hunter(ev, FALSE) = {}
          /\ Rogue(ev, FALSE) = {}
          /\ Shaman(ev, FALSE, shape) = {}
      BY <1>0 DEF Hunter, Rogue, Shaman, Specs, Some
    <2> QED
      BY <1>5, <2>1 DEF ClassSpecs, TankSpeakers
  <1>6. CASE c \in ClothClasses
    BY <1>0, <1>6 DEF ClassSpecs, ClothClasses, ClothCaster, Specs, TankSpeakers
  <1> QED
    BY <1>1, <1>2, <1>3, <1>4, <1>5, <1>6
    DEF PlayerClass, LeatherClasses, MailClasses, PlateClasses

TankItem ==
    /\ TankEvidence(Evidence(item.stats))
    /\ ~ForcesCasters
    /\ item.shape.subclass # "TOTEM"
    /\ ~(item.shape.subclass = "MAIL" /\ item.level > 40)

TankInv == TankItem => pool \subseteq Users("Def")

LEMMA TankNext == LabelInv /\ TankInv /\ [Next]_vars => TankInv'
  <1> SUFFICES ASSUME LabelInv, TankInv, [Next]_vars, TankItem'
               PROVE  pool' \subseteq Users("Def")
    BY DEF TankInv
  <1>1. TankItem
    BY ItemStays DEF TankItem, ForcesCasters
  <1>2. pool \subseteq Users("Def")
    BY <1>1 DEF TankInv
  <1>3. TankSpeakers \in SUBSET PlayerClass
    BY DEF TankSpeakers, PlayerClass, LeatherClasses, MailClasses, PlateClasses
  <1>4. SomeoneSpeaks(TankSpeakers)
    <2>1. pc # "TOTEM" /\ ~(IsMail /\ item.level > 40)
      BY <1>1 DEF TankItem, IsMail, LabelInv, Label
    <2> QED
      BY <2>1 DEF SomeoneSpeaks, TankSpeakers, ListCase, LeatherClasses, MailClasses, PlateClasses
  <1>5. /\ \A c \in PlayerClass : Answer(c, FALSE) \subseteq Users("Def")
        /\ \A c \in TankSpeakers : Answer(c, FALSE) # {}
    <2>1. TankEvidence(Evidence(item.stats)) /\ ~IsHoldable(item.shape)
      BY <1>1 DEF TankItem, ForcesCasters
    <2> QED
      BY <1>3, <2>1, TankAnswers DEF Answer
  <1>6. ~ForcesCasters
    BY <1>1 DEF TankItem
  <1> QED
    BY <1>2, <1>3, <1>4, <1>5, <1>6, OnlyAnswers

\* Whatever case it is asked in, a strength item with defensive stats is drawn
\* for a tank, unless no class that is asked tanks.
THEOREM TankItemsAreForTanks == Spec => []TankItemSuitsTank
  <1>1. Init => TankInv
    BY DEF Init, TankInv
  <1>2. LabelInv /\ TankInv => TankItemSuitsTank
    BY DEF LabelInv, TankInv, TankItem, TankEvidence, TankItemSuitsTank, DrawnRole, Users
  <1> QED
    BY <1>1, <1>2, LabelInit, LabelNext, TankNext, PTL DEF Spec
=============================================================================
