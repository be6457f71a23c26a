------------------------ MODULE AddItemCommand_proofs ------------------------
(***************************************************************************)
(* Proofs about the command additemwsuffix, for any players, items,        *)
(* numbers and counts.                                                     *)
(***************************************************************************)
EXTENDS AddItemCommand, FiniteSetTheorems, TLAPS

LEMMA CommandTypeInit == Init => TypeOK
  BY CommandAssumption DEF Init, TypeOK, Idle, Held

LEMMA WithType ==
  ASSUME NEW T, NEW f \in [Item -> T], NEW s, NEW v \in T
  PROVE  With(f, s, v) \in [Item -> T]
  BY DEF With

LEMMA RollsType ==
  ASSUME TypeOK, NEW i \in Item, Rolls(i)
  PROVE  /\ property' \in [Item -> Int]
         /\ \A j \in Item \ {i} : property'[j] = property[j]
  BY CommandAssumption DEF Rolls, TypeOK

LEMMA CommandTypeNext == TypeOK /\ [Next]_vars => TypeOK'
  <1> SUFFICES ASSUME TypeOK, [Next]_vars PROVE TypeOK'
    OBVIOUS
  <1>1. ASSUME NEW p \in Player, NEW i \in Item, Receive(p, i) PROVE TypeOK'
    BY <1>1, CommandAssumption DEF Receive, TypeOK, Idle, Held
  <1>2. ASSUME NEW i \in Item, Hook(i) PROVE TypeOK'
    <2>1. /\ property' \in [Item -> Int]
          /\ \A j \in Item \ {i} : property'[j] = property[j]
      BY <1>2, RollsType DEF Hook
    <2> QED
      BY <1>2, <2>1 DEF Hook, TypeOK, Held
  <1>3. CASE Ask
    <2>1. PICK p \in Player, n \in Count, s \in Number :
            cmd' = [at |-> IF n < 0 THEN "subtract" ELSE "add", target |-> p,
                    count |-> IF n = 0 THEN 1 ELSE n, suffID |-> s, item |-> NoItem]
      BY <1>3 DEF Ask
    <2>2. n \in Int /\ s \in Int
      BY CommandAssumption
    <2>3. report' = 0 /\ UNCHANGED <<owner, property, bound, asked>>
      BY <1>3 DEF Ask
    <2> QED
      BY <2>1, <2>2, <2>3 DEF TypeOK, Held
  <1>4. CASE SubtractRefused
    BY <1>4, CommandAssumption DEF SubtractRefused, TypeOK, Idle, Held
  <1>5. CASE Subtract
    <2>1. PICK gone \in SUBSET Held(cmd.target) :
            /\ owner' = With(owner, gone, Nobody)
            /\ property' = With(property, gone, 0)
            /\ bound' = With(bound, gone, FALSE)
            /\ asked' = With(asked, gone, 0)
      BY <1>5 DEF Subtract
    <2>2. /\ owner' \in [Item -> Player \cup {Nobody}]
          /\ \A i \in Item : owner'[i] = Nobody => i \in gone \/ owner[i] = Nobody
      BY <2>1 DEF TypeOK, With
    <2>3. /\ property' \in [Item -> Int] /\ asked' \in [Item -> Int]
          /\ bound' \in [Item -> BOOLEAN]
      <3>1. /\ property \in [Item -> Int] /\ asked \in [Item -> Int]
            /\ bound \in [Item -> BOOLEAN] /\ 0 \in Int /\ FALSE \in BOOLEAN
        BY DEF TypeOK
      <3> QED
        BY <2>1, <3>1, WithType
    <2>4. \A i \in Held(Nobody)' : property'[i] = 0 /\ asked'[i] = 0
      <3>1. \A i \in Item : /\ property'[i] = IF i \in gone THEN 0 ELSE property[i]
                            /\ asked'[i] = IF i \in gone THEN 0 ELSE asked[i]
        BY <2>1 DEF With
      <3> QED
        BY <2>2, <3>1 DEF TypeOK, Held
    <2>5. report' \in Nat /\ cmd' = Idle
      <3>1. report' = -cmd.count /\ cmd' = Idle /\ cmd.at = "subtract"
        BY <1>5 DEF Subtract
      <3>2. cmd.count \in Int /\ cmd.count < 0
        BY <3>1 DEF TypeOK
      <3> QED
        BY <3>1, <3>2
    <2>6. /\ cmd' \in [at : {"idle", "subtract", "add", "set"}, target : Player, count : Int,
                      suffID : Int, item : Item \cup {NoItem}]
          /\ cmd'.at = "idle"
      BY <2>5, CommandAssumption DEF Idle
    <2> QED
      BY <2>2, <2>3, <2>4, <2>5, <2>6 DEF TypeOK
  <1>6. CASE AddRefused
    BY <1>6, CommandAssumption DEF AddRefused, TypeOK, Idle, Held
  <1>7. CASE Store
    <2>0. PICK new \in SUBSET Held(Nobody) \ {{}} :
            /\ owner' = With(owner, new, cmd.target)
            /\ bound' = With(bound, new, cmd.target # GameMaster)
            /\ \E last \in new :
                  cmd' = [cmd EXCEPT !.at = "set", !.item = last] /\ Rolls(last)
      BY <1>7 DEF Store
    <2>1. PICK last \in new :
            cmd' = [cmd EXCEPT !.at = "set", !.item = last] /\ Rolls(last)
      BY <2>0
    <2>2. last \in Item /\ new \subseteq Item
      BY <2>1 DEF Held
    <2>3. /\ property' \in [Item -> Int]
          /\ \A j \in Item \ {last} : property'[j] = property[j]
      BY <2>1, <2>2, RollsType
    <2>4. cmd.at = "add" /\ UNCHANGED <<report, asked>>
      BY <1>7 DEF Store
    <2>5. /\ owner' \in [Item -> Player \cup {Nobody}]
          /\ \A i \in Item : owner'[i] = Nobody => owner[i] = Nobody /\ i # last
          /\ owner'[last] = cmd.target /\ cmd.target \in Player
      BY <2>0, <2>2, CommandAssumption DEF TypeOK, With
    <2>6. bound' \in [Item -> BOOLEAN]
      BY <2>0, <2>2 DEF TypeOK, With
    <2> QED
      BY <2>1, <2>2, <2>3, <2>4, <2>5, <2>6 DEF TypeOK, Held
  <1>8. CASE SetItemRandomProperties
    <2>1. cmd.item \in Item /\ owner[cmd.item] = cmd.target /\ cmd.target # Nobody
      BY <1>8, CommandAssumption DEF SetItemRandomProperties, TypeOK, Held
    <2> QED
      BY <1>8, <2>1, CommandAssumption
      DEF SetItemRandomProperties, RandomProperties, TypeOK, Idle, Held
  <1>9. CASE UNCHANGED vars
    BY <1>9 DEF vars, TypeOK, Held
  <1> QED
    BY <1>1, <1>2, <1>3, <1>4, <1>5, <1>6, <1>7, <1>8, <1>9 DEF Next

\* The variables of the command have their types in every reachable state; in
\* particular the item that SetItemRandomProperties is called for is one that
\* the target holds.
THEOREM CommandTypeCorrect == Spec => []TypeOK
  BY CommandTypeInit, CommandTypeNext, PTL DEF Spec

LEMMA AskedNext == TypeOK /\ AskedIsWorn /\ [Next]_vars => AskedIsWorn'
  <1> SUFFICES ASSUME TypeOK, AskedIsWorn, [Next]_vars PROVE AskedIsWorn'
    OBVIOUS
  <1>1. ASSUME NEW p \in Player, NEW i \in Item, Receive(p, i) PROVE AskedIsWorn'
    BY <1>1 DEF Receive, AskedIsWorn, TypeOK
  <1>2. ASSUME NEW i \in Item, Hook(i) PROVE AskedIsWorn'
    <2>1. asked[i] = 0
      BY <1>2 DEF Hook, MayStart, AskedIsWorn
    <2>2. \A j \in Item \ {i} : property'[j] = property[j]
      BY <1>2, RollsType DEF Hook
    <2> QED
      BY <1>2, <2>1, <2>2 DEF Hook, AskedIsWorn
  <1>3. CASE Subtract
    BY <1>3 DEF Subtract, AskedIsWorn, With
  <1>4. CASE Store
    <2>1. PICK last \in Held(Nobody) : Rolls(last)
      BY <1>4 DEF Store
    <2>2. last \in Item
      BY <2>1 DEF Held
    <2>3. asked[last] = 0
      BY <2>1 DEF TypeOK
    <2>4. \A j \in Item \ {last} : property'[j] = property[j]
      BY <2>1, <2>2, RollsType
    <2>5. asked' = asked
      BY <1>4 DEF Store
    <2> QED
      BY <2>3, <2>4, <2>5 DEF AskedIsWorn
  <1>5. CASE SetItemRandomProperties
    BY <1>5 DEF SetItemRandomProperties, RandomProperties, AskedIsWorn, TypeOK
  <1>6. CASE UNCHANGED <<property, asked>>
    BY <1>6 DEF AskedIsWorn
  <1> QED
    BY <1>1, <1>2, <1>3, <1>4, <1>5, <1>6 DEF Next, vars, Ask, SubtractRefused, AddRefused

\* The number a game master has asked for stays on the item, over the hook that
\* the command itself sets off and all hooks after it.
THEOREM AskedStays == Spec => []AskedIsWorn
  <1>1. Init => AskedIsWorn
    BY DEF Init, AskedIsWorn
  <1> QED
    BY <1>1, AskedNext, CommandTypeCorrect, PTL DEF Spec

\* A step takes from a player account all the items it was asked to, or none.
LEMMA SubtractsAll ==
  ASSUME TypeOK, [Next]_vars, NEW p \in PlayerAccount, Held(p) \ Held(p)' # {}
  PROVE  Cardinality(Held(p) \ Held(p)') = -cmd.count
  <1>0. p \in Player /\ p # Nobody
    BY CommandAssumption
  <1>1. CASE Subtract
    <2>1. PICK gone \in SUBSET Held(cmd.target) :
            /\ \/ Cardinality(gone) = -cmd.count
               \/ gone = Held(cmd.target) /\ Cardinality(gone) < -cmd.count
            /\ owner' = With(owner, gone, Nobody)
      BY <1>1 DEF Subtract
    <2>2. /\ \A i \in Item : owner'[i] = IF i \in gone THEN Nobody ELSE owner[i]
          /\ \A i \in gone : i \in Item /\ owner[i] = cmd.target
      BY <2>1 DEF With, Held
    <2>3. p = cmd.target /\ Held(p) \ Held(p)' = gone
      BY <1>0, <2>2 DEF Held
    <2>4. Cardinality(Held(p)) >= -cmd.count
      BY <1>1, <2>3 DEF Subtract, HasItemCount
    <2>5. IsFiniteSet(Held(p))
      BY CommandAssumption, FS_Subset DEF Held
    <2>6. Cardinality(Held(p)) \in Nat /\ cmd.count \in Int
      BY <2>5, FS_CardinalityType DEF TypeOK
    <2> QED
      BY <2>1, <2>3, <2>4, <2>6
  <1>2. CASE UNCHANGED owner
    BY <1>2 DEF Held
  <1>3. ASSUME NEW q \in Player, NEW i \in Item, Receive(q, i) PROVE Held(p) \subseteq Held(p)'
    BY <1>0, <1>3 DEF Receive, Held, TypeOK
  <1>4. CASE Store
    BY <1>0, <1>4 DEF Store, Held, With
  <1> QED
    BY <1>1, <1>2, <1>3, <1>4
    DEF Next, vars, Hook, Ask, SubtractRefused, AddRefused, SetItemRandomProperties

\* However many items a game master wants to take away and however the core
\* chooses among those a player account holds, the account loses exactly that
\* many or keeps all of them.
THEOREM TakesAllOrNothing == Spec => AllOrNothing
  <1>1. TypeOK /\ [Next]_vars =>
          [\A p \in PlayerAccount :
              LET lost == Held(p) \ Held(p)' IN
              lost # {} => Cardinality(lost) = -cmd.count]_vars
    BY SubtractsAll
  <1> QED
    BY <1>1, CommandTypeCorrect, PTL DEF Spec, AllOrNothing
=============================================================================
