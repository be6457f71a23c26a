------------------- MODULE WorldServer_refinement_proofs -------------------
(***************************************************************************)
(* Proof that the world server implements SuffixContract, unless somebody  *)
(* runs a script by hand or puts an older one back: its tables, queries,   *)
(* threads and crashes show no more than a contract that assigns, saves    *)
(* and loses properties.                                                   *)
(***************************************************************************)
EXTENDS WorldServer_boot_proofs

\* A roll in flight looks for a tier and a role its item can have, and what it
\* has found is a row of the recorded script that matches them.
RollSuits(r) ==
    /\ r.tier \in Tier
    /\ r.role \in RolesOf(r.item)
    /\ r.at \in {"check", "apply"} =>
          /\ r.found \in Ids(recorded)
          /\ RowMatches(Suffix(recorded, r.found), Template[r.item], r.tier, r.role)

RollsSuit == \A p \in Player : InFlight(p) => RollSuits(roll[p])

Inv == TypeOK /\ RollInv /\ BootInv /\ RollsSuit

LEMMA RolesForItem ==
    ASSUME NEW p \in Player, NEW i \in Item
    PROVE  RolesFor(p, i) \subseteq RolesOf(i)
  BY DEF RolesFor, RolesOf

\* What a query can find while the server is up comes from the recorded script.
LEMMA CandidatesSuit ==
    ASSUME TypeOK, BootInv, Up, NEW r, NEW id \in Candidates(r)
    PROVE  /\ id \in Ids(recorded)
           /\ RowMatches(Suffix(recorded, id), Template[r.item], r.tier, r.role)
  <1>1. Installed(recorded)
    BY DEF BootInv, UpIsInstalled, Up
  <1>2. /\ id \in SuffixId /\ rolls[id] # NoRow
        /\ RowMatches(Suffix(rolls[id], id), Template[r.item], r.tier, r.role)
    BY DEF Candidates
  <1>3. id \in Ids(recorded) /\ rolls[id] = recorded
    BY <1>1, <1>2 DEF Installed
  <1> QED
    BY <1>2, <1>3

\* A step that replaces at most the roll of p by one that suits or is over.
LEMMA SuitStage ==
    ASSUME TypeOK, RollsSuit, NEW p \in Player, NEW r,
           roll' = [roll EXCEPT ![p] = r], recorded' = recorded,
           r.at = "idle" \/ RollSuits(r)
    PROVE  RollsSuit'
  <1>1. roll'[p] = r /\ \A q \in Player : q # p => roll'[q] = roll[q]
    BY DEF TypeOK
  <1>2. \A q \in Player : q # p /\ InFlight(q)' => RollSuits(roll[q])
    BY <1>1 DEF RollsSuit, InFlight
  <1> QED
    BY <1>1, <1>2 DEF RollsSuit, RollSuits, InFlight, RolesOf

\* The next turn of the loop looks for the same.
LEMMA NextTrySuits ==
    ASSUME NEW r \in RollRecord, RollSuits(r)
    PROVE  NextTry(r).at = "idle" \/ RollSuits(NextTry(r))
  <1>1. CASE r.tries > 1
    <2>1. /\ NextTry(r).at = "query"
          /\ NextTry(r).item = r.item /\ NextTry(r).tier = r.tier
          /\ NextTry(r).role = r.role
      BY <1>1 DEF NextTry, RollRecord
    <2> QED
      BY <2>1 DEF RollSuits
  <1>2. CASE ~(r.tries > 1)
    BY <1>2 DEF NextTry, Idle
  <1> QED
    BY <1>1, <1>2

LEMMA SuitInit == Init => RollsSuit
  BY DEF Init, RollsSuit, InFlight, Idle

LEMMA SuitNext ==
    ASSUME Inv, ~LiveImport, [Next]_vars
    PROVE  RollsSuit'
  <1> USE DEF Inv
  <1>1. ASSUME NEW p \in Player, NEW i \in Item, NEW h \in Hook, StartRoll(p, i, h)
        PROVE  RollsSuit'
    <2>1. PICK tier \in RolledEnchantLevels(config.pcts) \ {-1}, role \in RolesFor(p, i) :
            roll' = [roll EXCEPT ![p] =
                       [at |-> "query", item |-> i, tier |-> tier, role |-> role,
                        tries |-> MaxTries, found |-> 0]]
      BY <1>1 DEF StartRoll
    <2>2. tier \in Tier /\ role \in RolesOf(i)
      BY TierType, RolesForItem
    <2> DEFINE r == [at |-> "query", item |-> i, tier |-> tier, role |-> role,
                     tries |-> MaxTries, found |-> 0]
    <2>3. RollSuits(r)
      BY <2>2 DEF RollSuits
    <2>4. recorded' = recorded /\ roll' = [roll EXCEPT ![p] = r]
      BY <1>1, <2>1 DEF StartRoll
    <2> HIDE DEF r
    <2> QED
      BY <2>3, <2>4, SuitStage
  <1>2. ASSUME NEW p \in Player, Query(p) PROVE RollsSuit'
    <2>1. /\ InFlight(p) /\ Up
          /\ recorded' = recorded
          /\ roll[p] \in RollRecord
          /\ RollSuits(roll[p])
      BY <1>2 DEF Query, InFlight, RollInv, RollsSuit, TypeOK
    <2>2. CASE roll' = [roll EXCEPT ![p] = NextTry(roll[p])]
      BY <2>1, <2>2, NextTrySuits, SuitStage
    <2>3. ASSUME NEW id \in Candidates(roll[p]),
                 roll' = [roll EXCEPT ![p] = [roll[p] EXCEPT !.at = "check", !.found = id]]
          PROVE  RollsSuit'
      <3> DEFINE r == [roll[p] EXCEPT !.at = "check", !.found = id]
      <3>1. /\ r.item = roll[p].item /\ r.tier = roll[p].tier
            /\ r.role = roll[p].role /\ r.found = id
        BY <2>1 DEF RollRecord
      <3>2. /\ id \in Ids(recorded)
            /\ RowMatches(Suffix(recorded, id), Template[roll[p].item], roll[p].tier, roll[p].role)
        BY <2>1, CandidatesSuit
      <3>3. RollSuits(r)
        BY <2>1, <3>1, <3>2 DEF RollSuits
      <3>4. roll' = [roll EXCEPT ![p] = r]
        BY <2>3
      <3> HIDE DEF r
      <3> QED
        BY <2>1, <3>3, <3>4, SuitStage
    <2> QED
      BY <1>2, <2>2, <2>3 DEF Query
  <1>3. ASSUME NEW p \in Player, Check(p) PROVE RollsSuit'
    <2>1. /\ recorded' = recorded
          /\ roll[p] \in RollRecord
          /\ RollSuits(roll[p])
          /\ roll[p].at = "check"
      BY <1>3 DEF Check, InFlight, RollsSuit, TypeOK
    <2>2. CASE roll' = [roll EXCEPT ![p] = NextTry(roll[p])]
      BY <2>1, <2>2, NextTrySuits, SuitStage
    <2>3. CASE roll' = [roll EXCEPT ![p] = [roll[p] EXCEPT !.at = "apply"]]
      <3> DEFINE r == [roll[p] EXCEPT !.at = "apply"]
      <3>1. /\ r.item = roll[p].item /\ r.tier = roll[p].tier
            /\ r.role = roll[p].role /\ r.found = roll[p].found
        BY <2>1 DEF RollRecord
      <3>2. RollSuits(r)
        BY <2>1, <3>1 DEF RollSuits
      <3>3. roll' = [roll EXCEPT ![p] = r]
        BY <2>3
      <3> HIDE DEF r
      <3> QED
        BY <2>1, <3>2, <3>3, SuitStage
    <2> QED
      BY <1>3, <2>2, <2>3 DEF Check
  <1>4. ASSUME NEW p \in Player, Apply(p) PROVE RollsSuit'
    <2>1. recorded' = recorded /\ roll' = [roll EXCEPT ![p] = Idle] /\ Idle.at = "idle"
      BY <1>4 DEF Apply, Idle
    <2> QED
      BY <2>1, SuitStage
  <1>5. CASE Crash
    BY <1>5 DEF Crash, RollsSuit, InFlight, Idle
  <1>6. ASSUME NEW a \in Runner, FinishScript(a) PROVE RollsSuit'
    <2>1. phase = "import"
      BY <1>6, ImportEnds DEF BootInv
    <2>2. \A p \in Player : ~InFlight(p)
      BY <2>1 DEF RollInv, Up
    <2>3. roll' = roll
      BY <1>6 DEF FinishScript
    <2> QED
      BY <2>2, <2>3 DEF RollsSuit, InFlight
  <1>7. CASE UNCHANGED <<roll, recorded>>
    BY <1>7 DEF RollsSuit, RollSuits, InFlight, RolesOf
  <1> QED
    BY <1>1, <1>2, <1>3, <1>4, <1>5, <1>6, <1>7
    DEF Next, vars, Boot, RunStatement, StatementRefused, LoadStores, ReplaceScript,
        StartLiveImport, OnBeforeConfigLoad, SaveItem

\* What a roll is about to apply is one of the suffixes the contract allows.
LEMMA AppliedSuits ==
    ASSUME Inv, NEW p \in Player, roll[p].at = "apply"
    PROVE  /\ recorded \in Generation
           /\ roll[p].found \in SuitableIds(recorded, roll[p].item)
  <1> DEFINE r == roll[p]
  <1>1. /\ InFlight(p) /\ Up /\ RollSuits(r) /\ r.item \in Item
    BY DEF Inv, InFlight, RollInv, RollsSuit
  <1>2. recorded \in Generation /\ Installed(recorded) /\ store = dbc
    BY <1>1 DEF Inv, BootInv, UpIsInstalled, Up
  <1>3. /\ r.found \in Ids(recorded)
        /\ RowMatches(Suffix(recorded, r.found), Template[r.item], r.tier, r.role)
    BY <1>1 DEF RollSuits
  <1>4. store[r.found] = recorded
    BY <1>2, <1>3 DEF Installed
  <1>5. HasPoints(Suffix(recorded, r.found), Template[r.item])
    BY <1>4 DEF Inv, RollInv, AppliedIsKnown
  <1>6. \E tier \in Tier, role \in RolesOf(r.item) :
           RowMatches(Suffix(recorded, r.found), Template[r.item], tier, role)
    BY <1>1, <1>3 DEF RollSuits
  <1> QED
    BY <1>2, <1>3, <1>5, <1>6 DEF SuitableIds

LEMMA ContractStep ==
    ASSUME Inv, ~LiveImport, [Next]_vars
    PROVE  [Contract!Next]_<<recorded, property, saved>>
  <1>1. ASSUME NEW p \in Player, Apply(p)
        PROVE  [Contract!Next]_<<recorded, property, saved>>
    <2> DEFINE r == roll[p]
    <2>1. UNCHANGED <<recorded, saved>>
      BY <1>1 DEF Apply
    <2>2. CASE ~LookupEntry(r.found)
      BY <1>1, <2>1, <2>2 DEF Apply
    <2>3. CASE LookupEntry(r.found)
      <3>1. property' = [property EXCEPT ![r.item] = -r.found]
        BY <1>1, <2>3 DEF Apply
      <3>2. recorded \in Generation /\ r.found \in SuitableIds(recorded, r.item)
        BY <1>1, AppliedSuits DEF Apply
      <3>3. property[r.item] = 0 /\ r.item \in Item
        BY <1>1 DEF Apply, Inv, RollInv, InFlightIsBare, InFlight
      <3>4. Contract!Assign(r.item)
        BY <2>1, <3>1, <3>2, <3>3 DEF Contract!Assign
      <3> QED
        BY <3>3, <3>4 DEF Contract!Next
    <2> QED
      BY <2>2, <2>3
  <1>2. ASSUME NEW i \in Item, SaveItem(i)
        PROVE  [Contract!Next]_<<recorded, property, saved>>
    BY <1>2 DEF SaveItem, Contract!Next, Contract!Save
  <1>3. CASE Crash
    BY <1>3 DEF Crash, Contract!Next, Contract!Lose
  <1>4. ASSUME NEW a \in Runner, FinishScript(a)
        PROVE  [Contract!Next]_<<recorded, property, saved>>
    <2>1. recorded' \in Generation
      BY <1>4, ImportEnds DEF Inv, BootInv
    <2>2. UNCHANGED <<property, saved>>
      BY <1>4 DEF FinishScript
    <2> QED
      BY <2>1, <2>2 DEF Contract!Next, Contract!ChangeCatalog
  <1>5. CASE UNCHANGED <<recorded, property, saved>>
    BY <1>5
  <1> QED
    BY <1>1, <1>2, <1>3, <1>4, <1>5
    DEF Next, vars, Boot, RunStatement, StatementRefused, LoadStores, ReplaceScript,
        StartLiveImport, OnBeforeConfigLoad, StartRoll, Query, Check

\* The server implements the contract: an item receives a suffix only if it
\* has no random property, and then one of the recorded script that suits it;
\* nothing else happens to it but what saves and crashes do.
THEOREM ServerImplementsContract ==
    ~LiveImport /\ ~MayRevert /\ Spec => ImplementsContract
  <1>1. Init => Inv /\ Contract!Init
    <2>1. Init => Inv
      BY InitType, RollInit, BootInit, SuitInit DEF Inv
    <2>2. Init => Contract!Init
      BY DEF Init, Contract!Init
    <2> QED
      BY <2>1, <2>2
  <1>2. CASE LiveImport \/ MayRevert
    BY <1>2
  <1>3. CASE ~LiveImport /\ ~MayRevert
    <2>1. Inv /\ [Next]_vars => Inv'
      BY <1>3, NextType, RollNext, BootNext, SuitNext DEF Inv
    <2>2. Inv /\ [Next]_vars => [Contract!Next]_<<recorded, property, saved>>
      BY <1>3, ContractStep
    <2> QED
      BY <1>1, <2>1, <2>2, PTL DEF Spec, ImplementsContract, Contract!Spec
  <1> QED
    BY <1>2, <1>3
=============================================================================
