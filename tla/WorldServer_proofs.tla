------------------------ MODULE WorldServer_proofs ------------------------
(***************************************************************************)
(* Proofs about the world server, for any number of players, items,        *)
(* suffixes, scripts, tries and crashes.                                   *)
(***************************************************************************)
EXTENDS WorldServer, TLAPS

LEMMA WithRowsType ==
    ASSUME NEW t \in [SuffixId -> Origin], NEW ids, NEW o \in Origin
    PROVE  WithRows(t, ids, o) \in [SuffixId -> Origin]
  BY DEF WithRows

LEMMA OriginType ==
    /\ NoRow \in Origin
    /\ Foreign \in Origin
    /\ \A g \in Generation : g \in Origin
    /\ NoRows \in [SuffixId -> Origin]
  BY DEF Origin, NoRows

\* A statement, whole or torn, leaves well-typed tables.
LEMMA ExecType ==
    ASSUME TablesTypeOK, NEW n \in Statement, NEW g \in Generation,
           Exec(n, g) \/ TornInsertRolls(g)
    PROVE  TablesTypeOK'
  <1>1. CASE ExecDeleteEnchants(g)
    BY <1>1 DEF ExecDeleteEnchants, TablesTypeOK
  <1>2. CASE ExecInsertEnchants(g)
    BY <1>2 DEF ExecInsertEnchants, TablesTypeOK
  <1>3. CASE ExecDeleteSuffixes(g)
    BY <1>3, WithRowsType, OriginType DEF ExecDeleteSuffixes, TablesTypeOK
  <1>4. CASE ExecInsertSuffixes(g)
    BY <1>4, WithRowsType, OriginType DEF ExecInsertSuffixes, TablesTypeOK
  <1>5. CASE ExecDropRolls(g)
    BY <1>5, OriginType DEF ExecDropRolls, TablesTypeOK
  <1>6. CASE ExecCreateRolls(g)
    BY <1>6, OriginType DEF ExecCreateRolls, TablesTypeOK
  <1>7. CASE ExecInsertRolls(g)
    BY <1>7, WithRowsType, OriginType DEF ExecInsertRolls, TablesTypeOK
  <1>8. CASE TornInsertRolls(g)
    BY <1>8, WithRowsType, OriginType DEF TornInsertRolls, TablesTypeOK
  <1> QED
    BY <1>1, <1>2, <1>3, <1>4, <1>5, <1>6, <1>7, <1>8 DEF Exec

LEMMA IdleType == Idle \in RollRecord
  BY ServerAssumption DEF Idle, RollRecord, Tier, MAX_RAND_ENCHANT_TIERS

LEMMA NextTryType ==
    ASSUME NEW r \in RollRecord
    PROVE  NextTry(r) \in RollRecord
  <1>1. CASE r.tries > 1
    <2>1. r.tries - 1 \in 0 .. MaxTries
      BY <1>1, ServerAssumption DEF RollRecord
    <2> QED
      BY <1>1, <2>1 DEF NextTry, RollRecord
  <1>2. CASE ~(r.tries > 1)
    BY <1>2, IdleType DEF NextTry
  <1> QED
    BY <1>1, <1>2

LEMMA RolesForType ==
    ASSUME NEW p \in Player, NEW i \in Item
    PROVE  RolesFor(p, i) \subseteq Roles
  BY DEF RolesFor, Roles

LEMMA TierType ==
    ASSUME NEW pcts, NEW tier \in RolledEnchantLevels(pcts) \ {-1}
    PROVE  tier \in Tier
  BY DEF RolledEnchantLevels

LEMMA InitType == Init => TypeOK
  <1> SUFFICES ASSUME Init PROVE TypeOK
    OBVIOUS
  <1>1. TablesTypeOK
    BY OriginType DEF Init, TablesInit, TablesTypeOK
  <1>2. job \in [Runner -> [gen : Generation \cup {NoScript},
                            next : NoStatement .. EndOfScript]]
    BY DEF Init, NoJob, NoStatement, EndOfScript, InsertRolls
  <1>3. \A a \in Runner : job[a].next # NoStatement => job[a].gen \in Generation
    BY DEF Init, NoJob
  <1>4. roll \in [Player -> RollRecord]
    BY IdleType DEF Init
  <1> QED
    BY <1>1, <1>2, <1>3, <1>4, OriginType, ServerAssumption
    DEF Init, TypeOK, Phase

LEMMA JobType ==
    ASSUME TypeOK, NEW a \in Runner, NEW j,
           j = NoJob \/ (/\ j \in [gen : Generation \cup {NoScript},
                                  next : NoStatement .. EndOfScript]
                        /\ j.gen \in Generation),
           job' = [job EXCEPT ![a] = j]
    PROVE  /\ job' \in [Runner -> [gen : Generation \cup {NoScript},
                                   next : NoStatement .. EndOfScript]]
           /\ \A b \in Runner : job'[b].next # NoStatement => job'[b].gen \in Generation
  <1>1. j \in [gen : Generation \cup {NoScript}, next : NoStatement .. EndOfScript]
    BY DEF NoJob, NoStatement, EndOfScript, InsertRolls
  <1>2. j.next # NoStatement => j.gen \in Generation
    BY DEF NoJob
  <1> QED
    BY <1>1, <1>2 DEF TypeOK

\* What a step of a roll leaves typed, the rest being unchanged.
LEMMA RollStepType ==
    ASSUME TypeOK, NEW p \in Player, NEW r \in RollRecord,
           roll' = [roll EXCEPT ![p] = r], property' \in [Item -> Int],
           UNCHANGED <<tables, phase, script, recorded, job, store, config,
                       saved, crashes>>
    PROVE  TypeOK'
  BY DEF TypeOK, TablesTypeOK, tables

LEMMA NextType == TypeOK /\ [Next]_vars => TypeOK'
  <1> SUFFICES ASSUME TypeOK, [Next]_vars PROVE TypeOK'
    OBVIOUS
  <1>1. CASE Boot
    <2>1. CASE recorded = script
      BY <1>1, <2>1 DEF Boot, TypeOK, TablesTypeOK, tables, Phase
    <2>2. CASE recorded # script
      <3> DEFINE j == [gen |-> script, next |-> DeleteEnchants]
      <3>1. j \in [gen : Generation \cup {NoScript}, next : NoStatement .. EndOfScript]
        BY DEF TypeOK, DeleteEnchants, NoStatement, EndOfScript, InsertRolls
      <3>2. j.gen \in Generation /\ "importer" \in Runner
        BY DEF TypeOK, Runner
      <3>3. job' = [job EXCEPT !["importer"] = j]
        BY <1>1, <2>2 DEF Boot
      <3> HIDE DEF j
      <3>4. /\ job' \in [Runner -> [gen : Generation \cup {NoScript},
                                   next : NoStatement .. EndOfScript]]
            /\ \A b \in Runner : job'[b].next # NoStatement => job'[b].gen \in Generation
        BY <3>1, <3>2, <3>3, JobType
      <3> QED
        BY <1>1, <2>2, <3>4 DEF Boot, TypeOK, TablesTypeOK, tables, Phase
    <2> QED
      BY <2>1, <2>2
  <1>2. ASSUME NEW a \in Runner, RunStatement(a) PROVE TypeOK'
    <2>1. job[a].gen \in Generation /\ job[a].next \in Statement
      BY <1>2 DEF RunStatement, TypeOK, Statement, NoStatement, DeleteEnchants,
                  InsertRolls
    <2>2. TablesTypeOK'
      BY <1>2, <2>1, ExecType DEF RunStatement, TypeOK
    <2> DEFINE j == [job[a] EXCEPT !.next = @ + 1]
    <2>3. /\ j \in [gen : Generation \cup {NoScript}, next : NoStatement .. EndOfScript]
          /\ j.gen \in Generation
      BY <2>1 DEF TypeOK, Statement, NoStatement, DeleteEnchants, EndOfScript, InsertRolls
    <2>4. job' = [job EXCEPT ![a] = j]
      BY <1>2 DEF RunStatement, TypeOK
    <2> HIDE DEF j
    <2>5. /\ job' \in [Runner -> [gen : Generation \cup {NoScript},
                                 next : NoStatement .. EndOfScript]]
          /\ \A b \in Runner : job'[b].next # NoStatement => job'[b].gen \in Generation
      BY <2>3, <2>4, JobType
    <2> QED
      BY <1>2, <2>2, <2>5 DEF RunStatement, TypeOK
  <1>3. ASSUME NEW a \in Runner, FinishScript(a) PROVE TypeOK'
    <2>1. job[a].gen \in Generation
      BY <1>3 DEF FinishScript, TypeOK, NoStatement, EndOfScript, InsertRolls
    <2>2. /\ job' \in [Runner -> [gen : Generation \cup {NoScript},
                                 next : NoStatement .. EndOfScript]]
          /\ \A b \in Runner : job'[b].next # NoStatement => job'[b].gen \in Generation
      BY <1>3, JobType DEF FinishScript
    <2> QED
      BY <1>3, <2>1, <2>2 DEF FinishScript, TypeOK, TablesTypeOK, tables, Phase
  <1>4. ASSUME NEW a \in Runner, StatementRefused(a) PROVE TypeOK'
    <2>1. /\ job' \in [Runner -> [gen : Generation \cup {NoScript},
                                 next : NoStatement .. EndOfScript]]
          /\ \A b \in Runner : job'[b].next # NoStatement => job'[b].gen \in Generation
      BY <1>4, JobType DEF StatementRefused
    <2> QED
      BY <1>4, <2>1 DEF StatementRefused, TypeOK, TablesTypeOK, tables, Phase
  <1>5. CASE LoadStores
    BY <1>5 DEF LoadStores, TypeOK, TablesTypeOK, tables, Phase
  <1>6. CASE Crash
    <2>1. TablesTypeOK'
      <3>1. CASE UNCHANGED tables
        BY <3>1 DEF TypeOK, TablesTypeOK, tables
      <3>2. CASE /\ job["importer"].next = InsertRolls
                 /\ TornInsertRolls(job["importer"].gen)
        <4>1. job["importer"].gen \in Generation
          BY <3>2 DEF TypeOK, Runner, InsertRolls, NoStatement
        <4> QED
          BY <3>2, <4>1, ExecType DEF TypeOK, Statement, DeleteEnchants, InsertRolls
      <3> QED
        BY <1>6, <3>1, <3>2 DEF Crash
    <2>2. /\ job' \in [Runner -> [gen : Generation \cup {NoScript},
                                 next : NoStatement .. EndOfScript]]
          /\ \A b \in Runner : job'[b].next # NoStatement => job'[b].gen \in Generation
      BY <1>6, JobType DEF Crash, Runner
    <2>3. crashes' \in 0 .. MaxCrashes
      BY <1>6, ServerAssumption DEF Crash, TypeOK
    <2>4. roll' \in [Player -> RollRecord]
      BY <1>6, IdleType DEF Crash
    <2> QED
      BY <1>6, <2>1, <2>2, <2>3, <2>4, OriginType DEF Crash, TypeOK, Phase
  <1>7. CASE ReplaceScript
    BY <1>7 DEF ReplaceScript, TypeOK, TablesTypeOK, tables
  <1>8. CASE StartLiveImport
    <2> DEFINE j == [gen |-> script, next |-> DeleteEnchants]
    <2>1. j \in [gen : Generation \cup {NoScript}, next : NoStatement .. EndOfScript]
      BY DEF TypeOK, DeleteEnchants, NoStatement, EndOfScript, InsertRolls
    <2>2. j.gen \in Generation /\ "operator" \in Runner
      BY DEF TypeOK, Runner
    <2>3. job' = [job EXCEPT !["operator"] = j]
      BY <1>8 DEF StartLiveImport
    <2> HIDE DEF j
    <2>4. /\ job' \in [Runner -> [gen : Generation \cup {NoScript},
                                 next : NoStatement .. EndOfScript]]
          /\ \A b \in Runner : job'[b].next # NoStatement => job'[b].gen \in Generation
      BY <2>1, <2>2, <2>3, JobType
    <2> QED
      BY <1>8, <2>4 DEF StartLiveImport, TypeOK, TablesTypeOK, tables
  <1>9. CASE OnBeforeConfigLoad
    BY <1>9 DEF OnBeforeConfigLoad, TypeOK, TablesTypeOK, tables
  <1>10. ASSUME NEW p \in Player, NEW i \in Item, NEW h \in Hook, StartRoll(p, i, h)
         PROVE  TypeOK'
    <2>1. PICK tier \in RolledEnchantLevels(config.pcts) \ {-1}, role \in RolesFor(p, i) :
            roll' = [roll EXCEPT ![p] =
                       [at |-> "query", item |-> i, tier |-> tier, role |-> role,
                        tries |-> MaxTries, found |-> 0]]
      BY <1>10 DEF StartRoll
    <2>2. [at |-> "query", item |-> i, tier |-> tier, role |-> role,
           tries |-> MaxTries, found |-> 0] \in RollRecord
      BY <2>1, TierType, RolesForType, ServerAssumption DEF RollRecord
    <2>3. /\ property' \in [Item -> Int]
          /\ UNCHANGED <<tables, phase, script, recorded, job, store, config,
                         saved, crashes>>
      BY <1>10 DEF StartRoll, TypeOK
    <2> QED
      BY <2>1, <2>2, <2>3, RollStepType
  <1>11. ASSUME NEW p \in Player, Query(p) PROVE TypeOK'
    <2>1. roll[p] \in RollRecord
      BY DEF TypeOK
    <2>2. PICK r \in RollRecord : roll' = [roll EXCEPT ![p] = r]
      <3>1. CASE roll' = [roll EXCEPT ![p] = NextTry(roll[p])]
        BY <2>1, <3>1, NextTryType
      <3>2. ASSUME NEW id \in Candidates(roll[p]),
                   roll' = [roll EXCEPT ![p] = [roll[p] EXCEPT !.at = "check", !.found = id]]
            PROVE  \E r \in RollRecord : roll' = [roll EXCEPT ![p] = r]
        <4>1. id \in SuffixId
          BY DEF Candidates
        <4>2. [roll[p] EXCEPT !.at = "check", !.found = id] \in RollRecord
          BY <2>1, <4>1 DEF RollRecord
        <4> QED
          BY <3>2, <4>2
      <3> QED
        BY <1>11, <3>1, <3>2 DEF Query
    <2>3. /\ property' \in [Item -> Int]
          /\ UNCHANGED <<tables, phase, script, recorded, job, store, config,
                         saved, crashes>>
      BY <1>11 DEF Query, TypeOK
    <2> QED
      BY <2>2, <2>3, RollStepType
  <1>12. ASSUME NEW p \in Player, Check(p) PROVE TypeOK'
    <2>1. roll[p] \in RollRecord
      BY DEF TypeOK
    <2> DEFINE r == IF Usable(roll[p]) THEN [roll[p] EXCEPT !.at = "apply"]
                                       ELSE NextTry(roll[p])
    <2>2. [roll[p] EXCEPT !.at = "apply"] \in RollRecord
      BY <2>1 DEF RollRecord
    <2>3. r \in RollRecord
      BY <2>1, <2>2, NextTryType
    <2>4. /\ property' \in [Item -> Int]
          /\ UNCHANGED <<tables, phase, script, recorded, job, store, config,
                         saved, crashes>>
          /\ roll' = [roll EXCEPT ![p] = r]
      BY <1>12 DEF Check, TypeOK
    <2> HIDE DEF r
    <2> QED
      BY <2>3, <2>4, RollStepType
  <1>13. ASSUME NEW p \in Player, Apply(p) PROVE TypeOK'
    <2>1. -roll[p].found \in Int
      <3>0. roll[p] \in RollRecord
        BY DEF TypeOK
      <3>1. roll[p].found \in SuffixId \cup {0}
        BY <3>0 DEF RollRecord
      <3>2. \A id \in SuffixId \cup {0} : -id \in Int
        BY SuffixIdAssumption
      <3> QED
        BY <3>1, <3>2
    <2>2. property' \in [Item -> Int]
      <3>1. \/ property' = property
            \/ property' = [property EXCEPT ![roll[p].item] = -roll[p].found]
        BY <1>13 DEF Apply
      <3>2. property \in [Item -> Int]
        BY DEF TypeOK
      <3> QED
        BY <2>1, <3>1, <3>2
    <2>3. /\ roll' = [roll EXCEPT ![p] = Idle]
          /\ UNCHANGED <<tables, phase, script, recorded, job, store, config,
                         saved, crashes>>
      BY <1>13 DEF Apply
    <2> QED
      BY <2>2, <2>3, IdleType, RollStepType
  <1>14. ASSUME NEW i \in Item, SaveItem(i) PROVE TypeOK'
    BY <1>14 DEF SaveItem, TypeOK, TablesTypeOK, tables
  <1>15. CASE UNCHANGED vars
    BY <1>15 DEF vars, TypeOK, TablesTypeOK, tables
  <1> QED
    BY <1>1, <1>2, <1>3, <1>4, <1>5, <1>6, <1>7, <1>8, <1>9, <1>10, <1>11,
       <1>12, <1>13, <1>14, <1>15 DEF Next

\* The types of the server's state hold in every state.
THEOREM TypeCorrect == Spec => []TypeOK
  BY InitType, NextType, PTL DEF Spec

-----------------------------------------------------------------------------
(***************************************************************************)
(* Rolls in flight: the suffix a roll has settled on is known to the       *)
(* store, an item with a roll in flight has no random property, and a      *)
(* random property is never replaced.                                      *)
(***************************************************************************)

LEMMA RollInit == Init => RollInv
  BY ServerAssumption
  DEF Init, RollInv, ImporterBoots, NoJob, Runner, InFlight, InFlightIsBare,
      AppliedIsKnown, Idle

LEMMA ImporterNext == TypeOK /\ ImporterBoots /\ [Next]_vars => ImporterBoots'
  <1> SUFFICES ASSUME TypeOK, ImporterBoots, [Next]_vars PROVE ImporterBoots'
    OBVIOUS
  <1> USE DEF ImporterBoots
  <1>1. CASE Boot
    BY <1>1 DEF Boot
  <1>2. ASSUME NEW a \in Runner, RunStatement(a) PROVE ImporterBoots'
    <2>1. a # "importer" => job'["importer"] = job["importer"]
      BY <1>2 DEF RunStatement, TypeOK
    <2>2. job[a].next # NoStatement /\ phase' = phase
      BY <1>2 DEF RunStatement, Statement, NoStatement, DeleteEnchants, InsertRolls
    <2> QED
      BY <2>1, <2>2
  <1>3. ASSUME NEW a \in Runner, FinishScript(a) PROVE ImporterBoots'
    <2>1. a # "importer" => job'["importer"] = job["importer"] /\ phase' = phase
      BY <1>3 DEF FinishScript, TypeOK
    <2>2. a = "importer" => job'["importer"].next = NoStatement
      BY <1>3 DEF FinishScript, TypeOK, NoJob
    <2> QED
      BY <2>1, <2>2
  <1>4. ASSUME NEW a \in Runner, StatementRefused(a) PROVE ImporterBoots'
    <2>1. a # "importer" => job'["importer"] = job["importer"] /\ phase' = phase
      BY <1>4 DEF StatementRefused, TypeOK
    <2>2. a = "importer" => job'["importer"].next = NoStatement
      BY <1>4 DEF StatementRefused, TypeOK, NoJob
    <2> QED
      BY <2>1, <2>2
  <1>5. CASE LoadStores
    BY <1>5 DEF LoadStores
  <1>6. CASE Crash
    BY <1>6 DEF Crash, TypeOK, Runner, NoJob
  <1>7. CASE StartLiveImport
    BY <1>7 DEF StartLiveImport, TypeOK
  <1>8. CASE UNCHANGED <<job, phase>>
    BY <1>8
  <1> QED
    BY <1>1, <1>2, <1>3, <1>4, <1>5, <1>6, <1>7, <1>8
    DEF Next, vars, ReplaceScript, OnBeforeConfigLoad, StartRoll, Query, Check,
        Apply, SaveItem

\* A step that leaves rolls, items and the store alone and does not take the
\* server down.
LEMMA RollFrame ==
    ASSUME RollInv, ImporterBoots', Up => Up',
           UNCHANGED <<roll, property, saved, store>>
    PROVE  RollInv'
  BY DEF RollInv, InFlight, InFlightIsBare, AppliedIsKnown, Usable, LookupEntry, Up

\* A step that takes the roll of p from one stage to the next: the item is the
\* same, or the roll is over.
LEMMA RollStage ==
    ASSUME TypeOK, RollInv, ImporterBoots', NEW p \in Player, InFlight(p), NEW r,
           roll' = [roll EXCEPT ![p] = r],
           \/ r.at = "idle"
           \/ r.item = roll[p].item /\ (r.at = "apply" => Usable(r)),
           UNCHANGED <<phase, property, saved, store>>
    PROVE  RollInv'
  <1>1. /\ roll'[p] = r
        /\ \A q \in Player : q # p => roll'[q] = roll[q]
    BY DEF TypeOK
  <1>2. \A q \in Player : InFlight(q)' => InFlight(q) /\ roll'[q].item = roll[q].item
    BY <1>1 DEF InFlight
  <1>3. \A q \in Player : roll'[q].at = "apply" => Usable(roll'[q])
    BY <1>1 DEF RollInv, AppliedIsKnown, Usable, LookupEntry
  <1>4. AppliedIsKnown'
    BY <1>3 DEF AppliedIsKnown, Usable, LookupEntry
  <1> QED
    BY <1>2, <1>4 DEF RollInv, InFlightIsBare, Up

LEMMA NextTryStage ==
    ASSUME NEW r \in RollRecord
    PROVE  NextTry(r).at = "idle" \/ (NextTry(r).item = r.item /\ NextTry(r).at = "query")
  BY DEF NextTry, Idle, RollRecord

LEMMA RollNext == TypeOK /\ RollInv /\ [Next]_vars => RollInv'
  <1> SUFFICES ASSUME TypeOK, RollInv, [Next]_vars PROVE RollInv'
    OBVIOUS
  <1>0. ImporterBoots'
    BY ImporterNext DEF RollInv
  <1>1. CASE Boot
    BY <1>1, RollFrame, <1>0 DEF Boot, Up
  <1>2. ASSUME NEW a \in Runner, RunStatement(a) PROVE RollInv'
    BY <1>2, RollFrame, <1>0 DEF RunStatement, Up
  <1>3. ASSUME NEW a \in Runner, FinishScript(a) PROVE RollInv'
    <2>1. Up => Up'
      BY <1>3 DEF FinishScript, Up, RollInv, ImporterBoots, NoStatement, EndOfScript,
                  InsertRolls
    <2> QED
      BY <1>3, <2>1, RollFrame, <1>0 DEF FinishScript
  <1>4. ASSUME NEW a \in Runner, StatementRefused(a) PROVE RollInv'
    <2>1. Up => Up'
      BY <1>4 DEF StatementRefused, Up, RollInv, ImporterBoots, Statement, NoStatement,
                  DeleteEnchants, InsertRolls
    <2> QED
      BY <1>4, <2>1, RollFrame, <1>0 DEF StatementRefused
  <1>5. CASE LoadStores
    <2>1. \A p \in Player : ~InFlight(p)
      BY <1>5 DEF LoadStores, RollInv, Up
    <2>2. UNCHANGED <<roll, property, saved>>
      BY <1>5 DEF LoadStores
    <2> QED
      BY <1>0, <2>1, <2>2 DEF RollInv, InFlight, InFlightIsBare, AppliedIsKnown
  <1>6. CASE Crash
    <2>1. \A p \in Player : roll'[p].at = "idle"
      BY <1>6 DEF Crash, Idle
    <2>2. property' = saved /\ saved' = saved
      BY <1>6 DEF Crash
    <2> QED
      BY <1>0, <2>1, <2>2 DEF RollInv, InFlight, InFlightIsBare, AppliedIsKnown
  <1>7. CASE ReplaceScript
    BY <1>7, RollFrame, <1>0 DEF ReplaceScript, Up
  <1>8. CASE StartLiveImport
    BY <1>8, RollFrame, <1>0 DEF StartLiveImport, Up
  <1>9. CASE OnBeforeConfigLoad
    BY <1>9, RollFrame, <1>0 DEF OnBeforeConfigLoad, Up
  <1>10. ASSUME NEW p \in Player, NEW i \in Item, NEW h \in Hook, StartRoll(p, i, h)
         PROVE  RollInv'
    <2>1. PICK tier, role :
            roll' = [roll EXCEPT ![p] =
                       [at |-> "query", item |-> i, tier |-> tier, role |-> role,
                        tries |-> MaxTries, found |-> 0]]
      BY <1>10 DEF StartRoll
    <2>2. /\ roll'[p].item = i /\ roll'[p].at = "query"
          /\ \A q \in Player : q # p => roll'[q] = roll[q]
      BY <2>1 DEF TypeOK
    <2>3. /\ Up /\ property[i] = 0
          /\ \A q \in Player : roll[q].item # i
          /\ UNCHANGED <<phase, property, saved, store>>
      BY <1>10 DEF StartRoll, MayStart
    <2>4. AppliedIsKnown'
      BY <2>2, <2>3 DEF RollInv, AppliedIsKnown, Usable, LookupEntry
    <2>5. \A q \in Player : q # p => InFlight(q)' = InFlight(q)
      BY <2>2 DEF InFlight
    <2> QED
      BY <1>0, <2>2, <2>3, <2>4, <2>5 DEF RollInv, InFlightIsBare, Up
  <1>11. ASSUME NEW p \in Player, Query(p) PROVE RollInv'
    <2>1. /\ InFlight(p)
          /\ UNCHANGED <<phase, property, saved, store>>
      BY <1>11 DEF Query, InFlight
    <2>2. roll[p] \in RollRecord
      BY DEF TypeOK
    <2>3. CASE roll' = [roll EXCEPT ![p] = NextTry(roll[p])]
      BY <2>1, <2>2, <2>3, NextTryStage, RollStage, <1>0
    <2>4. ASSUME NEW id,
                 roll' = [roll EXCEPT ![p] = [roll[p] EXCEPT !.at = "check", !.found = id]]
          PROVE  RollInv'
      <3> DEFINE r == [roll[p] EXCEPT !.at = "check", !.found = id]
      <3>1. r.item = roll[p].item /\ r.at = "check"
        BY <2>2 DEF RollRecord
      <3> HIDE DEF r
      <3> QED
        BY <2>1, <2>4, <3>1, RollStage, <1>0 DEF r
    <2> QED
      BY <1>11, <2>3, <2>4 DEF Query
  <1>12. ASSUME NEW p \in Player, Check(p) PROVE RollInv'
    <2>1. /\ InFlight(p)
          /\ UNCHANGED <<phase, property, saved, store>>
      BY <1>12 DEF Check, InFlight
    <2>2. roll[p] \in RollRecord
      BY DEF TypeOK
    <2>3. CASE Usable(roll[p])
      <3> DEFINE r == [roll[p] EXCEPT !.at = "apply"]
      <3>1. /\ r.item = roll[p].item
            /\ r.found = roll[p].found
        BY <2>2 DEF RollRecord
      <3>2. Usable(r)
        BY <2>3, <3>1 DEF Usable
      <3>3. roll' = [roll EXCEPT ![p] = r]
        BY <1>12, <2>3 DEF Check
      <3> HIDE DEF r
      <3> QED
        BY <2>1, <3>1, <3>2, <3>3, RollStage, <1>0
    <2>4. CASE ~Usable(roll[p])
      <3>1. roll' = [roll EXCEPT ![p] = NextTry(roll[p])]
        BY <1>12, <2>4 DEF Check
      <3> QED
        BY <2>1, <2>2, <3>1, NextTryStage, RollStage, <1>0
    <2> QED
      BY <2>3, <2>4
  <1>13. ASSUME NEW p \in Player, Apply(p) PROVE RollInv'
    <2>1. /\ InFlight(p)
          /\ UNCHANGED <<phase, saved, store>>
          /\ roll' = [roll EXCEPT ![p] = Idle]
      BY <1>13 DEF Apply, InFlight
    <2>2. /\ ~InFlight(p)'
          /\ \A q \in Player : q # p => roll'[q] = roll[q]
      BY <2>1 DEF InFlight, Idle, TypeOK
    <2>3. \A q \in Player : q # p => InFlight(q)' = InFlight(q)
      BY <2>2 DEF InFlight
    <2>4. \A i \in Item : i # roll[p].item => property'[i] = property[i]
      BY <1>13 DEF Apply, TypeOK
    <2>5. saved[roll[p].item] = 0
      BY <2>1 DEF RollInv, InFlightIsBare
    <2>6. AppliedIsKnown'
      BY <2>1, <2>2 DEF RollInv, AppliedIsKnown, Usable, LookupEntry, InFlight
    <2> QED
      BY <1>0, <2>1, <2>2, <2>3, <2>4, <2>5, <2>6 DEF RollInv, InFlightIsBare, Up
  <1>14. ASSUME NEW i \in Item, SaveItem(i) PROVE RollInv'
    <2>1. /\ UNCHANGED <<phase, roll, property, store>>
          /\ saved' = [saved EXCEPT ![i] = property[i]]
      BY <1>14 DEF SaveItem
    <2>2. AppliedIsKnown'
      BY <2>1 DEF RollInv, AppliedIsKnown, Usable, LookupEntry
    <2>3. InFlightIsBare'
      BY <2>1 DEF RollInv, InFlightIsBare, InFlight
    <2>4. \A j \in Item : saved'[j] # 0 => property'[j] = saved'[j]
      BY <2>1 DEF RollInv, TypeOK
    <2> QED
      BY <1>0, <2>1, <2>2, <2>3, <2>4 DEF RollInv, InFlight, Up
  <1>15. CASE UNCHANGED vars
    BY <1>15, RollFrame, <1>0 DEF vars, Up
  <1> QED
    BY <1>1, <1>2, <1>3, <1>4, <1>5, <1>6, <1>7, <1>8, <1>9, <1>10, <1>11,
       <1>12, <1>13, <1>14, <1>15 DEF Next

\* Rolls in flight are a running server's, for different items that have no
\* random property, and what is saved is what the item has.
THEOREM RollInvHolds == Spec => [](TypeOK /\ RollInv)
  <1>1. Init => TypeOK /\ RollInv
    BY InitType, RollInit
  <1>2. TypeOK /\ RollInv /\ [Next]_vars => (TypeOK /\ RollInv)'
    BY NextType, RollNext
  <1> QED
    BY <1>1, <1>2, PTL DEF Spec

\* A suffix the reroll loop has settled on is one the store knows and that
\* shows points, also while the tables change: the second lookup of
\* RollPossibleEnchant cannot fail.
THEOREM SettledIsKnown == Spec => []AppliedIsKnown
  BY RollInvHolds, PTL DEF RollInv

\* An item with a roll in flight has no random property.
THEOREM FlightsAreBare == Spec => []InFlightIsBare
  BY RollInvHolds, PTL DEF RollInv

LEMMA FinalStep ==
    ASSUME TypeOK, RollInv, [Next]_vars, NEW i \in Item
    PROVE  KeepsProperty(i)
  <1> USE DEF KeepsProperty
  <1>0. saved[i] # 0 => property[i] = saved[i]
    BY DEF RollInv
  <1>1. CASE Crash
    <2>1. crashes' # crashes
      BY <1>1, ServerAssumption DEF Crash, TypeOK
    <2> QED
      BY <1>1, <2>1 DEF Crash
  <1>2. ASSUME NEW p \in Player, Apply(p) PROVE KeepsProperty(i)
    <2>1. property[roll[p].item] = 0
      BY <1>2 DEF Apply, InFlight, RollInv, InFlightIsBare
    <2>2. CASE i = roll[p].item
      BY <1>0, <1>2, <2>1, <2>2 DEF Apply
    <2>3. CASE i # roll[p].item
      <3>1. property'[i] = property[i] /\ saved' = saved
        BY <1>2, <2>3 DEF Apply, TypeOK
      <3> QED
        BY <1>0, <3>1
    <2> QED
      BY <2>2, <2>3
  <1>3. ASSUME NEW j \in Item, SaveItem(j) PROVE KeepsProperty(i)
    <2>1. property' = property /\ (j # i => saved'[i] = saved[i])
      BY <1>3 DEF SaveItem, TypeOK
    <2>2. j = i => saved[i] = 0
      BY <1>0, <1>3 DEF SaveItem
    <2> QED
      BY <1>0, <2>1, <2>2
  <1>4. CASE UNCHANGED <<property, saved>>
    BY <1>0, <1>4
  <1> QED
    BY <1>1, <1>2, <1>3, <1>4
    DEF Next, vars, Boot, RunStatement, FinishScript, StatementRefused, LoadStores,
        ReplaceScript, StartLiveImport, OnBeforeConfigLoad, StartRoll, Query, Check

\* A random property is never replaced, and a saved one survives every crash.
THEOREM PropertyIsFinal == Spec => SuffixIsFinal
  <1>1. TypeOK /\ RollInv /\ [Next]_vars => [\A i \in Item : KeepsProperty(i)]_vars
    BY FinalStep
  <1> QED
    BY <1>1, RollInvHolds, PTL DEF Spec, SuffixIsFinal

-----------------------------------------------------------------------------
(***************************************************************************)
(* Rolls end: a roll in flight has a try left, and each of its steps       *)
(* brings it nearer to its end.                                            *)
(***************************************************************************)
HasTries == \A p \in Player : InFlight(p) => roll[p].tries >= 1

\* The loop goes on with one try less, or ends.
LEMMA NextTryRunsDown ==
  ASSUME NEW r \in RollRecord
  PROVE  /\ NextTry(r).at # "idle" => NextTry(r).tries >= 1
         /\ r.at \in {"query", "check"} /\ r.tries >= 1 => StepsLeft(NextTry(r)) < StepsLeft(r)
  <1> DEFINE t == r.tries
  <1>1. t \in Nat
    BY ServerAssumption DEF RollRecord
  <1>2. /\ r.at = "query" => StepsLeft(r) = 2 * t + 1
        /\ r.at = "check" => StepsLeft(r) = 2 * t
    BY DEF StepsLeft
  <1>3. CASE t > 1
    <2>1. NextTry(r).at = "query" /\ NextTry(r).tries = t - 1
      BY <1>3 DEF NextTry, RollRecord
    <2>2. StepsLeft(NextTry(r)) = 2 * (t - 1) + 1
      BY <2>1 DEF StepsLeft
    <2> HIDE DEF t
    <2> QED
      BY <1>1, <1>2, <1>3, <2>1, <2>2 DEF t
  <1>4. CASE ~(t > 1)
    <2>1. NextTry(r).at = "idle" /\ StepsLeft(NextTry(r)) = 0
      BY <1>4 DEF NextTry, Idle, StepsLeft
    <2> HIDE DEF t
    <2> QED
      BY <1>1, <1>2, <2>1 DEF t
  <1> QED
    BY <1>3, <1>4

\* The steps of the roll of p.
LEMMA RollRunsDown ==
  ASSUME TypeOK, HasTries, NEW p \in Player, Query(p) \/ Check(p) \/ Apply(p)
  PROVE  /\ InFlight(p)
         /\ \A q \in Player : q # p => roll'[q] = roll[q]
         /\ roll'[p].at # "idle" => roll'[p].tries >= 1
         /\ roll'[p] # roll[p] => StepsLeft(roll'[p]) < StepsLeft(roll[p])
  <1> DEFINE r == roll[p]
  <1>1. r \in RollRecord /\ r.tries \in Nat
    BY ServerAssumption DEF TypeOK, RollRecord
  <1>2. InFlight(p) /\ r.tries >= 1
    BY DEF InFlight, Query, Check, Apply, HasTries
  <1>3. \A q \in Player : q # p => roll'[q] = roll[q]
    BY DEF Query, Check, Apply, TypeOK
  <1>4. CASE r.at \in {"query", "check"} /\ roll'[p] = NextTry(r)
    BY <1>1, <1>2, <1>3, <1>4, NextTryRunsDown
  <1>5. CASE r.at = "query" /\ \E id \in Candidates(r) : roll'[p] = [r EXCEPT !.at = "check", !.found = id]
    <2>1. roll'[p].at = "check" /\ roll'[p].tries = r.tries
      BY <1>1, <1>5 DEF RollRecord
    <2>2. StepsLeft(roll'[p]) = 2 * r.tries /\ StepsLeft(r) = 2 * r.tries + 1
      BY <1>5, <2>1 DEF StepsLeft
    <2> QED
      BY <1>1, <1>2, <1>3, <2>1, <2>2
  <1>6. CASE r.at = "check" /\ roll'[p] = [r EXCEPT !.at = "apply"]
    <2>1. roll'[p].at = "apply" /\ roll'[p].tries = r.tries
      BY <1>1, <1>6 DEF RollRecord
    <2>2. StepsLeft(roll'[p]) = 1 /\ StepsLeft(r) = 2 * r.tries
      BY <1>6, <2>1 DEF StepsLeft
    <2> QED
      BY <1>1, <1>2, <1>3, <2>1, <2>2
  <1>7. CASE r.at = "apply" /\ roll'[p] = Idle
    <2>1. roll'[p].at = "idle" /\ StepsLeft(roll'[p]) = 0 /\ StepsLeft(r) = 1
      BY <1>7 DEF Idle, StepsLeft
    <2> QED
      BY <1>2, <1>3, <2>1
  <1> QED
    BY <1>4, <1>5, <1>6, <1>7 DEF Query, Check, Apply, TypeOK

LEMMA RollsRunDown ==
  ASSUME TypeOK, HasTries, [Next]_vars
  PROVE  /\ HasTries'
         /\ \A p \in Player :
               InFlight(p) /\ roll'[p] # roll[p] => StepsLeft(roll'[p]) < StepsLeft(roll[p])
  <1>1. ASSUME NEW p \in Player, Query(p) \/ Check(p) \/ Apply(p)
        PROVE  /\ HasTries'
               /\ \A q \in Player :
                     InFlight(q) /\ roll'[q] # roll[q] => StepsLeft(roll'[q]) < StepsLeft(roll[q])
    BY <1>1, RollRunsDown DEF HasTries, InFlight
  <1>2. ASSUME NEW p \in Player, NEW i \in Item, NEW h \in Hook, StartRoll(p, i, h)
        PROVE  /\ HasTries'
               /\ \A q \in Player : InFlight(q) => roll'[q] = roll[q]
    <2>1. ~InFlight(p) /\ roll'[p].tries = MaxTries /\ \A q \in Player : q # p => roll'[q] = roll[q]
      BY <1>2 DEF StartRoll, TypeOK
    <2>2. MaxTries >= 1
      BY ServerAssumption
    <2> QED
      BY <2>1, <2>2 DEF HasTries, InFlight
  <1>3. CASE Crash
    <2>1. \A p \in Player : roll'[p] = Idle
      BY <1>3 DEF Crash
    <2>2. \A p \in Player : InFlight(p) => StepsLeft(roll[p]) \in Nat \ {0}
      <3> SUFFICES ASSUME NEW p \in Player, InFlight(p) PROVE StepsLeft(roll[p]) \in Nat \ {0}
        OBVIOUS
      <3>1. roll[p].at \in {"query", "check", "apply"} /\ roll[p].tries \in Nat /\ roll[p].tries >= 1
        BY ServerAssumption DEF TypeOK, RollRecord, InFlight, HasTries
      <3>2. StepsLeft(roll[p]) \in {1, 2 * roll[p].tries, 2 * roll[p].tries + 1}
        BY <3>1 DEF StepsLeft
      <3> QED
        BY <3>1, <3>2
    <2>3. StepsLeft(Idle) = 0
      BY DEF StepsLeft, Idle
    <2> QED
      BY <2>1, <2>2, <2>3 DEF HasTries, InFlight, Idle
  <1>4. CASE roll' = roll
    BY <1>4 DEF HasTries, InFlight
  <1> QED
    BY <1>1, <1>2, <1>3, <1>4
    DEF Next, vars, Boot, RunStatement, FinishScript, StatementRefused, LoadStores,
        ReplaceScript, StartLiveImport, OnBeforeConfigLoad, SaveItem

\* Each step of a roll brings it nearer to its end, and no other step sends it
\* back: it is over after at most 2 * MaxTries + 1 steps of its own.
THEOREM RollsAreBounded == Spec => RollsRunOut
  <1>1. Init => HasTries
    BY DEF Init, HasTries, InFlight, Idle
  <1>2. TypeOK /\ HasTries /\ [Next]_vars
          => /\ HasTries'
             /\ [\A p \in Player :
                   InFlight(p) /\ roll'[p] # roll[p] => StepsLeft(roll'[p]) < StepsLeft(roll[p])]_vars
    BY RollsRunDown
  <1> QED
    BY <1>1, <1>2, TypeCorrect, PTL DEF Spec, RollsRunOut

-----------------------------------------------------------------------------
(***************************************************************************)
(* The points of a suffix: what SuffixQuery computes on pairs of 16 bit    *)
(* halves is what the code computes on a uint32. The numbers are kept      *)
(* under names, since the provers do not get through large literals.       *)
(***************************************************************************)
Quotient(n, w) == n \div w
Remainder(n, w) == n % w

LEMMA DivMod ==
  ASSUME NEW n \in Nat, NEW w \in Nat \ {0}
  PROVE  /\ Quotient(n, w) \in Nat /\ Remainder(n, w) \in 0 .. w - 1
         /\ n = Quotient(n, w) * w + Remainder(n, w)
  <1> SUFFICES ASSUME NEW q, q = Quotient(n, w), NEW r, r = Remainder(n, w)
               PROVE  q \in Nat /\ r \in 0 .. w - 1 /\ n = q * w + r
    OBVIOUS
  <1>1. q \in Nat /\ r \in 0 .. w - 1
    BY DEF Quotient, Remainder
  <1>2. r = n - w * q
    BY DEF Quotient, Remainder
  <1> DEFINE p == w * q
  <1>3. p \in Nat /\ q * w = p /\ r = n - p
    BY ONLY <1>1, <1>2, n \in Nat, w \in Nat
  <1> HIDE DEF p
  <1>4. n = p + r
    BY ONLY <1>1, <1>3, n \in Nat
  <1>5. n = q * w + r
    BY ONLY <1>3, <1>4
  <1> QED
    BY ONLY <1>1, <1>5

LEMMA DivModUnique ==
  ASSUME NEW q \in Nat, NEW w \in Nat \ {0}, NEW r \in 0 .. w - 1
  PROVE  (q * w + r) \div w = q /\ (q * w + r) % w = r
  OBVIOUS

\* The number that a pair of halves stands for.
Value(x) == x.hi * W16 + x.lo

LEMMA W16Type == W16 \in Nat \ {0}
  BY SMT DEF W16

LEMMA U32Value ==
  ASSUME NEW n \in Nat, NEW x, x = U32(n)
  PROVE  x.hi \in Nat /\ x.lo \in 0 .. W16 - 1 /\ Value(x) = n
  <1>1. x.hi = Quotient(n, W16) /\ x.lo = Remainder(n, W16)
    BY DEF U32, Quotient, Remainder
  <1> QED
    BY <1>1, W16Type, DivMod DEF Value

\* The carry of the lower half, and the overflow of the upper one that is lost.
LEMMA TimesValue ==
  ASSUME NEW x, x.hi \in Nat, x.lo \in 0 .. W16 - 1, NEW n \in Nat, NEW y, y = Times(x, n)
  PROVE  /\ y.hi \in 0 .. W16 - 1 /\ y.lo \in 0 .. W16 - 1
         /\ Value(y) = (Value(x) * n) % (W16 * W16)
  <1> SUFFICES ASSUME NEW h \in Nat, h = x.hi, NEW l \in Nat, l = x.lo, NEW w \in Nat \ {0}, w = W16
               PROVE  /\ y.hi \in 0 .. W16 - 1 /\ y.lo \in 0 .. W16 - 1
                      /\ Value(y) = (Value(x) * n) % (W16 * W16)
    BY W16Type
  <1> SUFFICES ASSUME NEW low \in Nat, low = l * n, NEW a \in Nat, a = h * n,
                      NEW carry, carry = Quotient(low, w), NEW rest, rest = Remainder(low, w)
               PROVE  /\ y.hi \in 0 .. W16 - 1 /\ y.lo \in 0 .. W16 - 1
                      /\ Value(y) = (Value(x) * n) % (W16 * W16)
    OBVIOUS
  <1>1. carry \in Nat /\ rest \in 0 .. w - 1 /\ low = carry * w + rest
    BY DivMod
  <1> SUFFICES ASSUME NEW high, high = a + carry,
                      NEW over, over = Quotient(high, w), NEW up, up = Remainder(high, w)
               PROVE  /\ y.hi \in 0 .. W16 - 1 /\ y.lo \in 0 .. W16 - 1
                      /\ Value(y) = (Value(x) * n) % (W16 * W16)
    OBVIOUS
  <1>2. over \in Nat /\ up \in 0 .. w - 1 /\ high = over * w + up
    <2>1. high \in Nat
      BY ONLY <1>1, high = a + carry, a \in Nat
    <2> QED
      BY <2>1, DivMod
  <1>3. y = [hi |-> up, lo |-> rest]
    BY DEF Times, Quotient, Remainder
  <1>4. Value(y) = up * w + rest /\ Value(x) = h * w + l
    BY <1>3 DEF Value
  <1>5. (h * w + l) * n = over * (w * w) + (up * w + rest)
    <2>1. (h * w + l) * n = a * w + low
      BY ONLY h \in Nat, l \in Nat, w \in Nat, n \in Nat, a = h * n, low = l * n
    <2>2. a * w + low = high * w + rest
      BY ONLY <1>1, a \in Nat, w \in Nat, high = a + carry
    <2>3. high * w = over * (w * w) + up * w
      BY ONLY <1>2, w \in Nat
    <2> QED
      BY ONLY <1>1, <1>2, <2>1, <2>2, <2>3, w \in Nat
  <1>6. up * w + rest \in 0 .. w * w - 1
    <2>1. up * w <= (w - 1) * w
      BY ONLY <1>2, w \in Nat \ {0}
    <2>2. (w - 1) * w = w * w - w
      BY ONLY w \in Nat \ {0}
    <2> QED
      BY ONLY <1>1, <1>2, <2>1, <2>2, w \in Nat \ {0}
  <1>7. w * w \in Nat \ {0}
    BY ONLY w \in Nat \ {0}
  <1>8. (Value(x) * n) % (W16 * W16) = up * w + rest
    <2> SUFFICES ASSUME NEW m \in Nat \ {0}, m = w * w, NEW r \in 0 .. m - 1, r = up * w + rest
                 PROVE  (over * m + r) % m = r
      BY <1>4, <1>5, <1>6, <1>7
    <2> QED
      BY ONLY <1>2, m \in Nat \ {0}, r \in 0 .. m - 1, DivModUnique
  <1> QED
    BY <1>1, <1>2, <1>3, <1>4, <1>8

\* The digits are halves: the remainder of the upper one goes to the lower one.
LEMMA LongDivision ==
  ASSUME NEW h \in Nat, NEW l \in Nat, NEW w \in Nat \ {0}, NEW d \in Nat \ {0}
  PROVE  Quotient(h, d) * w + Quotient(Remainder(h, d) * w + l, d) = Quotient(h * w + l, d)
  <1> SUFFICES ASSUME NEW q, q = Quotient(h, d), NEW r, r = Remainder(h, d)
               PROVE  q * w + Quotient(r * w + l, d) = Quotient(h * w + l, d)
    OBVIOUS
  <1>1. q \in Nat /\ r \in 0 .. d - 1 /\ h = q * d + r
    BY DivMod
  <1> SUFFICES ASSUME NEW n, n = r * w + l, NEW s, s = Quotient(n, d), NEW t, t = Remainder(n, d)
               PROVE  q * w + s = Quotient(h * w + l, d)
    OBVIOUS
  <1>2. n \in Nat /\ s \in Nat /\ t \in 0 .. d - 1 /\ n = s * d + t
    <2>1. n \in Nat
      BY ONLY <1>1, n = r * w + l, w \in Nat, l \in Nat
    <2> QED
      BY <2>1, DivMod
  <1>3. h * w + l = (q * w + s) * d + t
    <2>1. /\ (q * d) * w = (q * w) * d /\ q * d \in Nat /\ q * w \in Nat
          /\ r * w \in Nat /\ s * d \in Nat
      BY ONLY <1>1, <1>2, w \in Nat, d \in Nat
    <2>2. h * w = (q * d) * w + r * w
      <3> SUFFICES ASSUME NEW p \in Nat, p = q * d PROVE (p + r) * w = p * w + r * w
        BY ONLY <1>1, <2>1
      <3> QED
        BY ONLY <1>1, p \in Nat, w \in Nat, d \in Nat
    <2>3. (q * w + s) * d = (q * w) * d + s * d
      BY ONLY <1>1, <1>2, w \in Nat, d \in Nat
    <2>4. (q * w) * d \in Nat
      BY ONLY <2>1, d \in Nat
    <2> SUFFICES ASSUME NEW a, a = (q * w) * d, NEW b, b = r * w, NEW c, c = s * d,
                        NEW e, e = h * w, NEW f, f = (q * w + s) * d
                 PROVE  e + l = f + t
      OBVIOUS
    <2>5. a \in Nat /\ b \in Nat /\ c \in Nat /\ e = a + b /\ f = a + c /\ b + l = c + t
      <3>1. a \in Nat /\ b \in Nat /\ c \in Nat
        BY ONLY <2>1, <2>4, a = (q * w) * d, b = r * w, c = s * d
      <3>2. e = a + b /\ f = a + c
        BY ONLY <2>1, <2>2, <2>3, a = (q * w) * d, b = r * w, c = s * d, e = h * w, f = (q * w + s) * d
      <3>3. b + l = c + t
        BY ONLY <1>2, n = r * w + l, b = r * w, c = s * d
      <3> QED
        BY ONLY <3>1, <3>2, <3>3
    <2> QED
      BY ONLY <1>2, <2>5, l \in Nat
  <1> SUFFICES ASSUME NEW k, k = q * w + s
               PROVE  k = Quotient(k * d + t, d)
    BY <1>3
  <1>4. k \in Nat
    BY ONLY <1>1, <1>2, w \in Nat, k = q * w + s
  <1> QED
    BY ONLY <1>2, <1>4, d \in Nat \ {0}, DivModUnique DEF Quotient

LEMMA DivTenThousandValue ==
  ASSUME NEW x, x.hi \in Nat, x.lo \in 0 .. W16 - 1
  PROVE  DivTenThousand(x) = Value(x) \div 10000
  <1> SUFFICES ASSUME NEW h \in Nat, h = x.hi, NEW l \in Nat, l = x.lo
               PROVE  DivTenThousand(x) = Value(x) \div 10000
    BY W16Type
  <1> SUFFICES ASSUME NEW d, d = 10000
               PROVE  DivTenThousand(x) = Value(x) \div d
    BY SMT
  <1>1. DivTenThousand(x) = Quotient(h, d) * W16 + Quotient(Remainder(h, d) * W16 + l, d)
    BY SMT DEF DivTenThousand, Quotient, Remainder
  <1>2. Value(x) \div d = Quotient(h * W16 + l, d)
    BY ONLY h = x.hi, l = x.lo, SMT DEF Value, Quotient
  <1>3. d \in Nat \ {0}
    BY ONLY d = 10000, SMT
  <1> QED
    BY ONLY <1>1, <1>2, <1>3, h \in Nat, l \in Nat, W16Type, LongDivision

\* m is the least AllocationPct that counts, or the code's start value.
LeastPct(allocs, m) ==
    LET stats == {a \in allocs : a > 100} IN
    IF stats = {} THEN m = Value(NoAllocPct)
                  ELSE m \in stats /\ \A b \in stats : m <= b

LEMMA MinAllocPctValue ==
  ASSUME NEW allocs \in SUBSET Nat, NEW m, LeastPct(allocs, m), NEW x, x = MinAllocPct(allocs)
  PROVE  x.hi \in Nat /\ x.lo \in 0 .. W16 - 1 /\ Value(x) = m
  <1> DEFINE stats == {a \in allocs : a > 100}
  <1>1. CASE stats = {}
    <2>1. x = NoAllocPct /\ m = Value(NoAllocPct)
      BY <1>1 DEF MinAllocPct, LeastPct
    <2>2. NoAllocPct.hi \in Nat /\ NoAllocPct.lo \in 0 .. W16 - 1
      BY SMT DEF NoAllocPct, W16
    <2> QED
      BY <2>1, <2>2
  <1>2. CASE stats # {}
    <2>1. m \in stats /\ (\A b \in stats : m <= b) /\ stats \subseteq Nat
      BY <1>2 DEF LeastPct
    <2> DEFINE n == CHOOSE a \in stats : \A b \in stats : a <= b
    <2>2. n \in stats /\ \A b \in stats : n <= b
      BY <2>1
    <2>3. x = U32(n)
      BY <1>2 DEF MinAllocPct
    <2> HIDE DEF n, stats
    <2>4. n = m
      BY <2>1, <2>2
    <2> QED
      BY <2>1, <2>3, <2>4, U32Value
  <1> QED
    BY <1>1, <1>2

\* For allocations and factors of any size, the points that the halves give are
\* those of the code's uint32 product, which overflows at 2^32 = W16 * W16.
THEOREM BasepointsAreUint32 ==
  ASSUME NEW allocs \in SUBSET Nat, NEW factor \in Nat, NEW m, LeastPct(allocs, m)
  PROVE  Basepoints(allocs, factor) = ((m * factor) % (W16 * W16)) \div 10000
  <1> SUFFICES ASSUME NEW x, x = MinAllocPct(allocs), NEW y, y = Times(x, factor)
               PROVE  DivTenThousand(y) = ((m * factor) % (W16 * W16)) \div 10000
    BY DEF Basepoints
  <1>1. x.hi \in Nat /\ x.lo \in 0 .. W16 - 1 /\ Value(x) = m
    BY MinAllocPctValue
  <1>2. /\ y.hi \in 0 .. W16 - 1 /\ y.lo \in 0 .. W16 - 1
        /\ Value(y) = (m * factor) % (W16 * W16)
    BY <1>1, TimesValue
  <1>3. y.hi \in Nat
    BY <1>2, W16Type
  <1>4. DivTenThousand(y) = Value(y) \div 10000
    BY <1>2, <1>3, DivTenThousandValue
  <1> QED
    BY <1>2, <1>4
=============================================================================
