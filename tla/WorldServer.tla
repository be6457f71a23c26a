---------------------------- MODULE WorldServer ----------------------------
(***************************************************************************)
(* A worldserver with the module, over its life: it boots (the database    *)
(* importer runs the module's SQL script if it has changed since it was    *)
(* last recorded, then the DBC stores are loaded once), it serves hooks    *)
(* that roll suffixes for items, it crashes, and it boots again.           *)
(*                                                                         *)
(* A roll (RollPossibleEnchant) sends queries to the world database while  *)
(* the suffix store it checks their answers against is the one loaded at   *)
(* boot, so it is modelled in the steps between which another session can  *)
(* get at the database: StartRoll up to the first query, Query, Check (the *)
(* rest of one turn of the reroll loop), and Apply. Rolls of several       *)
(* players interleave, the maps they are on being updated by several       *)
(* threads.                                                                *)
(***************************************************************************)
EXTENDS SuffixTables

CONSTANTS
    Player, Item,
    NoItem,         \* not an item
    Template,       \* [Item -> template], see SuffixQuery
    NaturalProperty,\* [Item -> 0 or the random property the core rolled]
    ItemRoles,      \* [Item -> the roles its spec pool can yield]
    PlayerRole,     \* [Player -> the role of class and active spec]
    CanUse,         \* the <<player, item>> that CanUseItem accepts
    Config,         \* the configurations the operator switches between
    MaxTries,       \* maxCount of getCustomRandomSuffix, 50 in the code
    MayRevert,      \* does the operator put older scripts back?
    LiveImport,     \* does the operator run scripts by hand, at any time?
    MaxCrashes      \* bound on the crashes of a behaviour

\* No script has been recorded, or is being run.
NoScript == 0

\* The hooks, named for the option that enables them.
Hook == {"OnLoot", "OnCreate", "OnQuestReward", "OnGroupRollRewardItem",
         "OnVendorPurchase"}

ASSUME ServerAssumption ==
    /\ NoItem \notin Item
    /\ MaxTries \in Nat \ {0}
    /\ MayRevert \in BOOLEAN
    /\ LiveImport \in BOOLEAN
    /\ MaxCrashes \in Nat
    /\ NaturalProperty \in [Item -> Int]
    /\ Config # {}
    /\ \A c \in Config :
          /\ c.hooks \subseteq Hook
          /\ c.preference \in BOOLEAN

\* Who runs scripts: the importer of a booting server, the operator by hand.
Runner == {"importer", "operator"}

Phase == {"down", "import", "load", "up"}

VARIABLES
    phase,      \* of the server
    script,     \* the generation of the SQL file in the module's directory
    recorded,   \* the generation the importer has recorded as applied
    job,        \* the script each runner runs: [gen, next]
    store,      \* sItemRandomSuffixStore: SuffixId -> Origin
    config,     \* the config_* globals
    property,   \* GetItemRandomPropertyId of each item, in memory
    saved,      \* the same in the characters database
    roll,       \* each player's roll in progress
    crashes

vars == <<tables, phase, script, recorded, job, store, config, property,
          saved, roll, crashes>>

NoRole == [attrs |-> {}, cats |-> {}]

Idle == [at |-> "idle", item |-> NoItem, tier |-> 0, role |-> NoRole,
         tries |-> 0, found |-> 0]

NoJob == [gen |-> NoScript, next |-> NoStatement]

Up == phase = "up"

InFlight(p) == roll[p].at # "idle"

-----------------------------------------------------------------------------
Init ==
    /\ TablesInit
    /\ phase = "down"
    /\ script \in Generation
    /\ recorded = NoScript
    /\ job = [a \in Runner |-> NoJob]
    /\ store = NoRows
    /\ config \in Config
    /\ property = NaturalProperty
    /\ saved = NaturalProperty
    /\ roll = [p \in Player |-> Idle]
    /\ crashes = 0

(***************************************************************************)
(* Boot. The importer compares the module's file with what it recorded.    *)
(***************************************************************************)
\* Mutant of Boot: the importer records the script before it runs it.
BootRecordingFirst ==
    /\ phase = "down"
    /\ IF recorded = script
          THEN phase' = "load" /\ UNCHANGED job
          ELSE /\ phase' = "import"
               /\ job' = [job EXCEPT !["importer"] =
                            [gen |-> script, next |-> DeleteEnchants]]
    /\ recorded' = script
    /\ UNCHANGED <<tables, script, store, config, property, saved, roll,
                   crashes>>

Boot ==
    /\ phase = "down"
    /\ IF recorded = script
          THEN phase' = "load" /\ UNCHANGED job
          ELSE /\ phase' = "import"
               /\ job' = [job EXCEPT !["importer"] =
                            [gen |-> script, next |-> DeleteEnchants]]
    /\ UNCHANGED <<tables, script, recorded, store, config, property, saved,
                   roll, crashes>>

\* The next statement of the script that a runs.
RunStatement(a) ==
    /\ job[a].next \in Statement
    /\ Exec(job[a].next, job[a].gen)
    /\ job' = [job EXCEPT ![a].next = @ + 1]
    /\ UNCHANGED <<phase, script, recorded, store, config, property, saved,
                   roll, crashes>>

\* Mutant of FinishScript: the last statement, whose semicolon is missing, is
\* taken for the end of the script.
FinishScriptEarly(a) ==
    /\ job[a].next \in {InsertRolls, EndOfScript}
    /\ job' = [job EXCEPT ![a] = NoJob]
    /\ IF a = "importer"
          THEN phase' = "load" /\ recorded' = job[a].gen
          ELSE UNCHANGED <<phase, recorded>>
    /\ UNCHANGED <<tables, script, store, config, property, saved, roll,
                   crashes>>

\* The script is through. Only the importer records what it applied.
FinishScript(a) ==
    /\ job[a].next = EndOfScript
    /\ job' = [job EXCEPT ![a] = NoJob]
    /\ IF a = "importer"
          THEN phase' = "load" /\ recorded' = job[a].gen
          ELSE UNCHANGED <<phase, recorded>>
    /\ UNCHANGED <<tables, script, store, config, property, saved, roll,
                   crashes>>

\* A refused statement stops the client; the importer stops the server too.
StatementRefused(a) ==
    /\ job[a].next \in Statement
    /\ Refused(job[a].next, job[a].gen)
    /\ job' = [job EXCEPT ![a] = NoJob]
    /\ phase' = IF a = "importer" THEN "down" ELSE phase
    /\ UNCHANGED <<tables, script, recorded, store, config, property, saved,
                   roll, crashes>>

LoadStores ==
    /\ phase = "load"
    /\ phase' = "up"
    /\ store' = dbc
    /\ UNCHANGED <<tables, script, recorded, job, config, property, saved,
                   roll, crashes>>

\* What is only in memory is gone: rolls in flight, unsaved properties, the
\* store. An import in progress stops where it is.
Crash ==
    /\ phase # "down"
    /\ crashes < MaxCrashes
    /\ crashes' = crashes + 1
    /\ phase' = "down"
    /\ job' = [job EXCEPT !["importer"] = NoJob]
    /\ store' = NoRows
    /\ property' = saved
    /\ roll' = [p \in Player |-> Idle]
    /\ \/ UNCHANGED tables
       \/ /\ job["importer"].next = InsertRolls
          /\ TornInsertRolls(job["importer"].gen)
    /\ UNCHANGED <<script, recorded, config, saved>>

-----------------------------------------------------------------------------
(***************************************************************************)
(* The operator: another generation of the script, a script run by hand, a *)
(* reload of the configuration (OnBeforeConfigLoad).                       *)
(***************************************************************************)
ReplaceScript ==
    /\ \E g \in Generation :
          /\ g > script \/ MayRevert
          /\ script' = g
    /\ UNCHANGED <<tables, phase, recorded, job, store, config, property,
                   saved, roll, crashes>>

StartLiveImport ==
    /\ LiveImport
    /\ job["operator"] = NoJob
    /\ job' = [job EXCEPT !["operator"] =
                 [gen |-> script, next |-> DeleteEnchants]]
    /\ UNCHANGED <<tables, phase, script, recorded, store, config, property,
                   saved, roll, crashes>>

OnBeforeConfigLoad ==
    /\ Up
    /\ config' \in Config
    /\ UNCHANGED <<tables, phase, script, recorded, job, store, property,
                   saved, roll, crashes>>

-----------------------------------------------------------------------------
(***************************************************************************)
(* Rolls.                                                                  *)
(***************************************************************************)

\* getPlayerItemEnchantCategoryMask: the player's own role if the
\* configuration says so and the item is usable, else one of the item's.
RolesFor(p, i) ==
    IF config.preference /\ <<p, i>> \in CanUse THEN {PlayerRole[p]}
                                                 ELSE ItemRoles[i]

\* Mutant of MayStart: the test of the item's random property is missing, as
\* the HasBeenTouchedByRandomEnchantMod tests of the hooks are.
MayStartAgain(i) == MayRoll(Template[i])

\* RollPossibleEnchant's first tests and the tier it rolls.
MayStart(i) == MayRoll(Template[i]) /\ property[i] = 0

\* Hook h fires for an item that player p received. A hook runs on the thread
\* that updates the player, so p has one roll at a time and nobody else rolls
\* for the same item meanwhile. A hook that returns before its first query
\* changes nothing and is not a step.
StartRoll(p, i, h) ==
    /\ Up
    /\ ~InFlight(p)
    /\ \A q \in Player : roll[q].item # i
    /\ h \in config.hooks
    /\ MayStart(i)
    /\ \E tier \in RolledEnchantLevels(config.pcts) \ {-1}, role \in RolesFor(p, i) :
          roll' = [roll EXCEPT ![p] =
                     [at |-> "query", item |-> i, tier |-> tier, role |-> role,
                      tries |-> MaxTries, found |-> 0]]
    /\ UNCHANGED <<tables, phase, script, recorded, job, store, config,
                   property, saved, crashes>>

\* The rows the query can return: the two tables joined on the ID. A missing
\* table returns nothing.
Candidates(r) ==
    {id \in SuffixId :
        /\ rolls[id] # NoRow /\ dbc[id] # NoRow
        /\ RowMatches(Suffix(rolls[id], id), Template[r.item], r.tier, r.role)}

\* Mutants of NextTry: a continue without maxCount--, and a loop that does not
\* look at maxCount.
NextTryForFree(r) == [r EXCEPT !.at = "query"]
NextTryUnbounded(r) == [r EXCEPT !.at = "query", !.tries = @ - 1]

\* The roll after a turn of the loop that did not return.
NextTry(r) == IF r.tries > 1 THEN [r EXCEPT !.at = "query", !.tries = @ - 1]
                             ELSE Idle

\* The query, ORDER BY RAND() LIMIT 1.
Query(p) ==
    LET r == roll[p] IN
    /\ r.at = "query"
    /\ \/ /\ Candidates(r) = {}
          /\ roll' = [roll EXCEPT ![p] = NextTry(r)]
       \/ \E id \in Candidates(r) :
             roll' = [roll EXCEPT ![p] = [r EXCEPT !.at = "check", !.found = id]]
    /\ UNCHANGED <<tables, phase, script, recorded, job, store, config,
                   property, saved, crashes>>

\* LookupEntry of the store loaded at boot.
LookupEntry(id) == store[id] # NoRow

\* Mutants of Usable: one of the two tests of the loop does not continue.
UsableWithoutLookup(r) ==
    LookupEntry(r.found) => HasPoints(Suffix(store[r.found], r.found), Template[r.item])
UsableWithoutPoints(r) == LookupEntry(r.found)

\* The loop goes on if the store does not know the suffix or if it would show
\* less than one point.
Usable(r) == LookupEntry(r.found) /\ HasPoints(Suffix(store[r.found], r.found),
                                                Template[r.item])

Check(p) ==
    LET r == roll[p] IN
    /\ r.at = "check"
    /\ roll' = [roll EXCEPT ![p] = IF Usable(r) THEN [r EXCEPT !.at = "apply"]
                                                ELSE NextTry(r)]
    /\ UNCHANGED <<tables, phase, script, recorded, job, store, config,
                   property, saved, crashes>>

\* SetItemRandomProperties(-suffixID), after a second look at the store.
Apply(p) ==
    LET r == roll[p] IN
    /\ r.at = "apply"
    /\ property' = IF LookupEntry(r.found)
                      THEN [property EXCEPT ![r.item] = -r.found]
                      ELSE property
    /\ roll' = [roll EXCEPT ![p] = Idle]
    /\ UNCHANGED <<tables, phase, script, recorded, job, store, config, saved,
                   crashes>>

\* The core writes an item to the characters database.
SaveItem(i) ==
    /\ Up
    /\ saved[i] # property[i]
    /\ saved' = [saved EXCEPT ![i] = property[i]]
    /\ UNCHANGED <<tables, phase, script, recorded, job, store, config,
                   property, roll, crashes>>

-----------------------------------------------------------------------------
Next ==
    \/ Boot \/ LoadStores \/ Crash
    \/ \E a \in Runner : RunStatement(a) \/ FinishScript(a) \/ StatementRefused(a)
    \/ ReplaceScript \/ StartLiveImport \/ OnBeforeConfigLoad
    \/ \E p \in Player :
          \/ \E i \in Item, h \in Hook : StartRoll(p, i, h)
          \/ Query(p) \/ Check(p) \/ Apply(p)
    \/ \E i \in Item : SaveItem(i)

Spec == Init /\ [][Next]_vars

\* The threads of the server run on, and a server that is down is started
\* again. Nothing is assumed of hooks, crashes, saves and the operator.
Fairness ==
    /\ WF_vars(Boot) /\ WF_vars(LoadStores)
    /\ \A a \in Runner : WF_vars(RunStatement(a) \/ FinishScript(a) \/ StatementRefused(a))
    /\ \A p \in Player : WF_vars(Query(p)) /\ WF_vars(Check(p)) /\ WF_vars(Apply(p))

FairSpec == Spec /\ Fairness

-----------------------------------------------------------------------------
Roles == {PlayerRole[p] : p \in Player} \cup UNION {ItemRoles[i] : i \in Item}

RollRecord ==
    [at : {"idle", "query", "check", "apply"},
     item : Item \cup {NoItem},
     tier : Tier,
     role : Roles \cup {NoRole},
     tries : 0 .. MaxTries,
     found : SuffixId \cup {0}]

\* The types of the variables. A runner that is at a statement runs a script.
TypeOK ==
    /\ TablesTypeOK
    /\ phase \in Phase
    /\ script \in Generation
    /\ recorded \in Generation \cup {NoScript}
    /\ job \in [Runner -> [gen : Generation \cup {NoScript},
                           next : NoStatement .. EndOfScript]]
    /\ \A a \in Runner : job[a].next # NoStatement => job[a].gen \in Generation
    /\ store \in [SuffixId -> Origin]
    /\ config \in Config
    /\ property \in [Item -> Int]
    /\ saved \in [Item -> Int]
    /\ roll \in [Player -> RollRecord]
    /\ crashes \in 0 .. MaxCrashes

\* A server that is up, or about to load its stores, stands on the tables a
\* complete run of the recorded script leaves, and its store is that of the
\* tables, whatever crash cut an earlier import short and wherever it did
\* (the DELETEs before the INSERTs of generated_sql.tmpl.sql).
UpIsInstalled ==
    /\ phase \in {"load", "up"} => recorded \in Generation /\ Installed(recorded)
    /\ phase = "up" => store = dbc

\* What the statements of g's script before statement n have left.
DoneBefore(n, g) ==
    /\ n = InsertEnchants => enchs = {}
    /\ n > InsertEnchants => enchs = CustomEnchants
    /\ n = InsertSuffixes => Ids(g) \cap Occupied(dbc) = {}
    /\ n > InsertSuffixes => \A id \in Ids(g) : dbc[id] = g
    /\ n = CreateRolls => ~hasRolls
    /\ n = InsertRolls => hasRolls /\ rolls = NoRows
    /\ n = EndOfScript => Installed(g)

\* The state of an import in progress, if nobody else runs a script.
ImportInv ==
    /\ job["operator"] = NoJob
    /\ phase = "import" <=> job["importer"].next # NoStatement
    /\ phase = "import" => DoneBefore(job["importer"].next, job["importer"].gen)

\* An import that gets through leaves exactly the tables of its script, from
\* whatever earlier imports have left behind: of older scripts or newer ones,
\* whole, cut short, or taken back by the operator half way.
ImportHeals ==
    [][phase = "import" /\ phase' = "load" => Installed(recorded)']_vars

\* What makes UpIsInstalled inductive: an import in progress is of a script
\* newer than the recorded one, so that a server that goes down meanwhile will
\* not take the tables for installed.
BootInv ==
    /\ ImportInv
    /\ recorded <= script
    /\ phase = "import" =>
          /\ recorded < job["importer"].gen
          /\ job["importer"].gen <= script
    /\ phase # "import" /\ recorded = script => Installed(recorded)
    /\ UpIsInstalled

\* When the loop has settled on a suffix, the store knows it and it shows
\* points on the item, so the second lookup in RollPossibleEnchant never turns
\* a suffix down, even while the tables are rewritten under the roll.
AppliedIsKnown ==
    \A p \in Player : roll[p].at = "apply" =>
        LET id == roll[p].found IN
        /\ store[id] # NoRow
        /\ HasPoints(Suffix(store[id], id), Template[roll[p].item])

\* An item with a roll in flight has no random property: no hook that fires
\* for the same item, and no other player's roll, has given it one since
\* RollPossibleEnchant looked.
InFlightIsBare ==
    \A p \in Player : InFlight(p) => property[roll[p].item] = 0

\* The importer runs its script while the server boots, and only then.
ImporterBoots == job["importer"].next # NoStatement => phase = "import"

\* What makes the above, and SuffixIsFinal, inductive: rolls in flight are the
\* server's, for different items, and a saved property is the item's.
RollInv ==
    /\ ImporterBoots
    /\ \A p \in Player : InFlight(p) => Up /\ roll[p].item \in Item
    /\ \A p, q \in Player :
          InFlight(p) /\ InFlight(q) /\ p # q => roll[p].item # roll[q].item
    /\ InFlightIsBare
    /\ AppliedIsKnown
    /\ \A i \in Item : saved[i] # 0 => property[i] = saved[i]

\* A random property, natural or rolled, is never replaced: not by another
\* hook, not by a roll after a reload, a restart or a new script. It is lost
\* only if it was not saved when the server crashed.
KeepsProperty(i) ==
    /\ property[i] # 0 => property'[i] = property[i] \/ crashes' # crashes
    /\ saved[i] # 0 => saved'[i] = saved[i] /\ property'[i] = saved[i]

SuffixIsFinal == [][\A i \in Item : KeepsProperty(i)]_vars

\* The steps that a roll has left at most: a query and a check for each try, and
\* the end.
StepsLeft(r) ==
    CASE r.at = "idle"  -> 0
      [] r.at = "apply" -> 1
      [] r.at = "check" -> 2 * r.tries
      [] r.at = "query" -> 2 * r.tries + 1

\* Every step of a roll uses one of its tries up or settles it, and nothing else
\* the server does sends it back: with scripts run by hand under it, reloads of
\* the configuration, saves and other players' rolls, it still ends after at
\* most 2 * MaxTries + 1 steps of its own.
RollsRunOut ==
    [][\A p \in Player :
          InFlight(p) /\ roll'[p] # roll[p] => StepsLeft(roll'[p]) < StepsLeft(roll[p])]_vars

\* The reroll loop ends: every roll in flight is over in the end, whatever the
\* tables answer.
RollEnds == \A p \in Player : InFlight(p) ~> ~InFlight(p)

\* No interrupted import keeps the server down: it boots again and again, and
\* gets through.
BootCompletes == []<>Up

\* Rows that other modules keep in itemrandomsuffix_dbc survive the script.
ForeignRowsKept == \A id \in ForeignIds : dbc[id] = Foreign

-----------------------------------------------------------------------------
(***************************************************************************)
(* The server implements the contract. Its catalog is the script it has    *)
(* recorded: that is the one the store and the tables stand for while it   *)
(* serves hooks.                                                           *)
(***************************************************************************)
RolesOf(i) == ItemRoles[i] \cup {PlayerRole[p] : p \in {q \in Player : <<q, i>> \in CanUse}}

\* The suffixes of g that a roll for item i may end with.
SuitableIds(g, i) ==
    {id \in Ids(g) :
        /\ \E tier \in Tier, role \in RolesOf(i) :
              RowMatches(Suffix(g, id), Template[i], tier, role)
        /\ HasPoints(Suffix(g, id), Template[i])}

Contract == INSTANCE SuffixContract WITH
    Catalogs  <- Generation,
    NoCatalog <- NoScript,
    Suitable  <- [g \in Generation |-> [i \in Item |-> SuitableIds(g, i)]],
    Natural   <- NaturalProperty,
    catalog   <- recorded

\* An item receives a suffix at most once, a suffix of the script the server
\* runs on, which fits its class, level and one of its roles and shows points
\* on it: the server behaves as SuffixContract says.
ImplementsContract == Contract!Spec
=============================================================================
