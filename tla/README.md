# A TLA+ model of mod-random-suffix

`mod-random-suffix` gives items of an AzerothCore server random suffixes of its
own. This directory holds the specifications of that system, the TLC runs that
check them and the TLAPS proofs about them. File names below are relative to the
repository; `RandomEnchants.cpp` is `src/RandomEnchants.cpp` in it, the Go files
are under `golang/pkg`.

## 1. The system

Three programs share one catalog of suffixes:

    generatesuffixes.conf.yaml
              |
        the generator (Go, offline)
          |                    \
          | SQL script          \ two DBC files
          v                      v
    DB importer ---> world DB    game client
                      |     \
       loaded at boot |      \ queried by every roll
                      v       v
                 worldserver with the module (C++)
                      |
                 characters DB (random property of each item)

| component | state | operations | hard because |
|---|---|---|---|
| hooks and rolls, `RandomEnchants.cpp` 1145-1371 | `config_*` globals, an item's random property, the core's suffix store | five hooks, `RollPossibleEnchant`, `getCustomRandomSuffix`, configuration reload | blocking queries inside a reroll loop on several map threads; query answers come from the live database, lookups go to a store loaded at boot; five hooks may fire for one item; uint32 arithmetic |
| spec pool, `RandomEnchants.cpp` 147-1116 | none (one call) | stats to evidence, evidence to specs per class, two switches with deliberate fall-throughs, the draw | which classes are asked depends on level and on what earlier cases put in the pool |
| SQL script, `generated_sql.tmpl.sql` | `spellitemenchantment_dbc`, `itemrandomsuffix_dbc`, `item_enchantment_random_suffixes` | seven statements, run by the importer of a booting server or by hand | no transaction, DROP and CREATE in the middle, a MyISAM table, inclusive bounds |
| generator, `acoremodrandomsuffix` | suffix list, ID counter, three output files | truncate, three loops that number suffixes, sharing of weapon suffixes, ID limit, write | one counter in three loops, indexes into a growing list, a run can stop anywhere |
| DBC files, `dbc` | header, rows, string block | extract, append, export | offsets and sizes kept by hand, random order of Go maps, failures half way |
| GM command `additemwsuffix`, `RandomEnchants.cpp` 1379-1530 | items, their owner, binding and random property | add or remove items | sets a property that a hook of its own making may have rolled for; one signed count for two operations |
| core patch | none | suffix factor of an item, item links | a switch of the core extended from outside |

What makes each of them correct: a roll ends; it gives an item at most one
suffix, one that fits it and that the server knows; nothing replaces it. The
tables of a server that is up are complete, whatever happened before. The pool
draws specs that can use the item. IDs are contiguous, fit the client, and a
weapon suffix reaches every category it is for. A DBC file keeps its rows and
can be read back. The hazards in `PROJECT.json` list, line by line, where each
of these could go wrong.

## 2. Modules

| module | models | variables |
|---|---|---|
| `SuffixQuery` | the plain decisions of a roll: which items, the level an item is for, the suffix factor, which tiers, the WHERE clause of the query, the allocation arithmetic modulo 2^32 | - |
| `SuffixTables` | the tables and the statements of the script | `enchs dbc hasRolls rolls` |
| `WorldServer` | boot, import, hooks, rolls, reload, crashes, the operator; extends `SuffixTables`, which extends `SuffixQuery` | `phase script recorded job store config property saved roll crashes` |
| `SuffixContract` | what the server promises, without tables and queries | `catalog property saved` |
| `SuffixAttributes` | the vocabulary of server and generator, valid combinations | - |
| `SpecPool` | `getItemEnchantCategoryMask` and everything it calls | `item pc pool spec` |
| `AddItemCommand` | `HandleAddItemCommand` beside the hooks that roll for the same items | `owner property bound cmd report asked` |
| `DbcFile` | extract, append, export of a DBC file | `pc source file mem rows appends` |
| `SuffixGenerator` | a run of the generator | `pc config todo pos suffixes nextID outputs runs result` |
| `MC*` | instances for TLC | - |
| `WorldServer_proofs`, `WorldServer_boot_proofs`, `WorldServer_refinement_proofs` | types and rolls, imports, and that `WorldServer` implements `SuffixContract` | - |
| `SpecPool_proofs`, `AddItemCommand_proofs`, `DbcFile_proofs`, `SuffixGenerator_proofs`, `SuffixGenerator_sharing_proofs` | theorems about these modules | - |

### How they correspond to the code

*Tables.* A table is a function from IDs to the generation of the script its row
came from; the row itself is `Catalog[g].suffix[id]`, because the generator
prints both SQL rows of a suffix from one `customRandomSuffixEntry`. Each
statement of the template is an operator `Exec...`; a statement MySQL would
refuse (duplicate key, missing or existing table) changes nothing and ends the
script.

*Server.* `phase` follows the boot: `down`, `import`, `load`, `up`. `Boot`
compares the file in the module's directory with what the importer recorded;
`RunStatement` runs one statement; `FinishScript` records the script;
`LoadStores` copies `itemrandomsuffix_dbc` into the store, once. A crash forgets
rolls, store and unsaved properties, keeps the tables as they are, and may leave
any part of an interrupted MyISAM INSERT behind. `job` holds the script of the
importer and, if `LiveImport`, of an operator who runs it by hand at any moment;
the latter goes on when the server crashes. The operator may replace the file in
the module's directory by a newer one at any time and, if `MayRevert`, by an
older one.

*Rolls.* A roll is cut into steps exactly where another session can get at the
database: `StartRoll` (the tests of `RollPossibleEnchant`, the tier, the role),
`Query` (one SELECT), `Check` (the rest of that turn of the loop: lookup, points,
`maxCount--` or success), `Apply` (second lookup and `SetItemRandomProperties`).
`NextTry` is the end of a turn. `roll[p].role` is the pair of masks from
`getPlayerItemEnchantCategoryMask`; masks are sets of bits throughout. A player
has one roll at a time and an item is not rolled for by two players at once,
because hooks run on the thread that updates the player who holds the item.
The level an item is for is computed as in `getItemPlayerLevel`: its required
level, or the average, rounded up, over its peers' rows in `ItemTemplates`, or the
highest level of a player. The suffix factor is `GenerateEnchSuffixFactor`
as the core patch leaves it, over `PropertiesPoints`; `CorePointsIndex` is the
part of its switch that belongs to the core. The answer of the spec pool is a
parameter of an item.

*Spec pool.* `pc` is the case label the control is at, so that falling through
is an assignment to `pc`. Each per-class function is an operator with the same
chain of conditions; `force` is `forceAddAll`.

*additemwsuffix.* A chat command runs between two updates of the maps, so no
hook comes between its steps, except the `OnStoreNewItem` that its own
`StoreNewItem` fires for the last of the new items: `Ask` is the arguments,
`SubtractRefused` and `Subtract` the branch for negative counts, `AddRefused`
and `Store` the inventory's answer, `SetItemRandomProperties` the end. `asked`
remembers, for the property, the known number a game master has last asked for.
The template is one whose items do not stack, because the module rolls for
weapons and armour only. The least int, which has no positive counterpart, is
not among the counts.

*DBC files.* A string block is the list of strings between its NUL bytes; in
memory it is a function from offsets to strings, as the code's map. `Export`
picks any inverse of that function, since `stringBlockOffsets` ranges over a Go
map. Rows can fail on their length or on a value that does not parse, after the
header count has been raised. `source` is what a run reads and `file` its output,
which is truncated as soon as it is opened (`ReadDbc`), before the first append.
`Export` tests the offsets after it has written header and records: a refused
export leaves these in the output, with no string block behind them. A run whose
output has the path of its source loses that too. `RunAgain` runs the generator
on what it has exported (`source' = file`), or again on the same source, after
whatever end the last run had. A broken output is not read again in the model; the
program would fail on it or take the last bytes of the records for the block.

*Generator.* One action per turn of each loop. A suffix has one to five
attributes, a weapon suffix one to four beside the weapon's own enchant, and
weapons come in the order of their enchant IDs. The order of combinations of one
size is fixed and irrelevant, hence `CHOOSE`. A weapon that names a category
twice ends the run in a panic of `GetMask` (`RepeatedCategory`). An output is
`old`, `empty`, `partial` or `new`; `Stop` is any other panic, an append or export
that fails, an I/O error or a kill anywhere in a run, between the two steps of
`WriteOutput` too.

## 3. Runs

| run | question | bounds | result |
|---|---|---|---|
| `server_boot` | does every import that runs to its end leave a complete script, does the server get past every crash, and does every roll end? | three scripts (same, more and fewer IDs; later start), put in and back at any time, 2 crashes, 1 player, 2 items, 3 tries, `FairSpec` | `ImportHeals`, `BootCompletes`, `RollEnds` hold |
| `server_rolls` | does the server come up on complete scripts only, and implement the contract? | two scripts that reuse IDs, never put back, 4 items (rollable, too small for points, natural property, tabard), 2 players, 2 tries, 1 crash, 2 configurations | `TypeOK`, `UpIsInstalled`, `ImplementsContract` hold; the contract computes points with the server's operators, so the arithmetic itself rests on the theorem `BasepointsAreUint32` |
| `server_live` | what if the script is run by hand under rolls in flight? | two scripts, 2 players, 2 items, 2 tries, 1 crash, `LiveImport` | `AppliedIsKnown`, `InFlightIsBare`, `SuffixIsFinal`, `RollsRunOut` hold |
| `server_foreign` | does the script leave other rows alone? | a foreign row after the last suffix | violated, see findings |
| `pool_roles` | whom does the pool draw? | every case label, all sets of 8 stats (one of each kind of evidence, one of none), levels 40 and 41 | five properties hold |
| `pool_empty` | is the pool ever empty? | the same | violated |
| `additem` | is the suffix a game master asked for worn, and do players lose what was asked for or nothing? | 3 items, the game master and a player, counts -3, -2, 0, 2, 3, numbers known, unknown and 0, hooks that roll the same or others | `TypeOK`, `AskedIsWorn`, `AllOrNothing` hold |
| `additem_report` | does the command report what it destroyed? | the same | violated |
| `dbc_extend` | is an extended file sound? | 6 string blocks, regular and irregular, up to 2 appends with good, short and unparsable rows, exports refused and runs repeated on source or output | four properties hold |
| `dbc_offsets` | do offsets stay in the block? | the regular blocks | violated |
| `generator` | IDs, sharing, limit, outputs | 5 configurations with 1-4 weapons, overlapping categories in different orders and one named twice (refused), 1-3 tiers, limit 70, 2 runs | seven properties hold |
| `generator_limit` | is a catalog that fits refused? | 4 suffixes on either side of a limit of 8 | violated |

Why the bounds suffice: two scripts with the same IDs and different suffixes
are all that is needed for a store and a table to disagree; a third lets one
import be interrupted, another take its place and the first come back; two or
three tries exercise both ends of the loop; two crashes allow a crash in the
repair of an earlier one; the level only matters on either side of 40; each stat
matters only through its kind of evidence; two appends contain an extract of an
exported file; three items let a command ask for more than there is room for, or
more than its target holds, and leave some over. In `generator` the limit lies
between the sizes of the configurations, so that runs are both accepted and
refused.

Deadlock is not checked where the program ends (`pool_*`, `dbc_*`,
`generator*`); the server and command runs check it.

### Fairness

`FairSpec` assumes that the server's own steps are taken: `Boot` (a server that
is down is started again, as the core's restart script does), `LoadStores`, the
next step of a script that is running, and the next step of a roll (a thread
inside `getCustomRandomSuffix` runs on; a query returns). Nothing is assumed of
hooks, saves, crashes, reloads and the operator. `BootCompletes` also rests on
the bound on crashes: a server that crashes forever does not come up.

### Findings

1. `server_foreign`: `DELETE ... ID <= EndID` with EndID one past the last
   suffix (`generate.go` 287, template line 10) deletes a row that is none of the
   "custom random suffixes" of the comment above it.
2. `generator_limit`: `irsDBCID > math.MaxInt16` (`generate.go` 271) looks at the
   next ID, so a catalog that ends exactly at the "highest ID number" of the
   error message is refused.
3. `dbc_offsets`: after an append the empty string also has the offset
   StringBlockSize, one past the block, and export may write it for empty fields
   (`dbc.go` 277, 421), although "First is always zero and empty string"
   (`dbc.go` 440).
4. `pool_empty`: fishing poles, spears and miscellaneous weapons always end in
   the branch that logs "Spec pool is empty somehow" (`RandomEnchants.cpp` 1088);
   README.md line 9 says that all items can roll.
5. `additem_report`: after `DestroyItemCount` the command reports `-count`
   (`RandomEnchants.cpp` 1471) as the "successful amount of destroyed items"
   (1469), but a target whose account is not a player's is not tested for holding
   that many (1450), and loses only what it holds.

Noticed and not made into runs: `additemwsuffix` replaces (`RandomEnchants.cpp`
1510) a suffix that the hook of its own `StoreNewItem` may have rolled and
announced to the player (1276, 1301), and of several new items only the last
gets the number; the cast of `rand_chance()` to float (1239) can round up to 100,
so a tier of 0 percent can succeed; suffix IDs are positions in the generator's
loops (`generate.go` 156), so a changed configuration renumbers what items of
the characters database refer to; a script put back after its successor's
interrupted import is not imported again, so a server may come up on half of the
successor (`UpIsInstalled` needs `~MayRevert`); `RandomEnchants.conf.dist` 78
speaks of up to 5 rolls where there are 4 tiers; hunters are among the last resorts of thrown
weapons without having been asked; the rogue has no enchant category and so
never finds a weapon suffix restricted to categories; in preference mode a player
without a spec has masks 0, and a roll sends 50 queries that only attribute-free
and category-free suffixes could answer.

## 4. Proofs

The proofs about `WorldServer` are for any sets of players, items, IDs and
scripts and any bounds, from its named assumptions only: `SuffixIdAssumption`
and `OriginAssumption` (IDs and generations are positive numbers, the origin
markers are distinct), `CatalogAssumption` (a script has a suffix for each of
its IDs and inserts no foreign ID), `ServerAssumption` (types of the
parameters, at least one try). Those about `SuffixGenerator` are for any
configurations, limit and number of runs, from `GeneratorAssumption` (types of
the configurations, at most five tiers, enough attributes for the largest
combination, weapons strictly ordered by their enchant IDs). Those about
`SpecPool` are for items of any shape, level and stats, from `ShapeAssumption`
(the item classes and inventory types that go together), and those about
`AddItemCommand` for any players, items, numbers and counts, from
`CommandAssumption` (types; no known or rolled number is 0). Those about
`DbcFile` are for any strings of any lengths, any number of string fields, any CSV
data and any number of appends, from `TextAssumption` (a string other than the
empty one has at least one byte) and `SourceAssumption`: the files to start from
are those `NewDBCFromFile` can read, with a true header. Their string blocks are
arbitrary: repeated strings, empty strings in the middle, no NUL at the end, and
offsets that point into nothing.

| theorem | statement | argument |
|---|---|---|
| `TypeCorrect` | `Spec => []TypeOK` | `TypeOK` is inductive, given that a runner at a statement has a script |
| `RollInvHolds` | `Spec => [](TypeOK /\ RollInv)` | see below |
| `SettledIsKnown` | `Spec => []AppliedIsKnown` | conjunct of `RollInv` |
| `FlightsAreBare` | `Spec => []InFlightIsBare` | conjunct of `RollInv` |
| `PropertyIsFinal` | `Spec => SuffixIsFinal` | step by step from `RollInv` |
| `RollsAreBounded` | `Spec => RollsRunOut` | a roll in flight has a try left (`HasTries`), and `StepsLeft` sinks with each of its steps |
| `BasepointsAreUint32` | the points computed on 16 bit halves are those of the uint32 product | long multiplication and division (`TimesValue`, `LongDivision`) |
| `CrashSafeImport` | `~LiveImport /\ ~MayRevert /\ Spec => []UpIsInstalled` | `BootInv` |
| `ImportsHeal` | `~LiveImport /\ Spec => ImportHeals` | `ImportInv` |
| `ServerImplementsContract` | `~LiveImport /\ ~MayRevert /\ Spec => ImplementsContract` | every step is a step of the contract or leaves its variables alone |
| `ForcingIsLastResort` | `Spec => []ForcedIsLastResort` | `LabelInv`, see below |
| `ArmorIsForWearers` | `Spec => []ArmorSuitsWearer` | `LabelInv` |
| `CasterItemsAreForCasters` | `Spec => []CasterItemSuitsCaster` | `LabelInv` |
| `TankItemsAreForTanks` | `Spec => []TankItemSuitsTank` | `LabelInv` |
| `DrawnRolesRoll` | `Spec => []DrawnRoleHasSuffix` | what each class can answer |
| `CommandTypeCorrect` | `Spec => []TypeOK` | `TypeOK` is inductive |
| `AskedStays` | `Spec => []AskedIsWorn` | inductive given the types: a hook needs property 0, a known number is not 0 |
| `TakesAllOrNothing` | `Spec => AllOrNothing` | only `Subtract` takes items, and from a player only after both tests |
| `GeneratorTypeCorrect` | `Spec => []TypeOK` | `TypeOK` is inductive: it says where the loops are |
| `SuffixIdsAreContiguous` | `Spec => []IdsAreContiguous` | inductive given the types: each step appends suffixes numbered from `nextID` or changes categories only |
| `EveryWrittenIdFits` | `Spec => []WrittenIdsFit` | from the numbering and `LimitChecked` |
| `OutputsAreNeverMixed` | `Spec => []NoMixedOutputs` | `OutputPhases` |
| `LastTierStaysPlain` | `Spec => []LastTierIsPlain` | `CappedInv` |
| `HeaderFitsHolds` | `Spec => []HeaderFits` | conjunct of `IInv` |
| `ReadsBackHolds` | `Spec => []ReadsBack` | conjunct of `IInv`, see below |
| `KeepsRowsHolds` | `Spec => []KeepsRows` | conjunct of `IInv`: the rows of the source are the first in memory, all are read back, and a refused export leaves no whole file |
| `CleanIsExportedHolds` | `Spec => CleanIsExported` | `Chain` and `Closed`, see below |
| `CleanFilesStayClean` | `(\A f \in Sources : CleanBlock(f.strings)) /\ Spec => []StaysClean` | with the last one, by the steps that change source or output |
| `PlainSuffixesHold` | `Spec => []PlainSuffixesAreComplete` | `PlainInv`: what the loops have passed (`Made`) has its suffixes, and only that |
| `SharingIsComplete` | `Spec => []WeaponSuffixesAreShared` | `SharingInv`, see below |

`RollInv` strengthens the properties about rolls by what they rest on: rolls in
flight exist only in a server that is up, so the store does not change under
them; they are for different items, so that one roll cannot give a property to
the item of another; a saved property equals the item's, so a crash restores
what was there; and the importer runs only while the server boots. The last one
is needed because a refused or finished import changes `phase`.

`ImportInv` says what an import in progress has already done (`DoneBefore`),
statement by statement, whatever an earlier one has left. It is enough for
`ImportsHeal`, also when scripts are put back. `BootInv` adds that a server whose
recorded script is still the current one has its tables complete, and the order
of generations: the script being imported is newer than the recorded one. Without
that order `UpIsInstalled` is false: an import cut short, followed by a return to
the recorded script, leaves a server on half a script. With `LiveImport` it is
false as well, since a script run by hand may be half way when the stores are
loaded; that is why the theorem excludes both, and why the properties that
matter then (`AppliedIsKnown`, `SuffixIsFinal`) are proved without restriction.

`ServerImplementsContract` maps the contract's catalog to the recorded script.
Its invariant is `TypeOK /\ RollInv /\ BootInv /\ RollsSuit`; `RollsSuit` says
that what a roll has found is a suffix of the recorded script that matches its
item, tier and role. For that the table which answers the query and the store
which answers the lookup must hold the same script: this is what `BootInv` is for,
and what a script run by hand or put back would break.

In `SpecPool` the pool is built up along a path of case labels. `LabelInv` ties
a label to the items that reach it, through the fall-throughs. Each property is
then an invariant of the pool, with one step per case: `ArmorInv` (all specs in it
wear the armour), `ResortInv` (either all of them answer to the evidence or no
class that was asked does), `CasterInv` and `TankInv`, `RollableInv`. For casters
and tanks the classes that are asked only answer for specs that suit the item
(`OnlyAnswers`), and some class that is asked answers at every label
(`SomeoneSpeaks`), so that forcing all specs, which would let in others, is not
reached.

`SharingInv` says what is there for a weapon and a combination half way through
the loops: no suffix as long as no category that uses the combination has been
passed (`Served` is empty), and then one for each tier but the last, offered to
all the categories in `Served`. Sharing finds earlier suffixes by the weapon's
enchant ID; two weapons with the same ID would take each other's, which is
why the strict order of the IDs is assumed.

`PlainInv` says the same of the suffixes without a weapon: one for each tier of
each combination that the loops over sizes and combinations have passed, none of
another. With `DrawnRolesRoll` it joins the two programs, as far as the
configuration names all attributes: a role the server draws fits valid
combinations, and each of these has a suffix in every tier of the configuration.

`EveryWrittenIdFits` needs the numbering: the check of the limit reads the
counter and not the suffixes, so it protects them only because no suffix has a
number at or beyond the counter. `OutputPhases` adds to `NoMixedOutputs` that no
output is written, wholly or in part, while outputs are truncated and none is old
afterwards.

In `DbcFile` the offsets of a block are defined by recursion over its strings, the
sorted offsets by counting, and a row is interned string by string, so the
proofs need induction over data. The library's induction theorems cannot be
instantiated by the installed provers. `Induction` is therefore proved here for
sets of numbers, from the fact that each non-empty set of naturals has a least
member (`LeastNumber`, from the finiteness of an interval), and `Recursion` from it:
there is exactly one function with the values that a recursive definition asks
for. On them rest `OffsetsDef` and `OffsetsUnique` (the offsets of a block,
and that nothing else has their differences), `SortedDef` (what sorting a finite
set of numbers returns) and `InternAllKeeps`.

The inductive invariant `IInv` of `DbcFile` says of the memory (`MemOK`) that no
string reaches behind the size of the block and that the block has every string of
every row. The first part makes it safe to put the next string at the size: what
is written over there can only be an empty string. The second is why any inverse
that the random map order chooses reads back. Both also hold of blocks that are
not clean. Of the files it says (`InvFile`) that the source can be read, and that
the output is broken from the time it is opened until a run has finished.
For clean ones, `Chain` adds that each string is followed by the
next string, or by the place for the next; `EndAppend` closes it (`Closed`), and a closed
block passes the test of `Export` (`ClosedIsContiguous`), since the offsets of the
chain are the only solution of what the test asks for (`OffsetsUnique`).

Only model-checked: `RollEnds` and `BootCompletes`, since liveness is out of the
prover's reach. `RollsAreBounded` is the safe half of `RollEnds`: a roll can take
only so many steps, and what TLC adds on small instances is that fairness makes it
take them.

## 5. What is not modelled

- Names and display names of suffixes, the allocation points the generator gives
  to each tier, the text of SQL and CSV rows.
- The numbers by which the C++ and the Go code call attributes and categories: one
  vocabulary (`SuffixAttributes`) serves both sides, so `DrawnRoleHasSuffix` and
  `PlainSuffixesAreComplete` cannot see the two enumerations drift apart.
- The number fields, signature and schema checks of DBC files, the conversion
  between DBC and CSV (the generator does not go through it).
- The tests that the core patch takes out of item links: they concern chat only.
- The chat message after a roll, the login message, debug logs, `getLevelOffset`
  (never called), generated enumerations, loader, client patcher, data files.

## 6. What is left

1. The generator's names (`SuffixMaskToNames`, duplicates, `seenNames`) and
   allocation points per tier, with the penalty of weapons.
2. One module that composes `SuffixGenerator` and `SuffixTables`, so that
   `CatalogAssumption` is a consequence of what the generator writes. What it
   needs of the IDs, that a script has exactly those from its first to the one
   before `nextID`, is `SuffixIdsAreContiguous`.
3. Number fields in `DbcFile`.
