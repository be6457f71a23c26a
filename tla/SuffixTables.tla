---------------------------- MODULE SuffixTables ----------------------------
(***************************************************************************)
(* The world database tables of the module and the SQL script that fills   *)
(* them (generated_sql.tmpl.sql). The script is a list of statements, each *)
(* of them durable on its own: there is no transaction around them, so     *)
(* whoever runs the script can be stopped between any two of them, and     *)
(* another session sees every intermediate state.                          *)
(*                                                                         *)
(* A table of suffixes is a function on SuffixId that says from which      *)
(* generation of the script the row with that ID comes, or NoRow. What the *)
(* row says is Catalog[g].suffix[id].                                      *)
(***************************************************************************)
EXTENDS SuffixQuery

CONSTANTS
    Generation,     \* the scripts the generator has produced, oldest first
    Foreign,        \* the origin of rows that no script of ours inserted
    NoRow,          \* no row with this ID
    SuffixId,       \* the IDs the tables can hold
    Catalog,        \* Catalog[g] = [first, next, suffix], see CatalogAssumption
    ForeignIds      \* the IDs of rows other modules keep in itemrandomsuffix_dbc

\* The IDs of the suffixes of g: the generator numbers them from the start
\* ID up, and irsDBCID, here next, is one past the last of them.
Ids(g) == {id \in SuffixId : Catalog[g].first <= id /\ id < Catalog[g].next}

\* Mutant of DeletedIds: the DELETE misses the last suffix.
DeletedIdsButLast(g) ==
    {id \in SuffixId : Catalog[g].first <= id /\ id < Catalog[g].next - 1}

\* The IDs the DELETE of g's script removes: its upper bound is inclusive.
DeletedIds(g) ==
    {id \in SuffixId : Catalog[g].first <= id /\ id <= Catalog[g].next}

Suffix(g, id) == Catalog[g].suffix[id]

ASSUME SuffixIdAssumption == SuffixId \subseteq Nat \ {0}

ASSUME OriginAssumption ==
    /\ Generation \subseteq Nat \ {0}
    /\ Foreign \notin Generation
    /\ NoRow \notin Generation
    /\ NoRow # Foreign

\* Every ID of a script has a suffix, and no script inserts an ID another
\* module owns.
ASSUME CatalogAssumption ==
    \A g \in Generation :
        /\ Catalog[g].first \in Nat
        /\ Catalog[g].next \in Nat
        /\ Ids(g) \subseteq DOMAIN Catalog[g].suffix
        /\ ForeignIds \cap Ids(g) = {}

Origin == Generation \cup {Foreign, NoRow}

\* Nobody runs a script.
NoStatement == 0

(***************************************************************************)
(* The statements, in the order of the template.                           *)
(***************************************************************************)
DeleteEnchants == 1     \* DELETE FROM spellitemenchantment_dbc
InsertEnchants == 2     \* INSERT INTO spellitemenchantment_dbc
DeleteSuffixes == 3     \* DELETE FROM itemrandomsuffix_dbc
InsertSuffixes == 4     \* INSERT INTO itemrandomsuffix_dbc
DropRolls      == 5     \* DROP TABLE IF EXISTS item_enchantment_random_suffixes
CreateRolls    == 6     \* CREATE TABLE item_enchantment_random_suffixes
InsertRolls    == 7     \* INSERT INTO item_enchantment_random_suffixes

Statement == DeleteEnchants .. InsertRolls

EndOfScript == InsertRolls + 1

\* The IDs of customSpellItemEnchantDBCCSVEntries: Expertise and Parry.
CustomEnchants == {9991, 9992}

VARIABLES
    enchs,      \* the custom rows of spellitemenchantment_dbc
    dbc,        \* itemrandomsuffix_dbc: SuffixId -> Origin
    hasRolls,   \* does the table item_enchantment_random_suffixes exist?
    rolls       \* item_enchantment_random_suffixes: SuffixId -> Origin

tables == <<enchs, dbc, hasRolls, rolls>>

NoRows == [id \in SuffixId |-> NoRow]

TablesTypeOK ==
    /\ enchs \in SUBSET CustomEnchants
    /\ dbc \in [SuffixId -> Origin]
    /\ hasRolls \in BOOLEAN
    /\ rolls \in [SuffixId -> Origin]

\* A database the module was never installed on.
TablesInit ==
    /\ enchs = {}
    /\ dbc = [id \in SuffixId |-> IF id \in ForeignIds THEN Foreign ELSE NoRow]
    /\ hasRolls = FALSE
    /\ rolls = NoRows

Occupied(t) == {id \in SuffixId : t[id] # NoRow}

\* t with the rows of ids, coming from o.
WithRows(t, ids, o) == [id \in SuffixId |-> IF id \in ids THEN o ELSE t[id]]

-----------------------------------------------------------------------------
(***************************************************************************)
(* The statements of g's script. A statement that runs is an action; one   *)
(* that MySQL refuses (a duplicate key, a table that is there or is not)   *)
(* changes nothing and ends the script: Refused(n, g).                     *)
(***************************************************************************)
ExecDeleteEnchants(g) ==
    /\ enchs' = {}
    /\ UNCHANGED <<dbc, hasRolls, rolls>>

ExecInsertEnchants(g) ==
    /\ enchs = {}
    /\ enchs' = CustomEnchants
    /\ UNCHANGED <<dbc, hasRolls, rolls>>

ExecDeleteSuffixes(g) ==
    /\ dbc' = WithRows(dbc, DeletedIds(g), NoRow)
    /\ UNCHANGED <<enchs, hasRolls, rolls>>

ExecInsertSuffixes(g) ==
    /\ Ids(g) \cap Occupied(dbc) = {}
    /\ dbc' = WithRows(dbc, Ids(g), g)
    /\ UNCHANGED <<enchs, hasRolls, rolls>>

ExecDropRolls(g) ==
    /\ hasRolls' = FALSE
    /\ rolls' = NoRows
    /\ UNCHANGED <<enchs, dbc>>

ExecCreateRolls(g) ==
    /\ ~hasRolls
    /\ hasRolls' = TRUE
    /\ rolls' = NoRows
    /\ UNCHANGED <<enchs, dbc>>

ExecInsertRolls(g) ==
    /\ hasRolls
    /\ Ids(g) \cap Occupied(rolls) = {}
    /\ rolls' = WithRows(rolls, Ids(g), g)
    /\ UNCHANGED <<enchs, dbc, hasRolls>>

Exec(n, g) ==
    \/ n = DeleteEnchants /\ ExecDeleteEnchants(g)
    \/ n = InsertEnchants /\ ExecInsertEnchants(g)
    \/ n = DeleteSuffixes /\ ExecDeleteSuffixes(g)
    \/ n = InsertSuffixes /\ ExecInsertSuffixes(g)
    \/ n = DropRolls      /\ ExecDropRolls(g)
    \/ n = CreateRolls    /\ ExecCreateRolls(g)
    \/ n = InsertRolls    /\ ExecInsertRolls(g)

Refused(n, g) ==
    \/ n = InsertEnchants /\ enchs # {}
    \/ n = InsertSuffixes /\ Ids(g) \cap Occupied(dbc) # {}
    \/ n = CreateRolls /\ hasRolls
    \/ n = InsertRolls /\ (~hasRolls \/ Ids(g) \cap Occupied(rolls) # {})

\* MyISAM keeps the rows an interrupted INSERT had written already.
TornInsertRolls(g) ==
    /\ hasRolls
    /\ Ids(g) \cap Occupied(rolls) = {}
    /\ \E ids \in SUBSET Ids(g) : rolls' = WithRows(rolls, ids, g)
    /\ UNCHANGED <<enchs, dbc, hasRolls>>

-----------------------------------------------------------------------------
\* The tables are what a complete run of g's script leaves.
Installed(g) ==
    /\ enchs = CustomEnchants
    /\ hasRolls
    /\ \A id \in SuffixId : rolls[id] = IF id \in Ids(g) THEN g ELSE NoRow
    /\ \A id \in Ids(g) : dbc[id] = g
=============================================================================
