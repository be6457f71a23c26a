--------------------------- MODULE AddItemCommand ---------------------------
(***************************************************************************)
(* The chat command additemwsuffix (HandleAddItemCommand), by which a game *)
(* master gives a player items of a template with a random property of     *)
(* their choice, or takes some away, beside the hooks that roll for the    *)
(* same items. One template whose items do not stack: the module rolls for *)
(* weapons and armour only.                                                *)
(*                                                                         *)
(* A chat command runs between two updates of the maps, so no hook comes   *)
(* between its steps, except the one it causes itself: StoreNewItem fires  *)
(* OnStoreNewItem for the item it returns, the last of those it made.      *)
(***************************************************************************)
EXTENDS Integers, FiniteSets

CONSTANTS
    Item,           \* bound on the items that exist at the same time
    Player,
    GameMaster,     \* the player who gives the commands
    PlayerAccount,  \* the players whose account has security SEC_PLAYER
    Nobody,         \* holds the items that do not exist
    NoItem,
    Number,         \* the numbers the game master asks for
    Known,          \* those of them that one of the core's stores knows
    Natural,        \* the numbers of items that the core hands out
    Rolled,         \* the numbers a hook can roll
    Count           \* the counts the game master asks for

ASSUME CommandAssumption ==
    /\ IsFiniteSet(Item)
    /\ GameMaster \in Player
    /\ PlayerAccount \subseteq Player
    /\ Nobody \notin Player
    /\ NoItem \notin Item
    /\ UNION {Number, Natural, Rolled, Count} \subseteq Int
    /\ Known \subseteq Number
    /\ 0 \notin Known /\ 0 \notin Rolled

VARIABLES
    owner,      \* [Item -> who holds it]
    property,   \* [Item -> GetItemRandomPropertyId]
    bound,      \* [Item -> is it soulbound?]
    cmd,        \* the command in progress: [at, target, count, suffID, item]
    report,     \* what the last command said it destroyed, 0 if nothing
    asked       \* [Item -> the known number a command has asked for, or 0]

vars == <<owner, property, bound, cmd, report, asked>>

Idle == [at |-> "idle", target |-> GameMaster, count |-> 0, suffID |-> 0, item |-> NoItem]

Init ==
    /\ owner = [i \in Item |-> Nobody]
    /\ property = [i \in Item |-> 0]
    /\ bound = [i \in Item |-> FALSE]
    /\ cmd = Idle
    /\ report = 0
    /\ asked = [i \in Item |-> 0]

Held(p) == {i \in Item : owner[i] = p}

\* f with the value v for the items of s.
With(f, s, v) == [i \in Item |-> IF i \in s THEN v ELSE f[i]]

-----------------------------------------------------------------------------
\* Mutant of MayStart: the test of the item's random property is missing.
MayStartAgain(i) == TRUE

\* RollPossibleEnchant tests the item's random property.
MayStart(i) == property[i] = 0

\* A hook rolls a suffix for i, or none.
Rolls(i) ==
    \/ \E n \in Rolled : property' = [property EXCEPT ![i] = n]
    \/ UNCHANGED property

\* An item that p has looted, made or bought, bare or with a property that the
\* core has rolled for it.
Receive(p, i) ==
    /\ cmd = Idle
    /\ i \in Held(Nobody)
    /\ owner' = [owner EXCEPT ![i] = p]
    /\ bound' = [bound EXCEPT ![i] = TRUE]
    /\ \E n \in Natural : property' = [property EXCEPT ![i] = n]
    /\ UNCHANGED <<cmd, report, asked>>

\* A hook fires for an item that a player holds.
Hook(i) ==
    /\ cmd = Idle
    /\ i \notin Held(Nobody)
    /\ MayStart(i)
    /\ Rolls(i)
    /\ UNCHANGED <<owner, bound, cmd, report, asked>>

-----------------------------------------------------------------------------
\* Mutant of Ask: zero is not turned into one.
AskRaw ==
    /\ cmd = Idle
    /\ \E p \in Player, n \in Count, s \in Number :
          cmd' = [at |-> IF n < 0 THEN "subtract" ELSE "add", target |-> p,
                  count |-> n, suffID |-> s, item |-> NoItem]
    /\ report' = 0
    /\ UNCHANGED <<owner, property, bound, asked>>

\* The arguments: a count of zero means one; negative counts subtract.
Ask ==
    /\ cmd = Idle
    /\ \E p \in Player, n \in Count, s \in Number :
          cmd' = [at |-> IF n < 0 THEN "subtract" ELSE "add", target |-> p,
                  count |-> IF n = 0 THEN 1 ELSE n, suffID |-> s, item |-> NoItem]
    /\ report' = 0
    /\ UNCHANGED <<owner, property, bound, asked>>

\* Mutant of HasItemCount: only the test for any item at all is left.
HasSomeItem(p, n) == Held(p) # {}

HasItemCount(p, n) == Held(p) # {} /\ Cardinality(Held(p)) >= n

\* "Only have scam check on player accounts".
SubtractRefused ==
    /\ cmd.at = "subtract"
    /\ cmd.target \in PlayerAccount
    /\ ~HasItemCount(cmd.target, -cmd.count)
    /\ cmd' = Idle
    /\ UNCHANGED <<owner, property, bound, report, asked>>

\* DestroyItemCount destroys as many as it finds.
Subtract ==
    /\ cmd.at = "subtract"
    /\ cmd.target \in PlayerAccount => HasItemCount(cmd.target, -cmd.count)
    /\ \E gone \in SUBSET Held(cmd.target) :
          /\ \/ Cardinality(gone) = -cmd.count
             \/ gone = Held(cmd.target) /\ Cardinality(gone) < -cmd.count
          /\ owner' = With(owner, gone, Nobody)
          /\ property' = With(property, gone, 0)
          /\ bound' = With(bound, gone, FALSE)
          /\ asked' = With(asked, gone, 0)
    /\ report' = -cmd.count
    /\ cmd' = Idle

\* CanStoreNewItem has no place for any.
AddRefused ==
    /\ cmd.at = "add"
    /\ cmd' = Idle
    /\ UNCHANGED <<owner, property, bound, report, asked>>

\* CanStoreNewItem has places for some, or all; StoreNewItem fills them, and
\* what game masters give to themselves is unbound again.
Store ==
    /\ cmd.at = "add"
    /\ \E new \in SUBSET Held(Nobody) \ {{}} :
          /\ Cardinality(new) <= cmd.count
          /\ owner' = With(owner, new, cmd.target)
          /\ bound' = With(bound, new, cmd.target # GameMaster)
          /\ \E last \in new :
                /\ cmd' = [cmd EXCEPT !.at = "set", !.item = last]
                /\ Rolls(last)
    /\ UNCHANGED <<report, asked>>

\* What Item::SetItemRandomProperties(n) leaves on an item.
RandomProperties(old, n) == IF n \in Known THEN n ELSE old

\* Only the last of several new items gets the number.
SetItemRandomProperties ==
    /\ cmd.at = "set"
    /\ property' = [property EXCEPT ![cmd.item] = RandomProperties(@, cmd.suffID)]
    /\ asked' = [asked EXCEPT ![cmd.item] = IF cmd.suffID \in Known THEN cmd.suffID ELSE 0]
    /\ cmd' = Idle
    /\ UNCHANGED <<owner, bound, report>>

Next ==
    \/ \E p \in Player, i \in Item : Receive(p, i)
    \/ \E i \in Item : Hook(i)
    \/ Ask
    \/ SubtractRefused \/ Subtract
    \/ AddRefused \/ Store \/ SetItemRandomProperties

Spec == Init /\ [][Next]_vars

-----------------------------------------------------------------------------
\* The types of the variables. A command that has passed its arguments on adds
\* or subtracts one item at least; the item it sets is one that its target
\* holds; what does not exist has no properties.
TypeOK ==
    /\ owner \in [Item -> Player \cup {Nobody}]
    /\ property \in [Item -> Int]
    /\ bound \in [Item -> BOOLEAN]
    /\ cmd \in [at : {"idle", "subtract", "add", "set"}, target : Player, count : Int,
                suffID : Int, item : Item \cup {NoItem}]
    /\ cmd.at = "subtract" => cmd.count < 0
    /\ cmd.at \in {"add", "set"} => cmd.count > 0
    /\ cmd.at = "set" => cmd.item \in Held(cmd.target)
    /\ report \in Nat
    /\ asked \in [Item -> Int]
    /\ \A i \in Held(Nobody) : property[i] = 0 /\ asked[i] = 0

\* The item a game master has asked a suffix for has that suffix, whatever the
\* hook that the command itself sets off has rolled for it before, and
\* whatever hooks fire for it later.
AskedIsWorn == \A i \in Item : asked[i] # 0 => property[i] = asked[i]

\* Players lose all the items a game master wants to take from them, or none:
\* the two tests of HandleAddItemCommand that guard DestroyItemCount.
AllOrNothing ==
    [][\A p \in PlayerAccount :
          LET lost == Held(p) \ Held(p)' IN
          lost # {} => Cardinality(lost) = -cmd.count]_vars

\* "output successful amount of destroyed items": the number a game master
\* reads is the number of items that are gone.
ReportsDestroyed ==
    [][report' # report /\ report' # 0 =>
          report' = Cardinality(Held(cmd.target)) - Cardinality(Held(cmd.target)')]_vars
=============================================================================
