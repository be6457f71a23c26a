--------------------------- MODULE SuffixContract ---------------------------
(***************************************************************************)
(* What the module promises, without tables, stores, queries or threads:   *)
(* an item that has no random property may receive a suffix of the catalog *)
(* the server runs on, one that suits the item, and keeps it. Only what    *)
(* was not saved can be lost, and only to a crash.                         *)
(***************************************************************************)
EXTENDS Integers

CONSTANTS
    Item,
    Catalogs,   \* the catalogs of suffixes the server can run on
    NoCatalog,  \* before the first one
    Suitable,   \* Suitable[c][i]: the suffixes of catalog c that suit item i,
                \* by their IDs, which are positive
    Natural     \* Natural[i]: the random property item i was created with

VARIABLES catalog, property, saved

Init ==
    /\ catalog = NoCatalog
    /\ property = Natural
    /\ saved = Natural

Assign(i) ==
    /\ property[i] = 0
    /\ catalog \in Catalogs
    /\ \E id \in Suitable[catalog][i] : property' = [property EXCEPT ![i] = -id]
    /\ UNCHANGED <<catalog, saved>>

Save(i) ==
    /\ saved' = [saved EXCEPT ![i] = property[i]]
    /\ UNCHANGED <<catalog, property>>

Lose ==
    /\ property' = saved
    /\ UNCHANGED <<catalog, saved>>

ChangeCatalog ==
    /\ catalog' \in Catalogs
    /\ UNCHANGED <<property, saved>>

Next ==
    \/ \E i \in Item : Assign(i) \/ Save(i)
    \/ Lose
    \/ ChangeCatalog

Spec == Init /\ [][Next]_<<catalog, property, saved>>
=============================================================================
