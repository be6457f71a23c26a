----------------------------- MODULE MCDbcFile -----------------------------
(***************************************************************************)
(* Files of up to two records and four strings, strings of one and two     *)
(* bytes, two string fields (ItemRandomSuffix has a name and an internal   *)
(* name), and two runs of the generator.                                   *)
(***************************************************************************)
EXTENDS DbcFile

MCTextLen == [a |-> 1, b |-> 2, c |-> 2]
MCText == DOMAIN MCTextLen

Blocks ==
    {<<"", "a", "">>, <<"", "b", "a", "">>,     \* the game's
     <<"", "a", "a", "">>,                      \* a string twice
     <<"", "a", "", "b", "">>,                  \* an empty string inside
     <<"", "a", "b">>,                          \* no NUL at the end
     <<"a", "">>}                               \* no NUL at the start

RecordsOf(strings) ==
    LET off == Offsets(strings) IN
    [1..2 -> {off[i] : i \in DOMAIN strings}]

MCSources ==
    {[count |-> 1, blockSize |-> Bytes(strings), records |-> <<r>>, strings |-> strings] :
        <<strings, r>> \in UNION {{<<s, r>> : r \in RecordsOf(s)} : s \in Blocks}}

\* The game's own files: an empty field points at the first NUL.
MCGameSources ==
    {f \in MCSources :
        /\ CleanBlock(f.strings)
        /\ \A i \in DOMAIN f.records, k \in 1..2 : f.records[i][k] < f.blockSize}

GoodRow(strings) == [strings |-> strings, parses |-> TRUE]

MCCsvData ==
    {[fields |-> 2, rows |-> <<GoodRow(<<s, t>>)>>] : s, t \in {"", "a", "b", "c"}}
    \cup {[fields |-> 2, rows |-> <<GoodRow(<<"b", "">>), GoodRow(<<"c", "b">>)>>],
          [fields |-> 2, rows |-> <<GoodRow(<<"c", "">>), [strings |-> <<"b">>, parses |-> TRUE]>>],
          [fields |-> 2, rows |-> <<[strings |-> <<"c", "b">>, parses |-> FALSE]>>],
          [fields |-> 3, rows |-> <<>>]}
=============================================================================
