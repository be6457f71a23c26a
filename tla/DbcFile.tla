------------------------------ MODULE DbcFile ------------------------------
(***************************************************************************)
(* How the generator extends a DBC file (golang/pkg/dbc): extract it into  *)
(* memory, append rows to it, export it. Only the string fields matter     *)
(* here, the others are copied. The output is emptied when it is opened,   *)
(* before the first row is appended, and may be the file that was read.    *)
(*                                                                         *)
(* In a file a string field is an offset into the string block, and the    *)
(* block is a list of strings with a NUL byte between two of them, so that *)
(* a block that ends in NUL ends in an empty string. In memory a field is  *)
(* its string, and the block is a map from offsets to strings; which       *)
(* offset export writes for a string that occurs at several is decided by  *)
(* the iteration order of a Go map, which is random.                       *)
(***************************************************************************)
EXTENDS Integers, FiniteSets, Sequences, SequencesExt

CONSTANTS
    Text,           \* the strings that are not empty
    TextLen,        \* [Text -> length in bytes]
    Fields,         \* the number of string fields of a record
    Sources,        \* the files to start from
    CsvData,        \* what AppendFromCSVData may be called with
    MaxAppends      \* bound on the appends of a behaviour

Empty == ""

String == Text \cup {Empty}

ASSUME TextAssumption ==
    /\ Empty \notin Text
    /\ TextLen \in [Text -> Nat \ {0}]
    /\ Fields \in Nat
    /\ MaxAppends \in Nat

Size(s) == IF s = Empty THEN 0 ELSE TextLen[s]

-----------------------------------------------------------------------------
(***************************************************************************)
(* A file: [count, blockSize, records, strings]. count and blockSize are   *)
(* header fields. records are sequences of offsets. A file without strings *)
(* is broken: not even its string block is there.                          *)
(* No run reads a broken file here; in the program it fails on one, or      *)
(* takes the last bytes of its records for the string block.               *)
(***************************************************************************)
NoFile == [count |-> 0, blockSize |-> 0, records |-> <<>>, strings |-> <<>>]

Whole(f) == f.strings # <<>>

\* The offset of each string of a block.
Offsets(strings) ==
    LET off[i \in 1..Len(strings)] ==
            IF i = 1 THEN 0 ELSE off[i - 1] + Size(strings[i - 1]) + 1
    IN  off

\* The bytes of the block: its strings, and the NULs between them.
Bytes(strings) == Offsets(strings)[Len(strings)] + Size(Last(strings))

\* extractStrings.
Block(strings) ==
    LET off == Offsets(strings) IN
    [o \in {off[i] : i \in DOMAIN strings} |->
        strings[CHOOSE i \in DOMAIN strings : off[i] = o]]

\* extractData: an offset that is not in the map reads as the empty string.
StringAt(block, o) == IF o \in DOMAIN block THEN block[o] ELSE Empty

Row(block, record) == [k \in DOMAIN record |-> StringAt(block, record[k])]

\* DBC.extract.
Extract(f) ==
    LET block == Block(f.strings) IN
    [count |-> f.count, size |-> f.blockSize, block |-> block,
     data |-> [i \in 1..f.count |-> Row(block, f.records[i])]]

CsvRow == [strings : Seq(String), parses : BOOLEAN]

\* The files to start from are what NewDBCFromFile can read: the block is the
\* last blockSize bytes of the file, and count records come before it.
ASSUME SourceAssumption ==
    /\ \A f \in Sources :
          /\ f \in [count : Nat, blockSize : Nat,
                    records : Seq([1..Fields -> Int]), strings : Seq(String)]
          /\ f.strings # <<>>
          /\ f.count = Len(f.records)
          /\ f.blockSize = Bytes(f.strings)
    /\ CsvData \subseteq [fields : Nat, rows : Seq(CsvRow)]

-----------------------------------------------------------------------------
VARIABLES
    pc,         \* "extract", "append", "rows", "export", then "done" or an error
    source,     \* what this run reads; if its output goes to the same path,
                \* it is lost on disk as soon as the output is opened
    file,       \* the output
    mem,        \* the DBC in memory: [count, size, block, data]
    rows,       \* the CSV rows left to append
    appends     \* appends so far

vars == <<pc, source, file, mem, rows, appends>>

NoDbc == [count |-> 0, size |-> 0, block |-> <<>>, data |-> <<>>]

Init ==
    /\ pc = "extract"
    /\ source \in Sources
    /\ file = NoFile
    /\ mem = NoDbc
    /\ rows = <<>>
    /\ appends = 0

\* NewDBCFromFile, then mkDirAndOpenFile: the output is truncated.
ReadDbc ==
    /\ pc = "extract"
    /\ mem' = Extract(source)
    /\ file' = NoFile
    /\ pc' = "append"
    /\ UNCHANGED <<source, rows, appends>>

\* The block without the empty strings behind its first one.
DropEmpties(block) ==
    [o \in {o \in DOMAIN block : block[o] # Empty \/ o = 0} |-> block[o]]

\* The first part of AppendFromCSVData: the header's record count is that of
\* all the rows, whether they will be appended or not.
BeginAppend ==
    /\ pc = "append"
    /\ appends < MaxAppends
    /\ \E csv \in CsvData :
          IF csv.fields # Fields
             THEN pc' = "failed" /\ UNCHANGED <<mem, rows>>
             ELSE /\ pc' = "rows"
                  /\ rows' = csv.rows
                  /\ mem' = [mem EXCEPT !.count = @ + Len(csv.rows),
                                        !.block = DropEmpties(@)]
    /\ appends' = appends + 1
    /\ UNCHANGED <<source, file>>

\* block[o] = s, in place of what was at o.
Put(block, o, s) == [p \in DOMAIN block \cup {o} |-> IF p = o THEN s ELSE block[p]]

Occurs(m, s) == \E o \in DOMAIN m.block : m.block[o] = s

\* Mutants of Intern: the size does not advance; it does, but not by the NUL.
InternInPlace(m, s) ==
    IF s = Empty \/ Occurs(m, s) THEN m ELSE [m EXCEPT !.block = Put(@, m.size, s)]
InternWithoutNul(m, s) ==
    IF s = Empty \/ Occurs(m, s) THEN m
    ELSE [m EXCEPT !.block = Put(@, m.size, s), !.size = @ + Size(s)]

\* A string that the block does not have yet goes to its end.
Intern(m, s) ==
    IF s = Empty \/ Occurs(m, s) THEN m
    ELSE [m EXCEPT !.block = Put(@, m.size, s), !.size = @ + Size(s) + 1]

\* One string field after the other.
InternAll(m, strings) ==
    LET after[k \in 0..Len(strings)] ==
            IF k = 0 THEN m ELSE Intern(after[k - 1], strings[k])
    IN  after[Len(strings)]

\* One turn of the loop over the rows. A row of the wrong length fails before
\* its strings are looked at, one with a value that does not parse after them.
AppendRow ==
    /\ pc = "rows" /\ rows # <<>>
    /\ LET row == Head(rows) IN
       IF Len(row.strings) # Fields
          THEN pc' = "failed" /\ UNCHANGED <<mem, rows>>
          ELSE LET m == InternAll(mem, row.strings) IN
               IF ~row.parses
                  THEN pc' = "failed" /\ mem' = m /\ UNCHANGED rows
                  ELSE /\ mem' = [m EXCEPT !.data = Append(@, row.strings)]
                       /\ rows' = Tail(rows)
                       /\ UNCHANGED pc
    /\ UNCHANGED <<source, file, appends>>

\* Mutant of EndAppend: the size counts the last NUL once more.
EndAppendCountsNul ==
    /\ pc = "rows" /\ rows = <<>>
    /\ mem' = [mem EXCEPT !.block = Put(@, mem.size, Empty), !.size = @ + 1]
    /\ pc' = "export"
    /\ UNCHANGED <<source, file, rows, appends>>

\* The last line of AppendFromCSVData: the block ends in NUL again.
EndAppend ==
    /\ pc = "rows" /\ rows = <<>>
    /\ mem' = [mem EXCEPT !.block = Put(@, mem.size, Empty)]
    /\ pc' = "export"
    /\ UNCHANGED <<source, file, rows, appends>>

\* stringBlockOffsets: any of the offsets of a string.
Inverses(block) ==
    LET strings == {block[o] : o \in DOMAIN block} IN
    {inv \in [strings -> DOMAIN block] : \A s \in strings : block[inv[s]] = s}

\* A string without an offset is written as Go's zero value.
OffsetFor(inv, s) == IF s \in DOMAIN inv THEN inv[s] ELSE 0

\* The numbers of s in ascending order.
Sorted(s) ==
    [i \in 1..Cardinality(s) |-> CHOOSE o \in s : Cardinality({p \in s : p < o}) = i - 1]

\* The test of Export on the sorted offsets: every string starts behind the
\* NUL of the one before.
Contiguous(block) ==
    LET offs == Sorted(DOMAIN block) IN
    \A i \in DOMAIN offs :
        offs[i] = IF i = 1 THEN 0 ELSE offs[i - 1] + Size(block[offs[i - 1]]) + 1

\* The strings of a block by ascending offset.
Strings(block) ==
    LET offs == Sorted(DOMAIN block) IN [i \in DOMAIN offs |-> block[offs[i]]]

\* Header and records, with the strings behind them.
Written(m, inv, strings) ==
    [count |-> m.count, blockSize |-> m.size, strings |-> strings,
     records |-> [i \in DOMAIN m.data |-> [k \in 1..Fields |-> OffsetFor(inv, m.data[i][k])]]]

\* Mutant of Export: the offsets are tested when the strings are written too.
ExportTestsLast ==
    /\ pc = "export"
    /\ \E inv \in Inverses(mem.block) : file' = Written(mem, inv, Strings(mem.block))
    /\ pc' = IF Contiguous(mem.block) THEN "done" ELSE "refused"
    /\ UNCHANGED <<source, mem, rows, appends>>

\* DBC.Export. Header and records have been written when the offsets are
\* tested: a refused export leaves them in the output, without a string block.
Export ==
    /\ pc = "export"
    /\ \E inv \in Inverses(mem.block) :
          IF Contiguous(mem.block)
             THEN file' = Written(mem, inv, Strings(mem.block)) /\ pc' = "done"
             ELSE file' = Written(mem, inv, <<>>) /\ pc' = "refused"
    /\ UNCHANGED <<source, mem, rows, appends>>

\* The generator is run again: on the file it has written, or on the file it
\* has read, after whatever end the run had, if the output has another path.
RunAgain ==
    /\ pc \in {"done", "failed", "refused"}
    /\ appends < MaxAppends
    /\ \/ UNCHANGED source
       \/ pc = "done" /\ source' = file
    /\ pc' = "extract"
    /\ mem' = NoDbc
    /\ rows' = <<>>
    /\ UNCHANGED <<file, appends>>

Next ==
    \/ ReadDbc \/ BeginAppend \/ AppendRow \/ EndAppend \/ Export \/ RunAgain

Spec == Init /\ [][Next]_vars

-----------------------------------------------------------------------------
\* The header of an exported file tells its reader where the string block
\* starts and how many records there are.
HeaderFits ==
    pc = "done" =>
        /\ file.count = Len(file.records)
        /\ file.blockSize = Bytes(file.strings)

\* An exported file reads back as what was exported: whichever offset was
\* written for a string that occurs twice, and whatever file it was made from,
\* every field of every old and new row has its string.
ReadsBack == pc = "done" => Extract(file).data = mem.data

\* A whole output has all the rows of the file that was read, unchanged and in
\* front: whatever runs on whatever files came before, ended in whatever way.
\* A run that fails or is refused has destroyed the output of the one before it,
\* and its own source if that is the same file: the file it leaves has no string
\* block, never one that goes with fewer or other rows.
KeepsRows ==
    Whole(file) => IsPrefix(Extract(source).data, Extract(file).data)

\* A block with the shape of the game's files: it begins and ends in NUL and
\* has no empty string in between.
CleanBlock(strings) ==
    /\ Len(strings) >= 2
    /\ \A i \in DOMAIN strings : strings[i] = Empty <=> i \in {1, Len(strings)}

\* What was read from a file with such a block is exported, never refused, and
\* the result has such a block: what the generator writes it can extend again,
\* in the same place too.
CleanIsExported ==
    [][pc = "export" /\ CleanBlock(source.strings) =>
         pc' = "done" /\ CleanBlock(file'.strings)]_vars

\* The offsets of a file's records are offsets into its string block.
OffsetsInBlock ==
    pc = "done" => \A i \in DOMAIN file.records, k \in 1..Fields :
                       file.records[i][k] < file.blockSize
=============================================================================
