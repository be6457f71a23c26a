---------------------- MODULE WorldServer_boot_proofs ----------------------
(***************************************************************************)
(* Proof that interrupted imports are repaired: with no script run by hand *)
(* the tables of a server that is up are those of the recorded script.     *)
(***************************************************************************)
EXTENDS WorldServer_proofs

LEMMA BootInit == Init => BootInv
  <1> SUFFICES ASSUME Init PROVE BootInv
    OBVIOUS
  <1>1. recorded = 0 /\ script \in Nat \ {0}
    BY OriginAssumption DEF Init, NoScript
  <1> QED
    BY <1>1 DEF Init, BootInv, ImportInv, NoJob, Runner, UpIsInstalled

\* One statement of g's script further.
LEMMA DoneStep ==
    ASSUME TablesTypeOK, NEW n \in Statement, NEW g \in Generation,
           DoneBefore(n, g), Exec(n, g)
    PROVE  DoneBefore(n + 1, g)'
  <1> USE DEF DeleteEnchants, InsertEnchants, DeleteSuffixes, InsertSuffixes,
              DropRolls, CreateRolls, InsertRolls, EndOfScript, Statement
  <1>1. CASE n = DeleteEnchants
    BY <1>1 DEF Exec, ExecDeleteEnchants, DoneBefore
  <1>2. CASE n = InsertEnchants
    BY <1>2 DEF Exec, ExecInsertEnchants, DoneBefore
  <1>3. CASE n = DeleteSuffixes
    <2>1. Ids(g) \subseteq DeletedIds(g)
      <3> SUFFICES ASSUME NEW id \in Ids(g) PROVE id \in DeletedIds(g)
        OBVIOUS
      <3>1. id \in SuffixId /\ Catalog[g].first <= id /\ id < Catalog[g].next
        BY DEF Ids
      <3>2. id \in Nat /\ Catalog[g].next \in Nat
        BY <3>1, CatalogAssumption, SuffixIdAssumption
      <3> QED
        BY <3>1, <3>2 DEF DeletedIds
    <2>2. Ids(g) \cap Occupied(dbc)' = {}
      BY <1>3, <2>1 DEF Exec, ExecDeleteSuffixes, Occupied, WithRows
    <2> QED
      BY <1>3, <2>2 DEF Exec, ExecDeleteSuffixes, DoneBefore
  <1>4. CASE n = InsertSuffixes
    <2>1. \A id \in Ids(g) : dbc'[id] = g
      BY <1>4 DEF Exec, ExecInsertSuffixes, WithRows, Ids
    <2> QED
      BY <1>4, <2>1 DEF Exec, ExecInsertSuffixes, DoneBefore
  <1>5. CASE n = DropRolls
    BY <1>5 DEF Exec, ExecDropRolls, DoneBefore
  <1>6. CASE n = CreateRolls
    BY <1>6 DEF Exec, ExecCreateRolls, DoneBefore
  <1>7. CASE n = InsertRolls
    <2>1. \A id \in SuffixId : rolls'[id] = IF id \in Ids(g) THEN g ELSE NoRow
      BY <1>7 DEF Exec, ExecInsertRolls, WithRows, DoneBefore, NoRows
    <2>2. Installed(g)'
      BY <1>7, <2>1 DEF Exec, ExecInsertRolls, DoneBefore, Installed
    <2> QED
      BY <1>7, <2>2 DEF Exec, ExecInsertRolls, DoneBefore
  <1> QED
    BY <1>1, <1>2, <1>3, <1>4, <1>5, <1>6, <1>7

LEMMA ImportNext ==
    ASSUME ~LiveImport, TypeOK, ImportInv, [Next]_vars
    PROVE  ImportInv'
  <1> USE DEF NoStatement
  <1>1. CASE Boot
    <2>1. CASE recorded = script
      BY <1>1, <2>1 DEF Boot, ImportInv
    <2>2. CASE recorded # script
      <3>1. /\ phase' = "import"
            /\ job' = [job EXCEPT !["importer"] =
                            [gen |-> script, next |-> DeleteEnchants]]
        BY <1>1, <2>2 DEF Boot
      <3>2. /\ job'["importer"].gen = script /\ job'["importer"].next = DeleteEnchants
            /\ job'["operator"] = job["operator"]
        BY <3>1 DEF TypeOK, Runner
      <3>3. DoneBefore(DeleteEnchants, script)'
        BY DEF DoneBefore, DeleteEnchants, InsertEnchants, DeleteSuffixes, InsertSuffixes,
               DropRolls, CreateRolls, InsertRolls, EndOfScript
      <3>4. DeleteEnchants # 0
        BY DEF DeleteEnchants
      <3>5. script' = script
        BY <1>1 DEF Boot
      <3>6. DoneBefore(job["importer"].next, job["importer"].gen)'
        BY <3>2, <3>3, <3>5
      <3> QED
        BY <3>1, <3>2, <3>4, <3>6 DEF ImportInv
    <2> QED
      BY <2>1, <2>2
  <1>2. ASSUME NEW a \in Runner, RunStatement(a) PROVE ImportInv'
    <2>1. /\ job[a].next \in Statement /\ Exec(job[a].next, job[a].gen)
          /\ job' = [job EXCEPT ![a].next = @ + 1]
          /\ phase' = phase
      BY <1>2 DEF RunStatement
    <2>2. job[a].next # 0
      BY <2>1 DEF Statement, DeleteEnchants, InsertRolls
    <2>3. a = "importer" /\ phase = "import"
      BY <2>2 DEF ImportInv, Runner, NoJob
    <2>4. job[a].gen \in Generation
      BY <2>2 DEF TypeOK
    <2>5. \A n \in Statement, g \in Generation :
            DoneBefore(n, g) /\ Exec(n, g) => DoneBefore(n + 1, g)'
      <3>1. TablesTypeOK
        BY DEF TypeOK
      <3> QED
        BY <3>1, DoneStep
    <2>6. /\ job'["importer"].gen = job["importer"].gen
          /\ job'["importer"].next = job["importer"].next + 1
          /\ job'["operator"] = job["operator"]
      BY <2>1, <2>3 DEF TypeOK, Runner
    <2>7. job["importer"].next + 1 # 0
      BY <2>1, <2>3 DEF Statement, DeleteEnchants, InsertRolls
    <2>8. DoneBefore(job["importer"].next, job["importer"].gen)'
      <3>1. PICK n \in Statement, g \in Generation :
              n = job["importer"].next /\ g = job["importer"].gen
        BY <2>1, <2>3, <2>4
      <3>2. DoneBefore(n, g) /\ Exec(n, g)
        BY <2>1, <2>3, <3>1 DEF ImportInv
      <3>3. DoneBefore(n + 1, g)'
        BY <2>5, <3>2
      <3>4. job'["importer"].next = n + 1 /\ job'["importer"].gen = g
        BY <2>6, <3>1
      <3> QED
        BY <3>3, <3>4
    <2> QED
      BY <2>1, <2>3, <2>6, <2>7, <2>8 DEF ImportInv
  <1>3. ASSUME NEW a \in Runner, FinishScript(a) \/ StatementRefused(a) PROVE ImportInv'
    <2>1. job[a].next # 0 /\ job' = [job EXCEPT ![a] = NoJob]
      BY <1>3 DEF FinishScript, StatementRefused, Statement, DeleteEnchants, InsertRolls,
                  EndOfScript
    <2>2. a = "importer"
      BY <2>1 DEF ImportInv, Runner, NoJob
    <2>3. phase' \in {"load", "down"}
      BY <1>3, <2>2 DEF FinishScript, StatementRefused
    <2>4. /\ job'["importer"] = NoJob /\ job'["operator"] = job["operator"]
      BY <2>1, <2>2 DEF TypeOK, Runner
    <2> QED
      BY <2>3, <2>4 DEF ImportInv, NoJob
  <1>4. CASE LoadStores
    BY <1>4 DEF LoadStores, ImportInv
  <1>5. CASE Crash
    <2>1. phase' = "down" /\ job' = [job EXCEPT !["importer"] = NoJob]
      BY <1>5 DEF Crash
    <2>2. /\ job'["importer"] = NoJob /\ job'["operator"] = job["operator"]
      BY <2>1 DEF TypeOK, Runner
    <2> QED
      BY <2>1, <2>2 DEF ImportInv, NoJob
  <1>6. CASE StartLiveImport
    BY <1>6 DEF StartLiveImport
  <1>7. CASE UNCHANGED <<tables, phase, job>>
    BY <1>7 DEF ImportInv, Installed, DoneBefore, tables
  <1> QED
    BY <1>1, <1>2, <1>3, <1>4, <1>5, <1>6, <1>7
    DEF Next, vars, ReplaceScript, OnBeforeConfigLoad, StartRoll, Query, Check, Apply,
        SaveItem

\* The step that ends an import finds all statements done.
LEMMA ImportEnds ==
    ASSUME ~LiveImport, TypeOK, ImportInv, NEW a \in Runner, FinishScript(a)
    PROVE  /\ a = "importer" /\ phase = "import" /\ phase' = "load"
           /\ recorded' = job[a].gen
           /\ recorded' \in Generation
           /\ Installed(recorded)'
  <1>1. job[a].next = EndOfScript
    BY DEF FinishScript
  <1>2. a = "importer" /\ phase = "import"
    BY <1>1 DEF ImportInv, Runner, NoJob, NoStatement, EndOfScript, InsertRolls
  <1>3. /\ phase' = "load" /\ recorded' = job[a].gen /\ UNCHANGED tables
    BY <1>2 DEF FinishScript
  <1>4. job[a].gen \in Generation
    BY <1>1 DEF TypeOK, EndOfScript, InsertRolls, NoStatement
  <1>5. Installed(job[a].gen)
    BY <1>1, <1>2 DEF ImportInv, DoneBefore
  <1>6. Installed(recorded)'
    BY <1>3, <1>5 DEF Installed, tables
  <1> QED
    BY <1>2, <1>3, <1>4, <1>6

LEMMA BootNext ==
    ASSUME ~LiveImport, ~MayRevert, TypeOK, BootInv, [Next]_vars
    PROVE  BootInv'
  <1> USE DEF NoScript, NoStatement
  <1>0. /\ Generation \subseteq Nat /\ "importer" \in Runner
        /\ recorded \in Nat /\ script \in Generation
    BY OriginAssumption DEF TypeOK, Runner
  <1>00. ImportInv /\ ImportInv'
    BY ImportNext DEF BootInv
  <1>01. phase = "import" =>
           /\ job["importer"].gen \in Nat
           /\ recorded # script
    <2> SUFFICES ASSUME phase = "import"
                 PROVE  job["importer"].gen \in Nat /\ recorded # script
      OBVIOUS
    <2>1. /\ job["importer"].next # 0
          /\ recorded < job["importer"].gen /\ job["importer"].gen <= script
      BY <1>00 DEF BootInv, ImportInv
    <2>2. job["importer"].gen \in Generation
      BY <1>0, <2>1 DEF TypeOK
    <2>3. job["importer"].gen \in Nat /\ script \in Nat
      BY <1>0, <2>2
    <2> QED
      BY <1>0, <2>1, <2>3
  <1>1. CASE Boot
    <2>1. CASE recorded = script
      <3>1. UNCHANGED <<job, recorded, script, tables>> /\ phase' = "load" /\ phase = "down"
        BY <1>1, <2>1 DEF Boot
      <3>2. Installed(recorded)'
        BY <2>1, <3>1 DEF BootInv, Installed, tables
      <3> QED
        BY <1>0, <1>00, <2>1, <3>1, <3>2 DEF BootInv, UpIsInstalled
    <2>2. CASE recorded # script
      <3>1. /\ phase' = "import" /\ recorded' = recorded /\ script' = script
            /\ job' = [job EXCEPT !["importer"] =
                            [gen |-> script, next |-> DeleteEnchants]]
        BY <1>1, <2>2 DEF Boot
      <3>2. job'["importer"].gen = script
        BY <1>0, <3>1 DEF TypeOK
      <3>3. recorded < script /\ recorded <= script /\ script <= script
        BY <1>0, <2>2 DEF BootInv
      <3>4. (/\ recorded < job["importer"].gen
             /\ job["importer"].gen <= script)'
        BY <3>1, <3>2, <3>3
      <3> QED
        BY <1>00, <3>1, <3>3, <3>4 DEF BootInv, UpIsInstalled
    <2> QED
      BY <2>1, <2>2
  <1>2. ASSUME NEW a \in Runner, RunStatement(a) PROVE BootInv'
    <2>1. /\ job[a].next # 0
          /\ job' = [job EXCEPT ![a].next = @ + 1]
          /\ UNCHANGED <<phase, script, recorded>>
      BY <1>2 DEF RunStatement, Statement, DeleteEnchants, InsertRolls
    <2>2. a = "importer" /\ phase = "import"
      BY <1>00, <2>1 DEF ImportInv, Runner, NoJob
    <2>3. job'["importer"].gen = job["importer"].gen
      BY <2>1, <2>2 DEF TypeOK, Runner
    <2> QED
      BY <1>00, <2>1, <2>2, <2>3 DEF BootInv, UpIsInstalled
  <1>3. ASSUME NEW a \in Runner, FinishScript(a) PROVE BootInv'
    <2>1. /\ a = "importer" /\ phase = "import" /\ phase' = "load"
          /\ recorded' = job[a].gen
          /\ recorded' \in Generation
          /\ Installed(recorded)'
      BY <1>00, <1>3, ImportEnds
    <2>2. script' = script
      BY <1>3 DEF FinishScript
    <2>3. recorded' <= script'
      BY <2>1, <2>2 DEF BootInv
    <2> QED
      BY <1>00, <2>1, <2>3 DEF BootInv, UpIsInstalled
  <1>4. ASSUME NEW a \in Runner, StatementRefused(a) PROVE BootInv'
    <2>1. job[a].next # 0
      BY <1>4 DEF StatementRefused, Statement, DeleteEnchants, InsertRolls
    <2>2. a = "importer" /\ phase = "import"
      BY <1>00, <2>1 DEF ImportInv, Runner, NoJob
    <2>3. phase' = "down" /\ UNCHANGED <<script, recorded>>
      BY <1>4, <2>2 DEF StatementRefused
    <2>4. recorded # script
      BY <1>01, <2>2
    <2> QED
      BY <1>00, <2>3, <2>4 DEF BootInv, UpIsInstalled
  <1>5. CASE LoadStores
    <2>1. /\ phase = "load" /\ phase' = "up" /\ store' = dbc
          /\ UNCHANGED <<tables, script, recorded, job>>
      BY <1>5 DEF LoadStores
    <2>2. recorded \in Generation /\ Installed(recorded)
      BY <2>1 DEF BootInv, UpIsInstalled
    <2> QED
      BY <1>00, <2>1, <2>2 DEF BootInv, UpIsInstalled, Installed, tables
  <1>6. CASE Crash
    <2>1. phase' = "down" /\ UNCHANGED <<script, recorded>>
      BY <1>6 DEF Crash
    <2>2. CASE phase = "import"
      <3>1. recorded # script
        BY <1>01, <2>2
      <3> QED
        BY <1>00, <2>1, <3>1 DEF BootInv, UpIsInstalled
    <2>3. CASE phase # "import"
      <3>1. UNCHANGED tables
        BY <1>00, <1>6, <2>3 DEF Crash, ImportInv, InsertRolls
      <3> QED
        BY <1>00, <2>1, <2>3, <3>1 DEF BootInv, UpIsInstalled, Installed, tables
    <2> QED
      BY <2>2, <2>3
  <1>7. CASE ReplaceScript
    <2>1. /\ script < script' /\ script' \in Generation
          /\ UNCHANGED <<tables, phase, recorded, job, store>>
      BY <1>0, <1>7 DEF ReplaceScript
    <2>2. recorded <= script
      BY DEF BootInv
    <2>3. recorded # script' /\ recorded <= script'
      BY <1>0, <2>1, <2>2
    <2>4. phase = "import" => job["importer"].gen <= script'
      <3>1. phase = "import" => job["importer"].gen <= script
        BY DEF BootInv
      <3> QED
        BY <1>0, <1>01, <2>1, <3>1
    <2> QED
      BY <1>00, <2>1, <2>3, <2>4 DEF BootInv, UpIsInstalled, Installed, tables
  <1>8. CASE StartLiveImport
    BY <1>8 DEF StartLiveImport
  <1>9. CASE UNCHANGED <<tables, phase, script, recorded, job, store>>
    BY <1>00, <1>9 DEF BootInv, UpIsInstalled, Installed, tables
  <1> QED
    BY <1>1, <1>2, <1>3, <1>4, <1>5, <1>6, <1>7, <1>8, <1>9
    DEF Next, vars, OnBeforeConfigLoad, StartRoll, Query, Check, Apply, SaveItem

\* An import that gets through leaves the tables of its script, whatever was
\* there before, also if the operator puts older scripts back.
THEOREM ImportsHeal == ~LiveImport /\ Spec => ImportHeals
  <1>1. Init => TypeOK /\ ImportInv
    BY InitType, BootInit DEF BootInv
  <1>2. ~LiveImport /\ TypeOK /\ ImportInv /\ [Next]_vars => (TypeOK /\ ImportInv)'
    BY NextType, ImportNext
  <1>3. ASSUME ~LiveImport, TypeOK, ImportInv, [Next]_vars
        PROVE  [phase = "import" /\ phase' = "load" => Installed(recorded)']_vars
    <2> SUFFICES ASSUME phase = "import", phase' = "load" PROVE Installed(recorded)'
      OBVIOUS
    <2>1. ASSUME NEW a \in Runner, FinishScript(a) PROVE Installed(recorded)'
      BY <1>3, <2>1, ImportEnds
    <2>2. \A a \in Runner : ~RunStatement(a) /\ ~StatementRefused(a)
      BY DEF RunStatement, StatementRefused
    <2> QED
      BY <1>3, <2>1, <2>2
      DEF Next, vars, Boot, LoadStores, Crash, ReplaceScript, StartLiveImport,
          OnBeforeConfigLoad, StartRoll, Query, Check, Apply, SaveItem
  <1>4. CASE LiveImport
    BY <1>4
  <1>5. CASE ~LiveImport
    <2>1. TypeOK /\ ImportInv /\ [Next]_vars => (TypeOK /\ ImportInv)'
      BY <1>2, <1>5
    <2>2. TypeOK /\ ImportInv /\ [Next]_vars =>
            [phase = "import" /\ phase' = "load" => Installed(recorded)']_vars
      BY <1>3, <1>5
    <2> QED
      BY <1>1, <2>1, <2>2, PTL DEF Spec, ImportHeals
  <1> QED
    BY <1>4, <1>5

\* Whatever crash cuts an import short, a server that comes up has the tables
\* of the recorded script and the store that goes with them.
THEOREM CrashSafeImport == ~LiveImport /\ ~MayRevert /\ Spec => []UpIsInstalled
  <1>1. Init => TypeOK /\ BootInv
    BY InitType, BootInit
  <1>2. ~LiveImport /\ ~MayRevert /\ TypeOK /\ BootInv /\ [Next]_vars => (TypeOK /\ BootInv)'
    BY NextType, BootNext
  <1>3. BootInv => UpIsInstalled
    BY DEF BootInv
  <1>4. CASE LiveImport \/ MayRevert
    BY <1>4
  <1>5. CASE ~LiveImport /\ ~MayRevert
    <2>1. TypeOK /\ BootInv /\ [Next]_vars => (TypeOK /\ BootInv)'
      BY <1>2, <1>5
    <2> QED
      BY <1>1, <2>1, <1>3, PTL DEF Spec
  <1> QED
    BY <1>4, <1>5
=============================================================================
