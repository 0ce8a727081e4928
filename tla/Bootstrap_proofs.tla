-------------------------- MODULE Bootstrap_proofs --------------------------
(* Proofs about Bootstrap, for any number of processes and of migrations.  *)
EXTENDS Bootstrap, TLAPS

\* What a process has found out on its way: the role before it makes the
\* database, the database before it migrates or, if it has an admin URL, before
\* it connects, and the files before its own applied.
Progress ==
  \A p \in Processes :
    /\ pc[p] \in {"checkDB", "createDB", "creatingDB"} => role
    /\ pc[p] \in {"migrate", "applying"} => db
    /\ pc[p] = "connect" /\ p \in adminURL => db
    /\ pc[p] \in {"migrate", "applying"} => 1..(file[p] - 1) \subseteq applied

BootInv == TypeOK /\ SchemaInOrder /\ ServesMigrated /\ Progress

LEMMA BootInit == Init => BootInv
<1> SUFFICES ASSUME Init PROVE BootInv
  OBVIOUS
<1> USE BootstrapAssumption DEF Init, Processes
<1>1. TypeOK
  BY DEF TypeOK, Steps
<1>2. SchemaInOrder
  BY DEF SchemaInOrder
<1>3. ServesMigrated /\ Progress
  BY DEF ServesMigrated, Progress
<1> QED BY <1>1, <1>2, <1>3 DEF BootInv

\* A process that moves while the database stays as it is.
LEMMA BootMoves ==
  ASSUME BootInv, NEW p \in Processes, NEW step \in Steps,
         pc' = [pc EXCEPT ![p] = step],
         UNCHANGED <<databaseVars, file, configVars>>, faults' \in 0..MaxFaults,
         p \notin adminURL => step \in {"down", "connect", "migrate", "applying", "serving"},
         step = "applying" => file[p] \in Creating,
         step = "serving" /\ p \in migrating => applied = 1..Files,
         step \in {"checkDB", "createDB", "creatingDB"} => role,
         step \in {"migrate", "applying"} => db /\ 1..(file[p] - 1) \subseteq applied,
         step = "connect" /\ p \in adminURL => db
  PROVE  BootInv'
<1> USE DEF BootInv, databaseVars, configVars
<1>1. TypeOK'
  BY DEF TypeOK
<1>2. SchemaInOrder'
  BY DEF SchemaInOrder
<1>3. ServesMigrated'
  BY DEF ServesMigrated, TypeOK, Processes
<1>4. Progress'
  BY DEF Progress, TypeOK
<1> QED BY <1>1, <1>2, <1>3, <1>4

LEMMA RoleCreatedKeeps ==
  ASSUME BootInv, NEW p \in Processes, RoleCreated(p) PROVE BootInv'
<1> USE DEF BootInv, RoleCreated, GoTo, Exit
<1>0. p \in adminURL
  BY DEF TypeOK
<1>1. TypeOK'
  BY <1>0 DEF TypeOK, configVars, Steps
<1>2. SchemaInOrder'
  BY DEF SchemaInOrder
<1>3. ServesMigrated'
  BY DEF ServesMigrated, TypeOK, configVars, Processes
<1>4. Progress'
  BY DEF Progress, TypeOK, configVars
<1> QED BY <1>1, <1>2, <1>3, <1>4

LEMMA DBCreatedKeeps ==
  ASSUME BootInv, NEW p \in Processes, DBCreated(p) PROVE BootInv'
<1> USE DEF BootInv, DBCreated, GoTo, Exit
<1>0. p \in adminURL
  BY DEF TypeOK
<1>1. TypeOK'
  BY <1>0 DEF TypeOK, configVars, Steps
<1>2. SchemaInOrder'
  BY DEF SchemaInOrder, Progress
<1>3. ServesMigrated'
  BY DEF ServesMigrated, TypeOK, configVars, Processes
<1>4. Progress'
  BY DEF Progress, TypeOK, configVars
<1> QED BY <1>1, <1>2, <1>3, <1>4

LEMMA ConnectKeeps ==
  ASSUME BootInv, NEW p \in Processes, Connect(p) PROVE BootInv'
<1> USE BootstrapAssumption DEF BootInv, Connect, GoTo, Exit, databaseVars, configVars
<1>1. TypeOK'
  BY DEF TypeOK, Steps
<1>2. SchemaInOrder'
  BY DEF SchemaInOrder
<1>3. ServesMigrated'
  BY DEF ServesMigrated, TypeOK, Processes
<1>4. Progress'
  BY DEF Progress, TypeOK
<1> QED BY <1>1, <1>2, <1>3, <1>4

\* Both ways a file is applied.
LEMMA AppliedKeeps ==
  ASSUME BootInv, NEW p \in Processes,
         pc[p] \in {"migrate", "applying"}, file[p] \in 1..Files,
         applied' = applied \union {file[p]},
         file' = [file EXCEPT ![p] = @ + 1],
         pc' = [pc EXCEPT ![p] = "migrate"],
         UNCHANGED <<role, db, configVars, faults>>
  PROVE  BootInv'
<1> USE BootstrapAssumption DEF BootInv, configVars
<1>1. TypeOK'
  <2>1. file' \in [Processes -> 1..(Files + 1)]
    BY DEF TypeOK
  <2> QED BY <2>1 DEF TypeOK, Steps
<1>2. SchemaInOrder'
  <2>1. db /\ 1..(file[p] - 1) \subseteq applied
    BY DEF Progress
  <2>2. 1..file[p] \subseteq applied'
    BY <2>1 DEF TypeOK
  <2> QED BY <2>1, <2>2 DEF SchemaInOrder
<1>3. ServesMigrated'
  BY DEF ServesMigrated, TypeOK, Processes
<1>4. Progress'
  <2>1. 1..(file'[p] - 1) \subseteq applied'
    BY DEF Progress, TypeOK
  <2>2. pc'[p] = "migrate" /\ db
    BY DEF Progress, TypeOK
  <2>3. \A q \in Processes \ {p} : pc'[q] = pc[q] /\ file'[q] = file[q]
    BY DEF TypeOK
  <2> QED BY <2>1, <2>2, <2>3 DEF Progress
<1> QED BY <1>1, <1>2, <1>3, <1>4

\* Behind the last file there is nothing left to apply.
LEMMA AllApplied ==
  ASSUME BootInv, NEW p \in Processes, Migrated(p) PROVE applied = 1..Files
<1>1. file[p] \in 1..(Files + 1) /\ file[p] > Files /\ Files \in Nat
  BY BootstrapAssumption DEF BootInv, TypeOK, Migrated
<1>2. file[p] - 1 = Files
  BY <1>1
<1>3. 1..(file[p] - 1) \subseteq applied
  BY DEF BootInv, Progress, Migrated
<1> QED BY <1>2, <1>3 DEF BootInv, TypeOK

LEMMA ProceedKeeps ==
  ASSUME BootInv, NEW p \in Processes, Proceed(p) PROVE BootInv'
<1> USE DEF BootInv
<1>0. /\ faults' \in 0..MaxFaults \/ Created(p) \/ ApplyAtOnce(p)
      /\ file[p] \in 1..(Files + 1) /\ Files \in Nat /\ applied \subseteq 1..Files
  BY BootstrapAssumption
     DEF TypeOK, Proceed, CheckRole, CreateRole, RoleCreated, CheckDB, CreateDB, DBCreated, Connect,
         BeginCreating, CreatedByAnother, Migrated
<1>1. CASE CheckRole(p)
  BY <1>0, <1>1, BootMoves DEF CheckRole, GoTo, Steps, TypeOK
<1>2. CASE CreateRole(p)
  BY <1>0, <1>2, BootMoves DEF CreateRole, GoTo, Steps, TypeOK
<1>3. CASE RoleCreated(p)
  BY <1>3, RoleCreatedKeeps
<1>4. CASE CheckDB(p)
  BY <1>0, <1>4, BootMoves DEF CheckDB, GoTo, Steps, TypeOK, Progress
<1>5. CASE CreateDB(p)
  BY <1>0, <1>5, BootMoves DEF CreateDB, GoTo, Steps, TypeOK, Progress
<1>6. CASE DBCreated(p)
  BY <1>6, DBCreatedKeeps
<1>7. CASE Connect(p)
  BY <1>7, ConnectKeeps
<1>8. CASE ApplyAtOnce(p)
  <2>1. file[p] \in 1..Files
    BY <1>0, <1>8 DEF ApplyAtOnce
  <2>2. pc' = [pc EXCEPT ![p] = "migrate"]
    BY <1>8 DEF ApplyAtOnce, TypeOK
  <2> QED BY <1>8, <2>1, <2>2, AppliedKeeps DEF ApplyAtOnce
<1>9. CASE BeginCreating(p)
  BY <1>0, <1>9, BootMoves DEF BeginCreating, GoTo, Steps, TypeOK, Progress
<1>10. CASE Created(p)
  <2>1. file[p] \in 1..Files
    BY <1>10, BootstrapAssumption DEF Created, TypeOK
  <2> QED BY <1>10, <2>1, AppliedKeeps DEF Created, GoTo
<1>11. CASE CreatedByAnother(p)
  <2>1. faults' \in 0..MaxFaults
    BY <1>11 DEF CreatedByAnother, TypeOK
  <2> QED BY <1>11, <2>1, BootMoves DEF CreatedByAnother, Exit, GoTo, Steps
<1>12. CASE Migrated(p)
  <2>1. applied = 1..Files
    BY <1>12, AllApplied
  <2> QED BY <1>0, <1>12, <2>1, BootMoves DEF Migrated, GoTo, Steps, TypeOK
<1> QED BY <1>1, <1>2, <1>3, <1>4, <1>5, <1>6, <1>7, <1>8, <1>9, <1>10, <1>11, <1>12 DEF Proceed

LEMMA BootNext == BootInv /\ [Next]_vars => BootInv'
<1> SUFFICES ASSUME BootInv, [Next]_vars PROVE BootInv'
  OBVIOUS
<1>1. ASSUME NEW p \in Servers, Start(p) PROVE BootInv'
  <2>1. p \in Processes /\ faults' \in 0..MaxFaults
    BY <1>1 DEF Processes, Start, BootInv, TypeOK
  <2> QED BY <1>1, <2>1, BootMoves DEF Start, GoTo, Steps
<1>2. ASSUME NEW p \in Clis, RunMigrate(p) PROVE BootInv'
  <2>1. p \in Processes /\ p \notin adminURL /\ faults' \in 0..MaxFaults
    BY <1>2, BootstrapAssumption DEF Processes, RunMigrate, BootInv, TypeOK
  <2> QED BY <1>2, <2>1, BootMoves DEF RunMigrate, GoTo, Steps
<1>3. ASSUME NEW p \in Processes, Proceed(p) PROVE BootInv'
  BY <1>3, ProceedKeeps
<1>4. ASSUME NEW p \in Processes, Fail(p) PROVE BootInv'
  <2>1. faults' \in 0..MaxFaults
    BY <1>4, BootstrapAssumption DEF Fail, BootInv, TypeOK
  <2> QED BY <1>4, <2>1, BootMoves DEF Fail, Exit, GoTo, Steps
<1>5. CASE UNCHANGED vars
  BY <1>5 DEF vars, BootInv, TypeOK, SchemaInOrder, ServesMigrated, Progress
<1> QED BY <1>1, <1>2, <1>3, <1>4, <1>5 DEF Next

LEMMA BootAlways == Spec => []BootInv
BY BootInit, BootNext, PTL DEF Spec

\* Every process is where its configuration lets it be (cmdServe, cmdMigrate).
THEOREM BootTypes == Spec => []TypeOK
BY BootAlways, PTL DEF BootInv

\* Whoever migrates at once with whom, the files applied are those up to some
\* file (applyMigrations).
THEOREM FilesInOrder == Spec => []SchemaInOrder
BY BootAlways, PTL DEF BootInv

\* A bridge that migrates serves on its whole schema only (cmdServe).
THEOREM ServingMeansMigrated == Spec => []ServesMigrated
BY BootAlways, PTL DEF BootInv

LEMMA ExitStep == BootInv /\ [Next]_vars =>
  \A p \in Processes :
       pc[p] # "down" /\ pc'[p] = "down" =>
         \/ faults' # faults
         \/ pc[p] = "creatingRole" /\ role
         \/ pc[p] = "creatingDB" /\ db
         \/ pc[p] = "applying" /\ file[p] \in applied
         \/ pc[p] = "connect" /\ ~db /\ p \notin adminURL
         \/ p \in Clis /\ pc[p] = "migrate" /\ applied = 1..Files
<1> SUFFICES ASSUME BootInv, [Next]_vars, NEW p \in Processes,
                    pc[p] # "down", pc'[p] = "down", faults' = faults
             PROVE  \/ pc[p] = "creatingRole" /\ role
                    \/ pc[p] = "creatingDB" /\ db
                    \/ pc[p] = "applying" /\ file[p] \in applied
                    \/ pc[p] = "connect" /\ ~db /\ p \notin adminURL
                    \/ p \in Clis /\ pc[p] = "migrate" /\ applied = 1..Files
  OBVIOUS
<1>0. pc \in [Processes -> Steps] /\ faults \in Nat /\ file[p] \in 1..(Files + 1)
  BY BootstrapAssumption DEF BootInv, TypeOK
<1>1. ASSUME NEW q \in Processes, Fail(q) PROVE FALSE
  BY <1>0, <1>1 DEF Fail
<1>2. ASSUME NEW q \in Servers, Start(q) PROVE FALSE
  BY <1>0, <1>2 DEF Start, GoTo, Processes
<1>3. ASSUME NEW q \in Clis, RunMigrate(q) PROVE FALSE
  BY <1>0, <1>3 DEF RunMigrate, GoTo, Processes
<1>4. Proceed(p)
  <2>1. PICK q \in Processes : Proceed(q)
    BY <1>1, <1>2, <1>3 DEF Next, vars
  <2>2. q = p
    BY <1>0, <2>1 DEF Proceed, CheckRole, CreateRole, RoleCreated, CheckDB, CreateDB, DBCreated,
       Connect, ApplyAtOnce, BeginCreating, Created, CreatedByAnother, Migrated, GoTo, Exit
  <2> QED BY <2>1, <2>2
<1>5. CASE Migrated(p)
  <2>1. applied = 1..Files
    BY <1>5, AllApplied
  <2> QED BY <1>0, <1>5, <2>1 DEF Migrated, GoTo, Processes
<1>6. CASE Connect(p)
  BY <1>0, <1>6 DEF Connect, GoTo, Exit, BootInv, Progress
<1>7. CASE RoleCreated(p) \/ DBCreated(p) \/ CreatedByAnother(p)
  BY <1>0, <1>7 DEF RoleCreated, DBCreated, CreatedByAnother, GoTo, Exit
<1>8. ~(CheckRole(p) \/ CreateRole(p) \/ CheckDB(p) \/ CreateDB(p) \/ ApplyAtOnce(p)
        \/ BeginCreating(p) \/ Created(p))
  BY <1>0 DEF CheckRole, CreateRole, CheckDB, CreateDB, ApplyAtOnce, BeginCreating, Created, GoTo
<1> QED BY <1>4, <1>5, <1>6, <1>7, <1>8 DEF Proceed

\* No process exits for what was there before its statement began, and none
\* with an admin URL for a database that is not there (bootstrapDatabase).
THEOREM ExitsOnlyForCause == Spec => ExitsForCause
<1>1. BootInv /\ [Next]_vars => [\A p \in Processes :
       pc[p] # "down" /\ pc'[p] = "down" =>
         \/ faults' # faults
         \/ pc[p] = "creatingRole" /\ role
         \/ pc[p] = "creatingDB" /\ db
         \/ pc[p] = "applying" /\ file[p] \in applied
         \/ pc[p] = "connect" /\ ~db /\ p \notin adminURL
         \/ p \in Clis /\ pc[p] = "migrate" /\ applied = 1..Files]_vars
  BY ExitStep
<1> QED BY <1>1, BootAlways, PTL DEF Spec, ExitsForCause

\* A process that does not exit is at a later step afterwards.
LEMMA ProceedGetsOn ==
  ASSUME TypeOK, NEW p \in Processes, Proceed(p)
  PROVE  /\ pc[p] # "down" /\ (pc'[p] = "down" \/ GetsOn(p))
         /\ \A q \in Processes \ {p} : UNCHANGED <<pc[q], file[q]>>
<1> USE DEF TypeOK, GoTo, Exit
<1>1. /\ Order["checkRole"] = 1 /\ Order["createRole"] = 2 /\ Order["creatingRole"] = 3
      /\ Order["checkDB"] = 4 /\ Order["createDB"] = 5 /\ Order["creatingDB"] = 6
      /\ Order["connect"] = 7 /\ Order["migrate"] = 8 /\ Order["applying"] = 9
      /\ Order["serving"] = 10
  BY DEF Order
<1>2. \A q \in Processes \ {p} : UNCHANGED <<pc[q], file[q]>>
  BY DEF Proceed, CheckRole, CreateRole, RoleCreated, CheckDB, CreateDB, DBCreated, Connect,
         ApplyAtOnce, BeginCreating, Created, CreatedByAnother, Migrated
<1>3. pc[p] # "down"
  BY DEF Proceed, CheckRole, CreateRole, RoleCreated, CheckDB, CreateDB, DBCreated, Connect,
         ApplyAtOnce, BeginCreating, Created, CreatedByAnother, Migrated
<1>4. CASE CheckRole(p) \/ CreateRole(p) \/ RoleCreated(p)
  BY <1>1, <1>2, <1>3, <1>4 DEF CheckRole, CreateRole, RoleCreated, GetsOn
<1>5. CASE CheckDB(p) \/ CreateDB(p) \/ DBCreated(p)
  BY <1>1, <1>2, <1>3, <1>5 DEF CheckDB, CreateDB, DBCreated, GetsOn
<1>6. CASE Connect(p) \/ Migrated(p)
  BY <1>1, <1>2, <1>3, <1>6 DEF Connect, Migrated, GetsOn
<1>7. CASE ApplyAtOnce(p) \/ BeginCreating(p) \/ Created(p) \/ CreatedByAnother(p)
  BY <1>1, <1>2, <1>3, <1>7 DEF ApplyAtOnce, BeginCreating, Created, CreatedByAnother, GetsOn
<1> QED BY <1>4, <1>5, <1>6, <1>7 DEF Proceed

\* Nobody becomes a loser but by a commit.
LEMMA LosersStay ==
  ASSUME TypeOK, Next, UNCHANGED databaseVars
  PROVE  Losers' \subseteq Losers
<1> USE DEF TypeOK, GoTo, Exit, databaseVars
<1>1. ASSUME NEW p \in Processes, p \notin Losers',
             \A q \in Processes \ {p} : UNCHANGED <<pc[q], file[q]>>
      PROVE  Losers' \subseteq Losers
  BY <1>1 DEF Losers
<1>2. ASSUME NEW p \in Processes, Fail(p) \/ Start(p) \/ RunMigrate(p)
      PROVE  Losers' \subseteq Losers
  <2>1. pc'[p] \in {"down", "checkRole", "connect"}
    BY <1>2 DEF Fail, Start, RunMigrate
  <2>2. p \notin Losers'
    BY <2>1 DEF Losers
  <2>3. \A q \in Processes \ {p} : UNCHANGED <<pc[q], file[q]>>
    BY <1>2 DEF Fail, Start, RunMigrate
  <2> QED BY <1>1, <2>2, <2>3
<1>3. ASSUME NEW p \in Processes, Proceed(p) PROVE Losers' \subseteq Losers
  <2>1. p \notin Losers'
    <3>1. CASE CheckRole(p) \/ CreateRole(p) \/ RoleCreated(p)
      BY <3>1 DEF CheckRole, CreateRole, RoleCreated, Losers
    <3>2. CASE CheckDB(p) \/ CreateDB(p) \/ DBCreated(p)
      BY <3>2 DEF CheckDB, CreateDB, DBCreated, Losers
    <3>3. CASE Connect(p) \/ Migrated(p)
      BY <3>3 DEF Connect, Migrated, Losers
    <3>4. CASE ApplyAtOnce(p) \/ BeginCreating(p) \/ Created(p) \/ CreatedByAnother(p)
      BY <3>4 DEF ApplyAtOnce, BeginCreating, Created, CreatedByAnother, Losers
    <3> QED BY <1>3, <3>1, <3>2, <3>3, <3>4 DEF Proceed
  <2> QED BY <1>1, <1>3, <2>1, ProceedGetsOn
<1> QED BY <1>2, <1>3 DEF Next, Processes

\* What one process makes another lose it loses once: the descent behind the end
\* of the races (bootstrapDatabase, applyMigrations).
THEOREM RacesRunOut == Spec => LostRacesRunOut
<1> DEFINE Descent ==
      /\ (role => role') /\ (db => db') /\ applied \subseteq applied'
      /\ <<role', db', applied'>> = <<role, db, applied>> => Losers' \subseteq Losers
      /\ \A p \in Processes :
           pc[p] # "down" => \/ pc'[p] = "down"
                            \/ UNCHANGED <<pc[p], file[p]>>
                            \/ GetsOn(p)
<1>1. TypeOK /\ [Next]_vars => [Descent]_vars
  <2> SUFFICES ASSUME TypeOK, Next PROVE Descent
    OBVIOUS
  <2>1. (role => role') /\ (db => db') /\ applied \subseteq applied'
    BY DEF Next, Start, RunMigrate, Fail, Proceed, CheckRole, CreateRole, RoleCreated, CheckDB,
           CreateDB, DBCreated, Connect, ApplyAtOnce, BeginCreating, Created, CreatedByAnother,
           Migrated, databaseVars
  <2>2. ASSUME NEW p \in Processes, pc[p] # "down"
        PROVE  pc'[p] = "down" \/ UNCHANGED <<pc[p], file[p]>> \/ GetsOn(p)
    <3>1. ASSUME NEW q \in Processes, Fail(q) \/ Start(q) \/ RunMigrate(q)
          PROVE  pc'[p] = "down" \/ UNCHANGED <<pc[p], file[p]>>
      BY <2>2, <3>1 DEF Fail, Start, RunMigrate, GoTo, Exit, TypeOK
    <3>2. ASSUME NEW q \in Processes, Proceed(q)
          PROVE  pc'[p] = "down" \/ UNCHANGED <<pc[p], file[p]>> \/ GetsOn(p)
      BY <3>2, ProceedGetsOn
    <3> QED BY <3>1, <3>2 DEF Next, Processes
  <2> QED BY <2>1, <2>2, LosersStay DEF databaseVars
<1>2. LostRacesRunOut <=> [][Descent]_vars
  BY DEF LostRacesRunOut
<1> QED BY <1>1, <1>2, BootTypes, PTL DEF Spec
=============================================================================
