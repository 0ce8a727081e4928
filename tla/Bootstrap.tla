----------------------------- MODULE Bootstrap ------------------------------
(***************************************************************************)
(* How bridges come up on one Postgres: each creates the role and the      *)
(* database if it was given an admin URL, connects, applies the embedded   *)
(* migrations unless RUN_MIGRATIONS=0, and serves.  Nothing keeps two of   *)
(* them, or `bridge migrate` beside them, from doing so at once; a bridge  *)
(* that fails exits and its supervisor starts it again.                    *)
(*                                                                         *)
(* Postgres runs a statement, and the file of a migration, as one          *)
(* transaction.  It checks for the name when a CREATE begins; when two     *)
(* begin together, the unique index of the catalog lets one commit and     *)
(* fails the other with 23505.  Files that only alter tables wait for each *)
(* other's locks instead, and all of them may be applied again.            *)
(***************************************************************************)
EXTENDS Integers

CONSTANTS
  Servers,    \* bridge serve
  Clis,       \* bridge migrate, run by an operator or an install script
  Files,      \* the number of embedded migrations
  Creating,   \* those that create tables (0001, 0003)
  MaxFaults   \* bound: statements that fail, and processes that end, for other reasons

Processes == Servers \union Clis

ASSUME BootstrapAssumption ==
  /\ Servers \intersect Clis = {}
  /\ Files \in Nat /\ Creating \subseteq 1..Files
  /\ MaxFaults \in Nat

VARIABLES
  role, db,   \* Postgres: the role and the database of DATABASE_URL exist
  applied,    \* Postgres: migrations whose objects are in the database
  pc,         \* where each process is
  file,       \* the migration it is at
  adminURL,   \* servers started with POSTGRES_ADMIN_URL
  migrating,  \* servers started without RUN_MIGRATIONS=0
  faults      \* counter of the bound

databaseVars == <<role, db, applied>>
configVars == <<adminURL, migrating>>
vars == <<role, db, applied, pc, file, adminURL, migrating, faults>>

Steps == {"down", "checkRole", "createRole", "creatingRole", "checkDB", "createDB", "creatingDB",
          "connect", "migrate", "applying", "serving"}

\* A new server, a role without a database, or a database as an older release left it.
Init ==
  /\ role \in BOOLEAN /\ db \in BOOLEAN /\ (db => role)
  /\ \E n \in 0..Files : applied = 1..n /\ (n > 0 => db)
  /\ pc = [p \in Processes |-> "down"]
  /\ file = [p \in Processes |-> 1]
  /\ adminURL \in SUBSET Servers
  /\ migrating \in SUBSET Servers
  /\ faults = 0

GoTo(p, step) == pc' = [pc EXCEPT ![p] = step]
\* The error goes up to main, which logs it and exits.
Exit(p) == GoTo(p, "down")

-----------------------------------------------------------------------------
(* bootstrapDatabase                                                       *)

\* Mutant: maybeBootstrap goes on without an admin URL.
StartBootstraps(p) ==
  /\ pc[p] = "down"
  /\ GoTo(p, "checkRole")
  /\ UNCHANGED <<databaseVars, file, configVars, faults>>

\* serve; without the admin URL the database is taken to exist.
Start(p) ==
  /\ pc[p] = "down"
  /\ GoTo(p, IF p \in adminURL THEN "checkRole" ELSE "connect")
  /\ UNCHANGED <<databaseVars, file, configVars, faults>>

\* Mutant: a role that exists is taken for a database that was made with it.
CheckRoleOnly(p) ==
  /\ pc[p] = "checkRole"
  /\ GoTo(p, IF role THEN "connect" ELSE "createRole")
  /\ UNCHANGED <<databaseVars, file, configVars, faults>>

CheckRole(p) ==
  /\ pc[p] = "checkRole"
  /\ GoTo(p, IF role THEN "checkDB" ELSE "createRole")
  /\ UNCHANGED <<databaseVars, file, configVars, faults>>

\* CREATE ROLE begins: 42710 if somebody was faster, which counts as success.
CreateRole(p) ==
  /\ pc[p] = "createRole"
  /\ GoTo(p, IF role THEN "checkDB" ELSE "creatingRole")
  /\ UNCHANGED <<databaseVars, file, configVars, faults>>

\* It commits, or fails with 23505, which isAlreadyExists does not know.
RoleCreated(p) ==
  /\ pc[p] = "creatingRole"
  /\ IF role THEN Exit(p) ELSE GoTo(p, "checkDB")
  /\ role' = TRUE
  /\ UNCHANGED <<db, applied, file, configVars, faults>>

CheckDB(p) ==
  /\ pc[p] = "checkDB"
  /\ GoTo(p, IF db THEN "connect" ELSE "createDB")
  /\ UNCHANGED <<databaseVars, file, configVars, faults>>

\* Mutant: isAlreadyExists only knows duplicate_object.
CreateDBOnce(p) ==
  /\ pc[p] = "createDB"
  /\ IF db THEN Exit(p) ELSE GoTo(p, "creatingDB")
  /\ UNCHANGED <<databaseVars, file, configVars, faults>>

\* CREATE DATABASE begins: 42P04 if somebody was faster.
CreateDB(p) ==
  /\ pc[p] = "createDB"
  /\ GoTo(p, IF db THEN "connect" ELSE "creatingDB")
  /\ UNCHANGED <<databaseVars, file, configVars, faults>>

DBCreated(p) ==
  /\ pc[p] = "creatingDB"
  /\ IF db THEN Exit(p) ELSE GoTo(p, "connect")
  /\ db' = TRUE
  /\ UNCHANGED <<role, applied, file, configVars, faults>>

-----------------------------------------------------------------------------
(* NewDB and applyMigrations                                               *)

\* An operator runs `bridge migrate`, which creates no database.
RunMigrate(p) ==
  /\ pc[p] = "down"
  /\ GoTo(p, "connect")
  /\ UNCHANGED <<databaseVars, file, configVars, faults>>

\* NewDB pings the database.
Connect(p) ==
  /\ pc[p] = "connect"
  /\ CASE ~db -> Exit(p)
       [] db /\ p \in Clis \union migrating -> GoTo(p, "migrate")
       [] OTHER -> GoTo(p, "serving")
  /\ file' = [file EXCEPT ![p] = 1]
  /\ UNCHANGED <<databaseVars, configVars, faults>>

\* A file that finds its tables, or that has only to wait for a lock.
ApplyAtOnce(p) ==
  /\ pc[p] = "migrate" /\ file[p] <= Files
  /\ file[p] \in applied \/ file[p] \notin Creating
  /\ applied' = applied \union {file[p]}
  /\ file' = [file EXCEPT ![p] = @ + 1]
  /\ UNCHANGED <<role, db, pc, configVars, faults>>

\* Mutant: CREATE TABLE without IF NOT EXISTS.
BeginCreatingAgain(p) ==
  /\ pc[p] = "migrate" /\ file[p] \in Creating
  /\ GoTo(p, "applying")
  /\ UNCHANGED <<databaseVars, file, configVars, faults>>

\* A file that finds no tables begins to create them.
BeginCreating(p) ==
  /\ pc[p] = "migrate" /\ file[p] \in Creating \ applied
  /\ GoTo(p, "applying")
  /\ UNCHANGED <<databaseVars, file, configVars, faults>>

Created(p) ==
  /\ pc[p] = "applying" /\ file[p] \notin applied
  /\ applied' = applied \union {file[p]}
  /\ file' = [file EXCEPT ![p] = @ + 1]
  /\ GoTo(p, "migrate")
  /\ UNCHANGED <<role, db, configVars, faults>>

\* Another process has created them meanwhile: 23505 on the index of pg_type.
CreatedByAnother(p) ==
  /\ pc[p] = "applying" /\ file[p] \in applied
  /\ Exit(p)
  /\ UNCHANGED <<databaseVars, file, configVars, faults>>

\* The rest of cmdServe only warns; cmdMigrate is done.
Migrated(p) ==
  /\ pc[p] = "migrate" /\ file[p] > Files
  /\ GoTo(p, IF p \in Servers THEN "serving" ELSE "down")
  /\ UNCHANGED <<databaseVars, file, configVars, faults>>

\* Mutant: a failed migration is a warning, like a failed recovery.
FailServes(p) ==
  /\ pc[p] # "down"
  /\ faults < MaxFaults /\ faults' = faults + 1
  /\ GoTo(p, IF pc[p] \in {"migrate", "applying"} /\ p \in Servers THEN "serving" ELSE "down")
  /\ UNCHANGED <<databaseVars, file, configVars>>

\* Mutant: the loop goes on with the next file.
FailSkips(p) ==
  /\ pc[p] # "down"
  /\ faults < MaxFaults /\ faults' = faults + 1
  /\ GoTo(p, IF pc[p] \in {"migrate", "applying"} THEN "migrate" ELSE "down")
  /\ file' = [file EXCEPT ![p] = IF pc[p] \in {"migrate", "applying"} THEN @ + 1 ELSE @]
  /\ UNCHANGED <<databaseVars, configVars>>

\* The server cannot be reached, a statement fails, or the process is killed:
\* what is not committed is not there.
Fail(p) ==
  /\ pc[p] # "down"
  /\ faults < MaxFaults /\ faults' = faults + 1
  /\ Exit(p)
  /\ UNCHANGED <<databaseVars, file, configVars>>

-----------------------------------------------------------------------------

\* What a process does by itself once it runs.
Proceed(p) ==
  \/ CheckRole(p) \/ CreateRole(p) \/ RoleCreated(p)
  \/ CheckDB(p) \/ CreateDB(p) \/ DBCreated(p)
  \/ Connect(p) \/ ApplyAtOnce(p) \/ BeginCreating(p) \/ Created(p) \/ CreatedByAnother(p)
  \/ Migrated(p)

Next ==
  \/ \E p \in Servers : Start(p)
  \/ \E p \in Clis : RunMigrate(p)
  \/ \E p \in Processes : Proceed(p) \/ Fail(p)

Spec == Init /\ [][Next]_vars

\* The supervisor starts what has exited, and statements return.
FairSpec ==
  /\ Spec
  /\ \A p \in Servers : WF_vars(Start(p))
  /\ \A p \in Processes : WF_vars(Proceed(p))

-----------------------------------------------------------------------------
(* Properties                                                              *)

\* Every variable has its type, and no server without admin URL and no CLI is
\* in the bootstrap.
TypeOK ==
  /\ role \in BOOLEAN /\ db \in BOOLEAN
  /\ applied \subseteq 1..Files
  /\ pc \in [Processes -> Steps] /\ file \in [Processes -> 1..(Files + 1)]
  /\ adminURL \subseteq Servers /\ migrating \subseteq Servers
  /\ \A p \in Processes \ adminURL : pc[p] \in {"down", "connect", "migrate", "applying", "serving"}
  /\ \A p \in Processes : pc[p] = "applying" => file[p] \in Creating
  /\ faults \in 0..MaxFaults

\* However many processes migrate at once, and wherever they are cut off, the
\* database has a role, and the files applied are those up to some file: each
\* file may rely on the ones before it.
SchemaInOrder ==
  /\ db => role
  /\ applied # {} => db
  /\ \A f \in applied : 1..f \subseteq applied

\* A bridge that migrates does not serve before the schema it was built for is
\* there, whoever made it.
ServesMigrated == \A p \in migrating : pc[p] = "serving" => applied = 1..Files

\* A process comes up without an error on anything that was there when its
\* statement began, whoever made it: it exits only for a fault, for an object
\* that another committed during its own CREATE, or, without an admin URL, for
\* a database that is not there.
ExitsForCause ==
  [][\A p \in Processes :
       pc[p] # "down" /\ pc'[p] = "down" =>
         \/ faults' # faults
         \/ pc[p] = "creatingRole" /\ role
         \/ pc[p] = "creatingDB" /\ db
         \/ pc[p] = "applying" /\ file[p] \in applied
         \/ pc[p] = "connect" /\ ~db /\ p \notin adminURL
         \/ p \in Clis /\ pc[p] = "migrate" /\ applied = 1..Files]_vars

\* The order of the steps of a process, and those inside a CREATE of something
\* that another has committed since it began: they will exit.
Order == [checkRole |-> 1, createRole |-> 2, creatingRole |-> 3, checkDB |-> 4, createDB |-> 5,
          creatingDB |-> 6, connect |-> 7, migrate |-> 8, applying |-> 9, serving |-> 10]
GetsOn(p) ==
  \/ Order[pc'[p]] > Order[pc[p]]
  \/ pc[p] \in {"migrate", "applying"} /\ pc'[p] = "migrate" /\ file'[p] = file[p] + 1
Losers ==
  {p \in Processes : \/ pc[p] = "creatingRole" /\ role
                     \/ pc[p] = "creatingDB" /\ db
                     \/ pc[p] = "applying" /\ file[p] \in applied}

\* Why the processes do not fail each other for ever: nothing in the database is
\* undone, nobody begins to create what is there, so that each commit makes its
\* losers once and for all, and a process that does not exit gets on.
LostRacesRunOut ==
  [][/\ (role => role') /\ (db => db') /\ applied \subseteq applied'
     /\ <<role', db', applied'>> = <<role, db, applied>> => Losers' \subseteq Losers
     /\ \A p \in Processes :
          pc[p] # "down" => \/ pc'[p] = "down"
                           \/ UNCHANGED <<pc[p], file[p]>>
                           \/ GetsOn(p)]_vars

\* Bridges that start together on an empty server fail each other, but not for
\* ever: if the database is there or one of them has an admin URL, all of them
\* serve in the end.
EveryServerServes ==
  (db \/ adminURL # {}) => \A s \in Servers : <>[](pc[s] = "serving")
=============================================================================
