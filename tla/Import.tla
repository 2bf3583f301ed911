------------------------------- MODULE Import -------------------------------
(***************************************************************************)
(* freight-registry import: cmd_import of src/src/main.rs, which fills the *)
(* tables of a running registry (module Registry) from a directory of stub *)
(* files, in a process of its own and without a transaction.               *)
(*                                                                         *)
(* It makes four passes: upsert the packages, look up their ids, insert    *)
(* versions and owners chunk by chunk, recompute every latest_version.  A  *)
(* chunk is any part of what a pass has left to do, so that the model is   *)
(* the same for every --batch.                                             *)
(***************************************************************************)
EXTENDS Listing

CONSTANTS
    Stubs,             \* the stub files: name and version
    ImportChannel,     \* --channel
    Importer,          \* --user
    MaxImports         \* bound on the times the command is given

ASSUME ImportAssumption ==
    /\ Stubs \subseteq [name : Spellings, vers : Versions]
    /\ Stubs # {}
    /\ ImportChannel \in Channels
    /\ Importer \in Users
    /\ MaxImports \in Nat

VARIABLES
    imp,       \* the command: its pass and what it has yet to do, NULL when not running
    imports,   \* how often it was given
    done       \* whether one has reached its end

importVars == <<imp, imports, done>>
everything == <<allVars, importVars>>

-----------------------------------------------------------------------------
(* Values. *)

StubKey(s) == <<Lower[s.name], ImportChannel>>
StubKeys   == {StubKey(s) : s \in Stubs}
Ids        == 1..MaxId

\* A version of the package with an id.
IdRows == Ids \X Versions

\* ids: name_to_id, 0 for no entry; rows: of the chunk in hand.
Passes ==
    [pass : {"upsert", "resolve"}, todo : SUBSET Stubs, ids : [StubKeys -> 0..MaxId]]
    \cup [pass : {"versions", "owners", "update"}, todo : SUBSET IdRows, rows : SUBSET IdRows]

ASSUME NullIsNoPass == NULL \notin Passes

Importing(pass) == imp # NULL /\ imp.pass = pass
IdInUse(n)      == \E k \in Keys : pkgId[k] = n
KeyWithId(n)    == CHOOSE k \in Keys : pkgId[k] = n

-----------------------------------------------------------------------------

\* The owner account is looked up and the files are parsed.
StartImport ==
    /\ imp = NULL /\ imports < MaxImports
    /\ imports' = imports + 1
    /\ imp' = [pass |-> "upsert", todo |-> Stubs, ids |-> [k \in StubKeys |-> 0]]
    /\ UNCHANGED <<allVars, done>>

\* Mutant: the package is announced with the version of its stub.
UpsertPackageWithLatest(k, s) ==
    IF pkgId[k] # 0
      THEN UNCHANGED packageVars
      ELSE /\ \E n \in Ids : IsNextId(n) /\ pkgId' = [pkgId EXCEPT ![k] = n]
           /\ pkgName' = [pkgName EXCEPT ![k] = s.name]
           /\ latest' = [latest EXCEPT ![k] = s.vers]

\* batch_pkg_upsert_sql: a package that is there is described anew, at most.
UpsertPackage(k, s) ==
    IF pkgId[k] # 0
      THEN UNCHANGED packageVars
      ELSE /\ \E n \in Ids : IsNextId(n) /\ pkgId' = [pkgId EXCEPT ![k] = n]
           /\ pkgName' = [pkgName EXCEPT ![k] = s.name]
           /\ UNCHANGED latest

\* Pass 1.  One stub stands for all of its name.
UpsertStub ==
    /\ Importing("upsert")
    /\ \E s \in imp.todo :
          LET k == StubKey(s) todo == {t \in imp.todo : StubKey(t) # k} IN
          /\ UpsertPackage(k, s)
          /\ imp' = IF todo # {} THEN [imp EXCEPT !.todo = todo]
                    ELSE [imp EXCEPT !.pass = "resolve", !.todo = Stubs]
    /\ UNCHANGED <<versionVars, owners, blobs, pc, req, pid, faults, storeVars,
                   imports, done>>

\* batch_id_select_sql: of a name without a package there is no row.
SelectId(k) == pkgId[k]

\* Pass 2.  A name without a row gets no entry, and its stubs are passed over in
\* silence.
ResolveStub ==
    /\ Importing("resolve")
    /\ \E s \in imp.todo :
          LET k    == StubKey(s)
              todo == {t \in imp.todo : StubKey(t) # k}
              ids  == [imp.ids EXCEPT ![k] = SelectId(k)]
          IN imp' = IF todo # {} THEN [imp EXCEPT !.todo = todo, !.ids = ids]
                    ELSE [pass |-> "versions", rows |-> {},
                          todo |-> {<<ids[StubKey(t)], t.vers>> : t \in Stubs}
                                      \cap IdRows]
    /\ UNCHANGED <<allVars, imports, done>>

\* Of the versions that are not yanked, pending and rejected ones included.
BestOf(ids) ==
    {<<n, Max(Unyanked(KeyWithId(n)))>> : n \in {m \in ids : Unyanked(KeyWithId(m)) # {}}}

\* batch_version_insert_sql: a row that is there stays as it is, but for a column not
\* modelled.
InsertStubs(rows) ==
    status' = [k \in Keys |-> [v \in Versions |->
                 IF <<pkgId[k], v>> \in rows /\ ~HasRow(k, v) THEN "published"
                                                              ELSE status[k][v]]]

\* Pass 3.  A row with an id that is gone fails the statement and ends the command.
\* With no chunk left the rows for pass 4 are read.
InsertVersions ==
    /\ Importing("versions")
    /\ \/ \E rows \in SUBSET imp.todo \ {{}} :
             IF \A x \in rows : IdInUse(x[1])
               THEN /\ InsertStubs(rows)
                    /\ imp' = [imp EXCEPT !.pass = "owners", !.rows = rows,
                                          !.todo = @ \ rows]
               ELSE imp' = NULL /\ UNCHANGED status
       \/ /\ imp.todo = {}
          /\ imp' = [pass |-> "update", rows |-> {},
                     todo |-> BestOf({n \in Ids : IdInUse(n)})]
          /\ UNCHANGED status
    /\ UNCHANGED <<packageVars, digest, publisher, owners, blobs, pc, req, pid, faults,
                   storeVars, imports, done>>

\* Mutant: only packages without an owner are given one.
OwnersOfNew(k, rows) ==
    IF owners[k] = {} /\ \E x \in rows : x[1] = pkgId[k] THEN {Importer} ELSE owners[k]

\* Mutant: the owners are left for later.
OwnersAsTheyAre(k, rows) == owners[k]

\* batch_owner_insert_sql: the importer joins the owners the package has, if any.
OwnersWith(k, rows) ==
    owners[k] \cup IF \E x \in rows : x[1] = pkgId[k] THEN {Importer} ELSE {}

InsertOwners ==
    /\ Importing("owners")
    /\ IF \A x \in imp.rows : IdInUse(x[1])
         THEN /\ owners' = [k \in Keys |-> OwnersWith(k, imp.rows)]
              /\ imp' = [imp EXCEPT !.pass = "versions", !.rows = {}]
         ELSE imp' = NULL /\ UNCHANGED owners
    /\ UNCHANGED <<packageVars, versionVars, blobs, pc, req, pid, faults, storeVars,
                   imports, done>>

\* Pass 4, one UPDATE by id after the other, in any order.
UpdateLatest ==
    /\ Importing("update")
    /\ \/ \E x \in imp.todo :
             /\ latest' = [k \in Keys |-> IF pkgId[k] = x[1] THEN x[2] ELSE latest[k]]
             /\ imp' = [imp EXCEPT !.todo = @ \ {x}]
             /\ UNCHANGED done
       \/ /\ imp.todo = {}
          /\ imp' = NULL /\ done' = TRUE
          /\ UNCHANGED latest
    /\ UNCHANGED <<pkgId, pkgName, versionVars, owners, blobs, pc, req, pid, faults,
                   storeVars, imports>>

\* The command is interrupted, or a statement fails.
InterruptImport ==
    /\ faults < MaxFaults
    /\ imp # NULL
    /\ imp' = NULL
    /\ faults' = faults + 1
    /\ UNCHANGED <<dbVars, blobs, pc, req, pid, storeVars, imports, done>>

-----------------------------------------------------------------------------

ImportInit == RegistryInit /\ imp = NULL /\ imports = 0 /\ done = FALSE

ImportStep ==
    \/ StartImport \/ UpsertStub \/ ResolveStub
    \/ InsertVersions \/ InsertOwners \/ UpdateLatest
    \/ InterruptImport

ImportNext == ImportStep \/ (RegistryNext /\ UNCHANGED importVars)

ImportSpec == ImportInit /\ [][ImportNext]_everything

-----------------------------------------------------------------------------
(* Types. *)

\* The command's own state keeps its type.
ImportTypeOK ==
    /\ RegistryTypeOK
    /\ imp \in Passes \cup {NULL}
    /\ imports \in 0..MaxImports
    /\ done \in BOOLEAN

-----------------------------------------------------------------------------
(* Safety. *)

\* An import that has reached its end has left every stub a version, and the importer
\* among the owners of its package, whatever was published meanwhile and wherever an
\* earlier attempt was interrupted.
ImportIsComplete ==
    done /\ deletes = 0 =>
        \A s \in Stubs : LET k == StubKey(s) IN
            /\ HasRow(k, s.vers)
            /\ Importer \in owners[k]

\* The command has yet to write the owner of the package.
ImportWillOwn(k) ==
    \/ Importing("upsert") /\ k \in StubKeys
    \/ Importing("resolve") /\ k \in StubKeys /\ imp.ids[k] \in {0, pkgId[k]}
    \/ /\ Importing("versions") \/ Importing("owners")
       /\ \E x \in imp.todo \cup imp.rows : x[1] = pkgId[k]

\* Import and publish handlers each leave a package without an owner for a while.
\* If nothing is interrupted or deleted, one of them is left to give it one: neither
\* relies on the other, though each may find the package of the other.
OwnerlessHasHeir ==
    faults = 0 /\ deletes = 0 =>
        \A k \in Keys : pkgId[k] # 0 /\ owners[k] = {} =>
            ImportWillOwn(k) \/ \E r \in Requests :
                pc[r] \in {"resolve_id", "insert_version"} \cup AfterInsert /\ Key(r) = k

-----------------------------------------------------------------------------
(* The inductive strengthening of these: while nothing is deleted, what a  *)
(* pass has left to do and what the passes before it have done.            *)

StubRow(s)  == <<pkgId[StubKey(s)], s.vers>>
Stored(s)   == HasRow(StubKey(s), s.vers)
Imported(s) == Stored(s) /\ Importer \in owners[StubKey(s)]

\* The names passed over have a package, and name_to_id its id.
NamesFit ==
    /\ Importing("upsert") => \A s \in Stubs :
          /\ imp.ids[StubKey(s)] = 0
          /\ s \notin imp.todo => pkgId[StubKey(s)] # 0
    /\ Importing("resolve") => \A s \in Stubs :
          /\ pkgId[StubKey(s)] # 0
          /\ imp.ids[StubKey(s)] = IF \E t \in imp.todo : StubKey(t) = StubKey(s)
                                     THEN 0 ELSE pkgId[StubKey(s)]

\* Chunks refer to packages that are there, and every stub is in one or done with.
ChunksFit ==
    Importing("versions") \/ Importing("owners") =>
        /\ \A x \in imp.todo \cup imp.rows : IdInUse(x[1])
        /\ Importing("versions") => imp.rows = {}
        /\ \A s \in Stubs :
              \/ StubRow(s) \in imp.todo
              \/ StubRow(s) \in imp.rows /\ Stored(s)
              \/ Imported(s)

\* What will be made the latest version has a row.
UpdatesFit ==
    Importing("update") =>
        /\ \A x \in imp.todo : \E k \in Keys : pkgId[k] = x[1] /\ HasRow(k, x[2])
        /\ \A s \in Stubs : Imported(s)

\* A version of a package nobody owns was inserted by a publish handler that has yet to
\* look at the owners, or by the import's last chunk.
RowHasHeirOrImport ==
    \A k \in Keys, v \in Versions :
        HasRow(k, v) /\ owners[k] = {} /\ faults = 0 =>
            \/ \E r \in Requests : pc[r] \in AfterInsert /\ Key(r) = k
            \/ Importing("owners") /\ \E x \in imp.rows : x[1] = pkgId[k]

ImportInv ==
    /\ ImportTypeOK /\ NothingWithoutPackage /\ PackagesAreNamed
    /\ deletes = 0 => TablesInv /\ NamesFit /\ ChunksFit /\ UpdatesFit
                       /\ RowHasHeirOrImport
    /\ ImportIsComplete /\ OwnerlessHasHeir

=============================================================================
