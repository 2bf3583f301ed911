--------------------------- MODULE PublishProofs ---------------------------
(***************************************************************************)
(* Proofs about module Publish, for any users, names, channels, versions,  *)
(* tarballs, slots and bounds.                                             *)
(***************************************************************************)
EXTENDS Publish, FiniteSetTheorems, TLAPS

LEMMA InputFields ==
    ASSUME NEW i \in Inputs
    PROVE  /\ i.user \in Users
           /\ i.name \in Spellings
           /\ i.channel \in Channels
           /\ i.vers \in Versions
           /\ i.content \in Contents \cup {NULL}
           /\ i.verify \in BOOLEAN
BY DEF Inputs

\* A slot that is not idle holds a request, whose key is a key of the tables.
LEMMA BusySlot ==
    ASSUME TypeOK, NEW r \in Requests, pc[r] # "idle"
    PROVE  /\ req[r] \in Inputs
           /\ Key(r) \in Keys
           /\ Lower[req[r].name] = Key(r)[1]
<1>1. req[r] \in Inputs
  BY DEF TypeOK
<1>2. Lower[req[r].name] \in Spellings /\ req[r].channel \in Channels
  BY <1>1, InputFields, SetsAssumption
<1> QED
  BY <1>1, <1>2 DEF Key, KeyOf, Keys

-----------------------------------------------------------------------------
(* Types. *)

LEMMA ReturnType ==
    ASSUME TypeOK, NEW r \in Requests, Return(r)
    PROVE  /\ pc' \in [Requests -> Pcs]
           /\ req' \in [Requests -> Inputs \cup {NULL}]
           /\ \A q \in Requests : (req'[q] = NULL) <=> (pc'[q] = "idle")
           /\ pid' \in [Requests -> 0..MaxId]
BY BoundsAssumption DEF TypeOK, Return, Pcs

LEMMA GotoType ==
    ASSUME TypeOK, NEW r \in Requests, pc[r] # "idle",
           NEW label \in Pcs \ {"idle"}, Goto(r, label)
    PROVE  /\ pc' \in [Requests -> Pcs]
           /\ req' \in [Requests -> Inputs \cup {NULL}]
           /\ \A q \in Requests : (req'[q] = NULL) <=> (pc'[q] = "idle")
           /\ pid' \in [Requests -> 0..MaxId]
BY DEF TypeOK, Goto

LEMMA RespondType ==
    ASSUME TypeOK, NEW r \in Requests, pc[r] # "idle", Respond(r)
    PROVE  /\ pc' \in [Requests -> Pcs]
           /\ req' \in [Requests -> Inputs \cup {NULL}]
           /\ \A q \in Requests : (req'[q] = NULL) <=> (pc'[q] = "idle")
           /\ pid' \in [Requests -> 0..MaxId]
<1>1. "verifying" \in Pcs \ {"idle"}
  BY DEF Pcs
<1> QED
  BY <1>1, ReturnType, GotoType DEF Respond

LEMMA PcLabels ==
    /\ Pcs \ {"idle"} = HandlerPcs \cup {"verifying"}
    /\ HandlerPcs = {"user_owns_package", "count_owned", "get_package", "save",
                     "scan", "upsert", "resolve_id", "insert_version",
                     "read_latest", "set_latest", "count_owners", "grant_owner"}
BY DEF Pcs, HandlerPcs, BeforeUpsert, BeforeInsert, AfterInsert

LEMMA TypeStep == TypeOK /\ [Next]_vars => TypeOK'
<1> SUFFICES ASSUME TypeOK, [Next]_vars PROVE TypeOK'
  OBVIOUS
<1> USE DEF vars, dbVars, packageVars, versionVars
<1>1. ASSUME NEW r \in Requests, Receive(r) PROVE TypeOK'
  BY <1>1, PcLabels, NullIsNoInput DEF Receive, TypeOK
<1>2. ASSUME NEW r \in Requests, CheckOwner(r) PROVE TypeOK'
  BY <1>2, ReturnType, GotoType, PcLabels DEF CheckOwner, TypeOK
<1>3. ASSUME NEW r \in Requests, CheckQuota(r) PROVE TypeOK'
  BY <1>3, ReturnType, GotoType, PcLabels DEF CheckQuota, TypeOK
<1>4. ASSUME NEW r \in Requests, CheckDuplicate(r) PROVE TypeOK'
  BY <1>4, ReturnType, GotoType, PcLabels DEF CheckDuplicate, TypeOK
<1>5. ASSUME NEW r \in Requests, SaveBlob(r) PROVE TypeOK'
  <2>1. pc[r] # "idle" /\ req[r] \in Inputs
    BY <1>5 DEF SaveBlob, TypeOK
  <2>2. blobs' \in [Spellings -> [Versions -> Contents \cup {NULL}]]
    BY <1>5, <2>1, InputFields DEF SaveBlob, TypeOK
  <2> QED
    BY <1>5, <2>1, <2>2, GotoType, PcLabels DEF SaveBlob, TypeOK
<1>6. ASSUME NEW r \in Requests, Scan(r) PROVE TypeOK'
  BY <1>6, ReturnType, GotoType, PcLabels DEF Scan, TypeOK
<1>7. ASSUME NEW r \in Requests, Upsert(r) PROVE TypeOK'
  <2>1. /\ pc[r] # "idle" /\ req[r] \in Inputs /\ Key(r) \in Keys
        /\ req[r].name \in Spellings
    BY <1>7, BusySlot, InputFields DEF Upsert
  <2>2. pkgId' \in [Keys -> 0..MaxId]
    <3>1. CASE pkgId[Key(r)] # 0
      BY <1>7, <3>1 DEF Upsert, TypeOK
    <3>2. CASE pkgId[Key(r)] = 0
      <4>1. PICK n \in 1..MaxId : pkgId' = [pkgId EXCEPT ![Key(r)] = n]
        BY <1>7, <3>2 DEF Upsert
      <4>2. n \in 0..MaxId
        BY BoundsAssumption
      <4> QED
        BY <4>1, <4>2 DEF TypeOK
    <3> QED
      BY <3>1, <3>2
  <2>3. pkgName' \in [Keys -> Spellings \cup {NULL}]
    BY <1>7, <2>1 DEF Upsert, TypeOK
  <2>4. latest' \in [Keys -> Versions \cup {NULL}]
    BY <1>7, <2>1 DEF Upsert, TypeOK
  <2>5. Goto(r, "resolve_id") /\ "resolve_id" \in Pcs \ {"idle"}
    BY <1>7, PcLabels DEF Upsert
  <2> QED
    BY <1>7, <2>1, <2>2, <2>3, <2>4, <2>5, GotoType DEF Upsert, TypeOK
<1>8. ASSUME NEW r \in Requests, ResolveId(r) PROVE TypeOK'
  <2>1. Key(r) \in Keys
    BY <1>8, BusySlot DEF ResolveId
  <2>2. CASE pkgId[Key(r)] = 0
    BY <1>8, <2>2, ReturnType DEF ResolveId, TypeOK
  <2>3. CASE pkgId[Key(r)] # 0
    <3>1. /\ pc[r] # "idle"
          /\ pid' = [pid EXCEPT ![r] = pkgId[Key(r)]]
          /\ pc' = [pc EXCEPT ![r] = "insert_version"]
          /\ UNCHANGED <<dbVars, blobs, faults, req>>
      BY <1>8, <2>3 DEF ResolveId
    <3>2. pid' \in [Requests -> 0..MaxId] /\ pc' \in [Requests -> Pcs]
      BY <3>1, <2>1, PcLabels DEF TypeOK
    <3> QED
      BY <3>1, <3>2 DEF TypeOK
  <2> QED
    BY <2>2, <2>3
<1>9. ASSUME NEW r \in Requests, InsertVersion(r) PROVE TypeOK'
  <2>1. pc[r] # "idle" /\ req[r] \in Inputs
    BY <1>9, BusySlot DEF InsertVersion
  <2>2. /\ status' \in [Keys -> [Versions -> Statuses]]
        /\ digest' \in [Keys -> [Versions -> Contents \cup {NULL}]]
        /\ publisher' \in [Keys -> [Versions -> Users \cup {NULL}]]
    <3>1. CASE UNCHANGED versionVars
      BY <3>1 DEF TypeOK
    <3>2. CASE \E k \in Keys : InsertRow(r, k)
      <4>1. PICK k \in Keys : InsertRow(r, k)
        BY <3>2
      <4>2. req[r].content \in Contents \cup {NULL} /\ req[r].user \in Users
        BY <2>1, InputFields
      <4>3. status' \in [Keys -> [Versions -> Statuses]]
        BY <4>1 DEF InsertRow, TypeOK, Statuses
      <4>4. digest' \in [Keys -> [Versions -> Contents \cup {NULL}]]
        BY <4>1, <4>2 DEF InsertRow, TypeOK
      <4>5. publisher' \in [Keys -> [Versions -> Users \cup {NULL}]]
        BY <4>1, <4>2 DEF InsertRow, TypeOK
      <4> QED
        BY <4>3, <4>4, <4>5
    <3> QED
      BY <1>9, <3>1, <3>2 DEF InsertVersion
  <2> QED
    BY <1>9, <2>1, <2>2, ReturnType, GotoType, PcLabels DEF InsertVersion, TypeOK
<1>10. ASSUME NEW r \in Requests, ReadLatest(r) PROVE TypeOK'
  BY <1>10, GotoType, PcLabels DEF ReadLatest, TypeOK
<1>11. ASSUME NEW r \in Requests, SetLatest(r) PROVE TypeOK'
  <2>1. pc[r] # "idle" /\ req[r].vers \in Versions
    BY <1>11, BusySlot, InputFields DEF SetLatest
  <2>2. latest' \in [Keys -> Versions \cup {NULL}]
    BY <1>11, <2>1 DEF SetLatest, TypeOK
  <2> QED
    BY <1>11, <2>1, <2>2, GotoType, PcLabels DEF SetLatest, TypeOK
<1>12. ASSUME NEW r \in Requests, CountOwners(r) PROVE TypeOK'
  BY <1>12, RespondType, GotoType, PcLabels DEF CountOwners, TypeOK
<1>13. ASSUME NEW r \in Requests, GrantOwner(r) PROVE TypeOK'
  <2>1. pc[r] # "idle" /\ req[r].user \in Users
    BY <1>13, BusySlot, InputFields DEF GrantOwner
  <2>2. owners' \in [Keys -> SUBSET Users]
    <3>1. CASE \E k \in Keys : owners' = [owners EXCEPT ![k] = @ \cup {req[r].user}]
      BY <2>1, <3>1 DEF TypeOK
    <3>2. CASE UNCHANGED owners
      BY <3>2 DEF TypeOK
    <3> QED
      BY <1>13, <3>1, <3>2 DEF GrantOwner
  <2> QED
    BY <1>13, <2>1, <2>2, RespondType, ReturnType DEF GrantOwner, TypeOK
<1>14. ASSUME NEW r \in Requests, Settle(r) PROVE TypeOK'
  <2>1. status' \in [Keys -> [Versions -> Statuses]]
    <3>1. PICK verdict \in {"published", "rejected"} :
            status' = [status EXCEPT ![Key(r)][req[r].vers] =
                         IF @ = "none" THEN "none" ELSE verdict]
      BY <1>14 DEF Settle
    <3> QED
      BY <3>1 DEF TypeOK, Statuses
  <2> QED
    BY <1>14, <2>1, ReturnType DEF Settle, TypeOK
<1>15. ASSUME NEW r \in Requests, Abort(r) PROVE TypeOK'
  BY <1>15, ReturnType, BoundsAssumption DEF Abort, TypeOK
<1>16. ASSUME Restart PROVE TypeOK'
  BY <1>16, BoundsAssumption DEF Restart, TypeOK, Pcs
<1>17. CASE UNCHANGED vars
  BY <1>17 DEF TypeOK
<1> QED
  BY <1>1, <1>2, <1>3, <1>4, <1>5, <1>6, <1>7, <1>8, <1>9, <1>10, <1>11,
     <1>12, <1>13, <1>14, <1>15, <1>16, <1>17 DEF Next, HandlerStep

\* Every table, object and local of the publish path keeps its type.
THEOREM TypeCorrect == Spec => []TypeOK
<1>1. Init => TypeOK
  BY BoundsAssumption DEF Init, TypeOK, Statuses, Pcs
<1> QED
  BY <1>1, TypeStep, PTL DEF Spec

-----------------------------------------------------------------------------
(* The tables: what a step must respect, by the shape of the step, and     *)
(* then step by step.                                                      *)

\* Slot r moves, the other slots do not.
OthersSame(r) ==
    \A q \in Requests \ {r} :
        pc'[q] = pc[q] /\ req'[q] = req[q] /\ pid'[q] = pid[q]

LEMMA Others ==
    ASSUME TypeOK, NEW r \in Requests, NEW label,
           Goto(r, label) \/ Return(r) \/ Respond(r)
    PROVE  OthersSame(r)
BY DEF TypeOK, Goto, Return, Respond, OthersSame

LEMMA RespondMoves ==
    ASSUME TypeOK, NEW r \in Requests, Respond(r)
    PROVE  \/ pc'[r] = "idle"
           \/ /\ req'[r] = req[r] /\ pid'[r] = pid[r]
              /\ pc'[r] = "verifying" /\ req[r].verify
BY DEF TypeOK, Respond, Goto, Return

\* From the insert on, "WHERE id = ?" reaches the row of the handler's own key.
LEMMA OwnRow ==
    ASSUME TablesInv, NEW r \in Requests,
           pc[r] \in {"insert_version"} \cup AfterInsert
    PROVE  /\ Key(r) \in Keys
           /\ HasId(Key(r), r)
           /\ \A k \in Keys : HasId(k, r) => k = Key(r)
           /\ ~IdGone(r)
<1>1. pc[r] # "idle"
  BY DEF AfterInsert
<1>2. Key(r) \in Keys
  BY <1>1, BusySlot DEF TablesInv
<1> QED
  BY <1>2 DEF TablesInv, Resolved, HasId, IdGone, IdsAreUnique

\* A slot that is not past the upsert afterwards, or that is past the insert and goes
\* on; at most the latest version of its package is written.
LEMMA Moving ==
    ASSUME TablesInv, TypeOK', NEW r \in Requests, OthersSame(r),
           UNCHANGED <<pkgId, status>>,
           \A k \in Keys :
              \/ latest'[k] = latest[k]
              \/ pc[r] \in PastInsert /\ k = Key(r) /\ latest'[k] = req[r].vers,
           \/ pc'[r] \notin BeforeInsert \cup PastInsert
           \/ /\ pc[r] \in AfterInsert /\ req'[r] = req[r] /\ pid'[r] = pid[r]
              /\ \/ pc'[r] \in AfterInsert
                 \/ pc'[r] = "verifying" /\ req[r].verify
    PROVE  TablesInv'
<1>1. IdsAreUnique'
  BY DEF TablesInv, IdsAreUnique
<1>2. Resolved'
  BY DEF TablesInv, Resolved, OthersSame, Key, BeforeInsert, PastInsert, AfterInsert
<1>3. Inserted'
  BY DEF TablesInv, Inserted, OthersSame, Key, HasRow, PastInsert, AfterInsert
<1>4. OneInserter'
  BY DEF TablesInv, OneInserter, OthersSame, Key, PastInsert, AfterInsert
<1>5. LatestHasRow'
  BY DEF TablesInv, Inserted, LatestHasRow, HasRow
<1> QED
  BY <1>1, <1>2, <1>3, <1>4, <1>5 DEF TablesInv

LEMMA TablesEarly ==
    ASSUME TablesInv, TypeOK', NEW r \in Requests,
           \/ Receive(r) \/ CheckOwner(r) \/ CheckQuota(r) \/ CheckDuplicate(r)
           \/ SaveBlob(r) \/ Scan(r) \/ Abort(r)
    PROVE  TablesInv'
<1>1. UNCHANGED dbVars
  BY DEF Receive, CheckOwner, CheckQuota, CheckDuplicate, SaveBlob, Scan, Abort
<1>2. OthersSame(r)
  BY Others DEF TablesInv, TypeOK, Receive, CheckOwner, CheckQuota, CheckDuplicate,
                SaveBlob, Scan, Abort, OthersSame
<1>3. pc'[r] \in {"idle", "user_owns_package", "count_owned", "get_package", "save",
                  "scan", "upsert"}
  BY DEF TablesInv, TypeOK, Receive, CheckOwner, CheckQuota, CheckDuplicate,
         SaveBlob, Scan, Abort, Goto, Return
<1> QED
  BY <1>1, <1>2, <1>3, Moving
  DEF dbVars, packageVars, versionVars, BeforeInsert, PastInsert, AfterInsert

\* A new packages row has a fresh id and no version yet.
LEMMA TablesUpsert ==
    ASSUME TablesInv, TypeOK', NEW r \in Requests, Upsert(r)
    PROVE  /\ TablesInv'
           /\ OthersSame(r)
           /\ UNCHANGED <<versionVars, owners, blobs, faults, req, pid>>
           /\ pc[r] = "upsert" /\ pc'[r] = "resolve_id"
           /\ \A k \in Keys \ {Key(r)} : pkgId'[k] = pkgId[k]
<1> USE DEF packageVars, versionVars
<1>1. /\ OthersSame(r)
      /\ UNCHANGED <<versionVars, owners, blobs, faults, req, pid>>
      /\ pc[r] = "upsert" /\ pc'[r] = "resolve_id"
  BY Others DEF TablesInv, TypeOK, Upsert, Goto
<1>2. Key(r) \in Keys
  BY <1>1, BusySlot DEF TablesInv
<1>3. /\ pkgId'[Key(r)] # 0
      /\ \A k \in Keys : pkgId[k] # 0 => pkgId'[k] = pkgId[k]
      /\ \A k \in Keys \ {Key(r)} : pkgId'[k] = pkgId[k]
      /\ \A k \in Keys : latest'[k] \in {latest[k], NULL}
  BY <1>2 DEF TablesInv, TypeOK, Upsert
<1>4. IdsAreUnique'
  <2>1. CASE UNCHANGED packageVars
    BY <2>1 DEF TablesInv, IdsAreUnique
  <2>2. CASE pkgId[Key(r)] = 0
    <3>1. PICK n \in 1..MaxId :
            IsNextId(n) /\ pkgId' = [pkgId EXCEPT ![Key(r)] = n]
      BY <2>2 DEF Upsert
    <3>2. \A k \in Keys : pkgId[k] # n
      BY <3>1, BoundsAssumption DEF IsNextId, TablesInv, TypeOK
    <3> QED
      BY <1>2, <3>1, <3>2 DEF TablesInv, IdsAreUnique, TypeOK
  <2> QED
    BY <2>1, <2>2 DEF Upsert
<1>5. Resolved'
  <2>1. ASSUME NEW q \in Requests \ {r}, pc[q] \in BeforeInsert \cup AfterInsert
        PROVE  Key(q) \in Keys
    BY <2>1, BusySlot DEF TablesInv, BeforeInsert, AfterInsert
  <2> QED
    BY <1>1, <1>3, <2>1
    DEF TablesInv, Resolved, OthersSame, Key, BeforeInsert, AfterInsert
<1>6. Inserted' /\ OneInserter'
  BY <1>1 DEF TablesInv, Inserted, OneInserter, OthersSame, Key, HasRow, PastInsert,
              AfterInsert
<1>7. LatestHasRow'
  BY <1>1, <1>3 DEF TablesInv, LatestHasRow, HasRow
<1> QED
  BY <1>1, <1>3, <1>4, <1>5, <1>6, <1>7 DEF TablesInv

LEMMA TablesResolve ==
    ASSUME TablesInv, TypeOK', NEW r \in Requests, ResolveId(r)
    PROVE  /\ TablesInv'
           /\ OthersSame(r)
           /\ UNCHANGED <<dbVars, blobs, faults, req>>
           /\ pc[r] = "resolve_id" /\ pc'[r] = "insert_version"
<1> USE DEF dbVars, packageVars, versionVars
<1>1. /\ UNCHANGED <<dbVars, blobs, faults, req>>
      /\ pc[r] = "resolve_id" /\ pc'[r] = "insert_version"
      /\ pid'[r] = pkgId[Key(r)] /\ pid'[r] # 0
      /\ OthersSame(r)
  BY DEF TablesInv, TypeOK, Resolved, ResolveId, OthersSame
<1>2. IdsAreUnique' /\ LatestHasRow'
  BY <1>1 DEF TablesInv, IdsAreUnique, LatestHasRow, HasRow
<1>3. Resolved'
  BY <1>1 DEF TablesInv, Resolved, OthersSame, Key, BeforeInsert, AfterInsert
<1>4. Inserted' /\ OneInserter'
  BY <1>1 DEF TablesInv, Inserted, OneInserter, OthersSame, Key, HasRow,
              BeforeInsert, PastInsert, AfterInsert
<1> QED
  BY <1>1, <1>2, <1>3, <1>4 DEF TablesInv

\* The insert goes to the row of the handler's own key.
LEMMA InsertCases ==
    ASSUME TablesInv, NEW r \in Requests, InsertVersion(r)
    PROVE  /\ pc[r] = "insert_version"
           /\ UNCHANGED <<packageVars, owners, blobs, faults>>
           /\ OthersSame(r)
           /\ Key(r) \in Keys /\ HasId(Key(r), r) /\ req[r].vers \in Versions
           /\ \/ /\ status[Key(r)][req[r].vers] # "none"
                 /\ UNCHANGED versionVars /\ pc'[r] = "idle"
              \/ /\ InsertRow(r, Key(r))
                 /\ UNCHANGED <<req, pid>> /\ pc'[r] = "read_latest"
<1>1. pc[r] = "insert_version" /\ UNCHANGED <<packageVars, owners, blobs, faults>>
  BY DEF InsertVersion
<1>2. /\ Key(r) \in Keys /\ HasId(Key(r), r) /\ ~IdGone(r)
      /\ \A k \in Keys : HasId(k, r) => k = Key(r)
  BY <1>1, OwnRow
<1>3. req[r].vers \in Versions
  BY <1>1, BusySlot, InputFields DEF TablesInv
<1>4. \/ InsertRow(r, Key(r)) /\ Goto(r, "read_latest")
      \/ Return(r) /\ UNCHANGED versionVars /\ status[Key(r)][req[r].vers] # "none"
  BY <1>2 DEF InsertVersion, InsertRow
<1>5. OthersSame(r)
  BY <1>4, Others DEF TablesInv
<1>6. pc'[r] = "idle" \/ InsertRow(r, Key(r))
  BY <1>4 DEF TablesInv, TypeOK, Return
<1> QED
  BY <1>1, <1>2, <1>3, <1>4, <1>5, <1>6 DEF TablesInv, TypeOK, Goto, Return

\* What the insert writes.
LEMMA InsertedRow ==
    ASSUME TypeOK, NEW r \in Requests, Key(r) \in Keys, req[r].vers \in Versions,
           InsertRow(r, Key(r))
    PROVE  LET k0 == Key(r) v0 == req[r].vers IN
           /\ status[k0][v0] = "none"
           /\ status'[k0][v0] = IF req[r].verify THEN "pending" ELSE "published"
           /\ digest'[k0][v0] = req[r].content
           /\ publisher'[k0][v0] = req[r].user
           /\ \A k \in Keys, v \in Versions : <<k, v>> # <<k0, v0>> =>
                 /\ status'[k][v] = status[k][v]
                 /\ digest'[k][v] = digest[k][v]
                 /\ publisher'[k][v] = publisher[k][v]
BY DEF InsertRow, TypeOK

LEMMA TablesInsert ==
    ASSUME TablesInv, TypeOK', NEW r \in Requests, InsertVersion(r)
    PROVE  TablesInv'
<1> USE DEF packageVars
<1> DEFINE k0 == Key(r)
           v0 == req[r].vers
<1>1. /\ pc[r] = "insert_version"
      /\ UNCHANGED <<packageVars, owners, blobs, faults>>
      /\ OthersSame(r)
      /\ k0 \in Keys /\ v0 \in Versions
  BY InsertCases
<1>2. CASE UNCHANGED versionVars /\ pc'[r] = "idle"
  BY <1>1, <1>2, Moving DEF versionVars, BeforeInsert, PastInsert, AfterInsert
<1>3. CASE InsertRow(r, k0) /\ UNCHANGED <<req, pid>> /\ pc'[r] = "read_latest"
  <2>1. /\ status[k0][v0] = "none"
        /\ status'[k0][v0] = IF req[r].verify THEN "pending" ELSE "published"
        /\ \A k \in Keys, v \in Versions : <<k, v>> # <<k0, v0>> =>
              status'[k][v] = status[k][v]
    BY <1>1, <1>3, InsertedRow DEF TablesInv
  <2>2. IdsAreUnique'
    BY <1>1 DEF TablesInv, IdsAreUnique
  <2>3. Resolved'
    BY <1>1, <1>3 DEF TablesInv, Resolved, OthersSame, Key, BeforeInsert, AfterInsert
  <2>4. ASSUME NEW q \in Requests \ {r}, pc[q] \in PastInsert
        PROVE  /\ Key(q) \in Keys /\ req[q].vers \in Versions
               /\ <<Key(q), req[q].vers>> # <<k0, v0>>
    <3>1. pc[q] # "idle" /\ HasRow(Key(q), req[q].vers)
      BY <2>4 DEF TablesInv, Inserted, PastInsert, AfterInsert
    <3>2. Key(q) \in Keys /\ req[q].vers \in Versions
      BY <3>1, BusySlot, InputFields DEF TablesInv
    <3> QED
      BY <2>1, <3>1, <3>2 DEF HasRow
  <2>5. Inserted'
    <3>1. ASSUME NEW q \in Requests \ {r}, pc[q] \in PastInsert
          PROVE  status'[Key(q)][req[q].vers] = status[Key(q)][req[q].vers]
      BY <2>1, <2>4, <3>1
    <3> QED
      BY <1>1, <1>3, <2>1, <3>1
      DEF TablesInv, Inserted, OthersSame, Key, HasRow, PastInsert, AfterInsert
  <2>6. OneInserter'
    BY <1>1, <1>3, <2>4
    DEF TablesInv, OneInserter, OthersSame, Key, PastInsert, AfterInsert
  <2>7. LatestHasRow'
    <3>1. \A k \in Keys : latest[k] # NULL => latest[k] \in Versions
      BY DEF TablesInv, TypeOK
    <3> QED
      BY <1>1, <2>1, <3>1 DEF TablesInv, LatestHasRow, HasRow
  <2> QED
    BY <2>2, <2>3, <2>5, <2>6, <2>7 DEF TablesInv
<1> QED
  BY <1>2, <1>3, InsertCases

\* The rest of publish_version: latest_version, and the first owner.
LEMMA FinishingCases ==
    ASSUME TablesInv, NEW r \in Requests,
           ReadLatest(r) \/ SetLatest(r) \/ CountOwners(r) \/ GrantOwner(r)
    PROVE  /\ pc[r] \in AfterInsert
           /\ UNCHANGED <<pkgId, pkgName, versionVars, blobs, faults>>
           /\ OthersSame(r)
           /\ \/ pc'[r] = "idle"
              \/ /\ req'[r] = req[r] /\ pid'[r] = pid[r]
                 /\ \/ pc'[r] \in AfterInsert
                    \/ pc'[r] = "verifying" /\ req[r].verify
<1>1. pc[r] \in AfterInsert /\ UNCHANGED <<pkgId, pkgName, versionVars, blobs, faults>>
  BY DEF ReadLatest, SetLatest, CountOwners, GrantOwner, AfterInsert, packageVars,
         dbVars
<1>2. CASE ReadLatest(r) \/ SetLatest(r)
  <2>1. \E label \in AfterInsert : Goto(r, label)
    BY <1>2 DEF ReadLatest, SetLatest, AfterInsert
  <2> QED
    BY <1>1, <2>1, Others DEF TablesInv, TypeOK, Goto
<1>3. CASE CountOwners(r) \/ GrantOwner(r)
  <2>1. Respond(r) \/ Return(r) \/ Goto(r, "grant_owner")
    BY <1>3 DEF CountOwners, GrantOwner
  <2> QED
    BY <1>1, <2>1, Others, RespondMoves
    DEF TablesInv, TypeOK, Goto, Return, AfterInsert
<1> QED
  BY <1>2, <1>3

LEMMA TablesFinishing ==
    ASSUME TablesInv, TypeOK', NEW r \in Requests,
           ReadLatest(r) \/ SetLatest(r) \/ CountOwners(r) \/ GrantOwner(r)
    PROVE  TablesInv'
<1>1. pc[r] \in AfterInsert /\ pc[r] \in PastInsert
  BY FinishingCases DEF PastInsert
<1>2. \A k \in Keys :
         \/ latest'[k] = latest[k]
         \/ k = Key(r) /\ latest'[k] = req[r].vers
  <2>1. \A k \in Keys : HasId(k, r) => k = Key(r)
    BY <1>1, OwnRow
  <2>2. CASE ReadLatest(r) \/ CountOwners(r) \/ GrantOwner(r)
    BY <2>2 DEF ReadLatest, CountOwners, GrantOwner, dbVars, packageVars
  <2>3. CASE SetLatest(r)
    BY <2>1, <2>3 DEF SetLatest
  <2> QED
    BY <2>2, <2>3
<1>3. /\ OthersSame(r) /\ UNCHANGED <<pkgId, status>>
      /\ \/ pc'[r] = "idle"
         \/ /\ req'[r] = req[r] /\ pid'[r] = pid[r]
            /\ \/ pc'[r] \in AfterInsert
               \/ pc'[r] = "verifying" /\ req[r].verify
  BY FinishingCases DEF versionVars
<1>4. "idle" \notin BeforeInsert \cup PastInsert
  BY DEF BeforeInsert, PastInsert, AfterInsert
<1> QED
  BY <1>1, <1>2, <1>3, <1>4, Moving

\* The verdict reaches the pending row of this slot, and no slot waits for it.
LEMMA TablesSettle ==
    ASSUME TablesInv, TypeOK', NEW r \in Requests, Settle(r)
    PROVE  /\ TablesInv'
           /\ pc[r] = "verifying" /\ pc'[r] = "idle"
           /\ UNCHANGED <<packageVars, digest, publisher, owners, blobs, faults>>
           /\ OthersSame(r)
           /\ status[Key(r)][req[r].vers] = "pending"
           /\ status'[Key(r)][req[r].vers] \in {"published", "rejected"}
           /\ \A k \in Keys, v \in Versions :
                 /\ HasRow(k, v)' <=> HasRow(k, v)
                 /\ <<k, v>> # <<Key(r), req[r].vers>> => status'[k][v] = status[k][v]
<1> USE DEF packageVars
<1>1. /\ pc[r] = "verifying" /\ pc'[r] = "idle"
      /\ UNCHANGED <<packageVars, digest, publisher, owners, blobs, faults>>
      /\ OthersSame(r)
  BY Others DEF TablesInv, TypeOK, Settle, Return
<1>2. /\ Key(r) \in Keys /\ req[r].vers \in Versions
      /\ status[Key(r)][req[r].vers] = "pending"
  BY <1>1, BusySlot, InputFields DEF TablesInv, Inserted, PastInsert
<1>3. PICK verdict \in {"published", "rejected"} :
        status' = [status EXCEPT ![Key(r)][req[r].vers] =
                     IF @ = "none" THEN "none" ELSE verdict]
  BY DEF Settle
<1>4. /\ status'[Key(r)][req[r].vers] \in {"published", "rejected"}
      /\ \A k \in Keys, v \in Versions :
            /\ HasRow(k, v)' <=> HasRow(k, v)
            /\ <<k, v>> # <<Key(r), req[r].vers>> => status'[k][v] = status[k][v]
  BY <1>2, <1>3 DEF TablesInv, TypeOK, HasRow
<1>5. ASSUME NEW q \in Requests \ {r}, pc[q] \in PastInsert
      PROVE  status'[Key(q)][req[q].vers] = status[Key(q)][req[q].vers]
  <2>1. Key(q) \in Keys /\ req[q].vers \in Versions
    BY <1>5, BusySlot, InputFields DEF TablesInv, PastInsert, AfterInsert
  <2>2. <<Key(q), req[q].vers>> # <<Key(r), req[r].vers>>
    BY <1>1, <1>5 DEF TablesInv, OneInserter, PastInsert
  <2> QED
    BY <1>4, <2>1, <2>2
<1>6. IdsAreUnique' /\ Resolved'
  BY <1>1 DEF TablesInv, IdsAreUnique, Resolved, OthersSame, Key, BeforeInsert,
              AfterInsert
<1>7. Inserted'
  BY <1>1, <1>5
  DEF TablesInv, Inserted, OthersSame, Key, HasRow, PastInsert, AfterInsert
<1>8. OneInserter'
  BY <1>1 DEF TablesInv, OneInserter, OthersSame, Key, PastInsert, AfterInsert
<1>9. LatestHasRow'
  <2>1. \A k \in Keys : latest[k] # NULL => latest[k] \in Versions
    BY DEF TablesInv, TypeOK
  <2> QED
    BY <1>1, <1>4, <2>1 DEF TablesInv, LatestHasRow
<1> QED
  BY <1>1, <1>2, <1>4, <1>6, <1>7, <1>8, <1>9 DEF TablesInv

LEMMA TablesRestart == TablesInv /\ TypeOK' /\ Restart => TablesInv'
<1> SUFFICES ASSUME TablesInv, TypeOK', Restart PROVE TablesInv'
  OBVIOUS
<1>1. UNCHANGED dbVars /\ \A q \in Requests : pc'[q] = "idle"
  BY DEF Restart
<1> QED
  BY <1>1 DEF dbVars, packageVars, versionVars, TablesInv, IdsAreUnique, Resolved,
     Inserted, OneInserter, LatestHasRow, HasRow, BeforeInsert, PastInsert, AfterInsert

LEMMA TablesStep == TablesInv /\ [Next]_vars => TablesInv'
<1> SUFFICES ASSUME TablesInv, [Next]_vars PROVE TablesInv'
  OBVIOUS
<1>1. TypeOK'
  BY TypeStep DEF TablesInv
<1>2. CASE Next
  BY <1>1, <1>2, TablesEarly, TablesUpsert, TablesResolve, TablesInsert,
     TablesFinishing, TablesSettle, TablesRestart DEF Next, HandlerStep
<1>3. CASE UNCHANGED vars
  BY <1>1, <1>3
  DEF vars, dbVars, packageVars, versionVars, TablesInv, IdsAreUnique, Resolved,
      Inserted, OneInserter, LatestHasRow, HasRow, Key
<1> QED
  BY <1>2, <1>3

-----------------------------------------------------------------------------
(* The objects, and who answers for an unowned package.                    *)

\* A slot that is not between the save and the insert, or stays what it was.
LEMMA ObjectsKept ==
    ASSUME Inv, NEW r \in Requests, OthersSame(r),
           UNCHANGED <<digest, blobs>>,
           \/ pc'[r] \notin {"save", "scan", "upsert"} \cup BeforeInsert
           \/ /\ pc[r] \in {"scan", "upsert"} \cup BeforeInsert
              /\ pc'[r] \in {"upsert"} \cup BeforeInsert
              /\ req'[r] = req[r]
           \/ pc'[r] = "save" /\ req'[r].content # NULL
           \/ pc'[r] = "upsert" /\ req'[r].content = NULL
    PROVE  Saved' /\ RowHasBlob'
<1>1. Saved'
  BY DEF Inv, Saved, OthersSame, BeforeInsert
<1>2. RowHasBlob'
  BY DEF Inv, RowHasBlob
<1> QED
  BY <1>1, <1>2

\* A slot that keeps its claim, or a fault.
LEMMA ClaimantsKept ==
    ASSUME Inv, NEW r \in Requests, OthersSame(r),
           UNCHANGED <<pkgId, status, owners>>,
           \/ faults' # 0
           \/ /\ faults' = faults
              /\ pc[r] \in BeforeInsert \cup AfterInsert =>
                    /\ req'[r] = req[r]
                    /\ pc'[r] \in BeforeInsert \cup AfterInsert
              /\ pc[r] \in AfterInsert => pc'[r] \in AfterInsert
    PROVE  RowHasClaimant' /\ OrphanHasClaimant'
<1>1. RowHasClaimant'
  BY DEF Inv, RowHasClaimant, OthersSame, Key, HasRow, BeforeInsert, AfterInsert
<1>2. OrphanHasClaimant'
  BY DEF Inv, OrphanHasClaimant, OthersSame, Key
<1> QED
  BY <1>1, <1>2

\* The package of slot r has an owner afterwards.
LEMMA ClaimSettled ==
    ASSUME Inv, NEW r \in Requests, OthersSame(r),
           UNCHANGED <<pkgId, status, faults>>,
           owners'[Key(r)] # {},
           \A k \in Keys \ {Key(r)} : owners'[k] = owners[k]
    PROVE  RowHasClaimant' /\ OrphanHasClaimant'
<1>1. RowHasClaimant'
  BY DEF Inv, RowHasClaimant, OthersSame, Key, HasRow
<1>2. OrphanHasClaimant'
  BY DEF Inv, OrphanHasClaimant, OthersSame, Key
<1> QED
  BY <1>1, <1>2

LEMMA ReceiveStep ==
    ASSUME Inv, TablesInv', NEW r \in Requests,
           Receive(r) \/ CheckOwner(r) \/ CheckQuota(r) \/ CheckDuplicate(r)
    PROVE  Inv'
<1>1. OthersSame(r)
  BY Others DEF Inv, TablesInv, TypeOK, Receive, CheckOwner, CheckQuota,
                CheckDuplicate, OthersSame
<1>2. /\ UNCHANGED <<dbVars, blobs, faults>>
      /\ pc[r] \notin BeforeInsert \cup AfterInsert
  BY DEF Receive, CheckOwner, CheckQuota, CheckDuplicate, BeforeInsert, AfterInsert
<1>3. \/ pc'[r] \in {"idle", "user_owns_package", "count_owned", "get_package"}
      \/ pc'[r] = "save" /\ req'[r].content # NULL
      \/ pc'[r] = "upsert" /\ req'[r].content = NULL
  BY DEF Inv, TablesInv, TypeOK, Receive, CheckOwner, CheckQuota, CheckDuplicate,
         Goto, Return
<1>4. Saved' /\ RowHasBlob'
  BY <1>1, <1>2, <1>3, ObjectsKept DEF dbVars, versionVars, BeforeInsert
<1>5. RowHasClaimant' /\ OrphanHasClaimant'
  BY <1>1, <1>2, ClaimantsKept DEF dbVars, packageVars, versionVars
<1> QED
  BY <1>4, <1>5 DEF Inv

\* The save: objects are written, never removed.
LEMMA SaveStep ==
    ASSUME Inv, TablesInv', NEW r \in Requests, SaveBlob(r)
    PROVE  Inv'
<1> USE DEF dbVars, packageVars, versionVars
<1>1. /\ OthersSame(r)
      /\ UNCHANGED <<dbVars, faults, req, pid>>
      /\ pc[r] = "save" /\ pc'[r] = "scan"
      /\ blobs' = [blobs EXCEPT ![req[r].name][req[r].vers] = req[r].content]
  BY Others DEF Inv, TablesInv, TypeOK, SaveBlob, Goto
<1>2. /\ req[r] \in Inputs
      /\ req[r].name \in Spellings /\ req[r].vers \in Versions
  BY <1>1, BusySlot, InputFields DEF Inv, TablesInv
<1>3. req[r].content # NULL
  BY <1>1 DEF Inv, Saved
<1>4. ASSUME NEW s \in Spellings, NEW v \in Versions, blobs[s][v] # NULL
      PROVE  blobs'[s][v] # NULL
  BY <1>1, <1>2, <1>3, <1>4 DEF Inv, TablesInv, TypeOK
<1>5. blobs'[req[r].name][req[r].vers] # NULL
  BY <1>1, <1>2, <1>3 DEF Inv, TablesInv, TypeOK
<1>6. Saved'
  <2>1. ASSUME NEW q \in Requests,
               pc'[q] \in {"scan", "upsert"} \cup BeforeInsert,
               req'[q].content # NULL
        PROVE  blobs'[req'[q].name][req'[q].vers] # NULL
    <3>1. CASE q = r
      BY <1>1, <1>5, <3>1
    <3>2. CASE q # r
      <4>1. blobs[req[q].name][req[q].vers] # NULL
        BY <1>1, <2>1, <3>2 DEF Inv, Saved, OthersSame
      <4>2. req[q].name \in Spellings /\ req[q].vers \in Versions
        BY <1>1, <2>1, <3>2, BusySlot, InputFields
        DEF Inv, TablesInv, OthersSame, BeforeInsert
      <4> QED
        BY <1>1, <1>4, <4>1, <4>2
    <3> QED
      BY <3>1, <3>2
  <2> QED
    BY <1>1, <1>3, <2>1 DEF Inv, Saved, OthersSame
<1>7. RowHasBlob'
  BY <1>1, <1>4 DEF Inv, RowHasBlob
<1>8. RowHasClaimant' /\ OrphanHasClaimant'
  BY <1>1, ClaimantsKept DEF BeforeInsert, AfterInsert
<1> QED
  BY <1>6, <1>7, <1>8 DEF Inv

LEMMA ScanStep ==
    ASSUME Inv, TablesInv', NEW r \in Requests, Scan(r)
    PROVE  Inv'
<1>1. /\ OthersSame(r)
      /\ UNCHANGED <<dbVars, blobs, faults>>
      /\ pc[r] = "scan"
      /\ \/ pc'[r] = "idle"
         \/ pc'[r] = "upsert" /\ req'[r] = req[r]
  BY Others DEF Inv, TablesInv, TypeOK, Scan, Goto, Return
<1>2. Saved' /\ RowHasBlob'
  BY <1>1, ObjectsKept DEF dbVars, versionVars, BeforeInsert
<1>3. RowHasClaimant' /\ OrphanHasClaimant'
  BY <1>1, ClaimantsKept DEF dbVars, packageVars, versionVars, BeforeInsert, AfterInsert
<1> QED
  BY <1>2, <1>3 DEF Inv

\* A new packages row has a handler to claim it.
LEMMA UpsertStep ==
    ASSUME Inv, TablesInv', NEW r \in Requests, Upsert(r)
    PROVE  Inv'
<1>1. /\ OthersSame(r)
      /\ UNCHANGED <<versionVars, owners, blobs, faults, req, pid>>
      /\ pc[r] = "upsert" /\ pc'[r] = "resolve_id"
      /\ \A k \in Keys \ {Key(r)} : pkgId'[k] = pkgId[k]
  BY TablesUpsert DEF Inv, TablesInv
<1>2. Saved' /\ RowHasBlob'
  BY <1>1, ObjectsKept DEF versionVars, BeforeInsert
<1>3. RowHasClaimant'
  BY <1>1
  DEF Inv, RowHasClaimant, OthersSame, Key, HasRow, versionVars, AfterInsert
<1>4. OrphanHasClaimant'
  BY <1>1 DEF Inv, OrphanHasClaimant, OthersSame, Key, BeforeInsert, AfterInsert
<1> QED
  BY <1>2, <1>3, <1>4 DEF Inv

LEMMA ResolveStep ==
    ASSUME Inv, TablesInv', NEW r \in Requests, ResolveId(r)
    PROVE  Inv'
<1>1. /\ OthersSame(r)
      /\ UNCHANGED <<dbVars, blobs, faults, req>>
      /\ pc[r] = "resolve_id" /\ pc'[r] = "insert_version"
  BY TablesResolve DEF Inv, TablesInv
<1>2. Saved' /\ RowHasBlob'
  BY <1>1, ObjectsKept DEF dbVars, versionVars, BeforeInsert
<1>3. RowHasClaimant' /\ OrphanHasClaimant'
  BY <1>1, ClaimantsKept DEF dbVars, packageVars, versionVars, BeforeInsert, AfterInsert
<1> QED
  BY <1>2, <1>3 DEF Inv

\* When the row is there already, whoever inserted it answers for the package.
LEMMA InsertStep ==
    ASSUME Inv, TablesInv', NEW r \in Requests, InsertVersion(r)
    PROVE  Inv'
<1> USE DEF packageVars, versionVars
<1> DEFINE k0 == Key(r)
           v0 == req[r].vers
<1>1. /\ pc[r] = "insert_version"
      /\ UNCHANGED <<packageVars, owners, blobs, faults>>
      /\ OthersSame(r)
      /\ k0 \in Keys /\ HasId(k0, r) /\ v0 \in Versions
  BY InsertCases DEF Inv
<1>2. CASE status[k0][v0] # "none" /\ UNCHANGED versionVars /\ pc'[r] = "idle"
  <2>1. Saved' /\ RowHasBlob'
    BY <1>1, <1>2, ObjectsKept DEF BeforeInsert
  <2>2. RowHasClaimant'
    BY <1>1, <1>2 DEF Inv, RowHasClaimant, OthersSame, Key, HasRow, AfterInsert
  <2>3. OrphanHasClaimant'
    <3>1. ASSUME NEW k \in Keys, pkgId[k] # 0, owners[k] = {}, faults = 0
          PROVE  \E q \in Requests \ {r} :
                    pc[q] \in BeforeInsert \cup AfterInsert /\ Key(q) = k
      <4>1. CASE k = k0
        BY <1>1, <1>2, <3>1, <4>1 DEF Inv, RowHasClaimant, HasRow, AfterInsert
      <4>2. CASE k # k0
        BY <3>1, <4>2 DEF Inv, OrphanHasClaimant
      <4> QED
        BY <4>1, <4>2
    <3> QED
      BY <1>1, <1>2, <3>1 DEF OrphanHasClaimant, OthersSame, Key
  <2> QED
    BY <2>1, <2>2, <2>3 DEF Inv
<1>3. CASE InsertRow(r, k0) /\ UNCHANGED <<req, pid>> /\ pc'[r] = "read_latest"
  <2>1. /\ digest'[k0][v0] = req[r].content
        /\ \A k \in Keys, v \in Versions : <<k, v>> # <<k0, v0>> =>
              status'[k][v] = status[k][v] /\ digest'[k][v] = digest[k][v]
    BY <1>1, <1>3, InsertedRow DEF Inv, TablesInv
  <2>2. Saved'
    BY <1>1, <1>3 DEF Inv, Saved, OthersSame, BeforeInsert
  <2>3. RowHasBlob'
    <3>1. req[r].content # NULL => blobs[req[r].name][v0] # NULL
      BY <1>1 DEF Inv, Saved, BeforeInsert
    <3>2. req[r].name \in Spellings /\ Lower[req[r].name] = k0[1]
      BY <1>1, BusySlot, InputFields DEF Inv, TablesInv
    <3> QED
      BY <1>1, <2>1, <3>1, <3>2 DEF Inv, RowHasBlob
  <2>4. RowHasClaimant'
    BY <1>1, <1>3, <2>1
    DEF Inv, RowHasClaimant, OthersSame, Key, HasRow, AfterInsert
  <2>5. OrphanHasClaimant'
    BY <1>1, <1>3
    DEF Inv, OrphanHasClaimant, OthersSame, Key, BeforeInsert, AfterInsert
  <2> QED
    BY <2>2, <2>3, <2>4, <2>5 DEF Inv
<1> QED
  BY <1>2, <1>3, InsertCases DEF Inv

LEMMA LatestStep ==
    ASSUME Inv, TablesInv', NEW r \in Requests, ReadLatest(r) \/ SetLatest(r)
    PROVE  Inv'
<1>1. /\ pc[r] \in AfterInsert /\ pc'[r] \in AfterInsert
      /\ UNCHANGED <<owners, req>>
  BY DEF Inv, TablesInv, TypeOK, ReadLatest, SetLatest, Goto, AfterInsert, dbVars
<1>2. /\ UNCHANGED <<pkgId, pkgName, versionVars, blobs, faults>>
      /\ OthersSame(r)
  BY FinishingCases DEF Inv
<1>3. Saved' /\ RowHasBlob'
  BY <1>1, <1>2, ObjectsKept DEF versionVars, BeforeInsert, AfterInsert
<1>4. RowHasClaimant' /\ OrphanHasClaimant'
  BY <1>1, <1>2, ClaimantsKept DEF versionVars
<1> QED
  BY <1>3, <1>4 DEF Inv

\* A handler that answers leaves an owned package behind.
LEMMA OwnerStep ==
    ASSUME Inv, TablesInv', NEW r \in Requests, CountOwners(r) \/ GrantOwner(r)
    PROVE  Inv'
<1>1. /\ pc[r] \in AfterInsert
      /\ UNCHANGED <<pkgId, pkgName, versionVars, blobs, faults>>
      /\ OthersSame(r)
      /\ pc'[r] \in {"idle", "verifying"} \cup AfterInsert
  BY FinishingCases DEF Inv
<1>2. /\ Key(r) \in Keys /\ HasId(Key(r), r) /\ ~IdGone(r)
      /\ \A k \in Keys : HasId(k, r) => k = Key(r)
  BY <1>1, OwnRow DEF Inv
<1>3. TypeOK
  BY DEF Inv, TablesInv
<1>4. Saved' /\ RowHasBlob'
  BY <1>1, ObjectsKept DEF versionVars, BeforeInsert, AfterInsert
<1>5. ASSUME CountOwners(r)
      PROVE  RowHasClaimant' /\ OrphanHasClaimant'
  <2>1. UNCHANGED owners
    BY <1>5 DEF CountOwners, dbVars
  <2>2. CASE Goto(r, "grant_owner")
    <3>1. req'[r] = req[r] /\ pc'[r] \in AfterInsert
      BY <1>3, <2>2 DEF TypeOK, Goto, AfterInsert
    <3> QED
      BY <1>1, <2>1, <3>1, ClaimantsKept DEF versionVars
  <2>3. CASE owners[Key(r)] # {}
    BY <1>1, <2>1, <2>3, ClaimSettled DEF versionVars
  <2> QED
    BY <1>2, <1>5, <2>2, <2>3 DEF CountOwners
<1>6. ASSUME GrantOwner(r)
      PROVE  RowHasClaimant' /\ OrphanHasClaimant'
  <2>1. owners' = [owners EXCEPT ![Key(r)] = @ \cup {req[r].user}]
    BY <1>2, <1>6 DEF GrantOwner
  <2>2. /\ owners'[Key(r)] # {}
        /\ \A k \in Keys \ {Key(r)} : owners'[k] = owners[k]
    BY <1>2, <1>3, <2>1 DEF TypeOK
  <2> QED
    BY <1>1, <2>2, ClaimSettled DEF versionVars
<1> QED
  BY <1>4, <1>5, <1>6 DEF Inv

LEMMA SettleStep ==
    ASSUME Inv, TablesInv', NEW r \in Requests, Settle(r)
    PROVE  Inv'
<1>1. /\ pc[r] = "verifying" /\ pc'[r] = "idle"
      /\ UNCHANGED <<packageVars, digest, owners, blobs, faults>>
      /\ OthersSame(r)
      /\ \A k \in Keys, v \in Versions : HasRow(k, v)' <=> HasRow(k, v)
  BY TablesSettle DEF Inv, TablesInv
<1>2. Saved' /\ RowHasBlob'
  BY <1>1, ObjectsKept DEF BeforeInsert
<1>3. RowHasClaimant'
  BY <1>1 DEF Inv, RowHasClaimant, OthersSame, Key, AfterInsert
<1>4. OrphanHasClaimant'
  BY <1>1 DEF Inv, OrphanHasClaimant, OthersSame, Key, BeforeInsert, AfterInsert,
              packageVars
<1> QED
  BY <1>2, <1>3, <1>4 DEF Inv

\* After a fault nobody vouches for the unowned packages any more.
LEMMA FaultStep ==
    ASSUME Inv, TablesInv', (\E r \in Requests : Abort(r)) \/ Restart
    PROVE  Inv'
<1>1. faults' # 0 /\ UNCHANGED <<dbVars, blobs>>
  BY DEF Inv, TablesInv, TypeOK, Abort, Restart
<1>2. RowHasClaimant' /\ OrphanHasClaimant'
  BY <1>1 DEF RowHasClaimant, OrphanHasClaimant
<1>3. ASSUME NEW r \in Requests, Abort(r) PROVE Saved' /\ RowHasBlob'
  <2>1. OthersSame(r) /\ pc'[r] = "idle"
    BY <1>3, Others DEF Inv, TablesInv, TypeOK, Abort, Return
  <2> QED
    BY <1>1, <2>1, ObjectsKept DEF dbVars, versionVars, BeforeInsert
<1>4. ASSUME Restart PROVE Saved' /\ RowHasBlob'
  <2>1. \A q \in Requests : pc'[q] = "idle"
    BY <1>4 DEF Restart
  <2> QED
    BY <1>1, <2>1 DEF Inv, Saved, RowHasBlob, BeforeInsert, dbVars, versionVars
<1> QED
  BY <1>2, <1>3, <1>4 DEF Inv

LEMMA InvStep == Inv /\ [Next]_vars => Inv'
<1> SUFFICES ASSUME Inv, [Next]_vars PROVE Inv'
  OBVIOUS
<1>1. TablesInv'
  BY TablesStep DEF Inv
<1>2. CASE Next
  BY <1>1, <1>2, ReceiveStep, SaveStep, ScanStep, UpsertStep, ResolveStep,
     InsertStep, LatestStep, OwnerStep, SettleStep, FaultStep
  DEF Next, HandlerStep
<1>3. CASE UNCHANGED vars
  BY <1>1, <1>3
  DEF vars, dbVars, packageVars, versionVars, Inv, Saved, RowHasClaimant, RowHasBlob,
      OrphanHasClaimant, HasRow, Key
<1> QED
  BY <1>2, <1>3

LEMMA InvInit == Init => Inv
<1> SUFFICES ASSUME Init PROVE Inv
  OBVIOUS
<1>1. TypeOK
  BY BoundsAssumption DEF Init, TypeOK, Statuses, Pcs
<1>2. TablesInv
  BY <1>1 DEF Init, TablesInv, IdsAreUnique, Resolved, Inserted, OneInserter,
     LatestHasRow, HasRow, BeforeInsert, PastInsert, AfterInsert
<1> QED
  BY <1>2 DEF Init, Inv, Saved, RowHasClaimant, RowHasBlob, OrphanHasClaimant,
     HasRow, BeforeInsert

\* The inductive invariant: what every handler knows at each of its calls.
THEOREM Invariance == Spec => []Inv
BY InvInit, InvStep, PTL DEF Spec

-----------------------------------------------------------------------------
(* The properties. *)

\* Whatever handlers are dropped, lost or raced, every listed source version has
\* its tarball in storage (save comes before publish_version).
THEOREM ListedVersionsAreStored == Spec => []RowHasBlob
<1>1. Inv => RowHasBlob
  BY DEF Inv
<1> QED
  BY <1>1, Invariance, PTL

\* packages.latest_version always names a version of the package.
THEOREM LatestVersionExists == Spec => []LatestHasRow
<1>1. Inv => LatestHasRow
  BY DEF Inv, TablesInv
<1> QED
  BY <1>1, Invariance, PTL

\* As long as no handler is dropped, an unowned package is about to be claimed.
THEOREM OrphansAreClaimed == Spec => []OrphanHasClaimant
<1>1. Inv => OrphanHasClaimant
  BY DEF Inv
<1> QED
  BY <1>1, Invariance, PTL

\* A verification settles the pending row of its own publish and no other.
THEOREM JobsOwnTheirRow == Spec => []JobOwnsPendingRow
<1>1. Inv => JobOwnsPendingRow
  BY DEF Inv, TablesInv, Inserted, OneInserter, JobOwnsPendingRow, PastInsert
<1> QED
  BY <1>1, Invariance, PTL

\* A versions row is written once, while its package is there.
WriteOnce ==
    \A k \in Keys, v \in Versions :
        HasRow(k, v) =>
            /\ HasRow(k, v)'
            /\ digest'[k][v] = digest[k][v]
            /\ publisher'[k][v] = publisher[k][v]
            /\ status[k][v] # "pending" => status'[k][v] = status[k][v]

LEMMA WriteOnceStep == TablesInv /\ [Next]_vars => WriteOnce
<1> SUFFICES ASSUME TablesInv, [Next]_vars PROVE WriteOnce
  OBVIOUS
<1>1. CASE UNCHANGED versionVars
  BY <1>1 DEF WriteOnce, HasRow, versionVars
<1>2. ASSUME NEW r \in Requests, InsertVersion(r)
      PROVE  WriteOnce
  <2>1. CASE UNCHANGED versionVars
    BY <1>1, <2>1
  <2>2. CASE InsertRow(r, Key(r))
    BY <1>2, <2>2, InsertCases, InsertedRow DEF TablesInv, WriteOnce, HasRow
  <2> QED
    BY <1>2, <2>1, <2>2, InsertCases
<1>3. ASSUME NEW r \in Requests, Settle(r)
      PROVE  WriteOnce
  <2>1. TypeOK'
    BY TypeStep DEF TablesInv
  <2> QED
    BY <1>3, <2>1, TablesSettle DEF WriteOnce
<1>4. ASSUME NEW r \in Requests, HandlerStep(r)
      PROVE  UNCHANGED versionVars \/ InsertVersion(r)
  BY <1>4 DEF HandlerStep, CheckOwner, CheckQuota, CheckDuplicate, SaveBlob,
     Scan, Upsert, ResolveId, ReadLatest, SetLatest, CountOwners, GrantOwner, dbVars
<1>5. \/ UNCHANGED versionVars
      \/ \E r \in Requests : InsertVersion(r) \/ Settle(r)
  BY <1>4 DEF Next, Receive, Abort, Restart, vars, dbVars
<1> QED
  BY <1>1, <1>2, <1>3, <1>5

\* A versions row is written once and settles once.
THEOREM RowsWrittenOnce == Spec => RowsAreWriteOnce
<1>1. Inv /\ [Next]_vars => [WriteOnce]_vars
  BY WriteOnceStep DEF Inv
<1>2. RowsAreWriteOnce <=> [][WriteOnce]_vars
  BY DEF RowsAreWriteOnce, WriteOnce
<1> QED
  BY <1>1, <1>2, Invariance, PTL DEF Spec

-----------------------------------------------------------------------------
(* Where nothing is dropped, and where one publish runs at a time.         *)

\* db.rs: "Grants ownership to `user_id` if the package is new."  With any number
\* of handlers, none of them dropped, no package is left without an owner.
THEOREM QuietPackagesAreOwned ==
    ASSUME MaxFaults = 0
    PROVE  Spec => []QuietPackageHasOwner
<1>1. TypeOK => faults = 0
  BY DEF TypeOK
<1>2. "idle" \notin BeforeInsert \cup AfterInsert
  BY DEF BeforeInsert, AfterInsert
<1>3. Inv => QuietPackageHasOwner
  BY <1>1, <1>2 DEF Inv, TablesInv, OrphanHasClaimant, QuietPackageHasOwner
<1> QED
  BY <1>3, Invariance, PTL

\* How a handler gets from one stretch of its calls to the next.
LEMMA Stretches ==
    ASSUME TablesInv, NEW r \in Requests,
           \/ Receive(r) \/ CheckOwner(r) \/ CheckQuota(r) \/ CheckDuplicate(r)
           \/ SaveBlob(r) \/ Scan(r) \/ Upsert(r) \/ ResolveId(r)
           \/ ReadLatest(r) \/ SetLatest(r) \/ CountOwners(r)
           \/ Settle(r) \/ Abort(r)
    PROVE  /\ UNCHANGED <<digest, publisher, owners>>
           /\ \A k \in Keys, v \in Versions : HasRow(k, v)' <=> HasRow(k, v)
           /\ \A k \in Keys : pkgId'[k] = 0 => pkgId[k] = 0
           /\ pc'[r] \in Checked =>
                 /\ req'[r] = req[r]
                 /\ \/ pc[r] \in Checked
                    \/ /\ pkgId[Key(r)] = 0
                       /\ pc'[r] = "count_owned" \/ req[r].user \in Admins
                    \/ req[r].user \in owners[Key(r)]
           /\ pc'[r] \in AfterInsert => pc[r] \in AfterInsert /\ req'[r] = req[r]
<1> USE DEF dbVars, packageVars, versionVars
<1>1. CASE \/ Receive(r) \/ CheckQuota(r) \/ CheckDuplicate(r)
           \/ SaveBlob(r) \/ Scan(r) \/ Abort(r)
  BY <1>1
  DEF Receive, CheckQuota, CheckDuplicate, SaveBlob, Scan, Abort, Goto, Return,
      TablesInv, TypeOK, HasRow, Checked, BeforeUpsert, BeforeInsert, AfterInsert
<1>2. CASE CheckOwner(r)
  BY <1>2
  DEF CheckOwner, Goto, Return, TablesInv, TypeOK, HasRow, Checked, BeforeUpsert,
      BeforeInsert, AfterInsert
<1>3. CASE Upsert(r)
  <2>1. UNCHANGED <<digest, publisher, owners, status, req>>
    BY <1>3 DEF Upsert, Goto
  <2>2. pc[r] = "upsert" /\ pc'[r] = "resolve_id"
    BY <1>3 DEF Upsert, Goto, TablesInv, TypeOK
  <2>3. \A k \in Keys : pkgId'[k] = 0 => pkgId[k] = 0
    BY <1>3 DEF Upsert, TablesInv, TypeOK
  <2> QED
    BY <2>1, <2>2, <2>3 DEF HasRow, Checked, BeforeUpsert, BeforeInsert, AfterInsert
<1>4. CASE ResolveId(r)
  <2>1. UNCHANGED <<dbVars, req>> /\ pc[r] = "resolve_id" /\ pc'[r] = "insert_version"
    BY <1>4 DEF ResolveId, TablesInv, TypeOK, Resolved
  <2> QED
    BY <2>1 DEF HasRow, Checked, BeforeUpsert, BeforeInsert, AfterInsert
<1>5. CASE ReadLatest(r) \/ SetLatest(r) \/ CountOwners(r)
  <2>1. UNCHANGED <<pkgId, versionVars, owners>>
    BY <1>5 DEF ReadLatest, SetLatest, CountOwners
  <2>2. pc[r] \in AfterInsert /\ (pc'[r] \in {"idle", "verifying"} \cup AfterInsert)
        /\ (pc'[r] \in AfterInsert => req'[r] = req[r])
    BY <1>5, FinishingCases DEF AfterInsert
  <2> QED
    BY <2>1, <2>2 DEF HasRow, Checked, BeforeUpsert, BeforeInsert, AfterInsert
<1>6. CASE Settle(r)
  <2>1. TypeOK'
    BY <1>6, TypeStep DEF Next, TablesInv
  <2> QED
    BY <1>6, <2>1, TablesSettle
    DEF HasRow, Checked, BeforeUpsert, BeforeInsert, AfterInsert
<1> QED
  BY <1>1, <1>2, <1>3, <1>4, <1>5, <1>6

\* Nothing is written about a package that has no row.
LEMMA BareStep == TablesInv /\ BareWithoutPackage /\ [Next]_vars => BareWithoutPackage'
<1> SUFFICES ASSUME TablesInv, BareWithoutPackage, [Next]_vars
             PROVE  BareWithoutPackage'
  OBVIOUS
<1>1. ASSUME NEW r \in Requests,
             \/ Receive(r) \/ CheckOwner(r) \/ CheckQuota(r) \/ CheckDuplicate(r)
             \/ SaveBlob(r) \/ Scan(r) \/ Upsert(r) \/ ResolveId(r)
             \/ ReadLatest(r) \/ SetLatest(r) \/ CountOwners(r)
             \/ Settle(r) \/ Abort(r)
      PROVE  BareWithoutPackage'
  <2>1. /\ UNCHANGED owners
        /\ \A k \in Keys, v \in Versions : HasRow(k, v)' <=> HasRow(k, v)
        /\ \A k \in Keys : pkgId'[k] = 0 => pkgId[k] = 0
    BY <1>1, Stretches
  <2> QED
    BY <2>1 DEF BareWithoutPackage, Bare
<1>2. ASSUME NEW r \in Requests, InsertVersion(r)
      PROVE  BareWithoutPackage'
  <2>1. /\ UNCHANGED <<packageVars, owners>>
        /\ Key(r) \in Keys /\ HasId(Key(r), r) /\ req[r].vers \in Versions
        /\ UNCHANGED versionVars \/ InsertRow(r, Key(r))
    BY <1>2, InsertCases
  <2>2. \A k \in Keys \ {Key(r)}, v \in Versions : HasRow(k, v)' <=> HasRow(k, v)
    BY <2>1, InsertedRow DEF TablesInv, HasRow, versionVars
  <2> QED
    BY <2>1, <2>2 DEF BareWithoutPackage, Bare, HasId, packageVars
<1>3. ASSUME NEW r \in Requests, GrantOwner(r)
      PROVE  BareWithoutPackage'
  <2>1. UNCHANGED <<pkgId, versionVars>>
    BY <1>3 DEF GrantOwner, packageVars
  <2>2. \A k \in Keys : owners'[k] = owners[k] \/ pkgId[k] # 0
    BY <1>3 DEF GrantOwner, HasId, TablesInv, TypeOK
  <2> QED
    BY <2>1, <2>2 DEF BareWithoutPackage, Bare, HasRow, versionVars
<1>4. CASE UNCHANGED dbVars
  BY <1>4 DEF BareWithoutPackage, Bare, HasRow, dbVars, packageVars, versionVars
<1> QED
  BY <1>1, <1>2, <1>3, <1>4 DEF Next, HandlerStep, Restart, vars

-----------------------------------------------------------------------------
(* How many strangers publish to a package.                                *)

\* Nobody new arrives, no stranger's version is new, and an owner is no news.
LEMMA StrangersLeft ==
    ASSUME StrangersFit, NEW k \in Keys,
           Strangers(k)' \subseteq Strangers(k),
           Arriving(k)' \subseteq Arriving(k),
           owners'[k] # {} => owners[k] # {}
    PROVE  LET n == Cardinality(Strangers(k)') + Cardinality(Arriving(k)') IN
           /\ IsFiniteSet(Strangers(k)')
           /\ n <= Cardinality(Requests)
           /\ owners'[k] # {} => n < Cardinality(Requests)
<1>1. /\ IsFiniteSet(Strangers(k)) /\ IsFiniteSet(Arriving(k))
      /\ IsFiniteSet(Arriving(k)')
  BY SlotsAssumption, FS_Subset DEF StrangersFit, Arriving
<1>2. /\ IsFiniteSet(Strangers(k)')
      /\ Cardinality(Strangers(k)') <= Cardinality(Strangers(k))
      /\ Cardinality(Arriving(k)') <= Cardinality(Arriving(k))
  BY <1>1, FS_Subset
<1>3. /\ Cardinality(Strangers(k)) \in Nat /\ Cardinality(Strangers(k)') \in Nat
      /\ Cardinality(Arriving(k)) \in Nat /\ Cardinality(Arriving(k)') \in Nat
      /\ Cardinality(Requests) \in Nat
  BY <1>1, <1>2, SlotsAssumption, FS_CardinalityType
<1>4. /\ Cardinality(Strangers(k)) + Cardinality(Arriving(k)) <= Cardinality(Requests)
      /\ owners[k] # {} =>
            Cardinality(Strangers(k)) + Cardinality(Arriving(k)) < Cardinality(Requests)
  BY DEF StrangersFit
<1> QED
  BY <1>2, <1>3, <1>4

\* One handler moves at a time.
LEMMA OneMoves ==
    ASSUME TablesInv, NEW r \in Requests,
           Receive(r) \/ HandlerStep(r) \/ Settle(r) \/ Abort(r)
    PROVE  OthersSame(r)
<1>1. CASE Receive(r) \/ ResolveId(r)
  BY <1>1 DEF Receive, ResolveId, Return, OthersSame, TablesInv, TypeOK
<1>2. CASE \/ CheckOwner(r) \/ CheckQuota(r) \/ CheckDuplicate(r) \/ SaveBlob(r)
           \/ Scan(r) \/ Upsert(r) \/ Settle(r) \/ Abort(r)
  BY <1>2, Others
  DEF CheckOwner, CheckQuota, CheckDuplicate, SaveBlob, Scan, Upsert, Settle, Abort,
      TablesInv
<1>3. CASE \/ InsertVersion(r) \/ ReadLatest(r) \/ SetLatest(r) \/ CountOwners(r)
           \/ GrantOwner(r)
  BY <1>3, InsertCases, FinishingCases
<1> QED
  BY <1>1, <1>2, <1>3 DEF HandlerStep

LEMMA PublisherIsUserStep ==
    TablesInv /\ PublisherIsUser /\ [Next]_vars => PublisherIsUser'
<1> SUFFICES ASSUME TablesInv, PublisherIsUser, [Next]_vars
             PROVE  PublisherIsUser'
  OBVIOUS
<1>1. ASSUME NEW r \in Requests,
             \/ Receive(r) \/ CheckOwner(r) \/ CheckQuota(r) \/ CheckDuplicate(r)
             \/ SaveBlob(r) \/ Scan(r) \/ Upsert(r) \/ ResolveId(r)
             \/ Settle(r) \/ Abort(r)
      PROVE  PublisherIsUser'
  <2>1. UNCHANGED publisher
    BY <1>1, Stretches
  <2>2. OthersSame(r)
    BY <1>1, OneMoves DEF HandlerStep
  <2>3. pc'[r] \notin PastInsert
    <3>1. pc \in [Requests -> Pcs]
      BY DEF TablesInv, TypeOK
    <3>2. CASE Receive(r) \/ CheckOwner(r) \/ CheckQuota(r) \/ CheckDuplicate(r)
      BY <3>1, <3>2
      DEF Receive, CheckOwner, CheckQuota, CheckDuplicate, Goto, Return, PastInsert,
          AfterInsert
    <3>3. CASE SaveBlob(r) \/ Scan(r) \/ Upsert(r)
      BY <3>1, <3>3 DEF SaveBlob, Scan, Upsert, Goto, Return, PastInsert, AfterInsert
    <3>4. CASE ResolveId(r) \/ Settle(r) \/ Abort(r)
      BY <3>1, <3>4 DEF ResolveId, Settle, Abort, Goto, Return, PastInsert, AfterInsert
    <3> QED
      BY <1>1, <3>2, <3>3, <3>4
  <2> QED
    BY <2>1, <2>2, <2>3 DEF PublisherIsUser, OthersSame, Key
<1>2. ASSUME NEW r \in Requests, InsertVersion(r)
      PROVE  PublisherIsUser'
  <2>1. /\ OthersSame(r) /\ pc[r] = "insert_version"
        /\ Key(r) \in Keys /\ req[r].vers \in Versions
        /\ \/ UNCHANGED versionVars /\ pc'[r] = "idle"
           \/ /\ InsertRow(r, Key(r))
              /\ UNCHANGED <<req, pid>> /\ pc'[r] = "read_latest"
    BY <1>2, InsertCases
  <2>2. CASE UNCHANGED versionVars /\ pc'[r] = "idle"
    BY <2>1, <2>2
    DEF PublisherIsUser, OthersSame, Key, versionVars, PastInsert, AfterInsert
  <2>3. CASE InsertRow(r, Key(r)) /\ UNCHANGED <<req, pid>> /\ pc'[r] = "read_latest"
    <3>1. /\ status[Key(r)][req[r].vers] = "none"
          /\ publisher'[Key(r)][req[r].vers] = req[r].user
          /\ \A k \in Keys, v \in Versions : <<k, v>> # <<Key(r), req[r].vers>> =>
                publisher'[k][v] = publisher[k][v]
      BY <2>1, <2>3, InsertedRow DEF TablesInv
    <3>2. ASSUME NEW q \in Requests \ {r}, pc[q] \in PastInsert
          PROVE  publisher'[Key(q)][req[q].vers] = publisher[Key(q)][req[q].vers]
      <4>1. Key(q) \in Keys /\ req[q].vers \in Versions
        BY <3>2, BusySlot, InputFields DEF TablesInv, PastInsert, AfterInsert
      <4>2. HasRow(Key(q), req[q].vers)
        BY <3>2 DEF TablesInv, Inserted
      <4> QED
        BY <3>1, <4>1, <4>2 DEF HasRow
    <3> QED
      BY <2>1, <2>3, <3>1, <3>2 DEF PublisherIsUser, OthersSame, Key
  <2> QED
    BY <2>1, <2>2, <2>3
<1>3. ASSUME NEW r \in Requests,
             ReadLatest(r) \/ SetLatest(r) \/ CountOwners(r) \/ GrantOwner(r)
      PROVE  PublisherIsUser'
  <2>1. /\ OthersSame(r) /\ pc[r] \in PastInsert
        /\ UNCHANGED publisher
        /\ \/ pc'[r] = "idle"
           \/ req'[r] = req[r]
    BY <1>3, FinishingCases DEF versionVars, PastInsert
  <2>2. "idle" \notin PastInsert
    BY DEF PastInsert, AfterInsert
  <2> QED
    BY <2>1, <2>2 DEF PublisherIsUser, OthersSame, Key
<1>4. CASE Restart
  BY <1>4 DEF Restart, PublisherIsUser, PastInsert, AfterInsert
<1>5. CASE UNCHANGED vars
  BY <1>5 DEF vars, dbVars, versionVars, PublisherIsUser, Key
<1> QED
  BY <1>1, <1>2, <1>3, <1>4, <1>5 DEF Next, HandlerStep

\* The bound for one package, as the steps leave it.
FitsAfter(k) ==
    LET n == Cardinality(Strangers(k)') + Cardinality(Arriving(k)') IN
    /\ IsFiniteSet(Strangers(k)')
    /\ n <= Cardinality(Requests)
    /\ owners'[k] # {} => n < Cardinality(Requests)

\* A handler arrives at a package that is not there, or as one of its owners.
LEMMA StrangersMove ==
    ASSUME TablesInv, BareWithoutPackage, StrangersFit, NEW r \in Requests, NEW k \in Keys,
           \/ Receive(r) \/ CheckOwner(r) \/ CheckQuota(r) \/ CheckDuplicate(r)
           \/ SaveBlob(r) \/ Scan(r) \/ Upsert(r) \/ ResolveId(r)
           \/ ReadLatest(r) \/ SetLatest(r) \/ CountOwners(r)
           \/ Settle(r) \/ Abort(r)
    PROVE  FitsAfter(k)
<1>1. /\ UNCHANGED <<publisher, owners>>
      /\ \A j \in Keys, v \in Versions : HasRow(j, v)' <=> HasRow(j, v)
  BY Stretches
<1>2. /\ OthersSame(r)
      /\ pc'[r] \in Checked =>
            /\ req'[r] = req[r]
            /\ \/ pc[r] \in Checked
               \/ pkgId[Key(r)] = 0
               \/ req[r].user \in owners[Key(r)]
  BY Stretches, OneMoves DEF HandlerStep
<1>3. Strangers(k)' = Strangers(k)
  BY <1>1 DEF Strangers
<1>4. CASE pkgId[k] = 0
  <2>1. Strangers(k) = {} /\ owners'[k] = {}
    BY <1>1, <1>4 DEF BareWithoutPackage, Bare, Strangers
  <2>2. Arriving(k)' \subseteq Requests
    BY DEF Arriving
  <2>3. Cardinality(Arriving(k)') <= Cardinality(Requests)
        /\ IsFiniteSet(Arriving(k)')
    BY <2>2, SlotsAssumption, FS_Subset
  <2>4. Cardinality(Arriving(k)') \in Nat
    BY <2>3, FS_CardinalityType
  <2>5. IsFiniteSet({}) /\ Cardinality({}) = 0
    BY FS_EmptySet
  <2> QED
    BY <1>3, <2>1, <2>3, <2>4, <2>5 DEF FitsAfter
<1>5. CASE pkgId[k] # 0
  <2>1. Arriving(k)' \subseteq Arriving(k)
    BY <1>1, <1>2, <1>5 DEF Arriving, OthersSame, Key
  <2> QED
    BY <1>1, <1>3, <2>1, StrangersLeft DEF FitsAfter
<1> QED
  BY <1>4, <1>5

\* A stranger who had arrived has published: one of the one, one more of the other.
LEMMA StrangersInsert ==
    ASSUME TablesInv, StrangersFit, NEW r \in Requests, NEW k \in Keys, InsertVersion(r)
    PROVE  FitsAfter(k)
<1> DEFINE v0 == req[r].vers
<1>1. /\ pc[r] = "insert_version" /\ OthersSame(r) /\ UNCHANGED owners
      /\ Key(r) \in Keys /\ v0 \in Versions
      /\ \/ UNCHANGED versionVars /\ pc'[r] = "idle"
         \/ /\ InsertRow(r, Key(r))
            /\ UNCHANGED <<req, pid>> /\ pc'[r] = "read_latest"
  BY InsertCases
<1>2. /\ Arriving(k)' \subseteq Arriving(k)
      /\ k = Key(r) => Arriving(k)' \subseteq Arriving(k) \ {r}
  BY <1>1
  DEF Arriving, OthersSame, Key, Checked, BeforeUpsert, BeforeInsert
<1>3. CASE Strangers(k)' \subseteq Strangers(k)
  BY <1>1, <1>2, <1>3, StrangersLeft DEF FitsAfter
<1>4. CASE /\ k = Key(r) /\ req[r].user \notin owners[k]
           /\ Strangers(k)' = Strangers(k) \cup {v0}
  <2>1. r \in Arriving(k)
    BY <1>1, <1>4 DEF Arriving, Checked, BeforeInsert
  <2>2. IsFiniteSet(Strangers(k)) /\ IsFiniteSet(Arriving(k))
    BY SlotsAssumption, FS_Subset DEF StrangersFit, Arriving
  <2>3. /\ IsFiniteSet(Strangers(k)')
        /\ Cardinality(Strangers(k)') <= Cardinality(Strangers(k)) + 1
        /\ Cardinality(Strangers(k)) \in Nat /\ Cardinality(Strangers(k)') \in Nat
    <3>1. /\ IsFiniteSet(Strangers(k) \cup {v0})
          /\ Cardinality(Strangers(k) \cup {v0}) =
                IF v0 \in Strangers(k) THEN Cardinality(Strangers(k))
                                       ELSE Cardinality(Strangers(k)) + 1
      BY <2>2, FS_AddElement
    <3>2. Cardinality(Strangers(k)) \in Nat /\ Cardinality(Strangers(k) \cup {v0}) \in Nat
      BY <2>2, <3>1, FS_CardinalityType
    <3> QED
      BY <1>4, <3>1, <3>2
  <2>4. /\ Cardinality(Arriving(k)') <= Cardinality(Arriving(k)) - 1
        /\ Cardinality(Arriving(k)) \in Nat /\ Cardinality(Arriving(k)') \in Nat
    <3>1. /\ IsFiniteSet(Arriving(k) \ {r})
          /\ Cardinality(Arriving(k) \ {r}) = Cardinality(Arriving(k)) - 1
      BY <2>1, <2>2, FS_RemoveElement
    <3>2. /\ IsFiniteSet(Arriving(k)')
          /\ Cardinality(Arriving(k)') <= Cardinality(Arriving(k) \ {r})
      BY <1>2, <1>4, <3>1, FS_Subset
    <3> QED
      BY <2>2, <3>1, <3>2, FS_CardinalityType
  <2>5. /\ Cardinality(Strangers(k)) + Cardinality(Arriving(k)) <= Cardinality(Requests)
        /\ owners[k] # {} =>
              Cardinality(Strangers(k)) + Cardinality(Arriving(k)) < Cardinality(Requests)
        /\ Cardinality(Requests) \in Nat
    BY SlotsAssumption, FS_CardinalityType DEF StrangersFit
  <2> QED
    BY <1>1, <2>3, <2>4, <2>5 DEF FitsAfter
<1>5. \/ Strangers(k)' \subseteq Strangers(k)
      \/ /\ k = Key(r) /\ req[r].user \notin owners[k]
         /\ Strangers(k)' = Strangers(k) \cup {v0}
  <2>1. CASE UNCHANGED versionVars
    BY <1>1, <2>1 DEF Strangers, HasRow, versionVars
  <2>2. CASE InsertRow(r, Key(r))
    <3>1. /\ status[Key(r)][v0] = "none"
          /\ status'[Key(r)][v0] # "none"
          /\ publisher'[Key(r)][v0] = req[r].user
          /\ \A j \in Keys, v \in Versions : <<j, v>> # <<Key(r), v0>> =>
                status'[j][v] = status[j][v] /\ publisher'[j][v] = publisher[j][v]
      BY <1>1, <2>2, InsertedRow DEF TablesInv
    <3> QED
      BY <1>1, <3>1 DEF Strangers, HasRow
  <2> QED
    BY <1>1, <2>1, <2>2
<1> QED
  BY <1>3, <1>4, <1>5

\* The first owner has published a version, which is a stranger's no longer.
LEMMA StrangersGrant ==
    ASSUME TablesInv, PublisherIsUser, StrangersFit, NEW r \in Requests, NEW k \in Keys,
           GrantOwner(r)
    PROVE  FitsAfter(k)
<1> DEFINE v0 == req[r].vers
           u0 == req[r].user
<1>1. /\ pc[r] \in AfterInsert /\ OthersSame(r)
      /\ UNCHANGED <<status, publisher>>
      /\ \/ pc'[r] = "idle"
         \/ pc'[r] = "verifying"
         \/ pc'[r] \in AfterInsert
  BY FinishingCases DEF versionVars
<1>2. /\ Key(r) \in Keys /\ ~IdGone(r)
      /\ \A j \in Keys : HasId(j, r) => j = Key(r)
  BY <1>1, OwnRow
<1>3. owners' = [owners EXCEPT ![Key(r)] = @ \cup {u0}]
  BY <1>2 DEF GrantOwner
<1>4. /\ owners[k] \subseteq owners'[k]
      /\ k # Key(r) => owners'[k] = owners[k]
      /\ u0 \in owners'[Key(r)]
  BY <1>2, <1>3 DEF TablesInv, TypeOK
<1>5. /\ Strangers(k)' \subseteq Strangers(k)
      /\ Arriving(k)' \subseteq Arriving(k)
  BY <1>1, <1>4
  DEF Strangers, HasRow, Arriving, OthersSame, Key, Checked, BeforeUpsert, BeforeInsert,
      AfterInsert
<1>6. CASE k # Key(r) \/ owners[k] # {}
  BY <1>4, <1>5, <1>6, StrangersLeft DEF FitsAfter
<1>7. CASE k = Key(r) /\ owners[k] = {}
  <2>1. v0 \in Strangers(k)
    BY <1>1, <1>7, BusySlot, InputFields
    DEF TablesInv, Inserted, PublisherIsUser, Strangers, PastInsert, AfterInsert
  <2>2. v0 \notin Strangers(k)'
    BY <1>1, <1>4, <1>7 DEF PublisherIsUser, Strangers, PastInsert
  <2>3. IsFiniteSet(Strangers(k)) /\ IsFiniteSet(Arriving(k))
    BY SlotsAssumption, FS_Subset DEF StrangersFit, Arriving
  <2>4. /\ IsFiniteSet(Strangers(k)')
        /\ Cardinality(Strangers(k)') <= Cardinality(Strangers(k)) - 1
        /\ Cardinality(Strangers(k)) \in Nat /\ Cardinality(Strangers(k)') \in Nat
    <3>1. /\ IsFiniteSet(Strangers(k) \ {v0})
          /\ Cardinality(Strangers(k) \ {v0}) = Cardinality(Strangers(k)) - 1
      BY <2>1, <2>3, FS_RemoveElement
    <3>2. /\ IsFiniteSet(Strangers(k)')
          /\ Cardinality(Strangers(k)') <= Cardinality(Strangers(k) \ {v0})
      BY <1>5, <2>2, <3>1, FS_Subset
    <3> QED
      BY <2>3, <3>1, <3>2, FS_CardinalityType
  <2>5. /\ Cardinality(Arriving(k)') <= Cardinality(Arriving(k))
        /\ Cardinality(Arriving(k)) \in Nat /\ Cardinality(Arriving(k)') \in Nat
    BY <1>5, <2>3, FS_Subset, FS_CardinalityType
  <2>6. /\ Cardinality(Strangers(k)) + Cardinality(Arriving(k)) <= Cardinality(Requests)
        /\ Cardinality(Requests) \in Nat
    BY SlotsAssumption, FS_CardinalityType DEF StrangersFit
  <2> QED
    BY <2>4, <2>5, <2>6 DEF FitsAfter
<1> QED
  BY <1>6, <1>7

StrangersInv == TablesInv /\ BareWithoutPackage /\ PublisherIsUser /\ StrangersFit

LEMMA StrangersStep == StrangersInv /\ [Next]_vars => StrangersInv'
<1> SUFFICES ASSUME StrangersInv, [Next]_vars PROVE StrangersFit'
  BY TablesStep, BareStep, PublisherIsUserStep DEF StrangersInv
<1>1. SUFFICES ASSUME NEW k \in Keys PROVE FitsAfter(k)
  BY DEF StrangersFit, FitsAfter
<1>2. CASE Restart
  <2>1. UNCHANGED dbVars /\ \A q \in Requests : pc'[q] = "idle"
    BY <1>2 DEF Restart
  <2>2. Strangers(k)' = Strangers(k) /\ Arriving(k)' = {} /\ UNCHANGED owners
    BY <2>1 DEF Strangers, Arriving, HasRow, dbVars, versionVars, Checked, BeforeUpsert,
                BeforeInsert
  <2> QED
    BY <2>2, StrangersLeft DEF StrangersInv, FitsAfter
<1>3. CASE UNCHANGED vars
  <2>1. Strangers(k)' = Strangers(k) /\ Arriving(k)' = Arriving(k) /\ UNCHANGED owners
    BY <1>3 DEF Strangers, Arriving, HasRow, Key, vars, dbVars, versionVars
  <2> QED
    BY <2>1, StrangersLeft DEF StrangersInv, FitsAfter
<1> QED
  BY <1>2, <1>3, StrangersMove, StrangersInsert, StrangersGrant
  DEF StrangersInv, Next, HandlerStep

\* architecture.md: "Subsequent publishes require an existing owner."  Those who get in
\* without being one all passed the check before the package was there: they, and what
\* they have published, are fewer than the handlers that may run at once.
THEOREM StrangersAreFew == Spec => []StrangersAreBounded
<1>1. Init => StrangersInv
  <2> SUFFICES ASSUME Init PROVE BareWithoutPackage /\ PublisherIsUser /\ StrangersFit
    BY InvInit DEF Inv, StrangersInv
  <2>1. BareWithoutPackage /\ PublisherIsUser
    BY DEF Init, BareWithoutPackage, Bare, HasRow, PublisherIsUser, PastInsert,
           AfterInsert
  <2>2. \A k \in Keys : Strangers(k) = {} /\ Arriving(k) = {} /\ owners[k] = {}
    BY DEF Init, Strangers, Arriving, HasRow, Checked, BeforeUpsert, BeforeInsert
  <2>3. IsFiniteSet({}) /\ Cardinality({}) = 0 /\ Cardinality(Requests) \in Nat
    BY SlotsAssumption, FS_EmptySet, FS_CardinalityType
  <2> QED
    BY <2>1, <2>2, <2>3 DEF StrangersFit
<1>2. StrangersInv => StrangersAreBounded
  <2> SUFFICES ASSUME StrangersInv, NEW k \in Keys, owners[k] # {}
               PROVE  Cardinality(Strangers(k)) < Cardinality(Requests)
    BY DEF StrangersAreBounded, Strangers
  <2>1. IsFiniteSet(Strangers(k)) /\ IsFiniteSet(Arriving(k))
    BY SlotsAssumption, FS_Subset DEF StrangersInv, StrangersFit, Arriving
  <2>2. /\ Cardinality(Strangers(k)) \in Nat /\ Cardinality(Arriving(k)) \in Nat
        /\ Cardinality(Requests) \in Nat
    BY <2>1, SlotsAssumption, FS_CardinalityType
  <2> QED
    BY <2>2 DEF StrangersInv, StrangersFit
<1> QED
  BY <1>1, <1>2, StrangersStep, PTL DEF Spec

-----------------------------------------------------------------------------
(* One publish at a time: owners and quota.                                *)

SerialInv ==
    /\ BareWithoutPackage /\ VersionsComeFromOwners /\ PublisherOwns
    /\ QuotaHolds /\ RoomForOne /\ OwnedIsFinite

\* A step that writes no owner, inserts no version and lets a handler past the check
\* only as an owner or for a bare package.
LEMMA OwnersLeft ==
    ASSUME OneAtATime, SerialInv, NEW r \in Requests, Key(r) \in Keys,
           UNCHANGED <<publisher, owners>>,
           \A k \in Keys, v \in Versions : HasRow(k, v)' <=> HasRow(k, v),
           pc'[r] \in Checked =>
              /\ req'[r] = req[r]
              /\ \/ pc[r] \in Checked
                 \/ req[r].user \in owners[Key(r)] \/ Bare(Key(r)),
           pc'[r] \in AfterInsert => pc[r] \in AfterInsert /\ req'[r] = req[r]
    PROVE  VersionsComeFromOwners' /\ PublisherOwns'
<1>1. \A k \in Keys : Bare(k)' <=> Bare(k)
  BY DEF Bare
<1>3. VersionsComeFromOwners'
  BY DEF SerialInv, VersionsComeFromOwners
<1>4. \A q \in Requests : q = r
  BY DEF OneAtATime
<1>5. pc'[r] \in Checked =>
         (req[r].user \in owners[Key(r)] \/ Bare(Key(r))) /\ Key(r)' = Key(r)
  BY DEF SerialInv, PublisherOwns, Key
<1>6. pc'[r] \in AfterInsert =>
         /\ \/ req[r].user \in owners[Key(r)]
            \/ owners[Key(r)] = {} /\ AllBy(Key(r), req[r].user)
         /\ Key(r)' = Key(r)
  BY DEF SerialInv, PublisherOwns, Key
<1>7. AllBy(Key(r), req[r].user) /\ req'[r] = req[r] => AllBy(Key(r), req[r].user)'
  BY DEF AllBy, Key
<1>8. PublisherOwns'
  BY <1>1, <1>4, <1>5, <1>6, <1>7 DEF PublisherOwns, Bare, AllBy, Key
<1> QED
  BY <1>3, <1>8

\* A new package row is announced by nobody yet, and an insert is by whom the check let
\* through.
LEMMA SerialOwnersStep ==
    ASSUME OneAtATime, TablesInv, SerialInv, [Next]_vars
    PROVE  VersionsComeFromOwners' /\ PublisherOwns'
<1>1. TypeOK' /\ TablesInv'
  BY TypeStep, TablesStep DEF TablesInv
<1>2. ASSUME NEW r \in Requests, Receive(r)
      PROVE  VersionsComeFromOwners' /\ PublisherOwns'
  <2>1. UNCHANGED dbVars /\ pc'[r] = "user_owns_package"
    BY <1>2 DEF Receive, TablesInv, TypeOK
  <2>2. \A q \in Requests : q = r
    BY DEF OneAtATime
  <2> QED
    BY <2>1, <2>2
    DEF SerialInv, VersionsComeFromOwners, PublisherOwns, Bare,
        HasRow, dbVars, packageVars, versionVars, Checked, BeforeUpsert, BeforeInsert,
        AfterInsert
<1>3. ASSUME NEW r \in Requests,
             \/ CheckOwner(r) \/ CheckQuota(r) \/ CheckDuplicate(r)
             \/ SaveBlob(r) \/ Scan(r) \/ Upsert(r) \/ ResolveId(r)
             \/ ReadLatest(r) \/ SetLatest(r) \/ CountOwners(r)
             \/ Settle(r) \/ Abort(r)
      PROVE  VersionsComeFromOwners' /\ PublisherOwns'
  <2>1. pc[r] # "idle"
    BY <1>3, PcLabels DEF CheckOwner, CheckQuota, CheckDuplicate, SaveBlob, Scan, Upsert,
       ResolveId, ReadLatest, SetLatest, CountOwners, Settle, Abort
  <2>2. Key(r) \in Keys
    BY <2>1, BusySlot DEF TablesInv
  <2>3. pkgId[Key(r)] = 0 => Bare(Key(r))
    BY <2>2 DEF SerialInv, BareWithoutPackage
  <2>4. /\ UNCHANGED <<publisher, owners>>
        /\ \A k \in Keys, v \in Versions : HasRow(k, v)' <=> HasRow(k, v)
        /\ pc'[r] \in Checked =>
              /\ req'[r] = req[r]
              /\ \/ pc[r] \in Checked
                 \/ req[r].user \in owners[Key(r)] \/ Bare(Key(r))
        /\ pc'[r] \in AfterInsert => pc[r] \in AfterInsert /\ req'[r] = req[r]
    <3>1. /\ UNCHANGED <<digest, publisher, owners>>
          /\ \A k \in Keys, v \in Versions : HasRow(k, v)' <=> HasRow(k, v)
      BY <1>3, Stretches
    <3>2. pc'[r] \in Checked =>
             /\ req'[r] = req[r]
             /\ \/ pc[r] \in Checked
                \/ pkgId[Key(r)] = 0
                \/ req[r].user \in owners[Key(r)]
      BY <1>3, Stretches
    <3>3. pc'[r] \in AfterInsert => pc[r] \in AfterInsert /\ req'[r] = req[r]
      BY <1>3, Stretches
    <3> QED
      BY <2>3, <3>1, <3>2, <3>3
  <2> QED
    BY <2>2, <2>4, OwnersLeft
<1>4. ASSUME NEW r \in Requests, InsertVersion(r)
      PROVE  VersionsComeFromOwners' /\ PublisherOwns'
  <2> DEFINE k0 == Key(r)
             v0 == req[r].vers
  <2>1. /\ pc[r] = "insert_version"
        /\ UNCHANGED <<packageVars, owners, blobs, faults>>
        /\ k0 \in Keys /\ HasId(k0, r) /\ v0 \in Versions
    BY <1>4, InsertCases
  <2>2. CASE UNCHANGED versionVars /\ pc'[r] = "idle"
    BY <2>1, <2>2, OwnersLeft
    DEF versionVars, HasRow, Checked, BeforeUpsert, BeforeInsert,
        AfterInsert
  <2>3. CASE InsertRow(r, k0) /\ UNCHANGED <<req, pid>> /\ pc'[r] = "read_latest"
    <3>1. /\ publisher'[k0][v0] = req[r].user
          /\ \A k \in Keys, v \in Versions : <<k, v>> # <<k0, v0>> =>
                status'[k][v] = status[k][v] /\ publisher'[k][v] = publisher[k][v]
      BY <2>1, <2>3, InsertedRow DEF TablesInv
    <3>2. req[r].user \in owners[k0] \/ Bare(k0)
      BY <2>1 DEF SerialInv, PublisherOwns, Checked, BeforeInsert
    <3>5. VersionsComeFromOwners'
      BY <2>1, <3>1, <3>2 DEF SerialInv, VersionsComeFromOwners, HasRow, Bare
    <3>6. Bare(k0) => AllBy(k0, req[r].user)'
      BY <2>1, <2>3, <3>1 DEF Bare, AllBy, HasRow, Key
    <3>7. \A q \in Requests : q = r
      BY DEF OneAtATime
    <3>8. PublisherOwns'
      BY <2>1, <2>3, <3>2, <3>6, <3>7
      DEF PublisherOwns, Bare, Key, Checked, BeforeUpsert, BeforeInsert, AfterInsert
    <3> QED
      BY <3>5, <3>8
  <2> QED
    BY <1>4, <2>2, <2>3, InsertCases
<1>5. ASSUME NEW r \in Requests, GrantOwner(r)
      PROVE  VersionsComeFromOwners' /\ PublisherOwns'
  <2> DEFINE k0 == Key(r)
             u0 == req[r].user
  <2>1. /\ pc[r] = "grant_owner" /\ pc[r] \in AfterInsert
        /\ UNCHANGED <<pkgId, versionVars>>
    BY <1>5 DEF GrantOwner, AfterInsert, packageVars
  <2>2. /\ k0 \in Keys /\ HasId(k0, r) /\ ~IdGone(r)
        /\ \A k \in Keys : HasId(k, r) => k = k0
    BY <2>1, OwnRow
  <2>3. owners' = [owners EXCEPT ![k0] = @ \cup {u0}] /\ Respond(r)
    BY <1>5, <2>2 DEF GrantOwner
  <2>4. owners'[k0] = owners[k0] \cup {u0} /\ \A k \in Keys \ {k0} : owners'[k] = owners[k]
    BY <2>2, <2>3 DEF TablesInv, TypeOK
  <2>5. u0 \in owners[k0] \/ (owners[k0] = {} /\ AllBy(k0, u0))
    BY <2>1 DEF SerialInv, PublisherOwns
  <2>7. VersionsComeFromOwners'
    BY <2>1, <2>4, <2>5
    DEF SerialInv, VersionsComeFromOwners, AllBy, HasRow, versionVars
  <2>8. pc'[r] \in {"idle", "verifying"}
    BY <2>3, RespondMoves DEF TablesInv
  <2>9. PublisherOwns'
    BY <2>8 DEF OneAtATime, PublisherOwns, Checked, BeforeUpsert, BeforeInsert, AfterInsert
  <2> QED
    BY <2>7, <2>9
<1>6. CASE Restart
  <2>1. UNCHANGED dbVars /\ \A q \in Requests : pc'[q] = "idle"
    BY <1>6 DEF Restart
  <2> QED
    BY <2>1
    DEF SerialInv, VersionsComeFromOwners, PublisherOwns, Bare,
        HasRow, dbVars, packageVars, versionVars, Checked, BeforeUpsert, BeforeInsert,
        AfterInsert
<1>7. CASE UNCHANGED vars
  BY <1>7
  DEF vars, SerialInv, VersionsComeFromOwners, PublisherOwns, Bare,
      AllBy, HasRow, Key, dbVars, packageVars, versionVars
<1> QED
  BY <1>2, <1>3, <1>4, <1>5, <1>6, <1>7 DEF Next, HandlerStep

\* Ownership grows by the package of one handler, which had room for it.
LEMMA SerialQuotaStep ==
    ASSUME OneAtATime, TablesInv, SerialInv, [Next]_vars
    PROVE  QuotaHolds' /\ RoomForOne' /\ OwnedIsFinite'
<1>1. \A u : UNCHANGED owners => Owned(u)' = Owned(u)
  BY DEF Owned
<1>2. UNCHANGED owners => QuotaHolds' /\ OwnedIsFinite'
  BY <1>1 DEF SerialInv, QuotaHolds, OwnedIsFinite
<1>3. ASSUME NEW r \in Requests,
             \/ Receive(r) \/ CheckOwner(r) \/ CheckQuota(r) \/ CheckDuplicate(r)
             \/ SaveBlob(r) \/ Scan(r) \/ Upsert(r) \/ ResolveId(r)
             \/ ReadLatest(r) \/ SetLatest(r) \/ CountOwners(r)
             \/ Settle(r) \/ Abort(r)
      PROVE  QuotaHolds' /\ RoomForOne' /\ OwnedIsFinite'
  <2>1. /\ UNCHANGED owners
        /\ pc'[r] \in Checked =>
              /\ req'[r] = req[r]
              /\ \/ pc[r] \in Checked
                 \/ /\ pkgId[Key(r)] = 0
                    /\ pc'[r] = "count_owned" \/ req[r].user \in Admins
                 \/ req[r].user \in owners[Key(r)]
        /\ pc'[r] \in AfterInsert => pc[r] \in AfterInsert /\ req'[r] = req[r]
    BY <1>3, Stretches
  <2>2. ASSUME pc[r] = "count_owned", pc'[r] \in Checked
        PROVE  ~(Cardinality(Owned(req[r].user)) >= OwnedLimit)
    <3>1. CheckQuota(r) \/ Abort(r)
      BY <1>3, <2>2
      DEF Receive, CheckOwner, CheckQuota, CheckDuplicate, SaveBlob, Scan, Upsert,
          ResolveId, ReadLatest, SetLatest, CountOwners, Settle
    <3>2. "idle" \notin Checked
      BY DEF Checked, BeforeUpsert, BeforeInsert
    <3> QED
      BY <2>2, <3>1, <3>2 DEF CheckQuota, Abort, Return, TablesInv, TypeOK
  <2>3. pc[r] = "count_owned" => pc'[r] # "count_owned"
    BY <1>3
    DEF Receive, CheckOwner, CheckQuota, CheckDuplicate, SaveBlob, Scan, Upsert,
        ResolveId, ReadLatest, SetLatest, CountOwners, Settle, Abort, Goto, Return,
        TablesInv, TypeOK
  <2>4. ASSUME pc[r] = "count_owned", pc'[r] \in Checked
        PROVE  Cardinality(Owned(req[r].user)) < OwnedLimit
    <3>1. req[r].user \in Users
      BY <2>4, BusySlot, InputFields DEF TablesInv
    <3>2. Cardinality(Owned(req[r].user)) \in Nat
      BY <3>1, FS_CardinalityType DEF SerialInv, OwnedIsFinite
    <3>3. \A c \in Nat : ~(c >= OwnedLimit) => c < OwnedLimit
      BY BoundsAssumption
    <3> QED
      BY <2>2, <2>4, <3>2, <3>3
  <2>5. RoomForOne'
    <3>1. ASSUME pc'[r] \in (Checked \ {"count_owned"}) \cup AfterInsert,
                 req'[r].user \notin Admins
          PROVE  req[r].user \in owners[Key(r)] \/ Cardinality(Owned(req[r].user)) < OwnedLimit
      <4>1. CASE pc[r] \in (Checked \ {"count_owned"}) \cup AfterInsert
        BY <2>1, <3>1, <4>1 DEF SerialInv, RoomForOne, Checked, AfterInsert,
           BeforeUpsert, BeforeInsert
      <4>2. CASE pc[r] = "count_owned"
        BY <2>1, <2>4, <3>1, <4>2 DEF AfterInsert
      <4>3. CASE /\ req'[r] = req[r]
                 /\ \/ req[r].user \in owners[Key(r)]
                    \/ pc'[r] = "count_owned" \/ req[r].user \in Admins
        BY <3>1, <4>3 DEF AfterInsert
      <4> QED
        BY <2>1, <3>1, <4>1, <4>2, <4>3
    <3> QED
      BY <1>1, <2>1, <3>1 DEF OneAtATime, RoomForOne, Key
  <2> QED
    BY <1>2, <2>1, <2>5
<1>4. ASSUME NEW r \in Requests, InsertVersion(r)
      PROVE  QuotaHolds' /\ RoomForOne' /\ OwnedIsFinite'
  <2>1. /\ pc[r] = "insert_version" /\ UNCHANGED owners
        /\ \/ pc'[r] = "idle"
           \/ pc'[r] = "read_latest" /\ req'[r] = req[r]
    BY <1>4, InsertCases
  <2>2. RoomForOne'
    BY <1>1, <2>1
    DEF OneAtATime, SerialInv, RoomForOne, Key, Checked, BeforeUpsert, BeforeInsert,
        AfterInsert
  <2> QED
    BY <1>2, <2>1, <2>2
<1>5. ASSUME NEW r \in Requests, GrantOwner(r)
      PROVE  QuotaHolds' /\ RoomForOne' /\ OwnedIsFinite'
  <2> DEFINE k0 == Key(r)
             u0 == req[r].user
  <2>1. pc[r] = "grant_owner" /\ pc[r] \in AfterInsert
    BY <1>5 DEF GrantOwner, AfterInsert
  <2>2. /\ k0 \in Keys /\ ~IdGone(r)
        /\ \A k \in Keys : HasId(k, r) => k = k0
    BY <2>1, OwnRow
  <2>3. owners' = [owners EXCEPT ![k0] = @ \cup {u0}] /\ Respond(r)
    BY <1>5, <2>2 DEF GrantOwner
  <2>4. u0 \in Users
    BY <2>1, BusySlot, InputFields DEF TablesInv
  <2>5. \A u \in Users : Owned(u)' = IF u = u0 THEN Owned(u) \cup {k0} ELSE Owned(u)
    BY <2>2, <2>3 DEF Owned, TablesInv, TypeOK
  <2>6. ASSUME NEW u \in Users
        PROVE  /\ IsFiniteSet(Owned(u)')
               /\ u \notin Admins => Cardinality(Owned(u)') <= OwnedLimit
    <3>1. IsFiniteSet(Owned(u)) /\ (u \notin Admins => Cardinality(Owned(u)) <= OwnedLimit)
      BY DEF SerialInv, OwnedIsFinite, QuotaHolds
    <3>2. CASE u # u0
      BY <2>5, <3>1, <3>2
    <3>3. CASE u = u0
      <4>1. /\ IsFiniteSet(Owned(u) \cup {k0})
            /\ Cardinality(Owned(u) \cup {k0}) =
                  IF k0 \in Owned(u) THEN Cardinality(Owned(u)) ELSE Cardinality(Owned(u)) + 1
            /\ Cardinality(Owned(u)) \in Nat
        BY <3>1, FS_AddElement, FS_CardinalityType
      <4>2. u \notin Admins =>
               u0 \in owners[k0] \/ Cardinality(Owned(u0)) < OwnedLimit
        BY <2>1, <3>3 DEF SerialInv, RoomForOne
      <4>3. u0 \in owners[k0] => k0 \in Owned(u0)
        BY <2>2 DEF Owned
      <4> QED
        BY <2>5, <3>1, <3>3, <4>1, <4>2, <4>3, BoundsAssumption
    <3> QED
      BY <3>2, <3>3
  <2>7. pc'[r] \in {"idle", "verifying"}
    BY <2>3, RespondMoves DEF TablesInv
  <2>8. RoomForOne'
    BY <2>7 DEF OneAtATime, RoomForOne, Checked, BeforeUpsert, BeforeInsert, AfterInsert
  <2> QED
    BY <2>6, <2>8 DEF QuotaHolds, OwnedIsFinite
<1>6. CASE Restart
  <2>1. UNCHANGED owners /\ \A q \in Requests : pc'[q] = "idle"
    BY <1>6 DEF Restart, dbVars
  <2>2. RoomForOne'
    BY <2>1 DEF RoomForOne, Checked, BeforeUpsert, BeforeInsert, AfterInsert
  <2> QED
    BY <1>2, <2>1, <2>2
<1>7. CASE UNCHANGED vars
  <2>1. UNCHANGED <<owners, pc, req>>
    BY <1>7 DEF vars, dbVars
  <2>2. RoomForOne'
    BY <1>1, <2>1 DEF SerialInv, RoomForOne, Key
  <2> QED
    BY <1>2, <2>1, <2>2
<1> QED
  BY <1>3, <1>4, <1>5, <1>6, <1>7 DEF Next, HandlerStep

THEOREM SerialInvariance ==
    ASSUME OneAtATime
    PROVE  Spec => [](TablesInv /\ SerialInv)
<1>1. Init => TablesInv /\ SerialInv
  <2> SUFFICES ASSUME Init PROVE SerialInv
    BY InvInit DEF Inv
  <2>1. BareWithoutPackage /\ VersionsComeFromOwners /\ PublisherOwns /\ RoomForOne
    BY DEF Init, BareWithoutPackage, VersionsComeFromOwners, PublisherOwns, RoomForOne,
       Bare, HasRow, Checked, BeforeUpsert, BeforeInsert, AfterInsert
  <2>2. \A u : Owned(u) = {}
    BY DEF Init, Owned
  <2>3. IsFiniteSet({}) /\ Cardinality({}) = 0
    BY FS_EmptySet
  <2>4. OwnedIsFinite
    BY <2>2, <2>3 DEF OwnedIsFinite
  <2>5. QuotaHolds
    BY <2>2, <2>3, BoundsAssumption DEF QuotaHolds
  <2> QED
    BY <2>1, <2>4, <2>5 DEF SerialInv
<1>2. TablesInv /\ SerialInv /\ [Next]_vars => (TablesInv /\ SerialInv)'
  BY TablesStep, BareStep, SerialOwnersStep, SerialQuotaStep DEF SerialInv
<1> QED
  BY <1>1, <1>2, PTL DEF Spec

\* architecture.md: "Subsequent publishes require an existing owner."  Publishes that do
\* not overlap keep that, whichever of them are dropped on the way.
THEOREM VersionsAreByOwners ==
    ASSUME OneAtATime
    PROVE  Spec => []VersionsComeFromOwners
<1>1. SerialInv => VersionsComeFromOwners
  BY DEF SerialInv
<1> QED
  BY <1>1, SerialInvariance, PTL

\* lib.rs: "Maximum number of packages a non-admin user may own simultaneously."
\* Publishes that do not overlap keep to it.
THEOREM QuotasHold ==
    ASSUME OneAtATime
    PROVE  Spec => []QuotaHolds
<1>1. SerialInv => QuotaHolds
  BY DEF SerialInv
<1> QED
  BY <1>1, SerialInvariance, PTL

-----------------------------------------------------------------------------
(* The bytes behind a version.                                             *)

BytesInv == StoredBytesMatch /\ BytesInHand

LEMMA BytesLeft ==
    ASSUME OneAtATime, BytesInv, NEW r \in Requests,
           UNCHANGED <<blobs, digest, status>>,
           \/ pc'[r] \notin {"save", "scan", "upsert"} \cup BeforeInsert \cup PastInsert
           \/ /\ req'[r] = req[r]
              /\ \/ /\ pc[r] \in {"scan", "upsert"} \cup BeforeInsert
                    /\ pc'[r] \in {"scan", "upsert"} \cup BeforeInsert
                 \/ /\ pc[r] \in PastInsert
                    /\ pc'[r] \in PastInsert
                 \/ /\ \/ pc'[r] = "save"
                       \/ pc'[r] = "upsert" /\ req[r].content = NULL
                    /\ status[Key(r)][req[r].vers] # "published"
    PROVE  BytesInv'
<1>1. StoredBytesMatch'
  BY DEF BytesInv, StoredBytesMatch
<1>2. "save" \notin {"scan", "upsert"} \cup BeforeInsert \cup PastInsert
      /\ "upsert" \notin PastInsert
      /\ PastInsert \cap ({"save", "scan", "upsert"} \cup BeforeInsert) = {}
  BY DEF BeforeInsert, PastInsert, AfterInsert
<1>3. BytesInHand'
  BY <1>2 DEF OneAtATime, BytesInv, BytesInHand, Key
<1> QED
  BY <1>1, <1>3 DEF BytesInv

\* Neither a package of another name nor, with one channel, a published version shares
\* the object that is written.
LEMMA BytesSave ==
    ASSUME OneAtATime, OneChannel, TypeOK, BytesInv, NEW r \in Requests, SaveBlob(r)
    PROVE  BytesInv'
<1> DEFINE k0 == Key(r)
           s0 == req[r].name
           v0 == req[r].vers
<1>1. /\ pc[r] = "save" /\ pc'[r] = "scan" /\ req'[r] = req[r]
      /\ UNCHANGED <<digest, status>>
      /\ blobs' = [blobs EXCEPT ![s0][v0] = req[r].content]
  BY DEF TypeOK, SaveBlob, Goto, dbVars, versionVars
<1>2. /\ req[r] \in Inputs /\ k0 \in Keys /\ Lower[s0] = k0[1]
      /\ s0 \in Spellings /\ v0 \in Versions
  BY <1>1, BusySlot, InputFields
<1>3. /\ blobs'[s0][v0] = req[r].content
      /\ \A s \in Spellings, v \in Versions :
            s # s0 \/ v # v0 => blobs'[s][v] = blobs[s][v]
  BY <1>1, <1>2 DEF TypeOK
<1>4. status[k0][v0] # "published"
  BY <1>1 DEF BytesInv, BytesInHand
<1>5. ASSUME NEW k \in Keys, k[1] = k0[1] PROVE k = k0
  BY <1>2, <1>5 DEF Keys, OneChannel
<1>6. StoredBytesMatch'
  <2>1. ASSUME NEW k \in Keys, NEW v \in Versions,
               status[k][v] = "published", digest[k][v] # NULL
        PROVE  \E s \in Spellings : Lower[s] = k[1] /\ blobs'[s][v] = digest[k][v]
    <3>1. PICK s \in Spellings : Lower[s] = k[1] /\ blobs[s][v] = digest[k][v]
      BY <2>1 DEF BytesInv, StoredBytesMatch
    <3>2. s # s0 \/ v # v0
      BY <1>2, <1>4, <1>5, <2>1, <3>1
    <3> QED
      BY <1>3, <3>1, <3>2
  <2> QED
    BY <1>1, <2>1 DEF StoredBytesMatch
<1>7. BytesInHand'
  BY <1>1, <1>3, <1>4
  DEF OneAtATime, BytesInHand, Key, BeforeInsert, PastInsert, AfterInsert
<1> QED
  BY <1>6, <1>7 DEF BytesInv

\* The row gets the checksum of the object that was saved for it.
LEMMA BytesInsert ==
    ASSUME OneAtATime, TablesInv, BytesInv, NEW r \in Requests, InsertVersion(r)
    PROVE  BytesInv'
<1> DEFINE k0 == Key(r)
           v0 == req[r].vers
<1>1. /\ pc[r] = "insert_version" /\ UNCHANGED blobs
      /\ k0 \in Keys /\ v0 \in Versions
  BY InsertCases
<1>2. CASE UNCHANGED versionVars /\ pc'[r] = "idle"
  BY <1>1, <1>2, BytesLeft DEF versionVars, BeforeInsert, PastInsert, AfterInsert
<1>3. CASE InsertRow(r, k0) /\ UNCHANGED <<req, pid>> /\ pc'[r] = "read_latest"
  <2>1. /\ digest'[k0][v0] = req[r].content
        /\ \A k \in Keys, v \in Versions : <<k, v>> # <<k0, v0>> =>
              status'[k][v] = status[k][v] /\ digest'[k][v] = digest[k][v]
    BY <1>1, <1>3, InsertedRow DEF TablesInv
  <2>2. req[r].content # NULL => blobs[req[r].name][v0] = req[r].content
    BY <1>1 DEF BytesInv, BytesInHand, BeforeInsert
  <2>3. req[r].name \in Spellings /\ Lower[req[r].name] = k0[1]
    BY <1>1, BusySlot, InputFields DEF TablesInv
  <2>4. StoredBytesMatch'
    BY <1>1, <2>1, <2>2, <2>3 DEF BytesInv, StoredBytesMatch
  <2>5. BytesInHand'
    BY <1>1, <1>3, <2>1, <2>2
    DEF OneAtATime, BytesInHand, Key, BeforeInsert, PastInsert, AfterInsert
  <2> QED
    BY <2>4, <2>5 DEF BytesInv
<1> QED
  BY <1>2, <1>3, InsertCases

LEMMA BytesSettle ==
    ASSUME OneAtATime, TablesInv, TypeOK', BytesInv, NEW r \in Requests, Settle(r)
    PROVE  BytesInv'
<1> DEFINE k0 == Key(r)
           v0 == req[r].vers
<1>1. /\ pc[r] = "verifying" /\ pc'[r] = "idle"
      /\ UNCHANGED <<digest, blobs>>
      /\ \A k \in Keys, v \in Versions :
            <<k, v>> # <<k0, v0>> => status'[k][v] = status[k][v]
  BY TablesSettle
<1>2. /\ req[r].name \in Spellings /\ Lower[req[r].name] = k0[1]
  BY <1>1, BusySlot, InputFields DEF TablesInv
<1>3. /\ digest[k0][v0] = req[r].content
      /\ req[r].content # NULL => blobs[req[r].name][v0] = req[r].content
  BY <1>1 DEF BytesInv, BytesInHand, PastInsert
<1>4. StoredBytesMatch'
  BY <1>1, <1>2, <1>3 DEF BytesInv, StoredBytesMatch
<1>5. BytesInHand'
  BY <1>1 DEF OneAtATime, BytesInHand, BeforeInsert, PastInsert, AfterInsert
<1> QED
  BY <1>4, <1>5 DEF BytesInv

LEMMA BytesStep ==
    ASSUME OneAtATime, OneChannel, TablesInv, BytesInv, [Next]_vars
    PROVE  BytesInv'
<1>1. TypeOK'
  BY TypeStep DEF TablesInv
<1>2. ASSUME NEW r \in Requests,
             \/ Receive(r) \/ CheckOwner(r) \/ CheckQuota(r) \/ CheckDuplicate(r)
             \/ Scan(r) \/ Abort(r)
      PROVE  BytesInv'
  <2>1. UNCHANGED <<blobs, digest, status>>
    BY <1>2 DEF Receive, CheckOwner, CheckQuota, CheckDuplicate, Scan, Abort, dbVars,
       versionVars
  <2>2. \/ pc'[r] \in {"idle", "user_owns_package", "count_owned", "get_package"}
        \/ /\ req'[r] = req[r]
           /\ \/ pc[r] = "scan" /\ pc'[r] = "upsert"
              \/ /\ \/ pc'[r] = "save"
                    \/ pc'[r] = "upsert" /\ req[r].content = NULL
                 /\ status[Key(r)][req[r].vers] # "published"
    BY <1>2
    DEF Receive, CheckOwner, CheckQuota, CheckDuplicate, Scan, Abort, Goto, Return,
        TablesInv, TypeOK
  <2>3. {"idle", "user_owns_package", "count_owned", "get_package"}
           \cap ({"save", "scan", "upsert"} \cup BeforeInsert \cup PastInsert) = {}
    BY DEF BeforeInsert, PastInsert, AfterInsert
  <2> QED
    BY <2>1, <2>2, <2>3, BytesLeft
<1>3. ASSUME NEW r \in Requests, Upsert(r) \/ ResolveId(r)
      PROVE  BytesInv'
  <2>1. /\ UNCHANGED <<blobs, digest, status>> /\ req'[r] = req[r]
        /\ pc[r] \in {"scan", "upsert"} \cup BeforeInsert
        /\ pc'[r] \in {"scan", "upsert"} \cup BeforeInsert
    BY <1>1, <1>3, TablesUpsert, TablesResolve DEF dbVars, versionVars, BeforeInsert
  <2> QED
    BY <2>1, BytesLeft
<1>4. ASSUME NEW r \in Requests,
             ReadLatest(r) \/ SetLatest(r) \/ CountOwners(r) \/ GrantOwner(r)
      PROVE  BytesInv'
  <2>1. /\ pc[r] \in PastInsert
        /\ UNCHANGED <<blobs, digest, status>>
        /\ \/ pc'[r] = "idle"
           \/ req'[r] = req[r] /\ pc'[r] \in PastInsert
    BY <1>4, FinishingCases DEF versionVars, PastInsert
  <2>2. "idle" \notin {"save", "scan", "upsert"} \cup BeforeInsert \cup PastInsert
    BY DEF BeforeInsert, PastInsert, AfterInsert
  <2> QED
    BY <2>1, <2>2, BytesLeft
<1>5. CASE Restart
  <2>1. UNCHANGED <<blobs, digest, status>> /\ \A q \in Requests : pc'[q] = "idle"
    BY <1>5 DEF Restart, dbVars, versionVars
  <2> QED
    BY <2>1 DEF BytesInv, StoredBytesMatch, BytesInHand, BeforeInsert, PastInsert,
                AfterInsert
<1>6. CASE UNCHANGED vars
  BY <1>6 DEF vars, dbVars, versionVars, BytesInv, StoredBytesMatch, BytesInHand, Key
<1> QED
  BY <1>1, <1>2, <1>3, <1>4, <1>5, <1>6, BytesSave, BytesInsert, BytesSettle
  DEF Next, HandlerStep, TablesInv

\* What /download compares: the bytes under a published version are those its checksum
\* is of.  Publishes that do not overlap keep that within one channel, whatever
\* rejected or abandoned versions they publish again and in whatever spelling.
THEOREM PublishedBytesMatch ==
    ASSUME OneAtATime, OneChannel
    PROVE  Spec => []StoredBytesMatch
<1>1. Init => TablesInv /\ BytesInv
  <2> SUFFICES ASSUME Init PROVE BytesInv
    BY InvInit DEF Inv
  <2> QED
    BY DEF Init, BytesInv, StoredBytesMatch, BytesInHand, BeforeInsert, PastInsert,
           AfterInsert
<1>2. TablesInv /\ BytesInv /\ [Next]_vars => (TablesInv /\ BytesInv)'
  BY TablesStep, BytesStep
<1>3. BytesInv => StoredBytesMatch
  BY DEF BytesInv
<1> QED
  BY <1>1, <1>2, <1>3, PTL DEF Spec
=============================================================================
