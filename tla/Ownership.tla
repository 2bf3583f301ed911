------------------------------ MODULE Ownership ------------------------------
(***************************************************************************)
(* The owners of one existing package: PUT and DELETE                      *)
(* /api/v1/packages/:name/owners (src/src/api/owners.rs), and the accounts *)
(* they name, which an admin may delete (src/src/api/admin.rs).            *)
(*                                                                         *)
(* A request names several users and makes one or two database calls for   *)
(* each of them; requests and account deletions interleave between calls.  *)
(***************************************************************************)
EXTENDS Integers, Sequences, FiniteSets

CONSTANTS
    Names,             \* usernames, in lower case
    Bodies,            \* the "users" lists requests carry
    Handlers,          \* slots for concurrent requests
    MaxUid,            \* bound on users.id
    MaxDeletes,        \* bound on deleted accounts
    NULL

ASSUME OwnershipAssumption ==
    /\ Bodies \subseteq Seq(Names) \ {<<>>}
    /\ MaxUid \in Nat
    /\ MaxDeletes \in Nat

VARIABLES
    uid,       \* table users: the id of each name, 0 without an account
    owners,    \* table package_owners: the ids that own the package
    op,        \* per slot: the request served there, NULL when free: its caller
               \* with the id the token gave, the users still to do, the next
               \* call and the id the last lookup by name returned
    deletes

vars == <<uid, owners, op, deletes>>

-----------------------------------------------------------------------------

Ids      == 1..MaxUid
UserRows == {n \in Names : uid[n] # 0}
IdsInUse == {uid[n] : n \in UserRows}

Calls == {"user_owns_package", "find_user", "insert_owner",
          "get_package_owners", "delete_owner"}

At(h, call)   == op[h] # NULL /\ op[h].at = call
Goto(h, call) == op' = [op EXCEPT ![h].at = call]
Return(h)     == op' = [op EXCEPT ![h] = NULL]

\* On to the next user of the list, if any.
NextUser(h, call) ==
    IF Tail(op[h].todo) = <<>>
      THEN Return(h)
      ELSE op' = [op EXCEPT ![h].todo = Tail(@), ![h].at = call]

Listed(list) == {list[i] : i \in 1..Len(list)}

-----------------------------------------------------------------------------
(* Requests. *)

\* The token names an account.
Receive(h) ==
    /\ op[h] = NULL
    /\ \E n \in UserRows, kind \in {"add", "remove"}, body \in Bodies :
          op' = [op EXCEPT ![h] =
                   [kind |-> kind, caller |-> n, id |-> uid[n], todo |-> body,
                    at |-> "user_owns_package", found |-> 0]]
    /\ UNCHANGED <<uid, owners, deletes>>

\* Mutant: a package without owners is open to anybody.
RequireOwnerIfAny(h) ==
    /\ At(h, "user_owns_package")
    /\ IF op[h].id \in owners \/ owners = {}
         THEN Goto(h, IF op[h].kind = "add" THEN "find_user"
                                            ELSE "get_package_owners")
         ELSE Return(h)
    /\ UNCHANGED <<uid, owners, deletes>>

\* Once, before the first user of the list: 403 for a stranger.
RequireOwner(h) ==
    /\ At(h, "user_owns_package")
    /\ IF op[h].id \in owners
         THEN Goto(h, IF op[h].kind = "add" THEN "find_user"
                                            ELSE "get_package_owners")
         ELSE Return(h)
    /\ UNCHANGED <<uid, owners, deletes>>

FindUser(h) ==
    /\ At(h, "find_user")
    /\ LET n == Head(op[h].todo) IN
          \/ /\ n \notin UserRows
             /\ NextUser(h, "find_user")
          \/ /\ n \in UserRows
             /\ op' = [op EXCEPT ![h].found = uid[n], ![h].at = "insert_owner"]
    /\ UNCHANGED <<uid, owners, deletes>>

\* Mutant: package_owners has no foreign key.
InsertOwnerUnchecked(h) ==
    /\ At(h, "insert_owner")
    /\ owners' = owners \cup {op[h].found}
    /\ NextUser(h, "find_user")
    /\ UNCHANGED <<uid, deletes>>

\* The insert ignores a row that is there; without the account its foreign key
\* fails and the request ends.
InsertOwner(h) ==
    /\ At(h, "insert_owner")
    /\ \/ /\ op[h].found \in IdsInUse
          /\ owners' = owners \cup {op[h].found}
          /\ NextUser(h, "find_user")
       \/ /\ op[h].found \notin IdsInUse
          /\ Return(h)
          /\ UNCHANGED owners
    /\ UNCHANGED <<uid, deletes>>

\* The guard: the caller is on the list and the package has one owner.
GetPackageOwners(h) ==
    /\ At(h, "get_package_owners")
    /\ IF op[h].caller \in Listed(op[h].todo) /\ Cardinality(owners) = 1
         THEN Return(h)
         ELSE Goto(h, "delete_owner")
    /\ UNCHANGED <<uid, owners, deletes>>

DeleteOwner(h) ==
    /\ At(h, "delete_owner")
    /\ owners' = owners \ {uid[Head(op[h].todo)]}
    /\ NextUser(h, "delete_owner")
    /\ UNCHANGED <<uid, deletes>>

-----------------------------------------------------------------------------
(* Accounts. *)

\* The user's package_owners rows and tokens go with the account.
DeleteUser(n) ==
    /\ deletes < MaxDeletes
    /\ uid[n] # 0
    /\ uid' = [uid EXCEPT ![n] = 0]
    /\ owners' = owners \ {uid[n]}
    /\ deletes' = deletes + 1
    /\ UNCHANGED op

\* SQLite gives a new row the largest id in use plus one.
Register(n) ==
    /\ uid[n] = 0
    /\ \E i \in Ids :
          /\ \A j \in IdsInUse : j < i
          /\ i = 1 \/ i - 1 \in IdsInUse
          /\ uid' = [uid EXCEPT ![n] = i]
    /\ UNCHANGED <<owners, op, deletes>>

-----------------------------------------------------------------------------

\* Somebody published the package; others may have accounts or not.
Init ==
    /\ uid \in [Names -> 0..MaxUid]
    /\ \A m, n \in UserRows : uid[m] = uid[n] => m = n
    /\ \E n \in UserRows : owners = {uid[n]}
    /\ op = [h \in Handlers |-> NULL]
    /\ deletes = 0

HandlerStep(h) ==
    \/ RequireOwner(h)
    \/ FindUser(h) \/ InsertOwner(h)
    \/ GetPackageOwners(h) \/ DeleteOwner(h)

Next ==
    \/ \E h \in Handlers : Receive(h) \/ HandlerStep(h)
    \/ \E n \in Names : DeleteUser(n) \/ Register(n)

Spec == Init /\ [][Next]_vars

-----------------------------------------------------------------------------
(* Types. *)

\* The tables and the requests keep their types.
TypeOK ==
    /\ uid \in [Names -> 0..MaxUid]
    /\ owners \subseteq Ids
    /\ \A h \in Handlers : op[h] # NULL =>
          /\ op[h] \in [kind   : {"add", "remove"},
                        caller : Names,
                        id     : Ids,
                        todo   : {op[h].todo},
                        at     : Calls,
                        found  : 0..MaxUid]
          /\ op[h].todo \in Seq(Names) \ {<<>>}
    /\ deletes \in 0..MaxDeletes

-----------------------------------------------------------------------------
(* Safety. *)

\* Every owner is an account that exists, and no two accounts share an id:
\* deleting a user takes the ownership along, and a request that looked the user
\* up before the deletion does not put it back.
OwnersHaveAccounts ==
    /\ owners \subseteq IdsInUse
    /\ \A m, n \in UserRows : uid[m] = uid[n] => m = n

Ownerless ==
    owners = {} /\ \A h \in Handlers : ~At(h, "find_user") /\ ~At(h, "insert_owner")

\* A package without owners stays without: nobody passes the owner check any
\* more, admins included, so only a request that had passed it can still add one.
OwnerlessForGood == [][Ownerless => Ownerless']_vars

=============================================================================
