---------------------------- MODULE Organisations ----------------------------
(***************************************************************************)
(* Organisations, their members, the tokens bound to them and the package  *)
(* assigned to them: src/src/api/orgs.rs, src/src/api/my_tokens.rs, the    *)
(* check of a bound token in src/src/api/publish.rs, and the tables in     *)
(* src/src/db.rs, for one package.                                         *)
(*                                                                         *)
(* Handlers ask by name whether the caller is an owner, look the name up   *)
(* for the id, and write by id or by name.  Between these calls the        *)
(* organisation may be deleted and another one take its name.              *)
(***************************************************************************)
EXTENDS Naturals

CONSTANTS
    Users,         \* accounts
    Admins,        \* those with is_admin
    Names,         \* organisation names
    Handlers,      \* slots for concurrent handlers
    MaxOrg,        \* bound on organizations.id
    MaxMishaps,    \* bound on account deletions and dropped handlers together
    NULL

ASSUME OrganisationsAssumption ==
    /\ Admins \subseteq Users
    /\ {MaxOrg, MaxMishaps} \subseteq Nat
    /\ NULL \notin Names \cup Users

VARIABLES
    accounts,   \* users that have not been deleted
    orgName,    \* organizations: id -> name, NULL for no row
    top,        \* the largest id given out
    role,       \* org_members: id -> user -> role, "none" for no row
    tokens,     \* tokens made for an organisation: user, org_id (0 for NULL), and
                \* the organisation it was made for
    pkgOrg,     \* packages.org_id, 0 for NULL, NULL for no row
    pkgOwners,  \* package_owners
    op,         \* per slot: the next call of a handler and what it carries
    owned,      \* organisations that have had an owner
    mishaps

tables == <<accounts, orgName, top, role, tokens, pkgOrg, pkgOwners>>
vars   == <<tables, op, owned, mishaps>>

-----------------------------------------------------------------------------
(* Values. *)

OrgIds == 1..MaxOrg
Orgs   == {o \in OrgIds : orgName[o] # NULL}
Roles  == {"none", "member", "owner"}
Tokens == [by : Users, bound : OrgIds \cup {0}, of : OrgIds]

Calls == {"insert_org", "insert_owner", "delete_org", "find_member_org", "upsert_member",
          "remove_member", "find_package_org", "set_package_org", "is_org_owner",
          "insert_token", "clear_org", "publish"}

\* user: who is to become or cease to be a member, to hold the token or to publish.
Ops == [call : Calls, user : Users \cup {NULL}, name : Names \cup {NULL},
        org : OrgIds \cup {0}, role : {"member", "owner"}]

ASSUME NullIsNoOp == NULL \notin Ops

\* At most one: organizations.name is UNIQUE.
OrgNamed(n) == {o \in Orgs : orgName[o] = n}

IsOrgOwner(n, u) == u \in Admins \/ \E o \in OrgNamed(n) : role[o][u] = "owner"

To(call, n) == [call |-> call, user |-> NULL, name |-> n, org |-> 0, role |-> "owner"]

Begin(h, o)   == op[h] = NULL /\ op' = [op EXCEPT ![h] = o]
At(h, call)   == op[h] # NULL /\ op[h].call = call
Goto(h, call) == op' = [op EXCEPT ![h].call = call]
Finish(h)     == op' = [op EXCEPT ![h] = NULL]

Rest == UNCHANGED <<owned, mishaps>>

\* get_org: the id, or a 404.
FindOrg(h, call) ==
    \/ /\ OrgNamed(op[h].name) = {}
       /\ Finish(h)
    \/ \E o \in OrgNamed(op[h].name) :
          op' = [op EXCEPT ![h].org = o, ![h].call = call]

-----------------------------------------------------------------------------
(* Requests, up to their first write.  A refusal writes nothing. *)

CreateOrg(h) ==
    /\ \E u \in accounts, n \in Names :
          /\ OrgNamed(n) = {}
          /\ Begin(h, [To("insert_org", n) EXCEPT !.user = u])
    /\ UNCHANGED tables /\ Rest

DeleteOrg(h) ==
    /\ \E u \in accounts, n \in Names :
          /\ IsOrgOwner(n, u)
          /\ Begin(h, To("delete_org", n))
    /\ UNCHANGED tables /\ Rest

AddMember(h) ==
    /\ \E u \in accounts, v \in accounts, n \in Names, r \in {"member", "owner"} :
          /\ IsOrgOwner(n, u)
          /\ Begin(h, [call |-> "find_member_org", user |-> v, name |-> n, org |-> 0,
                       role |-> r])
    /\ UNCHANGED tables /\ Rest

\* Members may remove themselves.
RemoveMember(h) ==
    /\ \E u \in accounts, v \in Users, n \in Names :
          /\ IsOrgOwner(n, u) \/ u = v
          /\ Begin(h, [To("remove_member", n) EXCEPT !.user = v])
    /\ UNCHANGED tables /\ Rest

\* The caller owns the package, and the organisation if one is named.
SetPackageOrg(h) ==
    /\ \E u \in accounts :
          /\ u \in Admins \/ u \in pkgOwners
          /\ \/ Begin(h, To("set_package_org", NULL))
             \/ \E n \in Names :
                   /\ IsOrgOwner(n, u)
                   /\ Begin(h, To("find_package_org", n))
    /\ UNCHANGED tables /\ Rest

\* A token for no organisation is like the one that every login makes (module
\* Accounts) and is not kept here.
CreateToken(h) ==
    /\ \E u \in accounts, n \in Names : \E o \in OrgNamed(n) :
          Begin(h, [call |-> "is_org_owner", user |-> u, name |-> n, org |-> o,
                    role |-> "owner"])
    /\ UNCHANGED tables /\ Rest

RevokeToken(t) ==
    /\ tokens' = tokens \ {t}
    /\ UNCHANGED <<accounts, orgName, top, role, pkgOrg, pkgOwners, op>> /\ Rest

\* A bound token is for the packages of its organisation and for new ones; a
\* package without an organisation is not new.
BindingOK(bound) == bound = 0 \/ pkgOrg \in {NULL, bound}

\* PUT /packages: the owner of the package, then the binding.
Publish(h) ==
    /\ \E t \in tokens \cup {[by |-> u, bound |-> 0] : u \in accounts} :
          /\ pkgOrg = NULL \/ t.by \in pkgOwners
          /\ BindingOK(t.bound)
          /\ Begin(h, [To(IF t.bound # 0 /\ pkgOrg = NULL THEN "clear_org" ELSE "publish",
                          NULL) EXCEPT !.user = t.by])
    /\ UNCHANGED tables /\ Rest

-----------------------------------------------------------------------------
(* Database calls. *)

\* Mutant: an id is given out again.
NextOrgReused == CHOOSE o \in 1..(MaxOrg + 1) : o \notin Orgs

\* AUTOINCREMENT, or a sequence.
NextOrg == top + 1

\* Mutant: the creator is not made an owner.
InsertOrgAlone(h) ==
    /\ At(h, "insert_org")
    /\ LET o == NextOrg IN
       IF OrgNamed(op[h].name) = {} /\ o \in OrgIds
         THEN orgName' = [orgName EXCEPT ![o] = op[h].name] /\ top' = o
         ELSE UNCHANGED <<orgName, top>>
    /\ Finish(h)
    /\ UNCHANGED <<accounts, role, tokens, pkgOrg, pkgOwners>> /\ Rest

InsertOrg(h) ==
    /\ At(h, "insert_org")
    /\ LET o == NextOrg IN
       IF OrgNamed(op[h].name) = {} /\ o \in OrgIds
         THEN /\ orgName' = [orgName EXCEPT ![o] = op[h].name]
              /\ top' = o
              /\ op' = [op EXCEPT ![h].org = o, ![h].call = "insert_owner"]
         ELSE Finish(h) /\ UNCHANGED <<orgName, top>>
    /\ UNCHANGED <<accounts, role, tokens, pkgOrg, pkgOwners>> /\ Rest

\* The row refers to a user and an organisation, or the insert fails.
SetRole(h, r) ==
    /\ IF op[h].org \in Orgs /\ op[h].user \in accounts
         THEN /\ role' = [role EXCEPT ![op[h].org][op[h].user] = r]
              /\ owned' = IF r = "owner" THEN owned \cup {op[h].org} ELSE owned
         ELSE UNCHANGED <<role, owned>>
    /\ Finish(h)
    /\ UNCHANGED <<accounts, orgName, top, tokens, pkgOrg, pkgOwners, mishaps>>

InsertOwner(h)  == At(h, "insert_owner") /\ SetRole(h, "owner")

FindMemberOrg(h) ==
    /\ At(h, "find_member_org")
    /\ FindOrg(h, "upsert_member")
    /\ UNCHANGED tables /\ Rest

\* The role of a member is overwritten, be it the last owner's.
UpsertMember(h) == At(h, "upsert_member") /\ SetRole(h, op[h].role)

\* By names; the last owner may go.
RemoveOrgMember(h) ==
    /\ At(h, "remove_member")
    /\ role' = [o \in OrgIds |-> IF orgName[o] = op[h].name
                                   THEN [role[o] EXCEPT ![op[h].user] = "none"] ELSE role[o]]
    /\ Finish(h)
    /\ UNCHANGED <<accounts, orgName, top, tokens, pkgOrg, pkgOwners>> /\ Rest

\* Mutant: the columns that refer to the organisation keep its id.
DeleteOrgRowOnly(h) ==
    /\ At(h, "delete_org")
    /\ orgName' = [o \in OrgIds |-> IF orgName[o] = op[h].name THEN NULL ELSE orgName[o]]
    /\ Finish(h)
    /\ UNCHANGED <<accounts, top, role, tokens, pkgOrg, pkgOwners>> /\ Rest

\* Members cascade; packages and tokens have their org_id set to NULL.
DeleteOrgRow(h) ==
    /\ At(h, "delete_org")
    /\ LET gone == OrgNamed(op[h].name) IN
       /\ orgName' = [o \in OrgIds |-> IF o \in gone THEN NULL ELSE orgName[o]]
       /\ role' = [o \in OrgIds |-> IF o \in gone THEN [u \in Users |-> "none"] ELSE role[o]]
       /\ tokens' = {IF t.bound \in gone THEN [t EXCEPT !.bound = 0] ELSE t : t \in tokens}
       /\ pkgOrg' = IF pkgOrg \in gone THEN 0 ELSE pkgOrg
    /\ Finish(h)
    /\ UNCHANGED <<accounts, top, pkgOwners>> /\ Rest

FindPackageOrg(h) ==
    /\ At(h, "find_package_org")
    /\ FindOrg(h, "set_package_org")
    /\ UNCHANGED tables /\ Rest

\* An UPDATE: no row, no change; no such organisation, no change either.
SetOrgColumn(h) ==
    pkgOrg' = IF pkgOrg # NULL /\ op[h].org \in Orgs \cup {0} THEN op[h].org ELSE pkgOrg

SetPackageOrgId(h) ==
    /\ At(h, "set_package_org")
    /\ SetOrgColumn(h)
    /\ Finish(h)
    /\ UNCHANGED <<accounts, orgName, top, role, tokens, pkgOwners>> /\ Rest

\* my_tokens.rs asks for the owner by name after it has looked up the id.
CheckTokenOwner(h) ==
    /\ At(h, "is_org_owner")
    /\ IF IsOrgOwner(op[h].name, op[h].user) THEN Goto(h, "insert_token") ELSE Finish(h)
    /\ UNCHANGED tables /\ Rest

InsertToken(h) ==
    /\ At(h, "insert_token")
    /\ tokens' = IF op[h].user \in accounts /\ op[h].org \in Orgs
                   THEN tokens \cup {[by |-> op[h].user, bound |-> op[h].org, of |-> op[h].org]}
                   ELSE tokens
    /\ Finish(h)
    /\ UNCHANGED <<accounts, orgName, top, role, pkgOrg, pkgOwners>> /\ Rest

\* A new package is to be assigned to the token's organisation; what is written
\* is NULL, to a row that is there only if somebody was faster.
ClearOrg(h) ==
    /\ At(h, "clear_org")
    /\ pkgOrg' = IF pkgOrg = NULL THEN NULL ELSE 0
    /\ Goto(h, "publish")
    /\ UNCHANGED <<accounts, orgName, top, role, tokens, pkgOwners>> /\ Rest

\* publish_version, which does not write org_id (module Publish has the detail).
PublishVersion(h) ==
    /\ At(h, "publish")
    /\ IF pkgOrg = NULL
         THEN pkgOrg' = 0 /\ pkgOwners' = {op[h].user} \cap accounts
         ELSE UNCHANGED <<pkgOrg, pkgOwners>>
    /\ Finish(h)
    /\ UNCHANGED <<accounts, orgName, top, role, tokens>> /\ Rest

-----------------------------------------------------------------------------

\* Memberships, tokens and ownerships of the account cascade.
DeleteAccount(u) ==
    /\ mishaps < MaxMishaps
    /\ u \in accounts
    /\ mishaps' = mishaps + 1
    /\ accounts' = accounts \ {u}
    /\ role' = [o \in OrgIds |-> [role[o] EXCEPT ![u] = "none"]]
    /\ tokens' = {t \in tokens : t.by # u}
    /\ pkgOwners' = pkgOwners \ {u}
    /\ UNCHANGED <<orgName, top, pkgOrg, op, owned>>

\* The client goes away, or a call fails.
Abort(h) ==
    /\ mishaps < MaxMishaps
    /\ op[h] # NULL
    /\ mishaps' = mishaps + 1
    /\ Finish(h)
    /\ UNCHANGED <<tables, owned>>

Init ==
    /\ accounts = Users
    /\ orgName = [o \in OrgIds |-> NULL] /\ top = 0
    /\ role = [o \in OrgIds |-> [u \in Users |-> "none"]]
    /\ tokens = {}
    /\ pkgOrg = NULL /\ pkgOwners = {}
    /\ op = [h \in Handlers |-> NULL]
    /\ owned = {} /\ mishaps = 0

Request(h) ==
    /\ op[h] = NULL
    /\ \/ CreateOrg(h) \/ DeleteOrg(h) \/ AddMember(h) \/ RemoveMember(h)
       \/ SetPackageOrg(h) \/ CreateToken(h) \/ Publish(h)

Call(h) ==
    \/ InsertOrg(h) \/ InsertOwner(h) \/ DeleteOrgRow(h)
    \/ FindMemberOrg(h) \/ UpsertMember(h) \/ RemoveOrgMember(h)
    \/ FindPackageOrg(h) \/ SetPackageOrgId(h)
    \/ CheckTokenOwner(h) \/ InsertToken(h)
    \/ ClearOrg(h) \/ PublishVersion(h)

Next ==
    \/ \E h \in Handlers : Request(h) \/ Call(h) \/ Abort(h)
    \/ \E u \in Users : DeleteAccount(u)
    \/ \E t \in tokens : RevokeToken(t)

Spec == Init /\ [][Next]_vars

-----------------------------------------------------------------------------
(* Types. *)

\* Tables and handlers keep their types.
TypeOK ==
    /\ accounts \subseteq Users
    /\ orgName \in [OrgIds -> Names \cup {NULL}]
    /\ top \in OrgIds \cup {0}
    /\ role \in [OrgIds -> [Users -> Roles]]
    /\ tokens \subseteq Tokens
    /\ pkgOrg \in OrgIds \cup {0, NULL}
    /\ pkgOwners \subseteq Users
    /\ op \in [Handlers -> Ops \cup {NULL}]
    /\ owned \subseteq OrgIds

-----------------------------------------------------------------------------
(* Safety. *)

\* A handler may hold the id of an organisation, or the name of a user, that is
\* gone when it writes.  Still nothing refers to what is gone: neither
\* memberships nor tokens nor the package.
NothingRefersToTheGone ==
    /\ \A o \in OrgIds, u \in Users :
          role[o][u] # "none" => o \in Orgs /\ u \in accounts
    /\ \A t \in tokens : t.bound \in Orgs \cup {0} /\ t.by \in accounts
    /\ pkgOrg \in Orgs \cup {0, NULL}
    /\ pkgOwners \subseteq accounts

\* A token is bound to the organisation it was made for, or to none once that is
\* deleted: never to another one that has taken over its name.
TokensKeepTheirOrg ==
    \A t \in tokens : t.bound = IF t.of \in Orgs THEN t.of ELSE 0

\* An organisation and its first owner are two inserts.  While no handler is
\* dropped and no account deleted, an organisation that never had an owner has a
\* handler left that will make one.
NewOrgHasFounder ==
    mishaps = 0 =>
        \A o \in Orgs \ owned :
            \E h \in Handlers : At(h, "insert_owner") /\ op[h].org = o

=============================================================================
