------------------------ MODULE OrganisationsProofs ------------------------
(***************************************************************************)
(* What module Organisations guarantees for any users, names, concurrent   *)
(* handlers and number of organisations.                                   *)
(***************************************************************************)
EXTENDS Organisations, TLAPS

USE OrganisationsAssumption

-----------------------------------------------------------------------------
(* The inductive invariant. *)

\* Ids are given out in order: what carries one carries one given out before.
IdsAreOld ==
    /\ \A o \in Orgs : o <= top
    /\ \A t \in tokens : t.of <= top

\* A handler that makes somebody an owner of a new organisation has somebody.
FoundersAreUsers ==
    \A h \in Handlers :
        At(h, "insert_org") \/ At(h, "insert_owner") => op[h].user \in Users

\* Until an account is deleted everybody has one.
EverybodyIsHere == mishaps \in Nat /\ (mishaps = 0 => accounts = Users)

Inv ==
    /\ TypeOK
    /\ NothingRefersToTheGone
    /\ IdsAreOld
    /\ TokensKeepTheirOrg
    /\ FoundersAreUsers
    /\ EverybodyIsHere
    /\ NewOrgHasFounder

LEMMA InitInv == Init => Inv
BY DEF Init, Inv, TypeOK, NothingRefersToTheGone, IdsAreOld, TokensKeepTheirOrg,
       FoundersAreUsers, EverybodyIsHere, NewOrgHasFounder, At, Orgs, OrgIds, Roles,
       Tokens, Ops

-----------------------------------------------------------------------------
(* Types. *)

\* What a request begins; only create_org begins with a founder.
Begun(h) ==
    \E o \in Ops :
       /\ Begin(h, o)
       /\ o.call # "insert_owner"
       /\ o.call = "insert_org" => o.user \in Users

LEMMA RequestsBegin ==
    ASSUME TypeOK, NEW h \in Handlers, Request(h)
    PROVE  Begun(h) /\ UNCHANGED <<tables, owned, mishaps>>
<1>0. accounts \subseteq Users
  BY DEF TypeOK
<1>u. UNCHANGED <<tables, owned, mishaps>>
  BY DEF Request, CreateOrg, DeleteOrg, AddMember, RemoveMember, SetPackageOrg,
         CreateToken, Publish, Rest
<1> DEFINE Op(c, u, n, o, r) ==
          [call |-> c, user |-> u, name |-> n, org |-> o, role |-> r]
<1>o. \A c \in Calls, u \in Users \cup {NULL}, n \in Names \cup {NULL},
         o \in OrgIds \cup {0}, r \in {"member", "owner"} :
            /\ Op(c, u, n, o, r) \in Ops
            /\ Op(c, u, n, o, r).call = c /\ Op(c, u, n, o, r).user = u
  BY DEF Ops
<1>c. {"insert_org", "delete_org", "find_member_org", "remove_member", "find_package_org",
       "set_package_org", "is_org_owner", "clear_org", "publish"} \subseteq Calls
  BY DEF Calls
<1>b. ASSUME NEW c \in Calls \ {"insert_owner"}, NEW u \in Users \cup {NULL},
             NEW n \in Names \cup {NULL}, NEW o \in OrgIds \cup {0},
             NEW r \in {"member", "owner"}, c = "insert_org" => u \in Users,
             Begin(h, Op(c, u, n, o, r))
      PROVE  Begun(h)
  <2> HIDE DEF Op
  <2> QED
    BY <1>b, <1>o DEF Begun
<1>1. CASE CreateOrg(h)
  <2>1. PICK u \in accounts, n \in Names : Begin(h, Op("insert_org", u, n, 0, "owner"))
    BY <1>1 DEF CreateOrg, To
  <2> HIDE DEF Op
  <2> QED
    BY <2>1, <1>0, <1>b, <1>c, <1>u
<1>2. CASE DeleteOrg(h)
  <2>1. PICK n \in Names : Begin(h, Op("delete_org", NULL, n, 0, "owner"))
    BY <1>2 DEF DeleteOrg, To
  <2> HIDE DEF Op
  <2> QED
    BY <2>1, <1>b, <1>c, <1>u
<1>3. CASE AddMember(h)
  <2>1. PICK v \in accounts, n \in Names, r \in {"member", "owner"} :
            Begin(h, Op("find_member_org", v, n, 0, r))
    BY <1>3 DEF AddMember
  <2> HIDE DEF Op
  <2> QED
    BY <2>1, <1>0, <1>b, <1>c, <1>u
<1>4. CASE RemoveMember(h)
  <2>1. PICK v \in Users, n \in Names : Begin(h, Op("remove_member", v, n, 0, "owner"))
    BY <1>4 DEF RemoveMember, To
  <2> HIDE DEF Op
  <2> QED
    BY <2>1, <1>b, <1>c, <1>u
<1>5. CASE SetPackageOrg(h)
  <2>1. \/ Begin(h, Op("set_package_org", NULL, NULL, 0, "owner"))
        \/ \E n \in Names : Begin(h, Op("find_package_org", NULL, n, 0, "owner"))
    BY <1>5 DEF SetPackageOrg, To
  <2> HIDE DEF Op
  <2> QED
    BY <2>1, <1>b, <1>c, <1>u
<1>6. CASE CreateToken(h)
  <2>1. PICK u \in accounts, n \in Names, o \in OrgIds :
            Begin(h, Op("is_org_owner", u, n, o, "owner"))
    BY <1>6 DEF CreateToken, OrgNamed, Orgs
  <2> HIDE DEF Op
  <2> QED
    BY <2>1, <1>0, <1>b, <1>c, <1>u
<1>7. CASE Publish(h)
  <2>1. PICK t \in tokens \cup {[by |-> u, bound |-> 0] : u \in accounts},
             c \in {"clear_org", "publish"} :
            Begin(h, [To(c, NULL) EXCEPT !.user = t.by])
    BY <1>7 DEF Publish
  <2>3. [To(c, NULL) EXCEPT !.user = t.by] = Op(c, t.by, NULL, 0, "owner")
    BY DEF To
  <2>2. t.by \in Users
    <3>1. CASE t \in tokens
      BY <3>1 DEF Tokens, TypeOK
    <3>2. CASE t \in {[by |-> u, bound |-> 0] : u \in accounts}
      BY <3>2, <1>0
    <3> QED
      BY <3>1, <3>2
  <2> HIDE DEF Op
  <2> QED
    BY <2>1, <2>2, <2>3, <1>b, <1>c, <1>u
<1> QED
  BY <1>u, <1>1, <1>2, <1>3, <1>4, <1>5, <1>6, <1>7 DEF Request

\* Calls only move their own handler on.
LEMMA CallMovesItself ==
    ASSUME TypeOK, NEW h \in Handlers, Call(h)
    PROVE  /\ \A g \in Handlers \ {h} : op'[g] = op[g]
           /\ mishaps' = mishaps /\ accounts' = accounts
BY DEF TypeOK, Call, InsertOrg, InsertOwner, SetRole, DeleteOrgRow, FindMemberOrg,
       UpsertMember, RemoveOrgMember, FindPackageOrg, FindOrg, SetPackageOrgId,
       CheckTokenOwner, InsertToken, ClearOrg, PublishVersion, Rest, tables,
       Finish, Goto, At

LEMMA TypesOfCalls ==
    ASSUME TypeOK, NEW h \in Handlers, Call(h)
    PROVE  TypeOK'
<1>f. ASSUME Finish(h)  PROVE  op' \in [Handlers -> Ops \cup {NULL}]
  BY <1>f DEF Finish, TypeOK
<1>g. ASSUME NEW c \in Calls, NEW d \in Calls, At(h, d), Goto(h, c)
      PROVE  op' \in [Handlers -> Ops \cup {NULL}]
  BY <1>g DEF Goto, At, TypeOK, Ops
<1>o. ASSUME NEW c \in Calls, NEW d \in Calls, At(h, d), FindOrg(h, c)
      PROVE  op' \in [Handlers -> Ops \cup {NULL}]
  <2>1. CASE Finish(h)
    BY <2>1, <1>f
  <2>2. CASE \E o \in OrgIds : op' = [op EXCEPT ![h].org = o, ![h].call = c]
    <3>1. PICK o \in OrgIds : op' = [op EXCEPT ![h].org = o, ![h].call = c]
      BY <2>2
    <3>2. op[h] \in Ops /\ op \in [Handlers -> Ops \cup {NULL}]
      BY <1>o DEF At, TypeOK
    <3> QED
      BY <3>1, <3>2 DEF Ops
  <2> QED
    BY <1>o, <2>1, <2>2 DEF FindOrg, OrgNamed, Orgs
<1>c. {"insert_owner", "insert_token", "publish", "upsert_member", "set_package_org",
       "find_member_org", "find_package_org", "is_org_owner", "clear_org", "insert_org"}
          \subseteq Calls
  BY DEF Calls
<1>1. CASE InsertOrg(h)
  <2>1. op' \in [Handlers -> Ops \cup {NULL}]
    <3>1. CASE Finish(h)
      BY <3>1, <1>f
    <3>2. CASE \E o \in OrgIds : op' = [op EXCEPT ![h].org = o, ![h].call = "insert_owner"]
      <4>1. PICK o \in OrgIds : op' = [op EXCEPT ![h].org = o, ![h].call = "insert_owner"]
        BY <3>2
      <4>2. op[h] \in Ops /\ op \in [Handlers -> Ops \cup {NULL}]
        BY <1>1 DEF InsertOrg, At, TypeOK
      <4> QED
        BY <4>1, <4>2, <1>c DEF Ops
    <3> QED
      BY <1>1, <3>1, <3>2 DEF InsertOrg
  <2>2. op[h].name \in Names \cup {NULL}
    BY <1>1 DEF InsertOrg, At, TypeOK, Ops
  <2> QED
    BY <1>1, <2>1, <2>2 DEF InsertOrg, TypeOK, Rest, NextOrg
<1>2. CASE \E r \in {"member", "owner"} : SetRole(h, r) /\ op[h] # NULL
  BY <1>2, <1>f DEF SetRole, TypeOK, Roles, Orgs, Ops
<1>3. CASE DeleteOrgRow(h)
  <2>0. ASSUME NEW t \in tokens  PROVE t \in Tokens /\ [t EXCEPT !.bound = 0] \in Tokens
    BY DEF TypeOK, Tokens
  <2>1. tokens' \subseteq Tokens
    BY <1>3, <2>0 DEF DeleteOrgRow
  <2> QED
    BY <1>3, <1>f, <2>1 DEF DeleteOrgRow, TypeOK, Rest, Roles
<1>4. CASE FindMemberOrg(h)
  BY <1>4, <1>c, <1>o DEF FindMemberOrg, TypeOK, Rest, tables
<1>5. CASE RemoveOrgMember(h)
  <2>1. role' \in [OrgIds -> [Users -> Roles]]
    BY <1>5 DEF RemoveOrgMember, TypeOK, Roles
  <2> QED
    BY <1>5, <2>1, <1>f DEF RemoveOrgMember, TypeOK, Rest
<1>6. CASE FindPackageOrg(h)
  BY <1>6, <1>c, <1>o DEF FindPackageOrg, TypeOK, Rest, tables
<1>7. CASE SetPackageOrgId(h)
  BY <1>7, <1>f DEF SetPackageOrgId, SetOrgColumn, TypeOK, Rest, Orgs
<1>8. CASE CheckTokenOwner(h)
  BY <1>8, <1>c, <1>f, <1>g DEF CheckTokenOwner, TypeOK, Rest, tables
<1>9. CASE InsertToken(h)
  <2>1. tokens' \subseteq Tokens
    BY <1>9 DEF InsertToken, TypeOK, Tokens, Orgs
  <2> QED
    BY <1>9, <2>1, <1>f DEF InsertToken, TypeOK, Rest
<1>10. CASE ClearOrg(h)
  BY <1>10, <1>c, <1>g DEF ClearOrg, TypeOK, Rest
<1>11. CASE PublishVersion(h)
  BY <1>11, <1>f DEF PublishVersion, TypeOK, Rest
<1>12. ASSUME UpsertMember(h)  PROVE  op[h].role \in {"member", "owner"}
  BY <1>12 DEF UpsertMember, At, TypeOK, Ops
<1> QED
  BY <1>1, <1>2, <1>3, <1>4, <1>5, <1>6, <1>7, <1>8, <1>9, <1>10, <1>11, <1>12
     DEF Call, InsertOwner, UpsertMember, At

\* What happens between the calls.
Fault ==
    \/ \E u \in Users : DeleteAccount(u)
    \/ \E t \in tokens : RevokeToken(t)
    \/ \E h \in Handlers : Abort(h)

LEMMA TypesOfFaults ==
    ASSUME TypeOK, Fault
    PROVE  TypeOK'
<1>1. ASSUME NEW u \in Users, DeleteAccount(u)  PROVE TypeOK'
  <2>1. role' \in [OrgIds -> [Users -> Roles]]
    BY <1>1 DEF DeleteAccount, TypeOK, Roles
  <2> QED
    BY <1>1, <2>1 DEF DeleteAccount, TypeOK
<1>2. ASSUME NEW t \in tokens, RevokeToken(t)   PROVE TypeOK'
  BY <1>2 DEF RevokeToken, TypeOK, Rest
<1>3. ASSUME NEW h \in Handlers, Abort(h)       PROVE TypeOK'
  BY <1>3 DEF Abort, Finish, TypeOK, tables
<1> QED
  BY <1>1, <1>2, <1>3 DEF Fault

-----------------------------------------------------------------------------
(* Nothing refers to what is gone: what a step deletes takes its references *)
(* along, and what it refers to it has found in the step itself.            *)

LEMMA CallsReferToNothingGone ==
    ASSUME TypeOK, NothingRefersToTheGone, IdsAreOld, NEW h \in Handlers, Call(h)
    PROVE  NothingRefersToTheGone'
<1> USE DEF TypeOK, NothingRefersToTheGone, Orgs, tables, Rest
<1>1. CASE InsertOrg(h)
  <2>1. Orgs \subseteq Orgs'
    BY <1>1 DEF InsertOrg, NextOrg, IdsAreOld, OrgIds
  <2> QED
    BY <1>1, <2>1 DEF InsertOrg
<1>2. CASE \E r \in {"member", "owner"} : SetRole(h, r)
  BY <1>2 DEF SetRole
<1>3. CASE DeleteOrgRow(h)
  <2> DEFINE gone == OrgNamed(op[h].name)
  <2>1. /\ Orgs' = Orgs \ gone
        /\ gone \subseteq Orgs
    BY <1>3 DEF DeleteOrgRow, OrgNamed
  <2>2. /\ role' = [o \in OrgIds |-> IF o \in gone THEN [u \in Users |-> "none"] ELSE role[o]]
        /\ tokens' = {IF t.bound \in gone THEN [t EXCEPT !.bound = 0] ELSE t : t \in tokens}
        /\ pkgOrg' = IF pkgOrg \in gone THEN 0 ELSE pkgOrg
        /\ UNCHANGED <<accounts, pkgOwners>>
    BY <1>3 DEF DeleteOrgRow
  <2>3. 0 \notin OrgIds /\ Orgs \subseteq OrgIds
    BY DEF OrgIds
  <2> HIDE DEF gone, Orgs
  <2>4. ASSUME NEW t \in tokens
        PROVE  LET s == IF t.bound \in gone THEN [t EXCEPT !.bound = 0] ELSE t
               IN  s.bound \in (Orgs \ gone) \cup {0} /\ s.by \in accounts
    <3>1. t \in Tokens /\ t.bound \in Orgs \cup {0} /\ t.by \in accounts
      OBVIOUS
    <3> QED
      BY <3>1, <2>3 DEF Tokens
  <2>5. \A t \in tokens' : t.bound \in Orgs' \cup {0} /\ t.by \in accounts'
    BY <2>1, <2>2, <2>4
  <2>6. \A o \in OrgIds, u \in Users :
            role'[o][u] # "none" => o \in Orgs' /\ u \in accounts'
    BY <2>1, <2>2
  <2>7. pkgOrg' \in Orgs' \cup {0, NULL} /\ pkgOwners' \subseteq accounts'
    BY <2>1, <2>2
  <2> QED
    BY <2>5, <2>6, <2>7
<1>4. CASE RemoveOrgMember(h)
  BY <1>4 DEF RemoveOrgMember
<1>5. CASE SetPackageOrgId(h)
  BY <1>5 DEF SetPackageOrgId, SetOrgColumn
<1>6. CASE InsertToken(h)
  BY <1>6 DEF InsertToken
<1>7. CASE ClearOrg(h)
  BY <1>7 DEF ClearOrg
<1>8. CASE PublishVersion(h)
  BY <1>8 DEF PublishVersion
<1>9. CASE FindMemberOrg(h) \/ FindPackageOrg(h) \/ CheckTokenOwner(h)
  BY <1>9 DEF FindMemberOrg, FindPackageOrg, CheckTokenOwner
<1>10. ASSUME UpsertMember(h)  PROVE  op[h].role \in {"member", "owner"}
  BY <1>10 DEF UpsertMember, At, Ops
<1> QED
  BY <1>1, <1>2, <1>3, <1>4, <1>5, <1>6, <1>7, <1>8, <1>9, <1>10
     DEF Call, InsertOwner, UpsertMember

\* Faults only take rows away, and references of a deleted account with it.
LEMMA FaultsReferToNothingGone ==
    ASSUME TypeOK, NothingRefersToTheGone, Fault
    PROVE  NothingRefersToTheGone'
<1> USE DEF TypeOK, NothingRefersToTheGone, Orgs, tables, Rest
<1>1. ASSUME NEW u \in Users, DeleteAccount(u)  PROVE NothingRefersToTheGone'
  BY <1>1 DEF DeleteAccount
<1>2. ASSUME NEW t \in tokens, RevokeToken(t)   PROVE NothingRefersToTheGone'
  BY <1>2 DEF RevokeToken
<1>3. ASSUME NEW h \in Handlers, Abort(h)       PROVE NothingRefersToTheGone'
  BY <1>3 DEF Abort
<1> QED
  BY <1>1, <1>2, <1>3 DEF Fault

-----------------------------------------------------------------------------
(* Ids and bindings. *)

LEMMA CallsKeepBindings ==
    ASSUME TypeOK, IdsAreOld, TokensKeepTheirOrg, NEW h \in Handlers, Call(h)
    PROVE  IdsAreOld' /\ TokensKeepTheirOrg'
<1>n. /\ top \in Nat /\ \A o \in OrgIds : o \in Nat
      /\ 0 \notin OrgIds /\ Orgs \subseteq OrgIds
  BY DEF TypeOK, OrgIds, Orgs
<1>t. ASSUME NEW t \in tokens
      PROVE  t \in Tokens /\ t.of \in OrgIds /\ t.of <= top
  BY DEF TypeOK, Tokens, IdsAreOld
<1>1. CASE InsertOrg(h)
  <2>0. tokens' = tokens
    BY <1>1 DEF InsertOrg
  <2>1. CASE top' = top /\ orgName' = orgName
    BY <2>0, <2>1 DEF IdsAreOld, TokensKeepTheirOrg, Orgs
  <2>2. CASE top' = top + 1 /\ orgName' = [orgName EXCEPT ![top + 1] = op[h].name]
    <3>1. \A o \in OrgIds : o # top + 1 => (o \in Orgs' <=> o \in Orgs)
      BY <2>2 DEF TypeOK, Orgs
    <3>2. \A o \in Orgs' : o <= top'
      BY <3>1, <2>2, <1>n DEF IdsAreOld, Orgs
    <3>3. \A t \in tokens : t.of # top + 1 /\ t.of <= top'
      BY <1>t, <1>n, <2>2
    <3> QED
      BY <2>0, <3>1, <3>2, <3>3, <1>t DEF IdsAreOld, TokensKeepTheirOrg
  <2> QED
    BY <1>1, <2>1, <2>2 DEF InsertOrg, NextOrg
<1>2. CASE DeleteOrgRow(h)
  <2> DEFINE gone == OrgNamed(op[h].name)
             Unbound(t) == IF t.bound \in gone THEN [t EXCEPT !.bound = 0] ELSE t
  <2>1. /\ Orgs' = Orgs \ gone /\ gone \subseteq Orgs
        /\ tokens' = {Unbound(t) : t \in tokens} /\ top' = top
    BY <1>2 DEF DeleteOrgRow, OrgNamed, Orgs
  <2> HIDE DEF gone, Orgs
  <2>2. ASSUME NEW t \in tokens
        PROVE  /\ Unbound(t).of <= top
               /\ Unbound(t).bound = IF Unbound(t).of \in Orgs \ gone
                                       THEN Unbound(t).of ELSE 0
    <3>1. t \in Tokens /\ t.of \in OrgIds /\ t.of <= top
      BY <1>t
    <3>2. t.bound = IF t.of \in Orgs THEN t.of ELSE 0
      BY DEF TokensKeepTheirOrg
    <3>3. CASE t.bound \in gone
      BY <3>1, <3>2, <3>3, <2>1, <1>n DEF Tokens
    <3>4. CASE t.bound \notin gone
      BY <3>1, <3>2, <3>4, <2>1
    <3> QED
      BY <3>3, <3>4
  <2> QED
    BY <2>1, <2>2 DEF IdsAreOld, TokensKeepTheirOrg
<1>3. CASE InsertToken(h)
  <2>1. CASE tokens' = tokens
    BY <1>3, <2>1 DEF InsertToken, IdsAreOld, TokensKeepTheirOrg, Orgs
  <2>2. CASE /\ op[h].org \in Orgs
             /\ tokens' = tokens \cup {[by |-> op[h].user, bound |-> op[h].org,
                                        of |-> op[h].org]}
    <3>1. orgName' = orgName /\ top' = top
      BY <1>3 DEF InsertToken
    <3> QED
      BY <2>2, <3>1 DEF IdsAreOld, TokensKeepTheirOrg, Orgs
  <2> QED
    BY <1>3, <2>1, <2>2 DEF InsertToken
<1>4. CASE orgName' = orgName /\ top' = top /\ tokens' = tokens
  BY <1>4 DEF IdsAreOld, TokensKeepTheirOrg, Orgs
<1> QED
  BY <1>1, <1>2, <1>3, <1>4
     DEF Call, InsertOwner, SetRole, FindMemberOrg, UpsertMember, RemoveOrgMember,
         FindPackageOrg, SetPackageOrgId, CheckTokenOwner, ClearOrg, PublishVersion, tables

LEMMA FaultsKeepBindings ==
    ASSUME IdsAreOld, TokensKeepTheirOrg, Fault
    PROVE  IdsAreOld' /\ TokensKeepTheirOrg'
<1>1. /\ tokens' \subseteq tokens
      /\ orgName' = orgName /\ top' = top
  BY DEF Fault, DeleteAccount, RevokeToken, Abort, tables
<1> QED
  BY <1>1 DEF IdsAreOld, TokensKeepTheirOrg, Orgs

-----------------------------------------------------------------------------
(* Founders. *)

\* A handler that has to make an owner has got there by InsertOrg.
LEMMA CallsKeepFounders ==
    ASSUME TypeOK, FoundersAreUsers, NEW h \in Handlers, Call(h)
    PROVE  FoundersAreUsers'
<1>1. ASSUME NEW g \in Handlers, g # h, At(g, "insert_org")' \/ At(g, "insert_owner")'
      PROVE  op'[g].user \in Users
  BY <1>1, CallMovesItself DEF FoundersAreUsers, At
<1>2. ASSUME At(h, "insert_org")' \/ At(h, "insert_owner")'
      PROVE  op'[h].user \in Users
  <2>1. CASE Finish(h)
    BY <1>2, <2>1 DEF Finish, At, TypeOK
  <2>2. CASE InsertOrg(h)
    <3>1. CASE \E o \in OrgIds : op' = [op EXCEPT ![h].org = o, ![h].call = "insert_owner"]
      <4>1. op'[h].user = op[h].user
        BY <3>1, <2>2 DEF InsertOrg, At, TypeOK, Ops
      <4> QED
        BY <4>1, <2>2 DEF InsertOrg, FoundersAreUsers
    <3> QED
      BY <2>1, <2>2, <3>1 DEF InsertOrg
  <2>3. ASSUME NEW c \in Calls \ {"insert_org", "insert_owner"}, NEW d \in Calls,
               At(h, d), Goto(h, c)
        PROVE  FALSE
    BY <1>2, <2>3 DEF Goto, At, TypeOK, Ops
  <2>4. ASSUME NEW c \in Calls \ {"insert_org", "insert_owner"}, NEW d \in Calls,
               NEW o \in OrgIds, At(h, d), op' = [op EXCEPT ![h].org = o, ![h].call = c]
        PROVE  FALSE
    BY <1>2, <2>4 DEF At, TypeOK, Ops
  <2>5. CASE FindMemberOrg(h) \/ FindPackageOrg(h)
    BY <2>1, <2>4, <2>5
       DEF FindMemberOrg, FindPackageOrg, FindOrg, OrgNamed, Orgs, Calls
  <2>6. CASE CheckTokenOwner(h) \/ ClearOrg(h)
    BY <2>1, <2>3, <2>6 DEF CheckTokenOwner, ClearOrg, Calls
  <2> QED
    BY <2>1, <2>2, <2>5, <2>6
       DEF Call, InsertOwner, SetRole, UpsertMember, RemoveOrgMember, SetPackageOrgId,
           InsertToken, PublishVersion, DeleteOrgRow
<1> QED
  BY <1>1, <1>2 DEF FoundersAreUsers

\* Only the handler that inserts an organisation, and then its owner, matters to
\* that organisation's founder; a deletion takes the organisation itself away.
LEMMA CallsLeaveFounders ==
    ASSUME TypeOK, FoundersAreUsers, EverybodyIsHere, NewOrgHasFounder,
           NEW h \in Handlers, Call(h)
    PROVE  NewOrgHasFounder'
<1> SUFFICES ASSUME mishaps' = 0, NEW o \in Orgs' \ owned'
             PROVE  \E g \in Handlers : At(g, "insert_owner")' /\ op'[g].org = o
  BY DEF NewOrgHasFounder
<1>0. mishaps = 0 /\ accounts = Users
  BY CallMovesItself DEF EverybodyIsHere
<1>1. ASSUME o \in Orgs \ owned, ~(At(h, "insert_owner") /\ op[h].org = o)
      PROVE  \E g \in Handlers : At(g, "insert_owner")' /\ op'[g].org = o
  <2>1. PICK g \in Handlers : At(g, "insert_owner") /\ op[g].org = o
    BY <1>0, <1>1 DEF NewOrgHasFounder
  <2>2. g # h
    BY <2>1, <1>1
  <2> QED
    BY <2>1, <2>2, CallMovesItself DEF At
<1>2. CASE InsertOrg(h)
  <2>1. ~At(h, "insert_owner") /\ owned' = owned
    BY <1>2 DEF InsertOrg, At, Rest
  <2>2. CASE o \in Orgs
    BY <1>1, <2>1, <2>2
  <2>3. CASE o \notin Orgs
    <3>1. /\ o = NextOrg
          /\ op' = [op EXCEPT ![h].org = o, ![h].call = "insert_owner"]
      BY <1>2, <2>3 DEF InsertOrg, Orgs, TypeOK
    <3>2. op[h] \in Ops
      BY <1>2 DEF InsertOrg, At, TypeOK
    <3>3. op'[h] # NULL /\ op'[h].call = "insert_owner" /\ op'[h].org = o
      <4>1. op'[h] = [op[h] EXCEPT !.org = o, !.call = "insert_owner"]
        BY <3>1 DEF TypeOK
      <4>2. op'[h].call = "insert_owner" /\ op'[h].org = o
        BY <3>2, <4>1 DEF Ops
      <4>3. op'[h] # NULL
        <5>1. [op[h] EXCEPT !.org = o, !.call = "insert_owner"] \in Ops
          BY <3>1, <3>2 DEF Ops, Calls, Orgs
        <5> QED
          BY <4>1, <5>1, NullIsNoOp
      <4> QED
        BY <4>2, <4>3
    <3> QED
      BY <3>3 DEF At
  <2> QED
    BY <2>2, <2>3
<1>3. CASE InsertOwner(h)
  <2>1. o \in Orgs /\ o \notin owned
    BY <1>3 DEF InsertOwner, SetRole, Orgs
  <2>2. op[h].org # o
    BY <1>0, <1>3, <2>1 DEF InsertOwner, SetRole, FoundersAreUsers
  <2> QED
    BY <1>1, <2>1, <2>2
<1>4. CASE /\ ~At(h, "insert_owner") /\ owned \subseteq owned'
           /\ Orgs' \subseteq Orgs
  BY <1>1, <1>4
<1>5. CASE DeleteOrgRow(h)
  <2>1. Orgs' \subseteq Orgs /\ ~At(h, "insert_owner") /\ owned' = owned
    BY <1>5 DEF DeleteOrgRow, Orgs, At, Rest
  <2> QED
    BY <1>4, <2>1
<1>6. CASE UpsertMember(h)
  <2>1. Orgs' \subseteq Orgs /\ ~At(h, "insert_owner") /\ owned \subseteq owned'
    BY <1>6 DEF UpsertMember, SetRole, Orgs, At
  <2> QED
    BY <1>4, <2>1
<1>7. CASE orgName' = orgName /\ ~At(h, "insert_owner") /\ owned' = owned
  BY <1>4, <1>7 DEF Orgs
<1> QED
  BY <1>2, <1>3, <1>5, <1>6, <1>7
     DEF Call, FindMemberOrg, RemoveOrgMember, FindPackageOrg, SetPackageOrgId,
         CheckTokenOwner, InsertToken, ClearOrg, PublishVersion, At, tables, Rest

LEMMA FaultsLeaveFounders ==
    ASSUME TypeOK, FoundersAreUsers, EverybodyIsHere, NewOrgHasFounder, Fault
    PROVE  FoundersAreUsers' /\ EverybodyIsHere' /\ NewOrgHasFounder'
<1>1. ASSUME NEW u \in Users, DeleteAccount(u)
      PROVE  FoundersAreUsers' /\ EverybodyIsHere' /\ NewOrgHasFounder'
  BY <1>1 DEF DeleteAccount, FoundersAreUsers, EverybodyIsHere, NewOrgHasFounder, At
<1>2. ASSUME NEW t \in tokens, RevokeToken(t)
      PROVE  FoundersAreUsers' /\ EverybodyIsHere' /\ NewOrgHasFounder'
  BY <1>2 DEF RevokeToken, FoundersAreUsers, EverybodyIsHere, NewOrgHasFounder, At, Rest, Orgs
<1>3. ASSUME NEW h \in Handlers, Abort(h)
      PROVE  FoundersAreUsers' /\ EverybodyIsHere' /\ NewOrgHasFounder'
  BY <1>3 DEF Abort, Finish, TypeOK, FoundersAreUsers, EverybodyIsHere, NewOrgHasFounder, At, tables
<1> QED
  BY <1>1, <1>2, <1>3 DEF Fault

-----------------------------------------------------------------------------
(* Theorems. *)

LEMMA RequestsKeepInv ==
    ASSUME Inv, NEW h \in Handlers, Request(h)
    PROVE  Inv'
<1>1. PICK o \in Ops : /\ Begin(h, o)
                       /\ o.call # "insert_owner"
                       /\ o.call = "insert_org" => o.user \in Users
  BY RequestsBegin DEF Begun, Inv
<1>2. /\ op[h] = NULL /\ op' = [op EXCEPT ![h] = o]
      /\ UNCHANGED <<tables, owned, mishaps>>
  BY <1>1, RequestsBegin DEF Begin, Inv
<1>3. TypeOK'
  BY <1>2 DEF Inv, TypeOK, tables
<1>4. NothingRefersToTheGone' /\ IdsAreOld' /\ TokensKeepTheirOrg' /\ EverybodyIsHere'
  BY <1>2 DEF Inv, NothingRefersToTheGone, IdsAreOld, TokensKeepTheirOrg, EverybodyIsHere,
              tables, Orgs
<1>5. FoundersAreUsers'
  BY <1>1, <1>2 DEF Inv, TypeOK, FoundersAreUsers, At
<1>6. NewOrgHasFounder'
  <2>1. \A g \in Handlers : At(g, "insert_owner") =>
            At(g, "insert_owner")' /\ op'[g] = op[g]
    BY <1>2 DEF Inv, TypeOK, At
  <2> QED
    BY <1>2, <2>1 DEF Inv, NewOrgHasFounder, Orgs, tables
<1> QED
  BY <1>3, <1>4, <1>5, <1>6 DEF Inv

LEMMA NextInv == Inv /\ [Next]_vars => Inv'
<1> SUFFICES ASSUME Inv, [Next]_vars  PROVE Inv'
  OBVIOUS
<1>1. ASSUME NEW h \in Handlers, Call(h)  PROVE Inv'
  <2>1. EverybodyIsHere'
    BY <1>1, CallMovesItself DEF Inv, EverybodyIsHere
  <2> QED
    BY <1>1, <2>1, TypesOfCalls, CallsReferToNothingGone, CallsKeepBindings,
       CallsKeepFounders, CallsLeaveFounders DEF Inv
<1>2. CASE Fault
  BY <1>2, TypesOfFaults, FaultsReferToNothingGone, FaultsKeepBindings,
     FaultsLeaveFounders DEF Inv
<1>3. CASE UNCHANGED vars
  BY <1>3 DEF vars, tables, Inv, TypeOK, NothingRefersToTheGone, IdsAreOld,
     TokensKeepTheirOrg, FoundersAreUsers, EverybodyIsHere, NewOrgHasFounder, At, Orgs
<1> QED
  BY <1>1, <1>2, <1>3, RequestsKeepInv DEF Next, Fault

LEMMA Invariance == Spec => []Inv
BY InitInv, NextInv, PTL DEF Spec

\* Tables and handlers keep their types, for any users, names, handlers and number
\* of organisations.
THEOREM TypeCorrect == Spec => []TypeOK
<1>1. Inv => TypeOK
  BY DEF Inv
<1> QED
  BY <1>1, Invariance, PTL

\* Whatever handlers hold while organisations and accounts are deleted, no
\* membership, token, owner or package ever refers to one that is gone.
THEOREM NoReferenceToTheGone == Spec => []NothingRefersToTheGone
<1>1. Inv => NothingRefersToTheGone
  BY DEF Inv
<1> QED
  BY <1>1, Invariance, PTL

\* A token is bound to the organisation it was made for, or to none once that is
\* gone: never to a later one of the same name.  The ids of organisations are not
\* given out again, which is what the proof rests on.
THEOREM BindingsAreKept == Spec => []TokensKeepTheirOrg
<1>1. Inv => TokensKeepTheirOrg
  BY DEF Inv
<1> QED
  BY <1>1, Invariance, PTL

\* As long as nobody is deleted and no handler is dropped, an organisation that has
\* never had an owner has a handler left that is about to make one.
THEOREM NewOrgsGetFounders == Spec => []NewOrgHasFounder
<1>1. Inv => NewOrgHasFounder
  BY DEF Inv
<1> QED
  BY <1>1, Invariance, PTL

=============================================================================
