-------------------------- MODULE OwnershipProofs --------------------------
(***************************************************************************)
(* Proofs about module Ownership, for any names, requests, slots and       *)
(* bounds.                                                                 *)
(***************************************************************************)
EXTENDS Ownership, TLAPS

\* A request in service, field by field.
RequestOK(o) ==
    /\ o \in [kind : {"add", "remove"}, caller : Names, id : Ids,
              todo : {o.todo}, at : Calls, found : 0..MaxUid]
    /\ o.todo \in Seq(Names) \ {<<>>}

OpsOK == \A h \in Handlers : op[h] # NULL => RequestOK(op[h])

TablesOK ==
    /\ uid \in [Names -> 0..MaxUid]
    /\ owners \subseteq Ids
    /\ deletes \in 0..MaxDeletes

\* TypeOK says nothing of the domain of op.
OpInv == TypeOK /\ op = [h \in Handlers |-> op[h]]

LEMMA TypeParts == TypeOK <=> TablesOK /\ OpsOK
BY DEF TypeOK, TablesOK, OpsOK, RequestOK

\* The request in slot h is replaced; the others stay.
LEMMA SlotChanges ==
    ASSUME OpInv, NEW h \in Handlers, NEW o,
           op' = [op EXCEPT ![h] = o],
           o # NULL => RequestOK(o)
    PROVE  OpsOK' /\ op' = [g \in Handlers |-> op'[g]]
<1>1. \A g \in Handlers : op'[g] = IF g = h THEN o ELSE op[g]
  BY DEF OpInv
<1>2. OpsOK
  BY TypeParts DEF OpInv
<1>3. OpsOK'
  BY <1>1, <1>2 DEF OpsOK
<1>4. op' = [g \in Handlers |-> op'[g]]
  BY DEF OpInv
<1> QED
  BY <1>3, <1>4

LEMMA ReturnType ==
    ASSUME OpInv, NEW h \in Handlers, Return(h)
    PROVE  OpsOK' /\ op' = [g \in Handlers |-> op'[g]]
BY SlotChanges DEF Return

LEMMA GotoType ==
    ASSUME OpInv, NEW h \in Handlers, op[h] # NULL, NEW call \in Calls, Goto(h, call)
    PROVE  OpsOK' /\ op' = [g \in Handlers |-> op'[g]]
<1> DEFINE o == [op[h] EXCEPT !.at = call]
<1>1. RequestOK(op[h])
  BY TypeParts DEF OpInv, OpsOK
<1>2. RequestOK(o)
  BY <1>1 DEF RequestOK
<1>3. op' = [op EXCEPT ![h] = o]
  BY DEF Goto
<1> QED
  BY <1>2, <1>3, SlotChanges

LEMMA NextUserType ==
    ASSUME OpInv, NEW h \in Handlers, op[h] # NULL, NEW call \in Calls, NextUser(h, call)
    PROVE  OpsOK' /\ op' = [g \in Handlers |-> op'[g]]
<1> DEFINE o == [op[h] EXCEPT !.todo = Tail(op[h].todo), !.at = call]
<1>1. RequestOK(op[h])
  BY TypeParts DEF OpInv, OpsOK
<1>2. CASE Tail(op[h].todo) = <<>>
  BY <1>2, ReturnType DEF NextUser
<1>3. CASE Tail(op[h].todo) # <<>>
  <2>1. Tail(op[h].todo) \in Seq(Names)
    BY <1>1 DEF RequestOK
  <2>2. RequestOK(o)
    BY <1>1, <1>3, <2>1 DEF RequestOK
  <2>3. op' = [op EXCEPT ![h] = o]
    BY <1>3 DEF NextUser
  <2> QED
    BY <2>2, <2>3, SlotChanges
<1> QED
  BY <1>2, <1>3

-----------------------------------------------------------------------------
(* Types and accounts together: an insert is safe because its id is in use. *)

OwnerInv == OpInv /\ OwnersHaveAccounts

LEMMA OwnerInit == Init => OwnerInv
<1> SUFFICES ASSUME Init PROVE OwnerInv
  OBVIOUS
<1>1. PICK n \in UserRows : owners = {uid[n]}
  BY DEF Init
<1>2. uid[n] \in Ids /\ uid[n] \in IdsInUse
  BY <1>1, OwnershipAssumption DEF Init, UserRows, Ids, IdsInUse
<1>3. OpInv
  <2>1. \A h \in Handlers : op[h] = NULL
    BY DEF Init
  <2>2. op = [h \in Handlers |-> op[h]]
    BY DEF Init
  <2>3. uid \in [Names -> 0..MaxUid] /\ owners \subseteq Ids
    BY <1>1, <1>2 DEF Init
  <2>4. deletes \in 0..MaxDeletes
    BY OwnershipAssumption DEF Init
  <2>5. TypeOK
    BY <2>1, <2>3, <2>4 DEF TypeOK
  <2> QED
    BY <2>2, <2>5 DEF OpInv
<1>4. OwnersHaveAccounts
  BY <1>1, <1>2 DEF Init, OwnersHaveAccounts
<1> QED
  BY <1>3, <1>4 DEF OwnerInv

\* Reading calls change nothing but their own request.
LEMMA ReaderStep ==
    ASSUME OwnerInv, UNCHANGED <<uid, owners, deletes>>,
           OpsOK' /\ op' = [g \in Handlers |-> op'[g]]
    PROVE  OwnerInv'
<1>1. TablesOK'
  BY TypeParts DEF OwnerInv, OpInv, TablesOK
<1>2. OwnersHaveAccounts'
  BY DEF OwnerInv, OwnersHaveAccounts, IdsInUse, UserRows
<1>3. TypeOK'
  BY <1>1, TypeParts DEF TypeOK, TablesOK, OpsOK, RequestOK
<1> QED
  BY <1>2, <1>3 DEF OwnerInv, OpInv

LEMMA OwnerStep == OwnerInv /\ [Next]_vars => OwnerInv'
<1> SUFFICES ASSUME OwnerInv, [Next]_vars PROVE OwnerInv'
  OBVIOUS
<1>0. /\ OpInv /\ TablesOK /\ OpsOK /\ OwnersHaveAccounts
      /\ {"user_owns_package", "find_user", "insert_owner", "get_package_owners",
          "delete_owner"} = Calls
      /\ \A m \in UserRows : uid[m] \in Ids
      /\ MaxUid \in Nat /\ MaxDeletes \in Nat
  BY TypeParts, OwnershipAssumption DEF OwnerInv, OpInv, TablesOK, UserRows, Ids, Calls
<1>1. ASSUME NEW h \in Handlers, Receive(h) PROVE OwnerInv'
  <2>1. PICK n \in UserRows, kind \in {"add", "remove"}, body \in Bodies :
          op' = [op EXCEPT ![h] =
                   [kind |-> kind, caller |-> n, id |-> uid[n], todo |-> body,
                    at |-> "user_owns_package", found |-> 0]]
    BY <1>1 DEF Receive
  <2> DEFINE o == [kind |-> kind, caller |-> n, id |-> uid[n], todo |-> body,
                   at |-> "user_owns_package", found |-> 0]
  <2>2. body \in Seq(Names) \ {<<>>}
    BY OwnershipAssumption
  <2>3. n \in Names /\ uid[n] \in Ids /\ 0 \in 0..MaxUid
    BY <1>0 DEF UserRows
  <2>4. RequestOK(o)
    BY <1>0, <2>2, <2>3 DEF RequestOK
  <2>5. OpsOK' /\ op' = [g \in Handlers |-> op'[g]]
    BY <1>0, <2>1, <2>4, SlotChanges
  <2> QED
    BY <1>1, <2>5, ReaderStep DEF Receive
<1>2. ASSUME NEW h \in Handlers, RequireOwner(h) \/ GetPackageOwners(h) PROVE OwnerInv'
  <2>1. op[h] # NULL /\ (Return(h) \/ \E call \in Calls : Goto(h, call))
    BY <1>0, <1>2 DEF RequireOwner, GetPackageOwners, At
  <2>2. OpsOK' /\ op' = [g \in Handlers |-> op'[g]]
    BY <1>0, <2>1, ReturnType, GotoType
  <2> QED
    BY <1>2, <2>2, ReaderStep DEF RequireOwner, GetPackageOwners
<1>3. ASSUME NEW h \in Handlers, FindUser(h) PROVE OwnerInv'
  <2> DEFINE n == Head(op[h].todo)
             o == [op[h] EXCEPT !.found = uid[n], !.at = "insert_owner"]
  <2>1. op[h] # NULL /\ RequestOK(op[h])
    BY <1>0, <1>3 DEF FindUser, At, OpsOK
  <2>2. CASE n \notin UserRows /\ NextUser(h, "find_user")
    <3>1. OpsOK' /\ op' = [g \in Handlers |-> op'[g]]
      BY <1>0, <2>1, <2>2, NextUserType
    <3> QED
      BY <1>3, <3>1, ReaderStep DEF FindUser
  <2>3. CASE n \in UserRows /\ op' = [op EXCEPT ![h].found = uid[n], ![h].at = "insert_owner"]
    <3>1. uid[n] \in 0..MaxUid
      BY <1>0, <2>3 DEF TablesOK, UserRows
    <3>2. RequestOK(o)
      BY <1>0, <2>1, <3>1 DEF RequestOK
    <3>3. op' = [op EXCEPT ![h] = o]
      BY <1>0, <2>3 DEF OpInv
    <3>4. OpsOK' /\ op' = [g \in Handlers |-> op'[g]]
      BY <1>0, <3>2, <3>3, SlotChanges
    <3> QED
      BY <1>3, <3>4, ReaderStep DEF FindUser
  <2> QED
    BY <1>3, <2>2, <2>3 DEF FindUser
<1>4. ASSUME NEW h \in Handlers, InsertOwner(h) PROVE OwnerInv'
  <2>1. op[h] # NULL /\ UNCHANGED <<uid, deletes>>
    BY <1>4 DEF InsertOwner, At
  <2>2. CASE op[h].found \notin IdsInUse /\ Return(h) /\ UNCHANGED owners
    <3>1. OpsOK' /\ op' = [g \in Handlers |-> op'[g]]
      BY <1>0, <2>2, ReturnType
    <3> QED
      BY <2>1, <2>2, <3>1, ReaderStep
  <2>3. CASE /\ op[h].found \in IdsInUse /\ NextUser(h, "find_user")
             /\ owners' = owners \cup {op[h].found}
    <3>1. OpsOK' /\ op' = [g \in Handlers |-> op'[g]]
      BY <1>0, <2>1, <2>3, NextUserType
    <3>2. op[h].found \in Ids
      BY <1>0, <2>3 DEF IdsInUse
    <3>3. TablesOK'
      BY <1>0, <2>1, <2>3, <3>2 DEF TablesOK
    <3>4. TypeOK'
      BY <3>1, <3>3 DEF TypeOK, TablesOK, OpsOK, RequestOK
    <3>5. OwnersHaveAccounts'
      BY <1>0, <2>1, <2>3 DEF OwnersHaveAccounts, IdsInUse, UserRows
    <3> QED
      BY <3>1, <3>4, <3>5 DEF OwnerInv, OpInv
  <2> QED
    BY <1>4, <2>2, <2>3 DEF InsertOwner
<1>5. ASSUME NEW h \in Handlers, DeleteOwner(h) PROVE OwnerInv'
  <2>1. /\ op[h] # NULL /\ UNCHANGED <<uid, deletes>>
        /\ owners' \subseteq owners /\ NextUser(h, "delete_owner")
    BY <1>5 DEF DeleteOwner, At
  <2>2. OpsOK' /\ op' = [g \in Handlers |-> op'[g]]
    BY <1>0, <2>1, NextUserType
  <2>3. TablesOK'
    BY <1>0, <2>1 DEF TablesOK
  <2>4. TypeOK'
    BY <2>2, <2>3 DEF TypeOK, TablesOK, OpsOK, RequestOK
  <2>5. OwnersHaveAccounts'
    BY <1>0, <2>1 DEF OwnersHaveAccounts, IdsInUse, UserRows
  <2> QED
    BY <2>2, <2>4, <2>5 DEF OwnerInv, OpInv
<1>6. ASSUME NEW n \in Names, DeleteUser(n) PROVE OwnerInv'
  <2>1. /\ deletes < MaxDeletes /\ deletes' = deletes + 1
        /\ uid[n] # 0
        /\ uid' = [uid EXCEPT ![n] = 0]
        /\ owners' = owners \ {uid[n]}
        /\ UNCHANGED op
    BY <1>6 DEF DeleteUser
  <2>2. /\ uid' \in [Names -> 0..MaxUid]
        /\ uid'[n] = 0 /\ \A m \in Names : m # n => uid'[m] = uid[m]
    BY <1>0, <2>1 DEF TablesOK
  <2>3. TablesOK'
    BY <1>0, <2>1, <2>2 DEF TablesOK
  <2>4. OpsOK'
    BY <1>0, <2>1 DEF OpsOK
  <2>5. TypeOK'
    BY <2>3, <2>4 DEF TypeOK, TablesOK, OpsOK, RequestOK
  <2>6. OwnersHaveAccounts'
    <3>1. ASSUME NEW i \in owners' PROVE i \in IdsInUse'
      <4>1. PICK m \in UserRows : i = uid[m]
        BY <1>0, <2>1 DEF OwnersHaveAccounts, IdsInUse
      <4>2. m # n /\ m \in Names
        BY <2>1, <4>1 DEF UserRows
      <4> QED
        BY <2>2, <4>1, <4>2 DEF IdsInUse, UserRows
    <3>2. \A l, m \in UserRows' : uid'[l] = uid'[m] => l = m
      BY <1>0, <2>2 DEF OwnersHaveAccounts, UserRows
    <3> QED
      BY <3>1, <3>2 DEF OwnersHaveAccounts
  <2> QED
    BY <1>0, <2>1, <2>5, <2>6 DEF OwnerInv, OpInv
<1>7. ASSUME NEW n \in Names, Register(n) PROVE OwnerInv'
  <2>1. PICK i \in Ids : /\ \A j \in IdsInUse : j < i
                         /\ uid' = [uid EXCEPT ![n] = i]
    BY <1>7 DEF Register
  <2>2. uid[n] = 0 /\ UNCHANGED <<owners, op, deletes>> /\ i # 0 /\ i \in 0..MaxUid
    BY <1>0, <1>7 DEF Register, Ids
  <2>3. /\ uid' \in [Names -> 0..MaxUid]
        /\ uid'[n] = i /\ \A m \in Names : m # n => uid'[m] = uid[m]
    BY <1>0, <2>1, <2>2 DEF TablesOK
  <2>4. TablesOK'
    BY <1>0, <2>2, <2>3 DEF TablesOK
  <2>5. OpsOK'
    BY <1>0, <2>2 DEF OpsOK
  <2>6. TypeOK'
    BY <2>4, <2>5 DEF TypeOK, TablesOK, OpsOK, RequestOK
  <2>7. UserRows' = UserRows \cup {n} /\ n \notin UserRows /\ \A m \in UserRows : uid'[m] = uid[m]
    BY <2>2, <2>3 DEF UserRows
  <2>8. \A m \in UserRows : uid[m] # i
    BY <1>0, <2>1 DEF IdsInUse, Ids
  <2>9. OwnersHaveAccounts'
    <3>1. owners' \subseteq IdsInUse'
      BY <1>0, <2>2, <2>7 DEF OwnersHaveAccounts, IdsInUse
    <3>2. \A l, m \in UserRows' : uid'[l] = uid'[m] => l = m
      BY <1>0, <2>3, <2>7, <2>8 DEF OwnersHaveAccounts
    <3> QED
      BY <3>1, <3>2 DEF OwnersHaveAccounts
  <2> QED
    BY <1>0, <2>2, <2>6, <2>9 DEF OwnerInv, OpInv
<1>8. CASE UNCHANGED vars
  <2>1. OpsOK' /\ op' = [g \in Handlers |-> op'[g]]
    BY <1>0, <1>8 DEF vars, OpsOK, OpInv
  <2> QED
    BY <1>8, <2>1, ReaderStep DEF vars
<1> QED
  BY <1>1, <1>2, <1>3, <1>4, <1>5, <1>6, <1>7, <1>8 DEF Next, HandlerStep

\* The tables and the requests keep their types; a request never runs past the
\* end of its list.
THEOREM OwnershipTypes == Spec => []TypeOK
<1>1. OwnerInv => TypeOK
  BY DEF OwnerInv, OpInv
<1> QED
  BY <1>1, OwnerInit, OwnerStep, PTL DEF Spec

\* Whatever accounts are deleted and registered while requests run, every owner
\* of the package is an account that exists, and accounts do not share ids.
THEOREM OwnersAreAccounts == Spec => []OwnersHaveAccounts
<1>1. OwnerInv => OwnersHaveAccounts
  BY DEF OwnerInv
<1> QED
  BY <1>1, OwnerInit, OwnerStep, PTL DEF Spec

\* A step of one request to the end of it, or to its next deletion, leaves an
\* ownerless package ownerless.
LEMMA StaysOwnerless ==
    ASSUME OpInv, Ownerless, owners' = {}, NEW h \in Handlers,
           \/ Return(h)
           \/ Goto(h, "delete_owner") /\ op[h] # NULL
           \/ /\ op' = [op EXCEPT ![h] = [op[h] EXCEPT !.todo = Tail(op[h].todo),
                                                      !.at = "delete_owner"]]
              /\ op[h] # NULL
    PROVE  Ownerless'
<1>1. op[h] # NULL => RequestOK(op[h])
  BY TypeParts DEF OpInv, OpsOK
<1>2. PICK o : op' = [op EXCEPT ![h] = o] /\ (o = NULL \/ o.at = "delete_owner")
  <2>1. CASE Return(h)
    BY <2>1 DEF Return
  <2>2. CASE Goto(h, "delete_owner") /\ op[h] # NULL
    <3>1. op' = [op EXCEPT ![h] = [op[h] EXCEPT !.at = "delete_owner"]]
      BY <2>2 DEF Goto
    <3>2. [op[h] EXCEPT !.at = "delete_owner"].at = "delete_owner"
      BY <1>1, <2>2 DEF RequestOK
    <3> QED
      BY <3>1, <3>2
  <2>3. CASE /\ op' = [op EXCEPT ![h] = [op[h] EXCEPT !.todo = Tail(op[h].todo),
                                                     !.at = "delete_owner"]]
             /\ op[h] # NULL
    <3>1. [op[h] EXCEPT !.todo = Tail(op[h].todo), !.at = "delete_owner"].at
            = "delete_owner"
      BY <1>1, <2>3 DEF RequestOK
    <3> QED
      BY <2>3, <3>1
  <2> QED
    BY <2>1, <2>2, <2>3
<1>3. \A g \in Handlers : op'[g] = IF g = h THEN o ELSE op[g]
  BY <1>2 DEF OpInv
<1> QED
  BY <1>2, <1>3 DEF Ownerless, At

\* A package that lost its last owner never gets another one, once no request
\* that had passed the owner check is left.
THEOREM OwnerlessIsFinal == Spec => OwnerlessForGood
<1>1. ASSUME OwnerInv, [Next]_vars PROVE [Ownerless => Ownerless']_vars
  <2> SUFFICES ASSUME Ownerless PROVE Ownerless'
    OBVIOUS
  <2>0. OpInv
    BY <1>1 DEF OwnerInv
  <2>1. ASSUME NEW h \in Handlers, Receive(h) PROVE Ownerless'
    BY <2>0, <2>1 DEF Receive, Ownerless, At, OpInv
  <2>2. ASSUME NEW h \in Handlers, RequireOwner(h) PROVE Ownerless'
    BY <2>0, <2>2 DEF RequireOwner, Return, Ownerless, At, OpInv
  <2>3. ASSUME NEW h \in Handlers, FindUser(h) \/ InsertOwner(h) PROVE FALSE
    BY <2>3 DEF FindUser, InsertOwner, Ownerless
  <2>4. ASSUME NEW h \in Handlers, GetPackageOwners(h) PROVE Ownerless'
    <3>1. /\ owners' = {} /\ op[h] # NULL
          /\ Return(h) \/ Goto(h, "delete_owner")
      BY <2>4 DEF GetPackageOwners, Ownerless, At
    <3> QED
      BY <3>1, StaysOwnerless, <2>0
  <2>5. ASSUME NEW h \in Handlers, DeleteOwner(h) PROVE Ownerless'
    <3>1. owners' = {} /\ op[h] # NULL
      BY <2>5 DEF DeleteOwner, Ownerless, At
    <3>2. \/ Return(h)
          \/ op' = [op EXCEPT ![h] = [op[h] EXCEPT !.todo = Tail(op[h].todo),
                                                 !.at = "delete_owner"]]
      BY <2>5 DEF DeleteOwner, NextUser
    <3> QED
      BY <3>1, <3>2, <2>0, StaysOwnerless
  <2>6. ASSUME NEW n \in Names, DeleteUser(n) \/ Register(n) PROVE Ownerless'
    BY <2>6 DEF DeleteUser, Register, Ownerless, At
  <2>7. CASE UNCHANGED vars
    BY <2>7 DEF vars, Ownerless, At
  <2> QED
    BY <1>1, <2>1, <2>2, <2>3, <2>4, <2>5, <2>6, <2>7 DEF Next, HandlerStep
<1> QED
  BY <1>1, OwnerInit, OwnerStep, PTL DEF Spec, OwnerlessForGood
=============================================================================
