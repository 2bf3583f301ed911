--------------------------- MODULE AccountsProofs ---------------------------
(***************************************************************************)
(* What module Accounts guarantees for any people, handlers and bounds:    *)
(* first where ids are not given out again, as on Postgres, then on either *)
(* database.                                                               *)
(***************************************************************************)
EXTENDS Accounts, FiniteSetTheorems, TLAPS

LEMMA Bounds ==
    /\ MaxUid \in Nat /\ MaxMails \in Nat /\ MaxMishaps \in Nat
    /\ Registrants \subseteq People /\ Mailed \subseteq People
    /\ NULL \notin People /\ OAuth \notin People /\ NULL \notin Users
BY AccountsAssumption, NullIsNoRow

-----------------------------------------------------------------------------
(* What a handler may have left to do.  The families differ in what the    *)
(* handler's fields must say of its account.                               *)

MailPlans ==
    {<<"create_token", "delete_old", "insert_token">>,
     <<"delete_old", "insert_token">>, <<"insert_token">>}

DeletePlans ==
    {<<"delete_token", "set_password">>, <<"delete_token", "set_email_verified">>}

VerifyPlan == <<"set_email_verified">>
PasswordPlan == <<"set_password">>
LinkPlans == DeletePlans \cup {VerifyPlan, PasswordPlan}

LookupPlan == <<"user_by_email">>
CreatePlan == <<"create_user", "set_email_verified", "link", "get_user", "create_token">>
AddressPlans == {LookupPlan, CreatePlan}

VouchedPlan == <<"set_email_verified", "link", "get_user", "create_token">>

NamelessPlan == <<"create_user", "link", "get_user", "create_token">>

OtherPlans ==
    {<<"create_token">>, <<"verify_password", "set_password">>, NamelessPlan,
     <<"link", "get_user", "create_token">>, <<"get_user", "create_token">>,
     <<"link", "create_token">>}

Plans == MailPlans \cup LinkPlans \cup AddressPlans \cup {VouchedPlan} \cup OtherPlans

LEMMA PlansAreCalls == Plans \subseteq Seq(Calls)
BY DEF Plans, MailPlans, LinkPlans, DeletePlans, AddressPlans, VouchedPlan, OtherPlans,
       VerifyPlan, PasswordPlan, LookupPlan, CreatePlan, NamelessPlan, Calls

\* What is left after the first call of each plan.
LEMMA MailTails ==
    /\ Tail(<<"create_token", "delete_old", "insert_token">>) =
         <<"delete_old", "insert_token">>
    /\ Tail(<<"delete_old", "insert_token">>) = <<"insert_token">>
    /\ Tail(<<"insert_token">>) = <<>>
OBVIOUS

LEMMA LinkTails ==
    /\ Tail(<<"delete_token", "set_password">>) = PasswordPlan
    /\ Tail(<<"delete_token", "set_email_verified">>) = VerifyPlan
    /\ Tail(VerifyPlan) = <<>> /\ Tail(PasswordPlan) = <<>>
BY DEF VerifyPlan, PasswordPlan

LEMMA CreateTails ==
    /\ Tail(CreatePlan) = VouchedPlan
    /\ Tail(VouchedPlan) = <<"link", "get_user", "create_token">>
    /\ Tail(NamelessPlan) = <<"link", "get_user", "create_token">>
<1>1. Tail(CreatePlan) = VouchedPlan
  BY DEF CreatePlan, VouchedPlan
<1>2. Tail(VouchedPlan) = <<"link", "get_user", "create_token">>
  BY DEF VouchedPlan
<1>3. Tail(NamelessPlan) = <<"link", "get_user", "create_token">>
  BY DEF NamelessPlan
<1> QED
  BY <1>1, <1>2, <1>3

LEMMA OtherTails ==
    /\ Tail(<<"link", "get_user", "create_token">>) = <<"get_user", "create_token">>
    /\ Tail(<<"get_user", "create_token">>) = <<"create_token">>
    /\ Tail(<<"link", "create_token">>) = <<"create_token">>
    /\ Tail(<<"create_token">>) = <<>>
    /\ Tail(<<"verify_password", "set_password">>) = PasswordPlan
BY DEF PasswordPlan

\* Which calls each family begins with, and in which family they leave it.
LEMMA MailSteps ==
    ASSUME NEW t \in MailPlans
    PROVE  /\ t # <<>> /\ Head(t) \in {"create_token", "delete_old", "insert_token"}
           /\ Tail(t) # <<>> => Tail(t) \in MailPlans
           /\ t \notin LinkPlans \cup AddressPlans \cup {VouchedPlan} \cup OtherPlans
<1>1. t # <<>> /\ Head(t) \in {"create_token", "delete_old", "insert_token"}
  BY DEF MailPlans
<1>2. Tail(t) # <<>> => Tail(t) \in MailPlans
  BY MailTails DEF MailPlans
<1>3. t \notin LinkPlans \cup AddressPlans \cup {VouchedPlan}
  BY DEF MailPlans, LinkPlans, DeletePlans, AddressPlans, VouchedPlan, VerifyPlan,
         PasswordPlan, LookupPlan, CreatePlan
<1>4. t \notin OtherPlans
  BY DEF MailPlans, OtherPlans, NamelessPlan
<1> QED
  BY <1>1, <1>2, <1>3, <1>4

LEMMA DeleteSteps ==
    ASSUME NEW t \in DeletePlans
    PROVE  /\ t # <<>> /\ Head(t) = "delete_token"
           /\ Tail(t) \in {PasswordPlan, VerifyPlan} /\ Tail(t) # <<>>
           /\ t \notin AddressPlans \cup {VouchedPlan, VerifyPlan} \cup OtherPlans
<1>1. t # <<>> /\ Head(t) = "delete_token"
  BY DEF DeletePlans
<1>2. Tail(t) \in {PasswordPlan, VerifyPlan}
  BY LinkTails DEF DeletePlans
<1>3. PasswordPlan # <<>> /\ VerifyPlan # <<>>
  BY DEF PasswordPlan, VerifyPlan
<1>4. t \notin AddressPlans \cup {VouchedPlan, VerifyPlan} \cup OtherPlans
  BY DEF DeletePlans, AddressPlans, VouchedPlan, OtherPlans, VerifyPlan, LookupPlan,
         CreatePlan, NamelessPlan
<1> QED
  BY <1>1, <1>2, <1>3, <1>4

LEMMA SingleSteps ==
    /\ VerifyPlan # <<>> /\ Head(VerifyPlan) = "set_email_verified"
    /\ Tail(VerifyPlan) = <<>>
    /\ PasswordPlan # <<>> /\ Head(PasswordPlan) = "set_password"
    /\ Tail(PasswordPlan) = <<>>
    /\ LookupPlan # <<>> /\ Head(LookupPlan) = "user_by_email"
    /\ {VerifyPlan, PasswordPlan} \cap
         (DeletePlans \cup AddressPlans \cup {VouchedPlan} \cup OtherPlans) = {}
    /\ VerifyPlan # PasswordPlan
BY LinkTails DEF DeletePlans, AddressPlans, VouchedPlan, OtherPlans,
       VerifyPlan, PasswordPlan, LookupPlan, CreatePlan, NamelessPlan

LEMMA VouchedSteps ==
    /\ CreatePlan # <<>> /\ Head(CreatePlan) = "create_user"
    /\ Tail(CreatePlan) = VouchedPlan
    /\ VouchedPlan # <<>> /\ Head(VouchedPlan) = "set_email_verified"
    /\ Tail(VouchedPlan) \in OtherPlans /\ Tail(VouchedPlan) # <<>>
    /\ NamelessPlan \in OtherPlans
    /\ VouchedPlan \notin OtherPlans \cup AddressPlans
BY CreateTails DEF AddressPlans, VouchedPlan, OtherPlans, LookupPlan, CreatePlan, NamelessPlan

LEMMA OtherSteps ==
    ASSUME NEW t \in OtherPlans
    PROVE  /\ t # <<>>
           /\ Head(t) \in {"create_token", "verify_password", "create_user", "link",
                           "get_user"}
           /\ Tail(t) # <<>> => Tail(t) \in OtherPlans \cup {PasswordPlan}
           /\ t \notin AddressPlans
<1>1. t # <<>> /\ Head(t) \in {"create_token", "verify_password", "create_user", "link",
                               "get_user"}
  BY DEF OtherPlans, NamelessPlan
<1>2. Tail(t) # <<>> => Tail(t) \in OtherPlans \cup {PasswordPlan}
  BY OtherTails, CreateTails DEF OtherPlans
<1>3. t \notin AddressPlans
  BY DEF OtherPlans, NamelessPlan, AddressPlans, LookupPlan, CreatePlan
<1> QED
  BY <1>1, <1>2, <1>3

-----------------------------------------------------------------------------
(* The invariant.  A handler remembers ids, an address and a token; while  *)
(* the account it remembers is there, they fit its row.                    *)

IsLive(u, us) == u \in Uids /\ us[u] # NULL

\* How a handler fits the rows, the largest id, the mails sent and the links.
Fits(o, us, last, out, rows) ==
    /\ o.todo \in Plans
    /\ o.uid <= last
    /\ IsLive(o.uid, us) => o.who \in {us[o.uid].by, us[o.uid].email}
    /\ IsLive(o.uid, us) /\ o.todo \in MailPlans => o.email = us[o.uid].email
    /\ o.todo \in AddressPlans => o.email = o.who
    /\ IsLive(o.uid, us) /\ o.todo = VouchedPlan => us[o.uid].by = us[o.uid].email
    /\ o.todo \in DeletePlans \cup {VerifyPlan} => o.token # 0
    /\ o.token # 0 =>
         /\ o.todo \in LinkPlans /\ o.token \in 1..Len(out)
         /\ IsLive(o.uid, us) => out[o.token] = us[o.uid].email
         /\ \A m \in rows : m.token = o.token => m.id = o.row /\ o.todo \in DeletePlans

OpsFit ==
    /\ op \in [Handlers -> Ops \cup {NULL}]
    /\ \A h \in Handlers : op[h] # NULL => op[h] \in Ops /\ Fits(op[h], users, top, sent, mails)

RowsOK ==
    /\ users \in [Uids -> Users \cup {NULL}]
    /\ top \in 0..MaxUid
    /\ \A u \in Live : u <= top
    /\ links \in [People -> Live \cup {0}]
    /\ sessions \subseteq Live \X People

\* A link's token is the one row's that has it, and went to its account's address.
MailsOK ==
    /\ sent \in Seq(People \cup {NULL})
    /\ mails \subseteq MailRows
    /\ \A m \in mails :
         m.uid \in Live /\ m.token \in 1..Len(sent) /\ sent[m.token] = users[m.uid].email
    /\ \A m, n \in mails : m.token = n.token => m = n
    /\ used \subseteq 1..Len(sent)

Safe == OnlyItsPeopleGetIn /\ AddressesAreProven /\ SpentLinksAreDead

AccountsInv == RowsOK /\ MailsOK /\ OpsFit /\ Safe

LEMMA AccountsInit == Init => AccountsInv
<1> SUFFICES ASSUME Init PROVE AccountsInv
  OBVIOUS
<1>1. Live = {}
  BY DEF Init, Live
<1>2. RowsOK
  BY <1>1, Bounds DEF Init, RowsOK, Uids
<1>3. MailsOK
  BY DEF Init, MailsOK
<1>4. OpsFit
  BY DEF Init, OpsFit
<1>5. Safe
  BY <1>1 DEF Init, Safe, OnlyItsPeopleGetIn, AddressesAreProven, SpentLinksAreDead
<1> QED
  BY <1>2, <1>3, <1>4, <1>5 DEF AccountsInv

-----------------------------------------------------------------------------
(* One slot changes, and no account becomes another's.                     *)

\* Accounts keep their address and creator, ids and tokens are not given out again.
Keeps ==
    /\ \A u \in Uids :
         u <= top /\ users'[u] # NULL =>
            users[u] # NULL /\ users'[u].by = users[u].by /\ users'[u].email = users[u].email
    /\ top <= top'
    /\ Len(sent) \in Nat /\ Len(sent') \in Nat /\ Len(sent) <= Len(sent')
    /\ \A t \in 1..Len(sent) : sent'[t] = sent[t]
    /\ \A m \in mails' : m \in mails \/ m.token \notin 1..Len(sent)

LEMMA KeepsFitting ==
    ASSUME NEW o \in Ops, Fits(o, users, top, sent, mails), Keeps,
           top \in Nat, top' \in Nat
    PROVE  Fits(o, users', top', sent', mails')
<1>1. o.uid \in Nat /\ o.token \in Nat
  BY Bounds DEF Ops
<1>2. o.todo \in Plans /\ o.uid <= top'
  BY <1>1 DEF Fits, Keeps
<1>3. IsLive(o.uid, users') =>
        /\ IsLive(o.uid, users)
        /\ users'[o.uid].by = users[o.uid].by /\ users'[o.uid].email = users[o.uid].email
  BY <1>1 DEF Fits, Keeps, IsLive
<1>4. o.token # 0 =>
         /\ o.todo \in LinkPlans /\ o.token \in 1..Len(sent')
         /\ IsLive(o.uid, users') => sent'[o.token] = users'[o.uid].email
         /\ \A m \in mails' : m.token = o.token => m.id = o.row /\ o.todo \in DeletePlans
  BY <1>1, <1>3 DEF Fits, Keeps
<1> QED
  BY <1>2, <1>3, <1>4 DEF Fits

LEMMA SlotSet ==
    ASSUME OpsFit, Keeps, top \in Nat, top' \in Nat,
           NEW h \in Handlers, NEW o, op' = [op EXCEPT ![h] = o],
           o = NULL \/ (o \in Ops /\ Fits(o, users', top', sent', mails'))
    PROVE  OpsFit'
<1>1. op' \in [Handlers -> Ops \cup {NULL}]
  BY DEF OpsFit
<1>2. ASSUME NEW g \in Handlers, op'[g] # NULL
      PROVE  op'[g] \in Ops /\ Fits(op'[g], users', top', sent', mails')
  <2>1. CASE g = h
    BY <1>2, <2>1 DEF OpsFit
  <2>2. CASE g # h
    <3>1. op'[g] = op[g]
      BY <2>2 DEF OpsFit
    <3>2. op[g] \in Ops /\ Fits(op[g], users, top, sent, mails)
      BY <1>2, <3>1 DEF OpsFit
    <3>3. Fits(op[g], users', top', sent', mails')
      BY <3>2, KeepsFitting
    <3> QED
      BY <3>1, <3>2, <3>3
  <2> QED
    BY <2>1, <2>2
<1> QED
  BY <1>1, <1>2 DEF OpsFit

LEMMA NothingWritten ==
    ASSUME AccountsInv, UNCHANGED <<tables, used>>, OpsFit'
    PROVE  AccountsInv'
<1>1. users' = users /\ top' = top /\ links' = links /\ sessions' = sessions
      /\ mails' = mails /\ sent' = sent /\ used' = used
  BY DEF tables
<1>2. Live' = Live
  BY <1>1 DEF Live
<1>3. RowsOK' /\ MailsOK'
  BY <1>1, <1>2 DEF AccountsInv, RowsOK, MailsOK
<1>4. Safe'
  BY <1>1, <1>2 DEF AccountsInv, Safe, OnlyItsPeopleGetIn, PeopleOf, AddressesAreProven,
                    SpentLinksAreDead
<1> QED
  BY <1>3, <1>4 DEF AccountsInv

LEMMA KeepsUnwritten ==
    ASSUME AccountsInv, UNCHANGED tables
    PROVE  Keeps /\ top \in Nat /\ top' \in Nat
BY Bounds DEF AccountsInv, RowsOK, MailsOK, tables, Keeps

\* A handler that only reads keeps the invariant if what it remembers fits.
LEMMA OnlyReads ==
    ASSUME AccountsInv, UNCHANGED <<tables, used>>, NEW h \in Handlers, NEW o,
           op' = [op EXCEPT ![h] = o],
           o = NULL \/ (o \in Ops /\ Fits(o, users, top, sent, mails))
    PROVE  AccountsInv'
<1>1. OpsFit'
  BY KeepsUnwritten, SlotSet DEF AccountsInv, tables
<1> QED
  BY <1>1, NothingWritten

\* One call on: what is remembered still fits what is left to do.
LEMMA NextCallFits ==
    ASSUME NEW o \in Ops, NEW us, NEW last, NEW out, NEW rows,
           Fits(o, us, last, out, rows), Tail(o.todo) # <<>>,
           Head(o.todo) \notin {"delete_token", "create_user", "user_by_email"}
    PROVE  /\ [o EXCEPT !.todo = Tail(o.todo)] \in Ops
           /\ Fits([o EXCEPT !.todo = Tail(o.todo)], us, last, out, rows)
<1> DEFINE n == [o EXCEPT !.todo = Tail(o.todo)]
<1>1. o.todo \in MailPlans \cup {VouchedPlan} \cup OtherPlans
  BY DeleteSteps, SingleSteps, VouchedSteps DEF Fits, Plans, LinkPlans, AddressPlans
<1>2. Tail(o.todo) \in MailPlans \cup OtherPlans \cup {PasswordPlan}
  BY <1>1, MailSteps, OtherSteps, VouchedSteps
<1>3. Tail(o.todo) \in MailPlans => o.todo \in MailPlans
  BY <1>1, MailSteps, SingleSteps, VouchedSteps, OtherSteps DEF LinkPlans
<1>4. Tail(o.todo) \in Plans \ (AddressPlans \cup {VouchedPlan, VerifyPlan} \cup DeletePlans)
  BY <1>2, MailSteps, OtherSteps, SingleSteps, VouchedSteps, DeleteSteps
     DEF Plans, LinkPlans
<1>5. o.token = 0
  BY <1>1, MailSteps, OtherSteps, SingleSteps, VouchedSteps, DeleteSteps
     DEF Fits, LinkPlans
<1>6. n \in Ops /\ n.todo = Tail(o.todo) /\ n.uid = o.uid /\ n.who = o.who
      /\ n.email = o.email /\ n.token = 0
  BY <1>4, <1>5, PlansAreCalls DEF Ops
<1> HIDE DEF n
<1>7. Fits(n, us, last, out, rows)
  BY <1>3, <1>4, <1>6 DEF Fits
<1> QED
  BY <1>6, <1>7 DEF n

\* Without a token, most of what is left to do only asks whose the account is.
LEMMA OtherFits ==
    ASSUME NEW o, NEW us, NEW last, NEW out, NEW rows,
           o.todo \in OtherPlans \cup {PasswordPlan}, o.token = 0, o.uid <= last,
           IsLive(o.uid, us) => o.who \in {us[o.uid].by, us[o.uid].email}
    PROVE  Fits(o, us, last, out, rows)
<1>1. o.todo \in Plans \ (MailPlans \cup AddressPlans \cup {VouchedPlan, VerifyPlan}
                          \cup DeletePlans)
  BY MailSteps, OtherSteps, SingleSteps, VouchedSteps, DeleteSteps DEF Plans, LinkPlans
<1> QED
  BY <1>1 DEF Fits

\* The fields a handler remembers, and what an assignment to one leaves alone.
Same(o, n, but) ==
    /\ n \in Ops
    /\ "todo" \notin but => n.todo = o.todo
    /\ "uid" \notin but => n.uid = o.uid
    /\ "email" \notin but => n.email = o.email
    /\ "row" \notin but => n.row = o.row
    /\ "token" \notin but => n.token = o.token
    /\ n.who = o.who

LEMMA SetTodo ==
    ASSUME NEW o \in Ops, NEW t \in Plans
    PROVE  LET n == [o EXCEPT !.todo = t] IN Same(o, n, {"todo"}) /\ n.todo = t
BY PlansAreCalls DEF Same, Ops

LEMMA SetUid ==
    ASSUME NEW o \in Ops, NEW u \in 0..MaxUid
    PROVE  LET n == [o EXCEPT !.uid = u] IN Same(o, n, {"uid"}) /\ n.uid = u
BY DEF Same, Ops

LEMMA SetEmail ==
    ASSUME NEW o \in Ops, NEW e \in People \cup {NULL}
    PROVE  LET n == [o EXCEPT !.email = e] IN Same(o, n, {"email"}) /\ n.email = e
BY DEF Same, Ops

LEMMA SetKind ==
    ASSUME NEW o \in Ops, NEW k \in {"verify", "reset"}
    PROVE  Same(o, [o EXCEPT !.kind = k], {})
BY DEF Same, Ops

LEMMA SetRow ==
    ASSUME NEW o \in Ops, NEW r \in Nat
    PROVE  LET n == [o EXCEPT !.row = r] IN Same(o, n, {"row"}) /\ n.row = r
BY DEF Same, Ops

LEMMA SetToken ==
    ASSUME NEW o \in Ops, NEW t \in Nat
    PROVE  LET n == [o EXCEPT !.token = t] IN Same(o, n, {"token"}) /\ n.token = t
BY DEF Same, Ops

LEMMA SetOAuth ==
    ASSUME NEW o \in Ops
    PROVE  Same(o, [o EXCEPT !.oauth = TRUE], {})
BY DEF Same, Ops

LEMMA BlankIsOp ==
    ASSUME NEW p \in People
    PROVE  Blank(p) \in Ops /\ Blank(p).token = 0 /\ Blank(p).uid = 0 /\ Blank(p).who = p
BY Bounds DEF Blank, Ops

\* The handlers that requests make.
Plain(o, p, u, t) ==
    o \in Ops /\ o.todo = t /\ o.token = 0 /\ o.uid = u /\ o.who = p

LEMMA PlainRequest ==
    ASSUME NEW p \in People, NEW u \in 0..MaxUid, NEW t \in Plans
    PROVE  Plain([Blank(p) EXCEPT !.uid = u, !.todo = t], p, u, t)
<1> DEFINE b == Blank(p)
           b1 == [b EXCEPT !.uid = u]
           o == [b1 EXCEPT !.todo = t]
<1>1. b \in Ops /\ b.token = 0 /\ b.who = p
  BY BlankIsOp
<1> HIDE DEF b
<1>2. Same(b, b1, {"uid"}) /\ b1.uid = u
  BY <1>1, SetUid
<1> HIDE DEF b1
<1>3. Same(b1, o, {"todo"}) /\ o.todo = t
  BY <1>2, SetTodo DEF Same
<1> HIDE DEF o
<1>4. Plain(o, p, u, t)
  BY <1>1, <1>2, <1>3 DEF Same, Plain
<1> QED
  BY <1>4 DEF o, b1, b

\* What the other requests begin with.
ResetOp(p, u, e) ==
    [Blank(p) EXCEPT !.uid = u, !.email = e, !.kind = "reset",
                     !.todo = <<"delete_old", "insert_token">>]

LinkOp(p, m) ==
    [Blank(p) EXCEPT !.uid = m.uid, !.kind = m.kind, !.row = m.id, !.token = m.token,
                     !.todo = FollowUp(m.kind)]

SignInOp(p, e, u, t) == [Blank(p) EXCEPT !.email = e, !.oauth = TRUE, !.uid = u, !.todo = t]

LEMMA ResetRequest ==
    ASSUME NEW p \in People, NEW u \in 0..MaxUid, NEW e \in People \cup {NULL}
    PROVE  LET o == ResetOp(p, u, e) IN
           Plain(o, p, u, <<"delete_old", "insert_token">>) /\ o.email = e
<1> DEFINE t == <<"delete_old", "insert_token">>
           b == Blank(p)
           b1 == [b EXCEPT !.uid = u]
           b2 == [b1 EXCEPT !.email = e]
           b3 == [b2 EXCEPT !.kind = "reset"]
           b4 == [b3 EXCEPT !.todo = t]
<1>1. b \in Ops /\ b.token = 0 /\ b.who = p
  BY BlankIsOp
<1> HIDE DEF b
<1>2. Same(b, b1, {"uid"}) /\ b1.uid = u
  BY <1>1, SetUid
<1> HIDE DEF b1
<1>3. Same(b1, b2, {"email"}) /\ b2.email = e
  BY <1>2, SetEmail DEF Same
<1> HIDE DEF b2
<1>4. Same(b2, b3, {})
  BY <1>3, SetKind DEF Same
<1> HIDE DEF b3
<1>5. t \in Plans
  BY DEF Plans, MailPlans
<1>6. Same(b3, b4, {"todo"}) /\ b4.todo = t
  BY <1>4, <1>5, SetTodo DEF Same
<1> HIDE DEF b4, t
<1>7. Plain(b4, p, u, t) /\ b4.email = e
  BY <1>1, <1>2, <1>3, <1>4, <1>6 DEF Same, Plain
<1> QED
  BY <1>7 DEF ResetOp, b4, b3, b2, b1, b, t

LEMMA LinkRequest ==
    ASSUME NEW p \in People, NEW m \in MailRows
    PROVE  LET o == LinkOp(p, m)
           IN  /\ o \in Ops /\ o.todo = FollowUp(m.kind) /\ o.token = m.token
               /\ o.uid = m.uid /\ o.who = p /\ o.row = m.id
<1> DEFINE b == Blank(p)
           b1 == [b EXCEPT !.uid = m.uid]
           b2 == [b1 EXCEPT !.kind = m.kind]
           b3 == [b2 EXCEPT !.row = m.id]
           b4 == [b3 EXCEPT !.token = m.token]
           b5 == [b4 EXCEPT !.todo = FollowUp(m.kind)]
<1>0. m.uid \in 0..MaxUid /\ m.kind \in {"verify", "reset"} /\ m.id \in Nat /\ m.token \in Nat
  BY Bounds DEF MailRows, Uids
<1>1. b \in Ops /\ b.who = p
  BY BlankIsOp
<1> HIDE DEF b
<1>2. Same(b, b1, {"uid"}) /\ b1.uid = m.uid
  BY <1>0, <1>1, SetUid
<1> HIDE DEF b1
<1>3. Same(b1, b2, {})
  BY <1>0, <1>2, SetKind DEF Same
<1> HIDE DEF b2
<1>4. Same(b2, b3, {"row"}) /\ b3.row = m.id
  BY <1>0, <1>3, SetRow DEF Same
<1> HIDE DEF b3
<1>5. Same(b3, b4, {"token"}) /\ b4.token = m.token
  BY <1>0, <1>4, SetToken DEF Same
<1> HIDE DEF b4
<1>6. FollowUp(m.kind) \in Plans
  BY DEF FollowUp, Plans, LinkPlans, DeletePlans
<1>7. Same(b4, b5, {"todo"}) /\ b5.todo = FollowUp(m.kind)
  BY <1>5, <1>6, SetTodo DEF Same
<1> HIDE DEF b5
<1>8. b5 \in Ops /\ b5.todo = FollowUp(m.kind) /\ b5.token = m.token /\ b5.uid = m.uid
      /\ b5.who = p /\ b5.row = m.id
  BY <1>1, <1>2, <1>3, <1>4, <1>5, <1>7 DEF Same
<1> QED
  BY <1>8 DEF LinkOp, b5, b4, b3, b2, b1, b

LEMMA SignInRequest ==
    ASSUME NEW p \in People, NEW e \in People \cup {NULL}, NEW u \in 0..MaxUid, NEW t \in Plans
    PROVE  LET o == SignInOp(p, e, u, t)
           IN  Plain(o, p, u, t) /\ o.email = e
<1> DEFINE b == Blank(p)
           b1 == [b EXCEPT !.email = e]
           b2 == [b1 EXCEPT !.oauth = TRUE]
           b3 == [b2 EXCEPT !.uid = u]
           o == [b3 EXCEPT !.todo = t]
<1>1. b \in Ops /\ b.token = 0 /\ b.who = p
  BY BlankIsOp
<1> HIDE DEF b
<1>2. Same(b, b1, {"email"}) /\ b1.email = e
  BY <1>1, SetEmail
<1> HIDE DEF b1
<1>3. Same(b1, b2, {})
  BY <1>2, SetOAuth DEF Same
<1> HIDE DEF b2
<1>4. Same(b2, b3, {"uid"}) /\ b3.uid = u
  BY <1>3, SetUid DEF Same
<1> HIDE DEF b3
<1>5. Same(b3, o, {"todo"}) /\ o.todo = t
  BY <1>4, SetTodo DEF Same
<1> HIDE DEF o
<1>6. Plain(o, p, u, t) /\ o.email = e
  BY <1>1, <1>2, <1>3, <1>4, <1>5 DEF Same, Plain
<1> QED
  BY <1>6 DEF SignInOp, o, b3, b2, b1, b

LEMMA FormRequest ==
    ASSUME NEW p \in People, NEW e \in People \cup {NULL}, NEW t \in Plans
    PROVE  LET o == [Blank(p) EXCEPT !.email = e, !.todo = t]
           IN  Plain(o, p, 0, t) /\ o.email = e /\ o.oauth = FALSE
<1> DEFINE b == Blank(p)
           b1 == [b EXCEPT !.email = e]
           o == [b1 EXCEPT !.todo = t]
<1>1. b \in Ops /\ b.token = 0 /\ b.who = p /\ b.uid = 0 /\ b.oauth = FALSE
  BY BlankIsOp DEF Blank
<1> HIDE DEF b
<1>2. Same(b, b1, {"email"}) /\ b1.email = e /\ b1.oauth = FALSE
  <2>1. b1.oauth = FALSE
    BY <1>1 DEF Ops
  <2> QED
    BY <1>1, <2>1, SetEmail
<1> HIDE DEF b1
<1>3. Same(b1, o, {"todo"}) /\ o.todo = t /\ o.oauth = FALSE
  <2>1. o.oauth = FALSE
    BY <1>2 DEF Same, Ops
  <2> QED
    BY <1>2, <2>1, SetTodo DEF Same
<1> HIDE DEF o
<1>4. Plain(o, p, 0, t) /\ o.email = e /\ o.oauth = FALSE
  BY <1>1, <1>2, <1>3 DEF Same, Plain
<1> QED
  BY <1>4 DEF o, b1, b

-----------------------------------------------------------------------------
(* Requests that only read.                                                *)

LEMMA LiveRow ==
    ASSUME RowsOK, NEW u \in Live
    PROVE  /\ u \in Uids /\ u \in 1..MaxUid /\ u <= top /\ users[u] \in Users
           /\ users[u].by \in People /\ users[u].email \in People \cup {NULL}
BY Bounds DEF RowsOK, Live, Uids, Users

LEMMA LoginSafe ==
    ASSUME AccountsInv, NEW h \in Handlers, Login(h)
    PROVE  AccountsInv'
<1>1. PICK u \in Live, p \in People :
        /\ users[u].password = p
        /\ Begin(h, [Blank(p) EXCEPT !.uid = u, !.todo = <<"create_token">>])
  BY DEF Login
<1> DEFINE o == [Blank(p) EXCEPT !.uid = u, !.todo = <<"create_token">>]
<1>2. u \in 0..MaxUid /\ u <= top
  BY LiveRow, Bounds DEF AccountsInv
<1>3. p \in {users[u].by, users[u].email}
  BY <1>1, Bounds DEF AccountsInv, Safe, OnlyItsPeopleGetIn, PeopleOf
<1>4. <<"create_token">> \in OtherPlans
  BY DEF OtherPlans
<1>5. Plain(o, p, u, <<"create_token">>)
  <2>1. <<"create_token">> \in Plans
    BY <1>4 DEF Plans
  <2> QED
    BY <1>2, <2>1, PlainRequest
<1>6. UNCHANGED <<tables, used>> /\ op' = [op EXCEPT ![h] = o]
  BY <1>1 DEF Login, Begin, rest
<1> HIDE DEF o
<1>7. Fits(o, users, top, sent, mails)
  BY <1>2, <1>3, <1>4, <1>5, OtherFits DEF Plain
<1> QED
  BY <1>5, <1>6, <1>7, OnlyReads DEF Plain

LEMMA AuthenticatedSafe ==
    ASSUME AccountsInv, NEW h \in Handlers, NEW todo \in OtherPlans, Authenticated(h, todo)
    PROVE  AccountsInv'
<1>1. PICK s \in ValidTokens :
        Begin(h, [Blank(s[2]) EXCEPT !.uid = s[1], !.todo = todo])
  BY DEF Authenticated
<1> DEFINE o == [Blank(s[2]) EXCEPT !.uid = s[1], !.todo = todo]
<1>2. s[1] \in Live /\ s[2] \in People /\ s \in sessions
  BY DEF ValidTokens, AccountsInv, RowsOK
<1>3. s[1] \in 0..MaxUid /\ s[1] <= top
  BY <1>2, LiveRow, Bounds DEF AccountsInv
<1>4. s[2] \in {users[s[1]].by, users[s[1]].email}
  BY <1>2 DEF AccountsInv, Safe, OnlyItsPeopleGetIn, PeopleOf
<1>5. Plain(o, s[2], s[1], todo)
  <2>1. todo \in Plans
    BY DEF Plans
  <2> QED
    BY <1>2, <1>3, <2>1, PlainRequest
<1>6. UNCHANGED <<tables, used>> /\ op' = [op EXCEPT ![h] = o]
  BY <1>1 DEF Authenticated, Begin, rest
<1> HIDE DEF o
<1>7. Fits(o, users, top, sent, mails)
  BY <1>3, <1>4, <1>5, OtherFits DEF Plain
<1> QED
  BY <1>5, <1>6, <1>7, OnlyReads DEF Plain

LEMMA RequestResetSafe ==
    ASSUME AccountsInv, NEW h \in Handlers, RequestReset(h)
    PROVE  AccountsInv'
<1>1. PICK u \in Live :
        Begin(h, [Blank(users[u].by) EXCEPT !.uid = u, !.email = users[u].email,
                    !.kind = "reset", !.todo = <<"delete_old", "insert_token">>])
  BY DEF RequestReset
<1> DEFINE o == ResetOp(users[u].by, u, users[u].email)
<1>2. u \in 0..MaxUid /\ u <= top /\ users[u].by \in People
      /\ users[u].email \in People \cup {NULL}
  BY LiveRow, Bounds DEF AccountsInv
<1>3. <<"delete_old", "insert_token">> \in MailPlans
  BY DEF MailPlans
<1>4. o \in Ops /\ o.todo \in MailPlans /\ o.token = 0 /\ o.uid = u
      /\ o.who = users[u].by /\ o.email = users[u].email
  <2>1. Plain(o, users[u].by, u, <<"delete_old", "insert_token">>) /\ o.email = users[u].email
    BY <1>2, ResetRequest
  <2> HIDE DEF o
  <2> QED
    BY <1>3, <2>1 DEF Plain
<1>5. UNCHANGED <<tables, used>> /\ op' = [op EXCEPT ![h] = o]
  BY <1>1 DEF RequestReset, Begin, rest, ResetOp
<1> HIDE DEF o
<1>6. Fits(o, users, top, sent, mails)
  <2>1. o.todo \in Plans \ (AddressPlans \cup {VouchedPlan, VerifyPlan} \cup DeletePlans)
    BY <1>4, MailSteps, SingleSteps DEF Plans, LinkPlans
  <2> QED
    BY <1>2, <1>4, <2>1 DEF Fits
<1> QED
  BY <1>4, <1>5, <1>6, OnlyReads

LEMMA OpenLinkSafe ==
    ASSUME AccountsInv, NEW h \in Handlers, NEW kind, OpenLink(h, kind)
    PROVE  AccountsInv'
<1>1. PICK m \in mails :
        /\ sent[m.token] # NULL
        /\ Begin(h, [Blank(sent[m.token]) EXCEPT
                       !.uid = m.uid, !.kind = m.kind, !.row = m.id, !.token = m.token,
                       !.todo = FollowUp(m.kind)])
  BY DEF OpenLink
<1> DEFINE o == LinkOp(sent[m.token], m)
<1>2. m.uid \in Live /\ m.token \in 1..Len(sent) /\ sent[m.token] = users[m.uid].email
      /\ m.id \in Nat /\ m.kind \in {"verify", "reset"}
  BY DEF AccountsInv, MailsOK, MailRows
<1>3. m.uid \in 0..MaxUid /\ m.uid <= top /\ sent[m.token] \in People
  BY <1>1, <1>2, LiveRow, Bounds DEF AccountsInv
<1>4. FollowUp(m.kind) \in DeletePlans
  BY DEF FollowUp, DeletePlans
<1>5. FollowUp(m.kind) \in LinkPlans
  BY <1>4 DEF LinkPlans
<1>6. o \in Ops /\ o.todo = FollowUp(m.kind) /\ o.token = m.token /\ o.uid = m.uid
      /\ o.who = sent[m.token] /\ o.row = m.id
  <2>1. m \in MailRows
    BY DEF AccountsInv, MailsOK
  <2> QED
    BY <1>3, <2>1, LinkRequest
<1>7. UNCHANGED <<tables, used>> /\ op' = [op EXCEPT ![h] = o]
  BY <1>1 DEF OpenLink, Begin, rest, LinkOp
<1> HIDE DEF o
<1>8. Fits(o, users, top, sent, mails)
  <2>1. o.todo \in Plans \ (MailPlans \cup AddressPlans \cup {VouchedPlan})
    BY <1>4, <1>5, <1>6, DeleteSteps, MailSteps DEF Plans
  <2>2. \A n \in mails : n.token = o.token => n.id = o.row
    BY <1>6 DEF AccountsInv, MailsOK
  <2> QED
    BY <1>2, <1>3, <1>4, <1>5, <1>6, <2>1, <2>2 DEF Fits
<1> QED
  BY <1>6, <1>7, <1>8, OnlyReads

LEMMA OAuthCallbackSafe ==
    ASSUME AccountsInv, NEW h \in Handlers, OAuthCallback(h)
    PROVE  AccountsInv'
<1> DEFINE email(p) == IF LinkOf(p) = 0 THEN EmailOf(p) ELSE NULL
           todo(p) == IF LinkOf(p) # 0 THEN <<"create_token">>
                      ELSE IF EmailOf(p) # NULL THEN <<"user_by_email">>
                      ELSE CreateAndLink(EmailOf(p))
<1>1. PICK p \in People :
        Begin(h, [Blank(p) EXCEPT !.email = email(p), !.oauth = TRUE,
                    !.uid = LinkOf(p), !.todo = todo(p)])
  BY DEF OAuthCallback
<1>2. email(p) \in People \cup {NULL}
  BY DEF EmailOf
<1>3. links[p] \in Live \cup {0}
  BY DEF AccountsInv, RowsOK
<1>4. LinkOf(p) \in 0..MaxUid /\ LinkOf(p) <= top
  BY <1>3, LiveRow, Bounds DEF LinkOf, AccountsInv, RowsOK
<1>5. todo(p) \in OtherPlans \cup {LookupPlan}
      /\ (todo(p) = LookupPlan => email(p) = p /\ LinkOf(p) = 0)
  <2>1. <<"create_token">> \in OtherPlans /\ NamelessPlan \in OtherPlans
    BY DEF OtherPlans
  <2>2. EmailOf(p) \in {p, NULL}
    BY DEF EmailOf
  <2>3. LinkOf(p) # 0 => todo(p) = <<"create_token">>
    OBVIOUS
  <2>4. LinkOf(p) = 0 /\ EmailOf(p) # NULL => todo(p) = LookupPlan
    BY DEF LookupPlan
  <2>5. LinkOf(p) = 0 /\ EmailOf(p) = NULL => todo(p) = NamelessPlan
    BY DEF CreateAndLink, NamelessPlan
  <2>6. LookupPlan \notin OtherPlans
    BY OtherSteps DEF AddressPlans
  <2> QED
    BY <2>1, <2>2, <2>3, <2>4, <2>5, <2>6
<1> DEFINE o == SignInOp(p, email(p), LinkOf(p), todo(p))
<1>6. UNCHANGED <<tables, used>> /\ op' = [op EXCEPT ![h] = o]
  BY <1>1 DEF OAuthCallback, Begin, rest, SignInOp
<1> HIDE DEF email, todo
<1>7. todo(p) \in Plans
  BY <1>5 DEF Plans, AddressPlans
<1>8. Plain(o, p, LinkOf(p), todo(p)) /\ o.email = email(p)
  BY <1>2, <1>4, <1>7, SignInRequest
<1> HIDE DEF o
<1>9. Fits(o, users, top, sent, mails)
  <2>1. CASE todo(p) \in OtherPlans
    <3>1. IsLive(LinkOf(p), users) => p \in {users[LinkOf(p)].by, users[LinkOf(p)].email}
      BY <1>3, Bounds
         DEF AccountsInv, Safe, OnlyItsPeopleGetIn, PeopleOf, LinkOf, IsLive, Uids
    <3> QED
      BY <1>4, <1>8, <2>1, <3>1, OtherFits DEF Plain
  <2>2. CASE todo(p) = LookupPlan
    <3>1. LookupPlan \in Plans
              \ (MailPlans \cup {VouchedPlan, VerifyPlan} \cup DeletePlans \cup LinkPlans)
      BY MailSteps, DeleteSteps, SingleSteps, VouchedSteps DEF Plans, AddressPlans, LinkPlans
    <3>2. o.uid = 0 /\ ~IsLive(0, users)
      BY <1>5, <1>8, <2>2, Bounds DEF Plain, IsLive, Uids
    <3> QED
      BY <1>4, <1>5, <1>8, <2>2, <3>1, <3>2 DEF Plain, Fits
  <2> QED
    BY <1>5, <2>1, <2>2
<1> QED
  BY <1>6, <1>8, <1>9, OnlyReads DEF Plain

-----------------------------------------------------------------------------
(* Calls that only read.                                                   *)

\* A call of a handler, and what the handler remembers.
LEMMA Caller ==
    ASSUME AccountsInv, NEW h \in Handlers, NEW call, At(h, call)
    PROVE  /\ op[h] \in Ops /\ Fits(op[h], users, top, sent, mails)
           /\ op[h].todo # <<>> /\ Head(op[h].todo) = call
BY DEF AccountsInv, OpsFit, At

\* A failed handler leaves nothing to fit; one that goes on fits what it has left.
LEMMA FailFits ==
    ASSUME OpsFit, Keeps, top \in Nat, top' \in Nat, NEW h \in Handlers, Fail(h)
    PROVE  OpsFit'
BY SlotSet DEF Fail

LEMMA AdvanceFits ==
    ASSUME OpsFit, Keeps, top \in Nat, top' \in Nat, NEW h \in Handlers,
           op[h] # NULL, Advance(h, op[h]),
           Head(op[h].todo) \notin {"delete_token", "create_user", "user_by_email"}
    PROVE  OpsFit'
<1>1. op[h] \in Ops /\ Fits(op[h], users, top, sent, mails)
  BY DEF OpsFit
<1>2. Fits(op[h], users', top', sent', mails')
  BY <1>1, KeepsFitting
<1>3. CASE Tail(op[h].todo) = <<>>
  BY <1>3, SlotSet DEF Advance
<1>4. CASE Tail(op[h].todo) # <<>>
  <2> DEFINE n == [op[h] EXCEPT !.todo = Tail(op[h].todo)]
  <2>1. n \in Ops /\ Fits(n, users', top', sent', mails')
    BY <1>1, <1>2, <1>4, NextCallFits
  <2>2. op' = [op EXCEPT ![h] = n]
    BY <1>4 DEF Advance
  <2> HIDE DEF n
  <2> QED
    BY <2>1, <2>2, SlotSet
<1> QED
  BY <1>3, <1>4

LEMMA AbortSafe ==
    ASSUME AccountsInv, NEW h \in Handlers, Abort(h)
    PROVE  AccountsInv'
<1>1. UNCHANGED tables /\ UNCHANGED <<tables, used>>
  BY DEF Abort
<1> QED
  BY <1>1, KeepsUnwritten, FailFits, NothingWritten DEF Abort, AccountsInv

LEMMA VerifyPasswordSafe ==
    ASSUME AccountsInv, NEW h \in Handlers, VerifyPassword(h)
    PROVE  AccountsInv'
<1>1. UNCHANGED tables /\ UNCHANGED <<tables, used>>
  BY DEF VerifyPassword, rest
<1>2. op[h] # NULL /\ Head(op[h].todo) = "verify_password"
  BY DEF VerifyPassword, At
<1>3. OpsFit'
  BY <1>1, <1>2, KeepsUnwritten, FailFits, AdvanceFits DEF VerifyPassword, AccountsInv
<1> QED
  BY <1>1, <1>3, NothingWritten

LEMMA GetUserByIdSafe ==
    ASSUME AccountsInv, NEW h \in Handlers, GetUserById(h)
    PROVE  AccountsInv'
<1>1. UNCHANGED tables /\ UNCHANGED <<tables, used>>
  BY DEF GetUserById, rest
<1>2. op[h] # NULL /\ Head(op[h].todo) = "get_user"
  BY DEF GetUserById, At
<1>3. OpsFit'
  BY <1>1, <1>2, KeepsUnwritten, FailFits, AdvanceFits DEF GetUserById, AccountsInv
<1> QED
  BY <1>1, <1>3, NothingWritten

LEMMA GetUserByEmailSafe ==
    ASSUME AccountsInv, NEW h \in Handlers, GetUserByEmail(h)
    PROVE  AccountsInv'
<1> DEFINE o == op[h]
           u == CHOOSE v \in Live : users[v].email = o.email
           new == [o EXCEPT !.todo = CreateAndLink(o.email)]
           b == [o EXCEPT !.uid = u]
           old == [b EXCEPT !.todo = <<"link", "create_token">>]
<1>1. o \in Ops /\ Fits(o, users, top, sent, mails) /\ o.todo # <<>>
      /\ Head(o.todo) = "user_by_email"
  BY Caller DEF GetUserByEmail
<1>2. UNCHANGED <<tables, used>>
      /\ op' = [op EXCEPT ![h] = IF Unclaimed(o.email) THEN new ELSE old]
  BY DEF GetUserByEmail, rest
<1> HIDE DEF o
<1>3. o.todo = LookupPlan
  BY <1>1, MailSteps, DeleteSteps, SingleSteps, VouchedSteps, OtherSteps
     DEF Fits, Plans, LinkPlans, AddressPlans
<1>4. o.email = o.who /\ o.who \in People /\ o.token = 0
  BY <1>1, <1>3, SingleSteps, DeleteSteps DEF Fits, Ops, AddressPlans, LinkPlans
<1>5. CASE Unclaimed(o.email)
  <2>1. CreateAndLink(o.email) = CreatePlan
    BY <1>4, Bounds DEF CreateAndLink, CreatePlan
  <2>2. CreatePlan \in Plans
            \ (MailPlans \cup {VouchedPlan, VerifyPlan} \cup DeletePlans \cup OtherPlans)
    BY MailSteps, DeleteSteps, SingleSteps, VouchedSteps, OtherSteps
       DEF Plans, AddressPlans
  <2>3. Same(o, new, {"todo"}) /\ new.todo = CreatePlan
    BY <1>1, <2>1, <2>2, SetTodo
  <2> HIDE DEF new
  <2>4. new \in Ops /\ Fits(new, users, top, sent, mails)
    BY <1>1, <1>4, <2>2, <2>3 DEF Same, Fits
  <2> QED
    BY <1>2, <1>5, <2>4, OnlyReads
<1>6. CASE ~Unclaimed(o.email)
  <2>1. u \in Live /\ users[u].email = o.email
    BY <1>6 DEF Unclaimed
  <2> HIDE DEF u
  <2>2. u \in 0..MaxUid /\ u <= top
    BY <2>1, LiveRow, Bounds DEF AccountsInv
  <2>3. Same(o, b, {"uid"}) /\ b.uid = u
    BY <1>1, <2>2, SetUid
  <2>4. <<"link", "create_token">> \in OtherPlans
    BY DEF OtherPlans
  <2> HIDE DEF b
  <2>5. Same(b, old, {"todo"}) /\ old.todo = <<"link", "create_token">>
    BY <2>3, <2>4, SetTodo DEF Same, Plans
  <2> HIDE DEF old
  <2>6. old \in Ops /\ Fits(old, users, top, sent, mails)
    BY <1>4, <2>1, <2>2, <2>3, <2>4, <2>5, OtherFits DEF Same
  <2> QED
    BY <1>2, <1>6, <2>6, OnlyReads
<1> QED
  BY <1>5, <1>6

-----------------------------------------------------------------------------
(* New accounts.  The id is one that nobody remembers.                     *)

LEMMA InsertUserSafe ==
    ASSUME AccountsInv, Recycles = FALSE, NEW h \in Handlers, NEW o \in Ops,
           InsertUser(h, o), UNCHANGED <<links, sessions, mails, sent, used>>,
           o.token = 0,
           o.todo \in MailPlans \cup OtherPlans \/ (o.todo = VouchedPlan /\ o.email = o.who)
    PROVE  AccountsInv'
<1>1. CASE Fail(h) /\ UNCHANGED <<users, top>>
  BY <1>1, OnlyReads DEF Fail, tables
<1>2. CASE ~(Fail(h) /\ UNCHANGED <<users, top>>)
  <2> DEFINE u == 1 + top
             row == [email |-> o.email, verified |-> FALSE, by |-> o.who,
                     password |-> IF o.oauth THEN OAuth ELSE o.who]
             n == [o EXCEPT !.uid = u]
  <2>1. top \in Nat /\ u \in Uids /\ top < u
    BY <1>2, Bounds DEF InsertUser, NextId, AccountsInv, RowsOK
  <2>2. users' = [users EXCEPT ![u] = row] /\ top' = u /\ op' = [op EXCEPT ![h] = n]
    BY <1>2, <2>1 DEF InsertUser, NextId
  <2>3. row \in Users /\ row # NULL
    <3>1. o.email \in People \cup {NULL} /\ o.who \in People
      BY DEF Ops
    <3>2. row \in Users
      BY <3>1 DEF Users
    <3> HIDE DEF row
    <3> QED
      BY <3>2, Bounds
  <2>4. row.email = o.email /\ row.by = o.who /\ row.verified = FALSE
        /\ row.password \in {o.who, OAuth}
    OBVIOUS
  <2> HIDE DEF row
  <2>5. Live' = Live \cup {u} /\ users'[u] = row /\ u \notin Live
        /\ \A v \in Live : users'[v] = users[v]
    BY <2>1, <2>2, <2>3 DEF Live, AccountsInv, RowsOK
  <2>6. RowsOK'
    <3>1. users' \in [Uids -> Users \cup {NULL}]
      BY <2>1, <2>2, <2>3 DEF AccountsInv, RowsOK
    <3>2. top' \in 0..MaxUid /\ \A v \in Live' : v <= top'
      BY <2>1, <2>2, <2>5, Bounds DEF AccountsInv, RowsOK, Uids, Live
    <3> QED
      BY <2>5, <3>1, <3>2 DEF AccountsInv, RowsOK
  <2>7. MailsOK'
    BY <2>5 DEF AccountsInv, MailsOK
  <2>8. Keeps /\ top' \in Nat
    BY <2>1, <2>2 DEF Keeps, AccountsInv, MailsOK, RowsOK
  <2>9. Same(o, n, {"uid"}) /\ n.uid = u
    BY <2>1, SetUid, Bounds DEF Uids
  <2> HIDE DEF n
  <2>10. n.todo \in Plans \ (AddressPlans \cup {VerifyPlan} \cup DeletePlans)
         /\ (n.todo \in MailPlans => n.todo # VouchedPlan)
    BY <2>9, MailSteps, OtherSteps, SingleSteps, VouchedSteps, DeleteSteps
       DEF Same, Plans, LinkPlans
  <2>11. n.todo = VouchedPlan => n.email = n.who
    BY <2>9, MailSteps, VouchedSteps DEF Same
  <2>12. Fits(n, users', top', sent', mails')
    BY <2>1, <2>2, <2>4, <2>5, <2>9, <2>10, <2>11 DEF Same, Fits, IsLive
  <2>13. OpsFit'
    BY <2>1, <2>2, <2>8, <2>9, <2>12, SlotSet DEF Same, AccountsInv
  <2>14. OnlyItsPeopleGetIn'
    BY <2>4, <2>5, Bounds DEF AccountsInv, RowsOK, Safe, OnlyItsPeopleGetIn, PeopleOf
  <2>15. AddressesAreProven' /\ SpentLinksAreDead'
    BY <2>4, <2>5 DEF AccountsInv, Safe, AddressesAreProven, SpentLinksAreDead
  <2> QED
    BY <2>6, <2>7, <2>13, <2>14, <2>15 DEF AccountsInv, Safe
<1> QED
  BY <1>1, <1>2

LEMMA RegisterSafe ==
    ASSUME AccountsInv, Recycles = FALSE, NEW h \in Handlers, Register(h)
    PROVE  AccountsInv'
<1> DEFINE todo(e) == IF e = NULL THEN <<"create_token">>
                      ELSE <<"create_token", "delete_old", "insert_token">>
<1>1. PICK p \in Registrants, e \in People \cup {NULL} :
        InsertUser(h, [Blank(p) EXCEPT !.email = e, !.todo = todo(e)])
  BY DEF Register
<1> DEFINE o == [Blank(p) EXCEPT !.email = e, !.todo = todo(e)]
<1>2. InsertUser(h, o) /\ UNCHANGED <<links, sessions, mails, sent, used>>
  BY <1>1 DEF Register, rest
<1>3. todo(e) \in MailPlans \cup OtherPlans
  BY DEF MailPlans, OtherPlans
<1> HIDE DEF todo
<1>4. todo(e) \in Plans
  BY <1>3 DEF Plans
<1>5. Plain(o, p, 0, todo(e))
  BY <1>4, Bounds, FormRequest
<1> HIDE DEF o
<1>6. o \in Ops /\ o.token = 0 /\ o.todo \in MailPlans \cup OtherPlans
  BY <1>3, <1>5 DEF Plain
<1> QED
  BY <1>2, <1>6, InsertUserSafe

LEMMA CreateUserSafe ==
    ASSUME AccountsInv, Recycles = FALSE, NEW h \in Handlers, CreateUser(h)
    PROVE  AccountsInv'
<1> DEFINE o == op[h]
           n == [o EXCEPT !.todo = Tail(o.todo)]
<1>1. o \in Ops /\ Fits(o, users, top, sent, mails) /\ o.todo # <<>>
      /\ Head(o.todo) = "create_user"
  BY Caller DEF CreateUser
<1>2. InsertUser(h, n) /\ UNCHANGED <<links, sessions, mails, sent, used>>
  BY DEF CreateUser, rest
<1> HIDE DEF o
<1>3. o.todo \in {CreatePlan} \cup OtherPlans /\ o.token = 0
  BY <1>1, MailSteps, DeleteSteps, SingleSteps, VouchedSteps, OtherSteps
     DEF Fits, Plans, LinkPlans, AddressPlans
<1>4. \/ o.todo = CreatePlan /\ Tail(o.todo) = VouchedPlan /\ o.email = o.who
      \/ Tail(o.todo) \in OtherPlans
  <2>1. CASE o.todo = CreatePlan
    BY <1>1, <2>1, CreateTails DEF Fits, AddressPlans
  <2>2. CASE o.todo \in OtherPlans
    <3>1. o.todo = NamelessPlan
      BY <1>1, <2>2 DEF OtherPlans
    <3>2. <<"link", "get_user", "create_token">> \in OtherPlans
      BY DEF OtherPlans
    <3> QED
      BY <3>1, <3>2, CreateTails
  <2> QED
    BY <1>3, <2>1, <2>2
<1>5. Tail(o.todo) \in Plans
  BY <1>4 DEF Plans
<1>6. Same(o, n, {"todo"}) /\ n.todo = Tail(o.todo)
  BY <1>1, <1>5, SetTodo
<1> HIDE DEF n
<1>7. n \in Ops /\ n.token = 0 /\ (n.todo \in OtherPlans \/ (n.todo = VouchedPlan /\ n.email = n.who))
  BY <1>3, <1>4, <1>6 DEF Same
<1> QED
  BY <1>2, <1>7, InsertUserSafe

-----------------------------------------------------------------------------
(* Tokens and identities go to the handler's person.                       *)

LEMMA MineIfLive ==
    ASSUME AccountsInv, NEW h \in Handlers, op[h] # NULL, op[h].uid \in Live
    PROVE  op[h].who \in PeopleOf(op[h].uid) /\ op[h].who \in People
BY DEF AccountsInv, OpsFit, Fits, IsLive, Live, PeopleOf, Ops

\* Writing sessions and identities takes nothing from what handlers remember.
LEMMA KeepsUsers ==
    ASSUME AccountsInv, UNCHANGED <<users, top, mails, sent>>
    PROVE  /\ Keeps /\ top \in Nat /\ top' \in Nat
           /\ Live' = Live /\ \A u \in Live : PeopleOf(u)' = PeopleOf(u)
BY Bounds DEF AccountsInv, RowsOK, MailsOK, Keeps, Live, PeopleOf

LEMMA CreateTokenSafe ==
    ASSUME AccountsInv, NEW h \in Handlers, CreateToken(h)
    PROVE  AccountsInv'
<1>1. UNCHANGED <<users, top, mails, sent>> /\ UNCHANGED <<links, used>>
  BY DEF CreateToken, rest
<1>2. op[h] # NULL /\ Head(op[h].todo) = "create_token"
  BY DEF CreateToken, At
<1>3. OpsFit'
  BY <1>1, <1>2, KeepsUsers, FailFits, AdvanceFits DEF CreateToken, AccountsInv
<1>4. \A s \in sessions' : s \in Live \X People /\ s[2] \in PeopleOf(s[1])
  BY <1>2, MineIfLive
     DEF CreateToken, AccountsInv, RowsOK, Safe, OnlyItsPeopleGetIn
<1>5. RowsOK' /\ MailsOK'
  BY <1>1, <1>4, KeepsUsers DEF AccountsInv, RowsOK, MailsOK
<1>6. Safe'
  BY <1>1, <1>4, KeepsUsers DEF AccountsInv, RowsOK, Safe, OnlyItsPeopleGetIn, PeopleOf,
                                AddressesAreProven, SpentLinksAreDead
<1> QED
  BY <1>3, <1>5, <1>6 DEF AccountsInv

LEMMA LinkSafe ==
    ASSUME AccountsInv, NEW h \in Handlers, LinkOAuthAccount(h)
    PROVE  AccountsInv'
<1>1. UNCHANGED <<users, top, mails, sent>> /\ UNCHANGED <<sessions, used>>
  BY DEF LinkOAuthAccount, rest
<1>2. op[h] # NULL /\ Head(op[h].todo) = "link"
  BY DEF LinkOAuthAccount, At
<1>3. OpsFit'
  BY <1>1, <1>2, KeepsUsers, FailFits, AdvanceFits DEF LinkOAuthAccount, AccountsInv
<1>4. links' \in [People -> Live \cup {0}]
  BY DEF LinkOAuthAccount, AccountsInv, RowsOK
<1>5. \A p \in People : links'[p] # 0 => p \in PeopleOf(links'[p])
  BY <1>2, MineIfLive DEF LinkOAuthAccount, AccountsInv, RowsOK, Safe, OnlyItsPeopleGetIn
<1>6. RowsOK' /\ MailsOK'
  BY <1>1, <1>4, KeepsUsers DEF AccountsInv, RowsOK, MailsOK
<1>7. Safe'
  BY <1>1, <1>4, <1>5, KeepsUsers
     DEF AccountsInv, RowsOK, Safe, OnlyItsPeopleGetIn, PeopleOf, AddressesAreProven,
         SpentLinksAreDead
<1> QED
  BY <1>3, <1>6, <1>7 DEF AccountsInv

-----------------------------------------------------------------------------
(* Mailed links.                                                           *)

\* A step of the links' table alone leaves accounts, tokens and identities as they are.
LEMMA MailsOnly ==
    ASSUME AccountsInv, UNCHANGED <<users, top, links, sessions, used>>,
           \A t \in 1..Len(sent) : sent'[t] = sent[t], MailsOK', OpsFit',
           \A m \in mails' : m \in mails \/ m.token \notin 1..Len(sent)
    PROVE  AccountsInv'
<1>1. Live' = Live /\ \A u \in Live : PeopleOf(u)' = PeopleOf(u)
  BY DEF Live, PeopleOf
<1>2. RowsOK'
  BY <1>1 DEF AccountsInv, RowsOK
<1>3. OnlyItsPeopleGetIn'
  BY <1>1 DEF AccountsInv, RowsOK, Safe, OnlyItsPeopleGetIn
<1>4. AddressesAreProven'
  BY <1>1 DEF AccountsInv, MailsOK, Safe, AddressesAreProven
<1>5. SpentLinksAreDead'
  BY DEF AccountsInv, MailsOK, Safe, SpentLinksAreDead
<1> QED
  BY <1>2, <1>3, <1>4, <1>5 DEF AccountsInv, Safe

\* Deleting links disturbs nobody.
LEMMA FewerMails ==
    ASSUME AccountsInv, UNCHANGED <<users, top, links, sessions, sent, used>>,
           mails' \subseteq mails
    PROVE  Keeps /\ top \in Nat /\ top' \in Nat /\ MailsOK'
<1>1. Live' = Live
  BY DEF Live
<1> QED
  BY <1>1, Bounds DEF AccountsInv, RowsOK, MailsOK, Keeps

LEMMA DeleteOldTokenSafe ==
    ASSUME AccountsInv, NEW h \in Handlers, DeleteOldToken(h)
    PROVE  AccountsInv'
<1>1. UNCHANGED <<users, top, links, sessions, sent, used>> /\ mails' \subseteq mails
  BY DEF DeleteOldToken, rest
<1>2. op[h] # NULL /\ Head(op[h].todo) = "delete_old"
  BY DEF DeleteOldToken, At
<1>3. OpsFit'
  BY <1>1, <1>2, FewerMails, AdvanceFits DEF DeleteOldToken, AccountsInv
<1> QED
  BY <1>1, <1>3, FewerMails, MailsOnly

LEMMA DeleteEmailTokenSafe ==
    ASSUME AccountsInv, NEW h \in Handlers, DeleteEmailToken(h)
    PROVE  AccountsInv'
<1>1. UNCHANGED <<users, top, links, sessions, sent, used>> /\ mails' \subseteq mails
  BY DEF DeleteEmailToken, rest
<1>2. Keeps /\ top \in Nat /\ top' \in Nat /\ MailsOK'
  BY <1>1, FewerMails
<1> DEFINE o == op[h]
           n == [o EXCEPT !.todo = Tail(o.todo)]
<1>3. o \in Ops /\ Fits(o, users, top, sent, mails) /\ o.todo # <<>>
      /\ Head(o.todo) = "delete_token"
  BY Caller DEF DeleteEmailToken
<1>4. op' = [op EXCEPT ![h] = IF Tail(o.todo) = <<>> THEN NULL ELSE n]
      /\ \A m \in mails' : m.id # o.row
  BY DEF DeleteEmailToken, Advance
<1>5. Fits(o, users', top', sent', mails')
  BY <1>2, <1>3, KeepsFitting
<1> HIDE DEF o
<1>6. o.todo \in DeletePlans
  BY <1>3, MailSteps, SingleSteps, VouchedSteps, OtherSteps
     DEF Fits, Plans, LinkPlans, AddressPlans
<1>7. Tail(o.todo) \in {PasswordPlan, VerifyPlan} /\ Tail(o.todo) # <<>>
  BY <1>6, DeleteSteps
<1>8. Tail(o.todo) \in Plans
            \ (MailPlans \cup AddressPlans \cup {VouchedPlan} \cup DeletePlans)
      /\ Tail(o.todo) \in LinkPlans
  BY <1>7, MailSteps, SingleSteps DEF Plans, LinkPlans
<1>9. Same(o, n, {"todo"}) /\ n.todo = Tail(o.todo)
  BY <1>3, <1>8, SetTodo
<1> HIDE DEF n
<1>10. o.token # 0 /\ \A m \in mails' : m.token # o.token
  BY <1>4, <1>5, <1>6 DEF Fits
<1>11. Fits(n, users', top', sent', mails')
  BY <1>5, <1>6, <1>8, <1>9, <1>10 DEF Same, Fits
<1>12. OpsFit'
  BY <1>2, <1>4, <1>7, <1>9, <1>11, SlotSet DEF Same, AccountsInv
<1> QED
  BY <1>1, <1>2, <1>12, MailsOnly

LEMMA InsertEmailTokenSafe ==
    ASSUME AccountsInv, Recycles = FALSE, NEW h \in Handlers, InsertEmailToken(h)
    PROVE  AccountsInv'
<1> DEFINE o == op[h]
           t == Len(sent) + 1
           m == [id |-> NextId({x.id : x \in mails}, Len(sent)), uid |-> o.uid,
                 kind |-> o.kind, token |-> t]
<1>1. o \in Ops /\ Fits(o, users, top, sent, mails) /\ o.todo # <<>>
      /\ Head(o.todo) = "insert_token"
  BY Caller DEF InsertEmailToken
<1>2. o.todo \in MailPlans
  BY <1>1, DeleteSteps, SingleSteps, VouchedSteps, OtherSteps
     DEF Fits, Plans, LinkPlans, AddressPlans
<1>3. UNCHANGED <<users, top, links, sessions, used>> /\ Fail(h)
  BY DEF InsertEmailToken, rest
<1>4. CASE UNCHANGED <<mails, sent>>
  <2>1. UNCHANGED <<tables, used>>
    BY <1>3, <1>4 DEF tables
  <2> QED
    BY <1>3, <2>1, OnlyReads DEF Fail
<1>5. CASE ~UNCHANGED <<mails, sent>>
  <2>1. o.uid \in Live /\ sent' = Append(sent, o.email) /\ mails' = mails \cup {m}
    BY <1>5 DEF InsertEmailToken
  <2>2. o.email = users[o.uid].email /\ o.email \in People \cup {NULL}
        /\ o.uid \in Uids /\ o.kind \in {"verify", "reset"}
    BY <1>1, <1>2, <2>1 DEF Fits, Ops, IsLive, Live
  <2> HIDE DEF o
  <2>3. sent \in Seq(People \cup {NULL}) /\ Len(sent) \in Nat /\ t \in Nat
    BY DEF AccountsInv, MailsOK
  <2>4. sent' \in Seq(People \cup {NULL}) /\ Len(sent') = t /\ sent'[t] = o.email
        /\ \A x \in 1..Len(sent) : sent'[x] = sent[x]
    BY <2>1, <2>2, <2>3
  <2>5. m \in MailRows /\ m.uid = o.uid /\ m.token = t
    BY <2>2, <2>3 DEF MailRows, NextId
  <2> HIDE DEF m
  <2>6. Live' = Live
    BY <1>3 DEF Live
  <2>7. \A x \in mails' : x.uid \in Live' /\ x.token \in 1..Len(sent')
                          /\ sent'[x.token] = users'[x.uid].email
    BY <1>3, <2>1, <2>2, <2>3, <2>4, <2>5, <2>6 DEF AccountsInv, MailsOK
  <2>8. \A x, y \in mails' : x.token = y.token => x = y
    BY <2>1, <2>3, <2>5 DEF AccountsInv, MailsOK
  <2>9. mails' \subseteq MailRows /\ used' \subseteq 1..Len(sent')
    BY <1>3, <2>1, <2>3, <2>4, <2>5 DEF AccountsInv, MailsOK
  <2>10. MailsOK'
    BY <2>4, <2>7, <2>8, <2>9 DEF MailsOK
  <2>11. \A x \in mails' : x \in mails \/ x.token \notin 1..Len(sent)
    BY <2>1, <2>3, <2>5
  <2>12. Keeps /\ top \in Nat /\ top' \in Nat
    BY <1>3, <2>3, <2>4, <2>11, Bounds DEF Keeps, AccountsInv, RowsOK
  <2>13. OpsFit'
    BY <1>3, <2>12, FailFits DEF AccountsInv
  <2> QED
    BY <1>3, <2>4, <2>10, <2>11, <2>13, MailsOnly
<1> QED
  BY <1>4, <1>5

-----------------------------------------------------------------------------
(* Updates of an account's row.                                            *)

\* What an update of password or verified leaves: a row's address and creator.
Updates ==
    /\ users' \in [Uids -> Users \cup {NULL}]
    /\ \A u \in Uids : users'[u] = NULL <=> users[u] = NULL
    /\ \A u \in Live : users'[u].by = users[u].by /\ users'[u].email = users[u].email
    /\ UNCHANGED <<top, links, sessions, mails, sent>>
    /\ used' \subseteq 1..Len(sent)

LEMMA UpdatesKeep ==
    ASSUME AccountsInv, Updates
    PROVE  /\ Live' = Live /\ \A u \in Live : PeopleOf(u)' = PeopleOf(u)
           /\ Keeps /\ top \in Nat /\ top' \in Nat
           /\ RowsOK' /\ MailsOK'
<1>1. Live' = Live
  BY DEF Updates, Live
<1>2. \A u \in Live : PeopleOf(u)' = PeopleOf(u)
  BY DEF Updates, PeopleOf
<1>3. Keeps /\ top \in Nat /\ top' \in Nat
  BY Bounds DEF AccountsInv, RowsOK, MailsOK, Updates, Keeps, Live
<1>4. RowsOK'
  BY <1>1 DEF AccountsInv, RowsOK, Updates
<1>5. MailsOK'
  BY <1>1 DEF AccountsInv, MailsOK, Updates
<1> QED
  BY <1>1, <1>2, <1>3, <1>4, <1>5

\* A handler that carries out a link has deleted the row of its token.
LEMMA TokenSpent ==
    ASSUME AccountsInv, NEW h \in Handlers, op[h] # NULL,
           op[h].todo \notin DeletePlans, op[h].token # 0
    PROVE  /\ op[h].token \in 1..Len(sent)
           /\ \A m \in mails : m.token # op[h].token
           /\ op[h].uid \in Live => sent[op[h].token] = users[op[h].uid].email
BY DEF AccountsInv, OpsFit, Fits, IsLive, Live

LEMMA SetPasswordSafe ==
    ASSUME AccountsInv, NEW h \in Handlers, SetPasswordHash(h)
    PROVE  AccountsInv'
<1> DEFINE o == op[h]
<1>1. o # NULL /\ o \in Ops /\ Fits(o, users, top, sent, mails) /\ o.todo # <<>>
      /\ Head(o.todo) = "set_password"
  BY Caller DEF SetPasswordHash, At
<1>2. o.todo \notin DeletePlans
  BY <1>1, DeleteSteps
<1>3. o.token # 0 => o.token \in 1..Len(sent) /\ \A m \in mails : m.token # o.token
  BY <1>1, <1>2, TokenSpent
<1>4. used' = IF o.token = 0 THEN used ELSE used \cup {o.token}
  BY DEF SetPasswordHash
<1>5. \A u \in Uids \ Live : users'[u] = NULL
  BY DEF SetPasswordHash, Live
<1>6. \A u \in Live :
        /\ users'[u] \in Users
        /\ users'[u].by = users[u].by /\ users'[u].email = users[u].email
        /\ users'[u].verified = users[u].verified
        /\ users'[u].password = users[u].password \/ (u = o.uid /\ users'[u].password = o.who)
  <2> SUFFICES ASSUME NEW u \in Live
               PROVE  /\ users'[u] \in Users
                      /\ users'[u].by = users[u].by /\ users'[u].email = users[u].email
                      /\ users'[u].verified = users[u].verified
                      /\ \/ users'[u].password = users[u].password
                         \/ u = o.uid /\ users'[u].password = o.who
    OBVIOUS
  <2>1. u \in Uids /\ users[u] \in Users /\ o.who \in People
    BY <1>1, LiveRow DEF AccountsInv, Ops
  <2>2. users'[u] = IF u = o.uid THEN [users[u] EXCEPT !.password = o.who] ELSE users[u]
    BY <2>1 DEF SetPasswordHash
  <2> HIDE DEF o
  <2> QED
    BY <2>1, <2>2 DEF Users
<1>7. Updates
  <2>1. users' \in [Uids -> Users \cup {NULL}]
    BY <1>5, <1>6 DEF SetPasswordHash
  <2>2. \A u \in Uids : users'[u] = NULL <=> users[u] = NULL
    BY <1>5, <1>6, Bounds DEF Live
  <2>3. UNCHANGED <<top, links, sessions, mails, sent>> /\ used' \subseteq 1..Len(sent)
    BY <1>3, <1>4 DEF SetPasswordHash, AccountsInv, MailsOK
  <2> QED
    BY <1>6, <2>1, <2>2, <2>3 DEF Updates
<1>8. OpsFit'
  BY <1>1, <1>7, UpdatesKeep, AdvanceFits DEF SetPasswordHash, AccountsInv
<1>9. o.uid \in Live => o.who \in PeopleOf(o.uid)
  BY <1>1, MineIfLive
<1>10. UNCHANGED <<sessions, links, mails, sent>>
  BY <1>7 DEF Updates
<1> HIDE DEF o
<1>11. OnlyItsPeopleGetIn'
  <2>1. \A u \in Live' : users'[u].password \in PeopleOf(u)' \cup {OAuth}
    BY <1>6, <1>7, <1>9, UpdatesKeep DEF AccountsInv, Safe, OnlyItsPeopleGetIn
  <2>2. \A s \in sessions' : s[2] \in PeopleOf(s[1])'
    BY <1>7, <1>10, UpdatesKeep DEF AccountsInv, RowsOK, Safe, OnlyItsPeopleGetIn
  <2>3. \A p \in People : links'[p] # 0 => p \in PeopleOf(links[p])'
    BY <1>7, <1>10, UpdatesKeep DEF AccountsInv, RowsOK, Safe, OnlyItsPeopleGetIn
  <2> QED
    BY <1>10, <2>1, <2>2, <2>3 DEF OnlyItsPeopleGetIn
<1>12. AddressesAreProven'
  BY <1>4, <1>6, <1>7, <1>10, UpdatesKeep DEF AccountsInv, Safe, AddressesAreProven
<1>13. SpentLinksAreDead'
  BY <1>3, <1>4, <1>10 DEF AccountsInv, Safe, SpentLinksAreDead
<1> QED
  BY <1>7, <1>8, <1>11, <1>12, <1>13, UpdatesKeep DEF AccountsInv, Safe

LEMMA SetEmailVerifiedSafe ==
    ASSUME AccountsInv, NEW h \in Handlers, SetEmailVerified(h)
    PROVE  AccountsInv'
<1> DEFINE o == op[h]
<1>1. o # NULL /\ o \in Ops /\ Fits(o, users, top, sent, mails) /\ o.todo # <<>>
      /\ Head(o.todo) = "set_email_verified"
  BY Caller DEF SetEmailVerified, At
<1>2. o.todo \in {VerifyPlan, VouchedPlan} /\ o.todo \notin DeletePlans
  BY <1>1, MailSteps, DeleteSteps, SingleSteps, VouchedSteps, OtherSteps
     DEF Fits, Plans, LinkPlans, AddressPlans
<1>3. o.token # 0 =>
        /\ o.token \in 1..Len(sent) /\ \A m \in mails : m.token # o.token
        /\ o.uid \in Live => sent[o.token] = users[o.uid].email
  BY <1>1, <1>2, TokenSpent
<1>4. used' = IF o.token = 0 THEN used ELSE used \cup {o.token}
  BY DEF SetEmailVerified
<1>5. \A u \in Uids \ Live : users'[u] = NULL
  BY DEF SetEmailVerified, Live
<1>6. \A u \in Live :
        /\ users'[u] \in Users
        /\ users'[u].by = users[u].by /\ users'[u].email = users[u].email
        /\ users'[u].password = users[u].password
        /\ users'[u].verified => users[u].verified \/ u = o.uid
  <2> SUFFICES ASSUME NEW u \in Live
               PROVE  /\ users'[u] \in Users
                      /\ users'[u].by = users[u].by /\ users'[u].email = users[u].email
                      /\ users'[u].password = users[u].password
                      /\ users'[u].verified => users[u].verified \/ u = o.uid
    OBVIOUS
  <2>1. u \in Uids /\ users[u] \in Users
    BY LiveRow DEF AccountsInv
  <2>2. users'[u] = IF u = o.uid THEN [users[u] EXCEPT !.verified = TRUE] ELSE users[u]
    BY <2>1 DEF SetEmailVerified
  <2> HIDE DEF o
  <2> QED
    BY <2>1, <2>2 DEF Users
<1>7. Updates
  <2>1. users' \in [Uids -> Users \cup {NULL}]
    BY <1>5, <1>6 DEF SetEmailVerified
  <2>2. \A u \in Uids : users'[u] = NULL <=> users[u] = NULL
    BY <1>5, <1>6, Bounds DEF Live
  <2>3. UNCHANGED <<top, links, sessions, mails, sent>> /\ used' \subseteq 1..Len(sent)
    BY <1>3, <1>4 DEF SetEmailVerified, AccountsInv, MailsOK
  <2> QED
    BY <1>6, <2>1, <2>2, <2>3 DEF Updates
<1>8. OpsFit'
  BY <1>1, <1>7, UpdatesKeep, AdvanceFits DEF SetEmailVerified, AccountsInv
<1>9. UNCHANGED <<sessions, links, mails, sent>> /\ used \subseteq used'
  BY <1>4, <1>7 DEF Updates
<1>10. o.uid \in Live =>
         users[o.uid].by = users[o.uid].email
           \/ \E t \in used' : sent[t] = users[o.uid].email
  <2>1. CASE o.token # 0
    BY <1>3, <1>4, <2>1
  <2>2. CASE o.token = 0
    BY <1>1, <1>2, <2>2 DEF Fits, IsLive, Live
  <2> QED
    BY <2>1, <2>2
<1> HIDE DEF o
<1>11. OnlyItsPeopleGetIn'
  <2>1. \A u \in Live' : users'[u].password \in PeopleOf(u)' \cup {OAuth}
    BY <1>6, <1>7, UpdatesKeep DEF AccountsInv, Safe, OnlyItsPeopleGetIn
  <2>2. \A s \in sessions' : s[2] \in PeopleOf(s[1])'
    BY <1>7, <1>9, UpdatesKeep DEF AccountsInv, RowsOK, Safe, OnlyItsPeopleGetIn
  <2>3. \A p \in People : links'[p] # 0 => p \in PeopleOf(links[p])'
    BY <1>7, <1>9, UpdatesKeep DEF AccountsInv, RowsOK, Safe, OnlyItsPeopleGetIn
  <2> QED
    BY <1>9, <2>1, <2>2, <2>3 DEF OnlyItsPeopleGetIn
<1>12. AddressesAreProven'
  BY <1>6, <1>7, <1>9, <1>10, UpdatesKeep DEF AccountsInv, Safe, AddressesAreProven
<1>13. SpentLinksAreDead'
  BY <1>3, <1>4, <1>9 DEF AccountsInv, Safe, SpentLinksAreDead
<1> QED
  BY <1>7, <1>8, <1>11, <1>12, <1>13, UpdatesKeep DEF AccountsInv, Safe

-----------------------------------------------------------------------------
(* A deletion takes everything that refers to the account.                 *)

LEMMA DeleteUserSafe ==
    ASSUME AccountsInv, NEW u \in Uids, DeleteUser(u)
    PROVE  AccountsInv'
<1>1. UNCHANGED <<top, sent, op, used>>
  BY DEF DeleteUser
<1>2. Live' = Live \ {u} /\ \A v \in Live' : users'[v] = users[v]
  BY DEF DeleteUser, Live, AccountsInv, RowsOK
<1>3. RowsOK'
  <2>1. users' \in [Uids -> Users \cup {NULL}]
    BY DEF DeleteUser, AccountsInv, RowsOK
  <2>2. links' \in [People -> Live' \cup {0}] /\ sessions' \subseteq Live' \X People
    BY <1>2 DEF DeleteUser, AccountsInv, RowsOK
  <2> QED
    BY <1>1, <1>2, <2>1, <2>2 DEF AccountsInv, RowsOK
<1>4. MailsOK'
  BY <1>1, <1>2 DEF DeleteUser, AccountsInv, MailsOK
<1>5. Keeps /\ top \in Nat /\ top' \in Nat
  BY <1>1, <1>2, Bounds DEF DeleteUser, AccountsInv, RowsOK, MailsOK, Keeps
<1>6. OpsFit'
  <2>1. ASSUME NEW h \in Handlers, op[h] # NULL
        PROVE  op[h] \in Ops /\ Fits(op[h], users', top', sent', mails')
    <3>1. op[h] \in Ops /\ Fits(op[h], users, top, sent, mails)
      BY <2>1 DEF AccountsInv, OpsFit
    <3> QED
      BY <1>5, <3>1, KeepsFitting
  <2> QED
    BY <1>1, <2>1 DEF AccountsInv, OpsFit
<1>7. OnlyItsPeopleGetIn'
  <2>1. \A v \in Live' : PeopleOf(v)' = PeopleOf(v)
    BY <1>2 DEF PeopleOf
  <2>2. \A v \in Live' : users'[v].password \in PeopleOf(v)' \cup {OAuth}
    BY <1>2, <2>1 DEF AccountsInv, Safe, OnlyItsPeopleGetIn
  <2>3. \A s \in sessions' : s[2] \in PeopleOf(s[1])'
    BY <1>2, <2>1 DEF DeleteUser, AccountsInv, RowsOK, Safe, OnlyItsPeopleGetIn
  <2>4. \A p \in People : links'[p] # 0 => p \in PeopleOf(links[p])'
    BY <1>2, <2>1 DEF DeleteUser, AccountsInv, RowsOK, Safe, OnlyItsPeopleGetIn, PeopleOf
  <2> QED
    BY <2>2, <2>3, <2>4 DEF OnlyItsPeopleGetIn
<1>8. AddressesAreProven' /\ SpentLinksAreDead'
  BY <1>1, <1>2 DEF DeleteUser, AccountsInv, Safe, AddressesAreProven, SpentLinksAreDead
<1> QED
  BY <1>3, <1>4, <1>6, <1>7, <1>8 DEF AccountsInv, Safe

-----------------------------------------------------------------------------

LEMMA AccountsNext ==
    ASSUME Recycles = FALSE, AccountsInv, [Next]_vars
    PROVE  AccountsInv'
<1> USE DEF Request, Call
<1>1. CASE UNCHANGED vars
  <2>1. UNCHANGED <<tables, used>> /\ op' = op
    BY <1>1 DEF vars, rest
  <2>2. OpsFit'
    BY <2>1 DEF AccountsInv, OpsFit, tables
  <2> QED
    BY <2>1, <2>2, NothingWritten
<1>2. ASSUME NEW h \in Handlers, Request(h)
      PROVE  AccountsInv'
  <2>1. <<"create_token">> \in OtherPlans /\ <<"verify_password", "set_password">> \in OtherPlans
    BY DEF OtherPlans
  <2>2. CASE Refresh(h) \/ ChangePassword(h)
    BY <2>1, <2>2, AuthenticatedSafe DEF Refresh, ChangePassword
  <2>3. CASE ConfirmReset(h) \/ VerifyEmail(h)
    BY <2>3, OpenLinkSafe DEF ConfirmReset, VerifyEmail
  <2> QED
    BY <1>2, <2>2, <2>3, RegisterSafe, LoginSafe, RequestResetSafe, OAuthCallbackSafe
<1>3. ASSUME NEW h \in Handlers, Call(h)
      PROVE  AccountsInv'
  BY <1>3, CreateUserSafe, CreateTokenSafe, DeleteOldTokenSafe, InsertEmailTokenSafe,
     DeleteEmailTokenSafe, VerifyPasswordSafe, SetPasswordSafe, SetEmailVerifiedSafe,
     GetUserByEmailSafe, LinkSafe, GetUserByIdSafe
<1>4. ASSUME NEW h \in Handlers, Abort(h)
      PROVE  AccountsInv'
  BY <1>4, AbortSafe
<1>5. ASSUME NEW u \in Uids, DeleteUser(u)
      PROVE  AccountsInv'
  BY <1>5, DeleteUserSafe
<1> QED
  BY <1>1, <1>2, <1>3, <1>4, <1>5 DEF Next

\* Rows, handlers and links keep their types and fit one another (users, tokens,
\* email_tokens, oauth_accounts and what every handler carries from call to call).
THEOREM AccountsInvariant ==
    ASSUME Recycles = FALSE
    PROVE  Spec => []AccountsInv
<1>1. Init => AccountsInv
  BY AccountsInit
<1>2. AccountsInv /\ [Next]_vars => AccountsInv'
  BY AccountsNext
<1> QED
  BY <1>1, <1>2, PTL DEF Spec

\* Nobody but an account's creator and the owner of its address ever gets its
\* password, a token or an identity, though every handler goes on with an id it read
\* before accounts were deleted and created: Postgres gives no id out twice.
THEOREM OnlyItsPeopleEverGetIn ==
    ASSUME Recycles = FALSE
    PROVE  Spec => []OnlyItsPeopleGetIn
<1>1. AccountsInv => OnlyItsPeopleGetIn
  BY DEF AccountsInv, Safe
<1> QED
  BY <1>1, AccountsInvariant, PTL

\* email_verified is only ever set for an address whose owner followed a link sent
\* to it, or signed in with an identity the provider vouches that address for.
THEOREM VerifiedAddressesAreProven ==
    ASSUME Recycles = FALSE
    PROVE  Spec => []AddressesAreProven
<1>1. AccountsInv => AddressesAreProven
  BY DEF AccountsInv, Safe
<1> QED
  BY <1>1, AccountsInvariant, PTL

\* A link that was carried out has no row left in email_tokens, for any number of
\* requests that consume and renew links at the same time.
THEOREM SpentLinksStayDead ==
    ASSUME Recycles = FALSE
    PROVE  Spec => []SpentLinksAreDead
<1>1. AccountsInv => SpentLinksAreDead
  BY DEF AccountsInv, Safe
<1> QED
  BY <1>1, AccountsInvariant, PTL

-----------------------------------------------------------------------------
(* On either database: types, and what every handler has left to do.       *)

\* What a handler has left to do is a plan, and one that goes by an address has one.
Sound(o) == o \in Ops /\ o.todo \in Plans /\ (o.todo \in AddressPlans => o.email # NULL)

\* The links' ids are few and small: an id that is given out again is one above them.
LinksOK ==
    /\ sent \in Seq(People \cup {NULL})
    /\ mails \subseteq MailRows
    /\ \A m \in mails : m.uid \in Live /\ m.token \in 1..Len(sent) /\ m.id <= Len(sent)
    /\ \A ms \in SUBSET mails : ms # {} => \E m \in ms : \A n \in ms : n.id <= m.id
    /\ used \subseteq Nat

OpsSound == op \in [Handlers -> Ops \cup {NULL}] /\ \A h \in Handlers : op[h] # NULL => Sound(op[h])

TypesInv == RowsOK /\ LinksOK /\ OpsSound /\ deletes \in Nat /\ faults \in Nat

\* No plan comes back to a look-up or to creating an account.
LEMMA PlansGoOn ==
    ASSUME NEW t \in Plans, Tail(t) # <<>>
    PROVE  Tail(t) \in Plans \ AddressPlans /\ Head(Tail(t)) # "create_user"
<1>1. CASE t \in MailPlans
  BY <1>1, MailSteps DEF Plans
<1>2. CASE t \in DeletePlans
  <2>1. Tail(t) \in {PasswordPlan, VerifyPlan}
    BY <1>2, DeleteSteps
  <2> QED
    BY <2>1, SingleSteps DEF Plans, LinkPlans
<1>3. CASE t \in {VerifyPlan, PasswordPlan}
  BY <1>3, SingleSteps
<1>4. CASE t = LookupPlan
  <2>1. Tail(LookupPlan) = <<>>
    BY DEF LookupPlan
  <2> QED
    BY <1>4, <2>1
<1>5. CASE t = CreatePlan
  BY <1>5, VouchedSteps DEF Plans
<1>6. CASE t \in {VouchedPlan} \cup OtherPlans
  <2>1. Tail(t) \in {<<"link", "get_user", "create_token">>, <<"get_user", "create_token">>,
                     <<"create_token">>, PasswordPlan}
    BY <1>6, OtherTails, CreateTails DEF OtherPlans
  <2>2. CASE Tail(t) = PasswordPlan
    BY <2>2, SingleSteps DEF Plans, LinkPlans
  <2>3. CASE Tail(t) # PasswordPlan
    <3>1. Tail(t) \in OtherPlans
      BY <2>1, <2>3 DEF OtherPlans
    <3>2. Head(Tail(t)) # "create_user"
      <4>1. /\ Head(<<"link", "get_user", "create_token">>) = "link"
            /\ Head(<<"get_user", "create_token">>) = "get_user"
            /\ Head(<<"create_token">>) = "create_token"
        OBVIOUS
      <4>2. \/ Tail(t) = <<"link", "get_user", "create_token">>
            \/ Tail(t) = <<"get_user", "create_token">>
            \/ Tail(t) = <<"create_token">>
        BY <2>1, <2>3
      <4>3. Head(Tail(t)) \in {"link", "get_user", "create_token"}
        BY <4>1, <4>2, Zenon
      <4> QED
        BY <4>3
    <3>3. Tail(t) \in Plans
      BY <3>1 DEF Plans
    <3>4. Tail(t) \notin AddressPlans
      BY <3>1, OtherSteps
    <3> QED
      BY <3>2, <3>3, <3>4
  <2> QED
    BY <2>2, <2>3
<1> QED
  BY <1>1, <1>2, <1>3, <1>4, <1>5, <1>6 DEF Plans, LinkPlans, AddressPlans

LEMMA OneCallOn ==
    ASSUME NEW o, Sound(o), Tail(o.todo) # <<>>
    PROVE  LET n == [o EXCEPT !.todo = Tail(o.todo)] IN
           /\ Sound(n) /\ Same(o, n, {"todo"}) /\ n.todo = Tail(o.todo)
           /\ Head(n.todo) # "create_user"
<1> DEFINE n == [o EXCEPT !.todo = Tail(o.todo)]
<1>1. Tail(o.todo) \in Plans \ AddressPlans /\ Head(Tail(o.todo)) # "create_user"
  BY PlansGoOn DEF Sound
<1>2. Same(o, n, {"todo"}) /\ n.todo = Tail(o.todo)
  BY <1>1, SetTodo DEF Sound
<1> HIDE DEF n
<1>3. Sound(n) /\ Head(n.todo) # "create_user"
  BY <1>1, <1>2 DEF Sound, Same
<1> QED
  BY <1>2, <1>3 DEF n

-----------------------------------------------------------------------------
(* What a step leaves in its slot.                                         *)

\* A handler that is about to create an account for an identity without an address has
\* found that the identity has no row.
SlotBecomes(h, n) ==
    /\ op' = [op EXCEPT ![h] = n]
    /\ n # NULL =>
         /\ Sound(n)
         /\ Head(n.todo) = "create_user" /\ n.email = NULL => links[n.who] = 0

LEMMA Freed ==
    ASSUME NEW h \in Handlers, Fail(h)
    PROVE  SlotBecomes(h, NULL)
BY DEF Fail, SlotBecomes

LEMMA Advanced ==
    ASSUME OpsSound, NEW h \in Handlers, op[h] # NULL, Advance(h, op[h])
    PROVE  \E n : SlotBecomes(h, n) /\ (n # NULL => Head(n.todo) # "create_user")
<1> DEFINE o == op[h]
           n == [o EXCEPT !.todo = Tail(o.todo)]
<1>1. CASE Tail(o.todo) = <<>>
  <2>1. SlotBecomes(h, NULL)
    BY <1>1 DEF Advance, SlotBecomes
  <2> QED
    BY <2>1
<1>2. CASE Tail(o.todo) # <<>>
  <2>1. Sound(o)
    BY DEF OpsSound
  <2>2. op' = [op EXCEPT ![h] = n]
    BY <1>2 DEF Advance
  <2>3. Sound(n) /\ Head(n.todo) # "create_user"
    BY <1>2, <2>1, OneCallOn
  <2> HIDE DEF n
  <2>4. SlotBecomes(h, n)
    BY <2>2, <2>3 DEF SlotBecomes
  <2> QED
    BY <2>3, <2>4
<1> QED
  BY <1>1, <1>2

\* A request whose plan goes by no address.
LEMMA Begun ==
    ASSUME NEW h \in Handlers, NEW o \in Ops, Begin(h, o), NEW t \in Plans \ AddressPlans,
           o.todo = t, Head(t) # "create_user"
    PROVE  SlotBecomes(h, o)
BY DEF Begin, SlotBecomes, Sound

LEMMA LoginBegun ==
    ASSUME TypesInv, NEW h \in Handlers, Login(h)
    PROVE  \E n : SlotBecomes(h, n)
<1>1. PICK u \in Live, p \in People :
        Begin(h, [Blank(p) EXCEPT !.uid = u, !.todo = <<"create_token">>])
  BY DEF Login
<1> DEFINE o == [Blank(p) EXCEPT !.uid = u, !.todo = <<"create_token">>]
<1>2. u \in 0..MaxUid
  BY LiveRow, Bounds DEF TypesInv
<1>3. <<"create_token">> \in Plans \ AddressPlans /\ Head(<<"create_token">>) # "create_user"
  <2>1. <<"create_token">> \in OtherPlans
    BY DEF OtherPlans
  <2> QED
    BY <2>1, OtherSteps DEF Plans
<1>4. Plain(o, p, u, <<"create_token">>)
  BY <1>2, <1>3, PlainRequest
<1>5. Begin(h, o)
  BY <1>1
<1> HIDE DEF o
<1>6. SlotBecomes(h, o)
  BY <1>3, <1>4, <1>5, Begun DEF Plain
<1> QED
  BY <1>6

LEMMA AuthenticatedBegun ==
    ASSUME TypesInv, NEW h \in Handlers, NEW todo \in OtherPlans, Authenticated(h, todo),
           Head(todo) # "create_user"
    PROVE  \E n : SlotBecomes(h, n)
<1>1. PICK s \in ValidTokens :
        Begin(h, [Blank(s[2]) EXCEPT !.uid = s[1], !.todo = todo])
  BY DEF Authenticated
<1> DEFINE o == [Blank(s[2]) EXCEPT !.uid = s[1], !.todo = todo]
<1>2. s[1] \in Live /\ s[2] \in People
  BY DEF ValidTokens, TypesInv, RowsOK
<1>3. s[1] \in 0..MaxUid
  BY <1>2, LiveRow, Bounds DEF TypesInv
<1>4. todo \in Plans \ AddressPlans
  BY OtherSteps DEF Plans
<1>5. Plain(o, s[2], s[1], todo)
  BY <1>2, <1>3, <1>4, PlainRequest
<1>6. Begin(h, o)
  BY <1>1
<1> HIDE DEF o
<1>7. SlotBecomes(h, o)
  BY <1>4, <1>5, <1>6, Begun DEF Plain
<1> QED
  BY <1>7

LEMMA RequestResetBegun ==
    ASSUME TypesInv, NEW h \in Handlers, RequestReset(h)
    PROVE  \E n : SlotBecomes(h, n)
<1>1. PICK u \in Live :
        Begin(h, ResetOp(users[u].by, u, users[u].email))
  BY DEF RequestReset, ResetOp
<1> DEFINE o == ResetOp(users[u].by, u, users[u].email)
<1>2. u \in 0..MaxUid /\ users[u].by \in People /\ users[u].email \in People \cup {NULL}
  BY LiveRow, Bounds DEF TypesInv
<1>3. Plain(o, users[u].by, u, <<"delete_old", "insert_token">>)
  BY <1>2, ResetRequest
<1>4. Begin(h, o)
  BY <1>1
<1> HIDE DEF o
<1>5. <<"delete_old", "insert_token">> \in Plans \ AddressPlans
      /\ Head(<<"delete_old", "insert_token">>) # "create_user"
  <2>1. <<"delete_old", "insert_token">> \in MailPlans
    BY DEF MailPlans
  <2> QED
    BY <2>1, MailSteps DEF Plans
<1>6. SlotBecomes(h, o)
  BY <1>3, <1>4, <1>5, Begun DEF Plain
<1> QED
  BY <1>6

LEMMA OpenLinkBegun ==
    ASSUME TypesInv, NEW h \in Handlers, NEW kind, OpenLink(h, kind)
    PROVE  \E n : SlotBecomes(h, n)
<1>1. PICK m \in mails :
        sent[m.token] # NULL /\ Begin(h, LinkOp(sent[m.token], m))
  BY DEF OpenLink, LinkOp
<1> DEFINE o == LinkOp(sent[m.token], m)
<1>2. m.token \in 1..Len(sent) /\ m \in MailRows /\ m.uid \in Live
  BY DEF TypesInv, LinksOK
<1>3. sent[m.token] \in People
  BY <1>1, <1>2 DEF TypesInv, LinksOK
<1>4. o \in Ops /\ o.todo = FollowUp(m.kind)
  BY <1>2, <1>3, LinkRequest
<1>5. Begin(h, o)
  BY <1>1
<1> HIDE DEF o
<1>6. FollowUp(m.kind) \in Plans \ AddressPlans /\ Head(FollowUp(m.kind)) # "create_user"
  <2>1. FollowUp(m.kind) \in DeletePlans
    BY DEF FollowUp, DeletePlans
  <2> QED
    BY <2>1, DeleteSteps DEF Plans, LinkPlans
<1>7. SlotBecomes(h, o)
  BY <1>4, <1>5, <1>6, Begun
<1> QED
  BY <1>7

LEMMA OAuthCallbackBegun ==
    ASSUME TypesInv, NEW h \in Handlers, OAuthCallback(h)
    PROVE  \E n : SlotBecomes(h, n)
<1> DEFINE email(p) == IF LinkOf(p) = 0 THEN EmailOf(p) ELSE NULL
           todo(p) == IF LinkOf(p) # 0 THEN <<"create_token">>
                      ELSE IF EmailOf(p) # NULL THEN <<"user_by_email">>
                      ELSE CreateAndLink(EmailOf(p))
<1>1. PICK p \in People :
        Begin(h, [Blank(p) EXCEPT !.email = email(p), !.oauth = TRUE,
                    !.uid = LinkOf(p), !.todo = todo(p)])
  BY DEF OAuthCallback
<1> DEFINE o == SignInOp(p, email(p), LinkOf(p), todo(p))
<1>2. email(p) \in People \cup {NULL}
  BY DEF EmailOf
<1>3. LinkOf(p) \in 0..MaxUid
  <2>1. links[p] \in Live \cup {0}
    BY DEF TypesInv, RowsOK
  <2> QED
    BY <2>1, LiveRow, Bounds DEF LinkOf, TypesInv
<1>4. \/ todo(p) = <<"create_token">>
      \/ todo(p) = LookupPlan /\ email(p) # NULL
      \/ todo(p) = NamelessPlan /\ links[p] = 0
  <2>1. LinkOf(p) # 0 => todo(p) = <<"create_token">>
    OBVIOUS
  <2>2. LinkOf(p) = 0 /\ EmailOf(p) # NULL => todo(p) = LookupPlan /\ email(p) # NULL
    BY DEF LookupPlan
  <2>3. LinkOf(p) = 0 /\ EmailOf(p) = NULL => todo(p) = NamelessPlan /\ LinkOf(p) = 0
    BY DEF CreateAndLink, NamelessPlan
  <2>4. LinkOf(p) = 0 => links[p] = 0
    BY Bounds DEF LinkOf, TypesInv, RowsOK, Live, Uids
  <2> HIDE DEF email, todo
  <2> QED
    BY <2>1, <2>2, <2>3, <2>4
<1>5. Begin(h, o)
  BY <1>1 DEF SignInOp
<1> HIDE DEF email, todo
<1>6. <<"create_token">> \in OtherPlans /\ NamelessPlan \in OtherPlans
  BY DEF OtherPlans
<1>7. todo(p) \in Plans
  BY <1>4, <1>6 DEF Plans, AddressPlans
<1>8. Plain(o, p, LinkOf(p), todo(p)) /\ o.email = email(p)
  BY <1>2, <1>3, <1>7, SignInRequest
<1> HIDE DEF o
<1>9. todo(p) \in AddressPlans => o.email # NULL
  BY <1>4, <1>6, <1>8, OtherSteps
<1>10. Head(todo(p)) = "create_user" => links[p] = 0
  <2>1. Head(<<"create_token">>) # "create_user" /\ Head(LookupPlan) # "create_user"
    BY SingleSteps
  <2> QED
    BY <1>4, <2>1
<1>11. SlotBecomes(h, o)
  BY <1>5, <1>7, <1>8, <1>9, <1>10 DEF Plain, Begin, SlotBecomes, Sound
<1> QED
  BY <1>11

LEMMA GetUserByEmailGoesOn ==
    ASSUME TypesInv, NEW h \in Handlers, GetUserByEmail(h)
    PROVE  \E n : SlotBecomes(h, n)
<1> DEFINE o == op[h]
           u == CHOOSE v \in Live : users[v].email = o.email
           new == [o EXCEPT !.todo = CreateAndLink(o.email)]
           b == [o EXCEPT !.uid = u]
           old == [b EXCEPT !.todo = <<"link", "create_token">>]
<1>1. Sound(o) /\ o.todo # <<>> /\ Head(o.todo) = "user_by_email"
  BY DEF GetUserByEmail, At, TypesInv, OpsSound
<1>2. op' = [op EXCEPT ![h] = IF Unclaimed(o.email) THEN new ELSE old]
  BY DEF GetUserByEmail
<1> HIDE DEF o
<1>3. o \in Ops /\ o.todo = LookupPlan /\ o.email # NULL
  BY <1>1, MailSteps, DeleteSteps, SingleSteps, VouchedSteps, OtherSteps
     DEF Sound, Plans, LinkPlans, AddressPlans
<1>4. CASE Unclaimed(o.email)
  <2>1. CreateAndLink(o.email) = CreatePlan
    BY <1>3 DEF CreateAndLink, CreatePlan
  <2>2. CreatePlan \in Plans
    BY DEF Plans, AddressPlans
  <2>3. Same(o, new, {"todo"}) /\ new.todo = CreatePlan
    BY <1>3, <2>1, <2>2, SetTodo
  <2> HIDE DEF new
  <2>4. SlotBecomes(h, new)
    BY <1>2, <1>3, <1>4, <2>2, <2>3 DEF Same, Sound, SlotBecomes
  <2> QED
    BY <2>4
<1>5. CASE ~Unclaimed(o.email)
  <2>1. u \in Live
    BY <1>5 DEF Unclaimed
  <2> HIDE DEF u
  <2>2. u \in 0..MaxUid
    BY <2>1, LiveRow, Bounds DEF TypesInv
  <2>3. Same(o, b, {"uid"}) /\ b.uid = u
    BY <1>3, <2>2, SetUid
  <2>4. <<"link", "create_token">> \in Plans \ AddressPlans
        /\ Head(<<"link", "create_token">>) # "create_user"
    <3>1. <<"link", "create_token">> \in OtherPlans
      BY DEF OtherPlans
    <3> QED
      BY <3>1, OtherSteps DEF Plans
  <2> HIDE DEF b
  <2>5. Same(b, old, {"todo"}) /\ old.todo = <<"link", "create_token">>
    BY <2>3, <2>4, SetTodo DEF Same
  <2> HIDE DEF old
  <2>6. SlotBecomes(h, old)
    BY <1>2, <1>5, <2>4, <2>5 DEF Same, Sound, SlotBecomes
  <2> QED
    BY <2>6
<1> QED
  BY <1>4, <1>5

-----------------------------------------------------------------------------
(* New accounts.                                                           *)

\* Handler o has inserted account u, over nothing or over nobody's row.
Inserts(h, o, u) ==
    /\ u \in Uids
    /\ users' \in [Uids -> Users \cup {NULL}]
    /\ Live' = Live \cup {u}
    /\ \A v \in Live \ {u} : users'[v] = users[v]
    /\ users'[u].by = o.who /\ users'[u].email = o.email
    /\ users'[u].password = OAuth => o.oauth
    /\ top' \in 0..MaxUid /\ \A v \in Live' : v <= top'
    /\ op' = [op EXCEPT ![h] = [o EXCEPT !.uid = u]]

LEMMA UserInserted ==
    ASSUME RowsOK, NEW h \in Handlers, NEW o \in Ops, InsertUser(h, o)
    PROVE  \/ Fail(h) /\ UNCHANGED <<users, top>>
           \/ \E u \in Uids : Inserts(h, o, u)
<1> SUFFICES ASSUME ~(Fail(h) /\ UNCHANGED <<users, top>>)
             PROVE  \E u \in Uids : Inserts(h, o, u)
  OBVIOUS
<1> DEFINE u == NextId(Live, top)
           row == [email |-> o.email, verified |-> FALSE, by |-> o.who,
                   password |-> IF o.oauth THEN OAuth ELSE o.who]
<1>1. /\ u \in Uids /\ users' = [users EXCEPT ![u] = row]
      /\ top' = (IF u > top THEN u ELSE top)
      /\ op' = [op EXCEPT ![h] = [o EXCEPT !.uid = u]]
  BY DEF InsertUser
<1>2. row \in Users
  <2>1. o.email \in People \cup {NULL} /\ o.who \in People
    BY DEF Ops
  <2> QED
    BY <2>1 DEF Users
<1>3. row.email = o.email /\ row.by = o.who /\ (row.password = OAuth => o.oauth)
  BY Bounds DEF Ops
<1> HIDE DEF u, row
<1>4. row # NULL
  BY <1>2, Bounds
<1>5. users' \in [Uids -> Users \cup {NULL}] /\ users'[u] = row
      /\ \A v \in Uids \ {u} : users'[v] = users[v]
  BY <1>1, <1>2 DEF RowsOK
<1>6. Live' = Live \cup {u}
  BY <1>1, <1>4, <1>5 DEF Live
<1>7. \A v \in Live \ {u} : users'[v] = users[v]
  BY <1>5 DEF Live
<1>8. top' \in 0..MaxUid /\ \A v \in Live' : v <= top'
  BY <1>1, <1>6, Bounds DEF RowsOK, Uids, Live
<1>9. Inserts(h, o, u)
  BY <1>1, <1>3, <1>5, <1>6, <1>7, <1>8 DEF Inserts
<1> QED
  BY <1>1, <1>9

\* What the form and a sign-in insert.
LEMMA Registers ==
    ASSUME TypesInv, NEW h \in Handlers, Register(h)
    PROVE  \E o : /\ InsertUser(h, o) /\ Sound(o) /\ Head(o.todo) # "create_user"
                  /\ o.oauth = FALSE
<1> DEFINE todo(e) == IF e = NULL THEN <<"create_token">>
                      ELSE <<"create_token", "delete_old", "insert_token">>
<1>1. PICK p \in Registrants, e \in People \cup {NULL} :
        InsertUser(h, [Blank(p) EXCEPT !.email = e, !.todo = todo(e)])
  BY DEF Register
<1> DEFINE o == [Blank(p) EXCEPT !.email = e, !.todo = todo(e)]
<1>2. InsertUser(h, o)
  BY <1>1
<1>3. todo(e) \in MailPlans \cup OtherPlans
  BY DEF MailPlans, OtherPlans
<1>4. Head(todo(e)) # "create_user"
  OBVIOUS
<1> HIDE DEF todo
<1>5. todo(e) \in Plans \ AddressPlans
  BY <1>3, MailSteps, OtherSteps DEF Plans
<1>6. Plain(o, p, 0, todo(e)) /\ o.oauth = FALSE
  BY <1>5, Bounds, FormRequest
<1> HIDE DEF o
<1>7. Sound(o) /\ Head(o.todo) # "create_user"
  BY <1>4, <1>5, <1>6 DEF Plain, Sound
<1> QED
  BY <1>2, <1>6, <1>7

LEMMA Creates ==
    ASSUME TypesInv, NEW h \in Handlers, CreateUser(h)
    PROVE  LET n == [op[h] EXCEPT !.todo = Tail(@)] IN
           /\ InsertUser(h, n) /\ Sound(n) /\ Head(n.todo) # "create_user"
           /\ n.who = op[h].who /\ n.email = op[h].email
           /\ n.email = NULL => n.todo # <<>> /\ Head(n.todo) = "link"
<1> DEFINE o == op[h]
           n == [o EXCEPT !.todo = Tail(o.todo)]
<1>1. Sound(o) /\ o.todo # <<>> /\ Head(o.todo) = "create_user"
  BY DEF CreateUser, At, TypesInv, OpsSound
<1>2. InsertUser(h, n)
  BY DEF CreateUser
<1>3. n = [op[h] EXCEPT !.todo = Tail(@)]
  OBVIOUS
<1> HIDE DEF o
<1>4. o.todo \in {CreatePlan, NamelessPlan}
  <2>1. o.todo \in {CreatePlan} \cup OtherPlans
    BY <1>1, MailSteps, DeleteSteps, SingleSteps, VouchedSteps
       DEF Sound, Plans, LinkPlans, AddressPlans
  <2>2. o.todo \in OtherPlans => o.todo = NamelessPlan
    BY <1>1 DEF OtherPlans
  <2> QED
    BY <2>1, <2>2
<1>5. Tail(o.todo) # <<>>
  BY <1>4, CreateTails, VouchedSteps
<1>6. Sound(n) /\ Same(o, n, {"todo"}) /\ n.todo = Tail(o.todo) /\ Head(n.todo) # "create_user"
  BY <1>1, <1>5, OneCallOn
<1> HIDE DEF n
<1>7. n.email = NULL => n.todo # <<>> /\ Head(n.todo) = "link"
  <2>1. n.email = NULL => n.todo = <<"link", "get_user", "create_token">>
    BY <1>1, <1>4, <1>6, CreateTails DEF Sound, Same, AddressPlans
  <2> QED
    BY <2>1
<1>8. n.who = op[h].who /\ n.email = op[h].email
  BY <1>6 DEF Same, o
<1>9. /\ InsertUser(h, n) /\ Sound(n) /\ Head(n.todo) # "create_user"
      /\ n.who = op[h].who /\ n.email = op[h].email
      /\ n.email = NULL => n.todo # <<>> /\ Head(n.todo) = "link"
  BY <1>2, <1>6, <1>7, <1>8
<1> QED
  BY <1>9 DEF n, o

\* A handler that goes on with the account it inserted.
LEMMA InsertedGoesOn ==
    ASSUME RowsOK, NEW h \in Handlers, NEW o, Sound(o), InsertUser(h, o),
           Head(o.todo) # "create_user"
    PROVE  \E n : SlotBecomes(h, n)
<1>1. o \in Ops
  BY DEF Sound
<1>2. CASE Fail(h)
  BY <1>2, Freed
<1>3. ASSUME NEW u \in Uids, Inserts(h, o, u)
      PROVE  \E n : SlotBecomes(h, n)
  <2> DEFINE n == [o EXCEPT !.uid = u]
  <2>1. op' = [op EXCEPT ![h] = n]
    BY <1>3 DEF Inserts
  <2>2. Same(o, n, {"uid"})
    BY <1>1, SetUid, Bounds DEF Uids
  <2> HIDE DEF n
  <2>3. SlotBecomes(h, n)
    BY <2>1, <2>2 DEF Same, Sound, SlotBecomes
  <2> QED
    BY <2>3
<1> QED
  BY <1>1, <1>2, <1>3, UserInserted

-----------------------------------------------------------------------------
(* Every step of a handler.                                                *)

LEMMA HandlerSteps ==
    ASSUME TypesInv, NEW h \in Handlers, Request(h) \/ Call(h) \/ Abort(h)
    PROVE  \E n : SlotBecomes(h, n)
<1>1. CASE Login(h) \/ RequestReset(h) \/ OAuthCallback(h) \/ GetUserByEmail(h)
  BY <1>1, LoginBegun, RequestResetBegun, OAuthCallbackBegun, GetUserByEmailGoesOn
<1>2. CASE Refresh(h) \/ ChangePassword(h)
  <2>1. <<"create_token">> \in OtherPlans /\ Head(<<"create_token">>) # "create_user"
    BY DEF OtherPlans
  <2>2. <<"verify_password", "set_password">> \in OtherPlans
        /\ Head(<<"verify_password", "set_password">>) # "create_user"
    BY DEF OtherPlans
  <2> QED
    BY <1>2, <2>1, <2>2, AuthenticatedBegun DEF Refresh, ChangePassword
<1>3. CASE ConfirmReset(h) \/ VerifyEmail(h)
  BY <1>3, OpenLinkBegun DEF ConfirmReset, VerifyEmail
<1>4. CASE Register(h)
  BY <1>4, Registers, InsertedGoesOn DEF TypesInv
<1>5. CASE CreateUser(h)
  BY <1>5, Creates, InsertedGoesOn DEF TypesInv
<1>6. CASE Fail(h)
  BY <1>6, Freed
<1>7. CASE op[h] # NULL /\ Advance(h, op[h])
  BY <1>7, Advanced DEF TypesInv
<1>8. CASE \/ CreateToken(h) \/ DeleteOldToken(h) \/ DeleteEmailToken(h)
           \/ VerifyPassword(h) \/ SetPasswordHash(h) \/ SetEmailVerified(h)
           \/ LinkOAuthAccount(h) \/ GetUserById(h) \/ InsertEmailToken(h) \/ Abort(h)
  <2>1. Fail(h) \/ (op[h] # NULL /\ Advance(h, op[h]))
    BY <1>8 DEF CreateToken, DeleteOldToken, DeleteEmailToken, VerifyPassword,
                SetPasswordHash, SetEmailVerified, LinkOAuthAccount, GetUserById,
                InsertEmailToken, Abort, At
  <2> QED
    BY <1>6, <1>7, <2>1
<1> QED
  BY <1>1, <1>2, <1>3, <1>4, <1>5, <1>8 DEF Request, Call

-----------------------------------------------------------------------------
(* What a step leaves of the tables.                                       *)

\* Every row's account stays, with its address and creator, and gets no sentinel for a
\* password.
RowsKept ==
    /\ users' \in [Uids -> Users \cup {NULL}]
    /\ Live' = Live
    /\ \A u \in Live :
         /\ users'[u].by = users[u].by /\ users'[u].email = users[u].email
         /\ users'[u].password = OAuth => users[u].password = OAuth

LEMMA RowsUntouched ==
    ASSUME RowsOK, UNCHANGED users
    PROVE  RowsKept
BY DEF RowsOK, RowsKept, Live

LEMMA RowUpdated ==
    ASSUME TypesInv, NEW h \in Handlers, SetPasswordHash(h) \/ SetEmailVerified(h)
    PROVE  RowsKept
<1> DEFINE o == op[h]
<1>1. o \in Ops
  BY DEF TypesInv, OpsSound, Sound, SetPasswordHash, SetEmailVerified, At
<1>2. \A u \in Live : u \in Uids /\ users[u] \in Users
  BY LiveRow DEF TypesInv
<1>3. \A u \in Uids \ Live : users[u] = NULL
  BY DEF Live
<1>4. CASE SetPasswordHash(h)
  <2>1. users' = [u \in Uids |-> IF u = o.uid /\ u \in Live
                                   THEN [users[u] EXCEPT !.password = o.who] ELSE users[u]]
    BY <1>4 DEF SetPasswordHash
  <2>2. o.who \in People /\ o.who # OAuth
    BY <1>1, Bounds DEF Ops
  <2> HIDE DEF o
  <2>3. ASSUME NEW u \in Live
        PROVE  /\ users'[u] \in Users
               /\ users'[u].by = users[u].by /\ users'[u].email = users[u].email
               /\ users'[u].password = OAuth => users[u].password = OAuth
    <3>1. users'[u] = IF u = o.uid THEN [users[u] EXCEPT !.password = o.who] ELSE users[u]
      BY <1>2, <2>1
    <3> QED
      BY <1>2, <2>2, <3>1 DEF Users
  <2>4. \A u \in Uids \ Live : users'[u] = NULL
    BY <1>3, <2>1
  <2>5. users' \in [Uids -> Users \cup {NULL}]
    BY <2>1, <2>3, <2>4
  <2>6. Live' = Live
    BY <1>2, <2>3, <2>4, Bounds DEF Live
  <2> QED
    BY <2>3, <2>5, <2>6 DEF RowsKept
<1>5. CASE SetEmailVerified(h)
  <2>1. users' = [u \in Uids |-> IF u = o.uid /\ u \in Live
                                   THEN [users[u] EXCEPT !.verified = TRUE] ELSE users[u]]
    BY <1>5 DEF SetEmailVerified
  <2> HIDE DEF o
  <2>3. ASSUME NEW u \in Live
        PROVE  /\ users'[u] \in Users
               /\ users'[u].by = users[u].by /\ users'[u].email = users[u].email
               /\ users'[u].password = OAuth => users[u].password = OAuth
    <3>1. users'[u] = IF u = o.uid THEN [users[u] EXCEPT !.verified = TRUE] ELSE users[u]
      BY <1>2, <2>1
    <3> QED
      BY <1>2, <3>1 DEF Users
  <2>4. \A u \in Uids \ Live : users'[u] = NULL
    BY <1>3, <2>1
  <2>5. users' \in [Uids -> Users \cup {NULL}]
    BY <2>1, <2>3, <2>4
  <2>6. Live' = Live
    BY <1>2, <2>3, <2>4, Bounds DEF Live
  <2> QED
    BY <2>3, <2>5, <2>6 DEF RowsKept
<1> QED
  BY <1>4, <1>5

\* A step that leaves the accounts and writes links, identities and tokens as it may.
LEMMA RowsStay ==
    ASSUME TypesInv, RowsKept, UNCHANGED <<top, links, sessions, mails, sent>>
    PROVE  RowsOK' /\ (used' \subseteq Nat => LinksOK')
<1>1. RowsOK'
  BY DEF TypesInv, RowsOK, RowsKept
<1>2. used' \subseteq Nat => LinksOK'
  BY DEF TypesInv, LinksOK, RowsKept
<1> QED
  BY <1>1, <1>2

\* A handler that reads, or ends.
Reads(h) ==
    \/ Login(h) \/ Refresh(h) \/ ChangePassword(h) \/ RequestReset(h) \/ ConfirmReset(h)
    \/ VerifyEmail(h) \/ OAuthCallback(h) \/ VerifyPassword(h) \/ GetUserByEmail(h)
    \/ GetUserById(h)

LEMMA ReadsWriteNothing ==
    ASSUME NEW h \in Handlers, Reads(h)
    PROVE  UNCHANGED <<tables, rest>>
BY DEF Reads, Login, Refresh, ChangePassword, Authenticated, RequestReset, ConfirmReset,
       VerifyEmail, OpenLink, OAuthCallback, VerifyPassword, GetUserByEmail, GetUserById

LEMMA UnwrittenTypes ==
    ASSUME TypesInv, UNCHANGED <<tables, used>>
    PROVE  RowsOK' /\ LinksOK'
<1>1. UNCHANGED <<users, top, links, sessions, mails, sent, used>> /\ used' \subseteq Nat
  BY DEF tables, TypesInv, LinksOK
<1>2. RowsKept
  BY <1>1, RowsUntouched DEF TypesInv
<1> QED
  BY <1>1, <1>2, RowsStay

LEMMA InsertedTypes ==
    ASSUME TypesInv, NEW h \in Handlers, NEW o \in Ops, InsertUser(h, o),
           UNCHANGED <<links, sessions, mails, sent, used>>
    PROVE  RowsOK' /\ LinksOK'
<1>1. CASE UNCHANGED <<users, top>>
  BY <1>1, UnwrittenTypes DEF tables
<1>2. ASSUME NEW u \in Uids, Inserts(h, o, u)
      PROVE  RowsOK' /\ LinksOK'
  <2>1. Live \subseteq Live'
    BY <1>2 DEF Inserts
  <2>2. RowsOK'
    BY <1>2, <2>1 DEF TypesInv, RowsOK, Inserts
  <2>3. LinksOK'
    BY <2>1 DEF TypesInv, LinksOK
  <2> QED
    BY <2>2, <2>3
<1> QED
  BY <1>1, <1>2, UserInserted DEF TypesInv

LEMMA FewerLinksTypes ==
    ASSUME TypesInv, UNCHANGED <<users, top, links, sessions, sent, used>>, mails' \subseteq mails
    PROVE  RowsOK' /\ LinksOK'
<1>1. Live' = Live
  BY DEF Live
<1>2. RowsOK'
  BY <1>1 DEF TypesInv, RowsOK
<1>3. \A ms \in SUBSET mails' : ms \in SUBSET mails
  OBVIOUS
<1>4. LinksOK'
  BY <1>1, <1>3 DEF TypesInv, LinksOK
<1> QED
  BY <1>2, <1>4

\* The next id of a link is above those in use.
LEMMA NextLinkId ==
    ASSUME LinksOK
    PROVE  LET i == NextId({m.id : m \in mails}, Len(sent)) IN
           i \in Nat /\ i <= Len(sent) + 1 /\ \A m \in mails : m.id < i
<1> DEFINE ids == {m.id : m \in mails} \cup {0}
<1>1. Len(sent) \in Nat /\ \A m \in mails : m.id \in Nat /\ m.id <= Len(sent)
  BY DEF LinksOK, MailRows
<1>2. \E x \in ids : \A y \in ids : x >= y
  <2>1. CASE mails = {}
    BY <2>1
  <2>2. CASE mails # {}
    <3>1. PICK m \in mails : \A n \in mails : n.id <= m.id
      BY <2>2 DEF LinksOK
    <3>2. m.id \in ids /\ \A y \in ids : m.id >= y
      BY <1>1, <3>1
    <3> QED
      BY <3>2
  <2> QED
    BY <2>1, <2>2
<1>3. Max(ids) \in ids /\ \A y \in ids : Max(ids) >= y
  BY <1>2 DEF Max
<1>4. Max(ids) \in Nat /\ Max(ids) <= Len(sent)
  BY <1>1, <1>3
<1> DEFINE i == NextId({m.id : m \in mails}, Len(sent))
<1>5. i = 1 + Max(ids) \/ i = 1 + Len(sent)
  BY DEF NextId
<1>6. \A m \in mails : m.id \in ids
  OBVIOUS
<1> HIDE DEF ids, i
<1>7. i \in Nat /\ i <= Len(sent) + 1
  BY <1>1, <1>4, <1>5
<1>8. \A m \in mails : m.id < i
  BY <1>1, <1>3, <1>4, <1>5, <1>6
<1> QED
  BY <1>7, <1>8 DEF i

LEMMA NewLinkTypes ==
    ASSUME TypesInv, NEW h \in Handlers, InsertEmailToken(h)
    PROVE  RowsOK' /\ LinksOK'
<1> DEFINE o == op[h]
           i == NextId({x.id : x \in mails}, Len(sent))
           m == [id |-> i, uid |-> o.uid, kind |-> o.kind, token |-> Len(sent) + 1]
<1>1. o \in Ops
  BY DEF InsertEmailToken, At, TypesInv, OpsSound, Sound
<1>2. UNCHANGED <<users, top, links, sessions, used>>
  BY DEF InsertEmailToken, rest
<1>3. CASE UNCHANGED <<mails, sent>>
  BY <1>2, <1>3, UnwrittenTypes DEF tables
<1>4. CASE ~UNCHANGED <<mails, sent>>
  <2>1. o.uid \in Live /\ sent' = Append(sent, o.email) /\ mails' = mails \cup {m}
    BY <1>4 DEF InsertEmailToken
  <2>2. o.email \in People \cup {NULL} /\ o.uid \in Uids /\ o.kind \in {"verify", "reset"}
    BY <1>1, <2>1 DEF Ops, Live
  <2>3. i \in Nat /\ i <= Len(sent) + 1 /\ \A n \in mails : n.id < i
    BY NextLinkId DEF TypesInv
  <2> HIDE DEF o, i
  <2>4. sent \in Seq(People \cup {NULL}) /\ Len(sent) \in Nat
    BY DEF TypesInv, LinksOK
  <2>5. sent' \in Seq(People \cup {NULL}) /\ Len(sent') = Len(sent) + 1
    BY <2>1, <2>2, <2>4
  <2>6. m \in MailRows /\ m.uid = o.uid /\ m.token = Len(sent) + 1 /\ m.id = i
    BY <2>2, <2>3, <2>4 DEF MailRows
  <2> HIDE DEF m
  <2>7. Live' = Live
    BY <1>2 DEF Live
  <2>8. \A n \in mails : n.id \in Nat /\ n.token \in Nat
    BY DEF TypesInv, LinksOK, MailRows
  <2>9. \A n \in mails' : n.uid \in Live' /\ n.token \in 1..Len(sent') /\ n.id <= Len(sent')
    BY <2>1, <2>3, <2>4, <2>5, <2>6, <2>7, <2>8 DEF TypesInv, LinksOK
  <2>10. ASSUME NEW ms \in SUBSET mails', ms # {}
         PROVE  \E x \in ms : \A n \in ms : n.id <= x.id
    <3>1. CASE m \in ms
      BY <2>1, <2>3, <2>6, <2>8, <3>1
    <3>2. CASE m \notin ms
      <4>1. ms \in SUBSET mails
        BY <2>1, <3>2
      <4> QED
        BY <2>10, <4>1 DEF TypesInv, LinksOK
    <3> QED
      BY <3>1, <3>2
  <2>11. mails' \subseteq MailRows /\ used' \subseteq Nat
    BY <1>2, <2>1, <2>6 DEF TypesInv, LinksOK
  <2>12. LinksOK'
    BY <2>5, <2>9, <2>10, <2>11 DEF LinksOK
  <2>13. RowsOK'
    BY <1>2, <2>7 DEF TypesInv, RowsOK
  <2> QED
    BY <2>12, <2>13
<1> QED
  BY <1>3, <1>4

LEMMA TokenAndLinkTypes ==
    ASSUME TypesInv, NEW h \in Handlers, CreateToken(h) \/ LinkOAuthAccount(h)
    PROVE  RowsOK' /\ LinksOK'
<1>1. UNCHANGED <<users, top, mails, sent, used>>
  BY DEF CreateToken, LinkOAuthAccount, rest
<1>2. Live' = Live
  BY <1>1 DEF Live
<1>3. op[h].who \in People
  BY DEF CreateToken, LinkOAuthAccount, At, TypesInv, OpsSound, Sound, Ops
<1>4. links' \in [People -> Live \cup {0}]
  BY <1>3 DEF CreateToken, LinkOAuthAccount, TypesInv, RowsOK
<1>5. sessions' \subseteq Live \X People
  BY <1>3 DEF CreateToken, LinkOAuthAccount, TypesInv, RowsOK
<1>6. RowsOK'
  BY <1>1, <1>2, <1>4, <1>5 DEF TypesInv, RowsOK
<1>7. LinksOK'
  BY <1>1, <1>2 DEF TypesInv, LinksOK
<1> QED
  BY <1>6, <1>7

LEMMA DeletedTypes ==
    ASSUME TypesInv, NEW u \in Uids, DeleteUser(u)
    PROVE  RowsOK' /\ LinksOK'
<1>1. UNCHANGED <<top, sent, used>> /\ mails' \subseteq mails
  BY DEF DeleteUser
<1>2. Live' = Live \ {u}
  BY DEF DeleteUser, Live, TypesInv, RowsOK
<1>3. users' \in [Uids -> Users \cup {NULL}]
  BY DEF DeleteUser, TypesInv, RowsOK
<1>4. links' \in [People -> Live' \cup {0}] /\ sessions' \subseteq Live' \X People
  BY <1>2 DEF DeleteUser, TypesInv, RowsOK
<1>5. RowsOK'
  BY <1>1, <1>2, <1>3, <1>4 DEF TypesInv, RowsOK
<1>6. \A m \in mails' : m \in mails /\ m.uid # u
  BY DEF DeleteUser
<1>7. \A ms \in SUBSET mails' : ms \in SUBSET mails
  BY <1>1
<1>8. LinksOK'
  BY <1>1, <1>2, <1>6, <1>7 DEF TypesInv, LinksOK
<1> QED
  BY <1>5, <1>8

LEMMA TypesInit == Init => TypesInv
<1> SUFFICES ASSUME Init PROVE TypesInv
  OBVIOUS
<1>1. RowsOK
  BY AccountsInit DEF AccountsInv
<1>2. LinksOK /\ OpsSound /\ deletes \in Nat /\ faults \in Nat
  BY DEF Init, LinksOK, OpsSound
<1> QED
  BY <1>1, <1>2 DEF TypesInv

\* The actions, by what they write.
LEMMA ActionKinds ==
    ASSUME NEW h \in Handlers, Request(h) \/ Call(h) \/ Abort(h)
    PROVE  \/ Reads(h) \/ Abort(h) \/ Register(h) \/ CreateUser(h) \/ CreateToken(h)
           \/ LinkOAuthAccount(h) \/ DeleteOldToken(h) \/ DeleteEmailToken(h)
           \/ InsertEmailToken(h) \/ SetPasswordHash(h) \/ SetEmailVerified(h)
BY DEF Request, Call, Reads

\* What the steps of handlers do to the counters.
LEMMA Counters ==
    ASSUME NEW h \in Handlers, Request(h) \/ Call(h) \/ Abort(h)
    PROVE  deletes' = deletes /\ faults' = (IF Abort(h) THEN faults + 1 ELSE faults)
<1>1. CASE Abort(h)
  BY <1>1 DEF Abort
<1>2. CASE Reads(h) /\ ~Abort(h)
  BY <1>2, ReadsWriteNothing DEF rest
<1>3. CASE ~Reads(h) /\ ~Abort(h)
  BY <1>3, ActionKinds
     DEF Register, CreateUser, CreateToken, LinkOAuthAccount, DeleteOldToken,
         DeleteEmailToken, InsertEmailToken, SetPasswordHash, SetEmailVerified, rest
<1> QED
  BY <1>1, <1>2, <1>3

LEMMA HandlerTypes ==
    ASSUME TypesInv, NEW h \in Handlers, Request(h) \/ Call(h) \/ Abort(h)
    PROVE  TypesInv'
<1>1. RowsOK' /\ LinksOK'
  <2>1. CASE Reads(h) \/ Abort(h)
    <3>1. UNCHANGED <<tables, used>>
      BY <2>1, ReadsWriteNothing DEF Abort, rest
    <3> QED
      BY <3>1, UnwrittenTypes
  <2>2. CASE Register(h)
    <3>1. PICK o : InsertUser(h, o) /\ Sound(o)
      BY <2>2, Registers
    <3>2. UNCHANGED <<links, sessions, mails, sent, used>> /\ o \in Ops
      BY <2>2, <3>1 DEF Register, rest, Sound
    <3> QED
      BY <3>1, <3>2, InsertedTypes
  <2>3. CASE CreateUser(h)
    <3>1. PICK o : InsertUser(h, o) /\ Sound(o)
      BY <2>3, Creates
    <3>2. UNCHANGED <<links, sessions, mails, sent, used>> /\ o \in Ops
      BY <2>3, <3>1 DEF CreateUser, rest, Sound
    <3> QED
      BY <3>1, <3>2, InsertedTypes
  <2>4. CASE CreateToken(h) \/ LinkOAuthAccount(h)
    BY <2>4, TokenAndLinkTypes
  <2>5. CASE DeleteOldToken(h) \/ DeleteEmailToken(h)
    <3>1. UNCHANGED <<users, top, links, sessions, sent, used>> /\ mails' \subseteq mails
      BY <2>5 DEF DeleteOldToken, DeleteEmailToken, rest
    <3> QED
      BY <3>1, FewerLinksTypes
  <2>6. CASE InsertEmailToken(h)
    BY <2>6, NewLinkTypes
  <2>7. CASE SetPasswordHash(h) \/ SetEmailVerified(h)
    <3>1. RowsKept
      BY <2>7, RowUpdated
    <3>2. UNCHANGED <<top, links, sessions, mails, sent>>
      BY <2>7 DEF SetPasswordHash, SetEmailVerified
    <3>3. op[h].token \in Nat /\ used \subseteq Nat
      BY <2>7 DEF SetPasswordHash, SetEmailVerified, At, TypesInv, OpsSound, Sound, Ops,
                  LinksOK
    <3>4. used' \subseteq Nat
      BY <2>7, <3>3 DEF SetPasswordHash, SetEmailVerified
    <3> QED
      BY <3>1, <3>2, <3>4, RowsStay
  <2> QED
    BY <2>1, <2>2, <2>3, <2>4, <2>5, <2>6, <2>7, ActionKinds
<1>2. OpsSound'
  <2>1. PICK n : SlotBecomes(h, n)
    BY HandlerSteps
  <2>2. op' = [op EXCEPT ![h] = n] /\ (n # NULL => Sound(n) /\ n \in Ops)
    BY <2>1 DEF SlotBecomes, Sound
  <2> QED
    BY <2>2 DEF TypesInv, OpsSound
<1>3. deletes' \in Nat /\ faults' \in Nat
  BY Counters DEF TypesInv
<1> QED
  BY <1>1, <1>2, <1>3 DEF TypesInv

LEMMA TypesStep == TypesInv /\ [Next]_vars => TypesInv'
<1> SUFFICES ASSUME TypesInv, [Next]_vars PROVE TypesInv'
  OBVIOUS
<1>1. CASE UNCHANGED vars
  <2>1. UNCHANGED <<tables, used>> /\ UNCHANGED <<op, deletes, faults>>
    BY <1>1 DEF vars, rest
  <2> QED
    BY <2>1, UnwrittenTypes DEF TypesInv, OpsSound
<1>2. ASSUME NEW u \in Uids, DeleteUser(u)
      PROVE  TypesInv'
  <2>1. deletes' = deletes + 1 /\ UNCHANGED <<op, faults>>
    BY <1>2 DEF DeleteUser
  <2> QED
    BY <1>2, <2>1, DeletedTypes DEF TypesInv, OpsSound
<1> QED
  BY <1>1, <1>2, HandlerTypes DEF Next

\* Rows, mails and handlers keep their types and every row's account exists, on SQLite
\* and on Postgres: deletions cascade, and foreign keys refuse the rest.
THEOREM AccountsTypes == Spec => []TypeOK
<1>1. TypesInv => TypeOK
  BY DEF TypesInv, RowsOK, LinksOK, OpsSound, Sound, TypeOK
<1> QED
  BY <1>1, TypesInit, TypesStep, PTL DEF Spec

-----------------------------------------------------------------------------
(* Accounts that nobody can reach.                                         *)

LEMMA FiniteCounts ==
    ASSUME TypesInv, NEW p \in People
    PROVE  /\ IsFiniteSet(Lost(p)) /\ Cardinality(Lost(p)) \in Nat
           /\ IsFiniteSet(Unlinked(p)) /\ Cardinality(Unlinked(p)) \in Nat
           /\ IsFiniteSet(Creators(p)) /\ Cardinality(Creators(p)) \in Nat
           /\ IsFiniteSet(Linkers(p)) /\ Cardinality(Linkers(p)) \in Nat
<1>1. IsFiniteSet(Uids)
  BY FS_Interval, Bounds DEF Uids
<1>2. Lost(p) \subseteq Uids /\ Unlinked(p) \subseteq Uids
  BY DEF Lost, Unlinked, Live
<1>3. Creators(p) \subseteq Handlers /\ Linkers(p) \subseteq Handlers
  BY DEF Creators, Linkers
<1>4. IsFiniteSet(Handlers)
  BY AccountsAssumption
<1>5. IsFiniteSet(Lost(p)) /\ IsFiniteSet(Unlinked(p))
  BY <1>1, <1>2, FS_Subset
<1>6. IsFiniteSet(Creators(p)) /\ IsFiniteSet(Linkers(p))
  BY <1>3, <1>4, FS_Subset
<1> QED
  BY <1>5, <1>6, FS_CardinalityType

LEMMA OneMoreAtMost ==
    ASSUME NEW S, IsFiniteSet(S), NEW x
    PROVE  IsFiniteSet(S \cup {x}) /\ Cardinality(S \cup {x}) <= Cardinality(S) + 1
<1>1. /\ IsFiniteSet(S \cup {x}) /\ Cardinality(S) \in Nat
      /\ Cardinality(S \cup {x}) = (IF x \in S THEN Cardinality(S) ELSE Cardinality(S) + 1)
  BY FS_AddElement, FS_CardinalityType
<1> QED
  BY <1>1

LEMMA Disjoint ==
    ASSUME NEW S, NEW T, IsFiniteSet(S), IsFiniteSet(T), S \cap T = {}
    PROVE  IsFiniteSet(S \cup T) /\ Cardinality(S \cup T) = Cardinality(S) + Cardinality(T)
<1>1. /\ IsFiniteSet(S \cup T)
      /\ Cardinality(S \cup T) = Cardinality(S) + Cardinality(T) - Cardinality(S \cap T)
  BY FS_Union
<1>2. Cardinality(S \cap T) = 0
  BY FS_EmptySet
<1>3. Cardinality(S) \in Nat /\ Cardinality(T) \in Nat
  BY FS_CardinalityType
<1> QED
  BY <1>1, <1>2, <1>3

\* The limit and what it grows by.
LEMMA SlotCount ==
    /\ IsFiniteSet(Handlers) /\ Cardinality(Handlers) \in Nat
    /\ Cardinality(Handlers) - 1 \in Nat
<1>1. IsFiniteSet(Handlers) /\ Handlers # {}
  BY AccountsAssumption
<1>2. Cardinality(Handlers) \in Nat /\ Cardinality(Handlers) # 0
  BY <1>1, FS_CardinalityType, FS_EmptySet
<1> QED
  BY <1>1, <1>2

LEMMA TimesOneMore ==
    ASSUME NEW a \in Nat, NEW n \in Nat
    PROVE  a * n \in Nat /\ a * (1 + n) = a * n + a
OBVIOUS

LEMMA CountedUp ==
    ASSUME NEW n \in Nat, NEW m \in {n, n + 1}
    PROVE  m - n \in Nat
OBVIOUS

LEMMA LimitNow ==
    ASSUME TypesInv
    PROVE  /\ Limit(deletes) \in Nat /\ Limit(1 + deletes) \in Nat
           /\ Limit(1 + deletes) = Limit(deletes) + (Cardinality(Handlers) - 1)
<1> DEFINE a == Cardinality(Handlers) - 1
<1>1. a \in Nat /\ deletes \in Nat /\ faults \in Nat
  BY SlotCount DEF TypesInv
<1> HIDE DEF a
<1>2. a * deletes \in Nat /\ a * (1 + deletes) = a * deletes + a
  BY <1>1, TimesOneMore
<1>3. Limit(deletes) = a * deletes + faults /\ Limit(1 + deletes) = a * (1 + deletes) + faults
  BY DEF Limit, a
<1>4. /\ Limit(deletes) \in Nat /\ Limit(1 + deletes) \in Nat
      /\ Limit(1 + deletes) = Limit(deletes) + a
  BY <1>1, <1>2, <1>3
<1> QED
  BY <1>4 DEF a

LEMMA LimitNext ==
    ASSUME TypesInv, TypesInv', deletes' \in {deletes, deletes + 1}
    PROVE  LET more == faults' - faults IN
           /\ deletes' = deletes =>
                /\ Limit(deletes)' = Limit(deletes) + more
                /\ Limit(1 + deletes)' = Limit(1 + deletes) + more
           /\ deletes' = deletes + 1 =>
                /\ Limit(deletes)' = Limit(1 + deletes) + more
                /\ Limit(1 + deletes)' >= Limit(1 + deletes) + more
<1> DEFINE a == Cardinality(Handlers) - 1
           d == deletes
           d1 == deletes'
           f == faults
           f1 == faults'
<1>1. a \in Nat /\ d \in Nat /\ f \in Nat /\ d1 \in Nat /\ f1 \in Nat
  BY SlotCount DEF TypesInv
<1>2. /\ Limit(deletes) = a * d + f /\ Limit(1 + deletes) = a * (1 + d) + f
      /\ Limit(deletes)' = a * d1 + f1 /\ Limit(1 + deletes)' = a * (1 + d1) + f1
  BY DEF Limit
<1> HIDE DEF a, d, d1, f, f1
<1>3. /\ a * d \in Nat /\ a * (1 + d) = a * d + a
      /\ a * d1 \in Nat /\ a * (1 + d1) = a * d1 + a
  <2>1. a * d \in Nat /\ a * (1 + d) = a * d + a
    BY <1>1, TimesOneMore
  <2>2. a * d1 \in Nat /\ a * (1 + d1) = a * d1 + a
    BY <1>1, TimesOneMore
  <2> QED
    BY <2>1, <2>2
<1>4. d1 = d => /\ Limit(deletes)' = Limit(deletes) + (f1 - f)
                /\ Limit(1 + deletes)' = Limit(1 + deletes) + (f1 - f)
  <2> SUFFICES ASSUME d1 = d
               PROVE  /\ Limit(deletes)' = Limit(deletes) + (f1 - f)
                      /\ Limit(1 + deletes)' = Limit(1 + deletes) + (f1 - f)
    OBVIOUS
  <2>1. a * d1 = a * d
    OBVIOUS
  <2> QED
    BY <1>1, <1>2, <1>3, <2>1
<1>5. d1 = d + 1 => /\ Limit(deletes)' = Limit(1 + deletes) + (f1 - f)
                    /\ Limit(1 + deletes)' >= Limit(1 + deletes) + (f1 - f)
  <2> SUFFICES ASSUME d1 = d + 1
               PROVE  /\ Limit(deletes)' = Limit(1 + deletes) + (f1 - f)
                      /\ Limit(1 + deletes)' >= Limit(1 + deletes) + (f1 - f)
    OBVIOUS
  <2>1. d1 = 1 + d
    BY <1>1
  <2>2. a * d1 = a * (1 + d)
    BY <2>1
  <2> QED
    BY <1>1, <1>2, <1>3, <2>2
<1> QED
  BY <1>4, <1>5 DEF d, d1, f, f1

LEMMA LimitThen ==
    ASSUME TypesInv'
    PROVE  Limit(deletes)' \in Nat /\ Limit(1 + deletes)' \in Nat
<1> DEFINE a == Cardinality(Handlers) - 1
           d == deletes'
           f == faults'
<1>1. a \in Nat /\ d \in Nat /\ f \in Nat
  BY SlotCount DEF TypesInv
<1>2. /\ Limit(deletes)' = a * d + f
      /\ Limit(1 + deletes)' = a * (1 + d) + f
  BY DEF Limit
<1> HIDE DEF a, d, f
<1>3. a * d \in Nat /\ a * (1 + d) = a * d + a
  BY <1>1, TimesOneMore
<1> QED
  BY <1>1, <1>2, <1>3

\* The new count of strays fits, whether or not the identity has a row.
FitsAfter(p) == StraysFit(p)'

\* A step that makes no account lost and no sign-in start.
LEMMA FewerStrays ==
    ASSUME TypesInv, TypesInv', NEW p \in People, StraysFit(p), links'[p] = links[p],
           deletes' \in {deletes, deletes + 1}, faults' \in {faults, faults + 1},
           links[p] = 0 => Unlinked(p)' \subseteq Unlinked(p),
           links[p] # 0 => Lost(p)' \subseteq Lost(p) /\ Creators(p)' \subseteq Creators(p)
    PROVE  FitsAfter(p)
<1>1. /\ Limit(deletes)' >= Limit(deletes) /\ Limit(1 + deletes)' >= Limit(1 + deletes)
      /\ Limit(deletes) \in Nat /\ Limit(deletes)' \in Nat
      /\ Limit(1 + deletes) \in Nat /\ Limit(1 + deletes)' \in Nat
  <2>1. faults' - faults \in Nat
    <3>1. faults \in Nat
      BY DEF TypesInv
    <3> QED
      BY <3>1, CountedUp
  <2>2. /\ Limit(deletes) \in Nat /\ Limit(1 + deletes) \in Nat
        /\ Limit(1 + deletes) >= Limit(deletes)
    BY LimitNow, SlotCount
  <2>3. Limit(deletes)' \in Nat /\ Limit(1 + deletes)' \in Nat
    BY LimitThen
  <2>4. /\ deletes' = deletes =>
             /\ Limit(deletes)' = Limit(deletes) + (faults' - faults)
             /\ Limit(1 + deletes)' = Limit(1 + deletes) + (faults' - faults)
        /\ deletes' = deletes + 1 =>
             /\ Limit(deletes)' = Limit(1 + deletes) + (faults' - faults)
             /\ Limit(1 + deletes)' >= Limit(1 + deletes) + (faults' - faults)
    BY LimitNext
  <2> QED
    BY <2>1, <2>2, <2>3, <2>4
<1>2. CASE links[p] = 0
  <2>1. Cardinality(Unlinked(p)') <= Cardinality(Unlinked(p))
    BY <1>2, FiniteCounts, FS_Subset
  <2>2. Cardinality(Unlinked(p)) \in Nat /\ Cardinality(Unlinked(p)') \in Nat
    BY <1>2, FiniteCounts, FS_Subset, FS_CardinalityType
  <2>3. Cardinality(Unlinked(p)) <= Limit(deletes)
    BY <1>2 DEF StraysFit
  <2>4. Cardinality(Unlinked(p)') <= Limit(deletes)'
    BY <1>1, <2>1, <2>2, <2>3
  <2> QED
    BY <1>2, <2>4 DEF StraysFit, FitsAfter
<1>3. CASE links[p] # 0
  <2>1. /\ Cardinality(Lost(p)') <= Cardinality(Lost(p))
        /\ Cardinality(Lost(p)) \in Nat /\ Cardinality(Lost(p)') \in Nat
    BY <1>3, FiniteCounts, FS_Subset, FS_CardinalityType
  <2>2. /\ Cardinality(Creators(p)') <= Cardinality(Creators(p))
        /\ Cardinality(Creators(p)) \in Nat /\ Cardinality(Creators(p)') \in Nat
    BY <1>3, FiniteCounts, FS_Subset, FS_CardinalityType
  <2>3. Cardinality(Lost(p)) + Cardinality(Creators(p)) <= Limit(1 + deletes)
    BY <1>3 DEF StraysFit
  <2>4. Cardinality(Lost(p)') + Cardinality(Creators(p)') <= Limit(1 + deletes)'
    BY <1>1, <2>1, <2>2, <2>3
  <2> QED
    BY <1>3, <2>4 DEF StraysFit, FitsAfter
<1> QED
  BY <1>2, <1>3

\* The other slots stay, and no sign-in starts for an identity that has a row.
LEMMA SlotsOfPerson ==
    ASSUME TypesInv, NEW h \in Handlers, NEW n, SlotBecomes(h, n), NEW p \in People
    PROVE  /\ op'[h] = n
           /\ \A g \in Handlers \ {h} : op'[g] = op[g]
           /\ Linkers(p) \ {h} \subseteq Linkers(p)'
           /\ links[p] # 0 => Creators(p)' \subseteq Creators(p) \ {h}
<1>1. op'[h] = n /\ \A g \in Handlers \ {h} : op'[g] = op[g]
  BY DEF SlotBecomes, TypesInv, OpsSound
<1>2. Linkers(p) \ {h} \subseteq Linkers(p)'
  BY <1>1 DEF Linkers, At
<1>3. ASSUME links[p] # 0, NEW g \in Creators(p)'
      PROVE  g \in Creators(p) \ {h}
  <2>1. g \in Handlers /\ op'[g] # NULL /\ Head(op'[g].todo) = "create_user"
        /\ op'[g].who = p /\ op'[g].email = NULL /\ op'[g].todo # <<>>
    BY <1>3 DEF Creators, At
  <2>2. g # h
    BY <1>1, <1>3, <2>1 DEF SlotBecomes
  <2> QED
    BY <1>1, <2>1, <2>2 DEF Creators, At
<1> QED
  BY <1>1, <1>2, <1>3

\* What no handler was about to link is not held by fewer of them afterwards.
LEMMA StillHeld ==
    ASSUME TypesInv, NEW h \in Handlers, NEW n, SlotBecomes(h, n), NEW p \in People,
           NEW new, Lost(p)' \subseteq Lost(p) \cup new,
           \A u \in new : \E g \in Linkers(p)' : op'[g].uid = u
    PROVE  /\ h \notin Linkers(p) => Unlinked(p)' \subseteq Unlinked(p)
           /\ Unlinked(p)' \subseteq Unlinked(p) \cup {op[h].uid}
<1>1. ASSUME NEW u \in Unlinked(p)', u \notin Unlinked(p)
      PROVE  h \in Linkers(p) /\ u = op[h].uid
  <2>1. u \in Lost(p)' /\ \A g \in Linkers(p)' : op'[g].uid # u
    BY <1>1 DEF Unlinked
  <2>2. u \in Lost(p)
    BY <2>1
  <2>3. PICK g \in Linkers(p) : op[g].uid = u
    BY <1>1, <2>2 DEF Unlinked
  <2>4. g = h
    BY <2>1, <2>3, SlotsOfPerson DEF Linkers
  <2> QED
    BY <2>3, <2>4
<1> QED
  BY <1>1

LEMMA NoMoreUnlinked ==
    ASSUME TypesInv, NEW h \in Handlers, NEW n, SlotBecomes(h, n), NEW p \in People,
           Lost(p)' \subseteq Lost(p)
    PROVE  /\ h \notin Linkers(p) => Unlinked(p)' \subseteq Unlinked(p)
           /\ Unlinked(p)' \subseteq Unlinked(p) \cup {op[h].uid}
<1> DEFINE new == {}
<1>1. Lost(p)' \subseteq Lost(p) \cup new /\ \A u \in new : \E g \in Linkers(p)' : op'[g].uid = u
  OBVIOUS
<1> HIDE DEF new
<1> QED
  BY <1>1, StillHeld

\* Rows that are kept become lost accounts of nobody's.
LEMMA NoneLost ==
    ASSUME RowsKept, NEW p \in People, links'[p] = links[p]
    PROVE  Lost(p)' \subseteq Lost(p)
BY DEF RowsKept, Lost

\* A call that neither inserts an account nor links one, nor is a fault.
LEMMA StraysLeft ==
    ASSUME TypesInv, TypesInv', NEW p \in People, StraysFit(p),
           NEW h \in Handlers, Request(h) \/ Call(h), ~CreateUser(h), ~Register(h),
           ~LinkOAuthAccount(h), ~Abort(h)
    PROVE  FitsAfter(p)
<1>1. PICK n : SlotBecomes(h, n)
  BY HandlerSteps
<1>2. UNCHANGED links
  BY ActionKinds, ReadsWriteNothing
     DEF tables, CreateToken, DeleteOldToken, DeleteEmailToken, InsertEmailToken,
         SetPasswordHash, SetEmailVerified
<1>3. RowsKept
  <2>1. CASE SetPasswordHash(h) \/ SetEmailVerified(h)
    BY <2>1, RowUpdated
  <2>2. CASE ~(SetPasswordHash(h) \/ SetEmailVerified(h))
    <3>1. UNCHANGED users
      BY <2>2, ActionKinds, ReadsWriteNothing
         DEF tables, CreateToken, DeleteOldToken, DeleteEmailToken, InsertEmailToken
    <3> QED
      BY <3>1, RowsUntouched DEF TypesInv
  <2> QED
    BY <2>1, <2>2
<1>4. Lost(p)' \subseteq Lost(p)
  BY <1>2, <1>3, NoneLost
<1>5. h \notin Linkers(p)
  <2>1. CASE Request(h)
    <3>1. op[h] = NULL
      BY <2>1 DEF Request, Login, Refresh, ChangePassword, Authenticated, RequestReset,
                  ConfirmReset, VerifyEmail, OpenLink, OAuthCallback, Begin
    <3> QED
      BY <3>1 DEF Linkers, At
  <2>2. CASE Call(h)
    <3>1. \E call \in {"create_token", "delete_old", "insert_token", "delete_token",
                       "verify_password", "set_password", "set_email_verified",
                       "user_by_email", "get_user"} : At(h, call)
      BY <2>2 DEF Call, CreateToken, DeleteOldToken, DeleteEmailToken, InsertEmailToken,
                  SetPasswordHash, SetEmailVerified, VerifyPassword, GetUserByEmail,
                  GetUserById
    <3> QED
      BY <3>1 DEF Linkers, At
  <2> QED
    BY <2>1, <2>2
<1>6. Unlinked(p)' \subseteq Unlinked(p)
  BY <1>1, <1>4, <1>5, NoMoreUnlinked
<1>7. links[p] # 0 => Creators(p)' \subseteq Creators(p)
  BY <1>1, SlotsOfPerson
<1>8. deletes' = deletes /\ faults' = faults
  BY Counters
<1> QED
  BY <1>2, <1>4, <1>6, <1>7, <1>8, FewerStrays

\* Accounts of the form have a password.
LEMMA StraysRegister ==
    ASSUME TypesInv, TypesInv', NEW p \in People, StraysFit(p), NEW h \in Handlers, Register(h)
    PROVE  FitsAfter(p)
<1>0. Request(h) /\ deletes' = deletes /\ faults' = faults /\ UNCHANGED links /\ op[h] = NULL
  BY DEF Request, Register, rest
<1>1. PICK n : SlotBecomes(h, n)
  BY <1>0, HandlerSteps
<1>2. PICK o : InsertUser(h, o) /\ Sound(o) /\ o.oauth = FALSE
  BY Registers
<1>3. Lost(p)' \subseteq Lost(p)
  <2>1. CASE UNCHANGED <<users, top>>
    BY <1>0, <2>1, RowsUntouched, NoneLost DEF TypesInv
  <2>2. ASSUME NEW u \in Uids, Inserts(h, o, u)
        PROVE  Lost(p)' \subseteq Lost(p)
    BY <1>0, <1>2, <2>2 DEF Inserts, Lost
  <2> QED
    BY <1>2, <2>1, <2>2, UserInserted DEF TypesInv, Sound
<1>4. h \notin Linkers(p)
  BY <1>0 DEF Linkers, At
<1>5. Unlinked(p)' \subseteq Unlinked(p)
  BY <1>1, <1>3, <1>4, NoMoreUnlinked
<1>6. links[p] # 0 => Creators(p)' \subseteq Creators(p)
  BY <1>1, SlotsOfPerson
<1> QED
  BY <1>0, <1>3, <1>5, <1>6, FewerStrays

\* An account made for an identity is in its handler's hands, who counted as one that
\* was about to make it.
LEMMA StraysCreate ==
    ASSUME TypesInv, TypesInv', NEW p \in People, StraysFit(p), NEW h \in Handlers, CreateUser(h)
    PROVE  FitsAfter(p)
<1> DEFINE o == [op[h] EXCEPT !.todo = Tail(@)]
<1>0. Call(h) /\ deletes' = deletes /\ faults' = faults /\ UNCHANGED links
      /\ At(h, "create_user")
  BY DEF Call, CreateUser, rest
<1>1. PICK n : SlotBecomes(h, n)
  BY <1>0, HandlerSteps
<1>2. /\ InsertUser(h, o) /\ Sound(o) /\ o.who = op[h].who /\ o.email = op[h].email
      /\ o.email = NULL => o.todo # <<>> /\ Head(o.todo) = "link"
  BY Creates
<1> HIDE DEF o
<1>3. h \notin Linkers(p)
  BY <1>0 DEF Linkers, At
<1>4. ASSUME Lost(p)' \subseteq Lost(p)
      PROVE  FitsAfter(p)
  <2>1. Unlinked(p)' \subseteq Unlinked(p)
    BY <1>1, <1>3, <1>4, NoMoreUnlinked
  <2>2. links[p] # 0 => Creators(p)' \subseteq Creators(p)
    BY <1>1, SlotsOfPerson
  <2> QED
    BY <1>0, <1>4, <2>1, <2>2, FewerStrays
<1>5. CASE UNCHANGED <<users, top>>
  BY <1>0, <1>4, <1>5, RowsUntouched, NoneLost DEF TypesInv
<1>6. ASSUME NEW u \in Uids, Inserts(h, o, u)
      PROVE  FitsAfter(p)
  <2>1. Lost(p)' \subseteq Lost(p) \cup {u}
    BY <1>0, <1>6 DEF Inserts, Lost
  <2>2. CASE u \notin Lost(p)'
    BY <1>4, <2>1, <2>2
  <2>3. CASE u \in Lost(p)'
    <3>1. o.who = p /\ o.email = NULL
      BY <1>6, <2>3 DEF Inserts, Lost
    <3>2. h \in Creators(p)
      BY <1>0, <1>2, <3>1 DEF Creators
    <3>3. n = [o EXCEPT !.uid = u] /\ op'[h] = n
      BY <1>1, <1>6, SlotsOfPerson DEF Inserts, SlotBecomes, TypesInv, OpsSound
    <3>4. Same(o, n, {"uid"}) /\ n.uid = u
      BY <1>2, <3>3, SetUid, Bounds DEF Sound, Uids
    <3>5. n # NULL
      BY <3>4, NullIsNoOp DEF Same
    <3>6. h \in Linkers(p)' /\ op'[h].uid = u
      BY <1>2, <3>1, <3>3, <3>4, <3>5 DEF Same, Linkers, At
    <3>7. Unlinked(p)' \subseteq Unlinked(p)
      <4> DEFINE new == {u}
      <4>1. \A w \in new : \E g \in Linkers(p)' : op'[g].uid = w
        BY <3>6
      <4>2. Lost(p)' \subseteq Lost(p) \cup new
        BY <2>1
      <4> HIDE DEF new
      <4> QED
        BY <1>1, <1>3, <4>1, <4>2, StillHeld
    <3>8. CASE links[p] = 0
      BY <1>0, <3>7, <3>8, FewerStrays
    <3>9. CASE links[p] # 0
      <4>1. /\ Cardinality(Lost(p)') <= Cardinality(Lost(p)) + 1
            /\ Cardinality(Lost(p)) \in Nat /\ Cardinality(Lost(p)') \in Nat
        <5>1. IsFiniteSet(Lost(p)) /\ Cardinality(Lost(p)) \in Nat
          BY FiniteCounts
        <5>2. /\ IsFiniteSet(Lost(p) \cup {u})
              /\ Cardinality(Lost(p) \cup {u}) <= Cardinality(Lost(p)) + 1
          BY <5>1, OneMoreAtMost
        <5>3. /\ IsFiniteSet(Lost(p)')
              /\ Cardinality(Lost(p)') <= Cardinality(Lost(p) \cup {u})
          BY <2>1, <5>2, FS_Subset
        <5> QED
          BY <5>1, <5>2, <5>3, FS_CardinalityType
      <4>2. /\ Cardinality(Creators(p)') <= Cardinality(Creators(p)) - 1
            /\ Cardinality(Creators(p)) \in Nat /\ Cardinality(Creators(p)') \in Nat
        <5>1. IsFiniteSet(Creators(p)) /\ Cardinality(Creators(p)) \in Nat
          BY FiniteCounts
        <5>2. /\ IsFiniteSet(Creators(p) \ {h})
              /\ Cardinality(Creators(p) \ {h}) = Cardinality(Creators(p)) - 1
          BY <3>2, <5>1, FS_RemoveElement
        <5>3. /\ IsFiniteSet(Creators(p)')
              /\ Cardinality(Creators(p)') <= Cardinality(Creators(p) \ {h})
          BY <1>1, <3>9, <5>2, SlotsOfPerson, FS_Subset
        <5> QED
          BY <5>1, <5>2, <5>3, FS_CardinalityType
      <4>3. Cardinality(Lost(p)) + Cardinality(Creators(p)) <= Limit(1 + deletes)
        BY <3>9 DEF StraysFit
      <4>4. Limit(1 + deletes)' = Limit(1 + deletes) /\ Limit(1 + deletes) \in Nat
        <5>1. Limit(1 + deletes) \in Nat
          BY LimitNow
        <5> QED
          BY <1>0, <5>1 DEF Limit
      <4>5. Cardinality(Lost(p)') + Cardinality(Creators(p)') <= Limit(1 + deletes)'
        BY <4>1, <4>2, <4>3, <4>4
      <4> QED
        BY <1>0, <3>9, <4>5 DEF StraysFit, FitsAfter
    <3> QED
      BY <3>8, <3>9
  <2> QED
    BY <2>2, <2>3
<1> QED
  BY <1>2, <1>5, <1>6, UserInserted DEF TypesInv, Sound

\* A dropped handler leaves at most the account it was about to link.
LEMMA StraysAbort ==
    ASSUME TypesInv, TypesInv', NEW p \in People, StraysFit(p), NEW h \in Handlers, Abort(h)
    PROVE  FitsAfter(p)
<1>1. /\ UNCHANGED <<users, links>> /\ deletes' = deletes /\ faults' = faults + 1
      /\ SlotBecomes(h, NULL)
  BY Freed DEF Abort, tables
<1>2. Lost(p)' \subseteq Lost(p)
  BY <1>1, RowsUntouched, NoneLost DEF TypesInv
<1>3. CASE links[p] # 0
  <2>1. Creators(p)' \subseteq Creators(p)
    BY <1>1, <1>3, SlotsOfPerson
  <2> QED
    BY <1>1, <1>2, <1>3, <2>1, FewerStrays
<1>4. CASE links[p] = 0
  <2>1. Unlinked(p)' \subseteq Unlinked(p) \cup {op[h].uid}
    BY <1>1, <1>2, NoMoreUnlinked
  <2>2. IsFiniteSet(Unlinked(p)) /\ Cardinality(Unlinked(p)) \in Nat
    BY FiniteCounts
  <2>3. /\ IsFiniteSet(Unlinked(p) \cup {op[h].uid})
        /\ Cardinality(Unlinked(p) \cup {op[h].uid}) <= Cardinality(Unlinked(p)) + 1
    BY <2>2, OneMoreAtMost
  <2>4. /\ IsFiniteSet(Unlinked(p)')
        /\ Cardinality(Unlinked(p)') <= Cardinality(Unlinked(p) \cup {op[h].uid})
    BY <2>1, <2>3, FS_Subset
  <2>5. Cardinality(Unlinked(p)') <= Cardinality(Unlinked(p)) + 1
    BY <2>2, <2>3, <2>4, FS_CardinalityType
  <2>6. Cardinality(Unlinked(p)) <= Limit(deletes)
    BY <1>4 DEF StraysFit
  <2>7. Limit(deletes)' >= Limit(deletes) + 1 /\ Limit(deletes) \in Nat /\ Limit(deletes)' \in Nat
    <3>1. faults' - faults = 1
      BY <1>1 DEF TypesInv
    <3>2. Limit(deletes)' = Limit(deletes) + (faults' - faults)
      BY <1>1, LimitNext
    <3> QED
      BY <3>1, <3>2, LimitNow
  <2>8. Cardinality(Unlinked(p)') <= Limit(deletes)'
    BY <2>2, <2>4, <2>5, <2>6, <2>7, FS_CardinalityType
  <2> QED
    BY <1>1, <1>4, <2>8 DEF StraysFit, FitsAfter
<1> QED
  BY <1>3, <1>4

LEMMA LinkGoesOn ==
    ASSUME TypesInv, NEW h \in Handlers, LinkOAuthAccount(h), NEW p \in People
    PROVE  h \notin Creators(p)'
<1>1. op[h] # NULL /\ (Fail(h) \/ Advance(h, op[h]))
  BY DEF LinkOAuthAccount, At
<1>2. CASE Fail(h)
  BY <1>2 DEF Fail, TypesInv, OpsSound, Creators, At
<1>3. CASE Advance(h, op[h])
  <2>1. PICK n : SlotBecomes(h, n) /\ (n # NULL => Head(n.todo) # "create_user")
    BY <1>1, <1>3, Advanced DEF TypesInv
  <2>2. op'[h] = n
    BY <2>1, SlotsOfPerson
  <2> QED
    BY <2>1, <2>2 DEF Creators, At
<1> QED
  BY <1>1, <1>2, <1>3

\* The first link that is written makes strays of what the other handlers hold, or are
\* about to create: one account for each of them at most.
LEMMA StraysLink ==
    ASSUME TypesInv, TypesInv', NEW p \in People, StraysFit(p),
           NEW h \in Handlers, LinkOAuthAccount(h)
    PROVE  FitsAfter(p)
<1> DEFINE o == op[h]
<1>0. /\ Call(h) /\ deletes' = deletes /\ faults' = faults /\ UNCHANGED users
      /\ At(h, "link") /\ o.who \in People
      /\ links' = IF links[o.who] = 0 /\ o.uid \in Live
                    THEN [links EXCEPT ![o.who] = o.uid] ELSE links
  BY DEF Call, LinkOAuthAccount, rest, At, TypesInv, OpsSound, Sound, Ops
<1>1. PICK n : SlotBecomes(h, n)
  BY <1>0, HandlerSteps
<1>2. RowsKept
  BY <1>0, RowsUntouched DEF TypesInv
<1>3. CASE links'[p] = links[p]
  <2>1. Lost(p)' \subseteq Lost(p)
    BY <1>2, <1>3, NoneLost
  <2>2. links[p] # 0 => Creators(p)' \subseteq Creators(p)
    BY <1>1, SlotsOfPerson
  <2>3. links[p] = 0 => Unlinked(p)' \subseteq Unlinked(p)
    <3> SUFFICES ASSUME links[p] = 0 PROVE Unlinked(p)' \subseteq Unlinked(p)
      OBVIOUS
    <3>1. /\ h \notin Linkers(p) => Unlinked(p)' \subseteq Unlinked(p)
          /\ Unlinked(p)' \subseteq Unlinked(p) \cup {o.uid}
      BY <1>1, <2>1, NoMoreUnlinked
    <3>2. CASE h \notin Linkers(p)
      BY <3>1, <3>2
    <3>3. CASE h \in Linkers(p)
      <4>1. o.who = p
        BY <3>3 DEF Linkers
      <4>2. o.uid \notin Live
        <5>1. o.uid \in Live => links'[p] = o.uid /\ o.uid # 0
          BY <1>0, <4>1 DEF TypesInv, RowsOK, Live, Uids
        <5> QED
          BY <1>3, <5>1
      <4>3. o.uid \notin Lost(p)'
        BY <2>1, <4>2 DEF Lost
      <4> QED
        BY <3>1, <4>3 DEF Unlinked
    <3> QED
      BY <3>2, <3>3
  <2> QED
    BY <1>0, <1>3, <2>1, <2>2, <2>3, FewerStrays
<1>4. CASE links'[p] # links[p]
  <2>1. o.who = p /\ links[p] = 0 /\ o.uid \in Live /\ links'[p] = o.uid /\ o.uid # 0
    BY <1>0, <1>4 DEF TypesInv, RowsOK, Live, Uids
  <2> DEFINE held == Linkers(p) \ {h}
             U == Unlinked(p)
             uids == {op[g].uid : g \in held}
  <2>2. Lost(p)' \subseteq U \cup uids
    <3>1. ASSUME NEW u \in Lost(p)', u \notin U PROVE u \in uids
      <4>1. u \in Lost(p) /\ u # o.uid
        BY <1>0, <2>1, <3>1, Bounds DEF Lost, Live, Uids
      <4>2. PICK g \in Linkers(p) : op[g].uid = u
        BY <3>1, <4>1 DEF Unlinked
      <4> QED
        BY <4>1, <4>2
    <3> QED
      BY <3>1
  <2>3. /\ IsFiniteSet(held) /\ IsFiniteSet(uids) /\ Cardinality(uids) <= Cardinality(held)
        /\ Cardinality(uids) \in Nat /\ Cardinality(held) \in Nat
    <3>1. IsFiniteSet(held)
      BY FiniteCounts, FS_Subset
    <3> DEFINE f == [g \in held |-> op[g].uid]
    <3>2. f \in Surjection(held, uids)
      BY DEF Surjection
    <3> HIDE DEF f, held, uids
    <3>3. IsFiniteSet(uids) /\ Cardinality(uids) <= Cardinality(held)
      BY <3>1, <3>2, FS_Surjection
    <3> QED
      BY <3>1, <3>3, FS_CardinalityType
  <2>4. /\ Cardinality(held) + Cardinality(Creators(p)') <= Cardinality(Handlers) - 1
        /\ IsFiniteSet(Creators(p)') /\ Cardinality(Creators(p)') \in Nat
    <3> DEFINE C == Creators(p)'
    <3>1. C \subseteq Handlers \ {h} /\ held \subseteq Handlers \ {h} /\ held \cap C = {}
      <4>1. \A g \in Handlers \ {h} : op'[g] = op[g]
        BY <1>1, SlotsOfPerson
      <4>2. h \notin C
        BY LinkGoesOn
      <4> QED
        BY <4>1, <4>2 DEF Creators, Linkers, At
    <3>2. /\ IsFiniteSet(Handlers \ {h})
          /\ Cardinality(Handlers \ {h}) = Cardinality(Handlers) - 1
      BY SlotCount, FS_RemoveElement
    <3> HIDE DEF C, held
    <3>3. IsFiniteSet(C) /\ IsFiniteSet(held)
      BY <3>1, <3>2, FS_Subset
    <3>4. /\ IsFiniteSet(held \cup C)
          /\ Cardinality(held \cup C) = Cardinality(held) + Cardinality(C)
      BY <3>1, <3>3, Disjoint
    <3>5. Cardinality(held \cup C) <= Cardinality(Handlers \ {h})
      BY <3>1, <3>2, FS_Subset
    <3>6. Cardinality(C) \in Nat
      BY <3>3, FS_CardinalityType
    <3> QED
      BY <3>2, <3>3, <3>4, <3>5, <3>6 DEF C
  <2>5. IsFiniteSet(U) /\ Cardinality(U) \in Nat
    BY FiniteCounts
  <2>6. Cardinality(U) <= Limit(deletes)
    BY <2>1 DEF StraysFit
  <2> HIDE DEF U, uids, held
  <2>7. /\ Cardinality(Lost(p)') <= Cardinality(U) + Cardinality(uids)
        /\ Cardinality(Lost(p)') \in Nat
    <3>1. /\ IsFiniteSet(U \cup uids)
          /\ Cardinality(U \cup uids) = Cardinality(U) + Cardinality(uids)
                                           - Cardinality(U \cap uids)
      BY <2>3, <2>5, FS_Union
    <3>2. Cardinality(U \cap uids) \in Nat
      BY <2>5, FS_Subset, FS_CardinalityType
    <3>3. IsFiniteSet(Lost(p)') /\ Cardinality(Lost(p)') <= Cardinality(U \cup uids)
      BY <2>2, <3>1, FS_Subset
    <3>4. Cardinality(Lost(p)') \in Nat /\ Cardinality(U \cup uids) \in Nat
      BY <3>1, <3>3, FS_CardinalityType
    <3> QED
      BY <2>3, <2>5, <3>1, <3>2, <3>3, <3>4
  <2>8. Limit(1 + deletes)' = Limit(deletes) + (Cardinality(Handlers) - 1)
        /\ Limit(deletes) \in Nat
    <3>1. /\ Limit(1 + deletes) = Limit(deletes) + (Cardinality(Handlers) - 1)
          /\ Limit(deletes) \in Nat
      BY LimitNow
    <3> QED
      BY <1>0, <3>1 DEF Limit
  <2>9. Cardinality(Lost(p)') + Cardinality(Creators(p)') <= Limit(1 + deletes)'
    <3>1. Cardinality(Handlers) \in Nat
      BY SlotCount
    <3> QED
      BY <2>3, <2>4, <2>5, <2>6, <2>7, <2>8, <3>1
  <2> QED
    BY <2>1, <2>9 DEF StraysFit, FitsAfter
<1> QED
  BY <1>3, <1>4

\* A deletion may take the account an identity opens: the next sign-ins start afresh.
LEMMA StraysDelete ==
    ASSUME TypesInv, TypesInv', NEW p \in People, StraysFit(p), NEW u \in Uids, DeleteUser(u)
    PROVE  FitsAfter(p)
<1>1. /\ deletes' = deletes + 1 /\ faults' = faults /\ UNCHANGED op
      /\ links' = [q \in People |-> IF links[q] = u THEN 0 ELSE links[q]]
  BY DEF DeleteUser
<1>2. Live' = Live \ {u} /\ \A v \in Live' : users'[v] = users[v]
  BY DEF DeleteUser, Live, TypesInv, RowsOK
<1>3. u # 0
  BY Bounds DEF Uids
<1>4. Lost(p)' \subseteq Lost(p)
  BY <1>1, <1>2 DEF Lost
<1>5. Linkers(p)' = Linkers(p) /\ Creators(p)' = Creators(p)
  BY <1>1 DEF Linkers, Creators, At
<1>6. Unlinked(p)' \subseteq Unlinked(p)
  BY <1>1, <1>4, <1>5 DEF Unlinked
<1>7. CASE links'[p] = links[p]
  BY <1>1, <1>4, <1>5, <1>6, <1>7, FewerStrays
<1>8. CASE links'[p] # links[p]
  <2>1. links[p] # 0 /\ links'[p] = 0
    BY <1>1, <1>3, <1>8
  <2>2. Cardinality(Lost(p)) + Cardinality(Creators(p)) <= Limit(1 + deletes)
    BY <2>1 DEF StraysFit
  <2>3. Cardinality(Lost(p)) \in Nat /\ Cardinality(Creators(p)) \in Nat /\ IsFiniteSet(Lost(p))
    BY FiniteCounts
  <2>4. Unlinked(p)' \subseteq Lost(p)
    BY <1>4 DEF Unlinked
  <2>5. /\ Cardinality(Unlinked(p)') <= Cardinality(Lost(p))
        /\ Cardinality(Unlinked(p)') \in Nat
    BY <2>3, <2>4, FS_Subset, FS_CardinalityType
  <2>6. Limit(deletes)' = Limit(1 + deletes) /\ Limit(1 + deletes) \in Nat
    <3>1. Limit(deletes)' = Limit(1 + deletes) + (faults' - faults)
      BY <1>1, LimitNext
    <3>2. Limit(1 + deletes) \in Nat
      BY LimitNow
    <3>3. faults' - faults = 0
      BY <1>1 DEF TypesInv
    <3> QED
      BY <3>1, <3>2, <3>3
  <2>7. Cardinality(Unlinked(p)') <= Limit(deletes)'
    BY <2>2, <2>3, <2>5, <2>6
  <2> QED
    BY <2>1, <2>7 DEF StraysFit, FitsAfter
<1> QED
  BY <1>7, <1>8

LEMMA StraysStep == TypesInv /\ StraysInv /\ [Next]_vars => StraysInv'
<1> SUFFICES ASSUME TypesInv, StraysInv, [Next]_vars, NEW p \in People
             PROVE  FitsAfter(p)
  BY DEF StraysInv, FitsAfter
<1>1. TypesInv' /\ StraysFit(p)
  BY TypesStep DEF StraysInv
<1>2. CASE UNCHANGED vars
  <2>1. UNCHANGED <<users, links, op, deletes, faults>>
    BY <1>2 DEF vars, tables, rest
  <2>2. StraysFit(p)' = StraysFit(p)
    BY <2>1 DEF StraysFit, Unlinked, Lost, Linkers, Creators, At, Live, Limit
  <2> QED
    BY <1>1, <2>2 DEF FitsAfter
<1>3. ASSUME NEW u \in Uids, DeleteUser(u)
      PROVE  FitsAfter(p)
  BY <1>1, <1>3, StraysDelete
<1>4. ASSUME NEW h \in Handlers, Request(h) \/ Call(h) \/ Abort(h)
      PROVE  FitsAfter(p)
  BY <1>1, <1>4, StraysLeft, StraysRegister, StraysCreate, StraysLink, StraysAbort
<1> QED
  BY <1>2, <1>3, <1>4 DEF Next

\* find_or_create_oauth_user and the link after it are several calls, so that parallel
\* first sign-ins of one identity may each create an account, and all but one are lost.
\* There are fewer than slots for each time an identity is first seen, and one more for
\* each dropped handler, on either database and for any number of people and slots.
THEOREM StrayAccountsAreFew == Spec => []StrayAccountsAreBounded
<1>1. Init => StraysInv
  <2> SUFFICES ASSUME Init, NEW p \in People PROVE StraysFit(p)
    BY DEF StraysInv
  <2>1. links[p] = 0 /\ Unlinked(p) = {} /\ deletes = 0 /\ faults = 0
    BY DEF Init, Unlinked, Lost, Live
  <2>2. Cardinality({}) = 0
    BY FS_EmptySet
  <2>3. Limit(0) \in Nat
    BY <2>1, SlotCount DEF Limit
  <2> QED
    BY <2>1, <2>2, <2>3 DEF StraysFit
<1>2. TypesInv /\ StraysInv => StrayAccountsAreBounded
  <2> SUFFICES ASSUME TypesInv, StraysInv, NEW p \in People
               PROVE  Cardinality({u \in Live : Stray(u) /\ users[u].by = p}) <= Limit(1 + deletes)
    BY DEF StrayAccountsAreBounded, Limit
  <2> DEFINE S == {u \in Live : Stray(u) /\ users[u].by = p}
  <2>1. S \subseteq Lost(p)
    BY DEF Stray, Lost
  <2>2. S \subseteq Unlinked(p)
    BY <2>1 DEF Stray, Unlinked, Linkers, At
  <2>3. /\ Limit(deletes) \in Nat /\ Cardinality(Handlers) - 1 \in Nat
        /\ Limit(1 + deletes) = Limit(deletes) + (Cardinality(Handlers) - 1)
    BY LimitNow, SlotCount
  <2> HIDE DEF S
  <2>4. /\ Cardinality(S) <= Cardinality(Unlinked(p)) /\ Cardinality(S) <= Cardinality(Lost(p))
        /\ Cardinality(S) \in Nat
    BY <2>1, <2>2, FiniteCounts, FS_Subset, FS_CardinalityType
  <2>5. /\ Cardinality(Unlinked(p)) \in Nat /\ Cardinality(Lost(p)) \in Nat
        /\ Cardinality(Creators(p)) \in Nat
    BY FiniteCounts
  <2>6. \/ Cardinality(Unlinked(p)) <= Limit(deletes)
        \/ Cardinality(Lost(p)) + Cardinality(Creators(p)) <= Limit(1 + deletes)
    BY DEF StraysInv, StraysFit
  <2>7. Cardinality(S) <= Limit(1 + deletes)
    BY <2>3, <2>4, <2>5, <2>6
  <2> QED
    BY <2>7 DEF S
<1>3. TypesInv /\ StraysInv /\ [Next]_vars => (TypesInv /\ StraysInv)'
  BY TypesStep, StraysStep
<1> QED
  BY <1>1, <1>2, <1>3, TypesInit, PTL DEF Spec

=============================================================================
