------------------------------ MODULE Accounts ------------------------------
(***************************************************************************)
(* Accounts and the ways into them: registration, login, password change,  *)
(* refresh, mailed links (src/src/api/register.rs, login.rs,               *)
(* me_password.rs, refresh.rs, reset.rs, email.rs), sign-in with an OAuth  *)
(* provider (src/src/api/oauth.rs) and deletion of accounts, over the      *)
(* users, tokens, email_tokens and oauth_accounts tables of src/src/db.rs. *)
(*                                                                         *)
(* The sign-in state of OAuth, TOTP (module TwoFactor) and the login       *)
(* lockout (module Lockout) are left out: they only refuse.                *)
(*                                                                         *)
(* A handler is the list of database calls it has yet to make.  It carries *)
(* the account id from one call to the next, while other handlers and      *)
(* deletions run between them.                                             *)
(***************************************************************************)
EXTENDS Naturals, FiniteSets, FiniteSetsExt, Sequences

CONSTANTS
    People,        \* each with one mailbox and one identity at the provider
    Mailed,        \* those whose mail address the provider tells
    Registrants,   \* those who fill in the form
    Handlers,      \* slots for concurrent handlers
    Recycles,      \* users.id: INTEGER PRIMARY KEY of SQLite, else BIGSERIAL
    MaxUid,        \* bound on user ids
    MaxMails,      \* bound on mailed links
    MaxMishaps,    \* bound on account deletions and dropped handlers together
    OAuth,         \* password_hash of an account without a password
    NULL

ASSUME AccountsAssumption ==
    /\ Mailed \subseteq People /\ Registrants \subseteq People
    /\ Recycles \in BOOLEAN
    /\ {MaxUid, MaxMails, MaxMishaps} \subseteq Nat
    /\ IsFiniteSet(Handlers) /\ Handlers # {}
    /\ NULL \notin People
    /\ OAuth \notin People

VARIABLES
    users,      \* id -> row: address, who knows the password; and who created it
    top,        \* the largest id given out
    links,      \* oauth_accounts: identity -> user_id, 0 for no row
    sessions,   \* tokens: user_id and the person the token was handed to
    mails,      \* email_tokens rows
    sent,       \* the links mailed: the token is the index, the recipient the value
    op,         \* per slot: what the handler has yet to do, NULL when free
    used,       \* tokens a link was carried out with
    deletes, faults

tables == <<users, top, links, sessions, mails, sent>>
rest   == <<used, deletes, faults>>
vars   == <<tables, op, rest>>

-----------------------------------------------------------------------------
(* Values. *)

Uids == 1..MaxUid
Live == {u \in Uids : users[u] # NULL}

Calls == {"create_user", "create_token", "delete_old", "insert_token", "get_user",
          "verify_password", "set_password", "delete_token", "set_email_verified",
          "user_by_email", "link"}

Users == [email : People \cup {NULL}, password : People \cup {OAuth},
          verified : BOOLEAN, by : People]

ASSUME NullIsNoRow == NULL \notin Users

MailRows == [id : Nat, uid : Uids, kind : {"verify", "reset"}, token : Nat]

Ops == [todo : Seq(Calls), who : People, uid : 0..MaxUid,
        email : People \cup {NULL}, kind : {"verify", "reset"}, row : Nat, token : Nat,
        oauth : BOOLEAN]

ASSUME NullIsNoOp == NULL \notin Ops

\* Mutant: ids are recycled on either database.
NextIdRecycled(inUse, last) == 1 + Max(inUse \cup {0})

\* SQLite gives out the largest id in use plus one, a Postgres sequence never
\* gives one out again.
NextId(inUse, last) == 1 + (IF Recycles THEN Max(inUse \cup {0}) ELSE last)

Unclaimed(e) == e = NULL \/ \A u \in Live : users[u].email # e

\* The people an account is for: who created it and who its mail goes to.
PeopleOf(u) == {users[u].by, users[u].email}

Blank(p) == [todo |-> <<>>, who |-> p, uid |-> 0, email |-> NULL,
             kind |-> "verify", row |-> 0, token |-> 0, oauth |-> FALSE]

Begin(h, o) == op[h] = NULL /\ op' = [op EXCEPT ![h] = o]
At(h, call) == op[h] # NULL /\ op[h].todo # <<>> /\ Head(op[h].todo) = call
Fail(h)     == op' = [op EXCEPT ![h] = NULL]

\* The handler answers after its last call.
Advance(h, o) ==
    op' = [op EXCEPT ![h] = IF Tail(o.todo) = <<>> THEN NULL
                            ELSE [o EXCEPT !.todo = Tail(o.todo)]]

-----------------------------------------------------------------------------
(* Requests.  Each starts with its first read; a refusal writes nothing. *)

\* Mutant: an address is taken for verified when it is entered.
InsertUserVerified(h, o) ==
    \/ LET u == NextId(Live, top) IN
       /\ u \in Uids /\ Unclaimed(o.email)
       /\ users' = [users EXCEPT ![u] =
              [email |-> o.email, verified |-> o.email # NULL, by |-> o.who,
               password |-> IF o.oauth THEN OAuth ELSE o.who]]
       /\ top' = IF u > top THEN u ELSE top
       /\ op' = [op EXCEPT ![h] = [o EXCEPT !.uid = u]]
    \/ Fail(h) /\ UNCHANGED <<users, top>>

\* users.username and users.email are UNIQUE.  The model has no names: another
\* account's name is one more way for the insert to fail, as is a full table.
InsertUser(h, o) ==
    \/ LET u == NextId(Live, top) IN
       /\ u \in Uids /\ Unclaimed(o.email)
       /\ users' = [users EXCEPT ![u] =
              [email |-> o.email, verified |-> FALSE, by |-> o.who,
               password |-> IF o.oauth THEN OAuth ELSE o.who]]
       /\ top' = IF u > top THEN u ELSE top
       /\ op' = [op EXCEPT ![h] = [o EXCEPT !.uid = u]]
    \/ Fail(h) /\ UNCHANGED <<users, top>>

\* Without a mail address no link is sent.  The address may be anybody's.
Register(h) ==
    /\ op[h] = NULL
    /\ \E p \in Registrants, e \in People \cup {NULL} :
          InsertUser(h, [Blank(p) EXCEPT !.email = e,
            !.todo = IF e = NULL THEN <<"create_token">>
                     ELSE <<"create_token", "delete_old", "insert_token">>])
    /\ UNCHANGED <<links, sessions, mails, sent, rest>>

\* The row read here decides.
Login(h) ==
    /\ \E u \in Live : \E p \in People :
          /\ users[u].password = p
          /\ Begin(h, [Blank(p) EXCEPT !.uid = u,
                         !.todo = <<"create_token">>])
    /\ UNCHANGED <<tables, rest>>

\* validate_token: the token's row, then its account's.
ValidTokens == {s \in sessions : s[1] \in Live}

\* An access token, or a refresh token where that is asked for.
Authenticated(h, todo) ==
    /\ \E s \in ValidTokens :
          Begin(h, [Blank(s[2]) EXCEPT !.uid = s[1], !.todo = todo])
    /\ UNCHANGED <<tables, rest>>

Refresh(h)        == Authenticated(h, <<"create_token">>)
ChangePassword(h) == Authenticated(h, <<"verify_password", "set_password">>)

\* Anybody may ask; the link goes to the address of the row read here.
RequestReset(h) ==
    /\ \E u \in Live :
          Begin(h, [Blank(users[u].by) EXCEPT
            !.uid = u, !.email = users[u].email, !.kind = "reset",
            !.todo = <<"delete_old", "insert_token">>])
    /\ UNCHANGED <<tables, rest>>

\* Mutant: the password is set before the token is deleted.
FollowUpFirst(kind) ==
    IF kind = "reset" THEN <<"set_password", "delete_token">>
                      ELSE <<"set_email_verified", "delete_token">>

FollowUp(kind) ==
    IF kind = "reset" THEN <<"delete_token", "set_password">>
                      ELSE <<"delete_token", "set_email_verified">>

\* consume_email_token reads the row of the token.  Whoever got the mail sends it.
OpenLink(h, kind) ==
    /\ \E m \in mails :
          /\ m.kind = kind
          /\ sent[m.token] # NULL
          /\ Begin(h, [Blank(sent[m.token]) EXCEPT
               !.uid = m.uid, !.kind = m.kind, !.row = m.id, !.token = m.token,
               !.todo = FollowUp(m.kind)])
    /\ UNCHANGED <<tables, rest>>

VerifyEmail(h)  == OpenLink(h, "verify")
ConfirmReset(h) == OpenLink(h, "reset")

\* What find_or_create_oauth_user and the callback do when no account is found.
CreateAndLink(e) ==
    IF e = NULL THEN <<"create_user", "link", "get_user", "create_token">>
    ELSE <<"create_user", "set_email_verified", "link", "get_user", "create_token">>

\* Mutant: the identity's row is not looked up.
LinkIgnored(p) == 0

LinkOf(p) == links[p]

\* What the provider tells, here or at its second endpoint.
EmailOf(p) == IF p \in Mailed THEN p ELSE NULL

\* The provider vouches for the person; then find_oauth_user is asked.  A state that
\* is unknown, foreign or expired and a provider that fails end it before that.
OAuthCallback(h) ==
    /\ \E p \in People :
          LET e == EmailOf(p) IN
          Begin(h, [Blank(p) EXCEPT
            !.email = IF LinkOf(p) = 0 THEN e ELSE NULL,
            !.oauth = TRUE, !.uid = LinkOf(p),
            !.todo = IF LinkOf(p) # 0 THEN <<"create_token">>
                     ELSE IF e # NULL THEN <<"user_by_email">>
                     ELSE CreateAndLink(e)])
    /\ UNCHANGED <<tables, rest>>

-----------------------------------------------------------------------------
(* Database calls. *)

\* The name nobody had a moment ago, with the sentinel for a password.
CreateUser(h) ==
    /\ At(h, "create_user")
    /\ InsertUser(h, [op[h] EXCEPT !.todo = Tail(@)])
    /\ UNCHANGED <<links, sessions, mails, sent, rest>>

\* The user_id refers to a row of users, or the insert fails.  Two calls, for an
\* access and a refresh token, which a cascade between them makes no difference to.
CreateToken(h) ==
    /\ At(h, "create_token")
    /\ IF op[h].uid \in Live
         THEN /\ sessions' = sessions \cup {<<op[h].uid, op[h].who>>}
              /\ Advance(h, op[h])
         ELSE Fail(h) /\ UNCHANGED sessions
    /\ UNCHANGED <<users, top, links, mails, sent, rest>>

\* create_email_token, first statement: the link mailed before is void.
DeleteOldToken(h) ==
    /\ At(h, "delete_old")
    /\ mails' = {m \in mails : m.uid # op[h].uid \/ m.kind # op[h].kind}
    /\ Advance(h, op[h])
    /\ UNCHANGED <<users, top, links, sessions, sent, rest>>

\* Second statement, and the mail.  One row per account and kind.
InsertEmailToken(h) ==
    /\ At(h, "insert_token")
    /\ LET o == op[h] IN
       IF /\ o.uid \in Live
          /\ Len(sent) < MaxMails
          /\ \A m \in mails : m.uid # o.uid \/ m.kind # o.kind
         THEN /\ sent' = Append(sent, o.email)
              /\ mails' = mails \cup
                   {[id |-> NextId({m.id : m \in mails}, Len(sent)),
                     uid |-> o.uid, kind |-> o.kind, token |-> Len(sent) + 1]}
         ELSE UNCHANGED <<mails, sent>>
    /\ Fail(h)
    /\ UNCHANGED <<users, top, links, sessions, rest>>

\* consume_email_token, second statement: by id, whether or not a row has it.
DeleteEmailToken(h) ==
    /\ At(h, "delete_token")
    /\ mails' = {m \in mails : m.id # op[h].row}
    /\ Advance(h, op[h])
    /\ UNCHANGED <<users, top, links, sessions, sent, rest>>

\* change_password reads the row again; OAuth accounts have no password.
VerifyPassword(h) ==
    /\ At(h, "verify_password")
    /\ IF op[h].uid \in Live /\ users[op[h].uid].password = op[h].who
         THEN Advance(h, op[h])
         ELSE Fail(h)
    /\ UNCHANGED <<tables, rest>>

\* An UPDATE by id that changes nothing when there is no such row.
SetPasswordHash(h) ==
    /\ At(h, "set_password")
    /\ users' = [u \in Uids |->
                   IF u = op[h].uid /\ u \in Live
                     THEN [users[u] EXCEPT !.password = op[h].who] ELSE users[u]]
    /\ used' = IF op[h].token = 0 THEN used ELSE used \cup {op[h].token}
    /\ Advance(h, op[h])
    /\ UNCHANGED <<top, links, sessions, mails, sent, deletes, faults>>

SetEmailVerified(h) ==
    /\ At(h, "set_email_verified")
    /\ users' = [u \in Uids |->
                   IF u = op[h].uid /\ u \in Live
                     THEN [users[u] EXCEPT !.verified = TRUE] ELSE users[u]]
    /\ used' = IF op[h].token = 0 THEN used ELSE used \cup {op[h].token}
    /\ Advance(h, op[h])
    /\ UNCHANGED <<top, links, sessions, mails, sent, deletes, faults>>

\* find_or_create_oauth_user: an account with the identity's address is linked,
\* else a free name is looked for.
GetUserByEmail(h) ==
    /\ At(h, "user_by_email")
    /\ LET o == op[h] IN
       op' = [op EXCEPT ![h] =
         IF Unclaimed(o.email) THEN [o EXCEPT !.todo = CreateAndLink(o.email)]
         ELSE [o EXCEPT !.uid = CHOOSE u \in Live : users[u].email = o.email,
                        !.todo = <<"link", "create_token">>]]
    /\ UNCHANGED <<tables, rest>>

\* INSERT OR IGNORE: a row of the identity stays; a missing account is an error.
LinkOAuthAccount(h) ==
    /\ At(h, "link")
    /\ LET o == op[h] IN
       /\ links' = IF links[o.who] = 0 /\ o.uid \in Live
                     THEN [links EXCEPT ![o.who] = o.uid] ELSE links
       /\ IF links[o.who] # 0 \/ o.uid \in Live THEN Advance(h, o) ELSE Fail(h)
    /\ UNCHANGED <<users, top, sessions, mails, sent, rest>>

GetUserById(h) ==
    /\ At(h, "get_user")
    /\ IF op[h].uid \in Live THEN Advance(h, op[h]) ELSE Fail(h)
    /\ UNCHANGED <<tables, rest>>

\* remove_user of an admin: tokens, links and identities cascade.
DeleteUser(u) ==
    /\ deletes + faults < MaxMishaps
    /\ u \in Live
    /\ deletes' = deletes + 1
    /\ users' = [users EXCEPT ![u] = NULL]
    /\ links' = [p \in People |-> IF links[p] = u THEN 0 ELSE links[p]]
    /\ sessions' = {s \in sessions : s[1] # u}
    /\ mails' = {m \in mails : m.uid # u}
    /\ UNCHANGED <<top, sent, op, used, faults>>

\* The client goes away, or a call fails.
Abort(h) ==
    /\ deletes + faults < MaxMishaps
    /\ op[h] # NULL
    /\ faults' = faults + 1
    /\ Fail(h)
    /\ UNCHANGED <<tables, used, deletes>>

-----------------------------------------------------------------------------

Init ==
    /\ users = [u \in Uids |-> NULL]
    /\ top = 0
    /\ links = [p \in People |-> 0]
    /\ sessions = {} /\ mails = {} /\ sent = <<>>
    /\ used = {}
    /\ op = [h \in Handlers |-> NULL]
    /\ deletes = 0 /\ faults = 0

Request(h) ==
    /\ op[h] = NULL
    /\ \/ Register(h) \/ Login(h) \/ Refresh(h) \/ ChangePassword(h)
       \/ RequestReset(h) \/ ConfirmReset(h) \/ VerifyEmail(h) \/ OAuthCallback(h)

Call(h) ==
    \/ CreateUser(h) \/ CreateToken(h)
    \/ DeleteOldToken(h) \/ InsertEmailToken(h) \/ DeleteEmailToken(h)
    \/ VerifyPassword(h) \/ SetPasswordHash(h) \/ SetEmailVerified(h)
    \/ GetUserByEmail(h) \/ LinkOAuthAccount(h) \/ GetUserById(h)

Next ==
    \/ \E h \in Handlers : Request(h) \/ Call(h) \/ Abort(h)
    \/ \E u \in Uids : DeleteUser(u)

Spec == Init /\ [][Next]_vars

-----------------------------------------------------------------------------
(* Types. *)

\* Rows, handlers and mails keep their types, and every row's account exists.
TypeOK ==
    /\ users \in [Uids -> Users \cup {NULL}]
    /\ top \in 0..MaxUid
    /\ links \in [People -> Live \cup {0}]
    /\ sessions \subseteq Live \X People
    /\ mails \subseteq MailRows /\ \A m \in mails : m.uid \in Live
    /\ sent \in Seq(People \cup {NULL})
    /\ op \in [Handlers -> Ops \cup {NULL}]
    /\ used \subseteq Nat

-----------------------------------------------------------------------------
(* Safety. *)

\* A handler goes on with the id it has read while the account may be deleted
\* and others created.  Where ids are not recycled, every password, token and
\* identity of an account is still one of the people the account is for.
OnlyItsPeopleGetIn ==
    /\ \A u \in Live : users[u].password \in PeopleOf(u) \cup {OAuth}
    /\ \A s \in sessions : s[2] \in PeopleOf(s[1])
    /\ \A p \in People : links[p] # 0 => p \in PeopleOf(links[p])

\* An address counts as verified only once its owner has followed a link sent
\* to it, or has signed in with an identity of that address.
AddressesAreProven ==
    \A u \in Live : users[u].verified =>
        \/ users[u].by = users[u].email
        \/ \E t \in used : sent[t] = users[u].email

\* A link that has been carried out is dead: no row of its token is left, although it
\* is read by one statement and deleted by another.  (Two requests that have both read
\* the row may both carry it out.)
SpentLinksAreDead == \A m \in mails : m.token \notin used

Stray(u) ==
    /\ users[u].password = OAuth /\ users[u].email = NULL
    /\ \A p \in People : links[p] # u
    /\ \A h \in Handlers : op[h] # NULL => op[h].uid # u

\* Two callbacks of one identity may both find no account.  All but one of the
\* accounts they create are in nobody's reach: no identity, no password and no
\* address leads to them.  There are fewer of them than slots, as the first link
\* that is written stops the rest, and one more for each dropped handler and
\* deleted account.
StrayAccountsAreBounded ==
    \A p \in People :
        Cardinality({u \in Live : users[u].by = p /\ Stray(u)}) <=
            (Cardinality(Handlers) - 1) * (1 + deletes) + faults

-----------------------------------------------------------------------------
(* The strengthening of StrayAccountsAreBounded.                           *)

\* The accounts of a person that only an identity could open, and that none does.
Lost(p) ==
    {u \in Live : /\ users[u].password = OAuth /\ users[u].email = NULL
                  /\ users[u].by = p /\ links[p] # u}

\* The sign-ins that are about to create such an account, or to link one.
Creators(p) ==
    {h \in Handlers : At(h, "create_user") /\ op[h].who = p /\ op[h].email = NULL}
Linkers(p)  == {h \in Handlers : At(h, "link") /\ op[h].who = p}
Unlinked(p) == Lost(p) \ {op[h].uid : h \in Linkers(p)}

Limit(n) == (Cardinality(Handlers) - 1) * n + faults

\* While an identity has no row, the accounts made for it are in a handler's hands, save
\* those of dropped handlers.  Whoever links one turns the others' into strays, together
\* with those that are about to be made; from then on no sign-in starts another.
StraysFit(p) ==
    IF links[p] = 0 THEN Cardinality(Unlinked(p)) <= Limit(deletes)
    ELSE Cardinality(Lost(p)) + Cardinality(Creators(p)) <= Limit(1 + deletes)

StraysInv == \A p \in People : StraysFit(p)

=============================================================================
