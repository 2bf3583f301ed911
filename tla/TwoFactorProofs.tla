-------------------------- MODULE TwoFactorProofs --------------------------
(***************************************************************************)
(* What module TwoFactor guarantees for any number of handlers, secrets    *)
(* and recovery codes.                                                     *)
(***************************************************************************)
EXTENDS TwoFactor, FiniteSetTheorems, TLAPS

USE NullIsNoOp

LEMMA Bounds ==
    /\ CodesPerSet \in Nat /\ MaxSecrets \in Nat /\ MaxCodes \in Nat
    /\ Settings \subseteq Handlers
BY TwoFactorAssumption

-----------------------------------------------------------------------------
(* Types. *)

\* Codes are rows, and secrets and codes in hand, only once generated.
ItemsExist ==
    /\ codes \subseteq 1..minted
    /\ \A h \in Handlers :
          /\ At(h, "show") => op[h].item \in Secrets
          /\ At(h, "mark_used") \/ At(h, "create_token") => op[h].item \in 0..minted

LEMMA InitTypes == Init => TypeOK /\ ItemsExist
<1> SUFFICES ASSUME Init  PROVE TypeOK /\ ItemsExist
  OBVIOUS
<1>1. secret \in Secrets \cup {0} /\ enabled \in BOOLEAN
  BY DEF Init
<1>2. op \in [Handlers -> Ops \cup {NULL}] /\ uses \in [Codes -> Nat]
  BY DEF Init
<1>3. secrets \in 0..MaxSecrets /\ minted \in 0..MaxCodes
  BY Bounds DEF Init
<1>4. codes = {} /\ unspent = {} /\ shown = {} /\ given = {}
  BY DEF Init
<1> QED
  BY <1>1, <1>2, <1>3, <1>4 DEF TypeOK, ItemsExist, Init, At

\* What a request puts into its slot is an operation.
LEMMA BegunTypes ==
    ASSUME TypeOK, NEW h \in Handlers, NEW call \in Calls, NEW item \in Nat,
           Begin(h, call, item)
    PROVE  op' \in [Handlers -> Ops \cup {NULL}]
<1>1. [call |-> call, item |-> item, batch |-> {}] \in Ops
  BY DEF Ops
<1> HIDE DEF Ops
<1> QED
  BY <1>1 DEF Begin, TypeOK

LEMMA MovedTypes ==
    ASSUME TypeOK, NEW h \in Handlers, NEW from \in Calls, NEW call \in Calls,
           At(h, from), Goto(h, call)
    PROVE  op' \in [Handlers -> Ops \cup {NULL}]
BY DEF At, Goto, TypeOK, Ops

LEMMA FinishedTypes ==
    ASSUME TypeOK, NEW h \in Handlers, Finish(h)
    PROVE  op' \in [Handlers -> Ops \cup {NULL}]
BY DEF Finish, TypeOK

LEMMA SettingTypes ==
    ASSUME TypeOK, ItemsExist, NEW h \in Handlers, Setting(h)
    PROVE  TypeOK'
<1>c. Calls = {"show", "enable", "delete_codes", "insert_code", "give",
               "disable", "clear_secret", "mark_used", "create_token"}
  BY DEF Calls
<1> USE DEF account, user, counts
<1>1. CASE Enroll(h)
  <2>1. secrets + 1 \in Secrets /\ secrets + 1 \in Nat /\ secrets' \in 0..MaxSecrets
    BY <1>1, Bounds DEF Enroll, TypeOK, Secrets
  <2>2. op' \in [Handlers -> Ops \cup {NULL}]
    BY <1>1, <1>c, <2>1, BegunTypes DEF Enroll
  <2> QED
    BY <1>1, <2>1, <2>2 DEF Enroll, TypeOK
<1>2. CASE Show(h)
  BY <1>2, FinishedTypes DEF Show, TypeOK, ItemsExist
<1>3. CASE Confirm(h)
  <2>1. secret \in Nat
    BY DEF TypeOK, Secrets
  <2> QED
    BY <1>3, <1>c, <2>1, BegunTypes DEF Confirm, TypeOK
<1>4. CASE EnableTotp(h)
  BY <1>4, <1>c, MovedTypes DEF EnableTotp, TypeOK
<1>5. CASE DeleteCodes(h)
  BY <1>5, <1>c, MovedTypes DEF DeleteCodes, TypeOK
<1>6. CASE InsertCode(h)
  <2> DEFINE c == minted + 1
             batch == op[h].batch \cup {c}
  <2>1. /\ c \in Codes /\ minted' = c
        /\ codes' = codes \cup {c} /\ unspent' = unspent \cup {c}
        /\ UNCHANGED <<secret, enabled, user, secrets>>
    BY <1>6 DEF InsertCode
  <2>2. minted' \in 0..MaxCodes
    BY <2>1, Bounds DEF Codes
  <2>3. PICK call \in {"insert_code", "give"} :
            op' = [op EXCEPT ![h].batch = batch, ![h].call = call]
    BY <1>6 DEF InsertCode
  <2>4. op[h] \in Ops /\ batch \in SUBSET Codes
    BY <1>6, <2>1 DEF InsertCode, At, TypeOK, Ops
  <2>5. call \in Calls
    BY <2>3, <1>c
  <2> HIDE DEF batch, c
  <2>6. op' \in [Handlers -> Ops \cup {NULL}]
    BY <2>3, <2>4, <2>5 DEF TypeOK, Ops
  <2> QED
    BY <2>1, <2>2, <2>6 DEF TypeOK
<1>7. CASE Give(h)
  <2>1. op[h].batch \subseteq Codes
    BY <1>7 DEF Give, At, TypeOK, Ops
  <2> QED
    BY <1>7, <2>1, FinishedTypes DEF Give, TypeOK
<1>8. CASE Disable(h)
  <2>1. secret \in Nat
    BY DEF TypeOK, Secrets
  <2> QED
    BY <1>8, <1>c, <2>1, BegunTypes DEF Disable, TypeOK
<1>9. CASE DisableTotp(h)
  BY <1>9, <1>c, MovedTypes DEF DisableTotp, TypeOK
<1>10. CASE ClearSecret(h)
  BY <1>10, FinishedTypes DEF ClearSecret, TypeOK
<1> QED
  BY <1>1, <1>2, <1>3, <1>4, <1>5, <1>6, <1>7, <1>8, <1>9, <1>10 DEF Setting

LEMMA LoginTypes ==
    ASSUME TypeOK, NEW h \in Handlers, LoginStep(h) \/ Abort(h)
    PROVE  TypeOK'
<1>c. {"mark_used", "create_token"} \subseteq Calls
  BY DEF Calls
<1> USE DEF account, user, counts
<1>1. CASE Login(h)
  <2>1. given \subseteq Nat /\ 0 \in Nat
    BY DEF TypeOK, Codes
  <2>2. op' \in [Handlers -> Ops \cup {NULL}]
    BY <1>1, <1>c, <2>1, BegunTypes DEF Login
  <2> QED
    BY <1>1, <2>2 DEF Login, TypeOK
<1>2. CASE MarkUsed(h)
  BY <1>2, <1>c, MovedTypes DEF MarkUsed, TypeOK
<1>3. CASE CreateToken(h)
  <2>1. uses' \in [Codes -> Nat]
    BY <1>3 DEF CreateToken, TypeOK
  <2> QED
    BY <1>3, <2>1, FinishedTypes DEF CreateToken, TypeOK
<1>4. CASE Abort(h)
  BY <1>4, FinishedTypes DEF Abort, TypeOK
<1> QED
  BY <1>1, <1>2, <1>3, <1>4 DEF LoginStep

\* Steps only move their own handler, and codes are numbered upwards.
LEMMA OneMoves ==
    ASSUME TypeOK, NEW h \in Handlers, Setting(h) \/ LoginStep(h) \/ Abort(h)
    PROVE  /\ \A g \in Handlers \ {h} : op'[g] = op[g]
           /\ minted' \in {minted, minted + 1}
BY DEF Setting, LoginStep, Abort, Enroll, Show, Confirm, EnableTotp, DeleteCodes, InsertCode,
       Give, Disable, DisableTotp, ClearSecret, Login, MarkUsed, CreateToken, Begin, Goto,
       Finish, TypeOK, account, user, counts

Spends(h) == At(h, "mark_used") \/ At(h, "create_token")

\* A settings request spends no code, and adds new ones at most.
LEMMA SettingsSpendNothing ==
    ASSUME TypeOK, NEW h \in Handlers, Setting(h)
    PROVE  /\ ~Spends(h) /\ ~Spends(h)'
           /\ uses' = uses
           /\ \A c \in Codes : c \in unspent' \/ c > minted' => c \in unspent \/ c > minted
<1>0. minted \in Nat
  BY Bounds DEF TypeOK
<1>1. ASSUME NEW call \in Calls \ {"mark_used", "create_token"}, NEW item \in Nat,
             Begin(h, call, item)
      PROVE  ~Spends(h) /\ ~Spends(h)'
  BY <1>1 DEF Begin, Spends, At, TypeOK
<1>2. ASSUME NEW from \in Calls \ {"mark_used", "create_token"},
             NEW call \in Calls \ {"mark_used", "create_token"},
             At(h, from), Goto(h, call)
      PROVE  ~Spends(h) /\ ~Spends(h)'
  BY <1>2 DEF Goto, Spends, At, TypeOK, Ops
<1>3. ASSUME NEW from \in Calls \ {"mark_used", "create_token"}, At(h, from), Finish(h)
      PROVE  ~Spends(h) /\ ~Spends(h)'
  BY <1>3 DEF Finish, Spends, At, TypeOK
<1>4. ASSUME InsertCode(h)  PROVE ~Spends(h) /\ ~Spends(h)'
  <2>1. PICK call \in {"insert_code", "give"} :
            op' = [op EXCEPT ![h].batch = op[h].batch \cup {minted + 1}, ![h].call = call]
    BY <1>4 DEF InsertCode
  <2>2. op[h] \in Ops /\ op[h].call = "insert_code"
    BY <1>4 DEF InsertCode, At, TypeOK
  <2>3. op'[h].call = call
    BY <2>1, <2>2 DEF TypeOK, Ops
  <2> QED
    BY <2>2, <2>3 DEF Spends, At
<1>5. /\ uses' = uses
      /\ \A c \in Codes : c \in unspent' \/ c > minted' => c \in unspent \/ c > minted
  BY <1>0 DEF Setting, Enroll, Show, Confirm, EnableTotp, DeleteCodes, InsertCode, Give, Disable,
         DisableTotp, ClearSecret, account, user, counts, Codes
<1>6. ~Spends(h) /\ ~Spends(h)'
  <2>1. secret \in Nat /\ (Enroll(h) => secrets + 1 \in Nat)
    BY Bounds DEF TypeOK, Secrets
  <2> QED
    BY <1>1, <1>2, <1>3, <1>4, <2>1
       DEF Setting, Enroll, Show, Confirm, EnableTotp, DeleteCodes, Give, Disable,
           DisableTotp, ClearSecret, Calls
<1> QED
  BY <1>5, <1>6

LEMMA StepsCarryWhatExists ==
    ASSUME TypeOK, ItemsExist, NEW h \in Handlers, Setting(h) \/ LoginStep(h) \/ Abort(h)
    PROVE  ItemsExist'
<1>0. minted \in Nat /\ minted' \in Nat /\ minted <= minted'
  BY OneMoves, Bounds DEF TypeOK
<1>1. codes' \subseteq 1..minted'
  <2>1. codes' \subseteq codes \/ (codes' \subseteq codes \cup {minted + 1} /\ minted' = minted + 1)
    BY DEF Setting, LoginStep, Abort, Enroll, Show, Confirm, EnableTotp, DeleteCodes, InsertCode,
           Give, Disable, DisableTotp, ClearSecret, Login, MarkUsed, CreateToken, account,
           user, counts
  <2>2. 1..minted \subseteq 1..minted'
    BY <1>0
  <2>3. codes \subseteq 1..minted
    BY DEF ItemsExist
  <2>4. minted' = minted + 1 => minted + 1 \in 1..minted'
    BY <1>0
  <2> QED
    BY <2>1, <2>2, <2>3, <2>4
<1>2. ASSUME NEW g \in Handlers, g # h
      PROVE  /\ At(g, "show")' => op'[g].item \in Secrets
             /\ At(g, "mark_used")' \/ At(g, "create_token")' => op'[g].item \in 0..minted'
  BY <1>0, <1>2, OneMoves DEF ItemsExist, At
<1>3. ASSUME Setting(h)
      PROVE  At(h, "show")' => op'[h].item \in Secrets
  <2>1. CASE Enroll(h)
    <3>1. secrets + 1 \in Secrets
      BY <2>1, Bounds DEF Enroll, TypeOK, Secrets
    <3> QED
      BY <2>1, <3>1 DEF Enroll, Begin, TypeOK
  <2>2. ASSUME NEW call \in Calls \ {"show"}, NEW from \in Calls,
               At(h, from), Goto(h, call)
        PROVE  ~At(h, "show")'
    BY <2>2 DEF Goto, At, TypeOK, Ops
  <2>3. ASSUME NEW call \in Calls \ {"show"}, NEW item, Begin(h, call, item)
        PROVE  ~At(h, "show")'
    BY <2>3 DEF Begin, At, TypeOK
  <2>4. ASSUME Finish(h)  PROVE ~At(h, "show")'
    BY <2>4 DEF Finish, At, TypeOK
  <2>5. ASSUME InsertCode(h)  PROVE ~At(h, "show")'
    <3>1. PICK call \in {"insert_code", "give"} :
              op' = [op EXCEPT ![h].batch = op[h].batch \cup {minted + 1}, ![h].call = call]
      BY <2>5 DEF InsertCode
    <3>2. op[h] \in Ops
      BY <2>5 DEF InsertCode, At, TypeOK
    <3>3. op'[h].call = call
      BY <3>1, <3>2 DEF TypeOK, Ops
    <3> QED
      BY <3>3 DEF At
  <2> QED
    BY <1>3, <2>1, <2>2, <2>3, <2>4, <2>5
       DEF Setting, Show, Confirm, EnableTotp, DeleteCodes, Give, Disable, DisableTotp,
           ClearSecret, Calls
<1>4. ASSUME LoginStep(h) \/ Abort(h)
      PROVE  /\ ~At(h, "show")'
             /\ At(h, "mark_used")' \/ At(h, "create_token")' => op'[h].item \in 0..minted'
  <2>1. CASE Finish(h)
    BY <2>1 DEF Finish, At, TypeOK
  <2>2. CASE Login(h)
    <3>1. PICK call \in {"mark_used", "create_token"}, item \in {0} \cup unspent :
              Begin(h, call, item)
      BY <2>2 DEF Login
    <3>2. item \in 0..minted
      BY <1>0 DEF TypeOK, ItemsExist
    <3> QED
      BY <1>0, <3>1, <3>2 DEF Begin, At, TypeOK
  <2>3. CASE MarkUsed(h)
    <3>1. op[h] \in Ops /\ op[h].item \in 0..minted
      BY <2>3 DEF MarkUsed, At, TypeOK, ItemsExist
    <3>2. op'[h].call = "create_token" /\ op'[h].item = op[h].item
      BY <2>3, <3>1 DEF MarkUsed, Goto, TypeOK, Ops
    <3> QED
      BY <1>0, <3>1, <3>2 DEF At
  <2> QED
    BY <1>4, <2>1, <2>2, <2>3 DEF LoginStep, CreateToken, Abort
<1>5. /\ At(h, "show")' => op'[h].item \in Secrets
      /\ At(h, "mark_used")' \/ At(h, "create_token")' => op'[h].item \in 0..minted'
  BY <1>3, <1>4, SettingsSpendNothing DEF Spends
<1> QED
  BY <1>1, <1>2, <1>5 DEF ItemsExist

-----------------------------------------------------------------------------
(* Recovery codes: a login that is to open with a code has read it unspent. *)

\* The handlers that are about to open a login with the code.
Holders(c) == {h \in Handlers : Spends(h) /\ op[h].item = c}

\* As long as a code is unspent nobody has got in with it; the logins that had read
\* it by then are all that ever do.
SpendingIsBounded ==
    \A c \in Codes :
        /\ uses[c] + Cardinality(Holders(c)) <= Cardinality(Handlers)
        /\ c \in unspent \/ c > minted =>
              uses[c] = 0 /\ \A h \in Handlers : At(h, "create_token") => op[h].item # c

LEMMA HoldersAreFew ==
    ASSUME NEW c
    PROVE  /\ IsFiniteSet(Holders(c))
           /\ Cardinality(Holders(c)) \in Nat /\ Cardinality(Handlers) \in Nat
           /\ Cardinality(Holders(c)) <= Cardinality(Handlers)
<1>1. Holders(c) \subseteq Handlers /\ IsFiniteSet(Handlers)
  BY TwoFactorAssumption DEF Holders
<1> QED
  BY <1>1, FS_Subset, FS_CardinalityType

LEMMA InitSpending == Init => SpendingIsBounded
<1> SUFFICES ASSUME Init, NEW c \in Codes
             PROVE  /\ uses[c] + Cardinality(Holders(c)) <= Cardinality(Handlers)
                    /\ uses[c] = 0 /\ \A h \in Handlers : ~At(h, "create_token")
  BY DEF SpendingIsBounded
<1> QED
  BY HoldersAreFew DEF Init, At

\* Every step but CreateToken leaves the uses alone; what matters is who holds.
LEMMA StepsSpendOnce ==
    ASSUME TypeOK, ItemsExist, SpendingIsBounded, NEW h \in Handlers,
           Setting(h) \/ LoginStep(h) \/ Abort(h)
    PROVE  SpendingIsBounded'
<1> SUFFICES ASSUME NEW c \in Codes
             PROVE  /\ uses'[c] + Cardinality(Holders(c)') <= Cardinality(Handlers)
                    /\ c \in unspent' \/ c > minted' =>
                          /\ uses'[c] = 0
                          /\ \A g \in Handlers : At(g, "create_token")' => op'[g].item # c
  BY DEF SpendingIsBounded
<1>n. /\ uses[c] \in Nat /\ c \in Nat \ {0} /\ minted \in Nat
      /\ Cardinality(Handlers) \in Nat
      /\ Cardinality(Holders(c)) \in Nat
  BY HoldersAreFew, Bounds DEF TypeOK, Codes
<1>b. /\ uses[c] + Cardinality(Holders(c)) <= Cardinality(Handlers)
      /\ c \in unspent \/ c > minted =>
            uses[c] = 0 /\ \A g \in Handlers : At(g, "create_token") => op[g].item # c
  BY DEF SpendingIsBounded
<1>o. \A g \in Handlers \ {h} : op'[g] = op[g]
  BY OneMoves
<1>f. /\ IsFiniteSet(Holders(c)) /\ IsFiniteSet(Holders(c)')
      /\ Cardinality(Holders(c)') \in Nat
      /\ Cardinality(Holders(c)') <= Cardinality(Handlers)
  <2>1. Holders(c)' \subseteq Handlers /\ IsFiniteSet(Handlers)
    BY TwoFactorAssumption DEF Holders
  <2> QED
    BY <2>1, FS_Subset, FS_CardinalityType, HoldersAreFew
\* Nobody new holds the code, nor has got further with it.
<1>1. ASSUME uses' = uses, Holders(c)' \subseteq Holders(c),
             c \in unspent' \/ c > minted' => c \in unspent \/ c > minted,
             At(h, "create_token")' /\ op'[h].item = c => c \notin unspent' /\ c <= minted'
      PROVE  /\ uses'[c] + Cardinality(Holders(c)') <= Cardinality(Handlers)
             /\ c \in unspent' \/ c > minted' =>
                   /\ uses'[c] = 0
                   /\ \A g \in Handlers : At(g, "create_token")' => op'[g].item # c
  <2>1. Cardinality(Holders(c)') <= Cardinality(Holders(c))
    BY <1>1, <1>f, FS_Subset
  <2>2. uses'[c] + Cardinality(Holders(c)') <= Cardinality(Handlers)
    BY <1>1, <1>b, <1>n, <1>f, <2>1
  <2>3. ASSUME c \in unspent' \/ c > minted', NEW g \in Handlers, At(g, "create_token")'
        PROVE  op'[g].item # c
    <3>1. minted' \in Nat
      BY <1>n, OneMoves
    <3>2. CASE g = h
      BY <1>1, <1>n, <2>3, <3>1, <3>2
    <3>3. CASE g # h
      BY <1>1, <1>b, <1>o, <2>3, <3>3 DEF At
    <3> QED
      BY <3>2, <3>3
  <2> QED
    BY <1>1, <1>b, <2>2, <2>3
<1>2. CASE Setting(h)
  <2>1. Holders(c)' \subseteq Holders(c)
    BY <1>2, <1>o, SettingsSpendNothing DEF Holders, Spends, At
  <2>2. ~At(h, "create_token")'
    BY <1>2, SettingsSpendNothing DEF Spends
  <2> QED
    BY <1>1, <1>2, <2>1, <2>2, SettingsSpendNothing
<1>3. CASE Abort(h)
  <2>1. op'[h] = NULL /\ UNCHANGED <<uses, unspent, minted>>
    BY <1>3 DEF Abort, Finish, account, user, TypeOK
  <2>2. Holders(c)' \subseteq Holders(c) /\ ~At(h, "create_token")'
    BY <1>o, <2>1 DEF Holders, Spends, At
  <2> QED
    BY <1>1, <2>1, <2>2
<1>4. CASE Login(h)
  <2>1. UNCHANGED <<uses, unspent, minted>> /\ op[h] = NULL
    BY <1>4 DEF Login, Begin, account, user, counts
  <2>2. CASE Begin(h, "create_token", 0)
    <3>1. op'[h].item = 0
      BY <2>2 DEF Begin, TypeOK
    <3>2. Holders(c)' \subseteq Holders(c) /\ (At(h, "create_token")' => op'[h].item # c)
      BY <3>1, <1>o, <1>n DEF Holders, Spends, At
    <3> QED
      BY <1>1, <2>1, <3>2
  <2>3. ASSUME NEW d \in given \cap unspent, Begin(h, "mark_used", d)
        PROVE  /\ uses'[c] + Cardinality(Holders(c)') <= Cardinality(Handlers)
               /\ c \in unspent' \/ c > minted' =>
                     /\ uses'[c] = 0
                     /\ \A g \in Handlers : At(g, "create_token")' => op'[g].item # c
    <3>1. op'[h].call = "mark_used" /\ op'[h].item = d
      BY <2>3 DEF Begin, TypeOK
    <3>2. ~At(h, "create_token")'
      BY <3>1 DEF At
    <3>3. CASE d = c
      BY <1>b, <1>f, <1>n, <1>o, <2>1, <3>2, <3>3 DEF At
    <3>4. CASE d # c
      <4>1. Holders(c)' \subseteq Holders(c)
        BY <3>1, <3>4, <1>o DEF Holders, Spends, At
      <4> QED
        BY <1>1, <2>1, <3>2, <4>1
    <3> QED
      BY <3>3, <3>4
  <2> QED
    BY <1>4, <2>2, <2>3 DEF Login
<1>5. CASE MarkUsed(h)
  <2>1. /\ op[h] \in Ops /\ Spends(h)
        /\ op[h].item \in 0..minted
    BY <1>5 DEF MarkUsed, At, TypeOK, Spends, ItemsExist
  <2>2. op'[h].call = "create_token" /\ op'[h].item = op[h].item
    BY <1>5, <2>1 DEF MarkUsed, Goto, TypeOK, Ops
  <2>3. /\ unspent' = unspent \ {op[h].item}
        /\ UNCHANGED <<uses, minted>>
    BY <1>5 DEF MarkUsed, user, counts
  <2>4. Holders(c)' \subseteq Holders(c)
    BY <1>o, <2>1, <2>2 DEF Holders, Spends, At
  <2>5. op'[h].item = c => c \notin unspent' /\ c <= minted'
    BY <1>n, <2>1, <2>2, <2>3
  <2> QED
    BY <1>1, <2>3, <2>4, <2>5
<1>6. CASE CreateToken(h)
  <2>1. /\ op'[h] = NULL /\ Spends(h) /\ At(h, "create_token")
        /\ UNCHANGED <<unspent, minted>>
        /\ uses'[c] = IF c = op[h].item THEN uses[c] + 1 ELSE uses[c]
    BY <1>6 DEF CreateToken, Finish, account, counts, TypeOK, Spends
  <2>2. Holders(c)' = Holders(c) \ {h}
    BY <1>o, <2>1 DEF Holders, Spends, At
  <2>3. CASE c = op[h].item
    <3>1. h \in Holders(c)
      BY <2>1, <2>3 DEF Holders
    <3>2. Cardinality(Holders(c)') = Cardinality(Holders(c)) - 1
      BY <1>f, <2>2, <3>1, FS_RemoveElement
    <3> QED
      BY <1>b, <1>n, <2>1, <2>3, <3>2
  <2>4. CASE c # op[h].item
    <3>1. Holders(c)' = Holders(c)
      BY <2>2, <2>4 DEF Holders
    <3> QED
      BY <1>b, <1>o, <2>1, <2>4, <3>1 DEF At
  <2> QED
    BY <2>3, <2>4
<1> QED
  BY <1>2, <1>3, <1>4, <1>5, <1>6 DEF LoginStep

-----------------------------------------------------------------------------
(* One settings request at a time. *)

Rests(s) == op[s] = NULL \/ Spends(s)

\* How far the request in slot s is decides what may be missing.
SecretOutlastsFlag(s) ==
    /\ enabled => secret # 0
    /\ At(s, "enable") => secret # 0
    /\ At(s, "clear_secret") => ~enabled

\* The same for the user's keys, as long as no handler has been dropped.
Progress(s) ==
    /\ Rests(s) => (enabled => secret \in shown /\ codes = given)
    /\ At(s, "show") => secret = op[s].item /\ (enabled => codes = given)
    /\ At(s, "enable") \/ At(s, "delete_codes") => secret \in shown /\ op[s].batch = {}
    /\ At(s, "insert_code") \/ At(s, "give") => secret \in shown /\ codes = op[s].batch
    /\ At(s, "disable") => secret \in shown /\ codes = given

OneAtATime(s) ==
    /\ SecretOutlastsFlag(s)
    /\ faults \in Nat
    /\ faults = 0 => Progress(s)

LEMMA InitOneAtATime ==
    ASSUME NEW s \in Handlers, Init
    PROVE  OneAtATime(s)
BY DEF Init, OneAtATime, SecretOutlastsFlag, Progress, Rests, Spends, At

\* What the slot holds after each kind of move.
LEMMA Moves ==
    ASSUME TypeOK, NEW s \in Handlers
    PROVE  /\ \A c \in Calls, i \in Nat : Begin(s, c, i) =>
                 /\ op[s] = NULL
                 /\ op'[s] # NULL /\ op'[s].call = c /\ op'[s].item = i /\ op'[s].batch = {}
           /\ \A c \in Calls : Goto(s, c) /\ op[s] # NULL =>
                 /\ op'[s] # NULL /\ op'[s].call = c
                 /\ op'[s].item = op[s].item /\ op'[s].batch = op[s].batch
           /\ Finish(s) => op'[s] = NULL
<1>1. ASSUME NEW c \in Calls, NEW i \in Nat, Begin(s, c, i)
      PROVE  /\ op[s] = NULL
             /\ op'[s] # NULL /\ op'[s].call = c /\ op'[s].item = i /\ op'[s].batch = {}
  <2>1. [call |-> c, item |-> i, batch |-> {}] \in Ops
    BY DEF Ops
  <2>2. op'[s] = [call |-> c, item |-> i, batch |-> {}] /\ op[s] = NULL
    BY <1>1 DEF Begin, TypeOK
  <2> HIDE DEF Ops
  <2> QED
    BY <2>1, <2>2
<1>2. ASSUME NEW c \in Calls, Goto(s, c), op[s] # NULL
      PROVE  /\ op'[s] # NULL /\ op'[s].call = c
             /\ op'[s].item = op[s].item /\ op'[s].batch = op[s].batch
  <2>1. op[s] \in Ops
    BY <1>2 DEF TypeOK
  <2>2. op'[s] = [op[s] EXCEPT !.call = c]
    BY <1>2 DEF Goto, TypeOK
  <2>3. [op[s] EXCEPT !.call = c] \in Ops
    BY <2>1 DEF Ops
  <2> QED
    BY <2>1, <2>2, <2>3 DEF Ops
<1> QED
  BY <1>1, <1>2 DEF Finish, TypeOK

LEMMA SettingsOneAtATime ==
    ASSUME TypeOK, NEW s \in Handlers, OneAtATime(s), Setting(s)
    PROVE  OneAtATime(s)'
<1>c. Calls = {"show", "enable", "delete_codes", "insert_code", "give",
               "disable", "clear_secret", "mark_used", "create_token"}
  BY DEF Calls
<1>n. secret \in Nat /\ secrets \in Nat /\ secrets + 1 \in Nat
  BY Bounds DEF TypeOK, Secrets
<1> USE DEF account, user, counts, OneAtATime, SecretOutlastsFlag, Progress, Rests, Spends, At
<1>1. CASE Enroll(s)
  <2>1. /\ op[s] = NULL /\ op'[s] # NULL
        /\ op'[s].call = "show" /\ op'[s].item = secrets + 1
    BY <1>1, <1>c, <1>n, Moves DEF Enroll
  <2> QED
    BY <1>1, <1>n, <2>1 DEF Enroll
<1>2. CASE Show(s)
  BY <1>2, Moves DEF Show
<1>3. CASE Confirm(s)
  BY <1>3, <1>c, <1>n, Moves DEF Confirm, Verifies
<1>4. CASE EnableTotp(s)
  BY <1>4, <1>c, Moves DEF EnableTotp
<1>5. CASE DeleteCodes(s)
  BY <1>5, <1>c, Moves DEF DeleteCodes
<1>6. CASE InsertCode(s)
  <2> DEFINE batch == op[s].batch \cup {minted + 1}
  <2>1. PICK call \in {"insert_code", "give"} :
            op' = [op EXCEPT ![s].batch = batch, ![s].call = call]
    BY <1>6 DEF InsertCode
  <2>2. op[s] \in Ops /\ op[s].call = "insert_code"
    BY <1>6 DEF InsertCode, TypeOK
  <2>3. op'[s].call = call /\ op'[s].batch = batch
    BY <2>1, <2>2 DEF TypeOK, Ops
  <2>4. /\ codes' = codes \cup {minted + 1}
        /\ UNCHANGED <<secret, enabled, shown, faults>>
    BY <1>6 DEF InsertCode
  <2>5. op'[s] # NULL
    <3>1. batch \in SUBSET Codes /\ call \in Calls
      BY <1>6, <1>c, <2>1, <2>2 DEF InsertCode, Ops
    <3>2. [op[s] EXCEPT !.batch = batch, !.call = call] \in Ops
      BY <2>2, <3>1 DEF Ops
    <3>3. op'[s] = [op[s] EXCEPT !.batch = batch, !.call = call]
      BY <2>1 DEF TypeOK
    <3> QED
      BY <3>2, <3>3
  <2> QED
    BY <2>2, <2>3, <2>4, <2>5
<1>7. CASE Give(s)
  BY <1>7, Moves DEF Give
<1>8. CASE Disable(s)
  BY <1>8, <1>c, <1>n, Moves DEF Disable, Verifies
<1>9. CASE DisableTotp(s)
  BY <1>9, <1>c, Moves DEF DisableTotp
<1>10. CASE ClearSecret(s)
  BY <1>10, Moves DEF ClearSecret
<1> QED
  BY <1>1, <1>2, <1>3, <1>4, <1>5, <1>6, <1>7, <1>8, <1>9, <1>10 DEF Setting

\* A login writes nothing that a settings request depends on; a dropped request may
\* lose the keys, but not the secret of an enabled second factor.
LEMMA OthersOneAtATime ==
    ASSUME TypeOK, NEW s \in Handlers, OneAtATime(s),
           NEW h \in Handlers, LoginStep(h) \/ Abort(h)
    PROVE  OneAtATime(s)'
<1>c. {"mark_used", "create_token"} \subseteq Calls
  BY DEF Calls
<1>1. UNCHANGED <<secret, enabled, codes, shown, given>>
  BY DEF LoginStep, Login, MarkUsed, CreateToken, Abort, account, user
<1>2. h # s => op'[s] = op[s]
  BY OneMoves
<1> USE DEF OneAtATime, SecretOutlastsFlag, Progress, Rests, Spends, At
<1>3. CASE LoginStep(h)
  <2>1. faults' = faults
    BY <1>3 DEF LoginStep, Login, MarkUsed, CreateToken, counts
  <2>2. h = s => Rests(s) /\ Rests(s)'
    <3>1. CASE Login(h)
      <4>1. PICK call \in {"mark_used", "create_token"}, item \in Nat : Begin(h, call, item)
        BY <3>1 DEF Login, TypeOK, Codes
      <4> QED
        BY <4>1, <1>c, Moves
    <3>2. CASE MarkUsed(h)
      BY <3>2, <1>c, Moves DEF MarkUsed
    <3>3. CASE CreateToken(h)
      BY <3>3, Moves DEF CreateToken
    <3> QED
      BY <1>3, <3>1, <3>2, <3>3 DEF LoginStep
  <2> QED
    BY <1>1, <1>2, <2>1, <2>2
<1>4. CASE Abort(h)
  <2>1. faults' = faults + 1
    BY <1>4 DEF Abort
  <2>2. h = s => op'[s] = NULL
    BY <1>4, Moves DEF Abort
  <2> QED
    BY <1>1, <1>2, <2>1, <2>2
<1> QED
  BY <1>3, <1>4

-----------------------------------------------------------------------------
(* Theorems. *)

Inv == TypeOK /\ ItemsExist /\ SpendingIsBounded

LEMMA Invariance == Spec => []Inv
<1>1. Init => Inv
  BY InitTypes, InitSpending DEF Inv
<1>2. Inv /\ [Next]_vars => Inv'
  <2> SUFFICES ASSUME Inv, [Next]_vars  PROVE Inv'
    OBVIOUS
  <2>1. ASSUME NEW h \in Handlers, Setting(h) \/ LoginStep(h) \/ Abort(h)  PROVE Inv'
    BY <2>1, SettingTypes, LoginTypes, StepsCarryWhatExists, StepsSpendOnce DEF Inv
  <2>2. CASE UNCHANGED vars
    <3>1. TypeOK' /\ ItemsExist'
      BY <2>2 DEF Inv, vars, account, user, counts, TypeOK, ItemsExist, At
    <3>2. \A c : Holders(c)' = Holders(c)
      BY <2>2 DEF vars, Holders, Spends, At
    <3>3. SpendingIsBounded'
      BY <2>2, <3>2 DEF Inv, vars, account, user, counts, SpendingIsBounded, At
    <3> QED
      BY <3>1, <3>3 DEF Inv
  <2> QED
    BY <2>1, <2>2, Bounds DEF Next
<1> QED
  BY <1>1, <1>2, PTL DEF Spec

\* The account, its recovery codes and the handlers keep their types.
THEOREM TypeCorrect == Spec => []TypeOK
<1>1. Inv => TypeOK
  BY DEF Inv
<1> QED
  BY <1>1, Invariance, PTL

\* However logins interleave between the statement that reads a recovery code and the
\* one that marks it, the code opens no more of them than there are slots.
THEOREM CodesOpenFewLogins == Spec => []CodeUsesAreBounded
<1>1. Inv => CodeUsesAreBounded
  <2> SUFFICES ASSUME Inv, NEW c \in Codes
               PROVE  uses[c] <= Cardinality(Handlers)
    BY DEF CodeUsesAreBounded
  <2>1. uses[c] \in Nat /\ uses[c] + Cardinality(Holders(c)) <= Cardinality(Handlers)
    BY DEF Inv, TypeOK, SpendingIsBounded
  <2> QED
    BY <2>1, HoldersAreFew
<1> QED
  BY <1>1, Invariance, PTL

LEMMA InvarianceOneAtATime ==
    ASSUME NEW CONSTANT s, Settings = {s}
    PROVE  Spec => [](OneAtATime(s))
<1>h. s \in Handlers
  BY Bounds
<1>1. Init => OneAtATime(s)
  BY <1>h, InitOneAtATime
<1>2. Inv /\ OneAtATime(s) /\ [Next]_vars => OneAtATime(s)'
  <2> SUFFICES ASSUME Inv, OneAtATime(s), [Next]_vars  PROVE OneAtATime(s)'
    OBVIOUS
  <2>1. CASE Setting(s)
    BY <1>h, <2>1, SettingsOneAtATime DEF Inv
  <2>2. ASSUME NEW h \in Handlers, LoginStep(h) \/ Abort(h)  PROVE OneAtATime(s)'
    BY <1>h, <2>2, OthersOneAtATime DEF Inv
  <2>3. CASE UNCHANGED vars
    BY <2>3 DEF vars, account, user, counts, OneAtATime, SecretOutlastsFlag, Progress,
                Rests, Spends, At
  <2> QED
    BY <2>1, <2>2, <2>3 DEF Next
<1> QED
  BY <1>1, <1>2, Invariance, PTL DEF Spec

\* If one slot serves the account's settings, TOTP is never enabled without a secret,
\* whichever call a request was dropped at.
THEOREM EnabledKeepsSecret ==
    ASSUME NEW CONSTANT s, Settings = {s}
    PROVE  Spec => []EnabledHasSecret
<1>1. OneAtATime(s) => EnabledHasSecret
  BY DEF OneAtATime, SecretOutlastsFlag, EnabledHasSecret
<1> QED
  BY <1>1, InvarianceOneAtATime, PTL

\* If none of its requests is dropped either, the user is never locked out: between
\* requests they hold the secret and the recovery codes in force.
THEOREM KeysAreHeld ==
    ASSUME NEW CONSTANT s, Settings = {s}
    PROVE  Spec => []UserHoldsTheKeys
<1>1. OneAtATime(s) => UserHoldsTheKeys
  <2> SUFFICES ASSUME OneAtATime(s), Quiet, faults = 0, enabled
               PROVE  secret \in shown /\ codes = given
    BY DEF UserHoldsTheKeys
  <2>1. Rests(s)
    BY DEF Quiet, Rests, Spends, At
  <2> QED
    BY <2>1 DEF OneAtATime, Progress
<1> QED
  BY <1>1, InvarianceOneAtATime, PTL

=============================================================================
