----------------------------- MODULE TwoFactor -----------------------------
(***************************************************************************)
(* The second factor of one account: enrolment, confirmation and disabling *)
(* of TOTP (src/src/api/totp.rs), recovery codes (src/src/db.rs) and the   *)
(* login that asks for either (src/src/api/login.rs).                      *)
(*                                                                         *)
(* Secrets and codes are numbers, fresh when generated.  A live code is    *)
(* valid for the secret it was computed from and known to whoever has been *)
(* shown that secret; the time step is abstracted away.                    *)
(***************************************************************************)
EXTENDS Naturals, FiniteSets

CONSTANTS
    Handlers,      \* slots for concurrent handlers
    Settings,      \* the slots that serve the settings requests of the account
    CodesPerSet,   \* recovery codes a confirmation generates, 8 in the code
    MaxSecrets,    \* bound on secrets generated
    MaxCodes,      \* bound on recovery codes generated
    MaxFaults,     \* bound on dropped handlers
    NULL

ASSUME TwoFactorAssumption ==
    /\ IsFiniteSet(Handlers) /\ Settings \subseteq Handlers
    /\ {CodesPerSet, MaxSecrets, MaxCodes, MaxFaults} \subseteq Nat

VARIABLES
    secret,     \* users.totp_secret, 0 for NULL
    enabled,    \* users.totp_enabled
    codes,      \* rows of totp_recovery_codes
    unspent,    \* those with used = 0
    shown,      \* secrets the user has been shown
    given,      \* the recovery codes the user was given last
    op,         \* per slot: next call of the handler and what it carries, NULL if free
    secrets, minted,   \* how many secrets and codes have been generated
    uses,       \* how many logins each code has opened
    faults

account == <<secret, enabled, codes, unspent>>
user    == <<shown, given, uses>>
counts  == <<secrets, minted, faults>>
vars    == <<account, user, op, counts>>

-----------------------------------------------------------------------------
(* Values. *)

Secrets == 1..MaxSecrets
Codes   == 1..MaxCodes

Calls == {"show", "enable", "delete_codes", "insert_code", "give",
          "disable", "clear_secret", "mark_used", "create_token"}

\* item: the secret or recovery code in hand; batch: the codes generated so far.
Ops == [call : Calls, item : Nat, batch : SUBSET Codes]

ASSUME NullIsNoOp == NULL \notin Ops

Begin(h, call, item) ==
    /\ op[h] = NULL
    /\ op' = [op EXCEPT ![h] = [call |-> call, item |-> item, batch |-> {}]]
At(h, call)   == op[h] # NULL /\ op[h].call = call
Goto(h, call) == op' = [op EXCEPT ![h].call = call]
Finish(h)     == op' = [op EXCEPT ![h] = NULL]

\* totp::verify with a code of the user's app, which has every secret shown.
Verifies(s) == s \in shown

-----------------------------------------------------------------------------
(* Settings. *)

\* Whether or not TOTP is enabled.
Enroll(h) ==
    /\ secrets < MaxSecrets
    /\ secret' = secrets + 1
    /\ secrets' = secrets + 1
    /\ Begin(h, "show", secrets + 1)
    /\ UNCHANGED <<enabled, codes, unspent, user, minted, faults>>

Show(h) ==
    /\ At(h, "show")
    /\ shown' = shown \cup {op[h].item}
    /\ Finish(h)
    /\ UNCHANGED <<account, given, uses, counts>>

\* Mutant: the secret the code was for is not looked for.
ConfirmWithoutSecret(h) ==
    /\ minted + CodesPerSet <= MaxCodes
    /\ Begin(h, "enable", secret)
    /\ UNCHANGED <<account, user, counts>>

\* The secret is read and verified here.
Confirm(h) ==
    /\ secret # 0 /\ Verifies(secret)
    /\ minted + CodesPerSet <= MaxCodes
    /\ Begin(h, "enable", secret)
    /\ UNCHANGED <<account, user, counts>>

EnableTotp(h) ==
    /\ At(h, "enable")
    /\ enabled' = TRUE
    /\ Goto(h, "delete_codes")
    /\ UNCHANGED <<secret, codes, unspent, user, counts>>

\* Mutant: the codes of an earlier confirmation stay.
DeleteNothing(h) ==
    /\ At(h, "delete_codes")
    /\ Goto(h, "insert_code")
    /\ UNCHANGED <<account, user, counts>>

DeleteCodes(h) ==
    /\ At(h, "delete_codes")
    /\ codes' = {} /\ unspent' = {}
    /\ Goto(h, "insert_code")
    /\ UNCHANGED <<secret, enabled, user, counts>>

\* One INSERT per code.
InsertCode(h) ==
    /\ At(h, "insert_code")
    /\ LET c == minted + 1 batch == op[h].batch \cup {c} IN
       /\ c \in Codes
       /\ minted' = c
       /\ codes' = codes \cup {c} /\ unspent' = unspent \cup {c}
       /\ op' = [op EXCEPT ![h].batch = batch,
                           ![h].call = IF Cardinality(batch) < CodesPerSet
                                         THEN "insert_code" ELSE "give"]
    /\ UNCHANGED <<secret, enabled, user, secrets, faults>>

Give(h) ==
    /\ At(h, "give")
    /\ given' = op[h].batch
    /\ Finish(h)
    /\ UNCHANGED <<account, shown, uses, counts>>

\* A missing secret is an internal error.
Disable(h) ==
    /\ enabled /\ secret # 0 /\ Verifies(secret)
    /\ Begin(h, "disable", secret)
    /\ UNCHANGED <<account, user, counts>>

DisableTotp(h) ==
    /\ At(h, "disable")
    /\ enabled' = FALSE
    /\ Goto(h, "clear_secret")
    /\ UNCHANGED <<secret, codes, unspent, user, counts>>

\* The recovery codes stay.
ClearSecret(h) ==
    /\ At(h, "clear_secret")
    /\ secret' = 0
    /\ Finish(h)
    /\ UNCHANGED <<enabled, codes, unspent, user, counts>>

-----------------------------------------------------------------------------
(* Login, from the password on. *)

\* The row read here decides whether a second factor is asked for: a live code
\* or a recovery code that is still unspent.
Login(h) ==
    /\ \/ /\ ~enabled \/ (secret # 0 /\ Verifies(secret))
          /\ Begin(h, "create_token", 0)
       \/ /\ enabled /\ secret # 0
          /\ \E c \in given \cap unspent : Begin(h, "mark_used", c)
    /\ UNCHANGED <<account, user, counts>>

\* Mutant: a code found unspent is not marked.
MarkNothing(h) ==
    /\ At(h, "mark_used")
    /\ Goto(h, "create_token")
    /\ UNCHANGED <<account, user, counts>>

\* The UPDATE of consume_recovery_code does not ask whether another was faster.
MarkUsed(h) ==
    /\ At(h, "mark_used")
    /\ unspent' = unspent \ {op[h].item}
    /\ Goto(h, "create_token")
    /\ UNCHANGED <<secret, enabled, codes, user, counts>>

CreateToken(h) ==
    /\ At(h, "create_token")
    /\ uses' = [c \in Codes |-> IF c = op[h].item THEN uses[c] + 1 ELSE uses[c]]
    /\ Finish(h)
    /\ UNCHANGED <<account, shown, given, counts>>

\* The client goes away, or a call fails.
Abort(h) ==
    /\ faults < MaxFaults
    /\ op[h] # NULL
    /\ faults' = faults + 1
    /\ Finish(h)
    /\ UNCHANGED <<account, user, secrets, minted>>

-----------------------------------------------------------------------------

Init ==
    /\ secret = 0 /\ enabled = FALSE
    /\ codes = {} /\ unspent = {}
    /\ shown = {} /\ given = {}
    /\ op = [h \in Handlers |-> NULL]
    /\ secrets = 0 /\ minted = 0 /\ faults = 0
    /\ uses = [c \in Codes |-> 0]

Setting(h) ==
    \/ Enroll(h) \/ Show(h)
    \/ Confirm(h) \/ EnableTotp(h) \/ DeleteCodes(h) \/ InsertCode(h) \/ Give(h)
    \/ Disable(h) \/ DisableTotp(h) \/ ClearSecret(h)

LoginStep(h) == Login(h) \/ MarkUsed(h) \/ CreateToken(h)

Next ==
    \/ \E h \in Settings : Setting(h)
    \/ \E h \in Handlers : LoginStep(h) \/ Abort(h)

Spec == Init /\ [][Next]_vars

-----------------------------------------------------------------------------
(* Types. *)

\* The account, its codes and the handlers keep their types; unspent codes are rows.
TypeOK ==
    /\ secret \in Secrets \cup {0}
    /\ enabled \in BOOLEAN
    /\ codes \subseteq Codes /\ unspent \subseteq codes
    /\ shown \subseteq Secrets /\ given \subseteq Codes
    /\ op \in [Handlers -> Ops \cup {NULL}]
    /\ secrets \in 0..MaxSecrets /\ minted \in 0..MaxCodes
    /\ uses \in [Codes -> Nat]

-----------------------------------------------------------------------------
(* Safety. *)

\* A recovery code is read by one statement and marked by another, so several
\* logins may spend it, but only those that had read it before it was marked:
\* it opens no more logins than there are slots.
CodeUsesAreBounded ==
    \A c \in Codes : uses[c] <= Cardinality(Handlers)

Quiet == \A h \in Settings : op[h] = NULL \/ op[h].call = "create_token"

\* If the account's settings requests come one at a time, TOTP is never left
\* enabled without a secret, whichever of its calls a request was dropped at: with
\* no secret every login and the request to disable it would be refused for good.
EnabledHasSecret == enabled => secret # 0

\* If they come one at a time and none is dropped, the user can always pass the
\* second factor: the secret in force is one they were shown, and the codes in
\* force are the ones they were given, whatever logins have spent meanwhile.
UserHoldsTheKeys ==
    Quiet /\ faults = 0 /\ enabled => secret \in shown /\ codes = given

=============================================================================
