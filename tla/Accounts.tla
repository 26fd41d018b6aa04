------------------------------ MODULE Accounts ------------------------------
(***************************************************************************)
(* Accounts, sessions and password resets.                                 *)
(*                                                                         *)
(*   app/auth/service.py            create_user, user_from_token, ...      *)
(*   app/api/routers/auth.py        the requests of users                  *)
(*   app/api/routers/admin.py       update_user, delete_user               *)
(*                                                                         *)
(* FastAPI runs these handlers in threads, and there may be several        *)
(* processes.  Each SELECT is a step and each commit is a step: what a     *)
(* handler computes from a row it has read is written without comparing    *)
(* again, and the ORM only notices a row that is gone (StaleDataError).    *)
(***************************************************************************)
EXTENDS Integers, FiniteSets

CONSTANTS
    Requests,           \* requests that may be handled at the same time
    Emails,
    InitialAdmin,       \* INITIAL_ADMIN_EMAIL; not in Emails if it is not set
    MaxRegistrations,   \* registrations of one address
    MaxLinks,           \* password reset links
    MaxRequests         \* requests of all kinds

ASSUME AccountsAssumption ==
    /\ MaxRegistrations \in Nat /\ MaxLinks \in Nat /\ MaxRequests \in Nat
    /\ Emails # {} /\ MaxRegistrations > 0 /\ IsFiniteSet(Requests)

(* User.id: the n-th registration of an address has an id of its own.      *)
Accounts == Emails \X (1..MaxRegistrations)
Links == 1..MaxLinks

VARIABLES
    \* users
    presence,   \* "unused", "present" or "deleted"
    role, status, version,
    \* password_reset_tokens
    link, owner, expired,
    \* The signed tokens that have been handed out.
    tokens,
    \* What the handler of a request knows, and how many requests there were.
    req, begun,
    \* History.
    revocations,    \* committed changes that revoke the tokens of an account
    overtaken,      \* one of them was computed from a row changed meanwhile
    uses,           \* passwords that a link has set
    rivals,         \* confirmations under way when it set the first
    crossed         \* the administrators have changed since a request read a row

users == <<presence, role, status, version>>
mails == <<link, owner, expired>>
spent == <<uses, rivals>>
history == <<revocations, overtaken, spent, crossed>>
vars == <<users, mails, tokens, req, begun, history>>

Roles == {"user", "admin"}
Statuses == {"active", "disabled"}
Rows == [role : Roles, status : Statuses]
Wishes == [role : Roles \cup {"keep"}, status : Statuses \cup {"keep"}]
NoWish == [role |-> "keep", status |-> "keep"]
PcStates == {"idle", "free", "insert", "answer", "change", "logout", "admin",
             "forget", "issue", "reset", "confirm", "patch", "remove",
             "patched", "removed"}
AnyAccount == CHOOSE a \in Accounts : TRUE

Jobs == [pc     : PcStates,
         who    : Accounts,             \* the account it acts for
         seen   : Nat,                  \* token_version of the row it has read
         boss   : BOOLEAN,              \* the registration makes an administrator
         mail   : Links \cup {0},       \* the reset link it confirms
         doomed : SUBSET Links,         \* links it has deleted and not committed
         target : Accounts,             \* the account to change or delete,
         read   : Rows,                 \* what of its row was read
         wish   : Wishes]               \* and the fields of the PATCH

Idle == [pc |-> "idle", who |-> AnyAccount, seen |-> 0, boss |-> FALSE, mail |-> 0,
         doomed |-> {}, target |-> AnyAccount,
         read |-> [role |-> "user", status |-> "active"], wish |-> NoWish]

UserType ==
    /\ presence \in [Accounts -> {"unused", "present", "deleted"}]
    /\ role \in [Accounts -> Roles] /\ status \in [Accounts -> Statuses]
    /\ version \in [Accounts -> Nat]

MailType ==
    /\ link \in [Links -> {"none", "open", "used", "deleted"}]
    /\ owner \in [Links -> Accounts] /\ expired \in [Links -> BOOLEAN]

HistoryType ==
    /\ revocations \in [Accounts -> Nat] /\ overtaken \in [Accounts -> BOOLEAN]
    /\ uses \in [Links -> Nat] /\ rivals \in [Links -> Nat]
    /\ crossed \in [Requests -> BOOLEAN]

TypeOK ==
    /\ UserType /\ MailType /\ HistoryType
    /\ tokens \subseteq [account : Accounts, ver : Nat, epoch : Nat]
    /\ req \in [Requests -> Jobs] /\ begun \in 0..MaxRequests

Init ==
    /\ presence = [a \in Accounts |-> "unused"] /\ role = [a \in Accounts |-> "user"]
    /\ status = [a \in Accounts |-> "active"] /\ version = [a \in Accounts |-> 0]
    /\ link = [i \in Links |-> "none"] /\ owner = [i \in Links |-> AnyAccount]
    /\ expired = [i \in Links |-> FALSE]
    /\ tokens = {} /\ begun = 0 /\ req = [r \in Requests |-> Idle]
    /\ revocations = [a \in Accounts |-> 0] /\ overtaken = [a \in Accounts |-> FALSE]
    /\ uses = [i \in Links |-> 0] /\ rivals = [i \in Links |-> 0]
    /\ crossed = [r \in Requests |-> FALSE]

-----------------------------------------------------------------------------
(* Helpers.                                                                *)

At(r, p) == req[r].pc = p
Goto(r, p) == req' = [req EXCEPT ![r].pc = p]
Done(r) == req' = [req EXCEPT ![r] = Idle]

Begins(r, job) ==
    /\ At(r, "idle") /\ begun < MaxRequests
    /\ begun' = begun + 1
    /\ req' = [req EXCEPT ![r] = job]

Present(a) == presence[a] = "present"
Active(a) == Present(a) /\ status[a] = "active"
Admins == {a \in Accounts : Active(a) /\ role[a] = "admin"}
Taken(e) == \E a \in Accounts : a[1] = e /\ Present(a)

(* The administrators change under the requests that are to change them.   *)
Crosses(r) ==
    crossed' = [q \in Requests |->
                  /\ q # r /\ req[q].pc \in {"admin", "patch", "remove", "patched", "removed"}
                  /\ crossed[q] \/ Admins' # Admins]

(* Mutant: the version in the token is not compared.                       *)
MutValid(t) == Active(t.account)

(* user_from_token, for get_current_user and for the LangGraph server.     *)
Valid(t) == Active(t.account) /\ t.ver = version[t.account]

Locked(i) == \E r \in Requests : i \in req[r].doomed

-----------------------------------------------------------------------------
(* create_user                                                             *)

(* The address is free.                                                    *)
CheckEmail(r, a) ==
    /\ ~Taken(a[1])
    /\ Begins(r, [Idle EXCEPT !.pc = "free", !.who = a])
    /\ UNCHANGED <<users, mails, tokens, history>>

(* _should_bootstrap_admin                                                 *)
Bootstraps(a) ==
    IF InitialAdmin \in Emails
      THEN /\ a[1] = InitialAdmin
           /\ ~\E b \in Accounts : Present(b) /\ role[b] = "admin"
      ELSE ~\E b \in Accounts : Present(b)

DecideRole(r) ==
    /\ At(r, "free")
    /\ req' = [req EXCEPT ![r].boss = Bootstraps(req[r].who), ![r].pc = "insert"]
    /\ UNCHANGED <<users, mails, tokens, begun, history>>

(* The INSERT of a new id; an address taken meanwhile is an IntegrityError. *)
InsertFails(r) ==
    /\ At(r, "insert") /\ Taken(req[r].who[1])
    /\ Done(r)
    /\ UNCHANGED <<users, mails, tokens, begun, history>>

Insert(r, a) ==
    /\ At(r, "insert") /\ ~Taken(req[r].who[1])
    /\ a[1] = req[r].who[1] /\ presence[a] = "unused"
    /\ presence' = [presence EXCEPT ![a] = "present"]
    /\ role' = [role EXCEPT ![a] = IF req[r].boss THEN "admin" ELSE "user"]
    /\ req' = [req EXCEPT ![r].who = a, ![r].pc = "answer"]
    /\ UNCHANGED <<status, version, mails, tokens, begun, revocations, overtaken, spent>>
    /\ Crosses(r)

-----------------------------------------------------------------------------
(* Sessions.                                                               *)

(* authenticate_user: the password has been verified.                      *)
Login(r, a) ==
    /\ Active(a)
    /\ Begins(r, [Idle EXCEPT !.pc = "answer", !.who = a])
    /\ UNCHANGED <<users, mails, tokens, history>>

(* The row is read again after the commit and its version signed; the row  *)
(* may be gone.                                                            *)
Answer(r) ==
    LET a == req[r].who
    IN  /\ At(r, "answer")
        /\ tokens' = IF Present(a)
                       THEN tokens \cup {[account |-> a, ver |-> version[a],
                                          epoch |-> revocations[a]]}
                       ELSE tokens
        /\ Done(r)
        /\ UNCHANGED <<users, mails, begun, history>>

(* get_current_user and, for the administrators' requests, require_admin:  *)
(* the row stays in the session until the request ends.                    *)
Authenticate(r, t, p) ==
    /\ Valid(t)
    /\ p = "admin" => role[t.account] = "admin"
    /\ Begins(r, [Idle EXCEPT !.pc = p, !.who = t.account,
                              !.seen = version[t.account]])
    /\ crossed' = [crossed EXCEPT ![r] = FALSE]
    /\ UNCHANGED <<users, mails, tokens, revocations, overtaken, spent>>

(* token_version += 1 on the row that was read.                            *)
Revoke(r) ==
    LET a == req[r].who
    IN  /\ version' = [version EXCEPT ![a] = req[r].seen + 1]
        /\ revocations' = [revocations EXCEPT ![a] = @ + 1]
        /\ overtaken' = [overtaken EXCEPT ![a] = @ \/ version[a] # req[r].seen]

(* change_user_password and logout_all; only the first hands out a token.  *)
CommitVersion(r) ==
    /\ req[r].pc \in {"change", "logout"} /\ Present(req[r].who)
    /\ Revoke(r)
    /\ IF At(r, "change") THEN Goto(r, "answer") ELSE Done(r)
    /\ UNCHANGED <<presence, role, status, mails, tokens, begun, spent, crossed>>

-----------------------------------------------------------------------------
(* create_password_reset_issue                                             *)

AskReset(r, a) ==
    /\ Active(a)
    /\ Begins(r, [Idle EXCEPT !.pc = "forget", !.who = a])
    /\ UNCHANGED <<users, mails, tokens, history>>

(* The DELETE statements: the account's unused links and everybody's       *)
(* expired ones.  They wait for the locks of another transaction.          *)
DeleteLinks(r) ==
    LET rows == {i \in Links : \/ link[i] = "open" /\ owner[i] = req[r].who
                               \/ link[i] \in {"open", "used"} /\ expired[i]}
    IN  /\ At(r, "forget")
        /\ \A i \in rows : ~Locked(i)
        /\ req' = [req EXCEPT ![r].doomed = rows, ![r].pc = "issue"]
        /\ UNCHANGED <<users, mails, tokens, begun, history>>

(* The INSERT and the commit.                                              *)
CommitIssue(r, i) ==
    /\ At(r, "issue") /\ Present(req[r].who)
    /\ link[i] = "none" /\ \A j \in Links : j < i => link[j] # "none"
    /\ link' = [j \in Links |-> IF j \in req[r].doomed THEN "deleted"
                                ELSE IF j = i THEN "open" ELSE link[j]]
    /\ owner' = [owner EXCEPT ![i] = req[r].who]
    /\ Done(r)
    /\ UNCHANGED <<users, expired, tokens, begun, history>>

(* password_reset_token_minutes are over.                                  *)
Expire(i) ==
    /\ link[i] \in {"open", "used"} /\ ~expired[i]
    /\ expired' = [expired EXCEPT ![i] = TRUE]
    /\ UNCHANGED <<users, link, owner, tokens, req, begun, history>>

-----------------------------------------------------------------------------
(* reset_password_with_token                                               *)

(* Mutant: used_at is not looked at.                                       *)
MutUsable(i) == link[i] \in {"open", "used"} /\ ~expired[i]

Usable(i) == link[i] = "open" /\ ~expired[i]

ReadLink(r, i) ==
    /\ Usable(i)
    /\ Begins(r, [Idle EXCEPT !.pc = "reset", !.mail = i])
    /\ UNCHANGED <<users, mails, tokens, history>>

ReadOwner(r) ==
    LET a == owner[req[r].mail]
    IN  /\ At(r, "reset")
        /\ IF Active(a)
             THEN req' = [req EXCEPT ![r].who = a, ![r].seen = version[a],
                                     ![r].pc = "confirm"]
             ELSE Done(r)
        /\ UNCHANGED <<users, mails, tokens, begun, history>>

(* The requests that have read a link as usable and may set a password.    *)
Confirmations(i) == {r \in Requests : req[r].pc \in {"reset", "confirm"} /\ req[r].mail = i}

Spend(i) ==
    /\ uses' = [uses EXCEPT ![i] = @ + 1]
    /\ rivals' = [rivals EXCEPT ![i] = IF uses[i] = 0 THEN Cardinality(Confirmations(i)) ELSE @]

(* Mutant: a link that has been replaced meanwhile does no harm.           *)
MutCommitConfirm(r) ==
    LET i == req[r].mail
    IN  /\ At(r, "confirm") /\ Present(req[r].who)
        /\ Revoke(r)
        /\ link' = [link EXCEPT ![i] = IF @ = "deleted" THEN @ ELSE "used"]
        /\ Spend(i)
        /\ Goto(r, "answer")
        /\ UNCHANGED <<presence, role, status, owner, expired, tokens, begun, crossed>>

(* Password, version and used_at in one transaction, which waits for the   *)
(* lock of a request that deletes the link.                                *)
CommitConfirm(r) ==
    LET i == req[r].mail
    IN  /\ At(r, "confirm") /\ ~Locked(i)
        /\ Present(req[r].who) /\ link[i] # "deleted"
        /\ Revoke(r)
        /\ link' = [link EXCEPT ![i] = "used"]
        /\ Spend(i)
        /\ Goto(r, "answer")
        /\ UNCHANGED <<presence, role, status, owner, expired, tokens, begun, crossed>>

-----------------------------------------------------------------------------
(* Administration.                                                         *)

(* db.get: the administrator's own row is in the session already.          *)
ReadTarget(r, b, w, p) ==
    /\ At(r, "admin")
    /\ IF Present(b) /\ ~(p = "remove" /\ b = req[r].who)
         THEN req' = [req EXCEPT ![r].pc = p, ![r].target = b, ![r].wish = w,
                        ![r].read = IF b = req[r].who
                                      THEN [role |-> "admin", status |-> "active"]
                                      ELSE [role |-> role[b], status |-> status[b]]]
         ELSE Done(r)
    /\ crossed' = [crossed EXCEPT ![r] = @ /\ b = req[r].who]
    /\ UNCHANGED <<users, mails, tokens, begun, revocations, overtaken, spent>>

(* Mutant: only a change of the role is looked at.                         *)
MutEndangers(r) ==
    /\ req[r].read.role = "admin" /\ Cardinality(Admins) <= 1
    /\ IF At(r, "patch") THEN req[r].wish.role = "user"
                         ELSE req[r].read.status = "active"

(* The last active administrator would be lost.                            *)
Endangers(r) ==
    /\ req[r].read.role = "admin" /\ Cardinality(Admins) <= 1
    /\ IF At(r, "patch")
         THEN req[r].wish.role = "user" \/ req[r].wish.status = "disabled"
         ELSE req[r].read.status = "active"

CountAdmins(r) ==
    /\ req[r].pc \in {"patch", "remove"}
    /\ IF Endangers(r) THEN Done(r)
                       ELSE Goto(r, IF At(r, "patch") THEN "patched" ELSE "removed")
    /\ UNCHANGED <<users, mails, tokens, begun, history>>

(* The ORM writes the fields that differ from what was read.               *)
Written(wished, was, now) == IF wished \in {"keep", was} THEN now ELSE wished

CommitPatch(r) ==
    LET b == req[r].target
    IN  /\ At(r, "patched") /\ Present(b)
        /\ role' = [role EXCEPT
                      ![b] = Written(req[r].wish.role, req[r].read.role, @)]
        /\ status' = [status EXCEPT
                        ![b] = Written(req[r].wish.status, req[r].read.status, @)]
        /\ Done(r)
        /\ UNCHANGED <<presence, version, mails, tokens, begun, revocations, overtaken,
                       spent>>
        /\ Crosses(r)

(* The links of the user go with it; stored objects are deleted afterwards. *)
CommitRemove(r) ==
    LET b == req[r].target
        hers == {i \in Links : owner[i] = b /\ link[i] \in {"open", "used"}}
    IN  /\ At(r, "removed") /\ \A i \in hers : ~Locked(i)
        /\ presence' = [presence EXCEPT ![b] = "deleted"]
        /\ link' = [i \in Links |-> IF i \in hers THEN "deleted" ELSE link[i]]
        /\ Done(r)
        /\ UNCHANGED <<role, status, version, owner, expired, tokens, begun, revocations,
                       overtaken, spent>>
        /\ Crosses(r)

(* A statement fails, also because its row is gone, or the process stops:  *)
(* the transaction is rolled back.                                         *)
Fail(r) ==
    /\ ~At(r, "idle")
    /\ Done(r)
    /\ UNCHANGED <<users, mails, tokens, begun, history>>

-----------------------------------------------------------------------------
Handle(r) ==
    \/ DecideRole(r) \/ InsertFails(r) \/ \E a \in Accounts : Insert(r, a)
    \/ Answer(r) \/ CommitVersion(r)
    \/ DeleteLinks(r) \/ \E i \in Links : CommitIssue(r, i)
    \/ ReadOwner(r) \/ CommitConfirm(r)
    \/ \E b \in Accounts, w \in Wishes \ {NoWish} : ReadTarget(r, b, w, "patch")
    \/ \E b \in Accounts : ReadTarget(r, b, NoWish, "remove")
    \/ CountAdmins(r) \/ CommitPatch(r) \/ CommitRemove(r)
    \/ Fail(r)

Arrive(r) ==
    \/ \E a \in Accounts : CheckEmail(r, a) \/ Login(r, a) \/ AskReset(r, a)
    \/ \E t \in tokens, p \in {"change", "logout", "admin"} : Authenticate(r, t, p)
    \/ \E i \in Links : ReadLink(r, i)

Next ==
    \/ \E r \in Requests : Handle(r) \/ Arrive(r)
    \/ \E i \in Links : Expire(i)

Spec == Init /\ [][Next]_vars

-----------------------------------------------------------------------------
(* Properties.                                                             *)

(* logout-all, a password change and a reset make every token handed out   *)
(* before unusable, and for ever, unless one of them has overwritten the   *)
(* version of another (overtaken).  Tokens are signed from a row read      *)
(* after the commit, so the answer to a change cannot bring an old version *)
(* back.                                                                   *)
RevocationHolds ==
    \A t \in tokens :
        Valid(t) /\ ~overtaken[t.account] => t.epoch = revocations[t.account]

(* The same whatever the requests are.  Two requests that have read the    *)
(* same version write the same version, and one that has read an old       *)
(* version sets it back, so that tokens which were revoked are accepted    *)
(* again.                                                                  *)
RevokedStaysRevoked ==
    \A t \in tokens : Valid(t) => t.epoch = revocations[t.account]

(* A reset link sets a password once, and once more for each confirmation  *)
(* that had read it as usable when it was used first: nothing marks the    *)
(* link before the commit.  A confirmation that begins afterwards sets     *)
(* none, however the others end (the test reuses a link and gets 401).     *)
LinkIsSpent == \A i \in Links : uses[i] <= rivals[i]

(* A link that has been replaced sets no password, even if its             *)
(* confirmation had begun before.                                          *)
ReplacedLinkIsDead ==
    [][\A i \in Links : link[i] = "deleted" => link'[i] = "deleted" /\ uses'[i] = uses[i]]_vars

(* The last active administrator is lost only to a request whose check was *)
(* made on administrators that have changed since.                         *)
AdminRemains ==
    [][Admins # {} /\ Admins' = {} =>
          \E r \in Requests : req[r].pc \in {"patched", "removed"} /\ crossed[r]]_vars

(* With a configured address, registering makes no administrator of        *)
(* anybody else, however registrations race.                               *)
NobodyElseIsFirst ==
    [][\A a \in Accounts :
          /\ InitialAdmin \in Emails
          /\ ~Present(a) /\ presence'[a] = "present" /\ role'[a] = "admin"
          => a[1] = InitialAdmin]_vars

-----------------------------------------------------------------------------
(* The inductive invariant of the proofs.  Versions count revocations, and *)
(* a token carries the count at its signing, while nothing was overtaken.  *)
Versions ==
    \A a \in Accounts : ~overtaken[a] =>
        /\ version[a] = revocations[a]
        /\ \A t \in tokens : t.account = a => t.ver = t.epoch

(* Who is to become administrator by registering has the address for it,   *)
(* and is not confirming a reset, where the account is looked up.          *)
Bosses ==
    \A r \in Requests : req[r].boss =>
        /\ req[r].pc # "reset"
        /\ InitialAdmin \in Emails => req[r].who[1] = InitialAdmin

(* A confirmation has read a link.                                         *)
Confirming ==
    \A r \in Requests : req[r].pc \in {"reset", "confirm"} => req[r].mail \in Links

IInv == TypeOK /\ Versions /\ Bosses /\ Confirming

=============================================================================
