-------------------------- MODULE Accounts_proofs --------------------------
(***************************************************************************)
(* Proofs about Accounts, for any number of requests, addresses, accounts  *)
(* and links.                                                              *)
(*                                                                         *)
(* IInv has four parts.  NextType keeps the types and Confirming (a        *)
(* confirmation has a link, whose owner it reads), VersionsStep and        *)
(* BossesStep keep the others, which need no more than the types.          *)
(*                                                                         *)
(* Two properties have an invariant of their own beside it.  Spent counts, *)
(* for a link, the passwords it has set and the confirmations under way.   *)
(* Careful says what a request of an administrator knows while the         *)
(* administrators have not changed since it read a row.                    *)
(***************************************************************************)
EXTENDS Accounts, FiniteSetTheorems, TLAPS

(* There is an account, as there is an address.                            *)
LEMMA AnyAccountType == AnyAccount \in Accounts
<1>1. PICK e \in Emails : TRUE
  BY AccountsAssumption
<1>2. <<e, 1>> \in Accounts
  BY <1>1, AccountsAssumption DEF Accounts
<1>. QED BY <1>2 DEF AnyAccount

(* A request that has not begun.                                           *)
LEMMA IdleType == Idle \in Jobs /\ Idle.pc = "idle" /\ ~Idle.boss
BY AnyAccountType DEF Idle, Jobs, PcStates, Rows, Roles, Statuses, Wishes, NoWish

(* Confirmations are finitely many, and fewer when one of them leaves.     *)
LEMMA ConfirmationsFinite ==
  ASSUME NEW i \in Links
  PROVE  /\ IsFiniteSet(Confirmations(i)) /\ Cardinality(Confirmations(i)) \in Nat
<1>1. Confirmations(i) \subseteq Requests
  BY DEF Confirmations
<1>. QED BY <1>1, FS_Subset, FS_CardinalityType, AccountsAssumption

LEMMA FewerConfirmations ==
  ASSUME NEW i \in Links, Confirmations(i)' \subseteq Confirmations(i)
  PROVE  /\ Cardinality(Confirmations(i)') \in Nat
         /\ Cardinality(Confirmations(i)') <= Cardinality(Confirmations(i))
BY ConfirmationsFinite, FS_Subset, FS_CardinalityType

(* Arriving and leaving keep the types of requests.                        *)
LEMMA BeginsType ==
  ASSUME TypeOK, NEW r \in Requests, NEW job \in Jobs, Begins(r, job)
  PROVE  req' \in [Requests -> Jobs] /\ begun' \in 0..MaxRequests
BY AccountsAssumption DEF TypeOK, Begins

LEMMA DoneType ==
  ASSUME TypeOK, NEW r \in Requests, Done(r)
  PROVE  req' \in [Requests -> Jobs]
BY IdleType DEF TypeOK, Done

LEMMA GotoType ==
  ASSUME TypeOK, NEW r \in Requests, NEW p \in PcStates, Goto(r, p)
  PROVE  req' \in [Requests -> Jobs]
BY DEF TypeOK, Goto, Jobs

(* A revocation is computed from a version that was read.                  *)
LEMMA RevokeType ==
  ASSUME TypeOK, NEW r \in Requests, Revoke(r)
  PROVE  /\ version' \in [Accounts -> Nat] /\ revocations' \in [Accounts -> Nat]
         /\ overtaken' \in [Accounts -> BOOLEAN]
<1>1. req[r].who \in Accounts /\ req[r].seen \in Nat
  BY DEF TypeOK, Jobs
<1>2. version' \in [Accounts -> Nat] /\ revocations' \in [Accounts -> Nat]
  BY <1>1 DEF Revoke, TypeOK, UserType, HistoryType
<1>3. overtaken' \in [Accounts -> BOOLEAN]
  BY <1>1 DEF Revoke, TypeOK, UserType, HistoryType
<1>. QED BY <1>2, <1>3

(* The administrators may change under a request.                          *)
LEMMA CrossesType ==
  ASSUME NEW r \in Requests, Crosses(r)
  PROVE  crossed' \in [Requests -> BOOLEAN]
BY DEF Crosses

(* What a step must do to keep the types and Confirming: only the request  *)
(* r moves, and if it is to confirm, it has a link.                        *)
LEMMA ConfirmingStep ==
  ASSUME TypeOK, Confirming, NEW r \in Requests, NEW job \in Jobs,
         req' = [req EXCEPT ![r] = job],
         job.pc \in {"reset", "confirm"} => job.mail \in Links
  PROVE  req' \in [Requests -> Jobs] /\ Confirming'
BY DEF TypeOK, Confirming

LEMMA ConfirmingDone ==
  ASSUME TypeOK, Confirming, NEW r \in Requests, Done(r)
  PROVE  req' \in [Requests -> Jobs] /\ Confirming'
BY IdleType, ConfirmingStep DEF Done

LEMMA ConfirmingGoto ==
  ASSUME TypeOK, Confirming, NEW r \in Requests,
         NEW p \in PcStates \ {"reset", "confirm"}, Goto(r, p)
  PROVE  req' \in [Requests -> Jobs] /\ Confirming'
<1>. DEFINE job == [req[r] EXCEPT !.pc = p]
<1>1. req[r] \in Jobs
  BY DEF TypeOK
<1>2. job \in Jobs /\ job.pc = p
  BY <1>1 DEF Jobs
<1>3. req' = [req EXCEPT ![r] = job]
  BY DEF Goto
<1>. QED BY <1>2, <1>3, ConfirmingStep

LEMMA NextType == IInv /\ [Next]_vars => (TypeOK /\ Confirming)'
<1>. SUFFICES ASSUME IInv, [Next]_vars
              PROVE  (TypeOK /\ Confirming)'
  OBVIOUS
<1>. USE DEF IInv
<1>0. CASE UNCHANGED vars
  BY <1>0 DEF vars, TypeOK, UserType, MailType, HistoryType, users, mails, history, spent, Confirming
<1>1. ASSUME NEW r \in Requests, NEW a \in Accounts, CheckEmail(r, a)
      PROVE  (TypeOK /\ Confirming)'
  <2>. DEFINE job == [Idle EXCEPT !.pc = "free", !.who = a]
  <2>1. job \in Jobs
    BY <1>1, IdleType DEF Jobs, PcStates, TypeOK, UserType
  <2>2. job.pc \in {"reset", "confirm"} => job.mail \in Links
    BY <1>1, IdleType DEF Jobs
  <2>3. req' = [req EXCEPT ![r] = job] /\ begun' \in 0..MaxRequests
    BY <1>1, <2>1, AccountsAssumption DEF CheckEmail, Begins, TypeOK
  <2>4. req' \in [Requests -> Jobs] /\ Confirming'
    BY <2>1, <2>2, <2>3, ConfirmingStep
  <2>. QED BY <1>1, <2>3, <2>4 DEF CheckEmail, TypeOK, UserType, MailType, HistoryType, users, mails, history, spent
<1>2. ASSUME NEW r \in Requests, NEW a \in Accounts, Login(r, a)
      PROVE  (TypeOK /\ Confirming)'
  <2>. DEFINE job == [Idle EXCEPT !.pc = "answer", !.who = a]
  <2>1. job \in Jobs
    BY <1>2, IdleType DEF Jobs, PcStates, TypeOK, UserType
  <2>2. job.pc \in {"reset", "confirm"} => job.mail \in Links
    BY <1>2, IdleType DEF Jobs
  <2>3. req' = [req EXCEPT ![r] = job] /\ begun' \in 0..MaxRequests
    BY <1>2, <2>1, AccountsAssumption DEF Login, Begins, TypeOK
  <2>4. req' \in [Requests -> Jobs] /\ Confirming'
    BY <2>1, <2>2, <2>3, ConfirmingStep
  <2>. QED BY <1>2, <2>3, <2>4 DEF Login, TypeOK, UserType, MailType, HistoryType, users, mails, history, spent
<1>3. ASSUME NEW r \in Requests, NEW a \in Accounts, AskReset(r, a)
      PROVE  (TypeOK /\ Confirming)'
  <2>. DEFINE job == [Idle EXCEPT !.pc = "forget", !.who = a]
  <2>1. job \in Jobs
    BY <1>3, IdleType DEF Jobs, PcStates, TypeOK, UserType
  <2>2. job.pc \in {"reset", "confirm"} => job.mail \in Links
    BY <1>3, IdleType DEF Jobs
  <2>3. req' = [req EXCEPT ![r] = job] /\ begun' \in 0..MaxRequests
    BY <1>3, <2>1, AccountsAssumption DEF AskReset, Begins, TypeOK
  <2>4. req' \in [Requests -> Jobs] /\ Confirming'
    BY <2>1, <2>2, <2>3, ConfirmingStep
  <2>. QED BY <1>3, <2>3, <2>4 DEF AskReset, TypeOK, UserType, MailType, HistoryType, users, mails, history, spent
<1>4. ASSUME NEW r \in Requests,
             NEW t \in tokens, NEW p \in {"change", "logout", "admin"}, Authenticate(r, t, p)
      PROVE  (TypeOK /\ Confirming)'
  <2>. DEFINE job == [Idle EXCEPT !.pc = p, !.who = t.account,
                              !.seen = version[t.account]]
  <2>1. job \in Jobs
    BY <1>4, IdleType DEF Jobs, PcStates, TypeOK, UserType
  <2>2. job.pc \in {"reset", "confirm"} => job.mail \in Links
    BY <1>4, IdleType DEF Jobs
  <2>3. req' = [req EXCEPT ![r] = job] /\ begun' \in 0..MaxRequests
    BY <1>4, <2>1, AccountsAssumption DEF Authenticate, Begins, TypeOK
  <2>4. req' \in [Requests -> Jobs] /\ Confirming'
    BY <2>1, <2>2, <2>3, ConfirmingStep
  <2>. QED BY <1>4, <2>3, <2>4 DEF Authenticate, TypeOK, UserType, MailType, HistoryType, users, mails, history, spent
<1>5. ASSUME NEW r \in Requests, NEW i \in Links, ReadLink(r, i)
      PROVE  (TypeOK /\ Confirming)'
  <2>. DEFINE job == [Idle EXCEPT !.pc = "reset", !.mail = i]
  <2>1. job \in Jobs
    BY <1>5, IdleType DEF Jobs, PcStates, TypeOK, UserType
  <2>2. job.pc \in {"reset", "confirm"} => job.mail \in Links
    BY <1>5, IdleType DEF Jobs
  <2>3. req' = [req EXCEPT ![r] = job] /\ begun' \in 0..MaxRequests
    BY <1>5, <2>1, AccountsAssumption DEF ReadLink, Begins, TypeOK
  <2>4. req' \in [Requests -> Jobs] /\ Confirming'
    BY <2>1, <2>2, <2>3, ConfirmingStep
  <2>. QED BY <1>5, <2>3, <2>4 DEF ReadLink, TypeOK, UserType, MailType, HistoryType, users, mails, history, spent
<1>6. ASSUME NEW r \in Requests, InsertFails(r)
      PROVE  (TypeOK /\ Confirming)'
  <2>1. req' \in [Requests -> Jobs] /\ Confirming'
    BY <1>6, ConfirmingDone DEF InsertFails
  <2>. QED BY <1>6, <2>1 DEF InsertFails, TypeOK, UserType, MailType, HistoryType, users, mails, history, spent
<1>7. ASSUME NEW r \in Requests, Fail(r)
      PROVE  (TypeOK /\ Confirming)'
  <2>1. req' \in [Requests -> Jobs] /\ Confirming'
    BY <1>7, ConfirmingDone DEF Fail
  <2>. QED BY <1>7, <2>1 DEF Fail, TypeOK, UserType, MailType, HistoryType, users, mails, history, spent
<1>8. ASSUME NEW r \in Requests, DecideRole(r)
      PROVE  (TypeOK /\ Confirming)'
  <2>1. req[r] \in Jobs
    BY DEF TypeOK
  <2>. DEFINE job == [req[r] EXCEPT !.boss = Bootstraps(req[r].who), !.pc = "insert"]
  <2>2. Bootstraps(req[r].who) \in BOOLEAN
    BY DEF Bootstraps
  <2>3. job \in Jobs /\ job.pc = "insert"
    BY <2>1, <2>2 DEF Jobs, PcStates
  <2>4. req' = [req EXCEPT ![r] = job]
    BY <1>8 DEF DecideRole
  <2>5. req' \in [Requests -> Jobs] /\ Confirming'
    BY <2>3, <2>4, ConfirmingStep
  <2>. QED BY <1>8, <2>5 DEF DecideRole, TypeOK, UserType, MailType, HistoryType, users, mails, history, spent
<1>9. ASSUME NEW r \in Requests, NEW a \in Accounts, Insert(r, a)
      PROVE  (TypeOK /\ Confirming)'
  <2>1. req[r] \in Jobs
    BY DEF TypeOK
  <2>. DEFINE job == [req[r] EXCEPT !.who = a, !.pc = "answer"]
  <2>2. job \in Jobs /\ job.pc = "answer"
    BY <2>1 DEF Jobs, PcStates
  <2>3. req' = [req EXCEPT ![r] = job]
    BY <1>9 DEF Insert
  <2>4. req' \in [Requests -> Jobs] /\ Confirming'
    BY <2>2, <2>3, ConfirmingStep
  <2>5. crossed' \in [Requests -> BOOLEAN]
    BY <1>9, CrossesType DEF Insert
  <2>6. presence' \in [Accounts -> {"unused", "present", "deleted"}]
        /\ role' \in [Accounts -> Roles]
    BY <1>9 DEF Insert, TypeOK, UserType, Roles
  <2>. QED BY <1>9, <2>4, <2>5, <2>6 DEF Insert, TypeOK, UserType, MailType, HistoryType, users, mails, history, spent
<1>10. ASSUME NEW r \in Requests, Answer(r)
      PROVE  (TypeOK /\ Confirming)'
  <2>1. req[r] \in Jobs
    BY DEF TypeOK
  <2>2. req[r].who \in Accounts
    BY <2>1 DEF Jobs
  <2>3. [account |-> req[r].who, ver |-> version[req[r].who],
         epoch |-> revocations[req[r].who]] \in [account : Accounts, ver : Nat, epoch : Nat]
    BY <2>2 DEF TypeOK, UserType, HistoryType
  <2>4. tokens' \subseteq [account : Accounts, ver : Nat, epoch : Nat]
    BY <1>10, <2>3 DEF Answer, TypeOK
  <2>5. req' \in [Requests -> Jobs] /\ Confirming'
    BY <1>10, ConfirmingDone DEF Answer
  <2>. QED BY <1>10, <2>4, <2>5 DEF Answer, TypeOK, UserType, MailType, HistoryType, users, mails, history, spent
<1>11. ASSUME NEW r \in Requests, CommitVersion(r)
      PROVE  (TypeOK /\ Confirming)'
  <2>1. req' \in [Requests -> Jobs] /\ Confirming'
    BY <1>11, ConfirmingDone, ConfirmingGoto DEF CommitVersion, PcStates
  <2>2. /\ version' \in [Accounts -> Nat] /\ revocations' \in [Accounts -> Nat]
        /\ overtaken' \in [Accounts -> BOOLEAN]
    BY <1>11, RevokeType DEF CommitVersion
  <2>. QED BY <1>11, <2>1, <2>2 DEF CommitVersion, TypeOK, UserType, MailType, HistoryType, users, mails, history, spent
<1>12. ASSUME NEW r \in Requests, DeleteLinks(r)
      PROVE  (TypeOK /\ Confirming)'
  <2>1. req[r] \in Jobs
    BY DEF TypeOK
  <2>. DEFINE rows == {i \in Links : \/ link[i] = "open" /\ owner[i] = req[r].who
                                     \/ link[i] \in {"open", "used"} /\ expired[i]}
              job == [req[r] EXCEPT !.doomed = rows, !.pc = "issue"]
  <2>2. job \in Jobs /\ job.pc = "issue"
    BY <2>1 DEF Jobs, PcStates
  <2>3. req' = [req EXCEPT ![r] = job]
    BY <1>12 DEF DeleteLinks
  <2>4. req' \in [Requests -> Jobs] /\ Confirming'
    BY <2>2, <2>3, ConfirmingStep
  <2>. QED BY <1>12, <2>4 DEF DeleteLinks, TypeOK, UserType, MailType, HistoryType, users, mails, history, spent
<1>13. ASSUME NEW r \in Requests, NEW i \in Links, CommitIssue(r, i)
      PROVE  (TypeOK /\ Confirming)'
  <2>1. req' \in [Requests -> Jobs] /\ Confirming'
    BY <1>13, ConfirmingDone DEF CommitIssue
  <2>2. req[r].who \in Accounts
    BY DEF TypeOK, Jobs
  <2>3. /\ link' \in [Links -> {"none", "open", "used", "deleted"}]
        /\ owner' \in [Links -> Accounts]
    BY <1>13, <2>2 DEF CommitIssue, TypeOK, MailType
  <2>. QED BY <1>13, <2>1, <2>3 DEF CommitIssue, TypeOK, UserType, MailType, HistoryType, users, mails, history, spent
<1>14. ASSUME NEW i \in Links, Expire(i)
      PROVE  (TypeOK /\ Confirming)'
  BY <1>14 DEF Expire, TypeOK, UserType, MailType, HistoryType, users, mails, history, spent, Confirming
<1>15. ASSUME NEW r \in Requests, ReadOwner(r)
      PROVE  (TypeOK /\ Confirming)'
  <2>1. req[r] \in Jobs
    BY DEF TypeOK
  <2>. DEFINE a == owner[req[r].mail]
              job == [req[r] EXCEPT !.who = a, !.seen = version[a], !.pc = "confirm"]
  <2>2. req[r].mail \in Links
    BY <1>15 DEF ReadOwner, At, Confirming
  <2>3. a \in Accounts /\ version[a] \in Nat
    BY <2>2 DEF TypeOK, MailType, UserType
  <2>4. job \in Jobs /\ job.mail \in Links
    BY <2>1, <2>2, <2>3 DEF Jobs, PcStates
  <2>5. CASE Active(a)
    <3>1. req' = [req EXCEPT ![r] = job]
      BY <1>15, <2>5 DEF ReadOwner
    <3>2. req' \in [Requests -> Jobs] /\ Confirming'
      BY <3>1, <2>4, ConfirmingStep
    <3>. QED BY <1>15, <3>2 DEF ReadOwner, TypeOK, UserType, MailType, HistoryType, users, mails, history, spent
  <2>6. CASE ~Active(a)
    <3>1. Done(r)
      BY <1>15, <2>6 DEF ReadOwner
    <3>2. req' \in [Requests -> Jobs] /\ Confirming'
      BY <3>1, ConfirmingDone
    <3>. QED BY <1>15, <3>2 DEF ReadOwner, TypeOK, UserType, MailType, HistoryType, users, mails, history, spent
  <2>. QED BY <1>15, <2>5, <2>6 DEF ReadOwner, TypeOK, UserType, MailType, HistoryType, users, mails, history, spent
<1>16. ASSUME NEW r \in Requests, CommitConfirm(r)
      PROVE  (TypeOK /\ Confirming)'
  <2>1. req' \in [Requests -> Jobs] /\ Confirming'
    BY <1>16, ConfirmingGoto DEF CommitConfirm, PcStates
  <2>2. /\ version' \in [Accounts -> Nat] /\ revocations' \in [Accounts -> Nat]
        /\ overtaken' \in [Accounts -> BOOLEAN]
    BY <1>16, RevokeType DEF CommitConfirm
  <2>3. req[r].mail \in Links
    BY <1>16 DEF CommitConfirm, At, Confirming
  <2>4. link' \in [Links -> {"none", "open", "used", "deleted"}]
    BY <1>16, <2>3 DEF CommitConfirm, TypeOK, MailType
  <2>5. uses' \in [Links -> Nat] /\ rivals' \in [Links -> Nat]
    BY <1>16, <2>3, ConfirmationsFinite DEF CommitConfirm, Spend, TypeOK, HistoryType
  <2>. QED BY <1>16, <2>1, <2>2, <2>4, <2>5 DEF CommitConfirm, TypeOK, UserType, MailType, HistoryType, users, mails, history, spent
<1>17. ASSUME NEW r \in Requests, NEW b \in Accounts,
             NEW x \in Wishes, NEW p \in {"patch", "remove"}, ReadTarget(r, b, x, p)
      PROVE  (TypeOK /\ Confirming)'
  <2>1. req[r] \in Jobs
    BY DEF TypeOK
  <2>. DEFINE row == IF b = req[r].who THEN [role |-> "admin", status |-> "active"]
                                       ELSE [role |-> role[b], status |-> status[b]]
              job == [req[r] EXCEPT !.pc = p, !.target = b, !.wish = x, !.read = row]
  <2>2. row \in Rows
    BY DEF TypeOK, UserType, Rows, Roles, Statuses
  <2>3. job \in Jobs /\ job.pc = p
    BY <2>1, <2>2 DEF Jobs, PcStates
  <2>4. Done(r) \/ req' = [req EXCEPT ![r] = job]
    BY <1>17 DEF ReadTarget
  <2>5. req' \in [Requests -> Jobs] /\ Confirming'
    BY <2>3, <2>4, ConfirmingStep, ConfirmingDone
  <2>6. crossed' \in [Requests -> BOOLEAN]
    BY <1>17 DEF ReadTarget, TypeOK, HistoryType
  <2>. QED BY <1>17, <2>5, <2>6 DEF ReadTarget, TypeOK, UserType, MailType, HistoryType, users, mails, history, spent
<1>18. ASSUME NEW r \in Requests, CountAdmins(r)
      PROVE  (TypeOK /\ Confirming)'
  <2>1. req' \in [Requests -> Jobs] /\ Confirming'
    BY <1>18, ConfirmingDone, ConfirmingGoto DEF CountAdmins, PcStates
  <2>. QED BY <1>18, <2>1 DEF CountAdmins, TypeOK, UserType, MailType, HistoryType, users, mails, history, spent
<1>19. ASSUME NEW r \in Requests, CommitPatch(r)
      PROVE  (TypeOK /\ Confirming)'
  <2>1. req[r] \in Jobs
    BY DEF TypeOK
  <2>2. req' \in [Requests -> Jobs] /\ Confirming'
    BY <1>19, ConfirmingDone DEF CommitPatch
  <2>3. crossed' \in [Requests -> BOOLEAN]
    BY <1>19, CrossesType DEF CommitPatch
  <2>4. /\ req[r].target \in Accounts /\ req[r].wish.role \in Roles \cup {"keep"}
        /\ req[r].wish.status \in Statuses \cup {"keep"}
    BY <2>1 DEF Jobs, Wishes
  <2>5. role' \in [Accounts -> Roles] /\ status' \in [Accounts -> Statuses]
    BY <1>19, <2>4 DEF CommitPatch, Written, TypeOK, UserType
  <2>. QED BY <1>19, <2>2, <2>3, <2>5 DEF CommitPatch, TypeOK, UserType, MailType, HistoryType, users, mails, history, spent
<1>20. ASSUME NEW r \in Requests, CommitRemove(r)
      PROVE  (TypeOK /\ Confirming)'
  <2>1. req' \in [Requests -> Jobs] /\ Confirming'
    BY <1>20, ConfirmingDone DEF CommitRemove
  <2>2. crossed' \in [Requests -> BOOLEAN]
    BY <1>20, CrossesType DEF CommitRemove
  <2>3. /\ link' \in [Links -> {"none", "open", "used", "deleted"}]
        /\ presence' \in [Accounts -> {"unused", "present", "deleted"}]
    BY <1>20 DEF CommitRemove, TypeOK, MailType, UserType
  <2>. QED BY <1>20, <2>1, <2>2, <2>3 DEF CommitRemove, TypeOK, UserType, MailType, HistoryType, users, mails, history, spent
<1>. QED BY <1>0, <1>1, <1>2, <1>3, <1>4, <1>5, <1>6, <1>7, <1>8, <1>9, <1>10, <1>11, <1>12, <1>13, <1>14, <1>15, <1>16, <1>17, <1>18, <1>19, <1>20
     DEF Next, Handle, Arrive, NoWish, Wishes

(* Versions count revocations, while no revocation is overtaken.           *)
LEMMA VersionsStep == IInv /\ [Next]_vars => Versions'
<1>. SUFFICES ASSUME IInv, [Next]_vars
              PROVE  Versions'
  OBVIOUS
<1>. USE DEF IInv
<1>1. CASE UNCHANGED <<version, revocations, overtaken, tokens>>
  BY <1>1 DEF Versions
<1>2. ASSUME NEW r \in Requests, Answer(r)
      PROVE  Versions'
  <2>1. req[r].who \in Accounts
    BY DEF TypeOK, Jobs
  <2>2. CASE ~Present(req[r].who)
    BY <1>2, <2>2 DEF Answer, users, history, spent, Versions
  <2>3. CASE Present(req[r].who)
    <3>. DEFINE t == [account |-> req[r].who, ver |-> version[req[r].who],
                      epoch |-> revocations[req[r].who]]
    <3>1. ~overtaken[t.account] => t.ver = t.epoch
      BY <2>1 DEF Versions
    <3>2. /\ tokens' = tokens \cup {t}
          /\ UNCHANGED <<version, revocations, overtaken>>
      BY <1>2, <2>3 DEF Answer, users, history, spent
    <3>. QED BY <3>1, <3>2 DEF Versions
  <2>. QED BY <2>2, <2>3
<1>3. ASSUME NEW r \in Requests, Revoke(r), tokens' = tokens
      PROVE  Versions'
  <2>. DEFINE who == req[r].who
              seen == req[r].seen
  <2>1. who \in Accounts /\ seen \in Nat
    BY DEF TypeOK, Jobs
  <2>2. SUFFICES ASSUME NEW a \in Accounts, ~overtaken'[a]
                 PROVE  /\ version'[a] = revocations'[a]
                        /\ \A t \in tokens' : t.account = a => t.ver = t.epoch
    BY DEF Versions
  <2>3. ~overtaken[a] /\ (a = who => version[a] = seen)
    BY <1>3, <2>1, <2>2 DEF Revoke, TypeOK, HistoryType
  <2>4. version[a] = revocations[a] /\ revocations[a] \in Nat
    BY <2>3 DEF Versions, TypeOK, HistoryType
  <2>5. CASE a = who
    <3>1. version'[a] = seen + 1 /\ revocations'[a] = revocations[a] + 1
      BY <1>3, <2>5 DEF Revoke, TypeOK, UserType, HistoryType
    <3>. QED BY <1>3, <2>3, <2>4, <2>5, <3>1 DEF Versions
  <2>6. CASE a # who
    <3>1. version'[a] = version[a] /\ revocations'[a] = revocations[a]
      BY <1>3, <2>6 DEF Revoke, TypeOK, UserType, HistoryType
    <3>. QED BY <1>3, <2>3, <2>4, <3>1 DEF Versions
  <2>. QED BY <2>5, <2>6
<1>4. ASSUME NEW r \in Requests, CommitVersion(r) \/ CommitConfirm(r)
      PROVE  Versions'
  BY <1>3, <1>4 DEF CommitVersion, CommitConfirm
<1>5. ASSUME NEW r \in Requests, Handle(r)
      PROVE  Versions'
  <2>1. ASSUME NEW a \in Accounts, Insert(r, a)
        PROVE  Versions'
    BY <2>1, <1>1 DEF Insert
  <2>2. ASSUME NEW b, NEW x, NEW p, ReadTarget(r, b, x, p)
        PROVE  Versions'
    BY <2>2, <1>1 DEF ReadTarget, users
  <2>3. ASSUME CommitPatch(r) \/ CommitRemove(r)
        PROVE  Versions'
    BY <2>3, <1>1 DEF CommitPatch, CommitRemove
  <2>4. ASSUME \/ DecideRole(r) \/ InsertFails(r) \/ DeleteLinks(r)
               \/ \E i \in Links : CommitIssue(r, i)
               \/ ReadOwner(r) \/ CountAdmins(r) \/ Fail(r)
        PROVE  Versions'
    BY <2>4, <1>1 DEF DecideRole, InsertFails, DeleteLinks, CommitIssue, ReadOwner,
                      CountAdmins, Fail, users, history, spent
  <2>. QED BY <1>2, <1>4, <1>5, <2>1, <2>2, <2>3, <2>4 DEF Handle
<1>6. ASSUME NEW r \in Requests, Arrive(r)
      PROVE  Versions'
  BY <1>1, <1>6 DEF Arrive, CheckEmail, Login, AskReset, Authenticate, ReadLink, users,
                    history, spent
<1>7. ASSUME NEW i \in Links, Expire(i)
      PROVE  Versions'
  BY <1>1, <1>7 DEF Expire, users, history, spent
<1>. QED BY <1>1, <1>5, <1>6, <1>7 DEF Next, vars, users, history, spent

(* A request that is to make an administrator has been told so by          *)
(* DecideRole, and keeps its address.                                      *)
LEMMA BossesStep == IInv /\ [Next]_vars => Bosses'
<1>. SUFFICES ASSUME IInv, [Next]_vars
              PROVE  Bosses'
  OBVIOUS
<1>. USE DEF IInv
<1>1. ASSUME NEW r \in Requests, NEW job, req' = [req EXCEPT ![r] = job],
             job.boss => /\ job.pc # "reset"
                         /\ InitialAdmin \in Emails => job.who[1] = InitialAdmin
      PROVE  Bosses'
  BY <1>1 DEF Bosses, TypeOK
<1>2. ASSUME NEW r \in Requests, Done(r)
      PROVE  Bosses'
  BY <1>1, <1>2, IdleType DEF Done
<1>3. ASSUME NEW r \in Requests, NEW job \in Jobs, req' = [req EXCEPT ![r] = job],
             job.boss = req[r].boss, job.who[1] = req[r].who[1], job.pc # "reset"
      PROVE  Bosses'
  BY <1>1, <1>3 DEF Bosses
<1>4. ASSUME NEW r \in Requests, NEW p \in PcStates \ {"reset"}, Goto(r, p)
      PROVE  Bosses'
  <2>1. req[r] \in Jobs
    BY DEF TypeOK
  <2>. DEFINE job == [req[r] EXCEPT !.pc = p]
  <2>2. /\ job \in Jobs /\ job.boss = req[r].boss
        /\ job.who = req[r].who /\ job.pc = p
    BY <2>1, <1>4 DEF Jobs
  <2>. QED BY <1>3, <1>4, <2>2 DEF Goto
<1>5. ASSUME NEW r \in Requests, NEW job, Begins(r, job), ~job.boss
      PROVE  Bosses'
  BY <1>1, <1>5 DEF Begins
<1>6. ASSUME NEW r \in Requests, Handle(r)
      PROVE  Bosses'
  <2>0. req[r] \in Jobs
    BY DEF TypeOK
  <2>1. CASE DecideRole(r)
    <3>. DEFINE job == [req[r] EXCEPT !.boss = Bootstraps(req[r].who), !.pc = "insert"]
    <3>1. /\ job.boss = Bootstraps(req[r].who) /\ job.who = req[r].who
          /\ job.pc = "insert"
      BY <2>0 DEF Jobs
    <3>2. job.boss /\ InitialAdmin \in Emails => job.who[1] = InitialAdmin
      BY <3>1 DEF Bootstraps
    <3>3. req' = [req EXCEPT ![r] = job]
      BY <2>1 DEF DecideRole
    <3>4. job.boss => job.pc # "reset"
      BY <3>1
    <3>. HIDE DEF job
    <3>. QED BY <1>1, <3>2, <3>3, <3>4
  <2>2. ASSUME NEW a \in Accounts, Insert(r, a)
        PROVE  Bosses'
    <3>. DEFINE job == [req[r] EXCEPT !.who = a, !.pc = "answer"]
    <3>1. /\ job \in Jobs /\ job.boss = req[r].boss
          /\ job.who = a /\ job.pc = "answer"
      BY <2>0 DEF Jobs, PcStates
    <3>. QED BY <1>3, <2>2, <3>1 DEF Insert
  <2>3. CASE DeleteLinks(r)
    <3>. DEFINE rows == {i \in Links : \/ link[i] = "open" /\ owner[i] = req[r].who
                                       \/ link[i] \in {"open", "used"} /\ expired[i]}
                job == [req[r] EXCEPT !.doomed = rows, !.pc = "issue"]
    <3>1. /\ job \in Jobs /\ job.boss = req[r].boss
          /\ job.who = req[r].who /\ job.pc = "issue"
      BY <2>0 DEF Jobs, PcStates
    <3>. QED BY <1>3, <2>3, <3>1 DEF DeleteLinks
  <2>4. CASE ReadOwner(r)
    <3>. DEFINE a == owner[req[r].mail]
                job == [req[r] EXCEPT !.who = a, !.seen = version[a], !.pc = "confirm"]
    <3>1. job.boss = req[r].boss /\ job.who = a
      BY <2>0 DEF Jobs
    <3>2. ~req[r].boss
      BY <2>4 DEF ReadOwner, At, Bosses
    <3>3. Done(r) \/ req' = [req EXCEPT ![r] = job]
      BY <2>4 DEF ReadOwner
    <3>. QED BY <1>1, <1>2, <3>1, <3>2, <3>3
  <2>5. ASSUME NEW b \in Accounts, NEW x, NEW p \in {"patch", "remove"},
               ReadTarget(r, b, x, p)
        PROVE  Bosses'
    <3>. DEFINE row == IF b = req[r].who THEN [role |-> "admin", status |-> "active"]
                                         ELSE [role |-> role[b], status |-> status[b]]
                job == [req[r] EXCEPT !.pc = p, !.target = b, !.wish = x, !.read = row]
    <3>1. job.boss = req[r].boss /\ job.who = req[r].who /\ job.pc = p
      BY <2>0 DEF Jobs
    <3>2. job.boss /\ InitialAdmin \in Emails => job.who[1] = InitialAdmin
      BY <3>1 DEF Bosses
    <3>3. Done(r) \/ req' = [req EXCEPT ![r] = job]
      BY <2>5 DEF ReadTarget
    <3>. QED BY <1>1, <1>2, <3>1, <3>2, <3>3
  <2>6. CASE CommitVersion(r) \/ CommitConfirm(r) \/ CountAdmins(r)
    BY <2>6, <1>2, <1>4 DEF CommitVersion, CommitConfirm, CountAdmins, PcStates
  <2>7. ASSUME \/ InsertFails(r) \/ Answer(r) \/ \E i \in Links : CommitIssue(r, i)
               \/ CommitPatch(r) \/ CommitRemove(r) \/ Fail(r)
        PROVE  Bosses'
    BY <2>7, <1>2 DEF InsertFails, Answer, CommitIssue, CommitPatch, CommitRemove, Fail
  <2>. QED BY <1>6, <2>1, <2>2, <2>3, <2>4, <2>5, <2>6, <2>7 DEF Handle
<1>7. ASSUME NEW r \in Requests, Arrive(r)
      PROVE  Bosses'
  <2>. USE IdleType DEF Jobs
  <2>1. ASSUME NEW a \in Accounts, CheckEmail(r, a) \/ Login(r, a) \/ AskReset(r, a)
        PROVE  Bosses'
    <3>1. ASSUME NEW p, Begins(r, [Idle EXCEPT !.pc = p, !.who = a])
          PROVE  Bosses'
      <4>. DEFINE job == [Idle EXCEPT !.pc = p, !.who = a]
      <4>1. ~job.boss
        OBVIOUS
      <4>. QED BY <1>5, <3>1, <4>1
    <3>. QED BY <2>1, <3>1 DEF CheckEmail, Login, AskReset
  <2>2. ASSUME NEW t \in tokens, NEW p, Authenticate(r, t, p)
        PROVE  Bosses'
    <3>. DEFINE job == [Idle EXCEPT !.pc = p, !.who = t.account,
                                    !.seen = version[t.account]]
    <3>1. ~job.boss
      OBVIOUS
    <3>2. Begins(r, job)
      BY <2>2 DEF Authenticate
    <3>. QED BY <1>5, <3>1, <3>2
  <2>3. ASSUME NEW i \in Links, ReadLink(r, i)
        PROVE  Bosses'
    <3>. DEFINE job == [Idle EXCEPT !.pc = "reset", !.mail = i]
    <3>1. ~job.boss
      OBVIOUS
    <3>. QED BY <1>5, <2>3, <3>1 DEF ReadLink
  <2>. QED BY <1>7, <2>1, <2>2, <2>3 DEF Arrive
<1>8. CASE UNCHANGED req
  BY <1>8 DEF Bosses
<1>. QED BY <1>6, <1>7, <1>8 DEF Next, vars, Expire

(* The invariant of the specification.                                     *)
LEMMA InitInv == Init => IInv
<1>. SUFFICES ASSUME Init PROVE IInv
  OBVIOUS
<1>1. TypeOK
  BY AnyAccountType, IdleType, AccountsAssumption
     DEF Init, TypeOK, UserType, MailType, HistoryType, Roles, Statuses
<1>. QED BY <1>1, IdleType DEF Init, IInv, Versions, Bosses, Confirming

(* In every reachable state the types hold, versions count revocations     *)
(* that nothing has overtaken, whoever is to be the first administrator    *)
(* has the configured address, and a confirmation has a link.              *)
THEOREM AccountInvariant == Spec => []IInv
<1>1. IInv /\ [Next]_vars => IInv'
  BY NextType, VersionsStep, BossesStep DEF IInv
<1>. QED BY InitInv, <1>1, PTL DEF Spec

(* logout-all, a password change and a reset: what was handed out before   *)
(* is not accepted afterwards, unless a revocation of the same account was *)
(* overtaken by another.                                                   *)
THEOREM RevocationIsKept == Spec => []RevocationHolds
<1>1. IInv => RevocationHolds
  <2>. SUFFICES ASSUME IInv, NEW t \in tokens, Valid(t), ~overtaken[t.account]
                PROVE  t.epoch = revocations[t.account]
    BY DEF RevocationHolds
  <2>1. t.account \in Accounts
    BY DEF IInv, TypeOK
  <2>. QED BY <2>1 DEF IInv, Versions, Valid
<1>. QED BY <1>1, AccountInvariant, PTL

(* A reset link that was replaced, has expired and been swept, or went     *)
(* with its account sets no password any more, although a confirmation may *)
(* have read it before.                                                    *)
THEOREM ReplacedStaysDead == Spec => ReplacedLinkIsDead
<1>. DEFINE Dead == \A i \in Links :
                       link[i] = "deleted" => link'[i] = "deleted" /\ uses'[i] = uses[i]
<1>1. IInv /\ [Next]_vars => [Dead]_vars
  <2>. SUFFICES ASSUME IInv, Next, NEW i \in Links, link[i] = "deleted"
                PROVE  link'[i] = "deleted" /\ uses'[i] = uses[i]
    OBVIOUS
  <2>1. ASSUME UNCHANGED <<link, uses>>
        PROVE  link'[i] = "deleted" /\ uses'[i] = uses[i]
    BY <2>1
  <2>2. ASSUME NEW r \in Requests, NEW j \in Links, CommitIssue(r, j)
        PROVE  link'[i] = "deleted" /\ uses'[i] = uses[i]
    BY <2>2 DEF CommitIssue, history, spent
  <2>3. ASSUME NEW r \in Requests, CommitConfirm(r)
        PROVE  link'[i] = "deleted" /\ uses'[i] = uses[i]
    BY <2>3 DEF CommitConfirm, Spend, IInv, TypeOK, MailType, HistoryType
  <2>4. ASSUME NEW r \in Requests, CommitRemove(r)
        PROVE  link'[i] = "deleted" /\ uses'[i] = uses[i]
    BY <2>4 DEF CommitRemove, spent
  <2>5. ASSUME NEW r \in Requests, Handle(r)
        PROVE  link'[i] = "deleted" /\ uses'[i] = uses[i]
    BY <2>1, <2>2, <2>3, <2>4, <2>5 DEF Handle, DecideRole, InsertFails, Insert, Answer,
       CommitVersion, DeleteLinks, ReadOwner, ReadTarget, CountAdmins, CommitPatch, Fail,
       mails, history, spent
  <2>6. ASSUME NEW r \in Requests, Arrive(r)
        PROVE  link'[i] = "deleted" /\ uses'[i] = uses[i]
    BY <2>1, <2>6 DEF Arrive, CheckEmail, Login, AskReset, Authenticate, ReadLink, mails,
       history, spent
  <2>. QED BY <2>1, <2>5, <2>6 DEF Next, Expire, history, spent
<1>. QED BY <1>1, AccountInvariant, PTL DEF Spec, ReplacedLinkIsDead

(* With INITIAL_ADMIN_EMAIL set, no race of registrations makes another    *)
(* address an administrator.                                               *)
THEOREM FirstAdminIsConfigured == Spec => NobodyElseIsFirst
<1>. DEFINE First == \A a \in Accounts :
                        /\ InitialAdmin \in Emails
                        /\ ~Present(a) /\ presence'[a] = "present" /\ role'[a] = "admin"
                        => a[1] = InitialAdmin
<1>1. IInv /\ [Next]_vars => [First]_vars
  <2>. SUFFICES ASSUME IInv, Next, NEW a \in Accounts, InitialAdmin \in Emails,
                       ~Present(a), presence'[a] = "present", role'[a] = "admin"
                PROVE  a[1] = InitialAdmin
    OBVIOUS
  <2>1. presence \in [Accounts -> {"unused", "present", "deleted"}]
    BY DEF IInv, TypeOK, UserType
  <2>2. PICK r \in Requests : Insert(r, a)
    <3>1. ASSUME presence' = presence
          PROVE  FALSE
      BY <3>1 DEF Present
    <3>2. ASSUME NEW r \in Requests, CommitRemove(r)
          PROVE  FALSE
      BY <2>1, <3>2 DEF CommitRemove, Present
    <3>3. ASSUME NEW r \in Requests, NEW b \in Accounts, Insert(r, b)
          PROVE  a = b
      BY <2>1, <3>3 DEF Insert, Present
    <3>4. ASSUME NEW r \in Requests, Handle(r)
          PROVE  \E q \in Requests : Insert(q, a)
      BY <3>1, <3>2, <3>3, <3>4 DEF Handle, DecideRole, InsertFails, Answer, CommitVersion,
         DeleteLinks, CommitIssue, ReadOwner, CommitConfirm, ReadTarget, CountAdmins,
         CommitPatch, Fail, users
    <3>5. ASSUME NEW r \in Requests, Arrive(r)
          PROVE  FALSE
      BY <3>1, <3>5 DEF Arrive, CheckEmail, Login, AskReset, Authenticate, ReadLink, users
    <3>. QED BY <3>1, <3>4, <3>5 DEF Next, Expire, users
  <2>3. req[r].boss /\ a[1] = req[r].who[1]
    BY <2>2 DEF Insert, IInv, TypeOK, UserType
  <2>. QED BY <2>3 DEF IInv, Bosses
<1>. QED BY <1>1, AccountInvariant, PTL DEF Spec, NobodyElseIsFirst

-----------------------------------------------------------------------------
(* Reset links.  Once a link has set a password nobody reads it as usable  *)
(* again, and the passwords it has set with the confirmations still under  *)
(* way are no more than the confirmations there were then.                 *)
Spent ==
    \A i \in Links :
        /\ link[i] \in {"none", "open"} => uses[i] = 0
        /\ uses[i] > 0 => uses[i] + Cardinality(Confirmations(i)) <= rivals[i]

LEMMA SpentStep == IInv /\ Spent /\ [Next]_vars => Spent'
<1>. SUFFICES ASSUME IInv, Spent, [Next]_vars, NEW i \in Links
              PROVE  /\ link'[i] \in {"none", "open"} => uses'[i] = 0
                     /\ uses'[i] > 0 => uses'[i] + Cardinality(Confirmations(i)') <= rivals'[i]
  BY DEF Spent
<1>0. /\ link \in [Links -> {"none", "open", "used", "deleted"}] /\ uses \in [Links -> Nat]
      /\ rivals \in [Links -> Nat] /\ req \in [Requests -> Jobs]
  BY DEF IInv, TypeOK, MailType, HistoryType
<1>1. ASSUME Confirmations(i)' \subseteq Confirmations(i),
             uses'[i] = uses[i], rivals'[i] = rivals[i],
             link'[i] \in {"none", "open"} => link[i] \in {"none", "open"}
      PROVE  /\ link'[i] \in {"none", "open"} => uses'[i] = 0
             /\ uses'[i] > 0 => uses'[i] + Cardinality(Confirmations(i)') <= rivals'[i]
  BY <1>0, <1>1, FewerConfirmations, ConfirmationsFinite DEF Spent
<1>2. ASSUME NEW r \in Requests, ReadLink(r, i)
      PROVE  /\ link'[i] \in {"none", "open"} => uses'[i] = 0
             /\ uses'[i] > 0 => uses'[i] + Cardinality(Confirmations(i)') <= rivals'[i]
  <2>1. uses'[i] = 0
    BY <1>2 DEF ReadLink, Usable, Spent, mails, history, spent
  <2>2. Confirmations(i)' \subseteq Requests
    BY DEF Confirmations
  <2>. QED BY <2>1, <2>2, FS_Subset, FS_CardinalityType, AccountsAssumption
<1>3. ASSUME NEW r \in Requests, CommitConfirm(r), req[r].mail = i
      PROVE  /\ link'[i] \in {"none", "open"} => uses'[i] = 0
             /\ uses'[i] > 0 => uses'[i] + Cardinality(Confirmations(i)') <= rivals'[i]
  <2>1. r \in Confirmations(i)
    BY <1>3 DEF CommitConfirm, At, Confirmations
  <2>2. Confirmations(i)' = Confirmations(i) \ {r}
    BY <1>0, <1>3 DEF CommitConfirm, Spend, Goto, Confirmations, Jobs
  <2>3. Cardinality(Confirmations(i)') = Cardinality(Confirmations(i)) - 1
    BY <2>1, <2>2, ConfirmationsFinite, FS_RemoveElement
  <2>4. /\ uses'[i] = uses[i] + 1 /\ link'[i] = "used"
        /\ rivals'[i] = IF uses[i] = 0 THEN Cardinality(Confirmations(i)) ELSE rivals[i]
    BY <1>0, <1>3 DEF CommitConfirm, Spend
  <2>. QED BY <1>0, <2>3, <2>4, ConfirmationsFinite DEF Spent
<1>4. ASSUME NEW r \in Requests, NEW job,
             req' = [req EXCEPT ![r] = job], job.pc \notin {"reset", "confirm"}
      PROVE  Confirmations(i)' \subseteq Confirmations(i)
  BY <1>0, <1>4 DEF Confirmations
<1>5. ASSUME NEW r \in Requests, Handle(r), ~CommitConfirm(r)
      PROVE  /\ link'[i] \in {"none", "open"} => uses'[i] = 0
             /\ uses'[i] > 0 => uses'[i] + Cardinality(Confirmations(i)') <= rivals'[i]
  <2>1. Confirmations(i)' \subseteq Confirmations(i)
    <3>1. CASE ReadOwner(r)
      BY <1>0, <3>1, <1>4, IdleType DEF ReadOwner, Done, Confirmations, Jobs, At
    <3>2. CASE ~ReadOwner(r)
      <4>1. PICK job : req' = [req EXCEPT ![r] = job] /\ job.pc \notin {"reset", "confirm"}
        <5>. USE <1>0, IdleType DEF Done, Goto, Jobs, At
        <5>1. CASE DecideRole(r) \/ InsertFails(r) \/ Answer(r) \/ Fail(r)
          BY <5>1 DEF DecideRole, InsertFails, Answer, Fail
        <5>2. CASE \E a \in Accounts : Insert(r, a)
          <6>1. PICK a \in Accounts : Insert(r, a)
            BY <5>2
          <6>. DEFINE job == [req[r] EXCEPT !.who = a, !.pc = "answer"]
          <6>2. req' = [req EXCEPT ![r] = job]
            BY <6>1 DEF Insert
          <6>3. job.pc = "answer"
            BY <6>1
          <6>. QED BY <6>2, <6>3
        <5>3. CASE CommitVersion(r) \/ CountAdmins(r)
          BY <5>3 DEF CommitVersion, CountAdmins
        <5>4. CASE DeleteLinks(r) \/ \E j \in Links : CommitIssue(r, j)
          BY <5>4 DEF DeleteLinks, CommitIssue
        <5>5. CASE CommitPatch(r) \/ CommitRemove(r)
          BY <5>5 DEF CommitPatch, CommitRemove
        <5>6. ASSUME NEW b \in Accounts, NEW w \in Wishes, NEW p \in {"patch", "remove"},
                     ReadTarget(r, b, w, p)
              PROVE  \E job : req' = [req EXCEPT ![r] = job] /\ job.pc \notin {"reset", "confirm"}
          BY <5>6 DEF ReadTarget
        <5>7. NoWish \in Wishes
          BY DEF NoWish, Wishes
        <5>. QED BY <1>5, <3>2, <5>1, <5>2, <5>3, <5>4, <5>5, <5>6, <5>7 DEF Handle
      <4>. QED BY <1>4, <4>1
    <3>. QED BY <3>1, <3>2
  <2>2. uses'[i] = uses[i] /\ rivals'[i] = rivals[i]
    BY <1>5 DEF Handle, DecideRole, InsertFails, Insert, Answer, CommitVersion, DeleteLinks,
       CommitIssue, ReadOwner, ReadTarget, CountAdmins, CommitPatch, CommitRemove, Fail, history, spent
  <2>3. link'[i] \in {"none", "open"} => link[i] \in {"none", "open"}
    <3>1. ASSUME NEW j \in Links, CommitIssue(r, j)
          PROVE  link'[i] \in {"none", "open"} => link[i] \in {"none", "open"}
      BY <1>0, <3>1 DEF CommitIssue
    <3>2. CASE CommitRemove(r)
      BY <1>0, <3>2 DEF CommitRemove
    <3>. QED BY <1>5, <3>1, <3>2 DEF Handle, DecideRole, InsertFails, Insert, Answer,
         CommitVersion, DeleteLinks, ReadOwner, ReadTarget, CountAdmins, CommitPatch, Fail, mails
  <2>. QED BY <1>1, <2>1, <2>2, <2>3
<1>6. ASSUME NEW r \in Requests, CommitConfirm(r), req[r].mail # i
      PROVE  /\ link'[i] \in {"none", "open"} => uses'[i] = 0
             /\ uses'[i] > 0 => uses'[i] + Cardinality(Confirmations(i)') <= rivals'[i]
  BY <1>0, <1>1, <1>6 DEF CommitConfirm, Spend, Goto, Confirmations, Jobs
<1>7. ASSUME NEW r \in Requests, Arrive(r), ~ReadLink(r, i)
      PROVE  /\ link'[i] \in {"none", "open"} => uses'[i] = 0
             /\ uses'[i] > 0 => uses'[i] + Cardinality(Confirmations(i)') <= rivals'[i]
  <2>1. uses'[i] = uses[i] /\ rivals'[i] = rivals[i] /\ link'[i] = link[i]
    BY <1>7 DEF Arrive, CheckEmail, Login, AskReset, Authenticate, ReadLink, mails, history, spent
  <2>2. Confirmations(i)' \subseteq Confirmations(i)
    <3>. DEFINE Job(job) == /\ req' = [req EXCEPT ![r] = job]
                            /\ job.pc \in {"reset", "confirm"} => job.mail # i
    <3>1. \E job : Job(job)
      <4>1. ASSUME NEW job, Begins(r, job), job.pc \in {"reset", "confirm"} => job.mail # i
            PROVE  \E other : Job(other)
        BY <4>1 DEF Begins
      <4>2. ASSUME NEW a \in Accounts, CheckEmail(r, a) \/ Login(r, a) \/ AskReset(r, a)
            PROVE  \E job : Job(job)
        <5>1. PICK p \in {"free", "answer", "forget"} : Begins(r, [Idle EXCEPT !.pc = p, !.who = a])
          BY <4>2 DEF CheckEmail, Login, AskReset
        <5>2. [Idle EXCEPT !.pc = p, !.who = a].pc = p
          BY IdleType DEF Jobs
        <5>. QED BY <4>1, <5>1, <5>2
      <4>3. ASSUME NEW t \in tokens, NEW p \in {"change", "logout", "admin"},
                   Authenticate(r, t, p)
            PROVE  \E job : Job(job)
        <5>. DEFINE job == [Idle EXCEPT !.pc = p, !.who = t.account, !.seen = version[t.account]]
        <5>1. Begins(r, job) /\ job.pc = p
          BY <4>3, IdleType DEF Authenticate, Jobs
        <5>. QED BY <4>1, <5>1
      <4>4. ASSUME NEW j \in Links, j # i, ReadLink(r, j)
            PROVE  \E job : Job(job)
        <5>. DEFINE job == [Idle EXCEPT !.pc = "reset", !.mail = j]
        <5>1. Begins(r, job) /\ job.mail = j
          BY <4>4, IdleType DEF ReadLink, Jobs
        <5>. QED BY <4>1, <4>4, <5>1
      <4>. QED BY <1>7, <4>2, <4>3, <4>4 DEF Arrive
    <3>. QED BY <1>0, <3>1 DEF Confirmations
  <2>. QED BY <1>1, <2>1, <2>2
<1>8. CASE \E j \in Links : Expire(j)
  BY <1>1, <1>8 DEF Expire, Confirmations, history, spent
<1>9. CASE UNCHANGED vars
  BY <1>1, <1>9 DEF vars, mails, history, spent, Confirmations
<1>. QED BY <1>2, <1>3, <1>5, <1>6, <1>7, <1>8, <1>9 DEF Next

(* However confirmations, replacements and failures interleave, a link is  *)
(* spent: after its first use it sets passwords only for the confirmations *)
(* that had read it before, each of them once.                             *)
THEOREM LinkIsSoonSpent == Spec => []LinkIsSpent
<1>1. Init => Spent
  <2>. SUFFICES ASSUME Init, NEW i \in Links
                PROVE  uses[i] = 0
    BY DEF Spent
  <2>. QED BY DEF Init
<1>2. IInv /\ Spent => LinkIsSpent
  BY ConfirmationsFinite DEF IInv, TypeOK, HistoryType, Spent, LinkIsSpent
<1>. QED BY <1>1, <1>2, SpentStep, AccountInvariant, PTL DEF Spec

-----------------------------------------------------------------------------
(* The last administrator.  While the administrators have not changed since *)
(* a request read its rows, what it has read of its target is still so,     *)
(* and once it has counted them, it is not about to lose the last.          *)
Acting == {"patch", "remove", "patched", "removed"}
AdminRow == [role |-> "admin", status |-> "active"]

CarefulOne(j) ==
    /\ j.pc = "admin" => j.who \in Admins
    /\ j.pc \in Acting => (j.target \in Admins <=> j.read = AdminRow)
    /\ j.pc = "patched" /\ Admins = {j.target} => j.wish.role # "user" /\ j.wish.status # "disabled"
    /\ j.pc = "removed" => Admins # {j.target}

Careful == \A r \in Requests : ~crossed[r] => CarefulOne(req[r])

(* Nobody else's request loses its care when the administrators change.     *)
LEMMA CarefulOthers ==
  ASSUME TypeOK, Careful, NEW r \in Requests, NEW q \in Requests \ {r}, ~crossed'[q],
         req'[q] = req[q], Crosses(r) \/ (Admins' = Admins /\ crossed'[q] = crossed[q])
  PROVE  CarefulOne(req[q])'
<1>1. CASE req[q].pc \notin {"admin"} \cup Acting
  BY <1>1 DEF CarefulOne, Acting
<1>2. CASE req[q].pc \in {"admin"} \cup Acting
  <2>1. ~crossed[q] /\ Admins' = Admins
    BY <1>2 DEF Crosses, Acting
  <2>. QED BY <2>1 DEF Careful, CarefulOne
<1>. QED BY <1>1, <1>2

(* A request that is not about administrators needs no care.                *)
LEMMA CarefulElse ==
  ASSUME NEW j, j.pc \notin {"admin"} \cup Acting
  PROVE  CarefulOne(j)'
BY DEF CarefulOne, Acting

(* A row is an administrator's if it says so.                               *)
LEMMA AdminRows ==
  ASSUME NEW b \in Accounts, Present(b)
  PROVE  b \in Admins <=> [role |-> role[b], status |-> status[b]] = AdminRow
BY DEF Admins, Active, AdminRow

LEMMA CarefulRead ==
  ASSUME IInv, Careful, NEW r \in Requests, NEW b \in Accounts, NEW w \in Wishes,
         NEW p \in {"patch", "remove"}, ReadTarget(r, b, w, p), ~crossed'[r]
  PROVE  CarefulOne(req[r])'
<1>0. req[r] \in Jobs /\ req \in [Requests -> Jobs] /\ crossed \in [Requests -> BOOLEAN]
  BY DEF IInv, TypeOK, HistoryType
<1>1. CASE Done(r)
  BY <1>0, <1>1, IdleType, CarefulElse DEF Done, Acting
<1>2. CASE ~Done(r)
  <2>1. /\ req'[r].pc = p /\ req'[r].target = b /\ Present(b)
        /\ req'[r].read = IF b = req[r].who THEN AdminRow
                          ELSE [role |-> role[b], status |-> status[b]]
    BY <1>0, <1>2 DEF ReadTarget, Jobs, AdminRow
  <2>2. b = req[r].who => b \in Admins
    BY <1>0 DEF ReadTarget, Careful, CarefulOne, At
  <2>3. Admins' = Admins
    BY DEF ReadTarget, users, Admins, Active, Present
  <2>. QED BY <2>1, <2>2, <2>3, AdminRows DEF CarefulOne, Acting
<1>. QED BY <1>1, <1>2

LEMMA CarefulCount ==
  ASSUME IInv, Careful, NEW r \in Requests, CountAdmins(r), ~crossed'[r]
  PROVE  CarefulOne(req[r])'
<1>0. req[r] \in Jobs /\ req \in [Requests -> Jobs]
  BY DEF IInv, TypeOK
<1>1. CASE Done(r)
  BY <1>0, <1>1, IdleType, CarefulElse DEF Done, Acting
<1>2. CASE ~Done(r)
  <2>1. /\ ~Endangers(r) /\ req'[r].pc = IF At(r, "patch") THEN "patched" ELSE "removed"
        /\ req'[r].target = req[r].target /\ req'[r].read = req[r].read
        /\ req'[r].wish = req[r].wish /\ req[r].pc \in {"patch", "remove"}
    BY <1>0, <1>2 DEF CountAdmins, Goto, Jobs
  <2>2. Admins' = Admins /\ CarefulOne(req[r])
    BY DEF CountAdmins, users, history, spent, Admins, Active, Present, Careful
  <2>3. Admins = {req[r].target} =>
           req[r].read = AdminRow /\ Cardinality(Admins) = 1
    BY <2>1, <2>2, FS_Singleton DEF CarefulOne, Acting
  <2>4. Admins = {req[r].target} =>
          IF At(r, "patch") THEN req[r].wish.role # "user" /\ req[r].wish.status # "disabled"
                            ELSE FALSE
    BY <2>1, <2>3 DEF Endangers, AdminRow
  <2>. QED BY <2>1, <2>2, <2>4 DEF CarefulOne, Acting, At
<1>. QED BY <1>1, <1>2

(* The steps of a request that leaves the administrators alone and is not   *)
(* about to change them.                                                   *)
LEMMA CarefulAlone ==
  ASSUME IInv, Careful, NEW r \in Requests, NEW job, req' = [req EXCEPT ![r] = job],
         job.pc \notin {"admin"} \cup Acting,
         Crosses(r) \/ (Admins' = Admins /\ crossed' = crossed)
  PROVE  Careful'
<1>0. req \in [Requests -> Jobs] /\ TypeOK
  BY DEF IInv, TypeOK
<1>1. SUFFICES ASSUME NEW q \in Requests, ~crossed'[q] PROVE CarefulOne(req[q])'
  BY DEF Careful
<1>2. CASE q = r
  BY <1>0, <1>2, CarefulElse
<1>3. CASE q # r
  BY <1>0, <1>1, <1>3, CarefulOthers
<1>. QED BY <1>2, <1>3

LEMMA CarefulHandle ==
  ASSUME IInv, Careful, NEW r \in Requests, Handle(r)
  PROVE  Careful'
<1>0. /\ req \in [Requests -> Jobs] /\ req[r] \in Jobs /\ TypeOK
      /\ Idle \in Jobs /\ Idle.pc = "idle"
  BY IdleType DEF IInv, TypeOK
<1>1. CASE DecideRole(r) \/ InsertFails(r) \/ Answer(r) \/ CommitVersion(r) \/ DeleteLinks(r)
           \/ (\E i \in Links : CommitIssue(r, i)) \/ ReadOwner(r) \/ CommitConfirm(r) \/ Fail(r)
  <2>1. Admins' = Admins /\ crossed' = crossed
    BY <1>1 DEF DecideRole, InsertFails, Answer, CommitVersion, DeleteLinks, CommitIssue,
       ReadOwner, CommitConfirm, Fail, users, history, spent, Admins, Active, Present
  <2>2. ASSUME NEW p \in PcStates \ ({"admin"} \cup Acting), Goto(r, p)
        PROVE  Careful'
    <3>. DEFINE job == [req[r] EXCEPT !.pc = p]
    <3>1. req' = [req EXCEPT ![r] = job] /\ job.pc = p
      BY <1>0, <2>2 DEF Goto, Jobs
    <3>. HIDE DEF job
    <3>. QED BY <2>1, <2>2, <3>1, CarefulAlone
  <2>3. ASSUME Done(r) PROVE Careful'
    BY <1>0, <2>1, <2>3, CarefulAlone DEF Done, Acting
  <2>4. CASE InsertFails(r) \/ Answer(r) \/ Fail(r) \/ \E i \in Links : CommitIssue(r, i)
    BY <2>3, <2>4 DEF InsertFails, Answer, Fail, CommitIssue
  <2>5. CASE CommitVersion(r) \/ CommitConfirm(r)
    BY <2>2, <2>3, <2>5 DEF CommitVersion, CommitConfirm, PcStates, Acting
  <2>6. CASE DecideRole(r)
    <3>. DEFINE job == [req[r] EXCEPT !.boss = Bootstraps(req[r].who), !.pc = "insert"]
    <3>1. req' = [req EXCEPT ![r] = job] /\ job.pc = "insert"
      BY <1>0, <2>6 DEF DecideRole, Jobs
    <3>. HIDE DEF job
    <3>. QED BY <2>1, <3>1, CarefulAlone DEF Acting
  <2>7. CASE DeleteLinks(r)
    <3>1. PICK rows : req' = [req EXCEPT ![r].doomed = rows, ![r].pc = "issue"]
      BY <2>7 DEF DeleteLinks
    <3>. DEFINE job == [req[r] EXCEPT !.doomed = rows, !.pc = "issue"]
    <3>2. req' = [req EXCEPT ![r] = job] /\ job.pc = "issue"
      BY <1>0, <3>1 DEF Jobs
    <3>. HIDE DEF job
    <3>. QED BY <2>1, <3>2, CarefulAlone DEF Acting
  <2>8. CASE ReadOwner(r)
    <3>1. PICK a : Done(r) \/ req' = [req EXCEPT ![r].who = a, ![r].seen = version[a],
                                              ![r].pc = "confirm"]
      BY <2>8 DEF ReadOwner
    <3>. DEFINE job == [req[r] EXCEPT !.who = a, !.seen = version[a], !.pc = "confirm"]
    <3>2. Done(r) \/ (req' = [req EXCEPT ![r] = job] /\ job.pc = "confirm")
      BY <1>0, <3>1 DEF Jobs
    <3>. HIDE DEF job
    <3>. QED BY <2>1, <2>3, <3>2, CarefulAlone DEF Acting
  <2>. QED BY <1>1, <2>4, <2>5, <2>6, <2>7, <2>8
<1>2. CASE CommitPatch(r) \/ CommitRemove(r)
  BY <1>0, <1>2, CarefulAlone DEF CommitPatch, CommitRemove, Done, Acting
<1>3. CASE \E a \in Accounts : Insert(r, a)
  <2>1. PICK a \in Accounts : Insert(r, a)
    BY <1>3
  <2>. DEFINE job == [req[r] EXCEPT !.who = a, !.pc = "answer"]
  <2>2. req' = [req EXCEPT ![r] = job] /\ Crosses(r)
    BY <1>0, <2>1 DEF Insert
  <2>3. job.pc = "answer"
    BY <1>0 DEF Jobs
  <2>. QED BY <2>2, <2>3, CarefulAlone DEF Acting
<1>4. ASSUME NEW b \in Accounts, NEW w \in Wishes, NEW p \in {"patch", "remove"},
             ReadTarget(r, b, w, p)
      PROVE  Careful'
  <2>1. SUFFICES ASSUME NEW q \in Requests, ~crossed'[q] PROVE CarefulOne(req[q])'
    BY DEF Careful
  <2>2. CASE q = r
    BY <1>4, <2>1, <2>2, CarefulRead
  <2>3. CASE q # r
    <3>1. Admins' = Admins /\ crossed'[q] = crossed[q] /\ req'[q] = req[q]
      BY <1>0, <1>4, <2>3 DEF ReadTarget, Done, users, Admins, Active, Present, TypeOK, HistoryType
    <3>. QED BY <1>0, <2>1, <2>3, <3>1, CarefulOthers
  <2>. QED BY <2>2, <2>3
<1>5. CASE CountAdmins(r)
  <2>1. SUFFICES ASSUME NEW q \in Requests, ~crossed'[q] PROVE CarefulOne(req[q])'
    BY DEF Careful
  <2>2. CASE q = r
    BY <1>5, <2>1, <2>2, CarefulCount
  <2>3. CASE q # r
    <3>1. Admins' = Admins /\ crossed'[q] = crossed[q] /\ req'[q] = req[q]
      BY <1>0, <1>5, <2>3 DEF CountAdmins, Done, Goto, users, history, spent, Admins, Active, Present
    <3>. QED BY <1>0, <2>1, <2>3, <3>1, CarefulOthers
  <2>. QED BY <2>2, <2>3
<1>6. NoWish \in Wishes
  BY DEF NoWish, Wishes
<1>. QED BY <1>1, <1>2, <1>3, <1>4, <1>5, <1>6 DEF Handle

LEMMA CarefulStep == IInv /\ Careful /\ [Next]_vars => Careful'
<1>. SUFFICES ASSUME IInv, Careful, [Next]_vars PROVE Careful'
  OBVIOUS
<1>0. /\ req \in [Requests -> Jobs] /\ TypeOK /\ crossed \in [Requests -> BOOLEAN]
      /\ Idle \in Jobs /\ Idle.pc = "idle"
  BY IdleType DEF IInv, TypeOK, HistoryType
<1>1. ASSUME NEW r \in Requests, NEW a \in Accounts,
             CheckEmail(r, a) \/ Login(r, a) \/ AskReset(r, a)
      PROVE  Careful'
  <2>1. PICK p \in {"free", "answer", "forget"} :
          req' = [req EXCEPT ![r] = [Idle EXCEPT !.pc = p, !.who = a]]
    BY <1>1 DEF CheckEmail, Login, AskReset, Begins
  <2>. DEFINE job == [Idle EXCEPT !.pc = p, !.who = a]
  <2>2. req' = [req EXCEPT ![r] = job] /\ job.pc = p
    BY <1>0, <2>1 DEF Jobs
  <2>3. Admins' = Admins /\ crossed' = crossed
    BY <1>1 DEF CheckEmail, Login, AskReset, users, history, spent, Admins, Active, Present
  <2>. QED BY <2>2, <2>3, CarefulAlone DEF Acting
<1>2. ASSUME NEW r \in Requests, NEW i \in Links, ReadLink(r, i) PROVE Careful'
  <2>. DEFINE job == [Idle EXCEPT !.pc = "reset", !.mail = i]
  <2>1. req' = [req EXCEPT ![r] = job] /\ job.pc = "reset"
    BY <1>0, <1>2 DEF ReadLink, Begins, Jobs
  <2>2. Admins' = Admins /\ crossed' = crossed
    BY <1>2 DEF ReadLink, users, history, spent, Admins, Active, Present
  <2>. QED BY <2>1, <2>2, CarefulAlone DEF Acting
<1>3. ASSUME NEW r \in Requests, NEW t \in tokens, NEW p \in {"change", "logout", "admin"},
             Authenticate(r, t, p)
      PROVE  Careful'
  <2>. DEFINE job == [Idle EXCEPT !.pc = p, !.who = t.account, !.seen = version[t.account]]
  <2>1. req' = [req EXCEPT ![r] = job] /\ job.pc = p /\ job.who = t.account
    BY <1>0, <1>3 DEF Authenticate, Begins, Jobs
  <2>2. Admins' = Admins /\ \A q \in Requests \ {r} : crossed'[q] = crossed[q]
    BY <1>0, <1>3 DEF Authenticate, users, Admins, Active, Present
  <2>3. p = "admin" => t.account \in Admins
    BY <1>0, <1>3 DEF Authenticate, Valid, Admins, Active, TypeOK
  <2>4. SUFFICES ASSUME NEW q \in Requests, ~crossed'[q] PROVE CarefulOne(req[q])'
    BY DEF Careful
  <2>5. CASE q = r
    <3>. HIDE DEF job
    <3>. QED BY <1>0, <2>1, <2>2, <2>3, <2>5 DEF CarefulOne, Acting
  <2>6. CASE q # r
    BY <1>0, <2>1, <2>2, <2>4, <2>6, CarefulOthers
  <2>. QED BY <2>5, <2>6
<1>4. ASSUME UNCHANGED <<users, req, crossed>> PROVE Careful'
  BY <1>4 DEF users, Careful, CarefulOne, Admins, Active, Present
<1>5. CASE \E i \in Links : Expire(i)
  BY <1>4, <1>5 DEF Expire, history, spent
<1>6. CASE UNCHANGED vars
  BY <1>4, <1>6 DEF vars, history, spent
<1>. QED BY <1>1, <1>2, <1>3, <1>5, <1>6, CarefulHandle DEF Next, Arrive
(* An administrator who is patched without a wish to the contrary remains.  *)
LEMMA PatchSpares ==
  ASSUME IInv, Careful, NEW r \in Requests, CommitPatch(r), ~crossed[r], Admins # {}
  PROVE  Admins' # {}
<1>. DEFINE b == req[r].target
<1>0. /\ req \in [Requests -> Jobs] /\ req[r] \in Jobs /\ b \in Accounts
      /\ role \in [Accounts -> Roles] /\ status \in [Accounts -> Statuses]
      /\ req[r].wish \in Wishes
  BY DEF IInv, TypeOK, UserType, Jobs
<1>1. presence' = presence /\ \A a \in Accounts \ {b} : role'[a] = role[a] /\ status'[a] = status[a]
  BY <1>0 DEF CommitPatch
<1>2. CASE Admins \subseteq {b}
  <2>1. Admins = {b}
    BY <1>2
  <2>2. req[r].read = AdminRow /\ req[r].wish.role # "user" /\ req[r].wish.status # "disabled"
    BY <2>1 DEF CommitPatch, Careful, CarefulOne, Acting, At
  <2>3. Present(b) /\ role[b] = "admin" /\ status[b] = "active"
    BY <2>1 DEF Admins, Active
  <2>4. role'[b] = "admin" /\ status'[b] = "active"
    BY <1>0, <2>2, <2>3 DEF CommitPatch, Written, AdminRow, Wishes, Roles, Statuses
  <2>5. b \in Admins'
    BY <1>0, <1>1, <2>3, <2>4 DEF Admins, Active, Present
  <2>. QED BY <2>5
<1>3. CASE \E a \in Admins : a # b
  BY <1>1, <1>3 DEF Admins, Active, Present
<1>. QED BY <1>2, <1>3

LEMMA RemoveSpares ==
  ASSUME IInv, Careful, NEW r \in Requests, CommitRemove(r), ~crossed[r], Admins # {}
  PROVE  Admins' # {}
<1>. DEFINE b == req[r].target
<1>1. PICK a \in Admins : a # b
  BY DEF CommitRemove, Careful, CarefulOne, At
<1>2. presence'[a] = presence[a] /\ role' = role /\ status' = status
  BY <1>1 DEF CommitRemove, IInv, TypeOK, UserType, Admins
<1>. QED BY <1>1, <1>2 DEF Admins, Active, Present

(* The last active administrator is lost only to a request whose check was *)
(* made on administrators that have changed since: however many requests   *)
(* are handled, admin.py keeps an administrator in the absence of a race.  *)
THEOREM LastAdminRemains == Spec => AdminRemains
<1>1. Init => Careful
  BY DEF Init, Careful, CarefulOne, Idle, Acting
<1>2. ASSUME IInv, Careful, [Next]_vars
      PROVE  [Admins # {} /\ Admins' = {} =>
                \E r \in Requests : req[r].pc \in {"patched", "removed"} /\ crossed[r]]_vars
  <2>1. SUFFICES ASSUME Next, Admins # {}, Admins' = {}
                 PROVE  \E r \in Requests : req[r].pc \in {"patched", "removed"} /\ crossed[r]
    BY <1>2
  <2>2. CASE \E r \in Requests : CommitPatch(r) \/ CommitRemove(r)
    BY <1>2, <2>1, <2>2, PatchSpares, RemoveSpares DEF CommitPatch, CommitRemove, At
  <2>3. CASE \E r \in Requests, a \in Accounts : Insert(r, a)
    <3>1. PICK r \in Requests, a \in Accounts : Insert(r, a)
      BY <2>3
    <3>2. PICK b \in Admins : TRUE
      BY <2>1
    <3>3. b # a /\ b \in Accounts /\ presence'[b] = presence[b] /\ role'[b] = role[b] /\ status' = status
      BY <1>2, <3>1, <3>2 DEF Insert, Admins, Active, Present, IInv, TypeOK, UserType
    <3>4. b \in Admins'
      BY <3>2, <3>3 DEF Admins, Active, Present
    <3>. QED BY <2>1, <3>4
  <2>5. ASSUME UNCHANGED <<presence, role, status>> PROVE FALSE
    BY <2>1, <2>5 DEF Admins, Active, Present
  <2>6. ASSUME NEW r \in Requests,
               DecideRole(r) \/ InsertFails(r) \/ Answer(r) \/ CommitVersion(r) \/ DeleteLinks(r)
               \/ (\E i \in Links : CommitIssue(r, i)) \/ ReadOwner(r) \/ CommitConfirm(r)
               \/ CountAdmins(r) \/ Fail(r)
        PROVE  FALSE
    BY <2>5, <2>6 DEF DecideRole, InsertFails, Answer, CommitVersion, DeleteLinks, CommitIssue,
       ReadOwner, CommitConfirm, CountAdmins, Fail, users
  <2>7. ASSUME NEW r \in Requests, NEW b \in Accounts, NEW w, NEW p, ReadTarget(r, b, w, p)
        PROVE  FALSE
    BY <2>5, <2>7 DEF ReadTarget, users
  <2>8. ASSUME NEW r \in Requests, Arrive(r) PROVE FALSE
    BY <2>5, <2>8 DEF Arrive, CheckEmail, Login, AskReset, Authenticate, ReadLink, users
  <2>9. CASE \E i \in Links : Expire(i)
    BY <2>5, <2>9 DEF Expire, users
  <2>. QED BY <2>1, <2>2, <2>3, <2>6, <2>7, <2>8, <2>9 DEF Next, Handle
<1>3. (IInv /\ Careful /\ [Next]_vars) =>
         [Admins # {} /\ Admins' = {} =>
                \E r \in Requests : req[r].pc \in {"patched", "removed"} /\ crossed[r]]_vars
  BY <1>2
<1>. QED BY <1>1, <1>3, CarefulStep, AccountInvariant, PTL DEF Spec, AdminRemains
=============================================================================
