--------------------------- MODULE BrowserAccounts ---------------------------
(***************************************************************************)
(* The accounts a browser keeps (src/frontend/src/providers/Auth.tsx) and  *)
(* the screens that change them: the login screen, the account menu and    *)
(* the boundary that decides which of them is shown.                       *)
(*                                                                         *)
(* Every tab has its own copy of the accounts; localStorage is shared and  *)
(* is read only when a page is loaded.  A call keeps what its closure      *)
(* captured: the account it is made for and the list it will be saved      *)
(* into.  The server handles a call at one moment and the tab its answer   *)
(* at a later one.                                                         *)
(*                                                                         *)
(* An account is a user and what its two tokens are worth: `ver` is the    *)
(* token version of the user when they were issued, `era` the lifetime of  *)
(* the access token.                                                       *)
(***************************************************************************)
EXTENDS Naturals, Sequences, FiniteSets, SequencesExt

CONSTANTS
    Tabs, Users,
    Stores,     \* the users localStorage may hold when the browser is opened
    Opened,     \* the sets of tabs that may be open
    MaxCalls,   \* bound: calls in flight
    MaxEvents,  \* bound: logins, requests, expiries, losses and reloads, taken together
    MaxShared   \* the same when more than one tab is open

VARIABLES
    server,     \* token version and access-token lifetime of every user
    storage,    \* localStorage: the accounts and the active one
    tab,        \* state of AuthProvider and of the screen of every tab
    calls,      \* requests to the backend that are not settled
    ended,      \* history: who signed out in a tab, or was refused, since it was loaded
    events      \* how much of MaxEvents is used

vars == <<server, storage, tab, calls, ended, events>>

Phases == {"closed", "loading", "boot", "ready", "leaving"}
Modes == {"login", "register", "reset-request", "reset-confirm"}
Kinds == {"boot", "timer", "request", "change", "logout", "login", "forgot", "reset"}
Account == [user : Users, ver : 0..MaxEvents, era : 0..MaxEvents]
Nobody == [user |-> "none", ver |-> 0, era |-> 0]

Issue(u) == [user |-> u, ver |-> server[u].ver, era |-> server[u].era]
AccessValid(a) == a.ver = server[a.user].ver /\ a.era = server[a.user].era
RefreshValid(a) == a.ver = server[a.user].ver

UsersOf(list) == {list[i].user : i \in DOMAIN list}
First(list) == IF list = <<>> THEN Nobody ELSE list[1]

\* Where a user is listed; no user is listed twice (TypeOK).
PlaceOf(list, u) == CHOOSE i \in DOMAIN list : list[i].user = u
Without(list, u) ==
    IF u \in UsersOf(list) THEN RemoveAt(list, PlaceOf(list, u)) ELSE list
Find(list, u) == IF u \in UsersOf(list) THEN list[PlaceOf(list, u)] ELSE Nobody

\* const account = accounts.find(...).
Shown(t) == Find(tab[t].accounts, tab[t].active)
Live(t) == tab[t].phase \in {"ready", "leaving"}
CallsOf(t) == {c \in calls : c.tab = t}
OpenTabs == {t \in Tabs : tab[t].phase # "closed"}
Counted == /\ events < (IF Cardinality(OpenTabs) > 1 THEN MaxShared ELSE MaxEvents)
           /\ events' = events + 1

-----------------------------------------------------------------------------
(* The boundary, the login screen and the account menu. *)

\* AuthBoundary: nothing until the boot is over, then the login screen or the pages.
Screen(t) == IF ~Live(t) THEN "restoring"
             ELSE IF Shown(t) = Nobody THEN "login" ELSE "pages"

\* The inputs of the form in each mode.
Fields(mode) ==
    (IF mode = "register" THEN {"displayName"} ELSE {})
    \cup (IF mode = "reset-confirm" THEN {"token", "confirmPassword"} ELSE {"email"})
    \cup (IF mode = "reset-request" THEN {} ELSE {"password"})

\* The buttons that lead from one mode to another; they work while a call is out.
Reachable(mode) ==
    IF mode \in {"login", "register"} THEN {"login", "register"} ELSE {}

ModeAfter(mode) ==
    Reachable(mode) \cup (IF mode = "login" THEN {"reset-request"} ELSE {})
                    \cup (IF mode \in {"reset-request", "reset-confirm"} THEN {"login"} ELSE {})

\* The accounts the login screen and the menu offer to switch to.
Saved(t) == IF tab[t].mode = "reset-confirm" THEN {} ELSE UsersOf(tab[t].accounts)
Others(t) == UsersOf(tab[t].accounts) \ {Shown(t).user}

-----------------------------------------------------------------------------
(* Saving and calling. *)

\* persist: the state and localStorage, the active one only if it is in the list.
Persist(t, list, active, busy) ==
    LET valid == IF active \in UsersOf(list) THEN active ELSE "none"
    IN /\ tab' = [tab EXCEPT ![t].accounts = list, ![t].active = valid, ![t].busy = busy,
                             ![t].mode = "login", ![t].fired = FALSE]
       /\ storage' = [accounts |-> list, active |-> valid]

\* saveAccount: into the list of the render that made the call.
SaveAccount(c, next, busy) ==
    Persist(c.tab, <<next>> \o Without(c.accounts, next.user), next.user, busy)

Call(t, kind, stage, acc) ==
    [tab |-> t, kind |-> kind, stage |-> stage, acc |-> acc, accounts |-> tab[t].accounts,
     me |-> "none", status |-> "none", token |-> Nobody]
Add(c) == Cardinality(calls) < MaxCalls /\ c \notin calls /\ calls' = calls \cup {c}
Replace(c, d) == calls' = (calls \ {c}) \cup {d}
Settle(c) == calls' = calls \ {c}
Pending(c, stage, acc) ==
    [c EXCEPT !.stage = stage, !.acc = acc, !.status = "none", !.token = Nobody]

-----------------------------------------------------------------------------
(* Loading a page. *)

FinishBoot(t, stored, active) ==
    LET list == IF active = Nobody THEN stored
                ELSE <<active>> \o Without(stored, active.user)
    IN /\ tab' = [tab EXCEPT ![t].phase = "ready", ![t].accounts = list,
                             ![t].active = active.user]
       /\ storage' = [accounts |-> list, active |-> active.user]

\* loadAccounts and the first step of bootstrap; what the old page had is gone.
Load(t) ==
    LET stored == storage.accounts
        wanted == Find(stored, storage.active)
        active == IF wanted = Nobody THEN First(stored) ELSE wanted
        others == {c \in calls : c.tab # t}
        fresh == [tab EXCEPT ![t] = [phase |-> "boot", accounts |-> <<>>, active |-> "none",
                                     mode |-> "login", busy |-> FALSE, fired |-> FALSE]]
    IN /\ \/ tab[t].phase \in {"loading", "leaving"} /\ UNCHANGED events
          \/ tab[t].phase \in {"boot", "ready"} /\ Counted
       /\ IF active = Nobody
          THEN /\ tab' = [fresh EXCEPT ![t].phase = "ready"]
               /\ storage' = [accounts |-> <<>>, active |-> "none"]
               /\ calls' = others
          ELSE /\ tab' = fresh
               /\ calls' = others \cup
                     {[Call(t, "boot", "sent", active) EXCEPT !.accounts = stored]}
               /\ UNCHANGED storage
       /\ ended' = [ended EXCEPT ![t] = {}]
       /\ UNCHANGED server

\* An unreachable server counts as a refusal.
MutRefused(c) == c.me # "ok" /\ c.status # "ok"

\* The only case in which bootstrap gives an account up: both tokens are refused.
Refused(c) == c.me = "denied" /\ c.status = "denied"

\* The answer to /auth/me, then to /auth/refresh.
BootAnswer(c) ==
    /\ c.kind = "boot" /\ c.status # "none"
    /\ \/ /\ c.stage = "sent" /\ c.status \in {"denied", "lost"}
          /\ Replace(c, [Pending(c, "refreshing", c.acc) EXCEPT !.me = c.status])
          /\ UNCHANGED <<tab, storage, ended>>
       \/ /\ c.stage = "refreshing" \/ c.status \in {"ok", "odd"}
          /\ Settle(c)
          /\ LET kept == IF c.stage = "refreshing" /\ Refused(c)
                         THEN Without(c.accounts, c.acc.user) ELSE c.accounts
             IN /\ ended' = [ended EXCEPT ![c.tab] = @ \cup
                               IF c.me = "denied" /\ c.status = "denied" THEN {c.acc.user} ELSE {}]
                /\ FinishBoot(c.tab, kept,
                     IF c.status = "odd" THEN Nobody
                     ELSE IF c.status = "ok" THEN c.token
                     ELSE IF kept = c.accounts THEN c.acc ELSE First(kept))
    /\ UNCHANGED <<server, events>>

-----------------------------------------------------------------------------
(* Requests of a signed-in page. *)

\* authFetch by any page, changePassword from the menu's sheet, and logoutAll, which the
\* provider offers to any page.
Request(t, kind) ==
    /\ kind \in {"request", "change", "logout"} /\ Live(t) /\ Screen(t) = "pages"
    /\ kind = "change" => tab[t].phase = "ready" /\ ~tab[t].busy
    /\ Add(Call(t, kind, "sent", Shown(t)))
    /\ tab' = [tab EXCEPT ![t].busy = @ \/ kind = "change"]
    /\ Counted
    /\ UNCHANGED <<server, storage, ended>>

\* The timer that refreshes the access token before it expires; set anew whenever the
\* accounts change.
TimerFires(t) ==
    /\ tab[t].phase = "ready" /\ Screen(t) = "pages" /\ ~tab[t].fired
    /\ Cardinality(calls) < MaxCalls
    /\ LET c == Call(t, "timer", "refreshing", Shown(t))
       IN c \notin calls /\ calls' = calls \cup {c}
    /\ tab' = [tab EXCEPT ![t].fired = TRUE]
    /\ UNCHANGED <<server, storage, ended, events>>

\* A failed or refused change of the password gives its form back.
GiveBack(c) ==
    /\ tab' = [tab EXCEPT ![c.tab].busy = @ /\ c.kind # "change"]
    /\ UNCHANGED <<storage, ended>>

\* logout: the list of the render without the account that was active in it.
LeaveAccount(t, list, u) ==
    LET next == First(Without(list, u)).user
    IN /\ tab' = [tab EXCEPT ![t].phase = "leaving", ![t].accounts = Without(list, u),
                             ![t].active = next]
       /\ storage' = [accounts |-> Without(list, u), active |-> next]
       /\ ended' = [ended EXCEPT ![t] = @ \cup {u}]

\* logoutAll: whatever the backend has answered, unless a request throws, the account is
\* left with the list of the render that made the call.
LogoutAnswer(c) ==
    /\ c.kind = "logout" /\ c.status # "none" /\ Settle(c)
    /\ \/ c.stage # "refreshing" /\ c.status = "ok" /\ LeaveAccount(c.tab, c.accounts, c.acc.user)
       \/ c.stage # "sent" /\ c.status = "denied" /\ LeaveAccount(c.tab, c.accounts, c.acc.user)
       \/ c.status = "lost" /\ LeaveAccount(c.tab, c.accounts, c.acc.user)
       \/ c.status = "lost" /\ GiveBack(c)
    /\ UNCHANGED <<server, events>>

RequestAnswer(c) ==
    /\ c.kind \in {"timer", "request", "change", "logout"} /\ c.status # "none"
    /\ \/ /\ c.stage = "sent" /\ c.status = "denied"
          /\ Replace(c, Pending(c, "refreshing", c.acc))
          /\ UNCHANGED <<tab, storage, ended>>
       \/ /\ c.stage = "refreshing" /\ c.status = "ok"
          /\ SaveAccount(c, c.token, tab[c.tab].busy) /\ UNCHANGED ended
          /\ IF c.kind = "timer" THEN Settle(c)
             ELSE Replace(c, Pending(c, "again", c.token))
       \/ /\ c.stage # "refreshing" /\ c.status = "ok" /\ c.kind = "change"
          /\ SaveAccount(c, c.token, FALSE) /\ UNCHANGED ended
          /\ Settle(c)
       \/ /\ c.kind # "logout"
          /\ \/ c.status = "lost"
             \/ c.status = "denied" /\ c.stage # "sent"
             \/ c.status = "refused"
             \/ c.status = "ok" /\ c.kind = "request" /\ c.stage # "refreshing"
          /\ GiveBack(c)
          /\ Settle(c)
    /\ UNCHANGED <<server, events>>

-----------------------------------------------------------------------------
(* The login screen. *)

ChooseMode(t, mode) ==
    /\ tab[t].phase = "ready" /\ Screen(t) = "login" /\ mode \in ModeAfter(tab[t].mode)
    /\ mode # tab[t].mode
    /\ tab' = [tab EXCEPT ![t].mode = mode]
    /\ UNCHANGED <<server, storage, calls, ended, events>>

\* submit: the mode decides what is asked; an account is named by its email, or by
\* the reset token.
Submit(t, u) ==
    LET kind == IF "confirmPassword" \in Fields(tab[t].mode) THEN "reset"
                ELSE IF "password" \in Fields(tab[t].mode) THEN "login" ELSE "forgot"
    IN /\ tab[t].phase = "ready" /\ Screen(t) = "login" /\ ~tab[t].busy
       /\ Add(Call(t, kind, "sent", [Nobody EXCEPT !.user = u]))
       /\ tab' = [tab EXCEPT ![t].busy = TRUE]
       /\ Counted
       /\ UNCHANGED <<server, storage, ended>>

\* submitAuth and resetPassword save the account; a reset link that comes back in the
\* answer opens the last form, wherever the user is now.
LoginAnswer(c) ==
    /\ c.kind \in {"login", "forgot", "reset"} /\ c.status # "none"
    /\ Settle(c)
    /\ IF c.status = "ok" /\ c.kind # "forgot"
       THEN /\ SaveAccount(c, c.token, FALSE)
            /\ ended' = [ended EXCEPT ![c.tab] = @ \ {c.token.user}]
       ELSE /\ UNCHANGED <<storage, ended>>
            /\ \E mode \in {tab[c.tab].mode} \cup
                   (IF c.status = "ok" /\ Screen(c.tab) = "login" THEN {"reset-confirm"} ELSE {}) :
                 tab' = [tab EXCEPT ![c.tab].busy = FALSE, ![c.tab].mode = mode]
    /\ UNCHANGED <<server, events>>

-----------------------------------------------------------------------------
(* Leaving the account. *)

\* switchAccount, from the menu or from the list of saved accounts.
SwitchAccount(t, u) ==
    /\ tab[t].phase = "ready"
    /\ u \in (IF Screen(t) = "login" THEN Saved(t) ELSE Others(t))
    /\ storage' = [storage EXCEPT !.active = u]
    /\ tab' = [tab EXCEPT ![t].phase = "leaving"]
    /\ UNCHANGED <<server, calls, ended, events>>

\* logout, from the menu.
Logout(t) ==
    /\ tab[t].phase = "ready" /\ Screen(t) = "pages"
    /\ LeaveAccount(t, tab[t].accounts, tab[t].active)
    /\ UNCHANGED <<server, calls, events>>

-----------------------------------------------------------------------------
(* The backend. *)

Answered(c, status, token) == Replace(c, [c EXCEPT !.status = status, !.token = token])
NewVersion(u) == server[u].ver < MaxEvents /\ server' = [server EXCEPT ![u].ver = @ + 1]
Reissued(u) == [Issue(u) EXCEPT !.ver = @ + 1]

\* A call is handled: tokens are checked as they are worth now.  A changed or reset
\* password raises the token version and answers with tokens of the new one; logout-all
\* raises it too, and what it answers is not read.
Serve(c) ==
    LET u == c.acc.user
        needs == IF c.stage = "refreshing" THEN RefreshValid(c.acc) ELSE AccessValid(c.acc)
        open == c.kind \in {"login", "forgot", "reset"}
    IN /\ c.status = "none"
       /\ \/ /\ ~open /\ ~needs
             /\ Answered(c, "denied", Nobody) /\ UNCHANGED server
          \/ /\ ~open /\ needs /\ (c.kind \notin {"change", "logout"} \/ c.stage = "refreshing")
             /\ Answered(c, "ok", IF c.kind = "boot" /\ c.stage = "sent" THEN c.acc ELSE Issue(u))
             /\ UNCHANGED server
          \/ /\ c.kind \in {"login", "forgot"}
             /\ Answered(c, "ok", Issue(u)) /\ UNCHANGED server
          \/ /\ \/ c.kind = "reset"
                \/ c.kind \in {"change", "logout"} /\ needs /\ c.stage # "refreshing"
             /\ Answered(c, "ok", Reissued(u)) /\ NewVersion(u)
          \/ /\ c.kind \in {"login", "reset"} \/ (c.kind = "change" /\ c.stage # "refreshing" /\ needs)
             /\ Answered(c, "refused", Nobody) /\ UNCHANGED server
       /\ UNCHANGED <<storage, tab, ended, events>>

\* The request or its answer is lost, or the server fails.
Lose(c) ==
    /\ c.status # "lost" /\ Counted
    /\ Answered(c, "lost", Nobody)
    /\ UNCHANGED <<server, storage, tab, ended>>

\* The answer to a boot is no account (isAccount), as from a server of another version.
Odd(c) ==
    /\ c.kind = "boot" /\ c.status = "ok" /\ Counted
    /\ Answered(c, "odd", Nobody)
    /\ UNCHANGED <<server, storage, tab, ended>>

\* Access tokens of a user expire.
Expire(u) ==
    /\ Counted
    /\ server' = [server EXCEPT ![u].era = @ + 1]
    /\ UNCHANGED <<storage, tab, calls, ended>>

\* The password is changed in another browser, or the user is deactivated.
ChangedElsewhere(u) ==
    /\ Counted
    /\ NewVersion(u)
    /\ UNCHANGED <<storage, tab, calls, ended>>

-----------------------------------------------------------------------------
Init ==
    /\ server = [u \in Users |-> [ver |-> 0, era |-> 0]]
    /\ \E s \in Stores :
          storage = [accounts |-> [i \in DOMAIN s |-> [user |-> s[i], ver |-> 0, era |-> 0]],
                     active |-> IF s = <<>> THEN "none" ELSE s[1]]
    /\ \E open \in Opened :
          tab = [t \in Tabs |-> [phase |-> IF t \in open THEN "loading" ELSE "closed",
                                 accounts |-> <<>>, active |-> "none",
                                 mode |-> "login", busy |-> FALSE, fired |-> FALSE]]
    /\ calls = {} /\ ended = [t \in Tabs |-> {}] /\ events = 0

Next ==
    \/ \E t \in Tabs : \/ Load(t) \/ TimerFires(t) \/ Logout(t)
                       \/ \E kind \in {"request", "change", "logout"} : Request(t, kind)
                       \/ \E mode \in Modes : ChooseMode(t, mode)
                       \/ \E u \in Users : Submit(t, u) \/ SwitchAccount(t, u)
    \/ \E c \in calls : \/ BootAnswer(c) \/ RequestAnswer(c) \/ LogoutAnswer(c)
                        \/ LoginAnswer(c)
                        \/ Serve(c) \/ Lose(c) \/ Odd(c)
    \/ \E u \in Users : Expire(u) \/ ChangedElsewhere(u)

Spec == Init /\ [][Next]_vars

-----------------------------------------------------------------------------
(* What is to hold. *)

Sound(list, active) ==
    /\ list \in Seq(Account) /\ Len(list) = Cardinality(UsersOf(list))
    /\ active \in UsersOf(list) \cup {"none"}

\* Types.  No user is listed twice, the active account is in the list, and a page that
\* is being restored has its one boot call out (loadAccounts, persist, bootstrap).
TypeOK ==
    /\ server \in [Users -> [ver : 0..MaxEvents, era : 0..MaxEvents]]
    /\ Sound(storage.accounts, IF storage.active \in UsersOf(storage.accounts)
                                THEN storage.active ELSE "none")
    /\ \A t \in Tabs :
          /\ tab[t].phase \in Phases /\ tab[t].mode \in Modes
          /\ tab[t].busy \in BOOLEAN /\ tab[t].fired \in BOOLEAN
          /\ Sound(tab[t].accounts, tab[t].active)
          /\ Cardinality({c \in CallsOf(t) : c.kind = "boot"})
                = IF tab[t].phase = "boot" THEN 1 ELSE 0
    /\ \A c \in calls : /\ c.tab \in Tabs /\ c.kind \in Kinds
                         /\ c.stage \in {"sent", "refreshing", "again"}
                         /\ c.status \in {"none", "ok", "denied", "refused", "lost", "odd"}
                         /\ Sound(c.accounts, "none")
    /\ ended \in [Tabs -> SUBSET Users] /\ events \in 0..MaxEvents

Knows(t) ==
    UsersOf(tab[t].accounts)
    \cup UNION {UsersOf(c.accounts) : c \in {d \in CallsOf(t) : d.kind = "boot"}}
Acts(t) == tab'[t] # tab[t] \/ CallsOf(t)' # CallsOf(t)

\* Nor when other tabs sign users in and out meanwhile does a tab make the browser forget
\* an account it knows of, unless that user signed out in this tab or the backend refused
\* both of the user's tokens to it: not when the backend cannot be reached, not when an answer
\* finds the list changed since its call, not when the page is being left.
Remembers(t) ==
    Knows(t) \cap UsersOf(storage.accounts) \subseteq UsersOf(storage.accounts)' \cup ended'[t]

\* Nor does a late answer bring back who signed out in the tab or was refused to it, unless
\* the page is just being left, which is when a refresh that began before logout does.
BringsBack(t) ==
    /\ tab[t].phase # "leaving"
    /\ ended[t] \cap ended'[t] \cap (UsersOf(storage.accounts)' \ UsersOf(storage.accounts)) # {}

\* What a tab writes to localStorage, from the list it captured (bootstrap, saveAccount, logout).
KeepsKnownAccounts == \A t \in Tabs : Acts(t) => Remembers(t) /\ ~BringsBack(t)
=============================================================================
