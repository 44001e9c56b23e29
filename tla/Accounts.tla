------------------------------ MODULE Accounts -----------------------------
(***************************************************************************)
(* The account behind one e-mail address: auth.service.ts (register,       *)
(* login, refresh, forgotPassword, resetPassword, activate), the customer  *)
(* a distributor creates (createCustomer of distributor.service.ts) and    *)
(* the suspension by an admin (suspendDistributor of admin.service.ts).    *)
(* Every await is a step of its own, so requests interleave between the    *)
(* query that reads and the query that writes, and may die there.          *)
(***************************************************************************)
EXTENDS Integers, FiniteSets

CONSTANTS
  Request,   \* the requests that reach the server
  Password,  \* what people type
  Temp,      \* the random password of an invited customer; nobody is told it
  Link,      \* tokens of password resets and activations
  Session,   \* refresh tokens
  None,      \* no link, no session
  MaxTimes   \* bound: times the account is suspended

ASSUME AccountsAssumption ==
  /\ Temp \notin Password /\ None \notin Link \cup Session
  /\ MaxTimes \in Nat

VARIABLES
  status,   \* User.status, and "none" before there is a row
  role,     \* User.role
  password, \* the password whose hash is stored
  invited,  \* the DistributorCustomer row of a customer who was created
  link,     \* the rows of PasswordResetToken and ActivationToken
  session,  \* the rows of RefreshToken
  req,      \* local state of the requests
  times,    \* history: how often the account went into suspension
  uses,     \* history: how often each link set a password
  overlap   \* history: links two requests held at once

rows == <<status, role, password, invited, link, session>>
past == <<times, uses, overlap>>
accountsVars == <<rows, req, past>>

\* since is history: how often the account had been suspended when the user
\* was last looked up by the sign-in this session goes back to.
Unmade == [kind |-> "none", used |-> FALSE, expired |-> FALSE]
NoSession == [state |-> "none", expired |-> FALSE, since |-> 0]
Waiting == [pc |-> "new", role |-> "none", password |-> Temp, link |-> None,
            session |-> None, since |-> 0]

Step == {"new", "register", "invite", "invited", "linked", "rotate", "mail", "reset",
         "activate", "open", "done", "died", "halfway"}
LinkRow == [kind : {"none", "reset", "activation"}, used : BOOLEAN, expired : BOOLEAN]
SessionRow == [state : {"none", "live", "gone"}, expired : BOOLEAN, since : Nat]
RequestState == [pc : Step, role : {"none", "CUSTOMER", "DISTRIBUTOR"},
                 password : Password \cup {Temp}, link : Link \cup {None},
                 session : Session \cup {None}, since : Nat]

AccountsTypeOK ==
  /\ status \in {"none", "ACTIVE", "PENDING", "SUSPENDED"}
  /\ role \in {"none", "CUSTOMER", "DISTRIBUTOR"}
  /\ password \in Password \cup {Temp} /\ invited \in BOOLEAN
  /\ link \in [Link -> LinkRow] /\ session \in [Session -> SessionRow]
  /\ req \in [Request -> RequestState]
  /\ times \in Nat /\ uses \in [Link -> Nat] /\ overlap \subseteq Link

AccountsInit ==
  /\ status = "none" /\ role = "none" /\ password = Temp /\ invited = FALSE
  /\ link = [l \in Link |-> Unmade] /\ session = [s \in Session |-> NoSession]
  /\ req = [r \in Request |-> Waiting]
  /\ times = 0 /\ uses = [l \in Link |-> 0] /\ overlap = {}

----------------------------------------------------------------------------
\* What a request remembers, and how it ends.
Goes(r, pc) == req' = [req EXCEPT ![r].pc = pc]
Live(s) == session[s].state = "live"
IsNew(r) == req[r].pc = "new"
At(r, pc) == req[r].pc = pc

\* A request that is refused at once leaves nothing behind; only those that
\* pass their first query are steps.
Begin(r, pc, p) == /\ IsNew(r)
                   /\ req' = [req EXCEPT ![r] = [@ EXCEPT !.pc = pc, !.password = p, !.since = times]]

Ended == {"done", "died", "halfway"}
Inviting == {"invited", "linked"}

\* A crash, or a query, the geocoder or the phone check that throws.
Die(r) == /\ req[r].pc \notin Ended \cup {"new"}
          /\ Goes(r, IF req[r].pc \in Inviting THEN "halfway" ELSE "died")
          /\ UNCHANGED <<rows, past>>

----------------------------------------------------------------------------
\* Slip: whoever registers is pending, as one who was invited is.
RegistersPending == "PENDING"

RegisteredStatus == "ACTIVE"

\* Slip: activation stores the password only.
StaysAsIs == status

ActivatedStatus == "ACTIVE"

\* register: the address is looked up, then the row is written; the column is
\* unique, so the create throws if a row came in between.
RegisterLooks(r, as, p) ==
  /\ IsNew(r) /\ status = "none"
  /\ req' = [req EXCEPT ![r] = [@ EXCEPT !.pc = "register", !.role = as, !.password = p]]
  /\ UNCHANGED <<rows, past>>

RegisterWrites(r) ==
  /\ At(r, "register") /\ status = "none"
  /\ status' = RegisteredStatus /\ role' = req[r].role /\ password' = req[r].password
  /\ req' = [req EXCEPT ![r] = [@ EXCEPT !.pc = "open", !.since = times]]
  /\ UNCHANGED <<invited, link, session, past>>

CreateThrows(r) ==
  /\ req[r].pc \in {"register", "invite"} /\ status # "none"
  /\ Goes(r, "died")
  /\ UNCHANGED <<rows, past>>

\* createCustomer: the user with his profile, then the link to the
\* distributor, then the activation token are written one after the other.
InviteLooks(r) ==
  /\ status = "none" /\ Begin(r, "invite", Temp)
  /\ UNCHANGED <<rows, past>>

InviteWrites(r) ==
  /\ At(r, "invite") /\ status = "none"
  /\ status' = "PENDING" /\ role' = "CUSTOMER" /\ password' = Temp
  /\ Goes(r, "invited")
  /\ UNCHANGED <<invited, link, session, past>>

InviteJoins(r) ==
  /\ At(r, "invited")
  /\ invited' = TRUE /\ Goes(r, "linked")
  /\ UNCHANGED <<status, role, password, link, session, past>>

InviteSends(r) ==
  /\ At(r, "linked")
  /\ \E l \in Link : /\ link[l].kind = "none"
                     /\ link' = [link EXCEPT ![l] = [Unmade EXCEPT !.kind = "activation"]]
  /\ Goes(r, "done")
  /\ UNCHANGED <<status, role, password, invited, session, past>>

----------------------------------------------------------------------------
\* login compares the hash it read, and looks at the status it read.
\* Slip: login as refresh is, without a look at the status.
SignsInAnyway == TRUE

MaySignIn == status # "SUSPENDED"

LoginLooks(r, p) ==
  /\ status # "none" /\ p = password /\ MaySignIn
  /\ Begin(r, "open", p)
  /\ UNCHANGED <<rows, past>>

\* createRefreshToken, the end of every sign-in.
Open(r) ==
  /\ At(r, "open")
  /\ \E s \in Session : /\ session[s].state = "none"
                        /\ session' = [session EXCEPT ![s] = [@ EXCEPT !.state = "live", !.since = req[r].since]]
  /\ Goes(r, "done")
  /\ UNCHANGED <<status, role, password, invited, link, past>>

\* refresh: the row is found, deleted (which throws if it is gone) and
\* another is made; the status is not looked at.
RefreshLooks(r, s) ==
  /\ IsNew(r) /\ Live(s) /\ ~session[s].expired
  /\ req' = [req EXCEPT ![r] = [@ EXCEPT !.pc = "rotate", !.session = s, !.since = session[s].since]]
  /\ UNCHANGED <<rows, past>>

RefreshRotates(r) ==
  /\ At(r, "rotate")
  /\ IF Live(req[r].session)
       THEN session' = [session EXCEPT ![req[r].session].state = "gone"] /\ Goes(r, "open")
       ELSE Goes(r, "died") /\ UNCHANGED session
  /\ UNCHANGED <<status, role, password, invited, link, past>>

----------------------------------------------------------------------------
ForgotLooks(r) ==
  /\ status # "none" /\ Begin(r, "mail", Temp)
  /\ UNCHANGED <<rows, past>>

\* Whether the mail arrives makes no difference here: a link nobody got is
\* one nobody uses.
ForgotWrites(r) ==
  /\ At(r, "mail")
  /\ \E l \in Link : /\ link[l].kind = "none"
                     /\ link' = [link EXCEPT ![l] = [Unmade EXCEPT !.kind = "reset"]]
  /\ Goes(r, "done")
  /\ UNCHANGED <<status, role, password, invited, session, past>>

\* Slip: links are checked for their age only.
UsableWhileFresh(row) == ~row.expired

Usable(row) == ~row.used /\ ~row.expired

\* resetPassword and activate look the link up, hash the password, and write
\* the password and usedAt in one transaction that does not look again.
LinkLooks(r, l, p) ==
  /\ IsNew(r) /\ link[l].kind # "none" /\ Usable(link[l])
  /\ req' = [req EXCEPT ![r] = [@ EXCEPT !.pc = IF link[l].kind = "reset" THEN "reset" ELSE "activate",
                                         !.password = p, !.link = l, !.since = times]]
  /\ overlap' = IF \E o \in Request : req[o].pc \in {"reset", "activate"} /\ req[o].link = l
                  THEN overlap \cup {l} ELSE overlap
  /\ UNCHANGED <<rows, times, uses>>

Spend(l) == /\ link' = [link EXCEPT ![l].used = TRUE]
            /\ uses' = [uses EXCEPT ![l] = @ + 1]

ResetWrites(r) ==
  /\ At(r, "reset")
  /\ password' = req[r].password /\ Spend(req[r].link)
  /\ Goes(r, "done")
  /\ UNCHANGED <<status, role, invited, session, times, overlap>>

ActivateWrites(r) ==
  /\ At(r, "activate")
  /\ password' = req[r].password /\ status' = ActivatedStatus /\ Spend(req[r].link)
  /\ Goes(r, "open")
  /\ UNCHANGED <<role, invited, session, times, overlap>>

----------------------------------------------------------------------------
\* suspendDistributor: only a user with a distributor profile is found.
CanBeSuspended == role = "DISTRIBUTOR"

Suspend ==
  /\ CanBeSuspended /\ status # "SUSPENDED" /\ times < MaxTimes
  /\ status' = "SUSPENDED" /\ times' = times + 1
  /\ UNCHANGED <<role, password, invited, link, session, req, uses, overlap>>

Unsuspend ==
  /\ CanBeSuspended /\ status = "SUSPENDED"
  /\ status' = "ACTIVE"
  /\ UNCHANGED <<role, password, invited, link, session, req, past>>

\* A reset link lasts an hour, an activation link and a session seven days.
LinkExpires(l) ==
  /\ link[l].kind # "none" /\ Usable(link[l])
  /\ link' = [link EXCEPT ![l].expired = TRUE]
  /\ UNCHANGED <<status, role, password, invited, session, req, past>>

SessionExpires(s) ==
  /\ Live(s) /\ ~session[s].expired
  /\ session' = [session EXCEPT ![s].expired = TRUE]
  /\ UNCHANGED <<status, role, password, invited, link, req, past>>

AccountsNext ==
  \/ \E r \in Request :
       \/ \E as \in {"CUSTOMER", "DISTRIBUTOR"}, p \in Password : RegisterLooks(r, as, p)
       \/ RegisterWrites(r) \/ CreateThrows(r)
       \/ InviteLooks(r) \/ InviteWrites(r) \/ InviteJoins(r) \/ InviteSends(r)
       \/ \E p \in Password : LoginLooks(r, p)
       \/ \E s \in Session : RefreshLooks(r, s)
       \/ RefreshRotates(r) \/ Open(r)
       \/ ForgotLooks(r) \/ ForgotWrites(r)
       \/ \E l \in Link, p \in Password : LinkLooks(r, l, p)
       \/ ResetWrites(r) \/ ActivateWrites(r)
       \/ Die(r)
  \/ Suspend \/ Unsuspend
  \/ \E l \in Link : LinkExpires(l)
  \/ \E s \in Session : SessionExpires(s)

AccountsSpec == AccountsInit /\ [][AccountsNext]_accountsVars

----------------------------------------------------------------------------
\* refresh never asks whether the user is suspended, and a suspension leaves
\* the refresh tokens alone.  What holds all the same: each session of a
\* suspended user goes back to a sign-in that looked him up before the latest
\* suspension, so a suspension bars whoever is not signed in already.
SuspendedSessionsAreOld ==
  status = "SUSPENDED" => \A s \in Session : Live(s) => session[s].since < times

\* The three writes of createCustomer are no transaction.  A customer whose
\* account is pending has an activation link, used or not, unless the request
\* that makes him is still under way or died half-way; nothing sends another.
UnreachableIsExplained ==
  status = "PENDING" =>
    \/ \E l \in Link : link[l].kind = "activation"
    \/ \E r \in Request : req[r].pc \in Inviting \cup {"halfway"}

\* login lets a pending account in.  As nobody knows the first password, one
\* is signed in only after a reset link was used before the activation link.
PendingSignsInByReset ==
  (status = "PENDING" /\ \E s \in Session : Live(s))
     => \E l \in Link : link[l].kind = "reset" /\ link[l].used

\* usedAt is read before the password is hashed and written after.  A link
\* sets a password twice only when two requests held it at once.
LinkTwiceNeedsOverlap == \A l \in Link : uses[l] > 1 => l \in overlap

=============================================================================
