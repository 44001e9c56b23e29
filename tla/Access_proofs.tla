--------------------------- MODULE Access_proofs ---------------------------
(***************************************************************************)
(* Proofs about who gets in: Accounts, for any requests, links and         *)
(* sessions, and Session, for any tabs, calls, streams and number of       *)
(* pairs.                                                                  *)
(***************************************************************************)
EXTENDS Accounts, Session, SequenceTheorems, TLAPS

-----------------------------------------------------------------------------
(***************************************************************************)
(* Proofs about Accounts, for any requests, links and sessions.            *)
(*                                                                         *)
(* The invariant says what a request may still rely on after its first     *)
(* query: before there is a row nothing hangs on it (Fresh); no look-up    *)
(* lies after the last suspension, and while one lasts all that signs in   *)
(* goes back to before it (Ages); links and requests are of the kind of    *)
(* account they were made for, so that an activation never meets a         *)
(* suspended account (Roles, Held); how a pending account came by          *)
(* a password (Unasked); and who holds which link (Links).                 *)
(***************************************************************************)

Early == {"new", "register", "invite", "died"}

SigningIn == {"open", "rotate"}

Holding == {"reset", "activate"}

Holds(r, l) == req[r].pc \in Holding /\ req[r].link = l

ResetUsed == \E l \in Link : link[l].kind = "reset" /\ link[l].used

Fresh ==
  status = "none" =>
    /\ \A l \in Link : link[l].kind = "none"
    /\ \A s \in Session : session[s].state = "none"
    /\ \A r \in Request : req[r].pc \in Early

Ages ==
  /\ \A s \in Session : session[s].since <= times
  /\ \A r \in Request : req[r].since <= times
  /\ status = "SUSPENDED" =>
       /\ \A s \in Session : Live(s) => session[s].since < times
       /\ \A r \in Request : req[r].pc \in SigningIn => req[r].since < times

Roles ==
  /\ status = "SUSPENDED" => role = "DISTRIBUTOR"
  /\ \A l \in Link : link[l].kind = "activation" => role = "CUSTOMER"
  /\ \A r \in Request : req[r].pc \in Inviting \cup {"activate"} => role = "CUSTOMER"

Held ==
  \A r \in Request :
    /\ req[r].pc = "reset" => req[r].link \in Link /\ link[req[r].link].kind = "reset"
    /\ req[r].pc = "activate" => req[r].link \in Link /\ link[req[r].link].kind = "activation"
    /\ req[r].pc = "rotate" => req[r].session \in Session

Unasked ==
  status = "PENDING" =>
    /\ password = Temp \/ ResetUsed
    /\ (\E s \in Session : Live(s)) => ResetUsed
    /\ (\E r \in Request : req[r].pc \in SigningIn) => ResetUsed

Links ==
  \A l \in Link :
    /\ uses[l] > 0 => link[l].used /\ link[l].kind # "none"
    /\ uses[l] > 1 => l \in overlap
    /\ \A r \in Request : Holds(r, l) /\ uses[l] > 0 => l \in overlap
    /\ \A r, q \in Request : r # q /\ Holds(r, l) /\ Holds(q, l) => l \in overlap

AccountsInv ==
  /\ AccountsTypeOK /\ Fresh /\ Ages /\ Roles /\ Held /\ Unasked /\ UnreachableIsExplained /\ Links

(***************************************************************************)
(* Types.                                                                  *)
(***************************************************************************)
LEMMA GoesTyped ==
  ASSUME req \in [Request -> RequestState], NEW r \in Request, NEW pc \in Step, Goes(r, pc)
  PROVE  req' \in [Request -> RequestState]
<1>1. [req[r] EXCEPT !.pc = pc] \in RequestState
  <2>1. req[r] \in RequestState
    OBVIOUS
  <2> QED
    BY <2>1 DEF RequestState
<1>2. req' = [req EXCEPT ![r] = [req[r] EXCEPT !.pc = pc]]
  BY DEF Goes
<1> QED
  BY <1>1, <1>2

LEMMA BeginTyped ==
  ASSUME AccountsTypeOK, NEW r \in Request, NEW pc \in Step, NEW p \in Password \cup {Temp}, Begin(r, pc, p)
  PROVE  req' \in [Request -> RequestState]
<1> DEFINE k == [req[r] EXCEPT !.pc = pc, !.password = p, !.since = times]
<1>1. req[r] \in RequestState /\ times \in Nat
  BY DEF AccountsTypeOK
<1>2. k \in RequestState
  BY <1>1 DEF RequestState
<1>3. req' = [req EXCEPT ![r] = k]
  BY DEF Begin
<1> QED
  BY <1>2, <1>3 DEF AccountsTypeOK

LEMMA LinkMadeTyped ==
  ASSUME AccountsTypeOK, NEW l \in Link, NEW kind \in {"reset", "activation"},
         link' = [link EXCEPT ![l] = [Unmade EXCEPT !.kind = kind]]
  PROVE  link' \in [Link -> LinkRow]
<1>1. [Unmade EXCEPT !.kind = kind] \in LinkRow
  BY DEF Unmade, LinkRow
<1> QED
  BY <1>1 DEF AccountsTypeOK

LEMMA SpendTyped ==
  ASSUME AccountsTypeOK, NEW l \in Link, Spend(l)
  PROVE  link' \in [Link -> LinkRow] /\ uses' \in [Link -> Nat]
<1>1. [link[l] EXCEPT !.used = TRUE] \in LinkRow
  BY DEF AccountsTypeOK, LinkRow
<1>2. link' = [link EXCEPT ![l] = [link[l] EXCEPT !.used = TRUE]]
  BY DEF Spend
<1>3. uses' \in [Link -> Nat]
  BY DEF Spend, AccountsTypeOK
<1> QED
  BY <1>1, <1>2, <1>3 DEF AccountsTypeOK
(***************************************************************************)
(* Every step keeps the invariant.                                         *)
(***************************************************************************)
LEMMA RegisterLooksTyped ==
  ASSUME AccountsInv, NEW r \in Request, NEW as \in {"CUSTOMER", "DISTRIBUTOR"}, NEW p \in Password, RegisterLooks(r, as, p)
  PROVE  AccountsTypeOK'
<1> DEFINE k == [req[r] EXCEPT !.pc = "register", !.role = as, !.password = p]
<1>1. req[r] \in RequestState
  BY DEF AccountsInv, AccountsTypeOK
<1>2. k \in RequestState
  BY <1>1 DEF RequestState, Step
<1>3. req' = [req EXCEPT ![r] = k]
  BY DEF RegisterLooks
<1> QED
  BY <1>2, <1>3 DEF AccountsInv, AccountsTypeOK, RegisterLooks, rows, past

LEMMA RegisterWritesTyped ==
  ASSUME AccountsInv, NEW r \in Request, RegisterWrites(r)
  PROVE  AccountsTypeOK'
<1> DEFINE k == [req[r] EXCEPT !.pc = "open", !.since = times]
<1>1. req[r] \in RequestState /\ times \in Nat
  BY DEF AccountsInv, AccountsTypeOK
<1>2. k \in RequestState
  BY <1>1 DEF RequestState, Step
<1>3. req' = [req EXCEPT ![r] = k]
  BY DEF RegisterWrites
<1>4. req[r].role \in {"none", "CUSTOMER", "DISTRIBUTOR"} /\ req[r].password \in Password \cup {Temp}
  BY <1>1 DEF RequestState
<1> QED
  BY <1>2, <1>3, <1>4 DEF AccountsInv, AccountsTypeOK, RegisterWrites, RegisteredStatus, past

LEMMA CreateThrowsTyped ==
  ASSUME AccountsInv, NEW r \in Request, CreateThrows(r)
  PROVE  AccountsTypeOK'
<1>1. req' \in [Request -> RequestState]
  BY GoesTyped DEF AccountsInv, AccountsTypeOK, CreateThrows, Step
<1> QED
  BY <1>1 DEF AccountsInv, AccountsTypeOK, CreateThrows, rows, past

LEMMA InviteLooksTyped ==
  ASSUME AccountsInv, NEW r \in Request, InviteLooks(r)
  PROVE  AccountsTypeOK'
<1>1. req' \in [Request -> RequestState]
  BY BeginTyped DEF AccountsInv, InviteLooks, Step
<1> QED
  BY <1>1 DEF AccountsInv, AccountsTypeOK, InviteLooks, rows, past

LEMMA InviteWritesTyped ==
  ASSUME AccountsInv, NEW r \in Request, InviteWrites(r)
  PROVE  AccountsTypeOK'
<1>1. req' \in [Request -> RequestState]
  BY GoesTyped DEF AccountsInv, AccountsTypeOK, InviteWrites, Step
<1> QED
  BY <1>1 DEF AccountsInv, AccountsTypeOK, InviteWrites, rows, past

LEMMA InviteJoinsTyped ==
  ASSUME AccountsInv, NEW r \in Request, InviteJoins(r)
  PROVE  AccountsTypeOK'
<1>1. req' \in [Request -> RequestState]
  BY GoesTyped DEF AccountsInv, AccountsTypeOK, InviteJoins, Step
<1> QED
  BY <1>1 DEF AccountsInv, AccountsTypeOK, InviteJoins, rows, past

LEMMA InviteSendsTyped ==
  ASSUME AccountsInv, NEW r \in Request, InviteSends(r)
  PROVE  AccountsTypeOK'
<1>1. req' \in [Request -> RequestState]
  BY GoesTyped DEF AccountsInv, AccountsTypeOK, InviteSends, Step
<1>2. link' \in [Link -> LinkRow]
  BY LinkMadeTyped DEF AccountsInv, InviteSends
<1> QED
  BY <1>1, <1>2 DEF AccountsInv, AccountsTypeOK, InviteSends, past

LEMMA LoginLooksTyped ==
  ASSUME AccountsInv, NEW r \in Request, NEW p \in Password, LoginLooks(r, p)
  PROVE  AccountsTypeOK'
<1>1. req' \in [Request -> RequestState]
  BY BeginTyped DEF AccountsInv, LoginLooks, Step
<1> QED
  BY <1>1 DEF AccountsInv, AccountsTypeOK, LoginLooks, rows, past

LEMMA RefreshLooksTyped ==
  ASSUME AccountsInv, NEW r \in Request, NEW s \in Session, RefreshLooks(r, s)
  PROVE  AccountsTypeOK'
<1> DEFINE k == [req[r] EXCEPT !.pc = "rotate", !.session = s, !.since = session[s].since]
<1>1. req[r] \in RequestState /\ session[s].since \in Nat
  BY DEF AccountsInv, AccountsTypeOK, SessionRow
<1>2. k \in RequestState
  BY <1>1 DEF RequestState, Step
<1>3. req' = [req EXCEPT ![r] = k]
  BY DEF RefreshLooks
<1> QED
  BY <1>2, <1>3 DEF AccountsInv, AccountsTypeOK, RefreshLooks, rows, past

LEMMA RefreshRotatesTyped ==
  ASSUME AccountsInv, NEW r \in Request, RefreshRotates(r)
  PROVE  AccountsTypeOK'
<1> DEFINE old == req[r].session
<1>1. req' \in [Request -> RequestState]
  BY GoesTyped DEF AccountsInv, AccountsTypeOK, RefreshRotates, Step
<1>2. old \in Session
  BY DEF AccountsInv, Held, RefreshRotates, At
<1>3. [session[old] EXCEPT !.state = "gone"] \in SessionRow
  BY <1>2 DEF AccountsInv, AccountsTypeOK, SessionRow
<1>4. session' \in [Session -> SessionRow]
  <2>1. CASE session' = session
    BY <2>1 DEF AccountsInv, AccountsTypeOK
  <2>2. CASE session' = [session EXCEPT ![old] = [session[old] EXCEPT !.state = "gone"]]
    BY <2>2, <1>2, <1>3 DEF AccountsInv, AccountsTypeOK
  <2> QED
    BY <2>1, <2>2 DEF RefreshRotates
<1> QED
  BY <1>1, <1>4 DEF AccountsInv, AccountsTypeOK, RefreshRotates, past

LEMMA OpenTyped ==
  ASSUME AccountsInv, NEW r \in Request, Open(r)
  PROVE  AccountsTypeOK'
<1>1. req' \in [Request -> RequestState]
  BY GoesTyped DEF AccountsInv, AccountsTypeOK, Open, Step
<1>2. PICK s \in Session : session' = [session EXCEPT ![s] = [session[s] EXCEPT !.state = "live", !.since = req[r].since]]
  BY DEF Open
<1>3. req[r].since \in Nat
  BY DEF AccountsInv, AccountsTypeOK, RequestState
<1>4. [session[s] EXCEPT !.state = "live", !.since = req[r].since] \in SessionRow
  BY <1>3 DEF AccountsInv, AccountsTypeOK, SessionRow
<1> QED
  BY <1>1, <1>2, <1>4 DEF AccountsInv, AccountsTypeOK, Open, past

LEMMA ForgotLooksTyped ==
  ASSUME AccountsInv, NEW r \in Request, ForgotLooks(r)
  PROVE  AccountsTypeOK'
<1>1. req' \in [Request -> RequestState]
  BY BeginTyped DEF AccountsInv, ForgotLooks, Step
<1> QED
  BY <1>1 DEF AccountsInv, AccountsTypeOK, ForgotLooks, rows, past

LEMMA ForgotWritesTyped ==
  ASSUME AccountsInv, NEW r \in Request, ForgotWrites(r)
  PROVE  AccountsTypeOK'
<1>1. req' \in [Request -> RequestState]
  BY GoesTyped DEF AccountsInv, AccountsTypeOK, ForgotWrites, Step
<1>2. link' \in [Link -> LinkRow]
  BY LinkMadeTyped DEF AccountsInv, ForgotWrites
<1> QED
  BY <1>1, <1>2 DEF AccountsInv, AccountsTypeOK, ForgotWrites, past

LEMMA LinkLooksTyped ==
  ASSUME AccountsInv, NEW r \in Request, NEW l \in Link, NEW p \in Password, LinkLooks(r, l, p)
  PROVE  AccountsTypeOK'
<1> DEFINE k == [req[r] EXCEPT !.pc = IF link[l].kind = "reset" THEN "reset" ELSE "activate",
                           !.password = p, !.link = l, !.since = times]
<1>1. req[r] \in RequestState /\ times \in Nat
  BY DEF AccountsInv, AccountsTypeOK
<1>2. k \in RequestState
  BY <1>1 DEF RequestState, Step
<1>3. req' = [req EXCEPT ![r] = k]
  BY DEF LinkLooks
<1> QED
  BY <1>2, <1>3 DEF AccountsInv, AccountsTypeOK, LinkLooks, rows

LEMMA ResetWritesTyped ==
  ASSUME AccountsInv, NEW r \in Request, ResetWrites(r)
  PROVE  AccountsTypeOK'
<1>1. req' \in [Request -> RequestState]
  BY GoesTyped DEF AccountsInv, AccountsTypeOK, ResetWrites, Step
<1>2. req[r].link \in Link
  BY DEF AccountsInv, Held, ResetWrites, At
<1>3. link' \in [Link -> LinkRow] /\ uses' \in [Link -> Nat]
  BY <1>2, SpendTyped DEF AccountsInv, ResetWrites
<1>4. req[r].password \in Password \cup {Temp}
  BY DEF AccountsInv, AccountsTypeOK, RequestState
<1> QED
  BY <1>1, <1>3, <1>4 DEF AccountsInv, AccountsTypeOK, ResetWrites

LEMMA ActivateWritesTyped ==
  ASSUME AccountsInv, NEW r \in Request, ActivateWrites(r)
  PROVE  AccountsTypeOK'
<1>1. req' \in [Request -> RequestState]
  BY GoesTyped DEF AccountsInv, AccountsTypeOK, ActivateWrites, Step
<1>2. req[r].link \in Link
  BY DEF AccountsInv, Held, ActivateWrites, At
<1>3. link' \in [Link -> LinkRow] /\ uses' \in [Link -> Nat]
  BY <1>2, SpendTyped DEF AccountsInv, ActivateWrites
<1>4. req[r].password \in Password \cup {Temp}
  BY DEF AccountsInv, AccountsTypeOK, RequestState
<1> QED
  BY <1>1, <1>3, <1>4 DEF AccountsInv, AccountsTypeOK, ActivateWrites, ActivatedStatus

LEMMA DieTyped ==
  ASSUME AccountsInv, NEW r \in Request, Die(r)
  PROVE  AccountsTypeOK'
<1>1. req' \in [Request -> RequestState]
  BY GoesTyped DEF AccountsInv, AccountsTypeOK, Die, Step, Inviting
<1> QED
  BY <1>1 DEF AccountsInv, AccountsTypeOK, Die, rows, past

LEMMA SuspendTyped ==
  ASSUME AccountsInv, Suspend
  PROVE  AccountsTypeOK'
  BY AccountsAssumption DEF AccountsInv, AccountsTypeOK, Suspend, past

LEMMA UnsuspendTyped ==
  ASSUME AccountsInv, Unsuspend
  PROVE  AccountsTypeOK'
  BY AccountsAssumption DEF AccountsInv, AccountsTypeOK, Unsuspend, past

LEMMA LinkExpiresTyped ==
  ASSUME AccountsInv, NEW l \in Link, LinkExpires(l)
  PROVE  AccountsTypeOK'
<1>1. [link[l] EXCEPT !.expired = TRUE] \in LinkRow
  BY DEF AccountsInv, AccountsTypeOK, LinkRow
<1>2. link' = [link EXCEPT ![l] = [link[l] EXCEPT !.expired = TRUE]]
  BY DEF LinkExpires
<1> QED
  BY <1>1, <1>2 DEF AccountsInv, AccountsTypeOK, LinkExpires, past

LEMMA SessionExpiresTyped ==
  ASSUME AccountsInv, NEW s \in Session, SessionExpires(s)
  PROVE  AccountsTypeOK'
<1>1. [session[s] EXCEPT !.expired = TRUE] \in SessionRow
  BY DEF AccountsInv, AccountsTypeOK, SessionRow
<1>2. session' = [session EXCEPT ![s] = [session[s] EXCEPT !.expired = TRUE]]
  BY DEF SessionExpires
<1> QED
  BY <1>1, <1>2 DEF AccountsInv, AccountsTypeOK, SessionExpires, past

LEMMA RegisterLooksKeeps ==
  ASSUME AccountsInv, NEW r \in Request, NEW as \in {"CUSTOMER", "DISTRIBUTOR"}, NEW p \in Password, RegisterLooks(r, as, p)
  PROVE  AccountsInv'
<1> USE DEF AccountsInv, AccountsTypeOK, LinkRow, SessionRow, RequestState, Step, RegisterLooks, IsNew,
     rows, past
<1>1. AccountsTypeOK'
  BY RegisterLooksTyped
<1>2. Fresh'
  BY DEF Fresh, Early
<1>3. Ages'
  BY DEF Ages, SigningIn
<1>4. Roles'
  BY DEF Roles, Inviting
<1>5. Held'
  BY DEF Held
<1>6. Unasked'
  BY DEF Unasked, ResetUsed, SigningIn
<1>7. UnreachableIsExplained'
  BY DEF UnreachableIsExplained, Inviting
<1>8. Links'
  BY DEF Links, Holds, Holding
<1> QED
  BY <1>1, <1>2, <1>3, <1>4, <1>5, <1>6, <1>7, <1>8

LEMMA RegisterWritesKeeps ==
  ASSUME AccountsInv, NEW r \in Request, RegisterWrites(r)
  PROVE  AccountsInv'
<1> USE DEF AccountsInv, AccountsTypeOK, LinkRow, SessionRow, RequestState, Step, RegisterWrites, At,
     RegisteredStatus, rows, past
<1>1. AccountsTypeOK'
  BY RegisterWritesTyped
<1>2. Fresh'
  BY DEF Fresh, Early
<1>3. Ages'
  BY DEF Ages, SigningIn
<1>4. Roles'
  BY DEF Roles, Inviting, Fresh, Held, Early
<1>5. Held'
  BY DEF Held
<1>6. Unasked'
  BY DEF Unasked, ResetUsed, SigningIn
<1>7. UnreachableIsExplained'
  BY DEF UnreachableIsExplained, Inviting
<1>8. Links'
  BY DEF Links, Holds, Holding
<1> QED
  BY <1>1, <1>2, <1>3, <1>4, <1>5, <1>6, <1>7, <1>8

LEMMA CreateThrowsKeeps ==
  ASSUME AccountsInv, NEW r \in Request, CreateThrows(r)
  PROVE  AccountsInv'
<1> USE DEF AccountsInv, AccountsTypeOK, LinkRow, SessionRow, RequestState, Step, CreateThrows, Goes,
     rows, past
<1>1. AccountsTypeOK'
  BY CreateThrowsTyped
<1>2. Fresh'
  BY DEF Fresh, Early
<1>3. Ages'
  BY DEF Ages, Live, SigningIn, Roles, Fresh, Held
<1>4. Roles'
  BY DEF Roles, Inviting
<1>5. Held'
  BY DEF Held
<1>6. Unasked'
  BY DEF Unasked, ResetUsed, SigningIn, Live, Fresh, Held, Early
<1>7. UnreachableIsExplained'
  BY DEF UnreachableIsExplained, Inviting
<1>8. Links'
  BY DEF Links, Holds, Holding
<1> QED
  BY <1>1, <1>2, <1>3, <1>4, <1>5, <1>6, <1>7, <1>8

LEMMA InviteLooksKeeps ==
  ASSUME AccountsInv, NEW r \in Request, InviteLooks(r)
  PROVE  AccountsInv'
<1> USE DEF AccountsInv, AccountsTypeOK, LinkRow, SessionRow, RequestState, Step, InviteLooks, Begin,
     IsNew, rows, past
<1>1. AccountsTypeOK'
  BY InviteLooksTyped
<1>2. Fresh'
  BY DEF Fresh, Early
<1>3. Ages'
  BY DEF Ages, SigningIn
<1>4. Roles'
  BY DEF Roles, Inviting
<1>5. Held'
  BY DEF Held
<1>6. Unasked'
  BY DEF Unasked, ResetUsed, SigningIn
<1>7. UnreachableIsExplained'
  BY DEF UnreachableIsExplained, Inviting
<1>8. Links'
  BY DEF Links, Holds, Holding
<1> QED
  BY <1>1, <1>2, <1>3, <1>4, <1>5, <1>6, <1>7, <1>8

LEMMA InviteWritesKeeps ==
  ASSUME AccountsInv, NEW r \in Request, InviteWrites(r)
  PROVE  AccountsInv'
<1> USE DEF AccountsInv, AccountsTypeOK, LinkRow, SessionRow, RequestState, Step, InviteWrites, At, Goes,
     rows, past
<1>1. AccountsTypeOK'
  BY InviteWritesTyped
<1>2. Fresh'
  BY DEF Fresh, Early
<1>3. Ages'
  BY DEF Ages, SigningIn
<1>4. Roles'
  BY DEF Roles, Inviting
<1>5. Held'
  BY DEF Held
<1>6. Unasked'
  BY ZenonT(30) DEF Unasked, ResetUsed, SigningIn, Live, Fresh, Held, Early
<1>7. UnreachableIsExplained'
  BY DEF UnreachableIsExplained, Inviting
<1>8. Links'
  BY DEF Links, Holds, Holding
<1> QED
  BY <1>1, <1>2, <1>3, <1>4, <1>5, <1>6, <1>7, <1>8

LEMMA InviteJoinsKeeps ==
  ASSUME AccountsInv, NEW r \in Request, InviteJoins(r)
  PROVE  AccountsInv'
<1> USE DEF AccountsInv, AccountsTypeOK, LinkRow, SessionRow, RequestState, Step, InviteJoins, At, Goes,
     rows, past
<1>1. AccountsTypeOK'
  BY InviteJoinsTyped
<1>2. Fresh'
  BY DEF Fresh, Early
<1>3. Ages'
  BY DEF Ages, Live, SigningIn, Roles, Fresh, Held
<1>4. Roles'
  BY DEF Roles, Inviting
<1>5. Held'
  BY DEF Held
<1>6. Unasked'
  BY DEF Unasked, ResetUsed, SigningIn, Live, Fresh, Held, Early
<1>7. UnreachableIsExplained'
  BY DEF UnreachableIsExplained, Inviting
<1>8. Links'
  BY DEF Links, Holds, Holding
<1> QED
  BY <1>1, <1>2, <1>3, <1>4, <1>5, <1>6, <1>7, <1>8

LEMMA InviteSendsKeeps ==
  ASSUME AccountsInv, NEW r \in Request, InviteSends(r)
  PROVE  AccountsInv'
<1> USE DEF AccountsInv, AccountsTypeOK, LinkRow, SessionRow, RequestState, Step, InviteSends, At, Goes,
     Unmade, rows, past
<1>1. AccountsTypeOK'
  BY InviteSendsTyped
<1>2. Fresh'
  BY DEF Fresh, Early
<1>3. Ages'
  BY DEF Ages, Live, SigningIn, Roles, Fresh, Held
<1>4. Roles'
  BY DEF Roles, Inviting
<1>5. Held'
  BY DEF Held
<1>6. Unasked'
  BY DEF Unasked, ResetUsed, SigningIn, Live, Fresh, Held, Early
<1>7. UnreachableIsExplained'
  BY DEF UnreachableIsExplained, Inviting
<1>8. Links'
  BY DEF Links, Holds, Holding
<1> QED
  BY <1>1, <1>2, <1>3, <1>4, <1>5, <1>6, <1>7, <1>8

LEMMA LoginLooksKeeps ==
  ASSUME AccountsInv, NEW r \in Request, NEW p \in Password, LoginLooks(r, p)
  PROVE  AccountsInv'
<1> USE DEF AccountsInv, AccountsTypeOK, LinkRow, SessionRow, RequestState, Step, LoginLooks, Begin,
     IsNew, MaySignIn, rows, past
<1>1. AccountsTypeOK'
  BY LoginLooksTyped
<1>2. Fresh'
  BY DEF Fresh, Early
<1>3. Ages'
  BY DEF Ages, SigningIn
<1>4. Roles'
  BY DEF Roles, Inviting
<1>5. Held'
  BY DEF Held
<1>6. Unasked'
  BY AccountsAssumption DEF Unasked, ResetUsed, SigningIn, Live, Fresh, Held, Early
<1>7. UnreachableIsExplained'
  BY DEF UnreachableIsExplained, Inviting
<1>8. Links'
  BY DEF Links, Holds, Holding
<1> QED
  BY <1>1, <1>2, <1>3, <1>4, <1>5, <1>6, <1>7, <1>8

LEMMA RefreshLooksKeeps ==
  ASSUME AccountsInv, NEW r \in Request, NEW s \in Session, RefreshLooks(r, s)
  PROVE  AccountsInv'
<1> USE DEF AccountsInv, AccountsTypeOK, LinkRow, SessionRow, RequestState, Step, RefreshLooks, IsNew,
     Live, rows, past
<1>1. AccountsTypeOK'
  BY RefreshLooksTyped
<1>2. Fresh'
  BY DEF Fresh, Early
<1>3. Ages'
  BY DEF Ages, SigningIn
<1>4. Roles'
  BY DEF Roles, Inviting
<1>5. Held'
  BY DEF Held
<1>6. Unasked'
  BY DEF Unasked, ResetUsed, SigningIn
<1>7. UnreachableIsExplained'
  BY DEF UnreachableIsExplained, Inviting
<1>8. Links'
  BY DEF Links, Holds, Holding
<1> QED
  BY <1>1, <1>2, <1>3, <1>4, <1>5, <1>6, <1>7, <1>8

LEMMA RefreshRotatesKeeps ==
  ASSUME AccountsInv, NEW r \in Request, RefreshRotates(r)
  PROVE  AccountsInv'
<1>1. AccountsTypeOK'
  BY RefreshRotatesTyped
<1>2. UNCHANGED <<status, role, password, invited, link, times, uses, overlap>>
  BY DEF RefreshRotates, past
<1>3. /\ req[r].pc = "rotate" /\ req'[r].pc \in {"open", "died"} /\ req'[r].since = req[r].since
      /\ \A q \in Request : q # r => req'[q] = req[q]
  BY DEF RefreshRotates, At, Goes, AccountsInv, AccountsTypeOK, RequestState
<1>4. \A s \in Session : session'[s].since = session[s].since /\ (Live(s)' => Live(s))
  <2>1. req[r].session \in Session
    BY <1>3 DEF AccountsInv, Held
  <2>2. CASE UNCHANGED session
    BY <2>2 DEF Live
  <2>3. CASE session' = [session EXCEPT ![req[r].session].state = "gone"]
    BY <2>1, <2>3 DEF Live, AccountsInv, AccountsTypeOK, SessionRow
  <2> QED
    BY <2>2, <2>3 DEF RefreshRotates
<1>5. Fresh'
  BY <1>2, <1>3 DEF AccountsInv, Fresh, Early
<1>6. Ages'
  BY <1>2, <1>3, <1>4 DEF AccountsInv, Ages, SigningIn
<1>7. Roles' /\ Held' /\ UnreachableIsExplained'
  BY <1>2, <1>3 DEF AccountsInv, Roles, Held, UnreachableIsExplained, Inviting
<1>8. Unasked'
  BY <1>2, <1>3, <1>4 DEF AccountsInv, Unasked, ResetUsed, SigningIn
<1>9. Links'
  BY <1>2, <1>3 DEF AccountsInv, Links, Holds, Holding
<1> QED
  BY <1>1, <1>5, <1>6, <1>7, <1>8, <1>9 DEF AccountsInv

LEMMA OpenKeeps ==
  ASSUME AccountsInv, NEW r \in Request, Open(r)
  PROVE  AccountsInv'
<1> USE DEF AccountsInv, AccountsTypeOK, LinkRow, SessionRow, RequestState, Step, Open, At, Goes, Live,
     rows, past
<1>1. AccountsTypeOK'
  BY OpenTyped
<1>2. Fresh'
  BY DEF Fresh, Early
<1>3. Ages'
  BY DEF Ages, SigningIn
<1>4. Roles'
  BY DEF Roles, Inviting
<1>5. Held'
  BY DEF Held
<1>6. Unasked'
  BY DEF Unasked, ResetUsed, SigningIn
<1>7. UnreachableIsExplained'
  BY DEF UnreachableIsExplained, Inviting
<1>8. Links'
  BY DEF Links, Holds, Holding
<1> QED
  BY <1>1, <1>2, <1>3, <1>4, <1>5, <1>6, <1>7, <1>8

LEMMA ForgotLooksKeeps ==
  ASSUME AccountsInv, NEW r \in Request, ForgotLooks(r)
  PROVE  AccountsInv'
<1> USE DEF AccountsInv, AccountsTypeOK, LinkRow, SessionRow, RequestState, Step, ForgotLooks, Begin,
     IsNew, rows, past
<1>1. AccountsTypeOK'
  BY ForgotLooksTyped
<1>2. Fresh'
  BY DEF Fresh, Early
<1>3. Ages'
  BY DEF Ages, Live, SigningIn, Roles, Fresh, Held
<1>4. Roles'
  BY DEF Roles, Inviting
<1>5. Held'
  BY DEF Held
<1>6. Unasked'
  BY DEF Unasked, ResetUsed, SigningIn, Live, Fresh, Held, Early
<1>7. UnreachableIsExplained'
  BY DEF UnreachableIsExplained, Inviting
<1>8. Links'
  BY DEF Links, Holds, Holding
<1> QED
  BY <1>1, <1>2, <1>3, <1>4, <1>5, <1>6, <1>7, <1>8

LEMMA ForgotWritesKeeps ==
  ASSUME AccountsInv, NEW r \in Request, ForgotWrites(r)
  PROVE  AccountsInv'
<1> USE DEF AccountsInv, AccountsTypeOK, LinkRow, SessionRow, RequestState, Step, ForgotWrites, At, Goes,
     Unmade, rows, past
<1>1. AccountsTypeOK'
  BY ForgotWritesTyped
<1>2. Fresh'
  BY DEF Fresh, Early
<1>3. Ages'
  BY DEF Ages, Live, SigningIn, Roles, Fresh, Held
<1>4. Roles'
  BY DEF Roles, Inviting
<1>5. Held'
  BY DEF Held
<1>6. Unasked'
  BY DEF Unasked, ResetUsed, SigningIn, Live, Fresh, Held, Early
<1>7. UnreachableIsExplained'
  BY DEF UnreachableIsExplained, Inviting
<1>8. Links'
  BY DEF Links, Holds, Holding
<1> QED
  BY <1>1, <1>2, <1>3, <1>4, <1>5, <1>6, <1>7, <1>8

LEMMA LinkLooksKeeps ==
  ASSUME AccountsInv, NEW r \in Request, NEW l \in Link, NEW p \in Password, LinkLooks(r, l, p)
  PROVE  AccountsInv'
<1> USE DEF AccountsInv, AccountsTypeOK, LinkRow, SessionRow, RequestState, Step, LinkLooks, IsNew,
     Usable, rows, past
<1>1. AccountsTypeOK'
  BY LinkLooksTyped
<1>2. Fresh'
  BY DEF Fresh, Early
<1>3. Ages'
  BY DEF Ages, Live, SigningIn, Roles, Fresh, Held
<1>4. Roles'
  BY DEF Roles, Inviting
<1>5. Held'
  BY DEF Held
<1>6. Unasked'
  BY DEF Unasked, ResetUsed, SigningIn, Live, Fresh, Held, Early
<1>7. UnreachableIsExplained'
  BY DEF UnreachableIsExplained, Inviting
<1>8. Links'
  BY DEF Links, Holds, Holding
<1> QED
  BY <1>1, <1>2, <1>3, <1>4, <1>5, <1>6, <1>7, <1>8

LEMMA ResetWritesKeeps ==
  ASSUME AccountsInv, NEW r \in Request, ResetWrites(r)
  PROVE  AccountsInv'
<1> USE DEF AccountsInv, AccountsTypeOK, LinkRow, SessionRow, RequestState, Step, ResetWrites, At, Goes,
     Spend, rows, past
<1>1. AccountsTypeOK'
  BY ResetWritesTyped
<1>2. Fresh'
  BY DEF Fresh, Early
<1>3. Ages'
  BY DEF Ages, Live, SigningIn, Roles, Fresh, Held
<1>4. Roles'
  BY DEF Roles, Inviting
<1>5. Held'
  BY DEF Held
<1>6. Unasked'
  BY DEF Unasked, ResetUsed, SigningIn, Live, Fresh, Held, Early
<1>7. UnreachableIsExplained'
  BY DEF UnreachableIsExplained, Inviting
<1>8. Links'
  BY DEF Links, Holds, Holding, Held, Fresh, Early
<1> QED
  BY <1>1, <1>2, <1>3, <1>4, <1>5, <1>6, <1>7, <1>8

LEMMA ActivateWritesKeeps ==
  ASSUME AccountsInv, NEW r \in Request, ActivateWrites(r)
  PROVE  AccountsInv'
<1> USE DEF AccountsInv, AccountsTypeOK, LinkRow, SessionRow, RequestState, Step, ActivateWrites, At,
     Goes, Spend, ActivatedStatus, rows, past
<1>1. AccountsTypeOK'
  BY ActivateWritesTyped
<1>2. Fresh'
  BY DEF Fresh, Early
<1>3. Ages'
  BY DEF Ages, SigningIn
<1>4. Roles'
  BY DEF Roles, Inviting
<1>5. Held'
  BY DEF Held
<1>6. Unasked'
  BY DEF Unasked, ResetUsed, SigningIn
<1>7. UnreachableIsExplained'
  BY DEF UnreachableIsExplained, Inviting
<1>8. Links'
  BY DEF Links, Holds, Holding, Held, Fresh, Early
<1> QED
  BY <1>1, <1>2, <1>3, <1>4, <1>5, <1>6, <1>7, <1>8

LEMMA DieKeeps ==
  ASSUME AccountsInv, NEW r \in Request, Die(r)
  PROVE  AccountsInv'
<1> USE DEF AccountsInv, AccountsTypeOK, LinkRow, SessionRow, RequestState, Step, Die, Goes, Ended,
     Inviting, rows, past
<1>1. AccountsTypeOK'
  BY DieTyped
<1>2. Fresh'
  BY DEF Fresh, Early
<1>3. Ages'
  BY DEF Ages, Live, SigningIn, Roles, Fresh, Held
<1>4. Roles'
  BY DEF Roles, Inviting
<1>5. Held'
  BY DEF Held
<1>6. Unasked'
  BY DEF Unasked, ResetUsed, SigningIn, Live, Fresh, Held, Early
<1>7. UnreachableIsExplained'
  BY DEF UnreachableIsExplained, Inviting
<1>8. Links'
  BY DEF Links, Holds, Holding
<1> QED
  BY <1>1, <1>2, <1>3, <1>4, <1>5, <1>6, <1>7, <1>8

LEMMA SuspendKeeps ==
  ASSUME AccountsInv, Suspend
  PROVE  AccountsInv'
<1> USE DEF AccountsInv, AccountsTypeOK, LinkRow, SessionRow, RequestState, Step, Suspend, CanBeSuspended,
     rows, past
<1>1. AccountsTypeOK'
  BY SuspendTyped
<1>2. Fresh'
  BY DEF Fresh, Early
<1>3. Ages'
  BY DEF Ages, SigningIn
<1>4. Roles'
  BY DEF Roles, Inviting
<1>5. Held'
  BY DEF Held
<1>6. Unasked'
  BY DEF Unasked, ResetUsed, SigningIn
<1>7. UnreachableIsExplained'
  BY DEF UnreachableIsExplained, Inviting
<1>8. Links'
  BY DEF Links, Holds, Holding
<1> QED
  BY <1>1, <1>2, <1>3, <1>4, <1>5, <1>6, <1>7, <1>8

LEMMA UnsuspendKeeps ==
  ASSUME AccountsInv, Unsuspend
  PROVE  AccountsInv'
<1> USE DEF AccountsInv, AccountsTypeOK, LinkRow, SessionRow, RequestState, Step, Unsuspend,
     CanBeSuspended, rows, past
<1>1. AccountsTypeOK'
  BY UnsuspendTyped
<1>2. Fresh'
  BY DEF Fresh, Early
<1>3. Ages'
  BY DEF Ages, SigningIn
<1>4. Roles'
  BY DEF Roles, Inviting
<1>5. Held'
  BY DEF Held
<1>6. Unasked'
  BY DEF Unasked, ResetUsed, SigningIn
<1>7. UnreachableIsExplained'
  BY DEF UnreachableIsExplained, Inviting
<1>8. Links'
  BY DEF Links, Holds, Holding
<1> QED
  BY <1>1, <1>2, <1>3, <1>4, <1>5, <1>6, <1>7, <1>8

LEMMA LinkExpiresKeeps ==
  ASSUME AccountsInv, NEW l \in Link, LinkExpires(l)
  PROVE  AccountsInv'
<1> USE DEF AccountsInv, AccountsTypeOK, LinkRow, SessionRow, RequestState, Step, LinkExpires, Usable,
     rows, past
<1>1. AccountsTypeOK'
  BY LinkExpiresTyped
<1>2. Fresh'
  BY DEF Fresh, Early
<1>3. Ages'
  BY DEF Ages, Live, SigningIn, Roles, Fresh, Held
<1>4. Roles'
  BY DEF Roles, Inviting
<1>5. Held'
  BY DEF Held
<1>6. Unasked'
  BY DEF Unasked, ResetUsed, SigningIn, Live, Fresh, Held, Early
<1>7. UnreachableIsExplained'
  BY DEF UnreachableIsExplained, Inviting
<1>8. Links'
  BY DEF Links, Holds, Holding
<1> QED
  BY <1>1, <1>2, <1>3, <1>4, <1>5, <1>6, <1>7, <1>8

LEMMA SessionExpiresKeeps ==
  ASSUME AccountsInv, NEW s \in Session, SessionExpires(s)
  PROVE  AccountsInv'
<1> USE DEF AccountsInv, AccountsTypeOK, LinkRow, SessionRow, RequestState, Step, SessionExpires, Live,
     rows, past
<1>1. AccountsTypeOK'
  BY SessionExpiresTyped
<1>2. Fresh'
  BY DEF Fresh, Early
<1>3. Ages'
  BY DEF Ages, SigningIn
<1>4. Roles'
  BY DEF Roles, Inviting
<1>5. Held'
  BY DEF Held
<1>6. Unasked'
  BY DEF Unasked, ResetUsed, SigningIn
<1>7. UnreachableIsExplained'
  BY DEF UnreachableIsExplained, Inviting
<1>8. Links'
  BY DEF Links, Holds, Holding
<1> QED
  BY <1>1, <1>2, <1>3, <1>4, <1>5, <1>6, <1>7, <1>8

LEMMA InitInv == AccountsInit => AccountsInv
<1> SUFFICES ASSUME AccountsInit PROVE AccountsInv
  OBVIOUS
<1> USE DEF AccountsInit, Unmade, NoSession, Waiting
<1>1. AccountsTypeOK
  <2>1. Unmade \in LinkRow /\ NoSession \in SessionRow /\ Waiting \in RequestState
    BY DEF LinkRow, SessionRow, RequestState, Step
  <2> QED
    BY <2>1, AccountsAssumption DEF AccountsTypeOK
<1>2. Fresh /\ Ages /\ Roles
  BY DEF Fresh, Ages, Roles, Early, SigningIn, Inviting, Live
<1>3. Held /\ Unasked /\ UnreachableIsExplained /\ Links
  BY DEF Held, Unasked, UnreachableIsExplained, Links, Holds, Holding
<1> QED
  BY <1>1, <1>2, <1>3 DEF AccountsInv

LEMMA NextInv == AccountsInv /\ [AccountsNext]_accountsVars => AccountsInv'
<1> SUFFICES ASSUME AccountsInv, [AccountsNext]_accountsVars PROVE AccountsInv'
  OBVIOUS
<1>1. ASSUME NEW r \in Request, NEW as \in {"CUSTOMER", "DISTRIBUTOR"}, NEW p \in Password, RegisterLooks(r, as, p) PROVE AccountsInv'
  BY <1>1, RegisterLooksKeeps
<1>2. ASSUME NEW r \in Request, RegisterWrites(r) PROVE AccountsInv'
  BY <1>2, RegisterWritesKeeps
<1>3. ASSUME NEW r \in Request, CreateThrows(r) PROVE AccountsInv'
  BY <1>3, CreateThrowsKeeps
<1>4. ASSUME NEW r \in Request, InviteLooks(r) PROVE AccountsInv'
  BY <1>4, InviteLooksKeeps
<1>5. ASSUME NEW r \in Request, InviteWrites(r) PROVE AccountsInv'
  BY <1>5, InviteWritesKeeps
<1>6. ASSUME NEW r \in Request, InviteJoins(r) PROVE AccountsInv'
  BY <1>6, InviteJoinsKeeps
<1>7. ASSUME NEW r \in Request, InviteSends(r) PROVE AccountsInv'
  BY <1>7, InviteSendsKeeps
<1>8. ASSUME NEW r \in Request, NEW p \in Password, LoginLooks(r, p) PROVE AccountsInv'
  BY <1>8, LoginLooksKeeps
<1>9. ASSUME NEW r \in Request, NEW s \in Session, RefreshLooks(r, s) PROVE AccountsInv'
  BY <1>9, RefreshLooksKeeps
<1>10. ASSUME NEW r \in Request, RefreshRotates(r) PROVE AccountsInv'
  BY <1>10, RefreshRotatesKeeps
<1>11. ASSUME NEW r \in Request, Open(r) PROVE AccountsInv'
  BY <1>11, OpenKeeps
<1>12. ASSUME NEW r \in Request, ForgotLooks(r) PROVE AccountsInv'
  BY <1>12, ForgotLooksKeeps
<1>13. ASSUME NEW r \in Request, ForgotWrites(r) PROVE AccountsInv'
  BY <1>13, ForgotWritesKeeps
<1>14. ASSUME NEW r \in Request, NEW l \in Link, NEW p \in Password, LinkLooks(r, l, p) PROVE AccountsInv'
  BY <1>14, LinkLooksKeeps
<1>15. ASSUME NEW r \in Request, ResetWrites(r) PROVE AccountsInv'
  BY <1>15, ResetWritesKeeps
<1>16. ASSUME NEW r \in Request, ActivateWrites(r) PROVE AccountsInv'
  BY <1>16, ActivateWritesKeeps
<1>17. ASSUME NEW r \in Request, Die(r) PROVE AccountsInv'
  BY <1>17, DieKeeps
<1>18. ASSUME Suspend PROVE AccountsInv'
  BY <1>18, SuspendKeeps
<1>19. ASSUME Unsuspend PROVE AccountsInv'
  BY <1>19, UnsuspendKeeps
<1>20. ASSUME NEW l \in Link, LinkExpires(l) PROVE AccountsInv'
  BY <1>20, LinkExpiresKeeps
<1>21. ASSUME NEW s \in Session, SessionExpires(s) PROVE AccountsInv'
  BY <1>21, SessionExpiresKeeps
<1>22. CASE UNCHANGED accountsVars
  BY <1>22 DEF accountsVars, rows, past, AccountsInv, AccountsTypeOK, Fresh, Ages, Roles, Held, Unasked,
     UnreachableIsExplained, Links, Live, Holds, ResetUsed
<1> QED
  BY <1>1, <1>2, <1>3, <1>4, <1>5, <1>6, <1>7, <1>8, <1>9, <1>10, <1>11, <1>12, <1>13, <1>14,
     <1>15, <1>16, <1>17, <1>18, <1>19, <1>20, <1>21, <1>22 DEF AccountsNext

THEOREM AccountsInvHolds == AccountsSpec => []AccountsInv
  BY InitInv, NextInv, PTL DEF AccountsSpec

----------------------------------------------------------------------------
\* Every variable keeps to its type (the columns of the tables, the steps of
\* the handlers), whatever the requests do.
THEOREM AccountsTypeCorrect == AccountsSpec => []AccountsTypeOK
<1>1. AccountsInv => AccountsTypeOK
  BY DEF AccountsInv
<1> QED
  BY <1>1, AccountsInvHolds, PTL

\* A suspended user has no session but those that go back to a sign-in from
\* before the suspension: login refuses him, no activation link is his, and
\* refresh only hands on what he had.
THEOREM SuspensionBarsNewcomers == AccountsSpec => []SuspendedSessionsAreOld
<1>1. AccountsInv => SuspendedSessionsAreOld
  BY DEF AccountsInv, Ages, SuspendedSessionsAreOld
<1> QED
  BY <1>1, AccountsInvHolds, PTL

\* Only a request that is under way or died between the writes of
\* createCustomer leaves a pending customer without an activation link.
THEOREM InvitationsComplete == AccountsSpec => []UnreachableIsExplained
<1>1. AccountsInv => UnreachableIsExplained
  BY DEF AccountsInv
<1> QED
  BY <1>1, AccountsInvHolds, PTL

\* A pending account is signed in only after a password reset.
THEOREM PendingNeedsReset == AccountsSpec => []PendingSignsInByReset
<1>1. AccountsInv => PendingSignsInByReset
  BY DEF AccountsInv, Unasked, ResetUsed, PendingSignsInByReset
<1> QED
  BY <1>1, AccountsInvHolds, PTL

\* A reset or activation link sets a password twice only for two requests
\* that held it at once.
THEOREM LinksAreUsedOnce == AccountsSpec => []LinkTwiceNeedsOverlap
<1>1. AccountsInv => LinkTwiceNeedsOverlap
  BY DEF AccountsInv, Links, LinkTwiceNeedsOverlap
<1> QED
  BY <1>1, AccountsInvHolds, PTL

-----------------------------------------------------------------------------
(***************************************************************************)
(* Proofs about Session, for any tabs, calls, streams and number of pairs. *)
(*                                                                         *)
(* First types (TypeCorrect).  Then, tab by tab, the queue of the          *)
(* interceptor (QueueInv) and who has a user (UserInv).  What a token buys *)
(* (OneInv) and what becomes of it once spent (TokenInv) are proved of     *)
(* kinds of steps instead of single actions: it does not matter to a token *)
(* why a request is given up, so every action that neither posts nor is a  *)
(* query of the server is either Quiet or Takes a new pair.                *)
(***************************************************************************)

USE SessionConstants DEF NoPair

States == [pc : {"idle", "sent", "queued", "open"} \cup Posting,
           tok : Pairs \cup {NoPair}, retry : BOOLEAN,
           got : Pairs \cup {NoPair}, for : Pairs \cup {NoPair}]

Row == [user : BOOLEAN, pair : Pairs \cup {NoPair}]

\* Whoever refreshes has posted the token he refreshes with.
Posted ==
  \A a \in Agent : Refreshing(a) =>
    agent[a].tok # NoPair /\ <<agent[a].tok, TabOf[a], Kind(a)>> \in presented

(***************************************************************************)
(* Types.                                                                  *)
(***************************************************************************)
\* A new pair is the next number, and the others keep theirs.
LEMMA PairAdded ==
  ASSUME origin \in Seq(0 .. MaxPairs), Len(origin) < MaxPairs, NEW n \in 0 .. MaxPairs,
         origin' = Append(origin, n)
  PROVE  /\ origin' \in Seq(0 .. MaxPairs)
         /\ Len(origin') = Len(origin) + 1 /\ Len(origin) \in Nat
         /\ Pairs' = Pairs \cup {Len(origin')}
         /\ Len(origin') \notin Pairs /\ Len(origin') # 0
         /\ origin'[Len(origin')] = n
         /\ \A m \in Pairs : origin'[m] = origin[m]
<1>1. Len(origin) \in Nat
  OBVIOUS
<1>2. Len(origin') = Len(origin) + 1
  BY <1>1
<1> QED
  BY <1>1, <1>2 DEF Pairs

\* What has its type keeps it when pairs are added.
LEMMA TypesGrow ==
  ASSUME Pairs \subseteq Pairs'
  PROVE  States \subseteq States' /\ Row \subseteq Row'
BY DEF States, Row, Posting

LEMMA TypedParts ==
  ASSUME TypeOK
  PROVE  /\ Pairs \subseteq Nat \ {0}
         /\ store \in [Tab -> Row] /\ saved \in Row /\ agent \in [Agent -> States]
<1>1. Len(origin) \in Nat
  BY DEF TypeOK
<1> QED
  BY <1>1 DEF TypeOK, States, Row, Pairs

LEMMA SetTyped ==
  ASSUME TypeOK, NEW a \in Agent, NEW k \in States, Set(a, k)
  PROVE  agent' \in [Agent -> States]
BY TypedParts DEF Set

LEMMA ClearTyped ==
  ASSUME TypeOK, NEW t \in Tab, NEW me, ClearAuth(t, me)
  PROVE  store' \in [Tab -> Row] /\ saved' \in Row /\ late' \in BOOLEAN
<1>1. Nobody \in Row
  BY DEF Nobody, Row
<1>2. late \in BOOLEAN
  BY DEF TypeOK
<1> QED
  BY <1>1, <1>2, TypedParts DEF ClearAuth

LEMMA SetTokensTyped ==
  ASSUME TypeOK, NEW t \in Tab, NEW n \in Pairs, SetTokens(t, n)
  PROVE  store' \in [Tab -> Row] /\ saved' \in Row /\ store'[t].pair = n
<1> DEFINE k == [store[t] EXCEPT !.pair = n]
<1>1. k \in Row /\ k.pair = n
  BY TypedParts DEF Row
<1>2. store' = [store EXCEPT ![t] = k] /\ saved' = store'[t]
  BY DEF SetTokens, SaveTokens
<1> HIDE DEF k
<1> QED
  BY <1>1, <1>2, TypedParts

\* A step that leaves the server's rows alone, its parts typed.
LEMMA BrowserStepTyped ==
  ASSUME TypeOK, UNCHANGED <<live, origin>>, expired' \subseteq Pairs, overdue' \subseteq Pairs,
         store' \in [Tab -> Row], saved' \in Row, agent' \in [Agent -> States],
         refreshing' \in [Tab -> BOOLEAN],
         presented' \subseteq Pairs \X Tab \X {"api", "stream"},
         lost' \subseteq Pairs, late' \in BOOLEAN
  PROVE  TypeOK'
<1>1. Pairs' = Pairs
  BY DEF Pairs
<1> QED
  BY <1>1 DEF TypeOK, States, Row

\* Such a step of one agent.
LEMMA AgentStepTyped ==
  ASSUME TypeOK, NEW a \in Agent, NEW k \in States, Set(a, k),
         UNCHANGED <<live, origin, expired, overdue, refreshing, presented>>,
         store' \in [Tab -> Row], saved' \in Row, lost' \subseteq Pairs, late' \in BOOLEAN
  PROVE  TypeOK'
<1>1. agent' \in [Agent -> States]
  BY SetTyped
<1>2. expired' \subseteq Pairs /\ overdue' \subseteq Pairs /\ refreshing' \in [Tab -> BOOLEAN]
      /\ presented' \subseteq Pairs \X Tab \X {"api", "stream"}
  BY DEF TypeOK
<1> QED
  BY <1>1, <1>2, BrowserStepTyped

LEMMA QuietAgentTyped ==
  ASSUME TypeOK, NEW a \in Agent, NEW k \in States, Set(a, k),
         UNCHANGED <<server, store, saved, refreshing, history>>
  PROVE  TypeOK'
<1>1. UNCHANGED <<live, origin, expired, overdue, refreshing, presented, store, saved, lost, late>>
  BY DEF server, history
<1>2. store' \in [Tab -> Row] /\ saved' \in Row /\ lost' \subseteq Pairs /\ late' \in BOOLEAN
  BY <1>1, TypedParts DEF TypeOK
<1> QED
  BY <1>1, <1>2, AgentStepTyped

LEMMA Tabs == \A a \in Agent : TabOf[a] \in Tab
OBVIOUS

LEMMA SimpleStates ==
  ASSUME TypeOK, NEW a \in Agent
  PROVE  /\ agent[a] \in States /\ agent[a].tok \in Pairs \cup {NoPair}
         /\ agent[a].got \in Pairs \cup {NoPair} /\ agent[a].for \in Pairs \cup {NoPair}
         /\ store[TabOf[a]].pair \in Pairs \cup {NoPair}
         /\ Idle \in States /\ To(Idle, "queued") \in States
         /\ [To(Idle, "open") EXCEPT !.for = agent[a].for] \in States
         /\ Answer(agent[a], NoPair) \in States /\ To(agent[a], "found") \in States
         /\ To(agent[a], "deleted") \in States
<1>1. agent[a] \in States /\ store[TabOf[a]] \in Row
  BY TypedParts, Tabs
<1>2. Idle \in States /\ To(Idle, "queued") \in States
  BY DEF Idle, States, To, Posting
<1>3. agent[a].for \in Pairs \cup {NoPair}
  BY <1>1 DEF States
<1>4. [To(Idle, "open") EXCEPT !.for = agent[a].for] \in States
  BY <1>3 DEF Idle, States, To, Posting
<1>5. Answer(agent[a], NoPair) \in States /\ To(agent[a], "found") \in States /\ To(agent[a], "deleted") \in States
  BY <1>1 DEF Answer, To, States, Posting
<1> QED
  BY <1>1, <1>2, <1>3, <1>4, <1>5 DEF States, Row

LEMMA SentTyped ==
  ASSUME NEW n \in Pairs \cup {NoPair}, NEW r \in BOOLEAN, NEW f \in Pairs \cup {NoPair}
  PROVE  Sent(n, r, f) \in States
BY DEF Sent, States

\* The request a refresh posts.
LEMMA PostTyped ==
  ASSUME TypeOK, NEW a \in Agent, Post(a), store[TabOf[a]].pair # NoPair
  PROVE  agent' \in [Agent -> States] /\ presented' \subseteq Pairs \X Tab \X {"api", "stream"}
<1> DEFINE n == store[TabOf[a]].pair
           r == a \in Api
           k == [agent[a] EXCEPT !.pc = "post", !.tok = n, !.retry = r]
<1>1. n \in Pairs /\ agent[a] \in States
  BY SimpleStates
<1>2. k \in States
  <2>1. r \in BOOLEAN
    OBVIOUS
  <2> HIDE DEF n, r
  <2> QED
    BY <1>1, <2>1 DEF States, Posting
<1>3. Set(a, k)
  BY DEF Post
<1> HIDE DEF k
<1>4. agent' \in [Agent -> States]
  BY <1>2, <1>3, SetTyped
<1>5. <<n, TabOf[a], Kind(a)>> \in Pairs \X Tab \X {"api", "stream"}
  BY <1>1, Tabs DEF Kind
<1> QED
  BY <1>4, <1>5 DEF Post, TypeOK

LEMMA TypedInit == Init => TypeOK
<1> SUFFICES ASSUME Init PROVE TypeOK
  OBVIOUS
<1>1. <<>> \in Seq(0 .. MaxPairs)
  OBVIOUS
<1> QED
  BY <1>1 DEF Init, TypeOK, Nobody, Idle, Pairs

LEMMA SignInTyped ==
  ASSUME TypeOK, NEW t \in Tab, SignIn(t)
  PROVE  TypeOK'
<1> DEFINE n == Len(origin')
           k == [user |-> TRUE, pair |-> n]
<1>1. origin \in Seq(0 .. MaxPairs) /\ NoPair \in 0 .. MaxPairs /\ Len(origin) < MaxPairs
  BY DEF TypeOK, SignIn
<1>2. origin' \in Seq(0 .. MaxPairs) /\ Pairs' = Pairs \cup {n}
  BY <1>1, PairAdded DEF SignIn
<1>3. States \subseteq States' /\ Row \subseteq Row' /\ k \in Row'
  BY <1>2, TypesGrow DEF Row
<1>4. store' = [store EXCEPT ![t] = k] /\ saved' = store'[t] /\ live' = live \cup {n}
  BY DEF SignIn
<1>5. store' \in [Tab -> Row'] /\ saved' \in Row'
  <2> HIDE DEF k
  <2> QED
    BY <1>3, <1>4, TypedParts
<1>6. agent' \in [Agent -> States']
  BY <1>3, TypedParts DEF SignIn
<1> HIDE DEF n
<1>7. live' \subseteq Pairs' /\ UNCHANGED <<expired, overdue, refreshing, presented, lost, late>>
  BY <1>2, <1>4 DEF TypeOK, SignIn
<1> QED
  BY <1>2, <1>5, <1>6, <1>7 DEF TypeOK, States, Row

LEMMA SignOutTyped ==
  ASSUME TypeOK, NEW t \in Tab, SignOut(t)
  PROVE  TypeOK'
<1>1. store' \in [Tab -> Row] /\ saved' \in Row /\ late' \in BOOLEAN
  BY ClearTyped DEF SignOut
<1>2. UNCHANGED <<live, origin, expired, overdue, agent, refreshing, presented, lost>>
  BY DEF SignOut, server
<1> QED
  BY <1>1, <1>2, TypedParts, BrowserStepTyped DEF TypeOK

LEMMA LoadTyped ==
  ASSUME TypeOK, Posted, NEW t \in Tab, Load(t)
  PROVE  TypeOK'
<1>1. Nobody \in Row /\ Idle \in States
  BY DEF Nobody, Row, Idle, States
<1>2. store' \in [Tab -> Row] /\ saved' \in Row
  BY <1>1, TypedParts DEF Load
<1>3. agent' \in [Agent -> States]
  BY <1>1, TypedParts DEF Load
<1>4. lost' \subseteq Pairs
  <2>1. \A x \in Of(t) : Refreshing(x) => agent[x].tok \in Pairs
    BY SimpleStates DEF Posted, Of
  <2> QED
    BY <2>1 DEF Load, TypeOK
<1>5. refreshing' \in [Tab -> BOOLEAN] /\ late' \in BOOLEAN
      /\ expired' \subseteq Pairs /\ overdue' \subseteq Pairs
  BY DEF Load, TypeOK, server
<1> QED
  BY <1>2, <1>3, <1>4, <1>5, BrowserStepTyped DEF Load, TypeOK, server

LEMMA RefreshFindTyped ==
  ASSUME TypeOK, NEW a \in Agent, RefreshFind(a)
  PROVE  TypeOK'
<1>1. a \in Agent
  BY DEF Agent
<1> DEFINE k == IF Finds(agent[a].tok) THEN To(agent[a], "found") ELSE Answer(agent[a], NoPair)
<1>2. k \in States
  BY <1>1, SimpleStates
<1>3. Set(a, k) /\ UNCHANGED <<server, store, saved, refreshing, history>>
  BY DEF RefreshFind
<1> HIDE DEF k
<1> QED
  BY <1>1, <1>2, <1>3, QuietAgentTyped

LEMMA CallTyped ==
  ASSUME TypeOK, NEW a \in Api, Call(a)
  PROVE  TypeOK'
<1>1. a \in Agent
  BY DEF Agent
<1> DEFINE k == Sent(store[TabOf[a]].pair, FALSE, NoPair)
<1>2. k \in States
  BY <1>1, SimpleStates, SentTyped
<1>3. Set(a, k) /\ UNCHANGED <<server, store, saved, refreshing, history>>
  BY DEF Call
<1> HIDE DEF k
<1> QED
  BY <1>1, <1>2, <1>3, QuietAgentTyped

LEMMA CallAnsweredTyped ==
  ASSUME TypeOK, NEW a \in Api, CallAnswered(a)
  PROVE  TypeOK'
<1>1. a \in Agent
  BY DEF Agent
<1> DEFINE k == Idle
<1>2. k \in States
  BY <1>1, SimpleStates
<1>3. Set(a, k) /\ UNCHANGED <<server, store, saved, refreshing, history>>
  BY DEF CallAnswered
<1> HIDE DEF k
<1> QED
  BY <1>1, <1>2, <1>3, QuietAgentTyped

LEMMA CallRejectedTyped ==
  ASSUME TypeOK, NEW a \in Api, CallRejected(a)
  PROVE  TypeOK'
<1>1. a \in Agent
  BY DEF Agent
<1> DEFINE k == Idle
<1>2. k \in States
  BY <1>1, SimpleStates
<1>3. Set(a, k) /\ UNCHANGED <<server, store, saved, refreshing, history>>
  BY DEF CallRejected
<1> HIDE DEF k
<1> QED
  BY <1>1, <1>2, <1>3, QuietAgentTyped

LEMMA CallQueuedTyped ==
  ASSUME TypeOK, NEW a \in Api, CallQueued(a)
  PROVE  TypeOK'
<1>1. a \in Agent
  BY DEF Agent
<1> DEFINE k == To(Idle, "queued")
<1>2. k \in States
  BY <1>1, SimpleStates
<1>3. Set(a, k) /\ UNCHANGED <<server, store, saved, refreshing, history>>
  BY DEF CallQueued
<1> HIDE DEF k
<1> QED
  BY <1>1, <1>2, <1>3, QuietAgentTyped

LEMMA ConnectTyped ==
  ASSUME TypeOK, NEW a \in Stream, Connect(a)
  PROVE  TypeOK'
<1>1. a \in Agent
  BY DEF Agent
<1> DEFINE k == Sent(store[TabOf[a]].pair, FALSE, store[TabOf[a]].pair)
<1>2. k \in States
  BY <1>1, SimpleStates, SentTyped
<1>3. Set(a, k) /\ UNCHANGED <<server, store, saved, refreshing, history>>
  BY DEF Connect
<1> HIDE DEF k
<1> QED
  BY <1>1, <1>2, <1>3, QuietAgentTyped

LEMMA ConnectedTyped ==
  ASSUME TypeOK, NEW a \in Stream, Connected(a)
  PROVE  TypeOK'
<1>1. a \in Agent
  BY DEF Agent
<1> DEFINE k == [To(Idle, "open") EXCEPT !.for = agent[a].for]
<1>2. k \in States
  BY <1>1, SimpleStates
<1>3. Set(a, k) /\ UNCHANGED <<server, store, saved, refreshing, history>>
  BY DEF Connected
<1> HIDE DEF k
<1> QED
  BY <1>1, <1>2, <1>3, QuietAgentTyped

LEMMA DisconnectedTyped ==
  ASSUME TypeOK, NEW a \in Stream, Disconnected(a)
  PROVE  TypeOK'
<1>1. a \in Agent
  BY DEF Agent
<1> DEFINE k == Idle
<1>2. k \in States
  BY <1>1, SimpleStates
<1>3. Set(a, k) /\ UNCHANGED <<server, store, saved, refreshing, history>>
  BY DEF Disconnected
<1> HIDE DEF k
<1> QED
  BY <1>1, <1>2, <1>3, QuietAgentTyped

LEMMA CallSignedOutTyped ==
  ASSUME TypeOK, NEW a \in Api, CallSignedOut(a)
  PROVE  TypeOK'
<1>1. a \in Agent
  BY DEF Agent
<1>2. Idle \in States /\ TabOf[a] \in Tab
  BY <1>1, SimpleStates
<1>3. Set(a, Idle) /\ ClearAuth(TabOf[a], {a}) /\ UNCHANGED <<live, origin, expired, overdue, refreshing, presented, lost>>
  BY DEF CallSignedOut, server
<1>4. store' \in [Tab -> Row] /\ saved' \in Row /\ late' \in BOOLEAN
  BY <1>2, <1>3, ClearTyped
<1>5. lost' \subseteq Pairs
  BY <1>3 DEF TypeOK
<1> QED
  BY <1>1, <1>2, <1>3, <1>4, <1>5, AgentStepTyped

LEMMA StreamSignedOutTyped ==
  ASSUME TypeOK, NEW a \in Stream, StreamSignedOut(a)
  PROVE  TypeOK'
<1>1. a \in Agent
  BY DEF Agent
<1>2. Idle \in States /\ TabOf[a] \in Tab
  BY <1>1, SimpleStates
<1>3. Set(a, Idle) /\ ClearAuth(TabOf[a], {a}) /\ UNCHANGED <<live, origin, expired, overdue, refreshing, presented, lost>>
  BY DEF StreamSignedOut, server
<1>4. store' \in [Tab -> Row] /\ saved' \in Row /\ late' \in BOOLEAN
  BY <1>2, <1>3, ClearTyped
<1>5. lost' \subseteq Pairs
  BY <1>3 DEF TypeOK
<1> QED
  BY <1>1, <1>2, <1>3, <1>4, <1>5, AgentStepTyped

LEMMA StreamRefreshFailedTyped ==
  ASSUME TypeOK, NEW a \in Stream, StreamRefreshFailed(a)
  PROVE  TypeOK'
<1>1. a \in Agent
  BY DEF Agent
<1>2. Idle \in States /\ TabOf[a] \in Tab
  BY <1>1, SimpleStates
<1>3. Set(a, Idle) /\ ClearAuth(TabOf[a], {a}) /\ UNCHANGED <<live, origin, expired, overdue, refreshing, presented, lost>>
  BY DEF StreamRefreshFailed, server
<1>4. store' \in [Tab -> Row] /\ saved' \in Row /\ late' \in BOOLEAN
  BY <1>2, <1>3, ClearTyped
<1>5. lost' \subseteq Pairs
  BY <1>3 DEF TypeOK
<1> QED
  BY <1>1, <1>2, <1>3, <1>4, <1>5, AgentStepTyped

LEMMA RefreshDeleteTyped ==
  ASSUME TypeOK, NEW a \in Agent, RefreshDelete(a)
  PROVE  TypeOK'
<1> DEFINE k == IF Deletes(agent[a].tok) THEN To(agent[a], "deleted") ELSE Answer(agent[a], NoPair)
<1>1. k \in States
  BY SimpleStates
<1>2. Set(a, k)
  BY DEF RefreshDelete
<1> HIDE DEF k
<1>3. agent' \in [Agent -> States]
  BY <1>1, <1>2, SetTyped
<1>4. Pairs' = Pairs /\ live' \subseteq live
  BY DEF RefreshDelete, Pairs
<1> QED
  BY <1>3, <1>4 DEF RefreshDelete, TypeOK, States, history

LEMMA RefreshCreateTyped ==
  ASSUME TypeOK, NEW a \in Agent, RefreshCreate(a)
  PROVE  TypeOK'
<1> DEFINE n == Len(origin')
           k == Answer(agent[a], n)
<1>1. origin \in Seq(0 .. MaxPairs) /\ Len(origin) < MaxPairs /\ agent[a].tok \in 0 .. MaxPairs
  <2>1. Len(origin) \in Nat /\ MaxPairs \in Nat
    BY DEF TypeOK
  <2> QED
    BY <2>1, SimpleStates DEF TypeOK, RefreshCreate, Pairs
<1>2. origin' \in Seq(0 .. MaxPairs) /\ Pairs' = Pairs \cup {n}
  BY <1>1, PairAdded DEF RefreshCreate
<1>3. States \subseteq States' /\ Row \subseteq Row'
  BY <1>2, TypesGrow
<1>4. k \in States'
  <2>1. agent[a] \in States'
    BY <1>3, SimpleStates
  <2> HIDE DEF n
  <2> QED
    BY <1>2, <2>1 DEF Answer, States, Posting
<1>5. agent' = [agent EXCEPT ![a] = k] /\ live' = live \cup {n}
  BY DEF RefreshCreate, Set
<1> HIDE DEF k, n
<1>6. agent' \in [Agent -> States']
  BY <1>3, <1>4, <1>5, TypedParts
<1>7. store' \in [Tab -> Row'] /\ saved' \in Row'
  BY <1>3, TypedParts DEF RefreshCreate
<1>8. live' \subseteq Pairs' /\ UNCHANGED <<expired, overdue, refreshing, presented, lost, late>>
  BY <1>2, <1>5 DEF TypeOK, RefreshCreate, history
<1> QED
  BY <1>2, <1>6, <1>7, <1>8 DEF TypeOK, States, Row

LEMMA RefreshLostTyped ==
  ASSUME TypeOK, Posted, NEW a \in Agent, RefreshLost(a)
  PROVE  TypeOK'
<1>1. Answer(agent[a], NoPair) \in States /\ agent[a].tok \in Pairs
  BY SimpleStates DEF Posted, RefreshLost
<1>2. Set(a, Answer(agent[a], NoPair)) /\ UNCHANGED <<live, origin, expired, overdue, store, saved, refreshing, presented, late>>
  BY DEF RefreshLost, server
<1>3. store' \in [Tab -> Row] /\ saved' \in Row /\ lost' \subseteq Pairs /\ late' \in BOOLEAN
  BY <1>1, <1>2, TypedParts DEF RefreshLost, TypeOK
<1> QED
  BY <1>1, <1>2, <1>3, AgentStepTyped

LEMMA CallRefreshesTyped ==
  ASSUME TypeOK, NEW a \in Api, CallRefreshes(a)
  PROVE  TypeOK'
<1>1. a \in Agent /\ TabOf[a] \in Tab
  BY Tabs DEF Agent
<1>2. agent' \in [Agent -> States] /\ presented' \subseteq Pairs \X Tab \X {"api", "stream"}
  BY <1>1, PostTyped DEF CallRefreshes
<1>3. refreshing' \in [Tab -> BOOLEAN] /\ UNCHANGED <<live, origin, expired, overdue, store, saved, lost, late>>
  BY <1>1 DEF CallRefreshes, server, TypeOK
<1> QED
  BY <1>2, <1>3, TypedParts, BrowserStepTyped DEF TypeOK

LEMMA StreamRefreshesTyped ==
  ASSUME TypeOK, NEW a \in Stream, StreamRefreshes(a)
  PROVE  TypeOK'
<1>1. a \in Agent
  BY DEF Agent
<1>2. agent' \in [Agent -> States] /\ presented' \subseteq Pairs \X Tab \X {"api", "stream"}
  BY <1>1, PostTyped DEF StreamRefreshes
<1>3. UNCHANGED <<live, origin, expired, overdue, store, saved, refreshing, lost, late>>
  BY DEF StreamRefreshes, server
<1> QED
  BY <1>2, <1>3, TypedParts, BrowserStepTyped DEF TypeOK

LEMMA CallRefreshedTyped ==
  ASSUME TypeOK, NEW a \in Api, CallRefreshed(a)
  PROVE  TypeOK'
<1> DEFINE t == TabOf[a]
           n == agent[a].got
<1>1. a \in Agent /\ t \in Tab /\ n \in Pairs
  BY Tabs, SimpleStates DEF Agent, CallRefreshed
<1>2. SetTokens(t, n)
  BY DEF CallRefreshed
<1>3. store' \in [Tab -> Row] /\ saved' \in Row /\ store'[t].pair = n
  BY <1>1, <1>2, SetTokensTyped
<1>4. Sent(n, TRUE, NoPair) \in States /\ Sent(n, FALSE, NoPair) \in States
  BY <1>1, SentTyped
<1>5. agent' \in [Agent -> States]
  BY <1>3, <1>4, TypedParts DEF CallRefreshed
<1>6. refreshing' \in [Tab -> BOOLEAN] /\ UNCHANGED <<live, origin, expired, overdue, presented, lost, late>>
  BY <1>1 DEF CallRefreshed, TypeOK, server, history
<1> QED
  BY <1>3, <1>5, <1>6, BrowserStepTyped DEF TypeOK

LEMMA CallRefreshFailedTyped ==
  ASSUME TypeOK, NEW a \in Api, CallRefreshFailed(a)
  PROVE  TypeOK'
<1> DEFINE t == TabOf[a]
<1>1. a \in Agent /\ t \in Tab /\ Idle \in States
  BY Tabs, SimpleStates DEF Agent
<1>2. ClearAuth(t, {a})
  BY DEF CallRefreshFailed
<1>3. store' \in [Tab -> Row] /\ saved' \in Row /\ late' \in BOOLEAN
  BY <1>1, <1>2, ClearTyped
<1>4. agent' \in [Agent -> States]
  BY <1>1, TypedParts DEF CallRefreshFailed
<1>5. refreshing' \in [Tab -> BOOLEAN] /\ UNCHANGED <<live, origin, expired, overdue, presented, lost>>
  BY <1>1 DEF CallRefreshFailed, TypeOK, server
<1> QED
  BY <1>3, <1>4, <1>5, BrowserStepTyped DEF TypeOK

LEMMA StreamRefreshedTyped ==
  ASSUME TypeOK, NEW a \in Stream, StreamRefreshed(a)
  PROVE  TypeOK'
<1> DEFINE n == agent[a].got
           k == Sent(n, FALSE, agent[a].for)
<1>1. a \in Agent /\ TabOf[a] \in Tab
  BY Tabs DEF Agent
<1>2. n \in Pairs /\ agent[a].for \in Pairs \cup {NoPair}
  BY <1>1, SimpleStates DEF StreamRefreshed
<1>3. k \in States
  BY <1>2, SentTyped
<1>4. SetTokens(TabOf[a], n) /\ Set(a, k) /\ UNCHANGED <<live, origin, expired, overdue, refreshing, presented, lost, late>>
  BY DEF StreamRefreshed, server, history
<1>5. store' \in [Tab -> Row] /\ saved' \in Row
  BY <1>1, <1>2, <1>4, SetTokensTyped
<1> HIDE DEF k
<1> QED
  BY <1>1, <1>3, <1>4, <1>5, AgentStepTyped DEF TypeOK

LEMMA ExpireTyped ==
  ASSUME TypeOK, NEW n \in Pairs, Expire(n) \/ Outlast(n)
  PROVE  TypeOK'
<1>1. /\ expired' \subseteq Pairs /\ overdue' \subseteq Pairs
      /\ UNCHANGED <<live, origin, store, saved, refreshing, agent, presented, lost, late>>
  BY DEF Expire, Outlast, TypeOK, history
<1> QED
  BY <1>1, TypedParts, BrowserStepTyped DEF TypeOK

(***************************************************************************)
(* The kinds of steps.                                                     *)
(***************************************************************************)
Arrived(a) == agent[a].pc = "answered" /\ agent[a].got # NoPair

\* Past the deletion of its token, and neither refused nor lost.
Spending(a) == agent[a].pc = "deleted" \/ Arrived(a)

\* The requests of A are over or given up, the others go on.
Rests(A) ==
  /\ A \subseteq Agent /\ UNCHANGED <<live, origin, presented>>
  /\ \A x \in Agent \ A : agent'[x] = agent[x]
  /\ \A x \in A : agent'[x].pc \notin Posting

\* So they are, and nobody gets a token that was not in a store.
Quiet(A) ==
  /\ Rests(A)
  /\ lost \subseteq lost' /\ \A x \in A : Spending(x) => agent[x].tok \in lost'
  /\ \A t \in Tab : store'[t].pair \in {NoPair, store[t].pair, saved.pair}
  /\ saved'.pair \in {NoPair, saved.pair}

\* Agent a takes its new pair, and no other refresh ends.
Takes(a, A) ==
  /\ a \in A /\ Arrived(a) /\ Rests(A) /\ lost' = lost
  /\ \A x \in A \ {a} : ~Refreshing(x)
  /\ \A t \in Tab : store'[t].pair \in {store[t].pair, agent[a].got}
  /\ store'[TabOf[a]].pair = agent[a].got /\ saved'.pair = agent[a].got

Posts(a) ==
  /\ Post(a) /\ agent[a].pc = "sent" /\ store[TabOf[a]].pair # NoPair
  /\ a \in Api => ~refreshing[TabOf[a]]
  /\ UNCHANGED <<live, origin, store, saved, lost>>

Kinds ==
  \/ \E t \in Tab : SignIn(t)
  \/ \E A \in SUBSET Agent : Quiet(A)
  \/ \E a \in Agent, A \in SUBSET Agent : Takes(a, A)
  \/ \E a \in Agent : Posts(a) \/ RefreshFind(a) \/ RefreshDelete(a) \/ RefreshCreate(a) \/ RefreshLost(a)

LEMMA RestingStates ==
  /\ Idle.pc \notin Posting /\ To(Idle, "queued").pc \notin Posting
  /\ \A f : [To(Idle, "open") EXCEPT !.for = f].pc \notin Posting
  /\ \A n, r, f : Sent(n, r, f).pc \notin Posting
BY DEF Idle, To, Sent, Posting

\* One agent that was not refreshing rests, and the stores stay.
LEMMA SetQuiet ==
  ASSUME TypeOK, NEW a \in Agent, NEW k, k.pc \notin Posting, agent[a].pc \notin Posting,
         Set(a, k), UNCHANGED <<live, origin, presented, store, saved, lost>>
  PROVE  Quiet({a})
BY TypedParts DEF Set, Quiet, Rests, Spending, Arrived, Posting

\* One agent that gives up rests, and its tab is signed out.
LEMMA ClearQuiet ==
  ASSUME TypeOK, NEW a \in Agent, ~Spending(a), Set(a, Idle), ClearAuth(TabOf[a], {a}),
         UNCHANGED <<live, origin, presented, lost>>
  PROVE  Quiet({a})
<1>1. Rests({a})
  BY RestingStates, TypedParts DEF Set, Rests
<1>2. Nobody.pair = NoPair /\ saved' = Nobody /\ store' = [store EXCEPT ![TabOf[a]] = Nobody]
  BY DEF Nobody, ClearAuth
<1>3. \A t \in Tab : store'[t].pair \in {NoPair, store[t].pair, saved.pair}
  BY <1>2, TypedParts
<1> QED
  BY <1>1, <1>2, <1>3 DEF Quiet

LEMMA SignOutQuiet ==
  ASSUME TypeOK, NEW t \in Tab, SignOut(t)
  PROVE  Quiet({})
<1>1. Nobody.pair = NoPair /\ saved' = Nobody /\ store' = [store EXCEPT ![t] = Nobody]
  BY DEF Nobody, SignOut, ClearAuth
<1>2. \A x \in Tab : store'[x].pair \in {NoPair, store[x].pair, saved.pair}
  BY <1>1, TypedParts
<1> QED
  BY <1>1, <1>2 DEF SignOut, Quiet, Rests, server

LEMMA LoadQuiet ==
  ASSUME TypeOK, NEW t \in Tab, Load(t)
  PROVE  Quiet(Of(t))
<1>1. Rests(Of(t))
  BY RestingStates, TypedParts DEF Load, Rests, Of, server
<1>2. \A x \in Of(t) : Spending(x) => agent[x].tok \in lost'
  BY DEF Load, Spending, Arrived, Refreshing, Posting
<1>3. \A x \in Tab : store'[x].pair \in {NoPair, store[x].pair, saved.pair}
  BY TypedParts DEF Load
<1>4. Nobody.pair = NoPair
  BY DEF Nobody
<1> QED
  BY <1>1, <1>2, <1>3, <1>4 DEF Load, Quiet

LEMMA CallRefreshFailedQuiet ==
  ASSUME TypeOK, NEW a \in Api, CallRefreshFailed(a)
  PROVE  Quiet({a} \cup Queued(TabOf[a]))
<1> DEFINE t == TabOf[a]
           A == {a} \cup Queued(t)
<1>1. A \subseteq Agent
  BY DEF Agent, Queued
<1>2. Rests(A)
  BY <1>1, RestingStates, TypedParts DEF CallRefreshFailed, Rests, server
<1>3. \A x \in A : ~Spending(x)
  BY DEF CallRefreshFailed, Queued, Spending, Arrived
<1>4. Nobody.pair = NoPair /\ saved' = Nobody /\ store' = [store EXCEPT ![t] = Nobody] /\ lost' = lost
  BY DEF Nobody, CallRefreshFailed, ClearAuth
<1>5. \A x \in Tab : store'[x].pair \in {NoPair, store[x].pair, saved.pair}
  BY <1>4, TypedParts
<1> QED
  BY <1>2, <1>3, <1>4, <1>5 DEF Quiet

LEMMA CallRefreshedTakes ==
  ASSUME TypeOK, NEW a \in Api, CallRefreshed(a)
  PROVE  Takes(a, {a} \cup Queued(TabOf[a]))
<1> DEFINE t == TabOf[a]
           n == agent[a].got
           A == {a} \cup Queued(t)
<1>1. a \in Agent /\ t \in Tab /\ n \in Pairs /\ A \subseteq Agent
  BY Tabs, SimpleStates DEF Agent, CallRefreshed, Queued
<1>2. SetTokens(t, n) /\ Arrived(a)
  BY DEF CallRefreshed, Arrived
<1>3. store'[t].pair = n /\ saved' = store'[t]
  BY <1>1, <1>2, SetTokensTyped DEF SetTokens
<1>4. \A x \in Tab : x # t => store'[x] = store[x]
  BY <1>1, <1>2, TypedParts DEF SetTokens
<1>5. Rests(A)
  BY <1>1, RestingStates, TypedParts DEF CallRefreshed, Rests, Resolved, server, history
<1>6. \A x \in A \ {a} : ~Refreshing(x)
  BY DEF Queued, Refreshing, Posting
<1> QED
  BY <1>1, <1>2, <1>3, <1>4, <1>5, <1>6 DEF Takes, CallRefreshed, history

LEMMA StreamRefreshedTakes ==
  ASSUME TypeOK, NEW a \in Stream, StreamRefreshed(a)
  PROVE  Takes(a, {a})
<1> DEFINE t == TabOf[a]
           n == agent[a].got
<1>1. a \in Agent /\ t \in Tab /\ n \in Pairs
  BY Tabs, SimpleStates DEF Agent, StreamRefreshed
<1>2. SetTokens(t, n) /\ Arrived(a) /\ Set(a, Sent(n, FALSE, agent[a].for))
  BY DEF StreamRefreshed, Arrived
<1>3. store'[t].pair = n /\ saved' = store'[t]
  BY <1>1, <1>2, SetTokensTyped DEF SetTokens
<1>4. \A x \in Tab : x # t => store'[x] = store[x]
  BY <1>1, <1>2, TypedParts DEF SetTokens
<1>5. UNCHANGED <<live, origin, presented, lost>>
  BY DEF StreamRefreshed, server, history
<1>6. Rests({a})
  BY <1>1, <1>2, <1>5, RestingStates, TypedParts DEF Set, Rests
<1> QED
  BY <1>1, <1>2, <1>3, <1>4, <1>5, <1>6 DEF Takes

LEMMA CallKinds ==
  ASSUME TypeOK, NEW a \in Api, Call(a) \/ CallProceeds(a)
  PROVE  Kinds
<1>0. a \in Agent
  BY DEF Agent
<1>1. CASE Call(a)
  <2>1. Quiet({a})
    BY <1>0, <1>1, SetQuiet, RestingStates DEF Call, server, history, Posting
  <2> QED
    BY <1>0, <2>1 DEF Kinds
<1>2. CASE CallAnswered(a) \/ CallRejected(a)
  <2>1. Quiet({a})
    BY <1>0, <1>2, SetQuiet, RestingStates DEF CallAnswered, CallRejected, Unauthorized, server, history, Posting
  <2> QED
    BY <1>0, <2>1 DEF Kinds
<1>3. CASE CallQueued(a)
  <2>1. Quiet({a})
    BY <1>0, <1>3, SetQuiet, RestingStates DEF CallQueued, Unauthorized, server, history, Posting
  <2> QED
    BY <1>0, <2>1 DEF Kinds
<1>4. CASE CallSignedOut(a)
  <2>1. Quiet({a})
    BY <1>0, <1>4, ClearQuiet DEF CallSignedOut, Unauthorized, server, Spending, Arrived
  <2> QED
    BY <1>0, <2>1 DEF Kinds
<1>5. CASE CallRefreshes(a)
  <2>1. Posts(a)
    BY <1>5 DEF CallRefreshes, Posts, Unauthorized, MayRefresh, server
  <2> QED
    BY <1>0, <2>1 DEF Kinds
<1>6. CASE CallRefreshed(a)
  <2>1. Takes(a, {a} \cup Queued(TabOf[a])) /\ {a} \cup Queued(TabOf[a]) \subseteq Agent
    BY <1>6, CallRefreshedTakes DEF Takes, Rests
  <2> QED
    BY <1>0, <2>1 DEF Kinds
<1>7. CASE CallRefreshFailed(a)
  <2>1. Quiet({a} \cup Queued(TabOf[a])) /\ {a} \cup Queued(TabOf[a]) \subseteq Agent
    BY <1>7, CallRefreshFailedQuiet DEF Quiet, Rests
  <2> QED
    BY <2>1 DEF Kinds
<1> QED
  BY <1>1, <1>2, <1>3, <1>4, <1>5, <1>6, <1>7 DEF CallProceeds

LEMMA StreamKinds ==
  ASSUME TypeOK, NEW a \in Stream, StreamStep(a)
  PROVE  Kinds
<1>0. a \in Agent
  BY DEF Agent
<1>1. CASE Connect(a)
  <2>1. Quiet({a})
    BY <1>0, <1>1, SetQuiet, RestingStates DEF Connect, server, history, Posting
  <2> QED
    BY <1>0, <2>1 DEF Kinds
<1>2. CASE Connected(a)
  <2>1. Quiet({a})
    BY <1>0, <1>2, SetQuiet, RestingStates DEF Connected, server, history, Posting
  <2> QED
    BY <1>0, <2>1 DEF Kinds
<1>3. CASE Disconnected(a)
  <2>1. Quiet({a})
    BY <1>0, <1>3, SetQuiet, RestingStates DEF Disconnected, server, history, Posting
  <2> QED
    BY <1>0, <2>1 DEF Kinds
<1>4. CASE StreamSignedOut(a) \/ StreamRefreshFailed(a)
  <2>1. Quiet({a})
    BY <1>0, <1>4, ClearQuiet DEF StreamSignedOut, StreamRefreshFailed, Unauthorized, server, Spending, Arrived
  <2> QED
    BY <1>0, <2>1 DEF Kinds
<1>5. CASE StreamRefreshes(a)
  <2>1. Posts(a)
    BY <1>5 DEF StreamRefreshes, Posts, Unauthorized, server
  <2> QED
    BY <1>0, <2>1 DEF Kinds
<1>6. CASE StreamRefreshed(a)
  <2>1. Takes(a, {a})
    BY <1>6, StreamRefreshedTakes
  <2> QED
    BY <1>0, <2>1 DEF Kinds
<1> QED
  BY <1>1, <1>2, <1>3, <1>4, <1>5, <1>6 DEF StreamStep

LEMMA EveryStepIsOfAKind ==
  ASSUME TypeOK, [Next]_vars
  PROVE  Kinds
<1>1. CASE UNCHANGED vars \/ \E n \in Pairs : Expire(n) \/ Outlast(n)
  <2>1. UNCHANGED <<live, origin, store, saved, agent, presented, lost>>
    BY <1>1 DEF vars, Expire, Outlast, history
  <2>2. Quiet({})
    BY <2>1 DEF Quiet, Rests
  <2> QED
    BY <2>2 DEF Kinds
<1>2. ASSUME NEW t \in Tab, SignIn(t) \/ SignOut(t) \/ Load(t)
      PROVE  Kinds
  <2>1. Of(t) \in SUBSET Agent /\ {} \in SUBSET Agent
    BY DEF Of
  <2> QED
    BY <1>2, <2>1, SignOutQuiet, LoadQuiet DEF Kinds
<1>3. CASE \E a \in Agent : Refresh(a)
  BY <1>3 DEF Refresh, Kinds
<1> QED
  BY <1>1, <1>2, <1>3, CallKinds, StreamKinds DEF Next

(***************************************************************************)
(* What the steps of a refresh do.                                         *)
(***************************************************************************)
Others(a) == \A x \in Agent \ {a} : agent'[x] = agent[x]

LEMMA PostEffect ==
  ASSUME TypeOK, NEW a \in Agent, Posts(a)
  PROVE  /\ Others(a) /\ agent'[a].pc = "post" /\ agent'[a].tok = store[TabOf[a]].pair
         /\ agent'[a].tok \in Pairs /\ ~Refreshing(a)
         /\ presented' = presented \cup {<<agent'[a].tok, TabOf[a], Kind(a)>>}
<1> DEFINE n == store[TabOf[a]].pair
           k == [agent[a] EXCEPT !.pc = "post", !.tok = n, !.retry = (a \in Api)]
<1>1. agent' = [agent EXCEPT ![a] = k] /\ presented' = presented \cup {<<n, TabOf[a], Kind(a)>>}
  BY DEF Posts, Post, Set
<1>2. k.pc = "post" /\ k.tok = n
  BY SimpleStates DEF States
<1>3. n \in Pairs
  BY SimpleStates DEF Posts
<1> HIDE DEF k, n
<1>4. agent'[a] = k /\ Others(a)
  BY <1>1, TypedParts DEF Others
<1> QED
  BY <1>1, <1>2, <1>3, <1>4 DEF n, Posts, Refreshing, Posting

LEMMA FindEffect ==
  ASSUME TypeOK, NEW a \in Agent, RefreshFind(a)
  PROVE  /\ Others(a) /\ agent[a].pc = "post" /\ agent'[a].tok = agent[a].tok
         /\ UNCHANGED <<live, origin, store, saved, presented, lost>>
         /\ \/ agent'[a].pc = "found" /\ agent[a].tok \in live
            \/ agent'[a].pc = "answered" /\ agent'[a].got = NoPair /\ agent[a].tok \notin live \ overdue
BY SimpleStates, TypedParts DEF RefreshFind, Finds, Set, To, Answer, Others, States, server, history

LEMMA DeleteEffect ==
  ASSUME TypeOK, NEW a \in Agent, RefreshDelete(a)
  PROVE  /\ Others(a) /\ agent[a].pc = "found" /\ agent'[a].tok = agent[a].tok
         /\ UNCHANGED <<origin, store, saved, presented, lost>>
         /\ \/ agent'[a].pc = "deleted" /\ agent[a].tok \in live /\ live' = live \ {agent[a].tok}
            \/ agent'[a].pc = "answered" /\ agent'[a].got = NoPair /\ agent[a].tok \notin live /\ live' = live
<1> DEFINE m == agent[a].tok
<1>1. live' = live \ {m} /\ UNCHANGED <<origin, store, saved, presented, lost>> /\ agent[a].pc = "found"
  BY DEF RefreshDelete, history
<1>2. m \in live => agent'[a].pc = "deleted" /\ agent'[a].tok = m
  BY SimpleStates, TypedParts DEF RefreshDelete, Set, To, States, Deletes
<1>3. m \notin live => agent'[a].pc = "answered" /\ agent'[a].got = NoPair /\ agent'[a].tok = m
  BY SimpleStates, TypedParts DEF RefreshDelete, Set, Answer, States, Deletes
<1>4. Others(a)
  BY TypedParts DEF RefreshDelete, Set, Others
<1> QED
  BY <1>1, <1>2, <1>3, <1>4

LEMMA CreateEffect ==
  ASSUME TypeOK, NEW a \in Agent, RefreshCreate(a)
  PROVE  /\ Others(a) /\ agent[a].pc = "deleted" /\ agent'[a].tok = agent[a].tok
         /\ UNCHANGED <<store, saved, presented, lost>>
         /\ agent'[a].pc = "answered" /\ agent'[a].got = Len(origin')
         /\ live' = live \cup {Len(origin')}
         /\ Pairs' = Pairs \cup {Len(origin')}
         /\ Len(origin') \notin Pairs /\ Len(origin') # 0
         /\ origin'[Len(origin')] = agent[a].tok
         /\ \A m \in Pairs : origin'[m] = origin[m]
<1> DEFINE n == Len(origin')
           k == Answer(agent[a], n)
<1>1. origin \in Seq(0 .. MaxPairs) /\ Len(origin) < MaxPairs /\ agent[a].tok \in 0 .. MaxPairs
  <2>1. Len(origin) \in Nat /\ MaxPairs \in Nat
    BY DEF TypeOK
  <2> QED
    BY <2>1, SimpleStates DEF TypeOK, RefreshCreate, Pairs
<1>2. /\ Pairs' = Pairs \cup {n} /\ n \notin Pairs /\ n # 0
      /\ origin'[n] = agent[a].tok /\ \A m \in Pairs : origin'[m] = origin[m]
  BY <1>1, PairAdded DEF RefreshCreate
<1>3. agent' = [agent EXCEPT ![a] = k] /\ live' = live \cup {n} /\ agent[a].pc = "deleted"
      /\ UNCHANGED <<store, saved, presented, lost>>
  BY DEF RefreshCreate, Set, history
<1> HIDE DEF n
<1>4. k.pc = "answered" /\ k.got = n /\ k.tok = agent[a].tok
  BY SimpleStates DEF Answer, States
<1> HIDE DEF k
<1>5. agent'[a] = k /\ Others(a)
  BY <1>3, TypedParts DEF Others
<1> QED
  BY <1>2, <1>3, <1>4, <1>5 DEF n

LEMMA LostEffect ==
  ASSUME TypeOK, NEW a \in Agent, RefreshLost(a)
  PROVE  /\ Others(a) /\ Refreshing(a) /\ agent'[a].tok = agent[a].tok
         /\ UNCHANGED <<live, origin, store, saved, presented>>
         /\ lost' = lost \cup {agent[a].tok}
         /\ agent'[a].pc = "answered" /\ agent'[a].got = NoPair
BY SimpleStates, TypedParts DEF RefreshLost, Set, Answer, Others, States, server

LEMMA SignInEffect ==
  ASSUME TypeOK, NEW t \in Tab, SignIn(t)
  PROVE  /\ UNCHANGED <<agent, presented, lost>>
         /\ live' = live \cup {Len(origin')}
         /\ Pairs' = Pairs \cup {Len(origin')}
         /\ Len(origin') \notin Pairs /\ Len(origin') # 0
         /\ origin'[Len(origin')] = NoPair
         /\ \A m \in Pairs : origin'[m] = origin[m]
         /\ \A x \in Tab : store'[x].pair \in {store[x].pair, Len(origin')}
         /\ saved'.pair = Len(origin')
<1> DEFINE n == Len(origin')
           k == [user |-> TRUE, pair |-> n]
<1>1. origin \in Seq(0 .. MaxPairs) /\ NoPair \in 0 .. MaxPairs /\ Len(origin) < MaxPairs
  BY DEF TypeOK, SignIn
<1>2. /\ Pairs' = Pairs \cup {n} /\ n \notin Pairs /\ n # 0
      /\ origin'[n] = NoPair /\ \A m \in Pairs : origin'[m] = origin[m]
  BY <1>1, PairAdded DEF SignIn
<1>3. store' = [store EXCEPT ![t] = k] /\ saved' = store'[t] /\ k.pair = n
      /\ live' = live \cup {n} /\ UNCHANGED <<agent, presented, lost>>
  BY DEF SignIn
<1> HIDE DEF k
<1>4. (\A x \in Tab : store'[x].pair \in {store[x].pair, n}) /\ saved'.pair = n
  BY <1>3, TypedParts
<1> QED
  BY <1>2, <1>3, <1>4

LEMMA PostedKept ==
  ASSUME TypeOK, Posted, Kinds
  PROVE  Posted'
<1>1. ASSUME NEW t \in Tab, SignIn(t) PROVE Posted'
  BY <1>1, SignInEffect DEF Posted, Refreshing
<1>2. ASSUME NEW A \in SUBSET Agent, Rests(A) PROVE Posted'
  BY <1>2 DEF Posted, Rests, Refreshing
<1>3. ASSUME NEW a \in Agent, Posts(a) PROVE Posted'
  BY <1>3, PostEffect, TypedParts DEF Posted, Others, Refreshing
<1>4. ASSUME NEW a \in Agent, Others(a), Refreshing(a), agent'[a].tok = agent[a].tok, UNCHANGED presented
      PROVE  Posted'
  BY <1>4 DEF Posted, Others, Refreshing
<1>5. ASSUME NEW a \in Agent, RefreshFind(a) \/ RefreshDelete(a) \/ RefreshCreate(a) \/ RefreshLost(a)
      PROVE  Posted'
  <2>1. Others(a) /\ Refreshing(a) /\ agent'[a].tok = agent[a].tok /\ UNCHANGED presented
    BY <1>5, FindEffect, DeleteEffect, CreateEffect, LostEffect DEF Refreshing, Posting
  <2> QED
    BY <1>4, <2>1
<1> QED
  BY <1>1, <1>2, <1>3, <1>5 DEF Kinds, Quiet, Takes

(***************************************************************************)
(* Types.                                                                  *)
(***************************************************************************)
TypeInv == TypeOK /\ Posted

LEMMA TypedStep ==
  ASSUME TypeInv, [Next]_vars
  PROVE  TypeInv'
<1> USE DEF TypeInv
<1>1. Posted'
  BY EveryStepIsOfAKind, PostedKept
<1>2. CASE UNCHANGED vars
  <2>1. TypeOK'
    BY <1>2 DEF vars, TypeOK, Pairs
  <2> QED
    BY <1>1, <2>1
<1>3. ASSUME NEW t \in Tab, SignIn(t) \/ SignOut(t) \/ Load(t) PROVE TypeOK'
  BY <1>3, SignInTyped, SignOutTyped, LoadTyped
<1>4. ASSUME NEW n \in Pairs, Expire(n) \/ Outlast(n) PROVE TypeOK'
  BY <1>4, ExpireTyped
<1>5. ASSUME NEW a \in Agent, Refresh(a) PROVE TypeOK'
  BY <1>5, RefreshFindTyped, RefreshDeleteTyped, RefreshCreateTyped, RefreshLostTyped DEF Refresh
<1>6. ASSUME NEW a \in Api, Call(a) \/ CallProceeds(a) PROVE TypeOK'
  BY <1>6, CallTyped, CallAnsweredTyped, CallRejectedTyped, CallSignedOutTyped, CallQueuedTyped,
     CallRefreshesTyped, CallRefreshedTyped, CallRefreshFailedTyped DEF CallProceeds
<1>7. ASSUME NEW s \in Stream, StreamStep(s) PROVE TypeOK'
  BY <1>7, ConnectTyped, ConnectedTyped, DisconnectedTyped, StreamRefreshesTyped, StreamSignedOutTyped,
     StreamRefreshedTyped, StreamRefreshFailedTyped DEF StreamStep
<1> QED
  BY <1>1, <1>2, <1>3, <1>4, <1>5, <1>6, <1>7 DEF Next

LEMMA TypedStart == Init => TypeInv
BY TypedInit DEF TypeInv, Posted, Init, Idle, Refreshing, Posting

LEMMA TypeInvHolds == Spec => []TypeInv
BY TypedStart, TypedStep, PTL DEF Spec

\* Tokens, stores and the states of the agents keep their types.
THEOREM TypeCorrect == Spec => []TypeOK
<1>1. TypeInv => TypeOK
  BY DEF TypeInv
<1> QED
  BY <1>1, TypeInvHolds, PTL

(***************************************************************************)
(* What a refresh token buys.                                              *)
(***************************************************************************)
\* Pairs are bought with pairs that exist.
Ancestry == \A n \in Pairs : origin[n] \in Pairs \cup {NoPair}

\* A row that is still there has bought nothing and is buying nothing.
Unspent == \A m \in live : Bought(m) = {} /\ Buying(m) = {}

OneInv == Ancestry /\ Unspent /\ OneSuccessor

\* Requests that end, fail or have not come to the deletion buy nothing.
LEMMA OneKept ==
  ASSUME OneInv, UNCHANGED <<live, origin>>,
         \A x \in Agent : agent'[x].pc = "deleted" => agent'[x] = agent[x]
  PROVE  OneInv'
<1>1. \A m : Bought(m)' = Bought(m) /\ Buying(m)' \subseteq Buying(m)
  BY DEF Bought, Buying, Pairs
<1>2. Pairs' = Pairs
  BY DEF Pairs
<1> QED
  BY <1>1, <1>2 DEF OneInv, Ancestry, Unspent, OneSuccessor

\* A new pair has not been traded yet.
LEMMA NewPairUnspent ==
  ASSUME TypeOK, OneInv, NEW n, n \notin Pairs, n # NoPair, Pairs' = Pairs \cup {n},
         NEW k \in Pairs \cup {NoPair}, origin'[n] = k, \A m \in Pairs : origin'[m] = origin[m],
         \A x \in Agent : agent'[x].tok = agent[x].tok
  PROVE  /\ Bought(n)' = {} /\ Buying(n)' = {} /\ Ancestry'
         /\ \A m \in Pairs : Bought(m)' = IF m = k THEN Bought(m) \cup {n} ELSE Bought(m)
<1>1. \A m \in Pairs \cup {n} : origin'[m] \in Pairs \cup {NoPair}
  BY DEF OneInv, Ancestry
<1>2. \A x \in Agent : agent[x].tok \in Pairs \cup {NoPair}
  BY SimpleStates DEF States
<1> QED
  BY <1>1, <1>2 DEF Bought, Buying, Ancestry

LEMMA SignInOne ==
  ASSUME TypeOK, OneInv, NEW t \in Tab, SignIn(t)
  PROVE  OneInv'
<1>0. PICK n : n = Len(origin')
  OBVIOUS
<1>1. /\ n \notin Pairs /\ n # NoPair /\ Pairs' = Pairs \cup {n} /\ origin'[n] = NoPair
      /\ \A m \in Pairs : origin'[m] = origin[m]
      /\ UNCHANGED agent /\ live' = live \cup {n}
  BY <1>0, SignInEffect
<1>2. NoPair \in Pairs \cup {NoPair} /\ NoPair \notin Pairs
  BY TypedParts
<1>3. Bought(n)' = {} /\ Buying(n)' = {} /\ Ancestry' /\ \A m \in Pairs : Bought(m)' = Bought(m)
  BY <1>1, <1>2, NewPairUnspent
<1>4. \A m : Buying(m)' = Buying(m)
  BY <1>1 DEF Buying
<1>5. Unspent'
  <2>1. live \subseteq Pairs
    BY DEF TypeOK
  <2>2. \A m \in live : Bought(m)' = {} /\ Buying(m)' = {}
    BY <1>3, <1>4, <2>1 DEF OneInv, Unspent
  <2> QED
    BY <1>1, <1>3, <2>2 DEF Unspent
<1>6. OneSuccessor'
  <2>1. \A m \in Pairs : Bought(m)' = Bought(m) /\ Buying(m)' = Buying(m)
    BY <1>3, <1>4
  <2> QED
    BY <1>1, <1>3, <2>1 DEF OneInv, OneSuccessor
<1> QED
  BY <1>3, <1>5, <1>6 DEF OneInv

LEMMA RefreshDeleteOne ==
  ASSUME TypeOK, OneInv, NEW a \in Agent, RefreshDelete(a), agent'[a].pc = "deleted"
  PROVE  OneInv'
<1>0. PICK m : m = agent[a].tok
  OBVIOUS
<1>1. /\ Others(a) /\ agent[a].pc = "found" /\ agent[a].tok = m /\ agent'[a].tok = m
      /\ origin' = origin /\ m \in live /\ live' = live \ {m}
  BY <1>0, DeleteEffect
<1>2. \A x : Bought(x)' = Bought(x)
  BY <1>1 DEF Bought, Pairs
<1>3. \A x : x # m => Buying(x)' = Buying(x)
  BY <1>1 DEF Buying, Others
<1>4. Bought(m) = {} /\ Buying(m) = {}
  BY <1>1 DEF OneInv, Unspent
<1>5. \A x \in Buying(m)' : x = a
  BY <1>1, <1>4 DEF Buying, Others
<1>6. Pairs' = Pairs
  BY <1>1 DEF Pairs
<1> QED
  BY <1>1, <1>2, <1>3, <1>4, <1>5, <1>6 DEF OneInv, Ancestry, Unspent, OneSuccessor

LEMMA RefreshCreateOne ==
  ASSUME TypeOK, Posted, OneInv, NEW a \in Agent, RefreshCreate(a)
  PROVE  OneInv'
<1>0. PICK m, n : m = agent[a].tok /\ n = Len(origin')
  OBVIOUS
<1>1. /\ Others(a) /\ agent[a].pc = "deleted" /\ agent[a].tok = m
      /\ agent'[a].tok = m /\ agent'[a].pc = "answered"
      /\ live' = live \cup {n} /\ Pairs' = Pairs \cup {n} /\ n \notin Pairs /\ n # NoPair
      /\ origin'[n] = m /\ \A x \in Pairs : origin'[x] = origin[x]
  BY <1>0, CreateEffect
<1>2. m \in Pairs
  BY <1>1, SimpleStates DEF Posted, Refreshing, Posting
<1>3. \A x \in Agent : agent'[x].tok = agent[x].tok
  BY <1>1 DEF Others
<1>4. a \in Buying(m)
  BY <1>1 DEF Buying
<1>5. /\ Bought(n)' = {} /\ Buying(n)' = {} /\ Ancestry'
      /\ \A x \in Pairs : Bought(x)' = IF x = m THEN Bought(x) \cup {n} ELSE Bought(x)
  BY <1>1, <1>2, <1>3, NewPairUnspent
<1>6. \A x : x # m => Buying(x)' = Buying(x)
  BY <1>1 DEF Buying, Others
<1>7. Bought(m) = {} /\ (\A x \in Buying(m) : x = a) /\ m \notin live
  BY <1>2, <1>4 DEF OneInv, OneSuccessor, Unspent
<1>8. Buying(m)' = {}
  BY <1>1, <1>7 DEF Buying, Others
<1>9. Unspent'
  BY <1>1, <1>5, <1>6, <1>7 DEF OneInv, Unspent, TypeOK
<1>10. OneSuccessor'
  <2>1. \A x \in Pairs : x # m => Bought(x)' = Bought(x) /\ Buying(x)' = Buying(x)
    BY <1>5, <1>6
  <2>2. Bought(m)' = {n}
    BY <1>2, <1>5, <1>7
  <2> QED
    BY <1>1, <1>5, <1>8, <2>1, <2>2 DEF OneInv, OneSuccessor
<1> QED
  BY <1>5, <1>9, <1>10 DEF OneInv

LEMMA OneStep ==
  ASSUME TypeOK, Posted, OneInv, Kinds
  PROVE  OneInv'
<1>1. ASSUME NEW A \in SUBSET Agent, Rests(A) PROVE OneInv'
  BY <1>1, OneKept DEF Rests, Posting
<1>2. ASSUME NEW a \in Agent, Posts(a) PROVE OneInv'
  BY <1>2, OneKept, PostEffect DEF Posts, Others
<1>3. ASSUME NEW a \in Agent, RefreshFind(a) \/ RefreshLost(a) PROVE OneInv'
  BY <1>3, OneKept, FindEffect, LostEffect DEF Others
<1>4. ASSUME NEW a \in Agent, RefreshDelete(a) PROVE OneInv'
  BY <1>4, OneKept, RefreshDeleteOne, DeleteEffect DEF Others
<1> QED
  BY <1>1, <1>2, <1>3, <1>4, SignInOne, RefreshCreateOne DEF Kinds, Quiet, Takes

LEMMA OneStart == Init => OneInv
<1> SUFFICES ASSUME Init PROVE OneInv
  OBVIOUS
<1>1. Pairs = {} /\ live = {}
  BY DEF Init, Pairs
<1> QED
  BY <1>1 DEF OneInv, Ancestry, Unspent, OneSuccessor

\* A refresh token buys one pair, whatever refreshes, of whatever tabs and
\* streams, found its row before it was deleted.
THEOREM OneSuccessorHolds == Spec => []OneSuccessor
<1>1. TypeInv /\ OneInv /\ [Next]_vars => OneInv'
  BY EveryStepIsOfAKind, OneStep DEF TypeInv
<1>2. OneInv => OneSuccessor
  BY DEF OneInv
<1> QED
  BY <1>1, <1>2, OneStart, TypeInvHolds, PTL DEF Spec

(***************************************************************************)
(* The queue of the interceptor, and who has a user.                       *)
(***************************************************************************)
QueueInv == QueueIsServed /\ \A a \in Api : Refreshing(a) => refreshing[TabOf[a]]

\* Whoever has tokens has a user, and so has the tab whose token is refreshed.
HasUsers ==
  /\ \A t \in Tab : store[t].pair # NoPair => store[t].user
  /\ saved.pair # NoPair => saved.user
  /\ \A a \in Agent : Refreshing(a) => store[TabOf[a]].user

UserInv == late \/ HasUsers

\* Agent a neither begins nor ends a refresh, and queues only behind one.
Stays(a) ==
  /\ Others(a) /\ (Refreshing(a)' <=> Refreshing(a))
  /\ agent'[a].pc = "queued" => refreshing[TabOf[a]]
  /\ UNCHANGED <<store, saved, refreshing, late>>

\* Agent a, no call at its refresh, stops, and its tab is signed out.
Clears(a) ==
  /\ Others(a) /\ agent'[a].pc = "idle" /\ ~(a \in Api /\ Refreshing(a))
  /\ ClearAuth(TabOf[a], {a}) /\ UNCHANGED refreshing

LEMMA StaysKept ==
  ASSUME QueueInv, UserInv, NEW a \in Agent, Stays(a)
  PROVE  QueueInv' /\ UserInv'
<1>1. \A x \in Agent : Refreshing(x)' <=> Refreshing(x)
  BY DEF Stays, Others, Refreshing
<1>2. \A t \in Tab : Queued(t)' # {} => Queued(t) # {} \/ refreshing[t]
  BY DEF Stays, Others, Queued, Agent
<1>3. UNCHANGED <<store, saved, refreshing, late>>
  BY DEF Stays
<1>4. QueueInv'
  BY <1>1, <1>2, <1>3 DEF QueueInv, QueueIsServed, Agent
<1>5. UserInv'
  BY <1>1, <1>3 DEF UserInv, HasUsers
<1> QED
  BY <1>4, <1>5

\* A tab signed out has neither, and no refresh of it goes on unless late.
LEMMA ClearedUsers ==
  ASSUME TypeOK, UserInv, NEW t \in Tab, NEW me, ClearAuth(t, me), late' \in BOOLEAN,
         \A x \in Agent : Refreshing(x)' => Refreshing(x) /\ x \notin me
  PROVE  UserInv'
<1>1. Nobody.pair = NoPair /\ store' = [store EXCEPT ![t] = Nobody] /\ saved' = Nobody
  BY DEF Nobody, ClearAuth
<1>2. late' = (late \/ \E x \in Of(t) \ me : Refreshing(x))
  BY DEF ClearAuth
<1>3. CASE late'
  BY <1>3 DEF UserInv
<1>4. CASE ~late'
  <2>1. HasUsers /\ \A x \in Of(t) \ me : ~Refreshing(x)
    BY <1>2, <1>4 DEF UserInv
  <2>2. \A x \in Agent : Refreshing(x)' => store'[TabOf[x]].user
    BY <1>1, <2>1, TypedParts DEF HasUsers, Of
  <2>3. \A x \in Tab : store'[x].pair # NoPair => store'[x].user
    BY <1>1, <2>1, TypedParts DEF HasUsers
  <2> QED
    BY <1>1, <2>2, <2>3 DEF UserInv, HasUsers
<1> QED
  BY <1>3, <1>4

LEMMA ClearsKept ==
  ASSUME TypeOK, QueueInv, UserInv, NEW a \in Agent, Clears(a)
  PROVE  QueueInv' /\ UserInv'
<1>1. \A x \in Agent : Refreshing(x)' => Refreshing(x) /\ x # a
  BY DEF Clears, Others, Refreshing, Posting
<1>2. \A x \in Api : Refreshing(x)' <=> Refreshing(x)
  BY DEF Clears, Others, Refreshing, Posting, Agent
<1>3. \A t \in Tab : Queued(t)' \subseteq Queued(t)
  BY DEF Clears, Others, Queued, Agent
<1>4. QueueInv'
  BY <1>2, <1>3 DEF Clears, QueueInv, QueueIsServed
<1>5. late' \in BOOLEAN
  BY DEF Clears, ClearAuth, TypeOK
<1>6. UserInv'
  BY <1>1, <1>5, Tabs, ClearedUsers DEF Clears
<1> QED
  BY <1>4, <1>6

\* When the refresh of a tab ends, its queue is empty.
LEMMA QueueEnds ==
  ASSUME TypeOK, QueueInv, NEW t \in Tab, refreshing' = [refreshing EXCEPT ![t] = FALSE],
         \A x \in Api : TabOf[x] = t => agent'[x].pc # "queued" /\ ~Refreshing(x)',
         \A x \in Api : TabOf[x] # t => agent'[x] = agent[x]
  PROVE  QueueInv'
<1>1. refreshing'[t] = FALSE /\ \A x \in Tab \ {t} : refreshing'[x] = refreshing[x]
  BY DEF TypeOK
<1>2. \A x \in Tab \ {t} : Queued(x)' = Queued(x)
  BY DEF Queued
<1>3. Queued(t)' = {}
  BY DEF Queued
<1>4. \A x \in Api : TabOf[x] \in Tab /\ (TabOf[x] # t => (Refreshing(x)' <=> Refreshing(x)))
  BY Tabs DEF Refreshing, Agent
<1> QED
  BY <1>1, <1>2, <1>3, <1>4 DEF QueueInv, QueueIsServed

\* A new pair beside the user that was there.
LEMMA TakenUsers ==
  ASSUME TypeOK, UserInv, NEW a \in Agent, Arrived(a), SetTokens(TabOf[a], agent[a].got), late' = late,
         \A x \in Agent : Refreshing(x)' => Refreshing(x)
  PROVE  UserInv'
<1> DEFINE t == TabOf[a]
<1>1. t \in Tab /\ Refreshing(a)
  BY Tabs DEF Refreshing, Posting, Arrived
<1>2. saved' = store'[t] /\ store'[t].user = store[t].user /\ \A x \in Tab \ {t} : store'[x] = store[x]
  BY <1>1, TypedParts DEF SetTokens, SaveTokens, Row
<1>3. HasUsers => HasUsers'
  BY <1>1, <1>2, Tabs DEF HasUsers
<1> QED
  BY <1>3 DEF UserInv

LEMMA StateNames ==
  /\ Idle.pc = "idle" /\ To(Idle, "queued").pc = "queued"
  /\ \A f : [To(Idle, "open") EXCEPT !.for = f].pc = "open"
  /\ \A n, r, f : Sent(n, r, f).pc = "sent"
BY DEF Idle, To, Sent

LEMMA SetOne ==
  ASSUME TypeOK, NEW a \in Agent, NEW k, Set(a, k)
  PROVE  agent'[a] = k /\ Others(a)
BY TypedParts DEF Set, Others

LEMMA PlainStays ==
  ASSUME TypeOK, NEW a \in Agent, NEW k, Set(a, k), agent[a].pc \notin Posting, k.pc \notin Posting,
         k.pc = "queued" => refreshing[TabOf[a]], UNCHANGED <<store, saved, refreshing, late>>
  PROVE  Stays(a)
BY SetOne DEF Stays, Refreshing

LEMMA CallStays ==
  ASSUME TypeOK, NEW a \in Api, Call(a) \/ CallAnswered(a) \/ CallRejected(a) \/ CallQueued(a)
  PROVE  Stays(a)
<1>0. a \in Agent
  BY DEF Agent
<1>1. CASE Call(a) \/ CallAnswered(a) \/ CallRejected(a)
  BY <1>0, <1>1, PlainStays, StateNames DEF Call, CallAnswered, CallRejected, Unauthorized, Posting, history
<1>2. CASE CallQueued(a)
  BY <1>0, <1>2, PlainStays, StateNames DEF CallQueued, MayRefresh, Unauthorized, Posting, history
<1> QED
  BY <1>1, <1>2

LEMMA StreamStays ==
  ASSUME TypeOK, NEW s \in Stream, Connect(s) \/ Connected(s) \/ Disconnected(s)
  PROVE  Stays(s)
<1>0. s \in Agent
  BY DEF Agent
<1> QED
  BY <1>0, PlainStays, StateNames DEF Connect, Connected, Disconnected, Posting, history

LEMMA RefreshStays ==
  ASSUME TypeOK, NEW a \in Agent, Refresh(a)
  PROVE  Stays(a)
<1>1. CASE RefreshFind(a)
  BY <1>1, FindEffect DEF RefreshFind, Stays, Refreshing, Posting, history
<1>2. CASE RefreshDelete(a)
  BY <1>2, DeleteEffect DEF RefreshDelete, Stays, Refreshing, Posting, history
<1>3. CASE RefreshCreate(a)
  BY <1>3, CreateEffect DEF RefreshCreate, Stays, Refreshing, Posting, history
<1>4. CASE RefreshLost(a)
  BY <1>4, LostEffect DEF RefreshLost, Stays, Refreshing, Posting
<1> QED
  BY <1>1, <1>2, <1>3, <1>4 DEF Refresh

LEMMA CallClears ==
  ASSUME TypeOK, NEW a \in Api, CallSignedOut(a)
  PROVE  Clears(a)
<1>1. a \in Agent /\ Set(a, Idle)
  BY DEF CallSignedOut, Agent
<1>2. agent'[a].pc = "idle" /\ Others(a)
  BY <1>1, SetOne, StateNames
<1> QED
  BY <1>2 DEF CallSignedOut, Unauthorized, Clears, Refreshing, Posting

LEMMA StreamClears ==
  ASSUME TypeOK, NEW s \in Stream, StreamSignedOut(s) \/ StreamRefreshFailed(s)
  PROVE  Clears(s)
<1>1. s \in Agent /\ Set(s, Idle) /\ s \notin Api
  BY DEF StreamSignedOut, StreamRefreshFailed, Agent
<1>2. agent'[s].pc = "idle" /\ Others(s)
  BY <1>1, SetOne, StateNames
<1> QED
  BY <1>1, <1>2 DEF StreamSignedOut, StreamRefreshFailed, Clears

LEMMA SignInQueue ==
  ASSUME TypeOK, QueueInv, UserInv, NEW t \in Tab, SignIn(t)
  PROVE  QueueInv' /\ UserInv'
<1>1. UNCHANGED <<refreshing, agent, late>>
  BY DEF SignIn
<1>2. QueueInv'
  BY <1>1 DEF QueueInv, QueueIsServed, Queued, Refreshing
<1>3. store'[t].user /\ saved' = store'[t] /\ \A x \in Tab \ {t} : store'[x] = store[x]
  BY TypedParts DEF SignIn
<1>4. HasUsers => HasUsers'
  BY <1>1, <1>3, Tabs DEF HasUsers, Refreshing
<1> QED
  BY <1>1, <1>2, <1>4 DEF UserInv

LEMMA SignOutQueue ==
  ASSUME TypeOK, QueueInv, UserInv, NEW t \in Tab, SignOut(t)
  PROVE  QueueInv' /\ UserInv'
<1>1. UNCHANGED <<refreshing, agent>> /\ ClearAuth(t, {})
  BY DEF SignOut
<1>2. QueueInv'
  BY <1>1 DEF QueueInv, QueueIsServed, Queued, Refreshing
<1>3. late' \in BOOLEAN /\ \A x \in Agent : Refreshing(x)' => Refreshing(x) /\ x \notin {}
  BY <1>1 DEF ClearAuth, TypeOK, Refreshing
<1>4. UserInv'
  BY <1>1, <1>3, ClearedUsers
<1> QED
  BY <1>2, <1>4

LEMMA LoadQueue ==
  ASSUME TypeOK, QueueInv, UserInv, NEW t \in Tab, Load(t)
  PROVE  QueueInv' /\ UserInv'
<1>1. \A x \in Agent : agent'[x] = IF TabOf[x] = t THEN Idle ELSE agent[x]
  BY DEF Load, Of
<1>2. \A x \in Api : IF TabOf[x] = t THEN agent'[x].pc # "queued" /\ ~Refreshing(x)' ELSE agent'[x] = agent[x]
  BY <1>1, StateNames DEF Refreshing, Posting, Agent
<1>3. QueueInv'
  BY <1>2, QueueEnds DEF Load
<1>4. store' = [store EXCEPT ![t] = saved] /\ late' = late /\ saved' = (IF saved.user THEN saved ELSE Nobody)
  BY DEF Load
<1>5. Nobody.pair = NoPair
  BY DEF Nobody
<1>6. ASSUME HasUsers PROVE HasUsers'
  <2>1. \A x \in Tab : store'[x].pair # NoPair => store'[x].user
    BY <1>4, <1>6, TypedParts DEF HasUsers
  <2>2. saved'.pair # NoPair => saved'.user
    BY <1>4, <1>5, <1>6 DEF HasUsers
  <2>3. \A x \in Agent : Refreshing(x)' => Refreshing(x) /\ TabOf[x] # t
    BY <1>1, StateNames DEF Refreshing, Posting
  <2>4. \A x \in Agent : Refreshing(x)' => store'[TabOf[x]].user
    BY <1>4, <1>6, <2>3, Tabs, TypedParts DEF HasUsers
  <2> QED
    BY <2>1, <2>2, <2>4 DEF HasUsers
<1> QED
  BY <1>3, <1>4, <1>6 DEF UserInv

LEMMA ExpireQueue ==
  ASSUME QueueInv, UserInv, UNCHANGED <<store, saved, refreshing, agent, late>>
  PROVE  QueueInv' /\ UserInv'
<1>1. QueueInv'
  BY DEF QueueInv, QueueIsServed, Queued, Refreshing
<1>2. UserInv'
  BY DEF UserInv, HasUsers, Refreshing
<1> QED
  BY <1>1, <1>2

\* A token that is posted is one of a tab with a user.
LEMMA PostedUsers ==
  ASSUME TypeOK, UserInv, NEW a \in Agent, Posts(a), late' = late
  PROVE  UserInv'
<1>1. Others(a) /\ UNCHANGED <<store, saved>> /\ store[TabOf[a]].pair # NoPair
  BY PostEffect DEF Posts
<1>2. HasUsers => HasUsers'
  BY <1>1, Tabs DEF HasUsers, Others, Refreshing
<1> QED
  BY <1>2 DEF UserInv

LEMMA CallRefreshesQueue ==
  ASSUME TypeOK, QueueInv, UserInv, NEW a \in Api, CallRefreshes(a)
  PROVE  QueueInv' /\ UserInv'
<1> DEFINE t == TabOf[a]
<1>1. /\ Posts(a) /\ a \in Agent /\ late' = late
      /\ ~refreshing[t] /\ refreshing' = [refreshing EXCEPT ![t] = TRUE]
  BY DEF CallRefreshes, Posts, Unauthorized, MayRefresh, server, Agent
<1>2. Others(a) /\ agent'[a].pc = "post"
  BY <1>1, PostEffect
<1>3. t \in Tab /\ refreshing'[t] /\ \A x \in Tab \ {t} : refreshing'[x] = refreshing[x]
  BY <1>1, Tabs DEF TypeOK
<1>4. \A x \in Api : TabOf[x] = t => ~Refreshing(x) /\ agent[x].pc # "queued"
  BY <1>1, <1>3 DEF QueueInv, QueueIsServed, Queued
<1>5. \A x \in Api : TabOf[x] = t => (Refreshing(x)' <=> x = a)
  BY <1>2, <1>4 DEF Others, Refreshing, Posting, Agent
<1>6. \A x \in Api : TabOf[x] # t => agent'[x] = agent[x]
  BY <1>2 DEF Others, Agent
<1>7. \A x \in Tab \ {t} : Queued(x)' = Queued(x)
  BY <1>6 DEF Queued
<1>8. \A x \in Api : TabOf[x] \in Tab /\ (TabOf[x] # t => (Refreshing(x)' <=> Refreshing(x)))
  BY <1>6, Tabs DEF Refreshing, Agent
<1>9. QueueInv'
  BY <1>3, <1>5, <1>7, <1>8 DEF QueueInv, QueueIsServed
<1> QED
  BY <1>1, <1>9, PostedUsers

\* The calls of a tab that are refreshing or queued end with its refresh.
LEMMA RefreshingCalls ==
  ASSUME TypeOK, QueueInv, NEW a \in Api, agent[a].pc = "answered", NEW x \in Api, TabOf[x] = TabOf[a],
         x # a, x \notin Queued(TabOf[a])
  PROVE  ~Refreshing(x) /\ agent[x].pc # "queued"
BY Tabs DEF QueueInv, QueueIsServed, Queued, Refreshing, Posting, Agent

LEMMA CallRefreshedQueue ==
  ASSUME TypeOK, QueueInv, UserInv, NEW a \in Api, CallRefreshed(a)
  PROVE  QueueInv' /\ UserInv'
<1> DEFINE t == TabOf[a]
           n == agent[a].got
<1>1. /\ t \in Tab /\ a \in Agent /\ Arrived(a) /\ SetTokens(t, n) /\ late' = late
      /\ agent[a].pc = "answered" /\ refreshing' = [refreshing EXCEPT ![t] = FALSE]
  BY Tabs DEF CallRefreshed, Arrived, Agent, history
<1>2. \A x \in Agent : IF x = a \/ x \in Queued(t) THEN agent'[x].pc = "sent" ELSE agent'[x] = agent[x]
  <2>1. agent' = [x \in Agent |->
           CASE x = a -> Sent(store'[t].pair, TRUE, NoPair)
             [] x \in Queued(t) -> Sent(store'[t].pair, FALSE, NoPair)
             [] OTHER -> agent[x]]
    BY DEF CallRefreshed, Resolved
  <2>2. Sent(store'[t].pair, TRUE, NoPair).pc = "sent" /\ Sent(store'[t].pair, FALSE, NoPair).pc = "sent"
    BY DEF Sent
  <2> QED
    BY <2>1, <2>2
<1>3. \A x \in Api : TabOf[x] = t => agent'[x].pc # "queued" /\ ~Refreshing(x)'
  BY <1>1, <1>2, RefreshingCalls DEF Refreshing, Posting, Agent
<1>4. \A x \in Api : TabOf[x] # t => agent'[x] = agent[x]
  BY <1>2 DEF Queued, Agent
<1>5. QueueInv'
  BY <1>1, <1>3, <1>4, QueueEnds
<1>6. \A x \in Agent : Refreshing(x)' => Refreshing(x)
  BY <1>2 DEF Refreshing, Posting
<1>7. UserInv'
  BY <1>1, <1>6, TakenUsers
<1> QED
  BY <1>5, <1>7

LEMMA CallRefreshFailedQueue ==
  ASSUME TypeOK, QueueInv, UserInv, NEW a \in Api, CallRefreshFailed(a)
  PROVE  QueueInv' /\ UserInv'
<1> DEFINE t == TabOf[a]
<1>1. /\ t \in Tab /\ a \in Agent /\ ClearAuth(t, {a}) /\ late' \in BOOLEAN
      /\ agent[a].pc = "answered" /\ refreshing' = [refreshing EXCEPT ![t] = FALSE]
  BY Tabs DEF CallRefreshFailed, ClearAuth, Agent, TypeOK
<1>2. \A x \in Agent : IF x = a \/ x \in Queued(t) THEN agent'[x].pc = "idle" ELSE agent'[x] = agent[x]
  BY StateNames DEF CallRefreshFailed
<1>3. \A x \in Api : TabOf[x] = t => agent'[x].pc # "queued" /\ ~Refreshing(x)'
  BY <1>1, <1>2, RefreshingCalls DEF Refreshing, Posting, Agent
<1>4. \A x \in Api : TabOf[x] # t => agent'[x] = agent[x]
  BY <1>2 DEF Queued, Agent
<1>5. QueueInv'
  BY <1>1, <1>3, <1>4, QueueEnds
<1>6. \A x \in Agent : Refreshing(x)' => Refreshing(x) /\ x \notin {a}
  BY <1>2 DEF Refreshing, Posting
<1>7. UserInv'
  BY <1>1, <1>6, ClearedUsers
<1> QED
  BY <1>5, <1>7

LEMMA StreamRefreshesQueue ==
  ASSUME TypeOK, QueueInv, UserInv, NEW s \in Stream, StreamRefreshes(s)
  PROVE  QueueInv' /\ UserInv'
<1>1. s \in Agent /\ s \notin Api /\ Posts(s) /\ UNCHANGED <<refreshing, late>>
  BY DEF StreamRefreshes, Posts, Unauthorized, server, Agent
<1>2. \A x \in Api : agent'[x] = agent[x]
  BY <1>1, PostEffect DEF Others, Agent
<1>3. QueueInv'
  BY <1>1, <1>2 DEF QueueInv, QueueIsServed, Queued, Refreshing
<1> QED
  BY <1>1, <1>3, PostedUsers

LEMMA StreamRefreshedQueue ==
  ASSUME TypeOK, QueueInv, UserInv, NEW s \in Stream, StreamRefreshed(s)
  PROVE  QueueInv' /\ UserInv'
<1> DEFINE n == agent[s].got
<1>1. /\ s \in Agent /\ s \notin Api /\ Arrived(s) /\ SetTokens(TabOf[s], n)
      /\ Set(s, Sent(n, FALSE, agent[s].for)) /\ UNCHANGED <<refreshing, late>>
  BY DEF StreamRefreshed, Arrived, Agent, history
<1>2. Others(s) /\ agent'[s].pc = "sent"
  <2>1. Sent(n, FALSE, agent[s].for).pc = "sent"
    BY DEF Sent
  <2>2. agent'[s] = Sent(n, FALSE, agent[s].for) /\ Others(s)
    BY <1>1, SetOne
  <2> QED
    BY <2>1, <2>2
<1>3. \A x \in Api : agent'[x] = agent[x]
  BY <1>1, <1>2 DEF Others, Agent
<1>4. QueueInv'
  BY <1>1, <1>3 DEF QueueInv, QueueIsServed, Queued, Refreshing
<1>5. \A x \in Agent : Refreshing(x)' => Refreshing(x)
  BY <1>2 DEF Others, Refreshing, Posting
<1> QED
  BY <1>1, <1>4, <1>5, TakenUsers

LEMMA QueueStep ==
  ASSUME TypeOK, QueueInv, UserInv, [Next]_vars
  PROVE  QueueInv' /\ UserInv'
<1>1. CASE UNCHANGED vars \/ \E n \in Pairs : Expire(n) \/ Outlast(n)
  BY <1>1, ExpireQueue DEF vars, Expire, Outlast, history
<1>2. CASE \E t \in Tab : SignIn(t) \/ SignOut(t) \/ Load(t)
  BY <1>2, SignInQueue, SignOutQueue, LoadQueue
<1>3. CASE \E a \in Agent : Refresh(a)
  BY <1>3, RefreshStays, StaysKept
<1>4. ASSUME NEW a \in Api, Call(a) \/ CallProceeds(a)
      PROVE  QueueInv' /\ UserInv'
  <2>1. a \in Agent
    BY DEF Agent
  <2> QED
    BY <1>4, <2>1, CallStays, StaysKept, CallClears, ClearsKept, CallRefreshesQueue, CallRefreshedQueue,
       CallRefreshFailedQueue DEF CallProceeds
<1>5. ASSUME NEW s \in Stream, StreamStep(s)
      PROVE  QueueInv' /\ UserInv'
  <2>1. s \in Agent
    BY DEF Agent
  <2> QED
    BY <1>5, <2>1, StreamStays, StaysKept, StreamClears, ClearsKept, StreamRefreshesQueue, StreamRefreshedQueue
       DEF StreamStep
<1> QED
  BY <1>1, <1>2, <1>3, <1>4, <1>5 DEF Next

LEMMA QueueStart == Init => QueueInv /\ UserInv
BY Tabs DEF Init, QueueInv, QueueIsServed, Queued, UserInv, HasUsers, Refreshing, Posting, Idle, Nobody, Agent

LEMMA QueueInvHolds == Spec => [](QueueInv /\ UserInv)
<1>1. TypeOK /\ QueueInv /\ UserInv /\ [Next]_vars => QueueInv' /\ UserInv'
  BY QueueStep
<1> QED
  BY <1>1, QueueStart, TypeCorrect, PTL DEF Spec

\* A call waits in failedQueue only while another call of its tab refreshes,
\* and one does at a time.
THEOREM QueueIsServedHolds == Spec => []QueueIsServed
<1>1. QueueInv => QueueIsServed
  BY DEF QueueInv
<1> QED
  BY <1>1, QueueInvHolds, PTL

\* Tokens without a user come only from a refresh that outlived a sign-out.
THEOREM UserlessOnlyByLateRefreshHolds == Spec => []UserlessOnlyByLateRefresh
<1>1. UserInv => UserlessOnlyByLateRefresh
  BY DEF UserInv, HasUsers, UserlessOnlyByLateRefresh
<1> QED
  BY <1>1, QueueInvHolds, PTL

(***************************************************************************)
(* What becomes of a token that is spent.                                  *)
(***************************************************************************)
\* The token was presented by two, or by a stream.
Shared(m) == \E p, q \in presented : p[1] = m /\ q[1] = m /\ (p # q \/ p[3] = "stream")

\* A call of tab t trades it: it is past the deletion, and neither refused nor lost.
Underway(m, t) == \E b \in Api : TabOf[b] = t /\ agent[b].tok = m /\ Spending(b)

\* Neither tab t nor localStorage nor any refresh has it any more.
Gone(m, t) ==
  /\ store[t].pair # m /\ saved.pair # m
  /\ \A a \in Agent : Refreshing(a) => agent[a].tok # m

SpentWell(m) ==
  \/ m \in lost
  \/ Shared(m)
  \/ \E t \in Tab : <<m, t, "api">> \in presented /\ (Underway(m, t) \/ Gone(m, t))

SpentOk == \A m \in Pairs \ live : SpentWell(m)

\* A pair on its way to the browser is nobody else's yet.
FreshGot ==
  \A a \in Agent : Arrived(a) =>
    /\ \A p \in presented : p[1] # agent[a].got
    /\ \A t \in Tab : store[t].pair # agent[a].got
    /\ saved.pair # agent[a].got
    /\ \A b \in Agent : Arrived(b) /\ agent[b].got = agent[a].got => b = a

\* A token refused was lost, outlived or shared.
Excused == \A a \in Agent : agent[a].pc = "answered" /\ agent[a].got = NoPair =>
             agent[a].tok \in lost \cup overdue \/ Shared(agent[a].tok)

TokenInv == FreshGot /\ SpentOk /\ Excused

LEMMA PresentedPairs ==
  ASSUME TypeOK, NEW p \in presented
  PROVE  p[1] \in Pairs
BY DEF TypeOK

LEMMA SharedGrows ==
  ASSUME NEW m, Shared(m), presented \subseteq presented'
  PROVE  Shared(m)'
BY DEF Shared

\* Two tokens of the same number posted by different agents are shared.
LEMMA PostedTwice ==
  ASSUME NEW m, NEW t, <<m, t, "api">> \in presented, NEW u, NEW k, <<m, u, k>> \in presented,
         u # t \/ k # "api"
  PROVE  Shared(m)
<1>1. <<m, t, "api">> # <<m, u, k>>
  OBVIOUS
<1> QED
  BY <1>1 DEF Shared

\* A second refresh with a token that was spent well is by somebody else.
LEMMA SpentTwice ==
  ASSUME TypeOK, Posted, QueueInv, SpentOk, NEW a \in Agent, Refreshing(a), ~Spending(a),
         agent[a].tok \notin live
  PROVE  agent[a].tok \in lost \/ Shared(agent[a].tok)
<1>0. PICK m : m = agent[a].tok
  OBVIOUS
<1>1. m \in Pairs \ live /\ <<m, TabOf[a], Kind(a)>> \in presented
  BY <1>0, SimpleStates DEF Posted
<1> SUFFICES ASSUME NEW t \in Tab, <<m, t, "api">> \in presented, Underway(m, t) \/ Gone(m, t)
             PROVE  Shared(m)
  BY <1>0, <1>1 DEF SpentOk, SpentWell
<1>2. CASE TabOf[a] = t /\ a \in Api
  <2>1. PICK b \in Api : TabOf[b] = t /\ Spending(b)
    BY <1>0 DEF Underway, Gone
  <2>2. Refreshing(b)
    BY <2>1 DEF Spending, Arrived, Refreshing, Posting
  <2>3. a = b
    BY <1>2, <2>1, <2>2 DEF QueueInv, QueueIsServed
  <2> QED
    BY <2>1, <2>3
<1>3. CASE TabOf[a] # t \/ a \notin Api
  <2>1. TabOf[a] # t \/ Kind(a) # "api"
    BY <1>3 DEF Kind
  <2> QED
    BY <1>1, <2>1, PostedTwice
<1> QED
  BY <1>2, <1>3

LEMMA SignInTokens ==
  ASSUME TypeOK, TokenInv, NEW t \in Tab, SignIn(t),
         overdue \subseteq overdue'
  PROVE  TokenInv'
<1>0. PICK n : n = Len(origin')
  OBVIOUS
<1>1. /\ UNCHANGED <<agent, presented, lost>> /\ live' = live \cup {n}
      /\ Pairs' = Pairs \cup {n} /\ n \notin Pairs /\ n # NoPair
      /\ \A x \in Tab : store'[x].pair \in {store[x].pair, n}
      /\ saved'.pair = n
  BY <1>0, SignInEffect
<1>2. \A x \in Agent : agent[x].got # n
  BY <1>1, SimpleStates
<1>3. FreshGot'
  BY <1>1, <1>2 DEF TokenInv, FreshGot, Arrived
<1>4. \A m, x : Underway(m, x)' <=> Underway(m, x)
  BY <1>1 DEF Underway, Spending, Arrived
<1>5. \A m \in Pairs, x \in Tab : Gone(m, x) => Gone(m, x)'
  BY <1>1 DEF Gone, Refreshing
<1>6. \A m : Shared(m) => Shared(m)'
  BY <1>1 DEF Shared
<1>7. \A m \in Pairs \ live : SpentWell(m) => SpentWell(m)'
  BY <1>1, <1>4, <1>5, <1>6 DEF SpentWell
<1>8. SpentOk'
  BY <1>1, <1>7 DEF TokenInv, SpentOk
<1>9. Excused'
  BY <1>1, <1>6 DEF TokenInv, Excused
<1> QED
  BY <1>3, <1>8, <1>9 DEF TokenInv

\* Requests at rest had their pairs lost with them, or were no refreshes.
LEMMA QuietTokens ==
  ASSUME TypeOK, TokenInv, NEW A \in SUBSET Agent, Quiet(A),
         overdue \subseteq overdue'
  PROVE  TokenInv'
<1>1. /\ UNCHANGED <<live, origin, presented>> /\ lost \subseteq lost'
      /\ \A x \in Agent \ A : agent'[x] = agent[x]
      /\ \A x \in A : agent'[x].pc \notin Posting
      /\ \A x \in A : Spending(x) => agent[x].tok \in lost'
      /\ \A t \in Tab : store'[t].pair \in {NoPair, store[t].pair, saved.pair}
      /\ saved'.pair \in {NoPair, saved.pair}
  BY DEF Quiet, Rests
<1>2. \A x \in Agent : Refreshing(x)' => agent'[x] = agent[x] /\ x \notin A
  BY <1>1 DEF Refreshing
<1>3. \A x \in Agent : agent'[x].pc = "answered" => agent'[x] = agent[x]
  BY <1>2 DEF Refreshing, Posting
<1>4. FreshGot'
  <2>1. \A t \in Tab, x \in Agent : Arrived(x)' => Arrived(x) /\ agent'[x] = agent[x]
    BY <1>3 DEF Arrived
  <2>2. \A x \in Agent : Arrived(x)' => agent[x].got # NoPair
    BY <1>3 DEF Arrived
  <2>3. \A x \in Agent : Arrived(x)' =>
          (\A t \in Tab : store'[t].pair # agent'[x].got) /\ saved'.pair # agent'[x].got
    BY <1>1, <1>3, <2>2 DEF TokenInv, FreshGot, Arrived
  <2>4. \A x \in Agent : Arrived(x)' => \A b \in Agent : Arrived(b)' /\ agent'[b].got = agent'[x].got => b = x
    BY <1>3 DEF TokenInv, FreshGot, Arrived
  <2>5. \A x \in Agent : Arrived(x)' => \A p \in presented' : p[1] # agent'[x].got
    BY <1>1, <1>3 DEF TokenInv, FreshGot, Arrived
  <2> QED
    BY <2>3, <2>4, <2>5 DEF FreshGot
<1>5. \A m : Shared(m) => Shared(m)'
  BY <1>1 DEF Shared
<1>6. \A m, t : Underway(m, t) => m \in lost' \/ Underway(m, t)'
  BY <1>1 DEF Underway, Spending, Arrived, Agent
<1>7. \A m \in Pairs, t \in Tab : Gone(m, t) => Gone(m, t)'
  <2>1. NoPair \notin Pairs
    BY TypedParts
  <2> QED
    BY <1>1, <1>2, <2>1 DEF Gone, Refreshing
<1>8. \A m \in Pairs : SpentWell(m) => SpentWell(m)'
  BY <1>1, <1>5, <1>6, <1>7 DEF SpentWell
<1>9. SpentOk'
  <2>1. Pairs' = Pairs /\ live' = live
    BY <1>1 DEF Pairs
  <2> QED
    BY <1>8, <2>1 DEF TokenInv, SpentOk
<1>10. Excused'
  BY <1>1, <1>3, <1>5 DEF TokenInv, Excused
<1> QED
  BY <1>4, <1>9, <1>10 DEF TokenInv

\* The pair taken replaces, in the tab and in localStorage, the token that
\* bought it.
LEMMA TakesTokens ==
  ASSUME TypeOK, Posted, QueueInv, TokenInv, NEW a \in Agent, NEW A \in SUBSET Agent, Takes(a, A),
         overdue \subseteq overdue'
  PROVE  TokenInv'
<1>0. PICK n : n = agent[a].got
  OBVIOUS
<1>1. /\ UNCHANGED <<live, origin, presented, lost>> /\ a \in A /\ Arrived(a)
      /\ \A x \in Agent \ A : agent'[x] = agent[x]
      /\ \A x \in A : agent'[x].pc \notin Posting
      /\ \A x \in A \ {a} : ~Refreshing(x)
      /\ \A t \in Tab : store'[t].pair \in {store[t].pair, n}
      /\ store'[TabOf[a]].pair = n /\ saved'.pair = n
  BY <1>0 DEF Takes, Rests
<1>2. \A x \in Agent : Refreshing(x)' => agent'[x] = agent[x] /\ x \notin A /\ Refreshing(x)
  BY <1>1 DEF Refreshing
<1>3. \A x \in Agent : agent'[x].pc = "answered" => agent'[x] = agent[x] /\ x # a
  BY <1>1, <1>2 DEF Refreshing, Posting
<1>4. /\ \A p \in presented : p[1] # n
      /\ \A x \in Agent : Arrived(x) /\ agent[x].got = n => x = a
  BY <1>0, <1>1 DEF TokenInv, FreshGot
<1>5. FreshGot'
  <2>1. \A x \in Agent : Arrived(x)' =>
          (\A t \in Tab : store'[t].pair # agent'[x].got) /\ saved'.pair # agent'[x].got
    BY <1>1, <1>3, <1>4 DEF TokenInv, FreshGot, Arrived
  <2>2. \A x \in Agent : Arrived(x)' => \A b \in Agent : Arrived(b)' /\ agent'[b].got = agent'[x].got => b = x
    BY <1>3 DEF TokenInv, FreshGot, Arrived
  <2>3. \A x \in Agent : Arrived(x)' => \A p \in presented' : p[1] # agent'[x].got
    BY <1>1, <1>3 DEF TokenInv, FreshGot, Arrived
  <2> QED
    BY <2>1, <2>2, <2>3 DEF FreshGot
<1>6. \A m : Shared(m) => Shared(m)'
  BY <1>1 DEF Shared
<1>7. \A m, t : <<m, t, "api">> \in presented => m # n
  BY <1>4
<1>8. ASSUME NEW m, NEW t \in Tab, <<m, t, "api">> \in presented, Underway(m, t)
      PROVE  Shared(m) \/ Underway(m, t)' \/ Gone(m, t)'
  <2>1. PICK b \in Api : TabOf[b] = t /\ agent[b].tok = m /\ Spending(b)
    BY <1>8 DEF Underway
  <2>2. b \in Agent /\ Refreshing(b)
    BY <2>1 DEF Agent, Spending, Arrived, Refreshing, Posting
  <2>3. CASE b \notin A
    BY <1>1, <2>1, <2>2, <2>3 DEF Underway, Spending, Arrived
  <2>4. CASE b \in A
    <3>1. b = a
      BY <1>1, <2>2, <2>4
    <3>2. ASSUME NEW x \in Agent, Refreshing(x)', agent'[x].tok = m
          PROVE  Shared(m)
      <4>1. x \notin A /\ Refreshing(x) /\ agent[x].tok = m
        BY <1>2, <3>2
      <4>2. <<m, TabOf[x], Kind(x)>> \in presented
        BY <4>1 DEF Posted
      <4>3. ~(x \in Api /\ TabOf[x] = t)
        BY <1>1, <2>1, <2>2, <3>1, <4>1 DEF QueueInv, QueueIsServed
      <4>4. TabOf[x] # t \/ Kind(x) # "api"
        BY <4>3 DEF Kind
      <4> QED
        BY <1>8, <4>2, <4>4, PostedTwice
    <3>3. store'[t].pair # m /\ saved'.pair # m
      BY <1>1, <1>7, <1>8, <2>1, <3>1
    <3> QED
      BY <3>2, <3>3 DEF Gone
  <2> QED
    BY <2>3, <2>4
<1>9. ASSUME NEW m, NEW t \in Tab, <<m, t, "api">> \in presented, Gone(m, t)
      PROVE  Gone(m, t)'
  BY <1>1, <1>2, <1>7, <1>9 DEF Gone
<1>10. \A m \in Pairs : SpentWell(m) => SpentWell(m)'
  BY <1>1, <1>6, <1>8, <1>9 DEF SpentWell
<1>11. SpentOk'
  <2>1. Pairs' = Pairs /\ live' = live
    BY <1>1 DEF Pairs
  <2> QED
    BY <1>10, <2>1 DEF TokenInv, SpentOk
<1>12. Excused'
  BY <1>1, <1>3, <1>6 DEF TokenInv, Excused
<1> QED
  BY <1>5, <1>11, <1>12 DEF TokenInv

\* A tab posts what its store has: a spent token only if it was another tab's.
LEMMA PostTokens ==
  ASSUME TypeOK, Posted, TokenInv, NEW a \in Agent, Posts(a),
         overdue \subseteq overdue'
  PROVE  TokenInv'
<1>0. PICK n : n = agent'[a].tok
  OBVIOUS
<1>1. /\ Others(a) /\ agent'[a].pc = "post" /\ agent'[a].tok = n /\ n = store[TabOf[a]].pair
      /\ ~Refreshing(a) /\ presented' = presented \cup {<<n, TabOf[a], Kind(a)>>}
      /\ UNCHANGED <<live, origin, store, saved, lost>>
  BY <1>0, PostEffect DEF Posts
<1>2. \A x \in Agent : agent'[x].pc \in {"answered", "deleted"} => agent'[x] = agent[x] /\ x # a
  BY <1>1 DEF Others
<1>3. FreshGot'
  <2>1. \A x \in Agent : Arrived(x) => agent[x].got # n
    BY <1>1, Tabs DEF TokenInv, FreshGot
  <2> QED
    BY <1>1, <1>2, <2>1 DEF TokenInv, FreshGot, Arrived
<1>4. \A m : Shared(m) => Shared(m)'
  BY <1>1, SharedGrows
<1>5. ASSUME NEW m, NEW t, Underway(m, t) PROVE Underway(m, t)'
  BY <1>1, <1>5 DEF Underway, Spending, Arrived, Others, Refreshing, Posting, Agent
<1>6. ASSUME NEW m, NEW t \in Tab, <<m, t, "api">> \in presented, Gone(m, t)
      PROVE  Shared(m)' \/ Gone(m, t)'
  <2>1. CASE m = n
    <3>1. TabOf[a] # t
      BY <1>1, <1>6, <2>1 DEF Gone
    <3>2. <<m, t, "api">> \in presented' /\ <<m, TabOf[a], Kind(a)>> \in presented'
          /\ <<m, t, "api">> # <<m, TabOf[a], Kind(a)>>
      BY <1>1, <1>6, <2>1, <3>1
    <3> QED
      BY <3>2 DEF Shared
  <2>2. CASE m # n
    BY <1>1, <1>6, <2>2 DEF Gone, Others, Refreshing
  <2> QED
    BY <2>1, <2>2
<1>7. \A m \in Pairs : SpentWell(m) => SpentWell(m)'
  BY <1>1, <1>4, <1>5, <1>6 DEF SpentWell
<1>8. SpentOk'
  <2>1. Pairs' = Pairs /\ live' = live
    BY <1>1 DEF Pairs
  <2> QED
    BY <1>7, <2>1 DEF TokenInv, SpentOk
<1>9. Excused'
  BY <1>1, <1>2, <1>4 DEF TokenInv, Excused
<1> QED
  BY <1>3, <1>8, <1>9 DEF TokenInv

\* A step of one refresh that neither ends nor loses a spending of its own.
LEMMA KeptTokens ==
  ASSUME TypeOK, TokenInv, NEW a \in Agent, Others(a), Refreshing(a), agent'[a].tok = agent[a].tok,
         UNCHANGED <<store, saved, presented>>, lost \subseteq lost'
  PROVE  /\ \A m : Shared(m) => Shared(m)'
         /\ \A m, t : Gone(m, t) => Gone(m, t)'
         /\ \A m, t : Underway(m, t) => (Spending(a) /\ m = agent[a].tok) \/ Underway(m, t)'
<1>1. \A m : Shared(m) => Shared(m)'
  BY DEF Shared
<1>2. \A m, t : Gone(m, t) => Gone(m, t)'
  BY DEF Gone, Others, Refreshing
<1>3. ASSUME NEW m, NEW t, Underway(m, t), ~(Spending(a) /\ m = agent[a].tok) PROVE Underway(m, t)'
  <2>1. PICK b \in Api : TabOf[b] = t /\ agent[b].tok = m /\ Spending(b)
    BY <1>3 DEF Underway
  <2>2. agent'[b] = agent[b]
    BY <1>3, <2>1 DEF Others, Agent
  <2> QED
    BY <2>1, <2>2 DEF Underway, Spending, Arrived
<1> QED
  BY <1>1, <1>2, <1>3

\* A refresh that fails at a query, or goes on without spending.
LEMMA CheckTokens ==
  ASSUME TypeOK, Posted, QueueInv, TokenInv, NEW a \in Agent, Others(a), Refreshing(a), ~Spending(a),
         agent'[a].tok = agent[a].tok, UNCHANGED <<live, origin, store, saved, presented, lost>>,
         overdue \subseteq overdue',
         \/ agent'[a].pc = "found"
         \/ agent'[a].pc = "answered" /\ agent'[a].got = NoPair /\ agent[a].tok \notin live \ overdue
  PROVE  TokenInv'
<1>1. \A x \in Agent : Arrived(x)' => agent'[x] = agent[x]
  BY DEF Others, Arrived
<1>2. FreshGot'
  BY <1>1 DEF TokenInv, FreshGot, Arrived
<1>3. \A m \in Pairs : SpentWell(m) => SpentWell(m)'
  BY KeptTokens DEF SpentWell
<1>4. SpentOk'
  <2>1. Pairs' = Pairs /\ live' = live
    BY DEF Pairs
  <2> QED
    BY <1>3, <2>1 DEF TokenInv, SpentOk
<1>5. Excused'
  <2>1. agent[a].tok \notin live \ overdue => agent[a].tok \in (lost \cup overdue)' \/ Shared(agent[a].tok)
    BY SpentTwice DEF TokenInv
  <2>2. \A m : Shared(m) => Shared(m)'
    BY KeptTokens
  <2>3. agent'[a].pc = "answered" => agent'[a].tok \in (lost \cup overdue)' \/ Shared(agent'[a].tok)
    BY <2>1
  <2>4. \A x \in Agent \ {a} : agent'[x].pc = "answered" /\ agent'[x].got = NoPair =>
           agent'[x].tok \in (lost \cup overdue)' \/ Shared(agent'[x].tok)
    BY DEF Others, TokenInv, Excused
  <2>5. \A x \in Agent : agent'[x].pc = "answered" /\ agent'[x].got = NoPair =>
           agent'[x].tok \in (lost \cup overdue)' \/ Shared(agent'[x].tok)
    BY <2>3, <2>4
  <2> QED
    BY <2>5 DEF Excused, Shared
<1> QED
  BY <1>2, <1>4, <1>5 DEF TokenInv

LEMMA DeleteTokens ==
  ASSUME TypeOK, Posted, TokenInv, NEW a \in Agent, RefreshDelete(a), agent'[a].pc = "deleted",
         overdue \subseteq overdue'
  PROVE  TokenInv'
<1>0. PICK m : m = agent[a].tok
  OBVIOUS
<1>1. /\ Others(a) /\ agent[a].pc = "found" /\ agent'[a].tok = m /\ agent[a].tok = m
      /\ UNCHANGED <<origin, store, saved, presented, lost>> /\ live' = live \ {m}
  BY <1>0, DeleteEffect
<1>2. Refreshing(a) /\ ~Spending(a)
  BY <1>1 DEF Refreshing, Posting, Spending, Arrived
<1>3. \A x \in Agent : agent'[x].pc = "answered" => agent'[x] = agent[x]
  BY <1>1 DEF Others
<1>4. FreshGot'
  BY <1>1, <1>3 DEF TokenInv, FreshGot, Arrived
<1>5. \A k \in Pairs : SpentWell(k) => SpentWell(k)'
  BY <1>1, <1>2, KeptTokens DEF SpentWell
<1>6. SpentWell(m)'
  <2>1. <<m, TabOf[a], Kind(a)>> \in presented' /\ TabOf[a] \in Tab
    BY <1>1, <1>2, Tabs DEF Posted
  <2>2. CASE a \in Api
    <3>1. <<m, TabOf[a], "api">> \in presented'
      BY <2>1, <2>2 DEF Kind
    <3>2. Underway(m, TabOf[a])'
      BY <1>1, <2>2 DEF Underway, Spending
    <3> QED
      BY <2>1, <3>1, <3>2 DEF SpentWell
  <2>3. CASE a \notin Api
    <3>1. <<m, TabOf[a], "stream">> \in presented'
      BY <2>1, <2>3 DEF Kind
    <3>2. Shared(m)'
      BY <3>1 DEF Shared
    <3> QED
      BY <3>2 DEF SpentWell
  <2> QED
    BY <2>2, <2>3
<1>7. SpentOk'
  <2>1. Pairs' = Pairs
    BY <1>1 DEF Pairs
  <2> QED
    BY <1>1, <1>5, <1>6, <2>1 DEF TokenInv, SpentOk
<1>8. Excused'
  BY <1>1, <1>3 DEF TokenInv, Excused, Shared
<1> QED
  BY <1>4, <1>7, <1>8 DEF TokenInv

LEMMA CreateTokens ==
  ASSUME TypeOK, TokenInv, NEW a \in Agent, RefreshCreate(a),
         overdue \subseteq overdue'
  PROVE  TokenInv'
<1>0. PICK n : n = Len(origin')
  OBVIOUS
<1>1. /\ Others(a) /\ agent[a].pc = "deleted" /\ agent'[a].tok = agent[a].tok
      /\ UNCHANGED <<store, saved, presented, lost>> /\ agent'[a].pc = "answered" /\ agent'[a].got = n
      /\ live' = live \cup {n} /\ Pairs' = Pairs \cup {n} /\ n \notin Pairs /\ n # NoPair
  BY <1>0, CreateEffect
<1>2. Refreshing(a) /\ Spending(a)' /\ a \in Agent
  BY <1>1 DEF Refreshing, Posting, Spending, Arrived
<1>3. \A x \in Agent : x # a => agent'[x] = agent[x] /\ agent[x].got # n
  BY <1>1, SimpleStates DEF Others
<1>4. /\ \A p \in presented : p[1] # n
      /\ \A t \in Tab : store[t].pair # n
      /\ saved.pair # n
  BY <1>1, PresentedPairs, TypedParts DEF Row
<1>5. FreshGot'
  <2>1. \A x \in Agent : Arrived(x)' =>
          /\ \A p \in presented' : p[1] # agent'[x].got
          /\ \A t \in Tab : store'[t].pair # agent'[x].got
          /\ saved'.pair # agent'[x].got
    BY <1>1, <1>3, <1>4 DEF TokenInv, FreshGot, Arrived
  <2>2. \A x \in Agent : Arrived(x)' => \A b \in Agent : Arrived(b)' /\ agent'[b].got = agent'[x].got => b = x
    BY <1>1, <1>3 DEF TokenInv, FreshGot, Arrived
  <2> QED
    BY <2>1, <2>2 DEF FreshGot
<1>6. \A m, t : Underway(m, t) => Underway(m, t)'
  BY <1>1, <1>2, <1>3 DEF Underway, Spending, Arrived, Agent
<1>7. \A m \in Pairs : SpentWell(m) => SpentWell(m)'
  BY <1>1, <1>2, <1>6, KeptTokens DEF SpentWell
<1>8. SpentOk'
  BY <1>1, <1>7 DEF TokenInv, SpentOk
<1>9. Excused'
  BY <1>1, <1>3 DEF TokenInv, Excused, Shared
<1> QED
  BY <1>5, <1>8, <1>9 DEF TokenInv

LEMMA LostTokens ==
  ASSUME TypeOK, TokenInv, NEW a \in Agent, RefreshLost(a),
         overdue \subseteq overdue'
  PROVE  TokenInv'
<1>0. PICK m : m = agent[a].tok
  OBVIOUS
<1>1. /\ Others(a) /\ Refreshing(a) /\ agent[a].tok = m /\ agent'[a].tok = m
      /\ UNCHANGED <<live, origin, store, saved, presented>> /\ lost' = lost \cup {m}
      /\ agent'[a].pc = "answered" /\ agent'[a].got = NoPair
  BY <1>0, LostEffect
<1>2. \A x \in Agent : Arrived(x)' => agent'[x] = agent[x]
  BY <1>1 DEF Others, Arrived
<1>3. FreshGot'
  BY <1>1, <1>2 DEF TokenInv, FreshGot, Arrived
<1>4. \A k \in Pairs : SpentWell(k) => SpentWell(k)'
  BY <1>1, KeptTokens DEF SpentWell
<1>5. SpentOk'
  <2>1. Pairs' = Pairs /\ live' = live
    BY <1>1 DEF Pairs
  <2> QED
    BY <1>4, <2>1 DEF TokenInv, SpentOk
<1>6. Excused'
  BY <1>1 DEF TokenInv, Excused, Shared, Others
<1> QED
  BY <1>3, <1>5, <1>6 DEF TokenInv

LEMMA TokenStep ==
  ASSUME TypeOK, Posted, QueueInv, TokenInv, Kinds,
         overdue \subseteq overdue'
  PROVE  TokenInv'
<1>1. ASSUME NEW a \in Agent, RefreshFind(a) PROVE TokenInv'
  <2>1. Refreshing(a) /\ ~Spending(a)
    BY <1>1 DEF RefreshFind, Refreshing, Posting, Spending, Arrived
  <2> QED
    BY <1>1, <2>1, FindEffect, CheckTokens
<1>2. ASSUME NEW a \in Agent, RefreshDelete(a) PROVE TokenInv'
  <2>1. Refreshing(a) /\ ~Spending(a)
    BY <1>2 DEF RefreshDelete, Refreshing, Posting, Spending, Arrived
  <2> QED
    BY <1>2, <2>1, DeleteEffect, CheckTokens, DeleteTokens
<1>3. CASE \E t \in Tab : SignIn(t)
  BY <1>3, SignInTokens
<1>4. CASE \E A \in SUBSET Agent : Quiet(A)
  BY <1>4, QuietTokens
<1>5. CASE \E a \in Agent, A \in SUBSET Agent : Takes(a, A)
  BY <1>5, TakesTokens
<1>6. CASE \E a \in Agent : Posts(a) \/ RefreshCreate(a) \/ RefreshLost(a)
  BY <1>6, PostTokens, CreateTokens, LostTokens
<1> QED
  BY <1>1, <1>2, <1>3, <1>4, <1>5, <1>6 DEF Kinds

\* Nothing removes a row past its 7 days, and no row gets younger.
LEMMA OverdueGrows ==
  ASSUME [Next]_vars
  PROVE  overdue \subseteq overdue'
<1>1. ASSUME NEW t \in Tab, SignIn(t) \/ SignOut(t) \/ Load(t) PROVE overdue' = overdue
  BY <1>1 DEF SignIn, SignOut, Load, server
<1>2. ASSUME NEW n \in Pairs, Expire(n) \/ Outlast(n) PROVE overdue \subseteq overdue'
  BY <1>2 DEF Expire, Outlast
<1>3. ASSUME NEW a \in Agent, Refresh(a) PROVE overdue' = overdue
  BY <1>3 DEF Refresh, RefreshFind, RefreshDelete, RefreshCreate, RefreshLost, server
<1>4. ASSUME NEW a \in Api, Call(a) \/ CallProceeds(a) PROVE overdue' = overdue
  BY <1>4 DEF Call, CallProceeds, CallAnswered, CallRejected, CallSignedOut, CallQueued, CallRefreshes,
              CallRefreshed, CallRefreshFailed, server
<1>5. ASSUME NEW a \in Stream, StreamStep(a) PROVE overdue' = overdue
  BY <1>5 DEF StreamStep, Connect, Connected, Disconnected, StreamRefreshes, StreamSignedOut, StreamRefreshed,
              StreamRefreshFailed, server
<1>6. CASE UNCHANGED vars
  BY <1>6 DEF vars
<1> QED
  BY <1>1, <1>2, <1>3, <1>4, <1>5, <1>6 DEF Next

LEMMA TokenStart == Init => TokenInv
<1> SUFFICES ASSUME Init PROVE TokenInv
  OBVIOUS
<1>1. Pairs = {} /\ \A a \in Agent : agent[a].pc = "idle"
  BY DEF Init, Pairs, Idle
<1> QED
  BY <1>1 DEF TokenInv, FreshGot, SpentOk, Excused, Arrived

\* A refresh fails only where an answer got lost, the token is past its 7 days,
\* or it was presented by another tab or a stream too: the interceptor alone
\* never presents a token twice.
THEOREM RefreshFailureExplained == Spec => []RefreshFailureIsExplained
<1>1. TypeInv /\ QueueInv /\ TokenInv /\ [Next]_vars => TokenInv'
  BY EveryStepIsOfAKind, OverdueGrows, TokenStep DEF TypeInv
<1>2. TokenInv => RefreshFailureIsExplained
  <2> SUFFICES ASSUME TokenInv, NEW a \in Agent, agent[a].pc = "answered", agent[a].got = NoPair,
                      agent[a].tok \notin lost \cup overdue
               PROVE  \E p, q \in presented : p[1] = agent[a].tok /\ q[1] = p[1] /\ (p # q \/ p[3] = "stream")
    BY DEF RefreshFailureIsExplained
  <2>1. Shared(agent[a].tok)
    BY DEF TokenInv, Excused
  <2> QED
    BY <2>1 DEF Shared
<1> QED
  BY <1>1, <1>2, TokenStart, TypeInvHolds, QueueInvHolds, PTL DEF Spec
=============================================================================
