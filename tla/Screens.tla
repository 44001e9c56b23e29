------------------------------ MODULE Screens ------------------------------
(***************************************************************************)
(* One tab of the frontend: its react-query cache, the pages that read and *)
(* write through it, the users who sign in one after the other.            *)
(*                                                                         *)
(* The keys of the cache do not depend on each other, so a behaviour       *)
(* follows one query and one change that writes what the query shows,      *)
(* chosen at the start among the screens of a role.  The rows behind them  *)
(* are counted: how often the followed change was made, how often anyone   *)
(* else wrote them.                                                        *)
(*                                                                         *)
(* providers.tsx makes one QueryClient per page load: an answer is fresh   *)
(* for 30 seconds, a failed read is tried once more.  Signing out clears   *)
(* the store of tokens and moves to the login page without a page load, so *)
(* the cache stays.                                                        *)
(***************************************************************************)
EXTENDS AdminScreens

CONSTANTS User,         \* people who use the tab
          MaxOwn,       \* bound on how often a user makes the followed change
          MaxOther,     \* bound on how often others write a user's rows
          NoUser,       \* signed out
          Nothing       \* undefined

-----------------------------------------------------------------------------
\* What there is to follow

QueriesOf(role) == DashboardLayout[role] \cup UNION {p.mounts : p \in Pages[role]}
ChangesOf(role) == UNION {p.offers : p \in Pages[role]}

Named(pages) == {p.name : p \in pages}

\* The pages with a form of one of the kinds for the query and the change.
WithForm(role, q, m, kinds) ==
  Named({p \in Pages[role] : \E kind \in kinds : Form(q, m, kind) \in p.forms})

Followed(role, q, m) ==
  [query    |-> q.key,
   change   |-> m.name,
   layout   |-> q \in DashboardLayout[role],
   mounts   |-> Named({p \in Pages[role] : q \in p.mounts}),
   offers   |-> Named({p \in Pages[role] : m \in p.offers}),
   guarded  |-> Named({p \in Pages[role] : m \in p.guarded}),
   fillOnce |-> WithForm(role, q, m, {"asked"}),
   follow   |-> WithForm(role, q, m, {"answered", "settled", "always", "user"}),
   settled  |-> WithForm(role, q, m, {"settled", "user"}),
   always   |-> WithForm(role, q, m, {"always"}),
   refill   |-> WithForm(role, q, m, {"user"}),
   stales   |-> Stales(m, q),
   once     |-> m.accepted = "once"]

PairsOf(role, q) == {Followed(role, q, m) : m \in {c \in ChangesOf(role) : Touches(c, q)}}

Pair == UNION {UNION {PairsOf(role, q) : q \in QueriesOf(role)} : role \in Role}

VARIABLES
  pair,     \* the followed query and change
  user,     \* who is signed in
  page,     \* the page on the screen
  entry,    \* the cached answer
  reading,    \* the read under way
  mutation,     \* the mutation under way
  form,     \* the form: filled from the query, or typed in before that
  row,      \* the rows of each user at the server
  landed,   \* an answer asked for under this sign-in has landed
  been,     \* who has signed in; each once
  excuse    \* what kept the cache from hearing of a change

screensVars == <<pair, user, page, entry, reading, mutation, form, row, landed, been, excuse>>

Written == [own : 0 .. MaxOwn, other : 0 .. MaxOther]

Shown   == [of : User, row : Written]
Cached  == [of : User, row : Written, fresh : BOOLEAN]
Request == [by : User, under : User, row : Written \cup {Nothing}, passed : BOOLEAN]
Sending == [by : User, base : Shown \cup {Nothing}, screen : Shown \cup {Nothing},
            at : {"sent", "done", "refused"}, heard : BOOLEAN]

\* A form typed into before any answer has filled it.
Unfilled == [of |-> NoUser, row |-> Nothing, typed |-> TRUE]
Draft == [of : User, row : Written, typed : BOOLEAN] \cup {Unfilled}

ASSUME ScreensAssumption ==
  /\ SubscriptionFlow \in BOOLEAN /\ Billing \in BOOLEAN
  /\ MaxOwn \in Nat /\ MaxOther \in Nat
  /\ NoUser \notin User /\ Nothing \notin Written
  /\ Nothing \notin Cached \cup Request \cup Sending \cup Draft

ScreensTypeOK ==
  /\ user \in User \cup {NoUser}
  /\ page \in pair.mounts \cup pair.offers \cup {"elsewhere", "outside"}
  /\ entry \in Cached \cup {Nothing}
  /\ reading \in Request \cup {Nothing} /\ mutation \in Sending \cup {Nothing}
  /\ form \in Draft \cup {Nothing}
  /\ row \in [User -> Written]
  /\ landed \in BOOLEAN /\ been \subseteq User
  /\ excuse \subseteq {"unheard", "failed", "late"}

ScreensInit ==
  /\ pair \in Pair
  /\ user = NoUser /\ page = "outside"
  /\ entry = Nothing /\ reading = Nothing /\ mutation = Nothing /\ form = Nothing
  /\ row = [u \in User |-> [own |-> 0, other |-> 0]]
  /\ landed = FALSE /\ been = {} /\ excuse = {}

-----------------------------------------------------------------------------
\* The cache

Mounts(p) == p \in pair.mounts \/ (pair.layout /\ p # "outside")

Of(answer) == [of |-> answer.of, row |-> answer.row]

\* Slip: the token is set once, when the tab first reads.
AskedAsBefore(u) ==
  [by |-> IF entry = Nothing THEN u ELSE entry.of, under |-> u,
   row |-> Nothing, passed |-> FALSE]

\* The request interceptor takes the token of whoever is signed in.
Asked(u) == [by |-> u, under |-> u, row |-> Nothing, passed |-> FALSE]

Old(cached) == cached # Nothing => ~cached.fresh

\* A query mounts: an old answer is shown and read again; a read under way
\* is joined, whoever asked for it.
Mounting(p, u, cached) ==
  IF p \in pair.mounts /\ Old(cached) /\ reading = Nothing THEN Asked(u) ELSE reading

\* Slip: every answer fills the form, changed or not.
FilledAlways(p, cached, held) ==
  IF p \in pair.follow /\ cached # Nothing
    THEN [of |-> cached.of, row |-> cached.row, typed |-> FALSE]
    ELSE held

\* Slip: the effect that fills the form runs once.
FilledOnce(p, cached, held) ==
  IF p \in pair.follow /\ cached # Nothing /\ held = Nothing
    THEN [of |-> cached.of, row |-> cached.row, typed |-> FALSE]
    ELSE held

\* A form that follows its query is filled by a page's first answer and by
\* every changed one; an equal answer leaves what was typed.
Filled(p, cached, held) ==
  IF p \in pair.follow /\ cached # Nothing
       /\ (held = Nothing \/ Of(held) # Of(cached))
    THEN [of |-> cached.of, row |-> cached.row, typed |-> FALSE]
    ELSE held

\* updateUser makes a new user of the old one: the effect that has the user
\* among its dependencies fills the form with the answer on the screen.
Refilled == IF page \in pair.refill THEN Filled(page, entry, Nothing) ELSE form

-----------------------------------------------------------------------------
\* What the user does

SignIn(u) ==
  /\ user = NoUser /\ u \notin been
  /\ user' = u /\ page' = "elsewhere" /\ landed' = FALSE
  /\ been' = been \cup {u}
  /\ reading' = IF pair.layout /\ Old(entry) /\ reading = Nothing THEN Asked(u) ELSE reading
  /\ UNCHANGED <<pair, entry, mutation, form, row, excuse>>

\* handleSignOut: clearAuth and the login page; the cache is not cleared.
SignOut ==
  /\ user # NoUser
  /\ user' = NoUser /\ page' = "outside" /\ form' = Nothing
  /\ UNCHANGED <<pair, been, entry, reading, mutation, row, landed, excuse>>

Visit(p) ==
  /\ user # NoUser /\ page # p
  /\ page' = p
  /\ reading' = Mounting(p, user, entry)
  /\ form' = Filled(p, entry, Nothing)
  /\ UNCHANGED <<pair, been, user, entry, mutation, row, landed, excuse>>

\* A page load, or the layout of another language: a new QueryClient.  The
\* signed-in user is kept in the browser's storage; a mutation under way is no
\* longer heard of.
Reload ==
  /\ user # NoUser
  /\ entry' = Nothing /\ form' = Nothing
  /\ reading' = IF Mounts(page) THEN Asked(user) ELSE Nothing
  /\ mutation' = IF mutation = Nothing THEN Nothing ELSE [mutation EXCEPT !.heard = FALSE]
  /\ UNCHANGED <<pair, been, user, page, row, landed, excuse>>

\* The window gets the focus back: an old answer on the screen is read again.
Focus ==
  /\ user # NoUser /\ Mounts(page) /\ Old(entry) /\ reading = Nothing
  /\ reading' = Asked(user)
  /\ UNCHANGED <<pair, been, user, page, entry, mutation, form, row, landed, excuse>>

\* startEdit copies the row on the screen into the form.
StartEdit ==
  /\ page \in pair.fillOnce /\ entry # Nothing /\ form = Nothing
  /\ form' = [of |-> entry.of, row |-> entry.row, typed |-> FALSE]
  /\ UNCHANGED <<pair, been, user, page, entry, reading, mutation, row, landed, excuse>>

FormShown ==
  IF entry = Nothing
    THEN page \in pair.always \/ (page \in pair.settled /\ reading = Nothing)
    ELSE form # Nothing

Type ==
  /\ FormShown
  /\ form' = IF form \in {Nothing, Unfilled} THEN Unfilled ELSE [form EXCEPT !.typed = TRUE]
  /\ UNCHANGED <<pair, been, user, page, entry, reading, mutation, row, landed, excuse>>

\* The button: disabled while the mutation is pending, absent where the row on
\* the screen has had the change; a form sends what it was filled with.
Send ==
  /\ page \in pair.offers /\ mutation = Nothing
  /\ page \in pair.guarded => entry # Nothing /\ entry.row.own = 0
  /\ page \in pair.follow \cup pair.fillOnce => FormShown
  /\ mutation' = [by     |-> user,
              base   |-> IF form \in {Nothing, Unfilled} THEN Nothing ELSE Of(form),
              screen |-> IF entry = Nothing THEN Nothing ELSE Of(entry),
              at |-> "sent", heard |-> TRUE]
  /\ UNCHANGED <<pair, been, user, page, entry, reading, form, row, landed, excuse>>

\* The language switcher writes the user's language to the store before it
\* moves to the pages of that language; a profile saved under the language
\* before does so when it is answered.
UserWritten ==
  /\ page \in pair.refill
  /\ form' = Refilled
  /\ UNCHANGED <<pair, been, user, page, entry, reading, mutation, row, landed, excuse>>

-----------------------------------------------------------------------------
\* What the server and the network do

Accept ==
  /\ mutation # Nothing /\ mutation.at = "sent"
  /\ row[mutation.by].own < MaxOwn
  /\ pair.once => row[mutation.by].own = 0
  /\ mutation' = [mutation EXCEPT !.at = "done"]
  /\ row' = [row EXCEPT ![mutation.by].own = @ + 1]
  /\ UNCHANGED <<pair, been, user, page, entry, reading, form, landed, excuse>>

\* Validation, a check of the row's state, or a failure.
Refuse ==
  /\ mutation # Nothing /\ mutation.at = "sent"
  /\ mutation' = [mutation EXCEPT !.at = "refused"]
  /\ UNCHANGED <<pair, been, user, page, entry, reading, form, row, landed, excuse>>

\* Slip: invalidating does not drop the read under way.
InvalidatedJoining ==
  /\ entry' = IF entry = Nothing THEN Nothing ELSE [entry EXCEPT !.fresh = FALSE]
  /\ reading' = IF Mounts(page) /\ reading = Nothing THEN Asked(user) ELSE reading

\* onSuccess, which runs even when the page is gone: invalidateQueries marks
\* the answer old; on the screen it is asked for anew and a read under way
\* is dropped, elsewhere a read under way goes on.
Invalidated ==
  /\ entry' = IF entry = Nothing THEN Nothing ELSE [entry EXCEPT !.fresh = FALSE]
  /\ reading' = IF Mounts(page) THEN Asked(user)
              ELSE IF reading # Nothing THEN [reading EXCEPT !.passed = TRUE] ELSE Nothing

Succeed ==
  /\ mutation # Nothing /\ mutation.at = "done" /\ mutation.heard
  /\ mutation' = Nothing
  /\ IF pair.stales THEN Invalidated ELSE UNCHANGED <<entry, reading>>
  /\ form' = Refilled
  /\ UNCHANGED <<pair, been, user, page, row, landed, excuse>>

\* A refusal only shows a message; an unheard answer does nothing.
EndUnheard ==
  /\ mutation # Nothing
  /\ mutation.at = "refused" \/ (mutation.at = "done" /\ ~mutation.heard)
  /\ mutation' = Nothing
  /\ excuse' = IF mutation.at = "done" THEN excuse \cup {"unheard"} ELSE excuse
  /\ UNCHANGED <<pair, been, user, page, entry, reading, form, row, landed>>

LoseAnswer ==
  /\ mutation # Nothing /\ mutation.heard
  /\ mutation' = [mutation EXCEPT !.heard = FALSE]
  /\ UNCHANGED <<pair, been, user, page, entry, reading, form, row, landed, excuse>>

Read ==
  /\ reading # Nothing /\ reading.row = Nothing
  /\ reading' = [reading EXCEPT !.row = row[reading.by]]
  /\ UNCHANGED <<pair, been, user, page, entry, mutation, form, row, landed, excuse>>

\* A landing answer is fresh, whatever was invalidated on its way.
Land ==
  /\ reading # Nothing /\ reading.row # Nothing
  /\ LET answer == [of |-> reading.by, row |-> reading.row, fresh |-> TRUE] IN
       /\ entry' = answer
       /\ form' = Filled(page, answer, form)
  /\ reading' = Nothing
  /\ landed' = (landed \/ (user # NoUser /\ reading.under = user))
  /\ excuse' = IF reading.row.own = row[reading.by].own THEN {}
               ELSE IF reading.passed THEN excuse \cup {"late"} ELSE excuse
  /\ UNCHANGED <<pair, been, user, page, mutation, row>>

\* Twice: retry is 1.  The old answer stays on the screen.
Fail ==
  /\ reading # Nothing
  /\ reading' = Nothing
  /\ excuse' = excuse \cup {"failed"}
  /\ UNCHANGED <<pair, been, user, page, entry, mutation, form, row, landed>>

\* 30 seconds.
GrowOld ==
  /\ entry # Nothing /\ entry.fresh
  /\ entry' = [entry EXCEPT !.fresh = FALSE]
  /\ UNCHANGED <<pair, been, user, page, reading, mutation, form, row, landed, excuse>>

\* The other party, another device, a job, another change of the same user.
OtherWrites(u) ==
  /\ user = u /\ pair.follow \cup pair.fillOnce # {}
  /\ row[u].other < MaxOther
  /\ row' = [row EXCEPT ![u].other = @ + 1]
  /\ UNCHANGED <<pair, been, user, page, entry, reading, mutation, form, landed, excuse>>

ScreensNext ==
  \/ \E u \in User : SignIn(u) \/ OtherWrites(u)
  \/ SignOut \/ Reload \/ Focus \/ StartEdit \/ Type \/ Send \/ UserWritten
  \/ \E p \in pair.mounts \cup pair.offers \cup {"elsewhere"} : Visit(p)
  \/ Accept \/ Refuse \/ Succeed \/ EndUnheard \/ LoseAnswer
  \/ Read \/ Land \/ Fail \/ GrowOld

ScreensSpec == ScreensInit /\ [][ScreensNext]_screensVars

-----------------------------------------------------------------------------
\* Properties

Lacks == entry # Nothing /\ user # NoUser /\ entry.of = user /\ entry.row.own < row[user].own

\* Pairs of a change and a query that the hooks forget: the change writes
\* what the query shows and leaves its cached answer alone.
Forgotten ==
  \* what is missing for going live is told by the profile
  {"UpdateDistributorProducts", "CreateCustomProduct", "CreatePricing", "UpdatePricing",
   "CreateDeliverySlot", "DeleteDeliverySlot", "UpdateBillingSettings"}
     \X {<<"distributor", "profile">>} \cup
  \* the registered name
  {"UpdateDistributorProfile", "UpdateCustomerProfile"} \X {<<"identity", "status">>} \cup
  \* what ending a subscription now would bill
  {"UpdateDeliveryItem", "BulkDeliveryStatus", "RunBillingCycle",
   "CreateCustomProduct", "CreatePricing", "UpdatePricing"}
     \X {<<"distributor", "subscriptions", "id", "end-status">>} \cup
  \* a customer's name on the lists of subscriptions, bills and deliveries
  {"UpdateDistributorCustomer"}
     \X {<<"distributor", "subscriptions">>, <<"distributor", "bills", "id">>,
         <<"distributor", "bills", "filters">>, <<"distributor", "billing", "dues">>,
         <<"distributor", "deliveries", "filters">>} \cup
  \* a customer's page and the subscriptions on it
  {"CreateDistributorSubscription", "ApproveSubscription", "RejectSubscription",
   "RequestEnd", "ConfirmEnd", "RejectEnd"} \X {<<"distributor", "customers", "id">>} \cup
  \* what is still to be paid
  {"RecordPayment", "ConfirmEnd"} \X {<<"distributor", "billing", "dues">>} \cup
  \* a product's name
  {"UpdateAdminProduct"}
     \X {<<"admin", "subscriptions", "status">>, <<"admin", "customers", "id">>}

\* The list is exact for the hooks as they stand.
ASSUME ForgottenIsExact ==
  SubscriptionFlow /\ Billing
    => Forgotten = {<<p.change, p.query>> : p \in {x \in Pair : ~x.stales}}

\* A page at rest shows every change its user has made through the tab, save
\* for the pairs the hooks forget: useUpdate*, useCreate* and the rest name
\* by hand the keys their change makes old.  Otherwise the answer to the
\* change was lost, a read failed, or a read sent before the change landed
\* on a page opened after it.
OwnChangesShow ==
  Lacks /\ Mounts(page) /\ reading = Nothing /\ mutation = Nothing
    => \/ excuse # {}
       \/ <<pair.change, pair.query>> \in Forgotten

\* Whoever signs in after someone else on the same tab sees that one's data,
\* since handleSignOut leaves the QueryClient as it was; but never again once
\* an answer of their own has landed.
OthersDataIsLeftover ==
  landed /\ entry # Nothing /\ user # NoUser => entry.of = user

\* What a save undoes was on nobody's screen yet when the save was sent,
\* unless the form was filled once and left alone (admin products).
SavesWhatIsShown ==
  [][\A u \in User :
       row'[u].own > row[u].own /\ mutation.base # Nothing /\ mutation.base.row # row[u]
         => mutation.base = mutation.screen \/ pair.fillOnce # {}]_screensVars

\* What was typed disappears under the user's hands, other than with the whole
\* page, only for an answer the form was not filled with: the row has changed
\* since, or the form was open before the first answer.  The customer's
\* profile is the exception: its form goes back to the cached answer when its
\* own save is answered and whenever else the store's user is written.
TypedTextLossHasACause ==
  [][form # Nothing /\ form.typed /\ page' = page /\ ~Reload
       => \/ form' = form
          \/ form' # Nothing /\ Of(form') # Of(form)
          \/ page \in pair.refill /\ (Succeed \/ UserWritten)]_screensVars
=============================================================================
