----------------------------- MODULE Onboarding -----------------------------
(***************************************************************************)
(* One user's identity documents (identity.service), the identityVerified  *)
(* flag of the profile that is derived from them, and a distributor's way  *)
(* to GO_LIVE (distributor.service goLive, readiness.service).  The flag   *)
(* is what discovery, the crons and the setup wizard look at.              *)
(*                                                                         *)
(* A Call is one handler in flight, a step what lies between two of its    *)
(* queries.  A document's verdict (the name matcher and the OCR) is a      *)
(* choice; a suspended user's handlers do not start.  A customer is the    *)
(* same without goLive and the setup steps.                                *)
(***************************************************************************)
EXTENDS Naturals, Sequences, FiniteSets

CONSTANTS
  Doc,          \* bound: the documents ever uploaded
  MaxDocuments, \* MAX_DOCUMENTS
  Need,         \* what readiness counts after the documents, in its order
  SetupStep,    \* steps of the setup wizard
  Call          \* handlers that may be in flight together

ASSUME OnboardingConstants ==
  /\ IsFiniteSet(Doc) /\ IsFiniteSet(Call) /\ Call # {}
  /\ MaxDocuments \in Nat \ {0}
  /\ Need \in Seq({"products", "pricing", "delivery_slots"})
  /\ \A i, j \in 1 .. Len(Need) : Need[i] = Need[j] => i = j
  /\ "identity_documents" \in SetupStep

VARIABLES
  doc,      \* identityDocument rows, by their state
  flag,     \* profile.identityVerified
  live,     \* profile.setupStatus is GO_LIVE
  has,      \* the needs of which the distributor has an active row
  steps,    \* profile.setupSteps
  call,     \* local state of the handlers
  forsaken, \* history: a handler that changed the documents died before its sync
  overtaken \* history: the last write of the flag was by a handler overtaken by a change

vars == <<doc, flag, live, has, steps, call, forsaken, overtaken>>

Needs == {Need[i] : i \in 1 .. Len(Need)}

(***************************************************************************)
(* goal is the handler, doc the document it works on, saw what its last    *)
(* count of verified documents found, step the setup step it completes,    *)
(* base the setupSteps it read.  moved is history: what others changed     *)
(* since the handler last counted the documents or read the steps.         *)
(***************************************************************************)
CallState ==
  [pc : {"idle", "create", "remove", "count", "write", "assert", "profile",
         "documents", "publish", "steps", "save"} \cup Needs,
   goal : {"none", "upload", "delete", "status", "goLive", "complete"},
   doc : Doc \cup {"none"}, saw : {"none", "VERIFIED"}, step : SetupStep \cup {"none"},
   base : SUBSET SetupStep, moved : SUBSET {"documents", "needs", "steps"}]

Idle == [pc |-> "idle", goal |-> "none", doc |-> "none", saw |-> "none",
         step |-> "none", base |-> {}, moved |-> {}]

TypeOK ==
  /\ doc \in [Doc -> {"new", "VERIFIED", "DECLINED", "deleted"}]
  /\ flag \in BOOLEAN /\ live \in BOOLEAN
  /\ has \subseteq Needs /\ steps \subseteq SetupStep
  /\ call \in [Call -> CallState]
  /\ forsaken \in BOOLEAN /\ overtaken \in BOOLEAN

Init ==
  /\ doc = [d \in Doc |-> "new"]
  /\ flag = FALSE /\ live = FALSE
  /\ has = {} /\ steps = {}
  /\ call = [c \in Call |-> Idle]
  /\ forsaken = FALSE /\ overtaken = FALSE

Present  == {d \in Doc : doc[d] \in {"VERIFIED", "DECLINED"}}
Verified == \E d \in Doc : doc[d] = "VERIFIED"

----------------------------------------------------------------------------
(* A handler's own state.                                                  *)

At(c, pc) == call[c].pc = pc

Start(c, pc, goal, d, s) ==
  /\ At(c, "idle")
  /\ call' = [call EXCEPT ![c] = [Idle EXCEPT !.pc = pc, !.goal = goal, !.doc = d, !.step = s]]

Goto(c, pc) == call' = [call EXCEPT ![c].pc = pc]

\* What a handler at pc has read and will yet write something upon.
Relies(pc) ==
  CASE pc = "write"                 -> {"documents"}
    [] pc \in Needs \cup {"publish"} -> {"documents", "needs"}
    [] pc = "save"                  -> {"steps"}
    [] OTHER                        -> {}

\* Another handler changed "what".
Changed(k, what) == [k EXCEPT !.moved = @ \cup ({what} \cap Relies(k.pc))]

\* An idle handler is as new: nothing of its last request is left.
Ended(k) == IF k.pc = "idle" THEN Idle ELSE k

GotoChanging(c, pc, what) ==
  call' = [x \in Call |-> IF x = c THEN Ended([call[c] EXCEPT !.pc = pc])
                                   ELSE Changed(call[x], what)]

\* History, at a write of the flag.
Wrote(c) == /\ overtaken' = ("documents" \in call[c].moved)
            /\ forsaken' = FALSE

----------------------------------------------------------------------------
(* Documents.                                                              *)

\* Slip: the limit is compared with what will be there.
BelowOrAtLimit == Cardinality(Present) <= MaxDocuments

BelowLimit == Cardinality(Present) < MaxDocuments

\* uploadDocument counts the documents, then matches the names ...
UploadRead(c) ==
  /\ BelowLimit
  /\ \E d \in Doc : doc[d] = "new" /\ \A x \in Call : call[x].doc # d
                    /\ Start(c, "create", "upload", d, "none")
  /\ UNCHANGED <<doc, flag, live, has, steps, forsaken, overtaken>>

Verdict == {"VERIFIED", "DECLINED"}

\* ... and creates the row.
UploadCreate(c) ==
  /\ At(c, "create")
  /\ \E verdict \in Verdict : doc' = [doc EXCEPT ![call[c].doc] = verdict]
  /\ GotoChanging(c, "count", "documents")
  /\ UNCHANGED <<flag, live, has, steps, forsaken, overtaken>>

DeleteRead(c) ==
  /\ \E d \in Present : Start(c, "remove", "delete", d, "none")
  /\ UNCHANGED <<doc, flag, live, has, steps, forsaken, overtaken>>

\* Slip: what the flag says is left to the next poll.
RemoveOnly == "idle"

AfterRemove == "count"

\* A row that is gone already makes the delete throw: the handler dies.
DeleteRow(c) ==
  /\ At(c, "remove") /\ call[c].doc \in Present
  /\ doc' = [doc EXCEPT ![call[c].doc] = "deleted"]
  /\ GotoChanging(c, AfterRemove, "documents")
  /\ UNCHANGED <<flag, live, has, steps, forsaken, overtaken>>

\* getStatus; assertCustomerIdentityVerified falls back on it.
Status(c) ==
  /\ Start(c, "count", "status", "none", "none")
  /\ UNCHANGED <<doc, flag, live, has, steps, forsaken, overtaken>>

----------------------------------------------------------------------------
(* syncIdentityVerified: a count, then the flag.                           *)

SyncCount(c) ==
  /\ At(c, "count")
  /\ call' = [call EXCEPT ![c].pc = "write", ![c].saw = IF Verified THEN "VERIFIED" ELSE "none"]
  /\ UNCHANGED <<doc, flag, live, has, steps, forsaken, overtaken>>

AfterSync(goal) == IF goal \in {"goLive", "complete"} THEN "assert" ELSE "idle"

SyncWrite(c) ==
  /\ At(c, "write")
  /\ flag' = (call[c].saw = "VERIFIED")
  /\ LET pc == AfterSync(call[c].goal) IN
     call' = [call EXCEPT ![c] = Ended([@ EXCEPT !.pc = pc, !.saw = "none", !.moved = {}])]
  /\ Wrote(c)
  /\ UNCHANGED <<doc, live, has, steps>>

----------------------------------------------------------------------------
(* goLive.                                                                 *)

GoLive(c) ==
  /\ Start(c, "count", "goLive", "none", "none")
  /\ UNCHANGED <<doc, flag, live, has, steps, forsaken, overtaken>>

\* hasVerifiedUploadedDocument, the second count of assertDistributorIdentityForGoLive.
AssertIdentity(c) ==
  /\ At(c, "assert") /\ Verified
  /\ Goto(c, IF call[c].goal = "goLive" THEN "profile" ELSE "steps")
  /\ UNCHANGED <<doc, flag, live, has, steps, forsaken, overtaken>>

\* checkReadiness reads the profile, flag included ...
ReadyProfile(c) ==
  /\ At(c, "profile") /\ flag
  /\ Goto(c, "documents")
  /\ UNCHANGED <<doc, flag, live, has, steps, forsaken, overtaken>>

\* Slip: the flag is taken for the documents.
FlagWillDo == flag

DocumentsReady == Verified

\* ... counts the verified documents ...
FirstNeed == IF Need = <<>> THEN "publish" ELSE Need[1]

ReadyDocuments(c) ==
  /\ At(c, "documents") /\ DocumentsReady
  /\ call' = [call EXCEPT ![c].pc = FirstNeed]
  /\ UNCHANGED <<doc, flag, live, has, steps, forsaken, overtaken>>

\* ... and then the active products, prices and slots, one query each.
ReadyNeed(c) ==
  /\ \E i \in 1 .. Len(Need) :
       /\ At(c, Need[i]) /\ Need[i] \in has
       /\ Goto(c, IF i = Len(Need) THEN "publish" ELSE Need[i + 1])
  /\ UNCHANGED <<doc, flag, live, has, steps, forsaken, overtaken>>

\* The update of the profile writes the flag too, and all of the steps.
Publish(c) ==
  /\ At(c, "publish")
  /\ flag' = TRUE /\ live' = TRUE /\ steps' = SetupStep
  /\ GotoChanging(c, "idle", "steps")
  /\ Wrote(c)
  /\ UNCHANGED <<doc, has>>

----------------------------------------------------------------------------
(* completeSetupStep, and the rows readiness counts.                       *)

Complete(c) ==
  /\ \E s \in SetupStep :
       Start(c, IF s = "identity_documents" THEN "count" ELSE "steps", "complete", "none", s)
  /\ UNCHANGED <<doc, flag, live, has, steps, forsaken, overtaken>>

StepsRead(c) ==
  /\ At(c, "steps")
  /\ call' = [call EXCEPT ![c].pc = "save", ![c].base = steps]
  /\ UNCHANGED <<doc, flag, live, has, steps, forsaken, overtaken>>

\* Slip: the step replaces those before it.
OnlyStep(k) == {k.step}

WithStep(k) == k.base \cup {k.step}

StepsSave(c) ==
  /\ At(c, "save")
  /\ steps' = WithStep(call[c])
  /\ GotoChanging(c, "idle", "steps")
  /\ UNCHANGED <<doc, flag, live, has, forsaken, overtaken>>

\* updateProducts, createPricing, updatePricing, createDeliverySlot,
\* updateDeliverySlot, deleteDeliverySlot: the first active row comes, or the
\* last one goes.
ChangeNeed ==
  /\ \E n \in Needs : has' = IF n \in has THEN has \ {n} ELSE has \cup {n}
  /\ call' = [x \in Call |-> Changed(call[x], "needs")]
  /\ UNCHANGED <<doc, flag, live, steps, forsaken, overtaken>>

\* A handler dies between two queries, or throws at a check that fails.
Owes(k) == k.goal \in {"upload", "delete"} /\ k.pc \in {"count", "write"}

Die(c) ==
  /\ ~At(c, "idle")
  /\ call' = [call EXCEPT ![c] = Idle]
  /\ forsaken' = (forsaken \/ Owes(call[c]))
  /\ UNCHANGED <<doc, flag, live, has, steps, overtaken>>

Next ==
  \/ ChangeNeed
  \/ \E c \in Call :
       \/ UploadRead(c) \/ UploadCreate(c) \/ DeleteRead(c) \/ DeleteRow(c)
       \/ Status(c) \/ SyncCount(c) \/ SyncWrite(c)
       \/ GoLive(c) \/ AssertIdentity(c) \/ ReadyProfile(c) \/ ReadyDocuments(c)
       \/ ReadyNeed(c) \/ Publish(c)
       \/ Complete(c) \/ StepsRead(c) \/ StepsSave(c) \/ Die(c)

Spec == Init /\ [][Next]_vars

----------------------------------------------------------------------------
(* Properties.                                                             *)

\* The flag differs from what the documents say only while a handler that
\* changed them is still to sync, after one died before it did, or after a
\* handler that had counted before a change wrote the flag: not by any handler
\* that ran alone, goLive with its own write of the flag included.
DriftIsExplained ==
  ~(flag <=> Verified) => forsaken \/ overtaken \/ \E c \in Call : Owes(call[c])

\* The limit is a count before the creation: each handler in flight may exceed
\* it by one, and no more than that, however many are uploaded and deleted.
LimitOverrunIsBounded ==
  Cardinality(Present) + 1 <= MaxDocuments + Cardinality(Call)

\* A distributor goes live without a verified document or without something
\* readiness asks for only if it went away while goLive was at its checks.
LiveLacksOnlyWhatWent ==
  [][~live /\ live' =>
       \E c \in Call : /\ At(c, "publish")
                       /\ Verified \/ "documents" \in call[c].moved
                       /\ has = Needs \/ "needs" \in call[c].moved]_vars

\* A setup step once completed is forgotten only by a handler that read the
\* steps before another wrote them.
StepsForgottenOnlyByOverlap ==
  [][~(steps \subseteq steps') =>
       \E c \in Call : At(c, "save") /\ "steps" \in call[c].moved]_vars
=============================================================================
