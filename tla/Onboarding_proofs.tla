-------------------------- MODULE Onboarding_proofs --------------------------
(***************************************************************************)
(* Proofs about Onboarding, for any number of documents, handlers, setup   *)
(* steps and needs.                                                        *)
(*                                                                         *)
(* The invariant says of each handler in flight (HandlerOk) that what it   *)
(* has read still holds, or that its history field "moved" says it was     *)
(* overtaken; Next adds to moved whenever it writes what a handler relies  *)
(* upon.  The bound on the documents counts those about to be created.     *)
(***************************************************************************)
EXTENDS Onboarding, FiniteSetTheorems, TLAPS

\* v, h and s are Verified, has and steps.
HandlerOk(k, v, h, s) ==
  /\ k.pc = "create" => k.goal = "upload"
  /\ k.pc = "remove" => k.goal = "delete"
  /\ k.pc = "write" => (k.saw = "VERIFIED" <=> v) \/ "documents" \in k.moved
  /\ k.pc \in Needs \cup {"publish"} => v \/ "documents" \in k.moved
  /\ \A i \in 1 .. Len(Need) :
       k.pc = Need[i] => "needs" \in k.moved \/ \A j \in 1 .. i - 1 : Need[j] \in h
  /\ k.pc = "publish" => "needs" \in k.moved \/ h = Needs
  /\ k.pc = "save" => "steps" \in k.moved \/ k.base = s

\* Who saves a setup step has one to save.
StepOk(k) ==
  /\ k.goal = "complete" => k.step \in SetupStep
  /\ k.pc = "assert" => k.goal \in {"goLive", "complete"}
  /\ k.pc \in {"steps", "save"} => k.goal = "complete"

CallPc == {"idle", "create", "remove", "count", "write", "assert", "profile",
           "documents", "publish", "steps", "save"} \cup Needs

StateOk(k) == k \in CallState /\ StepOk(k)

TypeInv == TypeOK /\ \A c \in Call : StepOk(call[c])

Creating == {c \in Call : At(c, "create")}

HandlersOk == \A c \in Call : HandlerOk(call[c], Verified, has, steps)

OnboardingInv == TypeInv /\ HandlersOk /\ DriftIsExplained

Bounded(P, C) == Cardinality(P) + Cardinality(C) + 1 <= MaxDocuments + Cardinality(Call)

CountInv == TypeInv /\ Bounded(Present, Creating)

(***************************************************************************)
(* What the updates of a handler's state do.                               *)
(***************************************************************************)
LEMMA NeedsAre ==
  /\ Needs \subseteq {"products", "pricing", "delivery_slots"}
  /\ Len(Need) \in Nat
  /\ \A i \in 1 .. Len(Need) : Need[i] \in Needs
  BY OnboardingConstants DEF Needs

LEMMA IdleOk ==
  ASSUME NEW v, NEW h, NEW s
  PROVE  Idle \in CallState /\ HandlerOk(Idle, v, h, s)
  BY NeedsAre DEF Idle, CallState, HandlerOk

LEMMA ChangedIs ==
  ASSUME NEW k \in CallState, NEW what \in {"documents", "needs", "steps"}
  PROVE  /\ Changed(k, what) \in CallState
         /\ Changed(k, what).pc = k.pc /\ Changed(k, what).goal = k.goal
         /\ Changed(k, what).saw = k.saw /\ Changed(k, what).base = k.base
         /\ Changed(k, what).doc = k.doc /\ Changed(k, what).step = k.step
         /\ k.moved \subseteq Changed(k, what).moved
         /\ what \in Relies(k.pc) => what \in Changed(k, what).moved
  BY DEF Changed, CallState

LEMMA ReliesIs ==
  /\ Relies("write") = {"documents"}
  /\ \A pc \in Needs \cup {"publish"} : Relies(pc) = {"documents", "needs"}
  /\ Relies("save") = {"steps"}
<1>1. "write" \notin Needs \cup {"publish"} /\ "save" \notin Needs \cup {"publish"}
  BY NeedsAre
<1> QED
  BY <1>1 DEF Relies

\* A handler that is overtaken is still as HandlerOk says, with the new values.
LEMMA Overtaken ==
  ASSUME NEW k \in CallState, NEW v, NEW h, NEW s, HandlerOk(k, v, h, s)
  PROVE  /\ \A w : HandlerOk(Changed(k, "documents"), w, h, s)
         /\ \A g : HandlerOk(Changed(k, "needs"), v, g, s)
         /\ \A r : HandlerOk(Changed(k, "steps"), v, h, r)
<1> DEFINE D == Changed(k, "documents")
           N == Changed(k, "needs")
           S == Changed(k, "steps")
<1>1. /\ D.pc = k.pc /\ D.goal = k.goal /\ D.saw = k.saw /\ D.base = k.base
      /\ k.moved \subseteq D.moved
      /\ k.pc \in {"write", "publish"} \cup Needs => "documents" \in D.moved
  BY ChangedIs, ReliesIs
<1>2. /\ N.pc = k.pc /\ N.goal = k.goal /\ N.saw = k.saw /\ N.base = k.base
      /\ k.moved \subseteq N.moved
      /\ k.pc \in {"publish"} \cup Needs => "needs" \in N.moved
  BY ChangedIs, ReliesIs
<1>3. /\ S.pc = k.pc /\ S.goal = k.goal /\ S.saw = k.saw /\ S.base = k.base
      /\ k.moved \subseteq S.moved
      /\ k.pc = "save" => "steps" \in S.moved
  BY ChangedIs, ReliesIs
<1> HIDE DEF D, N, S
<1>4. ASSUME NEW w PROVE HandlerOk(D, w, h, s)
  BY <1>1 DEF HandlerOk
<1>5. ASSUME NEW g PROVE HandlerOk(N, v, g, s)
  BY <1>2, NeedsAre DEF HandlerOk
<1>6. ASSUME NEW r PROVE HandlerOk(S, v, h, r)
  BY <1>3 DEF HandlerOk
<1> QED
  BY <1>4, <1>5, <1>6 DEF D, N, S

(***************************************************************************)
(* The type invariant.                                                     *)
(***************************************************************************)
LEMMA StartTypes ==
  ASSUME NEW pc \in {"create", "remove", "count", "steps"},
         NEW goal \in {"upload", "delete", "status", "goLive", "complete"},
         NEW d \in Doc \cup {"none"}, NEW s \in SetupStep \cup {"none"},
         goal = "complete" => s \in SetupStep, pc = "steps" => goal = "complete"
  PROVE  StateOk([Idle EXCEPT !.pc = pc, !.goal = goal, !.doc = d, !.step = s])
  BY DEF Idle, CallState, StateOk, StepOk

\* The handler alone goes on.
LEMMA OneTypes ==
  ASSUME TypeInv, NEW c \in Call, NEW k, StateOk(k), call' = [call EXCEPT ![c] = k]
  PROVE  call' \in [Call -> CallState] /\ \A x \in Call : StepOk(call'[x])
  BY DEF TypeInv, TypeOK, StateOk

\* The handler goes on and the others may be overtaken.
LEMMA ChangingTypes ==
  ASSUME TypeInv, NEW c \in Call, NEW pc \in {"count", "idle"},
         NEW what \in {"documents", "steps"}, GotoChanging(c, pc, what)
  PROVE  call' \in [Call -> CallState] /\ \A x \in Call : StepOk(call'[x])
<1>1. StateOk(Ended([call[c] EXCEPT !.pc = pc]))
  <2>1. StateOk(Idle)
    BY IdleOk DEF StateOk, StepOk, Idle
  <2>2. ASSUME pc = "count" PROVE StateOk([call[c] EXCEPT !.pc = pc])
    BY <2>2 DEF TypeInv, TypeOK, CallState, StateOk, StepOk
  <2>3. [call[c] EXCEPT !.pc = pc].pc = pc
    BY DEF TypeInv, TypeOK, CallState
  <2> QED
    BY <2>1, <2>2, <2>3 DEF Ended
<1>2. \A x \in Call : StateOk(Changed(call[x], what))
  BY ChangedIs DEF TypeInv, TypeOK, StateOk, StepOk
<1> QED
  BY <1>1, <1>2 DEF GotoChanging, StateOk

LEMMA TypeKept == TypeInv /\ [Next]_vars => TypeInv'
<1> SUFFICES ASSUME TypeInv, [Next]_vars PROVE TypeInv'
  OBVIOUS
<1> DEFINE CallsOk == call' \in [Call -> CallState] /\ \A x \in Call : StepOk(call'[x])
<1>0. TypeOK
  BY DEF TypeInv
<1>1. CASE ChangeNeed
  <2>1. \A x \in Call : StateOk(Changed(call[x], "needs"))
    BY ChangedIs DEF TypeInv, TypeOK, StateOk, StepOk
  <2>2. CallsOk
    BY <1>1, <2>1 DEF ChangeNeed, StateOk
  <2> QED
    BY <1>0, <1>1, <2>2 DEF ChangeNeed, TypeOK, TypeInv
<1>2. ASSUME NEW c \in Call, UploadRead(c) PROVE TypeInv'
  <2>1. PICK d \in Doc : Start(c, "create", "upload", d, "none")
    BY <1>2 DEF UploadRead
  <2>2. CallsOk
    BY <2>1, StartTypes, OneTypes DEF Start
  <2> QED
    BY <1>0, <1>2, <2>2 DEF UploadRead, TypeOK, TypeInv
<1>3. ASSUME NEW c \in Call, UploadCreate(c) PROVE TypeInv'
  <2>1. CallsOk
    BY <1>3, ChangingTypes DEF UploadCreate
  <2> QED
    BY <1>0, <1>3, <2>1 DEF UploadCreate, Verdict, TypeOK, TypeInv
<1>4. ASSUME NEW c \in Call, DeleteRead(c) PROVE TypeInv'
  <2>1. PICK d \in Doc : Start(c, "remove", "delete", d, "none")
    BY <1>4 DEF DeleteRead, Present
  <2>2. CallsOk
    BY <2>1, StartTypes, OneTypes DEF Start
  <2> QED
    BY <1>0, <1>4, <2>2 DEF DeleteRead, TypeOK, TypeInv
<1>5. ASSUME NEW c \in Call, DeleteRow(c) PROVE TypeInv'
  <2>1. CallsOk
    BY <1>5, ChangingTypes DEF DeleteRow, AfterRemove
  <2> QED
    BY <1>0, <1>5, <2>1 DEF DeleteRow, TypeOK, TypeInv
<1>6. ASSUME NEW c \in Call, Status(c) \/ GoLive(c) PROVE TypeInv'
  <2>1. ASSUME NEW goal \in {"status", "goLive"}, Start(c, "count", goal, "none", "none")
        PROVE  CallsOk
    BY ZenonT(30), <2>1, StartTypes, OneTypes DEF Start
  <2>2. CallsOk
    BY <1>6, <2>1 DEF Status, GoLive
  <2> QED
    BY <1>0, <1>6, <2>2 DEF Status, GoLive, TypeOK, TypeInv
<1>7. ASSUME NEW c \in Call, SyncCount(c) PROVE TypeInv'
  <2> DEFINE k == [call[c] EXCEPT !.pc = "write", !.saw = IF Verified THEN "VERIFIED" ELSE "none"]
  <2>1. StateOk(k)
    BY ZenonT(30), <1>0 DEF TypeInv, TypeOK, CallState, StateOk, StepOk
  <2>2. call' = [call EXCEPT ![c] = k]
    BY <1>7 DEF SyncCount
  <2> HIDE DEF k
  <2>3. CallsOk
    BY <2>1, <2>2, OneTypes
  <2> QED
    BY <1>0, <1>7, <2>3 DEF SyncCount, TypeOK, TypeInv
<1>8. ASSUME NEW c \in Call, SyncWrite(c) PROVE TypeInv'
  <2> DEFINE k == [call[c] EXCEPT !.pc = AfterSync(call[c].goal), !.saw = "none", !.moved = {}]
  <2>1. StateOk(Ended(k))
    BY ZenonT(30), <1>0, IdleOk DEF Ended, AfterSync, TypeInv, TypeOK, CallState, StateOk, StepOk, Idle
  <2>2. call' = [call EXCEPT ![c] = Ended(k)]
    BY <1>8 DEF SyncWrite
  <2> HIDE DEF k
  <2>3. CallsOk
    BY <2>1, <2>2, OneTypes
  <2>4. flag' \in BOOLEAN /\ overtaken' \in BOOLEAN /\ forsaken' \in BOOLEAN
    <3>1. flag' = (call[c].saw = "VERIFIED")
      BY <1>8 DEF SyncWrite
    <3>2. flag' \in BOOLEAN
      BY <3>1
    <3>3. overtaken' = ("documents" \in call[c].moved)
      BY <1>8 DEF SyncWrite, Wrote
    <3>4. overtaken' \in BOOLEAN
      BY <3>3
    <3>5. forsaken' = FALSE
      BY <1>8 DEF SyncWrite, Wrote
    <3> QED
      BY <3>2, <3>4, <3>5
  <2> QED
    BY <1>0, <1>8, <2>3, <2>4 DEF SyncWrite, TypeOK, TypeInv
<1>9. ASSUME NEW c \in Call, NEW pc \in CallPc, Goto(c, pc),
             pc \in {"steps", "save"} => call[c].goal = "complete", pc # "assert"
      PROVE  CallsOk
  <2>1. StateOk([call[c] EXCEPT !.pc = pc])
    BY <1>0, <1>9 DEF CallPc, TypeInv, TypeOK, CallState, StateOk, StepOk
  <2> QED
    BY <1>9, <2>1, OneTypes DEF Goto
<1>10. ASSUME NEW c \in Call, AssertIdentity(c) PROVE TypeInv'
  <2>1. CallsOk
    BY <1>9, <1>10 DEF AssertIdentity, At, TypeInv, StepOk, CallPc
  <2> QED
    BY <1>0, <1>10, <2>1 DEF AssertIdentity, TypeOK, TypeInv
<1>11. ASSUME NEW c \in Call, ReadyProfile(c) PROVE TypeInv'
  <2>1. CallsOk
    BY <1>9, <1>11 DEF ReadyProfile, CallPc
  <2> QED
    BY <1>0, <1>11, <2>1 DEF ReadyProfile, TypeOK, TypeInv
<1>12. ASSUME NEW c \in Call, ReadyDocuments(c) PROVE TypeInv'
  <2>1. FirstNeed \in {"publish"} \cup Needs
    BY NeedsAre, OnboardingConstants DEF FirstNeed
  <2>2. CallsOk
    BY <1>9, <1>12, <2>1, NeedsAre DEF ReadyDocuments, Goto, CallPc
  <2> QED
    BY <1>0, <1>12, <2>2 DEF ReadyDocuments, TypeOK, TypeInv
<1>13. ASSUME NEW c \in Call, ReadyNeed(c) PROVE TypeInv'
  <2>1. PICK i \in 1 .. Len(Need) : Goto(c, IF i = Len(Need) THEN "publish" ELSE Need[i + 1])
    BY <1>13 DEF ReadyNeed
  <2>2. (IF i = Len(Need) THEN "publish" ELSE Need[i + 1]) \in {"publish"} \cup Needs
    BY NeedsAre
  <2>3. CallsOk
    BY <1>9, <2>1, <2>2, NeedsAre DEF CallPc
  <2> QED
    BY <1>0, <1>13, <2>3 DEF ReadyNeed, TypeOK, TypeInv
<1>14. ASSUME NEW c \in Call, Publish(c) PROVE TypeInv'
  <2>1. CallsOk
    BY <1>14, ChangingTypes DEF Publish
  <2>2. flag' \in BOOLEAN /\ overtaken' \in BOOLEAN /\ forsaken' \in BOOLEAN
    <3>2. flag' \in BOOLEAN
      BY <1>14 DEF Publish
    <3>3. overtaken' = ("documents" \in call[c].moved)
      BY <1>14 DEF Publish, Wrote
    <3>4. overtaken' \in BOOLEAN
      BY <3>3
    <3>5. forsaken' = FALSE
      BY <1>14 DEF Publish, Wrote
    <3> QED
      BY <3>2, <3>4, <3>5
  <2> QED
    BY <1>0, <1>14, <2>1, <2>2 DEF Publish, TypeOK, TypeInv
<1>15. ASSUME NEW c \in Call, Complete(c) PROVE TypeInv'
  <2>1. PICK s \in SetupStep :
          Start(c, IF s = "identity_documents" THEN "count" ELSE "steps", "complete", "none", s)
    BY <1>15 DEF Complete
  <2>2. CallsOk
    BY <2>1, StartTypes, OneTypes DEF Start
  <2> QED
    BY <1>0, <1>15, <2>2 DEF Complete, TypeOK, TypeInv
<1>16. ASSUME NEW c \in Call, StepsRead(c) PROVE TypeInv'
  <2> DEFINE k == [call[c] EXCEPT !.pc = "save", !.base = steps]
  <2>1. StateOk(k)
    BY ZenonT(30), <1>0, <1>16 DEF StepsRead, At, TypeInv, TypeOK, CallState, StateOk, StepOk
  <2>2. call' = [call EXCEPT ![c] = k]
    BY <1>16 DEF StepsRead
  <2> HIDE DEF k
  <2>3. CallsOk
    BY <2>1, <2>2, OneTypes
  <2> QED
    BY <1>0, <1>16, <2>3 DEF StepsRead, TypeOK, TypeInv
<1>17. ASSUME NEW c \in Call, StepsSave(c) PROVE TypeInv'
  <2>1. CallsOk
    BY <1>17, ChangingTypes DEF StepsSave
  <2>2. WithStep(call[c]) \subseteq SetupStep
    BY <1>0, <1>17 DEF StepsSave, At, WithStep, TypeInv, TypeOK, StepOk, CallState
  <2> QED
    BY <1>0, <1>17, <2>1, <2>2 DEF StepsSave, TypeOK, TypeInv
<1>18. ASSUME NEW c \in Call, Die(c) PROVE TypeInv'
  <2>1. StateOk(Idle)
    BY IdleOk DEF StateOk, StepOk, Idle
  <2>2. CallsOk
    BY <1>18, <2>1, OneTypes DEF Die
  <2>3. forsaken' \in BOOLEAN
    BY <1>18 DEF Die
  <2> QED
    BY <1>0, <1>18, <2>2, <2>3 DEF Die, TypeOK, TypeInv
<1>19. CASE UNCHANGED vars
  BY <1>19 DEF vars, TypeOK, TypeInv
<1> QED
  BY <1>1, <1>2, <1>3, <1>4, <1>5, <1>6, <1>7, <1>8, <1>10, <1>11, <1>12, <1>13, <1>14,
     <1>15, <1>16, <1>17, <1>18, <1>19 DEF Next

LEMMA TypeInit == Init => TypeInv
<1>1. Idle \in CallState /\ StepOk(Idle)
  BY IdleOk DEF StepOk, Idle
<1> HIDE DEF Idle
<1> QED
  BY <1>1 DEF Init, TypeInv, TypeOK

\* Every handler's state stays what the module declares.
THEOREM TypeCorrect == Spec => []TypeOK
<1>1. TypeInv => TypeOK
  BY DEF TypeInv
<1> QED
  BY <1>1, TypeInit, TypeKept, PTL DEF Spec

(***************************************************************************)
(* Handlers and the flag.                                                  *)
(***************************************************************************)

\* One handler goes on and writes none of what is read.
LEMMA OnlyOne ==
  ASSUME OnboardingInv, NEW c \in Call, NEW k, call' = [call EXCEPT ![c] = k],
         HandlerOk(k, Verified, has, steps), UNCHANGED <<doc, flag, has, steps, overtaken>>,
         forsaken => forsaken', Owes(call[c]) => Owes(k) \/ forsaken'
  PROVE  HandlersOk' /\ DriftIsExplained'
<1>1. Verified' = Verified
  BY DEF Verified
<1>2. \A x \in Call : call'[x] = IF x = c THEN k ELSE call[x]
  BY DEF OnboardingInv, TypeInv, TypeOK
<1>3. HandlersOk'
  BY <1>1, <1>2 DEF OnboardingInv, HandlersOk
<1>4. DriftIsExplained'
  <2> SUFFICES ASSUME ~(flag <=> Verified), ~forsaken', ~overtaken
               PROVE  \E x \in Call : Owes(call'[x])
    BY <1>1 DEF DriftIsExplained
  <2>1. PICK x \in Call : Owes(call[x])
    BY DEF OnboardingInv, DriftIsExplained
  <2> QED
    BY <1>2, <2>1
<1> QED
  BY <1>3, <1>4

LEMMA StartOk ==
  ASSUME OnboardingInv, NEW c \in Call, NEW pc \in {"create", "remove", "count", "steps"},
         NEW goal, NEW d, NEW s, Start(c, pc, goal, d, s),
         pc = "create" => goal = "upload", pc = "remove" => goal = "delete",
         UNCHANGED <<doc, flag, has, steps, forsaken, overtaken>>
  PROVE  HandlersOk' /\ DriftIsExplained'
<1> DEFINE k == [Idle EXCEPT !.pc = pc, !.goal = goal, !.doc = d, !.step = s]
<1>1. k.pc = pc /\ k.goal = goal
  BY DEF Idle
<1>2. call' = [call EXCEPT ![c] = k] /\ call[c].pc = "idle"
  BY DEF Start, At
<1> HIDE DEF k
<1>3. HandlerOk(k, Verified, has, steps)
  BY <1>1, NeedsAre DEF HandlerOk
<1> QED
  BY <1>2, <1>3, OnlyOne DEF Owes

\* A handler at a point where it relies on nothing.
LEMMA GotoOk ==
  ASSUME OnboardingInv, NEW c \in Call, NEW pc \in {"profile", "documents", "steps"},
         Goto(c, pc), ~Owes(call[c]), UNCHANGED <<doc, flag, has, steps, forsaken, overtaken>>
  PROVE  HandlersOk' /\ DriftIsExplained'
<1> DEFINE k == [call[c] EXCEPT !.pc = pc]
<1>1. k.pc = pc
  BY DEF OnboardingInv, TypeInv, TypeOK, CallState
<1>2. call' = [call EXCEPT ![c] = k]
  BY DEF Goto
<1> HIDE DEF k
<1>3. HandlerOk(k, Verified, has, steps)
  BY <1>1, NeedsAre DEF HandlerOk
<1> QED
  BY <1>2, <1>3, OnlyOne

\* A handler goes on and the others are overtaken by what it writes.
LEMMA OthersKept ==
  ASSUME OnboardingInv, NEW c \in Call, NEW pc \in {"count", "idle"},
         NEW what \in {"documents", "steps"}, GotoChanging(c, pc, what),
         has' = has, what = "documents" => steps' = steps, what = "steps" => doc' = doc
  PROVE  HandlersOk' /\ \A x \in Call \ {c} : Owes(call[x]) => Owes(call'[x])
<1> DEFINE k == Ended([call[c] EXCEPT !.pc = pc])
<1>1. \A x \in Call : call'[x] = IF x = c THEN k ELSE Changed(call[x], what)
  BY DEF GotoChanging
<1>2. HandlerOk(k, Verified', has', steps')
  <2>1. [call[c] EXCEPT !.pc = pc].pc = pc
    BY DEF OnboardingInv, TypeInv, TypeOK, CallState
  <2>2. CASE pc = "idle"
    BY <2>1, <2>2, IdleOk DEF Ended
  <2>3. CASE pc = "count"
    BY <2>1, <2>3, NeedsAre DEF Ended, HandlerOk
  <2> QED
    BY <2>2, <2>3
<1> HIDE DEF k
<1>3. ASSUME NEW x \in Call
      PROVE  HandlerOk(Changed(call[x], what), Verified', has', steps')
  <2>1. call[x] \in CallState /\ HandlerOk(call[x], Verified, has, steps)
    BY DEF OnboardingInv, TypeInv, TypeOK, HandlersOk
  <2>2. what = "steps" => Verified' = Verified
    BY DEF Verified
  <2> QED
    BY <2>1, <2>2, Overtaken
<1>4. \A x \in Call : Changed(call[x], what).pc = call[x].pc /\ Changed(call[x], what).goal = call[x].goal
  BY ChangedIs DEF OnboardingInv, TypeInv, TypeOK
<1> QED
  BY <1>1, <1>2, <1>3, <1>4 DEF HandlersOk, Owes

\* A handler that has changed the documents owes the flag.
LEMMA DocumentsWritten ==
  ASSUME OnboardingInv, NEW c \in Call, At(c, "create") \/ At(c, "remove"),
         GotoChanging(c, "count", "documents"), UNCHANGED <<flag, has, steps, forsaken, overtaken>>
  PROVE  HandlersOk' /\ DriftIsExplained'
<1>1. HandlersOk'
  BY OthersKept
<1>2. call[c].goal \in {"upload", "delete"}
  BY DEF OnboardingInv, HandlersOk, HandlerOk, At
<1>3. call'[c] = Ended([call[c] EXCEPT !.pc = "count"])
  BY DEF GotoChanging
<1>4. [call[c] EXCEPT !.pc = "count"].pc = "count" /\ [call[c] EXCEPT !.pc = "count"].goal = call[c].goal
  BY DEF OnboardingInv, TypeInv, TypeOK, CallState
<1>5. Owes(call'[c])
  BY <1>2, <1>3, <1>4 DEF Ended, Owes
<1> QED
  BY <1>1, <1>5 DEF DriftIsExplained

LEMMA SyncWriteOk ==
  ASSUME OnboardingInv, NEW c \in Call, SyncWrite(c)
  PROVE  HandlersOk' /\ DriftIsExplained'
<1> DEFINE k == [call[c] EXCEPT !.pc = AfterSync(call[c].goal), !.saw = "none", !.moved = {}]
<1>1. Verified' = Verified /\ has' = has /\ steps' = steps
  BY DEF SyncWrite, Verified
<1>2. k.pc \in {"assert", "idle"}
  BY DEF AfterSync, OnboardingInv, TypeInv, TypeOK, CallState
<1>3. \A x \in Call : call'[x] = IF x = c THEN Ended(k) ELSE call[x]
  BY DEF SyncWrite, OnboardingInv, TypeInv, TypeOK
<1> HIDE DEF k
<1>4. HandlerOk(Ended(k), Verified, has, steps)
  BY <1>2, IdleOk, NeedsAre DEF Ended, HandlerOk
<1>5. HandlersOk'
  BY <1>1, <1>3, <1>4 DEF HandlersOk, OnboardingInv
<1>6. (call[c].saw = "VERIFIED" <=> Verified) \/ "documents" \in call[c].moved
  BY DEF SyncWrite, At, OnboardingInv, HandlersOk, HandlerOk
<1>7. flag' = (call[c].saw = "VERIFIED") /\ overtaken' = ("documents" \in call[c].moved)
  BY DEF SyncWrite, Wrote
<1>8. (flag' <=> Verified) \/ overtaken'
  BY <1>6, <1>7
<1> QED
  BY <1>1, <1>5, <1>8 DEF DriftIsExplained

LEMMA PublishOk ==
  ASSUME OnboardingInv, NEW c \in Call, Publish(c)
  PROVE  HandlersOk' /\ DriftIsExplained'
<1>1. HandlersOk'
  BY OthersKept DEF Publish
<1>2. Verified \/ "documents" \in call[c].moved
  BY DEF Publish, At, OnboardingInv, HandlersOk, HandlerOk
<1>3. Verified' = Verified
  BY DEF Publish, Verified
<1>4. flag' /\ overtaken' = ("documents" \in call[c].moved)
  BY DEF Publish, Wrote
<1> QED
  BY <1>1, <1>2, <1>3, <1>4 DEF DriftIsExplained

\* At pc, a handler of goLive has seen the needs before it.
Passed(moved, pc, h) ==
  \/ "needs" \in moved
  \/ /\ pc = "publish" => h = Needs
     /\ \A i \in 1 .. Len(Need) : pc = Need[i] => \A j \in 1 .. i - 1 : Need[j] \in h

LEMMA ReadyOk ==
  ASSUME OnboardingInv, NEW c \in Call, ReadyDocuments(c) \/ ReadyNeed(c)
  PROVE  HandlersOk' /\ DriftIsExplained'
<1>1. call[c] \in CallState /\ HandlerOk(call[c], Verified, has, steps) /\ has \subseteq Needs
  BY DEF OnboardingInv, TypeInv, TypeOK, HandlersOk
<1>2. ASSUME NEW pc, call' = [call EXCEPT ![c].pc = pc], pc \in Needs \cup {"publish"},
             Verified \/ "documents" \in call[c].moved,
             Passed(call[c].moved, pc, has),
             ~Owes(call[c]), UNCHANGED <<doc, flag, has, steps, forsaken, overtaken>>
      PROVE  HandlersOk' /\ DriftIsExplained'
  <2> DEFINE k == [call[c] EXCEPT !.pc = pc]
  <2>1. k.pc = pc /\ k.moved = call[c].moved
    BY <1>1 DEF CallState
  <2>2. call' = [call EXCEPT ![c] = k]
    BY <1>2
  <2> HIDE DEF k
  <2>3. HandlerOk(k, Verified, has, steps)
    BY <1>2, <2>1, NeedsAre DEF HandlerOk, Passed
  <2> QED
    BY <1>2, <2>2, <2>3, OnlyOne
<1>3. CASE ReadyDocuments(c)
  <2>1. /\ call' = [call EXCEPT ![c].pc = FirstNeed] /\ Verified /\ call[c].pc = "documents"
        /\ UNCHANGED <<doc, flag, has, steps, forsaken, overtaken>>
    BY <1>3 DEF ReadyDocuments, DocumentsReady, At
  <2>2. CASE Need = <<>>
    <3>1. Len(Need) = 0 /\ Needs = {} /\ FirstNeed = "publish"
      BY <2>2 DEF Needs, FirstNeed
    <3>2. Passed(call[c].moved, "publish", has) /\ ~Owes(call[c])
      BY <1>1, <2>1, <3>1 DEF Passed, Owes
    <3>3. call' = [call EXCEPT ![c].pc = "publish"]
      BY <2>1, <3>1
    <3> QED
      BY <1>2, <2>1, <3>2, <3>3
  <2>3. CASE Need # <<>>
    <3>1. FirstNeed = Need[1] /\ 1 \in 1 .. Len(Need)
      BY <2>3, OnboardingConstants DEF FirstNeed
    <3>2. \A i \in 1 .. Len(Need) : FirstNeed = Need[i] => i = 1
      BY <3>1, OnboardingConstants
    <3>3. FirstNeed \in Needs /\ FirstNeed # "publish"
      BY <3>1, NeedsAre
    <3>4. Passed(call[c].moved, FirstNeed, has) /\ ~Owes(call[c])
      BY <2>1, <3>2, <3>3 DEF Passed, Owes
    <3> QED
      BY <1>2, <2>1, <3>3, <3>4
  <2> QED
    BY <2>2, <2>3
<1>4. CASE ReadyNeed(c)
  <2>1. PICK i \in 1 .. Len(Need) :
          /\ call[c].pc = Need[i] /\ Need[i] \in has
          /\ Goto(c, IF i = Len(Need) THEN "publish" ELSE Need[i + 1])
    BY <1>4 DEF ReadyNeed, At
  <2>2. UNCHANGED <<doc, flag, has, steps, forsaken, overtaken>>
    BY <1>4 DEF ReadyNeed
  <2>3. Verified \/ "documents" \in call[c].moved
    BY <1>1, <2>1, NeedsAre DEF HandlerOk
  <2>4. "needs" \in call[c].moved \/ \A j \in 1 .. i : Need[j] \in has
    BY <1>1, <2>1, NeedsAre DEF HandlerOk
  <2>5. ~Owes(call[c])
    BY <2>1, NeedsAre DEF Owes
  <2>6. CASE i = Len(Need)
    <3>1. "needs" \in call[c].moved \/ has = Needs
      BY <1>1, <2>4, <2>6 DEF Needs
    <3>2. call' = [call EXCEPT ![c].pc = "publish"]
      BY <2>1, <2>6 DEF Goto
    <3>3. "publish" \notin Needs
      BY NeedsAre
    <3>4. Passed(call[c].moved, "publish", has)
      BY <3>1, <3>3, NeedsAre DEF Passed
    <3> QED
      BY <1>2, <2>2, <2>3, <2>5, <3>2, <3>4
  <2>7. CASE i # Len(Need)
    <3>1. i + 1 \in 1 .. Len(Need) /\ call' = [call EXCEPT ![c].pc = Need[i + 1]]
      <4>1. Goto(c, Need[i + 1])
        BY <2>1, <2>7
      <4>2. i + 1 \in 1 .. Len(Need)
        BY <2>7, NeedsAre
      <4> QED
        BY <4>1, <4>2 DEF Goto
    <3>2. \A n \in 1 .. Len(Need) : Need[i + 1] = Need[n] => n = i + 1
      BY <3>1, OnboardingConstants
    <3>3. Need[i + 1] \in Needs /\ Need[i + 1] # "publish"
      BY <3>1, NeedsAre
    <3>4. Passed(call[c].moved, Need[i + 1], has)
      <4>1. \A n \in 1 .. Len(Need) : Need[i + 1] = Need[n] => n - 1 = i
        BY <3>1, <3>2
      <4> QED
        BY <2>4, <3>3, <4>1 DEF Passed
    <3> QED
      BY <1>2, <2>2, <2>3, <2>5, <3>1, <3>3, <3>4
  <2> QED
    BY <2>6, <2>7
<1> QED
  BY <1>3, <1>4

LEMMA InvKept == OnboardingInv /\ [Next]_vars => OnboardingInv'
<1> SUFFICES ASSUME OnboardingInv, [Next]_vars PROVE HandlersOk' /\ DriftIsExplained'
  BY TypeKept DEF OnboardingInv
<1>1. CASE ChangeNeed
  <2>1. \A x \in Call : call'[x] = Changed(call[x], "needs")
    BY <1>1 DEF ChangeNeed
  <2>2. Verified' = Verified /\ steps' = steps
    BY <1>1 DEF ChangeNeed, Verified
  <2>3. ASSUME NEW x \in Call PROVE HandlerOk(call'[x], Verified', has', steps')
    BY <2>1, <2>2, Overtaken DEF OnboardingInv, TypeInv, TypeOK, HandlersOk
  <2>4. \A x \in Call : call'[x].pc = call[x].pc /\ call'[x].goal = call[x].goal
    BY <2>1, ChangedIs DEF OnboardingInv, TypeInv, TypeOK
  <2>5. DriftIsExplained'
    BY <1>1, <2>2, <2>4 DEF ChangeNeed, OnboardingInv, DriftIsExplained, Owes
  <2> QED
    BY <2>3, <2>5 DEF HandlersOk
<1>2. ASSUME NEW c \in Call, UploadRead(c) PROVE HandlersOk' /\ DriftIsExplained'
  BY <1>2, StartOk DEF UploadRead
<1>3. ASSUME NEW c \in Call, UploadCreate(c) PROVE HandlersOk' /\ DriftIsExplained'
  BY <1>3, DocumentsWritten DEF UploadCreate
<1>4. ASSUME NEW c \in Call, DeleteRead(c) PROVE HandlersOk' /\ DriftIsExplained'
  BY <1>4, StartOk DEF DeleteRead
<1>5. ASSUME NEW c \in Call, DeleteRow(c) PROVE HandlersOk' /\ DriftIsExplained'
  BY <1>5, DocumentsWritten DEF DeleteRow, AfterRemove
<1>6. ASSUME NEW c \in Call, Status(c) PROVE HandlersOk' /\ DriftIsExplained'
  BY <1>6, StartOk DEF Status
<1>7. ASSUME NEW c \in Call, GoLive(c) PROVE HandlersOk' /\ DriftIsExplained'
  BY <1>7, StartOk DEF GoLive
<1>8. ASSUME NEW c \in Call, SyncCount(c) PROVE HandlersOk' /\ DriftIsExplained'
  <2> DEFINE k == [call[c] EXCEPT !.pc = "write", !.saw = IF Verified THEN "VERIFIED" ELSE "none"]
  <2>1. /\ k.pc = "write" /\ k.goal = call[c].goal
        /\ k.saw = (IF Verified THEN "VERIFIED" ELSE "none")
    BY DEF OnboardingInv, TypeInv, TypeOK, CallState
  <2>2. call' = [call EXCEPT ![c] = k]
    BY <1>8 DEF SyncCount
  <2> HIDE DEF k
  <2>3. HandlerOk(k, Verified, has, steps)
    BY <2>1, NeedsAre DEF HandlerOk
  <2>4. Owes(call[c]) => Owes(k)
    BY <2>1 DEF Owes
  <2> QED
    BY <1>8, <2>2, <2>3, <2>4, OnlyOne DEF SyncCount
<1>9. ASSUME NEW c \in Call, SyncWrite(c) PROVE HandlersOk' /\ DriftIsExplained'
  BY <1>9, SyncWriteOk
<1>10. ASSUME NEW c \in Call, AssertIdentity(c) PROVE HandlersOk' /\ DriftIsExplained'
  BY <1>10, GotoOk DEF AssertIdentity, At, Owes
<1>11. ASSUME NEW c \in Call, ReadyProfile(c) PROVE HandlersOk' /\ DriftIsExplained'
  BY <1>11, GotoOk DEF ReadyProfile, At, Owes
<1>12. ASSUME NEW c \in Call, ReadyDocuments(c) \/ ReadyNeed(c) PROVE HandlersOk' /\ DriftIsExplained'
  BY <1>12, ReadyOk
<1>13. ASSUME NEW c \in Call, Publish(c) PROVE HandlersOk' /\ DriftIsExplained'
  BY <1>13, PublishOk
<1>14. ASSUME NEW c \in Call, Complete(c) PROVE HandlersOk' /\ DriftIsExplained'
  BY <1>14, StartOk DEF Complete
<1>15. ASSUME NEW c \in Call, StepsRead(c) PROVE HandlersOk' /\ DriftIsExplained'
  <2> DEFINE k == [call[c] EXCEPT !.pc = "save", !.base = steps]
  <2>1. k.pc = "save" /\ k.base = steps
    BY DEF OnboardingInv, TypeInv, TypeOK, CallState
  <2>2. call' = [call EXCEPT ![c] = k] /\ ~Owes(call[c])
    BY <1>15 DEF StepsRead, At, Owes
  <2> HIDE DEF k
  <2>3. HandlerOk(k, Verified, has, steps)
    BY <2>1, NeedsAre DEF HandlerOk
  <2> QED
    BY <1>15, <2>2, <2>3, OnlyOne DEF StepsRead
<1>16. ASSUME NEW c \in Call, StepsSave(c) PROVE HandlersOk' /\ DriftIsExplained'
  <2>1. HandlersOk' /\ \A x \in Call \ {c} : Owes(call[x]) => Owes(call'[x])
    BY <1>16, OthersKept DEF StepsSave
  <2>2. ~Owes(call[c])
    BY <1>16 DEF StepsSave, At, Owes
  <2>3. Verified' = Verified
    BY <1>16 DEF StepsSave, Verified
  <2> QED
    BY <1>16, <2>1, <2>2, <2>3 DEF StepsSave, OnboardingInv, DriftIsExplained
<1>17. ASSUME NEW c \in Call, Die(c) PROVE HandlersOk' /\ DriftIsExplained'
  <2>1. HandlerOk(Idle, Verified, has, steps)
    BY IdleOk
  <2>2. (forsaken => forsaken') /\ (Owes(call[c]) => forsaken')
    BY <1>17 DEF Die
  <2> QED
    BY <1>17, <2>1, <2>2, OnlyOne DEF Die
<1>18. CASE UNCHANGED vars
  <2>1. Verified' = Verified
    BY <1>18 DEF vars, Verified
  <2> QED
    BY <1>18, <2>1 DEF vars, OnboardingInv, HandlersOk, DriftIsExplained
<1> QED
  BY <1>1, <1>2, <1>3, <1>4, <1>5, <1>6, <1>7, <1>8, <1>9, <1>10, <1>11, <1>12, <1>13, <1>14,
     <1>15, <1>16, <1>17, <1>18 DEF Next

LEMMA InvInit == Init => OnboardingInv
<1> SUFFICES ASSUME Init PROVE OnboardingInv
  OBVIOUS
<1>1. TypeInv
  BY TypeInit
<1>2. \A c \in Call : call[c] = Idle
  BY DEF Init
<1>3. HandlersOk
  BY <1>2, IdleOk DEF HandlersOk
<1>4. ~flag /\ ~Verified
  BY DEF Init, Verified
<1> QED
  BY <1>1, <1>3, <1>4 DEF OnboardingInv, DriftIsExplained

LEMMA InvHolds == Spec => []OnboardingInv
  BY InvInit, InvKept, PTL DEF Spec

\* identityVerified is wrong only while a handler owes the sync, after one died
\* before it, or after one wrote a count that had been overtaken.
THEOREM DriftExplained == Spec => []DriftIsExplained
<1>1. OnboardingInv => DriftIsExplained
  BY DEF OnboardingInv
<1> QED
  BY <1>1, InvHolds, PTL

\* goLive publishes what it checked, but for what went away meanwhile.
THEOREM LiveLacks == Spec => LiveLacksOnlyWhatWent
<1>1. OnboardingInv /\ [Next]_vars =>
        [~live /\ live' =>
           \E c \in Call : /\ At(c, "publish")
                           /\ Verified \/ "documents" \in call[c].moved
                           /\ has = Needs \/ "needs" \in call[c].moved]_vars
  <2> SUFFICES ASSUME OnboardingInv, Next, ~live, live'
               PROVE  \E c \in Call : /\ At(c, "publish")
                                      /\ Verified \/ "documents" \in call[c].moved
                                      /\ has = Needs \/ "needs" \in call[c].moved
    OBVIOUS
  <2>1. PICK c \in Call : Publish(c)
    BY DEF Next, ChangeNeed, UploadRead, UploadCreate, DeleteRead, DeleteRow, Status, SyncCount,
           SyncWrite, GoLive, AssertIdentity, ReadyProfile, ReadyDocuments, ReadyNeed, Complete,
           StepsRead, StepsSave, Die
  <2>2. HandlerOk(call[c], Verified, has, steps) /\ At(c, "publish")
    BY <2>1 DEF Publish, OnboardingInv, HandlersOk
  <2> QED
    BY <2>2 DEF HandlerOk, At
<1> QED
  BY <1>1, InvHolds, PTL DEF Spec, LiveLacksOnlyWhatWent

\* A setup step is forgotten only by a handler that read the steps before another
\* wrote them.
THEOREM StepsForgotten == Spec => StepsForgottenOnlyByOverlap
<1>1. OnboardingInv /\ [Next]_vars =>
        [~(steps \subseteq steps') => \E c \in Call : At(c, "save") /\ "steps" \in call[c].moved]_vars
  <2> SUFFICES ASSUME OnboardingInv, Next, ~(steps \subseteq steps')
               PROVE  \E c \in Call : At(c, "save") /\ "steps" \in call[c].moved
    OBVIOUS
  <2>1. PICK c \in Call : Publish(c) \/ StepsSave(c)
    BY DEF Next, ChangeNeed, UploadRead, UploadCreate, DeleteRead, DeleteRow, Status, SyncCount,
           SyncWrite, GoLive, AssertIdentity, ReadyProfile, ReadyDocuments, ReadyNeed, Complete,
           StepsRead, Die
  <2>2. ~Publish(c)
    BY DEF Publish, OnboardingInv, TypeInv, TypeOK
  <2>3. At(c, "save") /\ call[c].base \subseteq steps'
    BY <2>1, <2>2 DEF StepsSave, WithStep
  <2>4. "steps" \in call[c].moved \/ call[c].base = steps
    BY <2>3 DEF OnboardingInv, HandlersOk, HandlerOk, At
  <2> QED
    BY <2>3, <2>4
<1> QED
  BY <1>1, InvHolds, PTL DEF Spec, StepsForgottenOnlyByOverlap

(***************************************************************************)
(* The limit of documents: a handler that is about to create a row counts  *)
(* with those there are.                                                   *)
(***************************************************************************)
LEMMA Counts ==
  ASSUME NEW P \in SUBSET Doc, NEW C \in SUBSET Call
  PROVE  /\ IsFiniteSet(P) /\ IsFiniteSet(C)
         /\ Cardinality(P) \in Nat /\ Cardinality(C) \in Nat
         /\ Cardinality(Call) \in Nat /\ Cardinality(C) <= Cardinality(Call)
         /\ MaxDocuments \in Nat \ {0}
  BY OnboardingConstants, FS_Subset, FS_CardinalityType

LEMMA FewerCount ==
  ASSUME NEW P \in SUBSET Doc, NEW C \in SUBSET Call, Bounded(P, C),
         NEW Q \in SUBSET P, NEW D \in SUBSET C
  PROVE  Bounded(Q, D)
<1>1. Cardinality(Q) <= Cardinality(P) /\ Cardinality(D) <= Cardinality(C)
  BY Counts, FS_Subset
<1>2. /\ Cardinality(P) \in Nat /\ Cardinality(C) \in Nat /\ Cardinality(Q) \in Nat
      /\ Cardinality(D) \in Nat /\ Cardinality(Call) \in Nat /\ MaxDocuments \in Nat
  BY Counts
<1> QED
  BY <1>1, <1>2 DEF Bounded

LEMMA CreationCount ==
  ASSUME NEW P \in SUBSET Doc, NEW C \in SUBSET Call, Bounded(P, C), NEW d, NEW c \in C,
         NEW Q \in SUBSET Doc, Q \subseteq P \cup {d}
  PROVE  Bounded(Q, C \ {c})
<1>1. Cardinality(Q) <= Cardinality(P) + 1
  <2>1. IsFiniteSet(P) /\ Cardinality(P) \in Nat
    BY Counts
  <2>2. /\ IsFiniteSet(P \cup {d})
        /\ Cardinality(P \cup {d}) = IF d \in P THEN Cardinality(P) ELSE Cardinality(P) + 1
    BY <2>1, FS_AddElement
  <2>3. IsFiniteSet(P \cup {d}) /\ Cardinality(P \cup {d}) <= Cardinality(P) + 1
    BY <2>1, <2>2
  <2>4. Cardinality(Q) <= Cardinality(P \cup {d})
    BY <2>3, FS_Subset
  <2>5. /\ Cardinality(P \cup {d}) \in Nat /\ Cardinality(Q) \in Nat
        /\ Cardinality(P) \in Nat
    BY <2>3, Counts, FS_CardinalityType
  <2> QED
    BY <2>3, <2>4, <2>5
<1>2. Cardinality(C \ {c}) = Cardinality(C) - 1
  BY Counts, FS_RemoveElement
<1>3. /\ Cardinality(P) \in Nat /\ Cardinality(C) \in Nat /\ Cardinality(Q) \in Nat
      /\ Cardinality(Call) \in Nat /\ MaxDocuments \in Nat
  BY Counts
<1> QED
  BY <1>1, <1>2, <1>3 DEF Bounded

\* A count below the limit, and whoever else is in flight.
LEMMA LimitCount ==
  ASSUME NEW P \in SUBSET Doc, NEW C \in SUBSET Call, Cardinality(P) < MaxDocuments
  PROVE  Bounded(P, C)
<1>1. /\ Cardinality(P) \in Nat /\ Cardinality(C) \in Nat /\ Cardinality(Call) \in Nat
      /\ MaxDocuments \in Nat /\ Cardinality(C) <= Cardinality(Call)
  BY Counts
<1> QED
  BY <1>1 DEF Bounded

LEMMA CreatingKept ==
  ASSUME TypeInv, NEW c \in Call, NEW k, k.pc # "create", call' = [call EXCEPT ![c] = k]
  PROVE  Creating' \subseteq Creating \ {c}
  BY DEF TypeInv, TypeOK, Creating, At

LEMMA CreatingAfterWrite ==
  ASSUME TypeInv, NEW c \in Call, NEW pc \in {"count", "idle"},
         NEW what \in {"documents", "needs", "steps"}, GotoChanging(c, pc, what)
  PROVE  Creating' \subseteq Creating \ {c}
<1>1. \A x \in Call : Changed(call[x], what).pc = call[x].pc
  BY ChangedIs DEF TypeInv, TypeOK
<1>2. [call[c] EXCEPT !.pc = pc].pc = pc
  BY DEF TypeInv, TypeOK, CallState
<1>3. Ended([call[c] EXCEPT !.pc = pc]).pc # "create"
  BY <1>2 DEF Ended, Idle
<1> QED
  BY <1>1, <1>3 DEF GotoChanging, Creating, At

LEMMA CountKept == CountInv /\ [Next]_vars => CountInv'
<1> SUFFICES ASSUME CountInv, [Next]_vars PROVE Bounded(Present, Creating)'
  BY TypeKept DEF CountInv
<1>0. TypeInv /\ TypeInv' /\ Bounded(Present, Creating)
  BY TypeKept DEF CountInv
<1>1. /\ Present \in SUBSET Doc /\ Creating \in SUBSET Call
      /\ Present' \in SUBSET Doc /\ Creating' \in SUBSET Call
  BY DEF Present, Creating
<1>2. ASSUME doc' = doc PROVE Present' = Present
  BY <1>2 DEF Present
<1>3. ASSUME Present' \subseteq Present, Creating' \subseteq Creating
      PROVE  Bounded(Present, Creating)'
  <2>1. Bounded(Present', Creating')
    BY <1>0, <1>1, <1>3, FewerCount
  <2> QED
    BY <2>1 DEF Bounded
<1>4. ASSUME NEW c \in Call, NEW k, k.pc # "create", call' = [call EXCEPT ![c] = k], doc' = doc
      PROVE  Bounded(Present, Creating)'
  BY <1>0, <1>2, <1>3, <1>4, CreatingKept
<1>5. ASSUME NEW c \in Call, NEW pc, pc # "create", Goto(c, pc), doc' = doc
      PROVE  Bounded(Present, Creating)'
  <2>1. [call[c] EXCEPT !.pc = pc].pc = pc
    BY <1>0 DEF TypeInv, TypeOK, CallState
  <2> QED
    BY <1>4, <1>5, <2>1 DEF Goto
<1>6. ASSUME NEW c \in Call, NEW pc, pc # "create", NEW goal, NEW d, NEW s,
             Start(c, pc, goal, d, s), doc' = doc
      PROVE  Bounded(Present, Creating)'
  <2>1. [Idle EXCEPT !.pc = pc, !.goal = goal, !.doc = d, !.step = s].pc = pc
    BY DEF Idle
  <2> QED
    BY <1>4, <1>6, <2>1 DEF Start
<1>7. CASE ChangeNeed
  <2>1. \A x \in Call : call'[x].pc = call[x].pc
    BY <1>0, <1>7, ChangedIs DEF ChangeNeed, TypeInv, TypeOK
  <2> QED
    BY <1>2, <1>3, <1>7, <2>1 DEF ChangeNeed, Creating, At
<1>8. ASSUME NEW c \in Call, UploadRead(c) PROVE Bounded(Present, Creating)'
  <2>1. Present' = Present /\ Cardinality(Present) < MaxDocuments
    BY <1>2, <1>8 DEF UploadRead, BelowLimit
  <2>2. Bounded(Present', Creating')
    BY <1>1, <2>1, LimitCount
  <2> QED
    BY <2>2 DEF Bounded
<1>9. ASSUME NEW c \in Call, UploadCreate(c) PROVE Bounded(Present, Creating)'
  <2>1. Present' \subseteq Present \cup {call[c].doc}
    BY <1>0, <1>9 DEF UploadCreate, Present, TypeInv, TypeOK
  <2>2. c \in Creating /\ Creating' \subseteq Creating \ {c}
    BY <1>0, <1>9, CreatingAfterWrite DEF UploadCreate, Creating
  <2>3. Bounded(Present', Creating \ {c})
    BY <1>0, <1>1, <2>1, <2>2, CreationCount
  <2>4. Creating \ {c} \in SUBSET Call
    BY <1>1
  <2>5. Bounded(Present', Creating')
    BY <1>1, <2>2, <2>3, <2>4, FewerCount
  <2> QED
    BY <2>5 DEF Bounded
<1>10. ASSUME NEW c \in Call, DeleteRead(c) PROVE Bounded(Present, Creating)'
  BY <1>6, <1>10 DEF DeleteRead
<1>11. ASSUME NEW c \in Call, DeleteRow(c) PROVE Bounded(Present, Creating)'
  <2>1. Present' \subseteq Present
    BY <1>0, <1>11 DEF DeleteRow, Present, TypeInv, TypeOK
  <2>2. Creating' \subseteq Creating
    BY <1>0, <1>11, CreatingAfterWrite DEF DeleteRow, AfterRemove
  <2> QED
    BY <1>3, <2>1, <2>2
<1>12. ASSUME NEW c \in Call, Status(c) \/ GoLive(c) PROVE Bounded(Present, Creating)'
  BY <1>6, <1>12 DEF Status, GoLive
<1>13. ASSUME NEW c \in Call, SyncCount(c) PROVE Bounded(Present, Creating)'
  <2> DEFINE k == [call[c] EXCEPT !.pc = "write", !.saw = IF Verified THEN "VERIFIED" ELSE "none"]
  <2>1. k.pc = "write"
    BY <1>0 DEF TypeInv, TypeOK, CallState
  <2>2. call' = [call EXCEPT ![c] = k] /\ doc' = doc
    BY <1>13 DEF SyncCount
  <2> HIDE DEF k
  <2> QED
    BY <1>4, <2>1, <2>2
<1>14. ASSUME NEW c \in Call, SyncWrite(c) PROVE Bounded(Present, Creating)'
  <2> DEFINE k == [call[c] EXCEPT !.pc = AfterSync(call[c].goal), !.saw = "none", !.moved = {}]
  <2>1. k.pc # "create"
    BY <1>0 DEF AfterSync, TypeInv, TypeOK, CallState
  <2>2. call' = [call EXCEPT ![c] = Ended(k)] /\ doc' = doc
    BY <1>14 DEF SyncWrite
  <2> HIDE DEF k
  <2>3. Ended(k).pc # "create"
    BY <2>1 DEF Ended, Idle
  <2> QED
    BY <1>4, <2>2, <2>3
<1>15. ASSUME NEW c \in Call, AssertIdentity(c) PROVE Bounded(Present, Creating)'
  BY <1>5, <1>15 DEF AssertIdentity
<1>16. ASSUME NEW c \in Call, ReadyProfile(c) PROVE Bounded(Present, Creating)'
  BY <1>5, <1>16 DEF ReadyProfile
<1>17. ASSUME NEW c \in Call, ReadyDocuments(c) PROVE Bounded(Present, Creating)'
  <2>1. FirstNeed \in {"publish"} \cup Needs
    BY NeedsAre, OnboardingConstants DEF FirstNeed
  <2>2. FirstNeed # "create"
    BY <2>1, NeedsAre
  <2> QED
    BY <1>5, <1>17, <2>2 DEF ReadyDocuments, Goto
<1>18. ASSUME NEW c \in Call, ReadyNeed(c) PROVE Bounded(Present, Creating)'
  <2>1. PICK i \in 1 .. Len(Need) : Goto(c, IF i = Len(Need) THEN "publish" ELSE Need[i + 1])
    BY <1>18 DEF ReadyNeed
  <2>2. (IF i = Len(Need) THEN "publish" ELSE Need[i + 1]) # "create"
    BY NeedsAre
  <2> QED
    BY <1>5, <1>18, <2>1, <2>2 DEF ReadyNeed
<1>19. ASSUME NEW c \in Call, Publish(c) \/ StepsSave(c) PROVE Bounded(Present, Creating)'
  <2>1. GotoChanging(c, "idle", "steps") /\ doc' = doc
    BY <1>19 DEF Publish, StepsSave
  <2> QED
    BY <1>0, <1>2, <1>3, <2>1, CreatingAfterWrite
<1>20. ASSUME NEW c \in Call, Complete(c) PROVE Bounded(Present, Creating)'
  <2>1. PICK s \in SetupStep :
          Start(c, IF s = "identity_documents" THEN "count" ELSE "steps", "complete", "none", s)
    BY <1>20 DEF Complete
  <2> QED
    BY <1>6, <1>20, <2>1 DEF Complete
<1>21. ASSUME NEW c \in Call, StepsRead(c) PROVE Bounded(Present, Creating)'
  <2> DEFINE k == [call[c] EXCEPT !.pc = "save", !.base = steps]
  <2>1. k.pc = "save"
    BY <1>0 DEF TypeInv, TypeOK, CallState
  <2>2. call' = [call EXCEPT ![c] = k] /\ doc' = doc
    BY <1>21 DEF StepsRead
  <2> HIDE DEF k
  <2> QED
    BY <1>4, <2>1, <2>2
<1>22. ASSUME NEW c \in Call, Die(c) PROVE Bounded(Present, Creating)'
  <2>1. Idle.pc # "create"
    BY DEF Idle
  <2> QED
    BY <1>4, <1>22, <2>1 DEF Die
<1>23. CASE UNCHANGED vars
  BY <1>2, <1>3, <1>23 DEF vars, Creating, At
<1> QED
  BY <1>7, <1>8, <1>9, <1>10, <1>11, <1>12, <1>13, <1>14, <1>15, <1>16, <1>17, <1>18, <1>19,
     <1>20, <1>21, <1>22, <1>23 DEF Next

\* Uploads in flight together exceed the limit by one each, and by no more.
THEOREM LimitBounded == Spec => []LimitOverrunIsBounded
<1>1. Init => CountInv
  <2> SUFFICES ASSUME Init PROVE CountInv
    OBVIOUS
  <2>1. Present = {} /\ Creating = {}
    BY DEF Init, Present, Creating, At, Idle
  <2>2. Cardinality(Present) < MaxDocuments
    BY <2>1, FS_EmptySet, OnboardingConstants
  <2> QED
    BY <2>1, <2>2, TypeInit, LimitCount DEF CountInv
<1>2. CountInv => LimitOverrunIsBounded
  <2> SUFFICES ASSUME CountInv PROVE LimitOverrunIsBounded
    OBVIOUS
  <2>1. Present \in SUBSET Doc /\ Creating \in SUBSET Call
    BY DEF Present, Creating
  <2>2. /\ Cardinality(Present) \in Nat /\ Cardinality(Creating) \in Nat
        /\ Cardinality(Call) \in Nat /\ MaxDocuments \in Nat
    BY <2>1, Counts
  <2> QED
    BY <2>2 DEF CountInv, Bounded, LimitOverrunIsBounded
<1> QED
  BY <1>1, <1>2, CountKept, PTL DEF Spec
==============================================================================
