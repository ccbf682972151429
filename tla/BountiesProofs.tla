---------------------------- MODULE BountiesProofs ----------------------------
(***************************************************************************)
(* Claims, alerts and expiry reports, for any number of bounties, holders,  *)
(* operators, processes, faults and any deadline.                           *)
(***************************************************************************)
EXTENDS Bounties, FiniteSetTheorems, TLAPS

(* A submission that is live, or declined and not yet released, holds the      *)
(* claim on a bounty nobody has won; a bounty that is won is its winner's.     *)
Claims(w) == submission[w].step \in {"live", "release"}

ClaimsAreTokens ==
  /\ \A w \in Holder :
       submission[w].step # "none" => submission[w].bounty \in DOMAIN bounty
  /\ \A w \in Holder :
       Claims(w) => /\ bounty[submission[w].bounty].claimed_by = w
                    /\ winner[submission[w].bounty] = Nobody
  /\ \A b \in Bounty :
       winner[b] # Nobody => b \in DOMAIN bounty /\ bounty[b].claimed_by = winner[b]

(* What a sweep is about to report is as true as what was reported. *)
ReportsWillBeTrue ==
  \A p \in Process :
    sweep[p].step = "report" =>
      \A b \in sweep[p].todo :
        b \in DOMAIN bounty /\ Expired(b) /\ bounty[b].claimed_by = Nobody

ReportedExist == \A b \in Bounty : notice[b].expired => b \in DOMAIN bounty

(* The processes that are not going to warn about a bounty: those about to     *)
(* mark it and, once it is marked, those that do not have it on their list.    *)
Alerted(b) == b \in DOMAIN bounty /\ bounty[b].alerted
Listed(p, b) == sweep[p].step \in {"alert", "mark"} /\ b \in sweep[p].todo
Spent(b) ==
  {p \in Process :
     \/ sweep[p].step = "mark" /\ sweep[p].at = b
     \/ Alerted(b) /\ ~Listed(p, b)}

(* A list holds bounties to warn about, each once; the next one is off it. *)
ListsAreProper ==
  \A p \in Process :
    /\ sweep[p].step \in {"alert", "mark"} => sweep[p].todo \subseteq DOMAIN bounty
    /\ sweep[p].step = "mark" => sweep[p].at \in DOMAIN bounty \ sweep[p].todo

(* A warning is paid for by a process that will not warn again, or a fault. *)
WarningsArePaid ==
  \A b \in Bounty : notice[b].soon <= Cardinality(Spent(b)) + faults

PatchesExist == \A p \in DOMAIN patch : patch[p].bounty \in DOMAIN bounty

IInv ==
  /\ TypeOK
  /\ PatchesExist
  /\ ClaimsAreTokens
  /\ ReportsWillBeTrue
  /\ ReportedExist
  /\ ExpiryReportsAreTrue
  /\ ListsAreProper
  /\ WarningsArePaid

LEMMA CountsProcesses == Many \in Nat \ {0} /\ \A b : Cardinality(Spent(b)) \in Nat
<1>1. \A b : IsFiniteSet(Spent(b))
  BY BountiesAssumption, FS_Subset DEF Spent
<1> QED BY <1>1, FS_CardinalityType, BountiesAssumption DEF Many

LEMMA InitIInv == Init => IInv
<1> SUFFICES ASSUME Init PROVE IInv
  OBVIOUS
<1>1. TypeOK
  BY BountiesAssumption, CountsProcesses
  DEF Init, TypeOK, NoSubmission, Submission, Resting, Sweep
<1>2. PatchesExist /\ ClaimsAreTokens
  BY DEF Init, PatchesExist, ClaimsAreTokens, Claims, NoSubmission
<1>3. ReportsWillBeTrue /\ ReportedExist /\ ExpiryReportsAreTrue
  BY DEF Init, ReportsWillBeTrue, ReportedExist, ExpiryReportsAreTrue, Resting
<1>4. ListsAreProper
  BY DEF Init, ListsAreProper, Resting
<1>5. WarningsArePaid
  BY CountsProcesses DEF Init, WarningsArePaid
<1> QED BY <1>1, <1>2, <1>3, <1>4, <1>5 DEF IInv

LEMMA RetiresOrNot ==
  ASSUME NEW p \in Process, RetireExpiredBounties(p)
  PROVE  Retire(ExpiredOnCatalog) \/ UNCHANGED bounty
BY DEF RetireExpiredBounties

----------------------------------------------------------------------------
(* Types *)

LEMMA TypeStep ==
  ASSUME TypeOK, Next
  PROVE  TypeOK'
<1> USE BountiesAssumption DEF TypeOK, Task, Never
<1>1. CASE Tick
  BY <1>1 DEF Tick
<1>2. ASSUME NEW b \in Bounty, NEW active \in StartsActive, NEW t \in 1..Never, CreateTask(b, active, t) PROVE TypeOK'
  BY <1>2 DEF CreateTask
<1>3. ASSUME NEW p \in Operator, NEW b \in DOMAIN bounty, NEW active \in BOOLEAN, LoadTask(p, b, active) PROVE TypeOK'
  BY <1>3 DEF LoadTask, Patch
<1>4. ASSUME NEW p \in Operator, UpdateTask(p) PROVE TypeOK'
  BY <1>4 DEF UpdateTask, EndPatch, Patch
<1>5. ASSUME NEW w \in Holder, NEW b \in DOMAIN bounty, CreateEarning(w, b) PROVE TypeOK'
  <2>1. submission' \in [Holder -> Submission]
    BY <1>5 DEF CreateEarning, Goto, Submission
  <2> QED BY <1>5, <2>1 DEF CreateEarning
<1>6. ASSUME NEW w \in Holder, ClaimBounty(w) PROVE TypeOK'
  <2>1. submission' \in [Holder -> Submission]
    BY <1>6 DEF ClaimBounty, Goto, Forget, Submission, NoSubmission
  <2>2. DOMAIN bounty' = DOMAIN bounty /\ \A b \in DOMAIN bounty' : bounty'[b] \in Task
    BY <1>6 DEF ClaimBounty
  <2> QED BY <1>6, <2>1, <2>2 DEF ClaimBounty
<1>7. ASSUME NEW w \in Holder, Approve(w) PROVE TypeOK'
  BY <1>7 DEF Approve, At, Forget, NoSubmission, Submission
<1>8. ASSUME NEW w \in Holder, Decline(w) PROVE TypeOK'
  BY <1>8 DEF Decline, At, Goto, Submission
<1>9. ASSUME NEW w \in Holder, ReleaseBountyClaim(w) PROVE TypeOK'
  BY <1>9 DEF ReleaseBountyClaim, Forget, NoSubmission, Submission
<1>10. CASE ListTasks
  <2>1. DOMAIN bounty' = DOMAIN bounty
    BY <1>10 DEF ListTasks, Retire
  <2>2. \A b \in DOMAIN bounty : bounty'[b] \in Task
    BY <1>10 DEF ListTasks, Retire
  <2>3. UNCHANGED <<now, submission, winner, patch, sweep, notice, faults>>
    BY <1>10 DEF ListTasks
  <2> QED BY <2>1, <2>2, <2>3
<1>11. ASSUME NEW p \in Process, StartSweep(p) PROVE TypeOK'
  <2>1. sweep' \in [Process -> Sweep]
    BY <1>11 DEF StartSweep, SweepTo, ExpiringSoon, Sweep
  <2> QED BY <1>11, <2>1 DEF StartSweep, Fails, Works
<1>12. ASSUME NEW p \in Process, NEW b \in Bounty, NotifyExpiringSoon(p, b) PROVE TypeOK'
  <2>1. sweep' \in [Process -> Sweep]
    BY <1>12 DEF NotifyExpiringSoon, SweepTo, Sweep
  <2>2. notice' \in [Bounty -> [soon: 0..Many, expired: BOOLEAN]]
    BY <1>12, CountsProcesses DEF NotifyExpiringSoon, OneMore
  <2> QED BY <1>12, <2>1, <2>2 DEF NotifyExpiringSoon, Fails, Works
<1>13. ASSUME NEW p \in Process, MarkBountyExpiringNotified(p) PROVE TypeOK'
  <2>1. sweep' \in [Process -> Sweep]
    <3>1. sweep[p].todo \in SUBSET Bounty
      BY DEF Sweep
    <3> QED BY <1>13, <3>1 DEF MarkBountyExpiringNotified, SweepTo, Sweep
  <2>2. DOMAIN bounty' = DOMAIN bounty /\ \A b \in DOMAIN bounty' : bounty'[b] \in Task
    <3>1. CASE bounty' = [bounty EXCEPT ![sweep[p].at].alerted = TRUE]
      BY <3>1
    <3>2. CASE UNCHANGED bounty
      BY <3>2
    <3> QED BY <1>13, <3>1, <3>2 DEF MarkBountyExpiringNotified
  <2> QED BY <1>13, <2>1, <2>2 DEF MarkBountyExpiringNotified, Fails, Works
<1>14. ASSUME NEW p \in Process, RetireExpiredBounties(p) PROVE TypeOK'
  <2>1. sweep' \in [Process -> Sweep]
    <3> DEFINE unclaimed == {b \in ExpiredOnCatalog : bounty[b].claimed_by = Nobody}
    <3>1. unclaimed \in SUBSET Bounty
      BY DEF ExpiredOnCatalog
    <3>2. \/ sweep' = [sweep EXCEPT ![p] = [step |-> "idle", todo |-> {}, at |-> Nothing]]
          \/ sweep' = [sweep EXCEPT ![p] = [step |-> "idle", todo |-> unclaimed, at |-> Nothing]]
          \/ sweep' = [sweep EXCEPT ![p] = [step |-> "report", todo |-> unclaimed, at |-> Nothing]]
      BY <1>14 DEF RetireExpiredBounties, SweepTo
    <3> HIDE DEF unclaimed
    <3> QED BY <3>1, <3>2 DEF Sweep
  <2>2. DOMAIN bounty' = DOMAIN bounty /\ \A b \in DOMAIN bounty' : bounty'[b] \in Task
    <3>1. CASE Retire(ExpiredOnCatalog)
      BY <3>1 DEF Retire
    <3>2. CASE UNCHANGED bounty
      BY <3>2
    <3> QED BY <1>14, <3>1, <3>2, RetiresOrNot
  <2> QED BY <1>14, <2>1, <2>2 DEF RetireExpiredBounties, Fails, Works
<1>15. ASSUME NEW p \in Process, NEW b \in Bounty, NotifyExpired(p, b) PROVE TypeOK'
  <2>1. sweep' \in [Process -> Sweep]
    BY <1>15 DEF NotifyExpired, SweepTo, Sweep
  <2>2. notice' \in [Bounty -> [soon: 0..Many, expired: BOOLEAN]]
    <3>1. CASE notice' = [notice EXCEPT ![b].expired = TRUE]
      <4>1. [notice[b] EXCEPT !.expired = TRUE] \in [soon: 0..Many, expired: BOOLEAN]
        OBVIOUS
      <4> QED BY <3>1, <4>1
    <3>2. CASE UNCHANGED notice
      BY <3>2
    <3> QED BY <1>15, <3>1, <3>2 DEF NotifyExpired
  <2> QED BY <1>15, <2>1, <2>2 DEF NotifyExpired, Fails, Works
<1>16. ASSUME NEW p \in Process, Crash(p) PROVE TypeOK'
  BY <1>16 DEF Crash, Resting, Fails, Sweep
<1>17. ASSUME NEW w \in Holder, LoseRequest(w) PROVE TypeOK'
  BY <1>17 DEF LoseRequest, Forget, NoSubmission, Submission, Fails
<1>18. ASSUME NEW q \in Operator, LosePatch(q) PROVE TypeOK'
  BY <1>18 DEF LosePatch, EndPatch, Patch, Fails
<1> QED
  BY <1>1, <1>2, <1>3, <1>4, <1>5, <1>6, <1>7, <1>8, <1>9, <1>10, <1>11,
     <1>12, <1>13, <1>14, <1>15, <1>16, <1>17, <1>18
  DEF Next, Sweeping

LEMMA PatchesStep ==
  ASSUME PatchesExist, Next
  PROVE  PatchesExist'
<1>1. DOMAIN bounty \subseteq DOMAIN bounty'
  BY DEF Next, Sweeping, Tick, CreateTask, LoadTask, UpdateTask, CreateEarning, ClaimBounty,
     Approve, Decline, ReleaseBountyClaim, ListTasks, Retire, StartSweep, NotifyExpiringSoon,
     MarkBountyExpiringNotified, RetireExpiredBounties, NotifyExpired, Crash, LoseRequest, LosePatch
<1>2. \A p \in DOMAIN patch' :
        \/ patch'[p].bounty \in DOMAIN bounty
        \/ p \in DOMAIN patch /\ patch'[p] = patch[p]
  <2>1. ASSUME NEW p \in Operator, NEW b \in DOMAIN bounty, NEW active \in BOOLEAN,
               LoadTask(p, b, active)
        PROVE  \A q \in DOMAIN patch' :
                 \/ patch'[q].bounty \in DOMAIN bounty
                 \/ q \in DOMAIN patch /\ patch'[q] = patch[q]
    BY <2>1 DEF LoadTask
  <2>2. \/ \E p \in Operator, b \in DOMAIN bounty, active \in BOOLEAN : LoadTask(p, b, active)
        \/ \E p \in Operator : EndPatch(p)
        \/ UNCHANGED patch
    BY DEF Next, Sweeping, Tick, CreateTask, UpdateTask, CreateEarning, ClaimBounty, Approve,
       Decline, ReleaseBountyClaim, ListTasks, StartSweep, NotifyExpiringSoon,
       MarkBountyExpiringNotified, RetireExpiredBounties, NotifyExpired, Crash, LoseRequest,
       LosePatch
  <2> QED BY <2>1, <2>2 DEF EndPatch
<1> QED BY <1>1, <1>2 DEF PatchesExist

----------------------------------------------------------------------------
(* Claims *)

(* Bounties come, and all but the claim on them may change. *)
ClaimsUntouched ==
  /\ DOMAIN bounty \subseteq DOMAIN bounty'
  /\ \A b \in DOMAIN bounty : bounty'[b].claimed_by = bounty[b].claimed_by
  /\ UNCHANGED <<submission, winner>>

LEMMA WhoTouchesClaims ==
  ASSUME TypeOK, Next
  PROVE  \/ ClaimsUntouched
         \/ \E w \in Holder, b \in DOMAIN bounty : CreateEarning(w, b)
         \/ \E w \in Holder :
              ClaimBounty(w) \/ Approve(w) \/ Decline(w) \/ ReleaseBountyClaim(w)
         \/ \E w \in Holder : LoseRequest(w)
<1> USE DEF ClaimsUntouched, TypeOK, Task
<1>1. CASE Tick
  BY <1>1 DEF Tick
<1>2. CASE ListTasks
  BY <1>2 DEF ListTasks, Retire
<1>3. ASSUME NEW p \in Process, Sweeping(p) \/ Crash(p)
      PROVE  ClaimsUntouched
  <2>1. CASE StartSweep(p) \/ \E b \in Bounty : NotifyExpiringSoon(p, b) \/ NotifyExpired(p, b)
    BY <2>1 DEF StartSweep, NotifyExpiringSoon, NotifyExpired
  <2>2. CASE RetireExpiredBounties(p)
    BY <2>2 DEF RetireExpiredBounties, Retire
  <2>3. CASE MarkBountyExpiringNotified(p)
    BY <2>3 DEF MarkBountyExpiringNotified
  <2>4. CASE Crash(p)
    BY <2>4 DEF Crash
  <2> QED BY <1>3, <2>1, <2>2, <2>3, <2>4 DEF Sweeping
<1>4. ASSUME NEW p \in Operator, NEW b \in DOMAIN bounty, NEW active \in BOOLEAN,
             UpdateTask(p) \/ LoadTask(p, b, active)
      PROVE  ClaimsUntouched
  BY <1>4 DEF UpdateTask, LoadTask
<1>5. ASSUME NEW b \in Bounty, NEW active \in StartsActive, NEW t \in 1..Never,
             CreateTask(b, active, t)
      PROVE  ClaimsUntouched
  BY <1>5 DEF CreateTask
<1>6. ASSUME NEW p \in Operator, UpdateTask(p) \/ LosePatch(p)
      PROVE  ClaimsUntouched
  BY <1>6 DEF UpdateTask, LosePatch
<1> QED BY <1>1, <1>2, <1>3, <1>4, <1>5, <1>6 DEF Next

LEMMA ClaimsStep ==
  ASSUME TypeOK, ClaimsAreTokens, Next
  PROVE  ClaimsAreTokens'
<1> USE BountiesAssumption DEF TypeOK, ClaimsAreTokens, Claims
<1>1. CASE ClaimsUntouched
  BY <1>1 DEF ClaimsUntouched
<1>2. ASSUME NEW w \in Holder, NEW b \in DOMAIN bounty, CreateEarning(w, b)
      PROVE  ClaimsAreTokens'
  BY <1>2 DEF CreateEarning, Goto, At
<1>3. ASSUME NEW w \in Holder, ClaimBounty(w)
      PROVE  ClaimsAreTokens'
  <2> DEFINE b == submission[w].bounty
  <2>1. CASE UNCHANGED bounty /\ Forget(w)
    BY <1>3, <2>1 DEF ClaimBounty, Forget, NoSubmission
  <2>2. CASE Claimable(b) /\ Goto(w, "live", b) /\ bounty' = [bounty EXCEPT ![b].claimed_by = w]
    <3>1. /\ b \in DOMAIN bounty
          /\ bounty[b].claimed_by = Nobody
          /\ winner[b] = Nobody
          /\ UNCHANGED winner
      BY <1>3, <2>2 DEF ClaimBounty, Claimable, At
    <3>2. \A v \in Holder \ {w} :
            /\ submission'[v] = submission[v]
            /\ Claims(v) => submission[v].bounty # b
      BY <2>2, <3>1 DEF Goto
    <3>3. /\ DOMAIN bounty' = DOMAIN bounty
          /\ bounty'[b].claimed_by = w
          /\ \A c \in DOMAIN bounty \ {b} : bounty'[c] = bounty[c]
      BY <2>2, <3>1 DEF Task
    <3>4. submission'[w] = [step |-> "live", bounty |-> b]
      BY <2>2 DEF Goto
    <3>5. \A v \in Holder :
            /\ submission'[v].step # "none" => submission'[v].bounty \in DOMAIN bounty'
            /\ Claims(v)' => /\ bounty'[submission'[v].bounty].claimed_by = v
                             /\ winner'[submission'[v].bounty] = Nobody
      <4>1. ASSUME NEW v \in Holder \ {w}
            PROVE  /\ submission'[v].step # "none" => submission'[v].bounty \in DOMAIN bounty'
                   /\ Claims(v)' => /\ bounty'[submission'[v].bounty].claimed_by = v
                                    /\ winner'[submission'[v].bounty] = Nobody
        BY <3>1, <3>2, <3>3
      <4> QED BY <3>1, <3>3, <3>4, <4>1
    <3>6. \A c \in Bounty :
            winner'[c] # Nobody => c \in DOMAIN bounty' /\ bounty'[c].claimed_by = winner'[c]
      BY <3>1, <3>3
    <3> QED BY <3>5, <3>6
  <2> QED BY <1>3, <2>1, <2>2 DEF ClaimBounty
<1>4. ASSUME NEW w \in Holder, Approve(w)
      PROVE  ClaimsAreTokens'
  BY <1>4 DEF Approve, Forget, NoSubmission, At
<1>5. ASSUME NEW w \in Holder, Decline(w)
      PROVE  ClaimsAreTokens'
  BY <1>5 DEF Decline, Goto, At
<1>6. ASSUME NEW w \in Holder, ReleaseBountyClaim(w)
      PROVE  ClaimsAreTokens'
  BY <1>6 DEF ReleaseBountyClaim, Forget, NoSubmission, At, Task
<1>7. ASSUME NEW w \in Holder, LoseRequest(w)
      PROVE  ClaimsAreTokens'
  BY <1>7 DEF LoseRequest, Forget, NoSubmission, At
<1> QED BY <1>1, <1>2, <1>3, <1>4, <1>5, <1>6, <1>7, WhoTouchesClaims

----------------------------------------------------------------------------
(* Reports *)

(* An expired bounty that nobody holds stays one: no claim comes too late. *)
Lost(b) == b \in DOMAIN bounty /\ Expired(b) /\ bounty[b].claimed_by = Nobody

LEMMA LostForEver ==
  ASSUME TypeOK, Next, NEW b, Lost(b)
  PROVE  Lost(b)'
<1> USE DEF Lost, Expired, TypeOK, Task
<1>1. CASE Tick
  BY <1>1, BountiesAssumption DEF Tick, Never
<1>2. CASE Retire(ExpiredOnCatalog) /\ UNCHANGED now
  BY <1>2 DEF Retire
<1>3. CASE \E p \in Process : MarkBountyExpiringNotified(p)
  BY <1>3 DEF MarkBountyExpiringNotified
<1>4. ASSUME NEW c \in Bounty, NEW active \in StartsActive, NEW t \in 1..Never,
             CreateTask(c, active, t)
      PROVE  Lost(b)'
  BY <1>4 DEF CreateTask
<1>5. ASSUME NEW p \in Operator, UpdateTask(p)
      PROVE  Lost(b)'
  BY <1>5 DEF UpdateTask
<1>6. ASSUME NEW w \in Holder, ClaimBounty(w)
      PROVE  Lost(b)'
  BY <1>6 DEF ClaimBounty, Claimable
<1>7. ASSUME NEW w \in Holder, ReleaseBountyClaim(w)
      PROVE  Lost(b)'
  BY <1>7 DEF ReleaseBountyClaim
<1>8. CASE UNCHANGED <<now, bounty>>
  BY <1>8
<1> QED
  BY <1>1, <1>2, <1>3, <1>4, <1>5, <1>6, <1>7, <1>8
  DEF Next, Sweeping, LoadTask, CreateEarning, Approve, Decline, ListTasks,
      RetireExpiredBounties, StartSweep, NotifyExpiringSoon, NotifyExpired, Crash, LoseRequest, LosePatch

LEMMA ReportsStep ==
  ASSUME TypeOK, ReportsWillBeTrue, ReportedExist, ExpiryReportsAreTrue, Next
  PROVE  ReportsWillBeTrue' /\ ReportedExist' /\ ExpiryReportsAreTrue'
<1> USE DEF TypeOK, Sweep
<1>1. \A b \in Bounty : notice[b].expired => Lost(b)
  BY DEF ReportedExist, ExpiryReportsAreTrue, Lost
<1>2. \A p \in Process : sweep[p].step = "report" => \A b \in sweep[p].todo : Lost(b)
  BY DEF ReportsWillBeTrue, Lost
<1>3. \A p \in Process : sweep'[p].step = "report" => \A b \in sweep'[p].todo : Lost(b)'
  <2> SUFFICES ASSUME NEW p \in Process, sweep'[p].step = "report", NEW b \in sweep'[p].todo
               PROVE  Lost(b)
    BY LostForEver
  <2>1. CASE RetireExpiredBounties(p)
    BY <2>1 DEF RetireExpiredBounties, SweepTo, ExpiredOnCatalog, Lost
  <2>2. CASE \E c \in Bounty : NotifyExpired(p, c)
    <3>1. sweep[p].step = "report" /\ b \in sweep[p].todo
      BY <2>2 DEF NotifyExpired, SweepTo
    <3> QED BY <3>1, <1>2
  <2>3. CASE \/ StartSweep(p) \/ MarkBountyExpiringNotified(p) \/ Crash(p)
             \/ \E c \in Bounty : NotifyExpiringSoon(p, c)
    BY <2>3 DEF StartSweep, MarkBountyExpiringNotified, NotifyExpiringSoon, Crash, SweepTo, Resting
  <2>4. CASE sweep'[p] = sweep[p]
    BY <2>4, <1>2
  <2>5. ASSUME NEW q \in Process, q # p, Sweeping(q) \/ Crash(q)
        PROVE  sweep'[p] = sweep[p]
    BY <2>5 DEF Sweeping, StartSweep, NotifyExpiringSoon, MarkBountyExpiringNotified,
       RetireExpiredBounties, NotifyExpired, Crash, SweepTo
  <2>6. \/ UNCHANGED sweep
        \/ \E q \in Process : Sweeping(q) \/ Crash(q)
    BY DEF Next, Tick, CreateTask, LoadTask, UpdateTask, CreateEarning, ClaimBounty,
        Approve, Decline, ReleaseBountyClaim, ListTasks, LoseRequest, LosePatch
  <2> QED BY <2>1, <2>2, <2>3, <2>4, <2>5, <2>6 DEF Sweeping
<1>4. \A b \in Bounty : notice'[b].expired => Lost(b)'
  <2>1. ASSUME NEW p \in Process, NEW c \in Bounty, NotifyExpired(p, c),
               NEW b \in Bounty, notice'[b].expired
        PROVE  Lost(b)
    BY <1>1, <1>2, <2>1 DEF NotifyExpired
  <2>2. ASSUME NEW p \in Process, NEW c \in Bounty, NotifyExpiringSoon(p, c),
               NEW b \in Bounty, notice'[b].expired
        PROVE  Lost(b)
    BY <1>1, <2>2 DEF NotifyExpiringSoon
  <2>3. CASE UNCHANGED notice
    BY <2>3, <1>1, LostForEver
  <2> QED
    BY <2>1, <2>2, <2>3, LostForEver
    DEF Next, Sweeping, Tick, CreateTask, LoadTask, UpdateTask, CreateEarning, ClaimBounty,
        Approve, Decline, ReleaseBountyClaim, ListTasks, StartSweep, RetireExpiredBounties,
        MarkBountyExpiringNotified, Crash, LoseRequest, LosePatch
<1> QED
  BY <1>3, <1>4, TypeStep DEF ReportsWillBeTrue, ReportedExist, ExpiryReportsAreTrue, Lost

----------------------------------------------------------------------------
(* Warnings *)

(* What steps outside the sweeps do to them: a bounty keeps its mark. *)
MarksStand ==
  /\ DOMAIN bounty \subseteq DOMAIN bounty'
  /\ \A b \in DOMAIN bounty : bounty[b].alerted => bounty'[b].alerted

LEMMA MarksStep ==
  ASSUME TypeOK, PatchesExist, ClaimsAreTokens, Next
  PROVE  MarksStand
<1> USE DEF TypeOK, Task, MarksStand
<1>1. CASE Retire(ExpiredOnCatalog)
  BY <1>1 DEF Retire
<1>2. ASSUME NEW b \in Bounty, NEW active \in StartsActive, NEW t \in 1..Never,
             CreateTask(b, active, t)
      PROVE  MarksStand
  BY <1>2 DEF CreateTask
<1>3. ASSUME NEW q \in Operator, UpdateTask(q)
      PROVE  MarksStand
  BY <1>3 DEF UpdateTask, PatchesExist
<1>4. ASSUME NEW w \in Holder, ClaimBounty(w) \/ ReleaseBountyClaim(w)
      PROVE  MarksStand
  BY <1>4 DEF ClaimBounty, ReleaseBountyClaim, ClaimsAreTokens, At
<1>5. ASSUME NEW p \in Process, MarkBountyExpiringNotified(p)
      PROVE  MarksStand
  BY <1>5 DEF MarkBountyExpiringNotified
<1>6. CASE UNCHANGED bounty
  BY <1>6
<1> QED
  BY <1>1, <1>2, <1>3, <1>4, <1>5, <1>6, RetiresOrNot
  DEF Next, Sweeping, Tick, LoadTask, CreateEarning, Approve, Decline, ListTasks, StartSweep,
      NotifyExpiringSoon, NotifyExpired, Crash, LoseRequest, LosePatch

LEMMA ListsStep ==
  ASSUME TypeOK, PatchesExist, ClaimsAreTokens, ListsAreProper, Next
  PROVE  ListsAreProper'
<1> USE DEF TypeOK, Sweep, ListsAreProper
<1>1. DOMAIN bounty \subseteq DOMAIN bounty'
  BY MarksStep DEF MarksStand
<1>2. ASSUME NEW p \in Process, Sweeping(p) \/ Crash(p)
      PROVE  ListsAreProper'
  <2>1. \A q \in Process \ {p} : sweep'[q] = sweep[q]
    BY <1>2 DEF Sweeping, StartSweep, NotifyExpiringSoon, MarkBountyExpiringNotified,
       RetireExpiredBounties, NotifyExpired, Crash, SweepTo
  <2>2. /\ sweep'[p].step \in {"alert", "mark"} => sweep'[p].todo \subseteq DOMAIN bounty
        /\ sweep'[p].step = "mark" => sweep'[p].at \in DOMAIN bounty \ sweep'[p].todo
    <3>1. CASE StartSweep(p)
      BY <3>1 DEF StartSweep, SweepTo, ExpiringSoon
    <3>2. CASE \E b \in Bounty : NotifyExpiringSoon(p, b)
      BY <3>2 DEF NotifyExpiringSoon, SweepTo
    <3>3. CASE MarkBountyExpiringNotified(p)
      BY <3>3 DEF MarkBountyExpiringNotified, SweepTo
    <3>4. CASE RetireExpiredBounties(p) \/ \E b \in Bounty : NotifyExpired(p, b)
      BY <3>4 DEF RetireExpiredBounties, NotifyExpired, SweepTo
    <3>5. CASE Crash(p)
      BY <3>5 DEF Crash, Resting
    <3> QED BY <1>2, <3>1, <3>2, <3>3, <3>4, <3>5 DEF Sweeping
  <2> QED BY <1>1, <2>1, <2>2
<1>3. CASE UNCHANGED sweep
  BY <1>1, <1>3
<1> QED
  BY <1>2, <1>3
  DEF Next, Tick, CreateTask, LoadTask, UpdateTask, CreateEarning, ClaimBounty, Approve,
      Decline, ReleaseBountyClaim, ListTasks, LoseRequest, LosePatch

(* A step that sends no warning about b leaves it paid when nobody is spent    *)
(* less, or one process is and that is a fault.                                *)
LEMMA StillPaid ==
  ASSUME TypeOK, WarningsArePaid, NEW b \in Bounty,
         notice'[b].soon = notice[b].soon, faults' \in Nat,
         \/ Spent(b) \subseteq Spent(b)' /\ faults <= faults'
         \/ \E p \in Process : Spent(b) \subseteq Spent(b)' \cup {p} /\ faults' = faults + 1
  PROVE  notice'[b].soon <= Cardinality(Spent(b)') + faults'
<1>1. IsFiniteSet(Spent(b)) /\ IsFiniteSet(Spent(b)')
  BY BountiesAssumption, FS_Subset DEF Spent
<1>2. Cardinality(Spent(b)) \in Nat /\ Cardinality(Spent(b)') \in Nat
  BY <1>1, FS_CardinalityType
<1>3. notice[b].soon \in Nat /\ faults \in Nat /\ notice[b].soon <= Cardinality(Spent(b)) + faults
  BY BountiesAssumption, CountsProcesses DEF TypeOK, WarningsArePaid
<1>4. CASE Spent(b) \subseteq Spent(b)' /\ faults <= faults'
  <2>1. Cardinality(Spent(b)) <= Cardinality(Spent(b)')
    BY <1>1, <1>4, FS_Subset
  <2> QED BY <2>1, <1>2, <1>3, <1>4
<1>5. ASSUME NEW p \in Process, Spent(b) \subseteq Spent(b)' \cup {p}, faults' = faults + 1
      PROVE  notice'[b].soon <= Cardinality(Spent(b)') + faults'
  <2>1. IsFiniteSet(Spent(b)' \cup {p}) /\ Cardinality(Spent(b)' \cup {p}) <= Cardinality(Spent(b)') + 1
    <3>1. \/ Cardinality(Spent(b)' \cup {p}) = Cardinality(Spent(b)')
          \/ Cardinality(Spent(b)' \cup {p}) = Cardinality(Spent(b)') + 1
      BY <1>1, FS_AddElement
    <3>2. IsFiniteSet(Spent(b)' \cup {p})
      BY <1>1, FS_AddElement
    <3> QED BY <3>1, <3>2, <1>2
  <2>2. Cardinality(Spent(b)) <= Cardinality(Spent(b)' \cup {p})
    BY <2>1, <1>5, FS_Subset
  <2>3. Cardinality(Spent(b)' \cup {p}) \in Nat
    BY <2>1, FS_CardinalityType
  <2> QED BY <2>1, <2>2, <2>3, <1>2, <1>3, <1>5
<1> QED BY <1>4, <1>5

(* A warning makes its process spent. *)
LEMMA WarningPays ==
  ASSUME TypeOK, ListsAreProper, WarningsArePaid, NEW p \in Process, NEW b \in Bounty,
         NotifyExpiringSoon(p, b), TypeOK'
  PROVE  WarningsArePaid'
<1> USE DEF TypeOK, Sweep
<1>1. /\ sweep[p].step = "alert" /\ b \in sweep[p].todo
      /\ sweep'[p] = [step |-> "mark", todo |-> sweep[p].todo \ {b}, at |-> b]
      /\ \A q \in Process \ {p} : sweep'[q] = sweep[q]
      /\ UNCHANGED bounty
  BY DEF NotifyExpiringSoon, SweepTo
<1>2. \A c : Spent(c) \subseteq Spent(c)'
  BY <1>1 DEF Spent, Listed, Alerted
<1>3. p \notin Spent(b) /\ p \in Spent(b)'
  BY <1>1 DEF Spent, Listed
<1>4. faults' \in Nat /\ faults \in Nat /\ faults <= faults'
  BY BountiesAssumption DEF NotifyExpiringSoon, Fails, Works
<1>5. ASSUME NEW c \in Bounty, notice'[c].soon = notice[c].soon
      PROVE  notice'[c].soon <= Cardinality(Spent(c)') + faults'
  BY <1>2, <1>4, <1>5, StillPaid
<1>6. CASE notice' = [notice EXCEPT ![b].soon = OneMore(@)]
  <2>1. \A c \in Bounty \ {b} : notice'[c].soon = notice[c].soon
    BY <1>6
  <2>2. notice[b].soon \in Nat /\ notice'[b].soon <= notice[b].soon + 1 /\ notice'[b].soon \in Nat
    BY <1>6, CountsProcesses DEF OneMore
  <2>3. IsFiniteSet(Spent(b)') /\ IsFiniteSet(Spent(b))
    BY BountiesAssumption, FS_Subset DEF Spent
  <2>4. Cardinality(Spent(b) \cup {p}) = Cardinality(Spent(b)) + 1
    BY <1>3, <2>3, FS_AddElement
  <2>5. Cardinality(Spent(b) \cup {p}) <= Cardinality(Spent(b)')
    BY <1>2, <1>3, <2>3, FS_Subset
  <2>6. Cardinality(Spent(b)) \in Nat /\ Cardinality(Spent(b)') \in Nat
    BY <2>3, FS_CardinalityType
  <2>7. notice[b].soon <= Cardinality(Spent(b)) + faults
    BY DEF WarningsArePaid
  <2>8. notice'[b].soon <= Cardinality(Spent(b)') + faults'
    BY <2>2, <2>4, <2>5, <2>6, <2>7, <1>4
  <2> QED BY <1>5, <2>1, <2>8 DEF WarningsArePaid
<1>7. CASE UNCHANGED notice
  BY <1>5, <1>7 DEF WarningsArePaid
<1> QED BY <1>6, <1>7 DEF NotifyExpiringSoon

LEMMA WarningsStep ==
  ASSUME TypeOK, TypeOK', PatchesExist, ClaimsAreTokens, ListsAreProper, WarningsArePaid, Next
  PROVE  WarningsArePaid'
<1> USE DEF TypeOK, Sweep, Task
<1>1. faults \in Nat /\ faults' \in Nat
  BY BountiesAssumption
<1>2. \A b : Alerted(b) => Alerted(b)'
  BY MarksStep DEF MarksStand, Alerted
<1>3. CASE \E p \in Process, b \in Bounty : NotifyExpiringSoon(p, b)
  BY <1>3, WarningPays
<1>4. ASSUME NEW p \in Process, StartSweep(p)
      PROVE  WarningsArePaid'
  <2>1. \A b : Spent(b) \subseteq Spent(b)'
    BY <1>4 DEF StartSweep, SweepTo, ExpiringSoon, Spent, Listed, Alerted
  <2> QED BY <1>1, <1>4, <2>1, StillPaid DEF StartSweep, Works, Fails, WarningsArePaid
<1>5. ASSUME NEW p \in Process, MarkBountyExpiringNotified(p)
      PROVE  WarningsArePaid'
  <2> PICK at : at = sweep[p].at
    OBVIOUS
  <2>1. /\ sweep[p].step = "mark" /\ sweep'[p].todo = sweep[p].todo
        /\ at \in DOMAIN bounty /\ at \notin sweep'[p].todo
        /\ \A q \in Process \ {p} : sweep'[q] = sweep[q]
    BY <1>5 DEF MarkBountyExpiringNotified, SweepTo, ListsAreProper
  <2>2. \A b : Spent(b) \subseteq Spent(b)' \cup {p}
    BY <1>2, <2>1 DEF Spent, Listed
  <2>3. CASE bounty' = [bounty EXCEPT ![at].alerted = TRUE] /\ Works
    <3>1. Alerted(at)'
      BY <2>1, <2>3 DEF Alerted
    <3>2. ASSUME NEW b, NEW q \in Spent(b)
          PROVE  q \in Spent(b)'
      <4>1. CASE q # p
        BY <1>2, <2>1, <4>1 DEF Spent, Listed
      <4>2. CASE q = p /\ b = at
        BY <2>1, <3>1, <4>2 DEF Spent, Listed
      <4>3. CASE q = p /\ b # at
        BY <1>2, <2>1, <4>3 DEF Spent, Listed
      <4> QED BY <4>1, <4>2, <4>3
    <3> QED BY <1>1, <1>5, <2>3, <3>2, StillPaid DEF MarkBountyExpiringNotified, Works, WarningsArePaid
  <2>4. CASE Fails
    BY <1>1, <1>5, <2>2, <2>4, StillPaid DEF MarkBountyExpiringNotified, Fails, WarningsArePaid
  <2> QED BY <1>5, <2>3, <2>4 DEF MarkBountyExpiringNotified
<1>6. ASSUME NEW p \in Process, RetireExpiredBounties(p) \/ \E b \in Bounty : NotifyExpired(p, b)
      PROVE  WarningsArePaid'
  <2>1. /\ sweep[p].step \in {"retire", "report"}
        /\ sweep'[p].step \in {"idle", "report"}
        /\ \A q \in Process \ {p} : sweep'[q] = sweep[q]
        /\ \A b \in Bounty : notice'[b].soon = notice[b].soon
        /\ faults' \in {faults, faults + 1}
    BY <1>6 DEF RetireExpiredBounties, NotifyExpired, SweepTo, Fails, Works
  <2>2. \A b : Spent(b) \subseteq Spent(b)'
    BY <1>2, <2>1 DEF Spent, Listed
  <2> QED BY <1>1, <2>1, <2>2, StillPaid DEF WarningsArePaid
<1>7. ASSUME NEW p \in Process, Crash(p)
      PROVE  WarningsArePaid'
  <2>1. \A b : Spent(b) \subseteq Spent(b)' \cup {p}
    BY <1>2, <1>7 DEF Crash, Spent, Listed
  <2> QED BY <1>1, <1>7, <2>1, StillPaid DEF Crash, Fails, WarningsArePaid
<1>8. CASE UNCHANGED <<sweep, notice>> /\ faults <= faults'
  <2>1. \A b : Spent(b) \subseteq Spent(b)'
    BY <1>2, <1>8 DEF Spent, Listed
  <2> QED BY <1>1, <1>8, <2>1, StillPaid DEF WarningsArePaid
<1>9. \/ UNCHANGED <<sweep, notice>> /\ faults <= faults'
      \/ \E p \in Process : Sweeping(p) \/ Crash(p)
  <2>1. faults <= faults /\ faults <= faults + 1
    BY <1>1
  <2> QED BY <2>1
  DEF Next, Tick, CreateTask, LoadTask, UpdateTask, CreateEarning, ClaimBounty, Approve,
      Decline, ReleaseBountyClaim, ListTasks, LoseRequest, LosePatch, Fails
<1> QED
  BY <1>3, <1>4, <1>5, <1>6, <1>7, <1>8, <1>9 DEF Sweeping

----------------------------------------------------------------------------
LEMMA IInvHolds == Spec => []IInv
<1>1. IInv /\ [Next]_vars => IInv'
  <2>1. CASE UNCHANGED vars
    BY <2>1
    DEF vars, IInv, TypeOK, PatchesExist, ClaimsAreTokens, Claims, ReportsWillBeTrue,
        ReportedExist, ExpiryReportsAreTrue, Expired, ListsAreProper, WarningsArePaid, Spent,
        Listed, Alerted
  <2>2. CASE Next
    BY <2>2, TypeStep, PatchesStep, ClaimsStep, ReportsStep, ListsStep,
       WarningsStep DEF IInv
  <2> QED BY <2>1, <2>2
<1> QED BY InitIInv, <1>1, PTL DEF Spec

(* Types, for every number of bounties, holders, operators, processes and faults. *)
THEOREM TypesHold == Spec => []TypeOK
<1>1. IInv => TypeOK
  BY DEF IInv
<1> QED BY IInvHolds, <1>1, PTL

(* No sweep, stale update or other holder takes a claim away while its         *)
(* submission is undecided, or after it won (tasks.go:60-105).                 *)
THEOREM ClaimsHold == Spec => []ClaimsAreKept
<1>1. IInv => ClaimsAreKept
  BY DEF IInv, ClaimsAreTokens, Claims, ClaimsAreKept, At, TypeOK
<1> QED BY IInvHolds, <1>1, PTL

(* A report that a bounty expired unclaimed is true and stays true             *)
(* (notify.go:190-202).                                                        *)
THEOREM ReportsHold == Spec => []ExpiryReportsAreTrue
<1>1. IInv => ExpiryReportsAreTrue
  BY DEF IInv
<1> QED BY IInvHolds, <1>1, PTL

(* Each process warns once about a bounty; only a failed mark, or a crash       *)
(* before it, makes it warn again (notify.go:181-188).                         *)
THEOREM WarningsHold == Spec => []WarningsAreExplained
<1>1. IInv => WarningsAreExplained
  <2> SUFFICES ASSUME IInv, NEW b \in Bounty
               PROVE  notice[b].soon <= Cardinality(Process) + faults
    BY DEF WarningsAreExplained
  <2>1. Cardinality(Spent(b)) <= Cardinality(Process) /\ Cardinality(Process) \in Nat
    BY BountiesAssumption, FS_Subset, FS_CardinalityType DEF Spent
  <2>2. notice[b].soon \in Nat /\ faults \in Nat
    BY BountiesAssumption, CountsProcesses DEF IInv, TypeOK
  <2>3. notice[b].soon <= Cardinality(Spent(b)) + faults
    BY DEF IInv, WarningsArePaid
  <2> QED BY <2>1, <2>2, <2>3, CountsProcesses
<1> QED BY IInvHolds, <1>1, PTL
===============================================================================
