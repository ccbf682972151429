------------------------------ MODULE Bounties ------------------------------
(***************************************************************************)
(* One-time bounties with a deadline: the catalog (internal/store/tasks.go, *)
(* internal/api/tasks.go), the claims that submissions make on it           *)
(* (internal/api/holds.go) and the two sweeps over it, the background one   *)
(* that tells people (internal/notify/notify.go), which each API process    *)
(* runs for itself, and the silent one that every listing of the catalog    *)
(* makes.  Each store call is one action; what was read by an earlier call  *)
(* may be stale by then, and a call may fail.  The coins behind a           *)
(* submission are the business of Holds: here a claim that is won is a live *)
(* submission at once.                                                      *)
(***************************************************************************)
EXTENDS Integers, FiniteSets

CONSTANTS
  Bounty,       \* tasks with is_bounty
  Holder,       \* customers that submit, one submission each at a time
  Operator,     \* operators that update tasks, one PATCH each at a time
  Process,      \* API processes, each with a sweep of its own
  StartsActive, \* what a new task's active flag may be: TRUE unless the request says otherwise
  MaxTime,      \* the clock stops here
  Window,       \* bountyExpiryWindow
  MaxFaults     \* failing calls and crashes in a behaviour

Nobody == "nobody"
Nothing == "nothing"
Never == MaxTime + 1      \* no expires_at

ASSUME BountiesAssumption ==
  /\ MaxTime \in Nat /\ Window \in Nat /\ MaxFaults \in Nat
  /\ StartsActive \subseteq BOOLEAN
  /\ IsFiniteSet(Process)
  /\ Nobody \notin Holder
  /\ Nothing \notin Bounty

VARIABLES
  now,          \* the database's clock
  bounty,       \* the tasks table: the bounties created so far
  submission,   \* per holder: its running request, or its undecided submission
  winner,       \* per bounty: the holder whose submission was approved
  patch,        \* per operator: the copy of a task a running PATCH will write
  sweep,        \* per process: where its background sweep is
  notice,       \* per bounty: warnings sent, and whether its expiry was reported
  faults

vars == <<now, bounty, submission, winner, patch, sweep, notice, faults>>

(* Warnings are counted up to one more than there should ever be. *)
Many == Cardinality(Process) + MaxFaults + 1
OneMore(n) == IF n < Many THEN n + 1 ELSE Many

Task == [active: BOOLEAN, claimed_by: Holder \cup {Nobody}, expires_at: 1..Never,
         alerted: BOOLEAN]
Submission == [step: {"none", "claim", "live", "release"}, bounty: Bounty \cup {Nothing}]
Patch == [bounty: Bounty, active: BOOLEAN, claimed_by: Holder \cup {Nobody}]
Sweep == [step: {"idle", "alert", "mark", "retire", "report"}, todo: SUBSET Bounty,
          at: Bounty \cup {Nothing}]

TypeOK ==
  /\ now \in 0..MaxTime
  /\ DOMAIN bounty \subseteq Bounty
  /\ \A b \in DOMAIN bounty : bounty[b] \in Task
  /\ submission \in [Holder -> Submission]
  /\ winner \in [Bounty -> Holder \cup {Nobody}]
  /\ DOMAIN patch \subseteq Operator
  /\ \A p \in DOMAIN patch : patch[p] \in Patch
  /\ sweep \in [Process -> Sweep]
  /\ notice \in [Bounty -> [soon: 0..Many, expired: BOOLEAN]]
  /\ faults \in 0..MaxFaults

NoSubmission == [step |-> "none", bounty |-> Nothing]
Resting == [step |-> "idle", todo |-> {}, at |-> Nothing]

Init ==
  /\ now = 0
  /\ bounty = [b \in {} |-> NoSubmission]
  /\ submission = [w \in Holder |-> NoSubmission]
  /\ winner = [b \in Bounty |-> Nobody]
  /\ patch = [p \in {} |-> NoSubmission]
  /\ sweep = [p \in Process |-> Resting]
  /\ notice = [b \in Bounty |-> [soon |-> 0, expired |-> FALSE]]
  /\ faults = 0

Expired(b) == bounty[b].expires_at <= now

Tick ==
  /\ now < MaxTime
  /\ now' = now + 1
  /\ UNCHANGED <<bounty, submission, winner, patch, sweep, notice, faults>>

----------------------------------------------------------------------------
(* Operators *)

(* Mutant: the new row has an empty claim where NULL is meant. *)
CreateTaskClaimedByEmpty(b, active, expires_at) ==
  /\ b \notin DOMAIN bounty
  /\ expires_at > now
  /\ bounty' = [c \in DOMAIN bounty \cup {b} |->
                 IF c = b
                 THEN [active |-> active, claimed_by |-> "", expires_at |-> expires_at,
                       alerted |-> FALSE]
                 ELSE bounty[c]]
  /\ UNCHANGED <<now, submission, winner, patch, sweep, notice, faults>>

(* handleCreateTask of a bounty: a deadline has to lie in the future. *)
CreateTask(b, active, expires_at) ==
  /\ b \notin DOMAIN bounty
  /\ expires_at > now
  /\ bounty' = [c \in DOMAIN bounty \cup {b} |->
                 IF c = b
                 THEN [active |-> active, claimed_by |-> Nobody, expires_at |-> expires_at,
                       alerted |-> FALSE]
                 ELSE bounty[c]]
  /\ UNCHANGED <<now, submission, winner, patch, sweep, notice, faults>>

(* handleUpdateTask loads the task and changes its copy.  A request that says  *)
(* nothing about "active" leaves in the copy what was read.                    *)
LoadTask(p, b, active) ==
  /\ p \notin DOMAIN patch
  /\ patch' = [q \in DOMAIN patch \cup {p} |->
                IF q = p
                THEN [bounty |-> b, active |-> active, claimed_by |-> bounty[b].claimed_by]
                ELSE patch[q]]
  /\ UNCHANGED <<now, bounty, submission, winner, sweep, notice, faults>>

EndPatch(p) == patch' = [q \in DOMAIN patch \ {p} |-> patch[q]]

(* Mutant: the update writes the claim of the copy as well. *)
UpdateTaskWithClaim(p) ==
  LET b == patch[p].bounty IN
  /\ p \in DOMAIN patch
  /\ bounty' = [bounty EXCEPT ![b].active = patch[p].active,
                              ![b].claimed_by = patch[p].claimed_by]
  /\ EndPatch(p)
  /\ UNCHANGED <<now, submission, winner, sweep, notice, faults>>

(* Store.UpdateTask writes name, description, value and active; the claim and  *)
(* the deadline stay as they are in the table.                                 *)
UpdateTask(p) ==
  LET b == patch[p].bounty IN
  /\ p \in DOMAIN patch
  /\ bounty' = [bounty EXCEPT ![b].active = patch[p].active]
  /\ EndPatch(p)
  /\ UNCHANGED <<now, submission, winner, sweep, notice, faults>>

----------------------------------------------------------------------------
(* Submissions *)

At(w, step) == submission[w].step = step
Goto(w, step, b) == submission' = [submission EXCEPT ![w] = [step |-> step, bounty |-> b]]
Forget(w) == submission' = [submission EXCEPT ![w] = NoSubmission]

(* handleCreateEarning loads the task, refuses an inactive one, and goes on     *)
(* with a copy that may be stale by then.                                      *)
CreateEarning(w, b) ==
  /\ At(w, "none")
  /\ bounty[b].active
  /\ Goto(w, "claim", b)
  /\ UNCHANGED <<now, bounty, winner, patch, sweep, notice, faults>>

(* The WHERE clause of Store.ClaimBounty. *)
Claimable(b) ==
  /\ bounty[b].active
  /\ bounty[b].claimed_by = Nobody
  /\ ~Expired(b)

ClaimBounty(w) ==
  LET b == submission[w].bounty IN
  /\ At(w, "claim")
  /\ \/ /\ Claimable(b)
        /\ bounty' = [bounty EXCEPT ![b].claimed_by = w]
        /\ Goto(w, "live", b)
     \/ /\ ~Claimable(b)
        /\ Forget(w)
        /\ UNCHANGED bounty
  /\ UNCHANGED <<now, winner, patch, sweep, notice, faults>>

Approve(w) ==
  /\ At(w, "live")
  /\ winner' = [winner EXCEPT ![submission[w].bounty] = w]
  /\ Forget(w)
  /\ UNCHANGED <<now, bounty, patch, sweep, notice, faults>>

(* Declining voids the row first and releases the claim by a later call. *)
Decline(w) ==
  /\ At(w, "live")
  /\ Goto(w, "release", submission[w].bounty)
  /\ UNCHANGED <<now, bounty, winner, patch, sweep, notice, faults>>

ReleaseBountyClaim(w) ==
  /\ At(w, "release")
  /\ bounty' = [bounty EXCEPT ![submission[w].bounty].claimed_by = Nobody]
  /\ Forget(w)
  /\ UNCHANGED <<now, winner, patch, sweep, notice, faults>>

----------------------------------------------------------------------------
(* The sweeps *)

(* Mutant: only those whose holders were warned. *)
ExpiredAndWarned ==
  {b \in DOMAIN bounty : bounty[b].active /\ Expired(b) /\ bounty[b].alerted}

ExpiredOnCatalog == {b \in DOMAIN bounty : bounty[b].active /\ Expired(b)}

Retire(S) ==
  bounty' = [b \in DOMAIN bounty |->
              IF b \in S THEN [bounty[b] EXCEPT !.active = FALSE] ELSE bounty[b]]

(* handleListTasks: RetireExpiredBounties, an audit entry and nothing else. *)
ListTasks ==
  /\ ExpiredOnCatalog # {}
  /\ Retire(ExpiredOnCatalog)
  /\ UNCHANGED <<now, submission, winner, patch, sweep, notice, faults>>

(* A call that fails: its error is logged, or answered, and nothing is retried. *)
Fails == faults < MaxFaults /\ faults' = faults + 1
Works == UNCHANGED faults

SweepTo(p, step, todo, at) ==
  sweep' = [sweep EXCEPT ![p] = [step |-> step, todo |-> todo, at |-> at]]

(* Mutant: the list of expiring bounties includes those that were alerted. *)
ExpiringSoonAgain ==
  {b \in DOMAIN bounty :
     /\ bounty[b].active /\ bounty[b].claimed_by = Nobody
     /\ now < bounty[b].expires_at /\ bounty[b].expires_at <= now + Window
     /\ bounty[b].expires_at # Never}

(* The WHERE clause of ListBountiesExpiringSoon. *)
ExpiringSoon ==
  {b \in DOMAIN bounty :
     /\ bounty[b].active /\ bounty[b].claimed_by = Nobody /\ ~bounty[b].alerted
     /\ now < bounty[b].expires_at /\ bounty[b].expires_at <= now + Window
     /\ bounty[b].expires_at # Never}

(* SweepBounties on a tick of its timer lists the bounties to warn about; when *)
(* the query fails it goes on to retire.                                       *)
StartSweep(p) ==
  /\ sweep[p].step = "idle"
  /\ \/ /\ ExpiringSoon # {}
        /\ SweepTo(p, "alert", ExpiringSoon, Nothing)
        /\ Works
     \/ /\ ExpiringSoon = {}
        /\ SweepTo(p, "retire", {}, Nothing)
        /\ Works
     \/ /\ SweepTo(p, "retire", {}, Nothing)
        /\ Fails
  /\ UNCHANGED <<now, bounty, submission, winner, patch, notice>>

(* NotifyHolders drops its errors: the bounty is marked all the same. *)
NotifyExpiringSoon(p, b) ==
  /\ sweep[p].step = "alert"
  /\ b \in sweep[p].todo
  /\ \/ notice' = [notice EXCEPT ![b].soon = OneMore(@)] /\ Works
     \/ UNCHANGED notice /\ Fails
  /\ SweepTo(p, "mark", sweep[p].todo \ {b}, b)
  /\ UNCHANGED <<now, bounty, submission, winner, patch>>

(* The mark, or a failed one, which is logged: the pass goes on with the next  *)
(* bounty and a later pass finds this one unmarked.                            *)
MarkBountyExpiringNotified(p) ==
  /\ sweep[p].step = "mark"
  /\ \/ bounty' = [bounty EXCEPT ![sweep[p].at].alerted = TRUE] /\ Works
     \/ UNCHANGED bounty /\ Fails
  /\ SweepTo(p, IF sweep[p].todo = {} THEN "retire" ELSE "alert", sweep[p].todo, Nothing)
  /\ UNCHANGED <<now, submission, winner, patch, notice>>

(* Mutant: the operators are told of claimed bounties too. *)
RetireReportingAll(p) ==
  /\ sweep[p].step = "retire"
  /\ Retire(ExpiredOnCatalog)
  /\ SweepTo(p, IF ExpiredOnCatalog = {} THEN "idle" ELSE "report", ExpiredOnCatalog, Nothing)
  /\ Works
  /\ UNCHANGED <<now, submission, winner, patch, notice>>

(* RetireExpiredBountiesDetailed; only the unclaimed ones are reported.  A call *)
(* that fails may have retired them, but its list is lost.                     *)
RetireExpiredBounties(p) ==
  LET unclaimed == {b \in ExpiredOnCatalog : bounty[b].claimed_by = Nobody} IN
  /\ sweep[p].step = "retire"
  /\ \/ /\ Retire(ExpiredOnCatalog)
        /\ SweepTo(p, IF unclaimed = {} THEN "idle" ELSE "report", unclaimed, Nothing)
        /\ Works
     \/ /\ Retire(ExpiredOnCatalog) \/ UNCHANGED bounty
        /\ SweepTo(p, "idle", {}, Nothing)
        /\ Fails
  /\ UNCHANGED <<now, submission, winner, patch, notice>>

NotifyExpired(p, b) ==
  /\ sweep[p].step = "report"
  /\ b \in sweep[p].todo
  /\ \/ notice' = [notice EXCEPT ![b].expired = TRUE] /\ Works
     \/ UNCHANGED notice /\ Fails
  /\ SweepTo(p, IF sweep[p].todo = {b} THEN "idle" ELSE "report", sweep[p].todo \ {b}, Nothing)
  /\ UNCHANGED <<now, bounty, submission, winner, patch>>

----------------------------------------------------------------------------
(* A process stops, with its sweep ... *)
Crash(p) ==
  /\ Fails
  /\ sweep[p].step # "idle"
  /\ sweep' = [sweep EXCEPT ![p] = Resting]
  /\ UNCHANGED <<now, bounty, submission, winner, patch, notice>>

(* ... and a request, of a holder or an operator, ends before its next call     *)
(* takes effect: its process stops, the call fails, or its client is gone.     *)
LoseRequest(w) ==
  /\ Fails
  /\ At(w, "claim") \/ At(w, "release")
  /\ Forget(w)
  /\ UNCHANGED <<now, bounty, winner, patch, sweep, notice>>

LosePatch(q) ==
  /\ Fails
  /\ q \in DOMAIN patch
  /\ EndPatch(q)
  /\ UNCHANGED <<now, bounty, submission, winner, sweep, notice>>

Sweeping(p) ==
  \/ StartSweep(p)
  \/ \E b \in Bounty : NotifyExpiringSoon(p, b)
  \/ MarkBountyExpiringNotified(p)
  \/ RetireExpiredBounties(p)
  \/ \E b \in Bounty : NotifyExpired(p, b)

Next ==
  \/ Tick
  \/ \E b \in Bounty, active \in StartsActive, t \in 1..Never : CreateTask(b, active, t)
  \/ \E p \in Operator, b \in DOMAIN bounty, active \in BOOLEAN : LoadTask(p, b, active)
  \/ \E p \in Operator : UpdateTask(p)
  \/ \E w \in Holder, b \in DOMAIN bounty : CreateEarning(w, b)
  \/ \E w \in Holder :
       ClaimBounty(w) \/ Approve(w) \/ Decline(w) \/ ReleaseBountyClaim(w)
  \/ ListTasks
  \/ \E p \in Process : Sweeping(p) \/ Crash(p)
  \/ \E w \in Holder : LoseRequest(w)
  \/ \E q \in Operator : LosePatch(q)

Spec == Init /\ [][Next]_vars

(* The ticker of cmd/api/main.go fires again and again, and a pass runs on. *)
FairSpec == Spec /\ \A p \in Process : WF_vars(Sweeping(p))

----------------------------------------------------------------------------
(* While a submission is undecided its holder keeps the claim, and an approved *)
(* bounty belongs to its winner for good: no sweep, no update of the task from *)
(* a stale copy and no other holder takes it away, although the claim and the  *)
(* active flag live in one row (tasks.go:60-105, api/tasks.go:104-142).        *)
ClaimsAreKept ==
  /\ \A w \in Holder :
       At(w, "live") => bounty[submission[w].bounty].claimed_by = w
  /\ \A b \in DOMAIN bounty : winner[b] # Nobody => bounty[b].claimed_by = winner[b]

(* Operators are told that a bounty expired unclaimed only if that is true,    *)
(* and it stays true: nobody had claimed it when it was retired and nobody can *)
(* any more, not even after an operator put it back (notify.go:190-202).       *)
ExpiryReportsAreTrue ==
  \A b \in DOMAIN bounty :
    notice[b].expired => Expired(b) /\ bounty[b].claimed_by = Nobody

(* Holders are warned about a bounty once by each process at most, however     *)
(* often its sweep finds it in the window and whatever operators and claims do *)
(* to it meanwhile; only a mark that fails, or a crash before the mark, lets a *)
(* process warn again (notify.go:181-188).                                     *)
WarningsAreExplained ==
  \A b \in Bounty : notice[b].soon <= Cardinality(Process) + faults

(* Once its deadline passes, a bounty nobody claimed leaves the catalog        *)
(* without anybody having to retire it, and again after an update from a stale *)
(* copy has put it back (tasks.go:107-112, notify.go:190).                     *)
ListedExpired(b) == b \in DOMAIN bounty /\ bounty[b].active /\ Expired(b)
Unclaimed(b) == bounty[b].claimed_by = Nobody
ExpiredBountiesRetire ==
  \A b \in Bounty : ListedExpired(b) /\ Unclaimed(b) ~> ~ListedExpired(b)

(* A bounty that expires with nobody on it is reported to the operators: the   *)
(* sweep "retires (with a notification) any that already expired"              *)
(* (cmd/api/main.go:67-68).                                                    *)
ExpiriesAreReported ==
  \A b \in Bounty :
    ListedExpired(b) /\ Unclaimed(b) ~> notice[b].expired
=============================================================================
