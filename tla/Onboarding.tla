------------------------------ MODULE Onboarding ------------------------------
(***************************************************************************)
(* API processes and one-shot jobs start and migrate the schema              *)
(* (internal/store/store.go, cmd/api/main.go, cmd/statement-job/main.go); an *)
(* API process then serves, a job does its work and ends.  A serving process *)
(* signs households up (internal/api/auth_handlers.go) and creates customers *)
(* in them (internal/api/customers.go).  Each migration is one transaction,  *)
(* but a handler writes its accounts, rows and login one by one: it can be   *)
(* cut between two writes, and two requests can look the same name up.       *)
(***************************************************************************)
EXTENDS Integers, Sequences, FiniteSets

CONSTANTS
  Process,        \* processes on one database
  Job,            \* those that never serve: the statement job
  Request,        \* signups and customer creations, numbered as they arrive
  Name,           \* usernames
  LastVersion,    \* the newest migration
  TenantVersion,  \* the migration that makes households
  MaxSignups,     \* signups among the requests
  MaxCrashes,     \* processes that die
  MaxFaults       \* store or ledger calls that fail, in effect or only in answer

DefaultHousehold == 0

ASSUME OnboardingAssumption ==
  /\ LastVersion \in Nat \ {0} /\ TenantVersion \in 1..LastVersion
  /\ Job \subseteq Process
  /\ MaxSignups \in Nat /\ MaxCrashes \in Nat /\ MaxFaults \in Nat
  /\ Request \subseteq Nat \ {DefaultHousehold}

VARIABLES
  recorded,  \* schema_migrations: the versions whose transaction was committed
  proc,      \* the processes
  bank,      \* the tables, and the accounts opened in the ledger
  request,   \* the requests so far
  crashes, faults

vars == <<recorded, proc, bank, request, crashes, faults>>

GL == {"issuance", "redemption"}
Opening == Request \X (GL \cup {"wallet"})

(* Mutant: a signup writes the login before the accounts. *)
LoginBeforeAccounts == [
  signup   |-> <<"lookup", "general ledger", "tenant", "customer", "identity", "accounts">>,
  operator |-> <<"lookup", "customer", "identity">>,
  holder   |-> <<"lookup", "customer", "identity", "wallet", "wallet row">>]

(* What a handler does in turn; a write is named for what it makes.          *)
Steps == [
  signup   |-> <<"lookup", "general ledger", "tenant", "accounts", "customer", "identity">>,
  operator |-> <<"lookup", "customer", "identity">>,
  holder   |-> <<"lookup", "customer", "identity", "wallet", "wallet row">>]

(* met: the requests for the same name that ran while this one did.          *)
Asked == [kind: DOMAIN Steps, name: Name, household: Request, at: Process,
          step: 1..6, met: SUBSET Request,
          end: {"running", "done", "refused", "failed", "lost", "cut"}]

TypeOK ==
  /\ recorded \subseteq 1..LastVersion
  /\ proc \in [Process -> [at: {"down", "check", "apply", "serving", "working"},
                           version: 1..LastVersion]]
  /\ bank \in [tenant: SUBSET (Request \cup {DefaultHousehold}), customer: SUBSET Request,
               ledger: SUBSET Opening, account: SUBSET Opening,
               identity: [DOMAIN bank.identity -> Name]]
  /\ DOMAIN bank.identity \subseteq Request
  /\ request \in [DOMAIN request -> Asked] /\ DOMAIN request \subseteq Request
  /\ \A r \in DOMAIN request : request[r].step \in DOMAIN Steps[request[r].kind]
  /\ crashes \in 0..MaxCrashes
  /\ faults \in 0..MaxFaults

Init ==
  /\ recorded = {}
  /\ proc = [p \in Process |-> [at |-> "down", version |-> 1]]
  /\ bank = [tenant |-> {}, customer |-> {}, ledger |-> {}, account |-> {},
             identity |-> [r \in {} |-> r]]
  /\ request = [r \in {} |-> r]
  /\ crashes = 0
  /\ faults = 0

Fault == faults < MaxFaults /\ faults' = faults + 1

----------------------------------------------------------------------------
(* Starting and migrating *)

Start(p) ==
  /\ proc[p].at = "down"
  /\ proc' = [proc EXCEPT ![p] = [at |-> "check", version |-> 1]]
  /\ UNCHANGED <<recorded, bank, request, crashes, faults>>

(* Mutant: the loop over the migrations does not end. *)
OnwardForever(p, v) ==
  [at |-> "check", version |-> IF v = LastVersion THEN v ELSE v + 1]

Onward(p, v) ==
  IF v = LastVersion
  THEN [at |-> IF p \in Job THEN "working" ELSE "serving", version |-> v]
  ELSE [at |-> "check", version |-> v + 1]
Exited(p) == [proc[p] EXCEPT !.at = "down"]

(* SELECT EXISTS, before the transaction. *)
CheckVersion(p) ==
  LET v == proc[p].version IN
  /\ proc[p].at = "check"
  /\ proc' = [proc EXCEPT ![p] = IF v \in recorded THEN Onward(p, v) ELSE [@ EXCEPT !.at = "apply"]]
  /\ UNCHANGED <<recorded, bank, request, crashes, faults>>

(* Statements and record are one transaction.  It waits for another one that  *)
(* creates the same, and then finds it there.  Migration 3 seeds a household.  *)
Migrated(v) ==
  /\ v \notin recorded
  /\ recorded' = recorded \cup {v}
  /\ bank' = IF v = TenantVersion
             THEN [bank EXCEPT !.tenant = @ \cup {DefaultHousehold}] ELSE bank

(* Mutant: a migration that fails is logged, and the process goes on. *)
ApplyOrGoOn(p) ==
  LET v == proc[p].version IN
  /\ proc[p].at = "apply"
  /\ \/ Migrated(v) /\ UNCHANGED faults
     \/ v \in recorded /\ UNCHANGED <<recorded, bank, faults>>
     \/ Fault /\ UNCHANGED <<recorded, bank>>
  /\ proc' = [proc EXCEPT ![p] = Onward(p, v)]
  /\ UNCHANGED <<request, crashes>>

ApplyMigration(p) ==
  LET v == proc[p].version IN
  /\ proc[p].at = "apply"
  /\ \/ Migrated(v) /\ proc' = [proc EXCEPT ![p] = Onward(p, v)] /\ UNCHANGED faults
     \/ v \in recorded /\ proc' = [proc EXCEPT ![p] = Exited(p)] /\ UNCHANGED <<recorded, bank, faults>>
     \/ Fault /\ Migrated(v) /\ proc' = [proc EXCEPT ![p] = Exited(p)]
  /\ UNCHANGED <<request, crashes>>

(* The statement job has gone through its accounts; it may be run again. *)
JobEnds(p) ==
  /\ proc[p].at = "working"
  /\ proc' = [proc EXCEPT ![p] = Exited(p)]
  /\ UNCHANGED <<recorded, bank, request, crashes, faults>>

(* Any error on the way makes run return it: the process exits. *)
StartFails(p) ==
  /\ proc[p].at \in {"check", "apply"}
  /\ Fault
  /\ proc' = [proc EXCEPT ![p] = Exited(p)]
  /\ UNCHANGED <<recorded, bank, request, crashes>>

Crash(p) ==
  /\ proc[p].at # "down"
  /\ crashes < MaxCrashes /\ crashes' = crashes + 1
  /\ proc' = [proc EXCEPT ![p] = Exited(p)]
  /\ request' = [r \in DOMAIN request |->
                  IF request[r].at = p /\ request[r].end = "running"
                  THEN [request[r] EXCEPT !.end = "cut"] ELSE request[r]]
  /\ UNCHANGED <<recorded, bank, faults>>

----------------------------------------------------------------------------
(* Onboarding *)

Running == {r \in DOMAIN request : request[r].end = "running"}
HolderOf(n) == {r \in DOMAIN bank.identity : bank.identity[r] = n}

(* An operator who creates customers is signed in to a household.            *)
Operators == {r \in DOMAIN bank.identity : request[r].kind # "holder"}

Receive(r, p, kind, n, h) ==
  LET rivals == {s \in Running : request[s].name = n} IN
  /\ r \notin DOMAIN request /\ {s \in Request : s < r} \subseteq DOMAIN request
  /\ proc[p].at = "serving"
  /\ request' = [s \in DOMAIN request \cup {r} |->
       IF s = r
       THEN [kind |-> kind, name |-> n, household |-> h, at |-> p, step |-> 1,
             met |-> rivals, end |-> "running"]
       ELSE IF s \in rivals THEN [request[s] EXCEPT !.met = @ \cup {r}] ELSE request[s]]
  /\ UNCHANGED <<recorded, proc, bank, crashes, faults>>

ReceiveSignup(r, p, n) ==
  /\ Cardinality({s \in DOMAIN request : request[s].kind = "signup"}) < MaxSignups
  /\ Receive(r, p, "signup", n, r)
ReceiveCustomer(r, p, kind, n, actor) ==
  Receive(r, p, kind, n, request[actor].household)

At(r, step) == r \in Running /\ Steps[request[r].kind][request[r].step] = step
End(r, how) == request' = [request EXCEPT ![r].end = how]

(* Mutant: a handler goes on after its last call. *)
AdvanceTooFar(r) == request' = [request EXCEPT ![r].step = @ + 1]

Advance(r) ==
  IF request[r].step = Len(Steps[request[r].kind])
  THEN End(r, "done")
  ELSE request' = [request EXCEPT ![r].step = @ + 1]

(* A call that writes, or fails with or without effect; an error is answered. *)
Attempt(r, written) ==
  /\ \/ bank' = written /\ Advance(r) /\ UNCHANGED faults
     \/ Fault /\ bank' \in {bank, written} /\ End(r, "failed")
  /\ UNCHANGED <<recorded, proc, crashes>>

(* Mutant: the name is not looked up. *)
SkipLookup(r) ==
  /\ At(r, "lookup")
  /\ Advance(r)
  /\ UNCHANGED <<recorded, proc, bank, crashes, faults>>

(* A signup ends when the lookup fails; a customer creation takes a lookup     *)
(* that failed for a name that is free.                                        *)
LookupName(r) ==
  /\ At(r, "lookup")
  /\ \/ HolderOf(request[r].name) # {} /\ End(r, "refused") /\ UNCHANGED faults
     \/ HolderOf(request[r].name) = {} /\ Advance(r) /\ UNCHANGED faults
     \/ Fault /\ IF request[r].kind = "signup" THEN End(r, "failed") ELSE Advance(r)
  /\ UNCHANGED <<recorded, proc, bank, crashes>>

(* The two accounts of the general ledger, one call each; nobody looks in       *)
(* between, so a call that fails may leave none, one or both.                  *)
OpenPair(r, table) ==
  LET with(made) == [bank EXCEPT ![table] = @ \cup {r} \X made] IN
  /\ \/ bank' = with(GL) /\ Advance(r) /\ UNCHANGED faults
     \/ /\ Fault
        /\ \E made \in {{}, {"issuance"}, GL} : bank' = with(made)
        /\ End(r, "failed")
  /\ UNCHANGED <<recorded, proc, crashes>>

OpenGL(r) == At(r, "general ledger") /\ OpenPair(r, "ledger")

(* The row already names the two accounts. *)
CreateTenant(r) ==
  /\ At(r, "tenant")
  /\ Attempt(r, [bank EXCEPT !.tenant = @ \cup {r}])

CreateInternalAccount(r) == At(r, "accounts") /\ OpenPair(r, "account")

CreateCustomer(r) ==
  /\ At(r, "customer")
  /\ Attempt(r, [bank EXCEPT !.customer = @ \cup {r}])

(* identities.username is UNIQUE: the insert fails for a name that was taken   *)
(* since the lookup.                                                           *)
CreateIdentity(r) ==
  LET n == request[r].name IN
  /\ At(r, "identity")
  /\ IF HolderOf(n) # {}
     THEN End(r, "lost") /\ UNCHANGED <<recorded, proc, bank, crashes, faults>>
     ELSE Attempt(r, [bank EXCEPT !.identity =
                       [s \in DOMAIN @ \cup {r} |-> IF s = r THEN n ELSE @[s]]])

OpenAccount(r) ==
  /\ At(r, "wallet")
  /\ Attempt(r, [bank EXCEPT !.ledger = @ \cup {<<r, "wallet">>}])

CreateAccount(r) ==
  /\ At(r, "wallet row")
  /\ Attempt(r, [bank EXCEPT !.account = @ \cup {<<r, "wallet">>}])

Handle(r) ==
  \/ LookupName(r)
  \/ OpenGL(r) \/ CreateTenant(r) \/ CreateInternalAccount(r)
  \/ CreateCustomer(r) \/ CreateIdentity(r)
  \/ OpenAccount(r) \/ CreateAccount(r)

Next ==
  \/ \E p \in Process :
       Start(p) \/ CheckVersion(p) \/ ApplyMigration(p) \/ StartFails(p) \/ JobEnds(p) \/ Crash(p)
  \/ \E r \in Request, p \in Process, n \in Name :
       \/ ReceiveSignup(r, p, n)
       \/ \E kind \in {"operator", "holder"}, actor \in Operators :
            ReceiveCustomer(r, p, kind, n, actor)
  \/ \E r \in DOMAIN request : Handle(r)

(* A process that migrates goes on until it serves, works or exits. *)
Fairness == \A p \in Process : WF_vars(CheckVersion(p) \/ ApplyMigration(p))

Spec == Init /\ [][Next]_vars /\ Fairness

----------------------------------------------------------------------------
(* ListActiveTenants: the seeded household has no GL accounts. *)
ActiveTenants == bank.tenant \ {DefaultHousehold}

(* Processes that start together apply every version once and in order, and    *)
(* one that serves, or a job at work, has the whole schema (store.go:42-101,   *)
(* both main.go): a process that loses the race for a version exits.           *)
SchemaIsInStep ==
  /\ \E n \in 0..LastVersion : recorded = 1..n
  /\ (DefaultHousehold \in bank.tenant) <=> (TenantVersion \in recorded)
  /\ \A p \in Process :
       /\ proc[p].at \in {"check", "apply"} => 1..(proc[p].version - 1) \subseteq recorded
       /\ proc[p].at \in {"serving", "working"} => recorded = 1..LastVersion

(* Wherever a request stopped: who can sign in finds a household the ledger    *)
(* and the tables know (auth_handlers.go:100-112: the login is written last),  *)
(* and the owner of a wallet has a login, so that NotifyCustomer finds one     *)
(* (customers.go:69-85, notify.go:118-125).                                    *)
LoginsAreComplete ==
  /\ \A r \in DOMAIN bank.identity :
       LET h == request[r].household IN
       /\ r \in bank.customer
       /\ h \in ActiveTenants
       /\ {h} \X GL \subseteq bank.ledger \cap bank.account
  /\ \A a \in bank.account : a[2] = "wallet" => a \in bank.ledger /\ a[1] \in DOMAIN bank.identity

Complete(r) ==
  /\ r \in DOMAIN bank.identity
  /\ request[r].kind = "holder" => <<r, "wallet">> \in bank.account
LeftSomething(r) ==
  \/ r \in bank.tenant \cup bank.customer
  \/ \E k \in GL \cup {"wallet"} : <<r, k>> \in bank.ledger

(* What is left half-made — a household the sweep and the statement job go     *)
(* through although nobody can sign in to it, a customer without a login, a    *)
(* holder without a wallet — goes back to a request that was cut or failed, or *)
(* that lost a name to one running at the same time; a request that says it    *)
(* is done left all of it, one that refused left nothing.                      *)
LeftoversAreExplained ==
  \A r \in DOMAIN request :
    /\ request[r].end = "done" => Complete(r)
    /\ request[r].end = "refused" => ~LeftSomething(r)
    /\ request[r].end = "lost" =>
         \/ faults > 0
         \/ \E s \in request[r].met : s \in HolderOf(request[r].name)

Migrating(p) == proc[p].at \in {"check", "apply"}
Disturbed == faults > 0 \/ crashes > 0

(* Processes that migrate together do not all fail each other: unless one dies *)
(* or a call fails, they end up with the whole schema.  The one that brings it *)
(* there may be the statement job, and an API process that lost a version to   *)
(* it exits; but an API process that starts, or is started again, once the     *)
(* schema is whole gets to serve whatever runs beside it.                      *)
StartsGetThrough ==
  /\ (\E p \in Process : Migrating(p)) ~> (recorded = 1..LastVersion \/ Disturbed)
  /\ \A p \in Process \ Job :
       (proc[p].at = "check" /\ recorded = 1..LastVersion) ~>
         (proc[p].at = "serving" \/ Disturbed)
===============================================================================
