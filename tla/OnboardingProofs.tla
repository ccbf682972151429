--------------------------- MODULE OnboardingProofs ---------------------------
(***************************************************************************)
(* Migrations and onboarding, for any number of processes, versions,        *)
(* requests, names, crashes and faults.                                     *)
(***************************************************************************)
EXTENDS Onboarding, TLAPS

(* A household that somebody can sign in to. *)
Ready(h) ==
  /\ h \in ActiveTenants
  /\ {h} \X GL \subseteq bank.ledger
  /\ {h} \X GL \subseteq bank.account

HouseholdsAreReady ==
  \A r \in DOMAIN request :
    IF request[r].kind = "signup" THEN request[r].household = r ELSE Ready(request[r].household)

(* What a request that runs on has made so far. *)
SignupProgress(r) ==
  /\ request[r].step >= 3 => {r} \X GL \subseteq bank.ledger
  /\ request[r].step >= 4 => r \in bank.tenant
  /\ request[r].step >= 5 => {r} \X GL \subseteq bank.account
  /\ request[r].step >= 6 => r \in bank.customer

CustomerProgress(r) ==
  /\ request[r].step >= 3 => r \in bank.customer
  /\ request[r].step >= 4 => r \in DOMAIN bank.identity
  /\ request[r].step >= 5 => <<r, "wallet">> \in bank.ledger

Progress(r) ==
  IF request[r].kind = "signup" THEN SignupProgress(r) ELSE CustomerProgress(r)

WorkIsOnRecord == \A r \in Running : Progress(r)

LoginsHaveRequests == DOMAIN bank.identity \subseteq DOMAIN request

IInv ==
  /\ TypeOK
  /\ SchemaIsInStep
  /\ LoginsHaveRequests
  /\ HouseholdsAreReady
  /\ WorkIsOnRecord
  /\ LoginsAreComplete

LEMMA InitIInv == Init => IInv
<1> SUFFICES ASSUME Init PROVE IInv
  OBVIOUS
<1> USE OnboardingAssumption DEF Init
<1>1. TypeOK
  BY DEF TypeOK
<1>2. SchemaIsInStep
  <2>1. recorded = 1..0
    OBVIOUS
  <2> QED BY <2>1 DEF SchemaIsInStep
<1>3. LoginsHaveRequests /\ HouseholdsAreReady /\ WorkIsOnRecord /\ LoginsAreComplete
  BY DEF LoginsHaveRequests, HouseholdsAreReady, WorkIsOnRecord, LoginsAreComplete, Running
<1> QED BY <1>1, <1>2, <1>3 DEF IInv

----------------------------------------------------------------------------
(* How a handler moves on *)

LEMMA StepKinds ==
  /\ DOMAIN Steps = {"signup", "operator", "holder"}
  /\ DOMAIN Steps["signup"] = 1..6 /\ Len(Steps["signup"]) = 6
  /\ DOMAIN Steps["operator"] = 1..3 /\ Len(Steps["operator"]) = 3
  /\ DOMAIN Steps["holder"] = 1..5 /\ Len(Steps["holder"]) = 5
BY DEF Steps

(* The request of a handler keeps what it asked for, the others everything. *)
Moved(r) ==
  /\ DOMAIN request' = DOMAIN request
  /\ request' \in [DOMAIN request -> Asked]
  /\ \A s \in DOMAIN request : s # r => request'[s] = request[s]
  /\ request'[r].kind = request[r].kind
  /\ request'[r].household = request[r].household
  /\ request'[r].name = request[r].name /\ request'[r].met = request[r].met
  /\ request'[r].step \in DOMAIN Steps[request'[r].kind]
  /\ request'[r].end = "running" => request'[r].step = request[r].step + 1

LEMMA ReplaceMoves ==
  ASSUME TypeOK, NEW r \in Running, NEW q \in Asked,
         request' = [request EXCEPT ![r] = q],
         q.kind = request[r].kind, q.household = request[r].household,
         q.name = request[r].name, q.met = request[r].met,
         q.step \in DOMAIN Steps[q.kind],
         q.end = "running" => q.step = request[r].step + 1
  PROVE  Moved(r)
BY DEF TypeOK, Running, Moved

LEMMA EndMoves ==
  ASSUME TypeOK, NEW r \in Running, NEW how \in {"done", "refused", "failed", "lost", "cut"},
         End(r, how)
  PROVE  Moved(r) /\ request'[r].end = how
<1> DEFINE q == [request[r] EXCEPT !.end = how]
<1>1. r \in DOMAIN request /\ request[r] \in Asked
  BY DEF TypeOK, Running
<1>2. q \in Asked /\ q.end = how /\ q.kind = request[r].kind /\ q.household = request[r].household
      /\ q.step = request[r].step /\ q.name = request[r].name /\ q.met = request[r].met
  BY <1>1 DEF Asked
<1>3. request' = [request EXCEPT ![r] = q]
  BY DEF End
<1>4. q.step \in DOMAIN Steps[q.kind]
  BY <1>1, <1>2 DEF TypeOK
<1> HIDE DEF q
<1>5. Moved(r)
  BY <1>2, <1>3, <1>4, ReplaceMoves
<1>6. request'[r] = q
  BY <1>1, <1>3 DEF TypeOK
<1> QED BY <1>2, <1>5, <1>6

LEMMA AdvanceMoves ==
  ASSUME TypeOK, NEW r \in Running, Advance(r)
  PROVE  /\ Moved(r) /\ request'[r].end \in {"running", "done"}
         /\ request'[r].end = "done" => request[r].step = Len(Steps[request[r].kind])
<1>1. r \in DOMAIN request /\ request[r] \in Asked
  BY DEF TypeOK, Running
<1>2. request[r].kind \in DOMAIN Steps /\ request[r].step \in DOMAIN Steps[request[r].kind]
  BY <1>1 DEF TypeOK, Asked
<1>3. CASE request[r].step = Len(Steps[request[r].kind])
  BY <1>3, EndMoves DEF Advance
<1>4. CASE request[r].step # Len(Steps[request[r].kind])
  <2> DEFINE q == [request[r] EXCEPT !.step = @ + 1]
  <2>1. request[r].step + 1 \in DOMAIN Steps[request[r].kind] /\ request[r].step + 1 \in 1..6
    <3>1. CASE request[r].kind = "signup"
      BY <1>2, <1>4, <3>1, StepKinds
    <3>2. CASE request[r].kind = "operator"
      BY <1>2, <1>4, <3>2, StepKinds
    <3>3. CASE request[r].kind = "holder"
      BY <1>2, <1>4, <3>3, StepKinds
    <3> QED BY <1>2, <3>1, <3>2, <3>3, StepKinds
  <2>2. q \in Asked /\ q.kind = request[r].kind /\ q.household = request[r].household
        /\ q.step = request[r].step + 1 /\ q.name = request[r].name /\ q.met = request[r].met
    BY <1>1, <2>1 DEF Asked
  <2>3. request' = [request EXCEPT ![r] = q]
    BY <1>4 DEF Advance
  <2>4. request'[r].end = "running"
    <3>1. q.end = "running"
      BY <1>1 DEF Asked, Running
    <3>2. request'[r] = q
      <4> HIDE DEF q
      <4> QED BY <1>1, <2>3 DEF TypeOK
    <3> QED BY <3>1, <3>2
  <2> HIDE DEF q
  <2> QED BY <2>1, <2>2, <2>3, <2>4, ReplaceMoves
<1> QED BY <1>3, <1>4

(* What a call that writes does. *)
LEMMA AttemptMoves ==
  ASSUME TypeOK, NEW r \in Running, NEW written, Attempt(r, written)
  PROVE  /\ Moved(r) /\ bank' \in {bank, written} /\ UNCHANGED <<recorded, proc, crashes>>
         /\ request'[r].end = "running" => bank' = written
         /\ faults' \in 0..MaxFaults
<1>1. CASE Advance(r) /\ bank' = written /\ UNCHANGED faults
  BY <1>1, AdvanceMoves DEF Attempt, TypeOK
<1>2. CASE Fault /\ bank' \in {bank, written} /\ End(r, "failed")
  <2>1. Moved(r) /\ request'[r].end = "failed"
    BY <1>2, EndMoves
  <2> QED BY <1>2, <2>1, OnboardingAssumption DEF Attempt, TypeOK, Fault
<1> QED BY <1>1, <1>2 DEF Attempt

LEMMA OpenPairMoves ==
  ASSUME TypeOK, NEW r \in Running, NEW table \in {"ledger", "account"}, OpenPair(r, table)
  PROVE  /\ Moved(r) /\ UNCHANGED <<recorded, proc, crashes>>
         /\ \E made \in SUBSET GL : bank' = [bank EXCEPT ![table] = @ \cup {r} \X made]
         /\ request'[r].end = "running" => bank' = [bank EXCEPT ![table] = @ \cup {r} \X GL]
         /\ faults' \in 0..MaxFaults
<1> DEFINE with(made) == [bank EXCEPT ![table] = @ \cup {r} \X made]
<1>1. CASE bank' = with(GL) /\ Advance(r) /\ UNCHANGED faults
  <2>1. \E made \in SUBSET GL : bank' = with(made)
    BY <1>1
  <2> QED BY <1>1, <2>1, AdvanceMoves DEF OpenPair, TypeOK
<1>2. CASE /\ Fault
           /\ \E made \in {{}, {"issuance"}, GL} : bank' = with(made)
           /\ End(r, "failed")
  <2>1. Moved(r) /\ request'[r].end = "failed"
    BY <1>2, EndMoves
  <2>2. \E made \in SUBSET GL : bank' = with(made)
    BY <1>2 DEF GL
  <2>3. faults' \in 0..MaxFaults
    BY <1>2, OnboardingAssumption DEF TypeOK, Fault
  <2>4. UNCHANGED <<recorded, proc, crashes>>
    BY DEF OpenPair
  <2> QED BY <2>1, <2>2, <2>3, <2>4
<1> QED BY <1>1, <1>2 DEF OpenPair

LEMMA StepNames ==
  /\ Steps["signup"][1] = "lookup" /\ Steps["signup"][2] = "general ledger"
  /\ Steps["signup"][3] = "tenant" /\ Steps["signup"][4] = "accounts"
  /\ Steps["signup"][5] = "customer" /\ Steps["signup"][6] = "identity"
  /\ Steps["operator"][1] = "lookup" /\ Steps["operator"][2] = "customer"
  /\ Steps["operator"][3] = "identity"
  /\ Steps["holder"][1] = "lookup" /\ Steps["holder"][2] = "customer"
  /\ Steps["holder"][3] = "identity" /\ Steps["holder"][4] = "wallet"
  /\ Steps["holder"][5] = "wallet row"
BY DEF Steps

(* Which call of which handler a request has come to. *)
LEMMA StepOf ==
  ASSUME TypeOK, NEW r \in Running
  PROVE  /\ At(r, "lookup") => request[r].step = 1
         /\ At(r, "general ledger") => request[r].kind = "signup" /\ request[r].step = 2
         /\ At(r, "tenant") => request[r].kind = "signup" /\ request[r].step = 3
         /\ At(r, "accounts") => request[r].kind = "signup" /\ request[r].step = 4
         /\ At(r, "customer") => IF request[r].kind = "signup" THEN request[r].step = 5
                                                              ELSE request[r].step = 2
         /\ At(r, "identity") => IF request[r].kind = "signup" THEN request[r].step = 6
                                                              ELSE request[r].step = 3
         /\ At(r, "wallet") => request[r].kind = "holder" /\ request[r].step = 4
         /\ At(r, "wallet row") => request[r].kind = "holder" /\ request[r].step = 5
<1>1. request[r].kind \in DOMAIN Steps /\ request[r].step \in DOMAIN Steps[request[r].kind]
  BY DEF TypeOK, Running, Asked
<1>2. CASE request[r].kind = "signup"
  <2>1. request[r].step \in 1..6
    BY <1>1, <1>2, StepKinds
  <2>2. request[r].step = 1 \/ request[r].step = 2 \/ request[r].step = 3
        \/ request[r].step = 4 \/ request[r].step = 5 \/ request[r].step = 6
    BY <2>1
  <2> QED BY <1>2, <2>2, StepNames, Zenon DEF At
<1>3. CASE request[r].kind = "operator"
  <2>1. request[r].step \in 1..3
    BY <1>1, <1>3, StepKinds
  <2>2. request[r].step = 1 \/ request[r].step = 2 \/ request[r].step = 3
    BY <2>1
  <2> QED BY <1>3, <2>2, StepNames, Zenon DEF At
<1>4. CASE request[r].kind = "holder"
  <2>1. request[r].step \in 1..5
    BY <1>1, <1>4, StepKinds
  <2>2. request[r].step = 1 \/ request[r].step = 2 \/ request[r].step = 3
        \/ request[r].step = 4 \/ request[r].step = 5
    BY <2>1
  <2> QED BY <1>4, <2>2, StepNames, Zenon DEF At
<1> QED BY <1>1, <1>2, <1>3, <1>4, StepKinds

----------------------------------------------------------------------------
(* What a handler may do to the tables and the ledger *)

BankTypes ==
  /\ bank \in [tenant: SUBSET (Request \cup {DefaultHousehold}), customer: SUBSET Request,
               ledger: SUBSET Opening, account: SUBSET Opening,
               identity: [DOMAIN bank.identity -> Name]]
  /\ DOMAIN bank.identity \subseteq Request

(* Nothing is ever taken away. *)
Grows ==
  /\ bank.tenant \subseteq bank'.tenant
  /\ bank.customer \subseteq bank'.customer
  /\ bank.ledger \subseteq bank'.ledger
  /\ bank.account \subseteq bank'.account
  /\ DOMAIN bank.identity \subseteq DOMAIN bank'.identity

Wallet(a) == a[2] = "wallet"

Sound(r) ==
  /\ BankTypes' /\ Grows
  /\ DefaultHousehold \in bank'.tenant => DefaultHousehold \in bank.tenant
  /\ DOMAIN bank'.identity \subseteq DOMAIN bank.identity \cup {r}
  /\ r \in DOMAIN bank'.identity \ DOMAIN bank.identity =>
       r \in bank.customer /\ Ready(request[r].household)
  /\ \A a \in bank'.account \ bank.account :
       Wallet(a) => a \in bank.ledger /\ a[1] \in DOMAIN bank.identity
  /\ request'[r].end = "running" => Progress(r)'

Frame == UNCHANGED <<recorded, proc, crashes>> /\ faults' \in 0..MaxFaults

LEMMA ReadyLasts ==
  ASSUME Grows, NEW h, Ready(h)
  PROVE  Ready(h)'
BY DEF Grows, Ready, ActiveTenants

LEMMA ProgressLasts ==
  ASSUME Grows, NEW s, request'[s] = request[s], Progress(s)
  PROVE  Progress(s)'
BY DEF Grows, Progress, SignupProgress, CustomerProgress

LEMMA SoundKeepsIInv ==
  ASSUME IInv, NEW r \in Running, Moved(r), Frame, Sound(r)
  PROVE  IInv'
<1> r \in DOMAIN request
  BY DEF Running
<1>1. TypeOK'
  <2>1. \A s \in DOMAIN request' : request'[s].step \in DOMAIN Steps[request'[s].kind]
    BY DEF IInv, TypeOK, Moved
  <2> QED BY <2>1 DEF IInv, TypeOK, Moved, Frame, Sound, BankTypes
<1>2. SchemaIsInStep'
  BY DEF IInv, SchemaIsInStep, Frame, Sound, Grows
<1>3. LoginsHaveRequests'
  BY DEF IInv, LoginsHaveRequests, Moved, Sound
<1>4. HouseholdsAreReady'
  <2> SUFFICES ASSUME NEW s \in DOMAIN request
               PROVE  IF request'[s].kind = "signup" THEN request'[s].household = s
                                                     ELSE Ready(request[s].household)'
    BY DEF HouseholdsAreReady, Moved
  <2>1. request'[s].kind = request[s].kind /\ request'[s].household = request[s].household
    BY DEF Moved
  <2> QED BY <2>1, ReadyLasts DEF IInv, HouseholdsAreReady, Sound
<1>5. WorkIsOnRecord'
  <2> SUFFICES ASSUME NEW s \in DOMAIN request, request'[s].end = "running"
               PROVE  Progress(s)'
    BY DEF WorkIsOnRecord, Running, Moved
  <2>1. CASE s = r
    BY <2>1 DEF Sound
  <2>2. CASE s # r
    <3>1. request'[s] = request[s] /\ s \in Running
      BY <2>2 DEF Moved, Running
    <3>2. Progress(s)
      BY <3>1 DEF IInv, WorkIsOnRecord
    <3> QED BY <3>1, <3>2, ProgressLasts DEF Sound
  <2> QED BY <2>1, <2>2
<1>6. LoginsAreComplete'
  <2>1. ASSUME NEW s \in DOMAIN bank'.identity
        PROVE  s \in bank'.customer /\ Ready(request[s].household)'
    <3>1. s \in DOMAIN request /\ request'[s].household = request[s].household
      BY <1>3 DEF LoginsHaveRequests, Moved
    <3>2. s \in bank.customer /\ Ready(request[s].household)
      BY DEF IInv, LoginsAreComplete, Ready, Sound
    <3> QED BY <3>1, <3>2, ReadyLasts DEF Sound, Grows
  <2>2. ASSUME NEW a \in bank'.account, a[2] = "wallet"
        PROVE  a \in bank'.ledger /\ a[1] \in DOMAIN bank'.identity
    BY <2>2 DEF IInv, LoginsAreComplete, Sound, Grows, Wallet
  <2>3. \A s \in DOMAIN bank'.identity :
          /\ request'[s].household \in ActiveTenants'
          /\ {request'[s].household} \X GL \subseteq bank'.ledger
          /\ {request'[s].household} \X GL \subseteq bank'.account
    BY <2>1 DEF Ready
  <2> QED BY <2>1, <2>2, <2>3 DEF LoginsAreComplete
<1> QED BY <1>1, <1>2, <1>3, <1>4, <1>5, <1>6 DEF IInv

(* A call that leaves the bank alone. *)
LEMMA IdleKeepsIInv ==
  ASSUME IInv, NEW r \in Running, Moved(r), Frame, UNCHANGED bank,
         request[r].step >= 2 => request'[r].end # "running"
  PROVE  IInv'
<1>1. BankTypes' /\ Grows
  BY DEF IInv, TypeOK, BankTypes, Grows
<1>2. request'[r].end = "running" => Progress(r)'
  <2>1. r \in DOMAIN request /\ request[r].step \in 1..6
    BY DEF IInv, TypeOK, Running, Asked
  <2>2. request'[r].end = "running" => request'[r].step = 2
    BY <2>1 DEF Moved
  <2> QED BY <2>2 DEF Progress, SignupProgress, CustomerProgress
<1> QED BY <1>1, <1>2, SoundKeepsIInv DEF Sound

LEMMA LookupNameIInv ==
  ASSUME IInv, NEW r \in Running, LookupName(r)
  PROVE  IInv'
<1> USE DEF IInv
<1>1. request[r].step = 1
  BY StepOf DEF LookupName
<1>2. Moved(r)
  BY AdvanceMoves, EndMoves DEF LookupName
<1>3. Frame /\ UNCHANGED bank
  BY OnboardingAssumption DEF LookupName, Frame, Fault, TypeOK
<1> QED BY <1>1, <1>2, <1>3, IdleKeepsIInv

LEMMA BankIsTyped == ASSUME TypeOK PROVE BankTypes
BY DEF TypeOK, BankTypes

LEMMA OpenGLIInv ==
  ASSUME IInv, NEW r \in Running, OpenGL(r)
  PROVE  IInv'
<1>1. TypeOK /\ BankTypes /\ r \in Request /\ r \in DOMAIN request
  BY BankIsTyped DEF IInv, TypeOK, Running
<1>2. request[r].kind = "signup" /\ request[r].step = 2
  BY <1>1, StepOf DEF OpenGL
<1>3. Moved(r) /\ Frame
  BY <1>1, OpenPairMoves DEF OpenGL, Frame
<1>4. PICK made \in SUBSET GL : bank' = [bank EXCEPT !["ledger"] = @ \cup {r} \X made]
  BY <1>1, OpenPairMoves DEF OpenGL
<1>5. request'[r].end = "running" => bank' = [bank EXCEPT !["ledger"] = @ \cup {r} \X GL]
  BY <1>1, OpenPairMoves DEF OpenGL
<1>6. {r} \X made \subseteq Opening
  BY <1>1 DEF Opening
<1>7. BankTypes' /\ Grows
  BY <1>1, <1>4, <1>6 DEF BankTypes, Grows
<1>8. request'[r].end = "running" => Progress(r)'
  <2> SUFFICES ASSUME request'[r].end = "running" PROVE Progress(r)'
    OBVIOUS
  <2>1. {r} \X GL \subseteq bank'.ledger
    BY <1>1, <1>5 DEF BankTypes
  <2>2. request'[r].kind = "signup" /\ request'[r].step = 3
    BY <1>2, <1>3 DEF Moved
  <2> QED BY <2>1, <2>2 DEF Progress, SignupProgress
<1>9. bank'.tenant = bank.tenant /\ bank'.identity = bank.identity /\ bank'.account = bank.account
  BY <1>1, <1>4 DEF BankTypes
<1> QED BY <1>3, <1>7, <1>8, <1>9, SoundKeepsIInv DEF Sound

LEMMA CreateTenantIInv ==
  ASSUME IInv, NEW r \in Running, CreateTenant(r)
  PROVE  IInv'
<1> DEFINE written == [bank EXCEPT !.tenant = @ \cup {r}]
<1>1. TypeOK /\ BankTypes /\ r \in Request /\ r \in DOMAIN request
  BY BankIsTyped DEF IInv, TypeOK, Running
<1>2. request[r].kind = "signup" /\ request[r].step = 3 /\ Progress(r)
  BY <1>1, StepOf DEF CreateTenant, IInv, WorkIsOnRecord
<1>3. Attempt(r, written)
  BY DEF CreateTenant
<1>4. /\ Moved(r) /\ Frame /\ bank' \in {bank, written}
      /\ request'[r].end = "running" => bank' = written
  <2> HIDE DEF written
  <2> QED BY <1>1, <1>3, AttemptMoves DEF Frame
<1>5. BankTypes' /\ Grows
  BY <1>1, <1>4 DEF BankTypes, Grows
<1>6. request'[r].end = "running" => Progress(r)'
  <2> SUFFICES ASSUME request'[r].end = "running" PROVE Progress(r)'
    OBVIOUS
  <2>1. r \in bank'.tenant /\ {r} \X GL \subseteq bank'.ledger
    BY <1>1, <1>2, <1>4 DEF BankTypes, Progress, SignupProgress
  <2>2. request'[r].kind = "signup" /\ request'[r].step = 4
    BY <1>2, <1>4 DEF Moved
  <2> QED BY <2>1, <2>2 DEF Progress, SignupProgress
<1>7. bank'.identity = bank.identity /\ bank'.account = bank.account
      /\ bank'.tenant \subseteq bank.tenant \cup {r}
  BY <1>1, <1>4 DEF BankTypes
<1>8. r # DefaultHousehold
  BY <1>1, OnboardingAssumption
<1> QED BY <1>4, <1>5, <1>6, <1>7, <1>8, SoundKeepsIInv DEF Sound

LEMMA CreateInternalAccountIInv ==
  ASSUME IInv, NEW r \in Running, CreateInternalAccount(r)
  PROVE  IInv'
<1>1. TypeOK /\ BankTypes /\ r \in Request /\ r \in DOMAIN request
  BY BankIsTyped DEF IInv, TypeOK, Running
<1>2. request[r].kind = "signup" /\ request[r].step = 4 /\ Progress(r)
  BY <1>1, StepOf DEF CreateInternalAccount, IInv, WorkIsOnRecord
<1>3. Moved(r) /\ Frame
  BY <1>1, OpenPairMoves DEF CreateInternalAccount, Frame
<1>4. PICK made \in SUBSET GL : bank' = [bank EXCEPT !["account"] = @ \cup {r} \X made]
  BY <1>1, OpenPairMoves DEF CreateInternalAccount
<1>5. request'[r].end = "running" => bank' = [bank EXCEPT !["account"] = @ \cup {r} \X GL]
  BY <1>1, OpenPairMoves DEF CreateInternalAccount
<1>6. {r} \X made \subseteq Opening
  BY <1>1 DEF Opening
<1>7. BankTypes' /\ Grows
  BY <1>1, <1>4, <1>6 DEF BankTypes, Grows
<1>8. request'[r].end = "running" => Progress(r)'
  <2> SUFFICES ASSUME request'[r].end = "running" PROVE Progress(r)'
    OBVIOUS
  <2>1. /\ {r} \X GL \subseteq bank'.account /\ {r} \X GL \subseteq bank'.ledger
        /\ r \in bank'.tenant
    BY <1>1, <1>2, <1>5 DEF BankTypes, Progress, SignupProgress
  <2>2. request'[r].kind = "signup" /\ request'[r].step = 5
    BY <1>2, <1>3 DEF Moved
  <2> QED BY <2>1, <2>2 DEF Progress, SignupProgress
<1>9. /\ bank'.tenant = bank.tenant /\ bank'.identity = bank.identity
      /\ \A a \in bank'.account \ bank.account : ~Wallet(a)
  BY <1>1, <1>4 DEF BankTypes, Wallet, GL
<1> QED BY <1>3, <1>7, <1>8, <1>9, SoundKeepsIInv DEF Sound

LEMMA CreateCustomerIInv ==
  ASSUME IInv, NEW r \in Running, CreateCustomer(r)
  PROVE  IInv'
<1> DEFINE written == [bank EXCEPT !.customer = @ \cup {r}]
<1>1. TypeOK /\ BankTypes /\ r \in Request /\ r \in DOMAIN request
  BY BankIsTyped DEF IInv, TypeOK, Running
<1>2. /\ Progress(r)
      /\ IF request[r].kind = "signup" THEN request[r].step = 5 ELSE request[r].step = 2
  BY <1>1, StepOf DEF CreateCustomer, IInv, WorkIsOnRecord
<1>3. Attempt(r, written)
  BY DEF CreateCustomer
<1>4. /\ Moved(r) /\ Frame /\ bank' \in {bank, written}
      /\ request'[r].end = "running" => bank' = written
  <2> HIDE DEF written
  <2> QED BY <1>1, <1>3, AttemptMoves DEF Frame
<1>5. BankTypes' /\ Grows
  BY <1>1, <1>4 DEF BankTypes, Grows
<1>6. request'[r].end = "running" => Progress(r)'
  <2> SUFFICES ASSUME request'[r].end = "running" PROVE Progress(r)'
    OBVIOUS
  <2>1. r \in bank'.customer
    BY <1>1, <1>4 DEF BankTypes
  <2>2. /\ request'[r].kind = request[r].kind
        /\ IF request[r].kind = "signup" THEN request'[r].step = 6 ELSE request'[r].step = 3
    BY <1>2, <1>4 DEF Moved
  <2>3. CASE request[r].kind = "signup"
    BY <1>2, <1>5, <2>1, <2>2, <2>3 DEF Progress, SignupProgress, Grows
  <2>4. CASE request[r].kind # "signup"
    BY <2>1, <2>2, <2>4 DEF Progress, CustomerProgress
  <2> QED BY <2>3, <2>4
<1>7. bank'.identity = bank.identity /\ bank'.account = bank.account /\ bank'.tenant = bank.tenant
  BY <1>1, <1>4 DEF BankTypes
<1> QED BY <1>4, <1>5, <1>6, <1>7, SoundKeepsIInv DEF Sound

(* The login is the last of the household: what it needs is there. *)
LEMMA CreateIdentityIInv ==
  ASSUME IInv, NEW r \in Running, CreateIdentity(r)
  PROVE  IInv'
<1> DEFINE n == request[r].name
           written == [bank EXCEPT !.identity =
                        [s \in DOMAIN @ \cup {r} |-> IF s = r THEN n ELSE @[s]]]
<1>1. TypeOK /\ BankTypes /\ r \in Request /\ r \in DOMAIN request /\ n \in Name
  BY BankIsTyped DEF IInv, TypeOK, Running, Asked
<1>2. /\ Progress(r)
      /\ IF request[r].kind = "signup" THEN request[r].step = 6 ELSE request[r].step = 3
  BY <1>1, StepOf DEF CreateIdentity, IInv, WorkIsOnRecord
<1>3. CASE HolderOf(n) # {}
  <2>1. End(r, "lost") /\ Frame /\ UNCHANGED bank
    BY <1>1, <1>3 DEF CreateIdentity, Frame, TypeOK
  <2> QED BY <1>1, <2>1, EndMoves, IdleKeepsIInv
<1>4. CASE HolderOf(n) = {}
  <2>1. Attempt(r, written)
    BY <1>4 DEF CreateIdentity
  <2>2. /\ Moved(r) /\ Frame /\ bank' \in {bank, written}
        /\ request'[r].end = "running" => bank' = written
    <3> HIDE DEF written
    <3> QED BY <1>1, <2>1, AttemptMoves DEF Frame
  <2>3. /\ written.identity = [s \in DOMAIN bank.identity \cup {r} |->
                                 IF s = r THEN n ELSE bank.identity[s]]
        /\ written.tenant = bank.tenant /\ written.customer = bank.customer
        /\ written.ledger = bank.ledger /\ written.account = bank.account
    BY <1>1 DEF BankTypes
  <2>4. BankTypes' /\ Grows
    BY <1>1, <2>2, <2>3 DEF BankTypes, Grows
  <2>5. r \in bank.customer /\ Ready(request[r].household)
    <3>1. CASE request[r].kind = "signup"
      <4>1. request[r].household = r
        BY <1>1, <3>1 DEF IInv, HouseholdsAreReady
      <4>2. r # DefaultHousehold
        BY <1>1, OnboardingAssumption
      <4> QED BY <1>2, <3>1, <4>1, <4>2 DEF Progress, SignupProgress, Ready, ActiveTenants
    <3>2. CASE request[r].kind # "signup"
      BY <1>1, <1>2, <3>2 DEF Progress, CustomerProgress, IInv, HouseholdsAreReady
    <3> QED BY <3>1, <3>2
  <2>6. request'[r].end = "running" => Progress(r)'
    <3> SUFFICES ASSUME request'[r].end = "running" PROVE Progress(r)'
      OBVIOUS
    <3>1. bank'.customer = bank.customer /\ r \in DOMAIN bank'.identity
      BY <2>2, <2>3
    <3>2. /\ request'[r].kind = request[r].kind
          /\ IF request[r].kind = "signup" THEN request'[r].step = 7 ELSE request'[r].step = 4
      BY <1>2, <2>2 DEF Moved
    <3>3. request'[r].step \in 1..6
      BY <1>1, <2>2 DEF Moved, Asked
    <3> QED BY <2>5, <3>1, <3>2, <3>3 DEF Progress, CustomerProgress
  <2>7. /\ bank'.tenant = bank.tenant /\ bank'.account = bank.account
        /\ DOMAIN bank'.identity \subseteq DOMAIN bank.identity \cup {r}
    BY <2>2, <2>3
  <2> QED BY <2>2, <2>4, <2>5, <2>6, <2>7, SoundKeepsIInv DEF Sound
<1> QED BY <1>3, <1>4

LEMMA OpenAccountIInv ==
  ASSUME IInv, NEW r \in Running, OpenAccount(r)
  PROVE  IInv'
<1> DEFINE written == [bank EXCEPT !.ledger = @ \cup {<<r, "wallet">>}]
<1>1. TypeOK /\ BankTypes /\ r \in Request /\ r \in DOMAIN request
  BY BankIsTyped DEF IInv, TypeOK, Running
<1>2. Progress(r) /\ request[r].kind = "holder" /\ request[r].step = 4
  BY <1>1, StepOf DEF OpenAccount, IInv, WorkIsOnRecord
<1>3. Attempt(r, written)
  BY DEF OpenAccount
<1>4. /\ Moved(r) /\ Frame /\ bank' \in {bank, written}
      /\ request'[r].end = "running" => bank' = written
  <2> HIDE DEF written
  <2> QED BY <1>1, <1>3, AttemptMoves DEF Frame
<1>5. BankTypes' /\ Grows
  <2>1. <<r, "wallet">> \in Opening
    BY <1>1 DEF Opening
  <2> QED BY <1>1, <1>4, <2>1 DEF BankTypes, Grows
<1>6. request'[r].end = "running" => Progress(r)'
  <2> SUFFICES ASSUME request'[r].end = "running" PROVE Progress(r)'
    OBVIOUS
  <2>1. <<r, "wallet">> \in bank'.ledger
    BY <1>1, <1>4 DEF BankTypes
  <2>2. request'[r].kind = "holder" /\ request'[r].step = 5
    BY <1>2, <1>4 DEF Moved
  <2> QED BY <1>2, <1>5, <2>1, <2>2 DEF Progress, CustomerProgress, Grows
<1>7. bank'.identity = bank.identity /\ bank'.account = bank.account /\ bank'.tenant = bank.tenant
  BY <1>1, <1>4 DEF BankTypes
<1> QED BY <1>4, <1>5, <1>6, <1>7, SoundKeepsIInv DEF Sound

LEMMA CreateAccountIInv ==
  ASSUME IInv, NEW r \in Running, CreateAccount(r)
  PROVE  IInv'
<1> DEFINE written == [bank EXCEPT !.account = @ \cup {<<r, "wallet">>}]
<1>1. TypeOK /\ BankTypes /\ r \in Request /\ r \in DOMAIN request
  BY BankIsTyped DEF IInv, TypeOK, Running
<1>2. Progress(r) /\ request[r].kind = "holder" /\ request[r].step = 5
  BY <1>1, StepOf DEF CreateAccount, IInv, WorkIsOnRecord
<1>3. Attempt(r, written)
  BY DEF CreateAccount
<1>4. /\ Moved(r) /\ Frame /\ bank' \in {bank, written}
      /\ request'[r].end = "running" => bank' = written
  <2> HIDE DEF written
  <2> QED BY <1>1, <1>3, AttemptMoves DEF Frame
<1>5. BankTypes' /\ Grows
  <2>1. <<r, "wallet">> \in Opening
    BY <1>1 DEF Opening
  <2> QED BY <1>1, <1>4, <2>1 DEF BankTypes, Grows
<1>6. request'[r].end # "running"
  <2>1. request'[r].step \in 1..5
    BY <1>1, <1>2, <1>4, StepKinds DEF Moved
  <2> QED BY <1>2, <1>4, <2>1 DEF Moved
<1>7. bank'.identity = bank.identity /\ bank'.tenant = bank.tenant
  BY <1>1, <1>4 DEF BankTypes
<1>8. \A a \in bank'.account \ bank.account : a \in bank.ledger /\ a[1] \in DOMAIN bank.identity
  <2>1. <<r, "wallet">> \in bank.ledger /\ r \in DOMAIN bank.identity
    BY <1>2 DEF Progress, CustomerProgress
  <2>2. bank'.account \subseteq bank.account \cup {<<r, "wallet">>}
    BY <1>1, <1>4 DEF BankTypes
  <2> QED BY <2>1, <2>2
<1> QED BY <1>4, <1>5, <1>6, <1>7, <1>8, SoundKeepsIInv DEF Sound

LEMMA HandleIInv ==
  ASSUME IInv, NEW r \in DOMAIN request, Handle(r)
  PROVE  IInv'
<1>1. r \in Running
  BY DEF Handle, LookupName, OpenGL, CreateTenant, CreateInternalAccount, CreateCustomer,
         CreateIdentity, OpenAccount, CreateAccount, At
<1> QED BY <1>1, LookupNameIInv, OpenGLIInv, CreateTenantIInv, CreateInternalAccountIInv,
           CreateCustomerIInv, CreateIdentityIInv, OpenAccountIInv, CreateAccountIInv DEF Handle

----------------------------------------------------------------------------
(* Arrivals *)

LEMMA ReceiveIInv ==
  ASSUME IInv, NEW r \in Request, NEW p \in Process, NEW n \in Name,
         NEW kind \in {"signup", "operator", "holder"}, NEW h \in Request,
         Receive(r, p, kind, n, h),
         IF kind = "signup" THEN h = r ELSE Ready(h)
  PROVE  IInv'
<1> DEFINE rivals == {s \in Running : request[s].name = n}
           new == [kind |-> kind, name |-> n, household |-> h, at |-> p, step |-> 1,
                   met |-> rivals, end |-> "running"]
<1> USE DEF IInv
<1>1. rivals \subseteq Request /\ rivals \subseteq DOMAIN request /\ r \notin DOMAIN request
  BY DEF TypeOK, Running, Receive
<1>2. new \in Asked /\ new.step \in DOMAIN Steps[new.kind]
  BY <1>1, StepKinds DEF Asked
<1>3. /\ DOMAIN request' = DOMAIN request \cup {r}
      /\ request'[r] = new
      /\ \A s \in DOMAIN request :
           request'[s] \in {request[s], [request[s] EXCEPT !.met = @ \cup {r}]}
  BY DEF Receive
<1>4. request' = [s \in DOMAIN request' |-> request'[s]]
  BY DEF Receive
<1>5. ASSUME NEW s \in DOMAIN request
      PROVE  /\ request'[s] \in Asked
             /\ request'[s].kind = request[s].kind /\ request'[s].step = request[s].step
             /\ request'[s].household = request[s].household
             /\ request'[s].end = request[s].end
  BY <1>3 DEF TypeOK, Asked
<1> HIDE DEF new
<1>6. TypeOK'
  <2>1. request' \in [DOMAIN request' -> Asked]
    BY <1>2, <1>3, <1>4, <1>5
  <2>2. \A s \in DOMAIN request' : request'[s].step \in DOMAIN Steps[request'[s].kind]
    BY <1>2, <1>3, <1>5 DEF TypeOK
  <2>3. DOMAIN request' \subseteq Request
    BY <1>3 DEF TypeOK
  <2> QED BY <2>1, <2>2, <2>3 DEF TypeOK, Receive
<1>7. SchemaIsInStep'
  BY DEF SchemaIsInStep, Receive
<1>8. LoginsHaveRequests' /\ LoginsAreComplete'
  BY <1>3, <1>5 DEF LoginsHaveRequests, LoginsAreComplete, ActiveTenants, Receive
<1>9. HouseholdsAreReady'
  BY <1>3, <1>5 DEF new, HouseholdsAreReady, Ready, ActiveTenants, Receive
<1>10. WorkIsOnRecord'
  <2>1. Progress(r)'
    BY <1>3 DEF new, Progress, SignupProgress, CustomerProgress
  <2>2. ASSUME NEW s \in Running PROVE Progress(s)'
    BY <1>5, <2>2 DEF WorkIsOnRecord, Progress, SignupProgress, CustomerProgress, Running, Receive
  <2>3. Running' = Running \cup {r}
    BY <1>3, <1>5 DEF new, Running
  <2> QED BY <2>1, <2>2, <2>3 DEF WorkIsOnRecord
<1> QED BY <1>6, <1>7, <1>8, <1>9, <1>10

----------------------------------------------------------------------------
(* Processes *)

(* What a process that starts, migrates or exits leaves alone. *)
LEMMA ProcessIInv ==
  ASSUME IInv, UNCHANGED <<bank, request>>, TypeOK', SchemaIsInStep'
  PROVE  IInv'
BY DEF IInv, LoginsHaveRequests, HouseholdsAreReady, WorkIsOnRecord, LoginsAreComplete, Running,
       Progress, SignupProgress, CustomerProgress, Ready, ActiveTenants

LEMMA StartIInv ==
  ASSUME IInv, NEW p \in Process, Start(p) \/ StartFails(p) \/ JobEnds(p)
  PROVE  IInv'
<1> DEFINE States == {"down", "check", "apply", "serving", "working"}
<1>1. \E now \in [at: States, version: 1..LastVersion] :
         /\ proc' = [proc EXCEPT ![p] = now]
         /\ now.at = "down" \/ (now.at = "check" /\ now.version = 1)
  <2>1. CASE Start(p)
    <3> DEFINE now == [at |-> "check", version |-> 1]
    <3>1. now \in [at: States, version: 1..LastVersion] /\ now.at = "check" /\ now.version = 1
      BY OnboardingAssumption
    <3> HIDE DEF States
    <3> QED BY <2>1, <3>1 DEF Start
  <2>2. CASE StartFails(p) \/ JobEnds(p)
    <3>1. proc' = [proc EXCEPT ![p] = Exited(p)]
      BY <2>2 DEF StartFails, JobEnds
    <3>2. Exited(p) \in [at: States, version: 1..LastVersion] /\ Exited(p).at = "down"
      BY DEF IInv, TypeOK, Exited
    <3> QED BY <3>1, <3>2
  <2> QED BY <2>1, <2>2
<1>2. TypeOK'
  <2>1. UNCHANGED <<recorded, bank, request, crashes>> /\ faults' \in 0..MaxFaults
    BY OnboardingAssumption DEF IInv, TypeOK, Start, StartFails, JobEnds, Fault
  <2> QED BY <1>1, <2>1 DEF IInv, TypeOK
<1>3. SchemaIsInStep'
  <2>1. UNCHANGED <<recorded, bank>>
    BY DEF Start, StartFails, JobEnds
  <2>2. 1..(1 - 1) = {}
    OBVIOUS
  <2> QED BY <1>1, <2>1, <2>2 DEF IInv, TypeOK, SchemaIsInStep
<1> QED BY <1>2, <1>3, ProcessIInv DEF Start, StartFails, JobEnds

LEMMA OnwardFacts ==
  ASSUME NEW p, NEW v \in 1..LastVersion, 1..v \subseteq recorded, recorded \subseteq 1..LastVersion
  PROVE  /\ Onward(p, v) \in [at: {"down", "check", "apply", "serving", "working"}, version: 1..LastVersion]
         /\ Onward(p, v).at \in {"check", "apply"} => 1..(Onward(p, v).version - 1) \subseteq recorded
         /\ Onward(p, v).at \in {"serving", "working"} => recorded = 1..LastVersion
<1>1. CASE v = LastVersion
  <2>1. Onward(p, v) = [at |-> IF p \in Job THEN "working" ELSE "serving", version |-> v] /\ recorded = 1..LastVersion
    BY <1>1 DEF Onward
  <2> QED BY <2>1
<1>2. CASE v # LastVersion
  <2>1. Onward(p, v) = [at |-> "check", version |-> v + 1] /\ v + 1 \in 1..LastVersion
    BY <1>2, OnboardingAssumption DEF Onward
  <2>2. (v + 1) - 1 = v
    BY OnboardingAssumption
  <2> QED BY <2>1, <2>2
<1> QED BY <1>1, <1>2

LEMMA CheckVersionIInv ==
  ASSUME IInv, NEW p \in Process, CheckVersion(p)
  PROVE  IInv'
<1> DEFINE v == proc[p].version
<1> USE DEF IInv
<1>1. v \in 1..LastVersion /\ recorded \subseteq 1..LastVersion /\ 1..(v - 1) \subseteq recorded
  BY DEF TypeOK, SchemaIsInStep, CheckVersion
<1>2. CASE v \in recorded
  <2>1. 1..v \subseteq recorded
    BY <1>1, <1>2
  <2>2. proc' = [proc EXCEPT ![p] = Onward(p, v)] /\ UNCHANGED <<recorded, bank, request, crashes, faults>>
    BY <1>2 DEF CheckVersion
  <2>3. TypeOK'
    BY <1>1, <2>1, <2>2, OnwardFacts DEF TypeOK
  <2>4. SchemaIsInStep'
    BY <1>1, <2>1, <2>2, OnwardFacts DEF TypeOK, SchemaIsInStep
  <2> QED BY <2>2, <2>3, <2>4, ProcessIInv
<1>3. CASE v \notin recorded
  <2>1. /\ proc' = [proc EXCEPT ![p] = [@ EXCEPT !.at = "apply"]]
        /\ UNCHANGED <<recorded, bank, request, crashes, faults>>
    BY <1>3 DEF CheckVersion
  <2>2. TypeOK'
    BY <2>1 DEF TypeOK
  <2>3. SchemaIsInStep'
    BY <1>1, <2>1 DEF TypeOK, SchemaIsInStep
  <2> QED BY <2>1, <2>2, <2>3, ProcessIInv
<1> QED BY <1>2, <1>3

(* A version that is committed is the next one, whoever commits it. *)
LEMMA ApplyMigrationIInv ==
  ASSUME IInv, NEW p \in Process, ApplyMigration(p)
  PROVE  IInv'
<1> DEFINE v == proc[p].version
<1> USE DEF IInv
<1>1. v \in 1..LastVersion /\ recorded \subseteq 1..LastVersion /\ 1..(v - 1) \subseteq recorded
  BY DEF TypeOK, SchemaIsInStep, ApplyMigration
<1>2. CASE v \in recorded
  <2>1. proc' = [proc EXCEPT ![p] = Exited(p)] /\ UNCHANGED <<recorded, bank, request, crashes, faults>>
    BY <1>2 DEF ApplyMigration, Migrated
  <2>2. TypeOK' /\ SchemaIsInStep'
    BY <2>1 DEF TypeOK, SchemaIsInStep, Exited
  <2> QED BY <2>1, <2>2, ProcessIInv
<1>3. CASE v \notin recorded
  <2>1. /\ Migrated(v) /\ UNCHANGED <<request, crashes>> /\ faults' \in 0..MaxFaults
        /\ proc' \in {[proc EXCEPT ![p] = Onward(p, v)], [proc EXCEPT ![p] = Exited(p)]}
    BY <1>3, OnboardingAssumption DEF ApplyMigration, Fault, TypeOK
  <2>2. recorded' = 1..v /\ recorded \subseteq recorded'
    <3>1. PICK k \in 0..LastVersion : recorded = 1..k
      BY DEF SchemaIsInStep
    <3>2. k = v - 1
      <4>1. v > k /\ LastVersion \in Nat
        BY <1>1, <1>3, <3>1, OnboardingAssumption
      <4>2. v - 1 <= k
        <5>1. CASE v = 1
          BY <3>1, <4>1, <5>1
        <5>2. CASE v # 1
          <6>1. v - 1 \in 1..(v - 1)
            BY <1>1, <4>1, <5>2
          <6> QED BY <1>1, <3>1, <6>1
        <5> QED BY <5>1, <5>2
      <4> QED BY <1>1, <4>1, <4>2
    <3> QED BY <1>1, <2>1, <3>1, <3>2 DEF Migrated
  <2>3. /\ bank' \in {bank, [bank EXCEPT !.tenant = @ \cup {DefaultHousehold}]}
        /\ DefaultHousehold \in bank'.tenant <=> TenantVersion \in recorded'
    BY <2>1 DEF Migrated, TypeOK, SchemaIsInStep
  <2>4. BankTypes' /\ Grows /\ ActiveTenants' = ActiveTenants
        /\ UNCHANGED <<bank.customer, bank.ledger, bank.account, bank.identity>>
    BY <2>3, BankIsTyped DEF BankTypes, Grows, ActiveTenants
  <2>5. /\ Onward(p, v) \in [at: {"down", "check", "apply", "serving", "working"}, version: 1..LastVersion]
        /\ Onward(p, v).at \in {"check", "apply"} => 1..(Onward(p, v).version - 1) \subseteq recorded'
        /\ Onward(p, v).at \in {"serving", "working"} => recorded' = 1..LastVersion
    BY <1>1, <2>2, OnboardingAssumption DEF Onward
  <2>6. Exited(p) \in [at: {"down", "check", "apply", "serving", "working"}, version: 1..LastVersion]
        /\ Exited(p).at = "down"
    BY DEF TypeOK, Exited
  <2>7. TypeOK'
    <3>1. proc' \in [Process -> [at: {"down", "check", "apply", "serving", "working"}, version: 1..LastVersion]]
      BY <2>1, <2>5, <2>6 DEF TypeOK
    <3>2. recorded' \subseteq 1..LastVersion
      BY <1>1, <2>2
    <3> QED BY <2>1, <2>4, <3>1, <3>2 DEF TypeOK, BankTypes
  <2>8. SchemaIsInStep'
    <3>1. \E k \in 0..LastVersion : recorded' = 1..k
      BY <1>1, <2>2
    <3>2. ASSUME NEW q \in Process
          PROVE  /\ proc'[q].at \in {"check", "apply"} => 1..(proc'[q].version - 1) \subseteq recorded'
                 /\ proc'[q].at \in {"serving", "working"} => recorded' = 1..LastVersion
      <4>1. CASE q = p
        BY <2>1, <2>5, <2>6, <4>1 DEF TypeOK
      <4>2. CASE q # p
        <5>1. proc'[q] = proc[q]
          BY <2>1, <4>2 DEF TypeOK
        <5>2. recorded' \subseteq 1..LastVersion
          BY <1>1, <2>2
        <5> QED BY <2>2, <5>1, <5>2 DEF SchemaIsInStep
      <4> QED BY <4>1, <4>2
    <3> QED BY <2>3, <3>1, <3>2 DEF SchemaIsInStep
  <2>9. LoginsHaveRequests' /\ LoginsAreComplete'
    BY <2>1, <2>4 DEF LoginsHaveRequests, LoginsAreComplete
  <2>10. HouseholdsAreReady'
    BY <2>1, <2>4 DEF HouseholdsAreReady, Ready
  <2>11. WorkIsOnRecord'
    BY <2>1, <2>4, ProgressLasts DEF WorkIsOnRecord, Running
  <2> QED BY <2>7, <2>8, <2>9, <2>10, <2>11
<1> QED BY <1>2, <1>3

LEMMA CrashIInv ==
  ASSUME IInv, NEW p \in Process, Crash(p)
  PROVE  IInv'
<1> USE DEF IInv
<1>1. /\ DOMAIN request' = DOMAIN request
      /\ \A r \in DOMAIN request : request'[r] \in {request[r], [request[r] EXCEPT !.end = "cut"]}
      /\ request' = [r \in DOMAIN request |-> request'[r]]
  BY DEF Crash
<1>2. ASSUME NEW r \in DOMAIN request
      PROVE  /\ request'[r] \in Asked
             /\ request'[r].kind = request[r].kind /\ request'[r].step = request[r].step
             /\ request'[r].household = request[r].household
             /\ request'[r].end = "running" => request[r].end = "running"
  <2>1. request[r] \in Asked
    BY DEF TypeOK
  <2>2. request'[r] \in {request[r], [request[r] EXCEPT !.end = "cut"]}
    BY <1>1
  <2> QED BY <2>1, <2>2 DEF Asked
<1>3. TypeOK'
  <2>1. request' \in [DOMAIN request' -> Asked]
    BY <1>1, <1>2
  <2>2. \A r \in DOMAIN request' : request'[r].step \in DOMAIN Steps[request'[r].kind]
    BY <1>1, <1>2 DEF TypeOK
  <2>3. /\ proc' \in [Process -> [at: {"down", "check", "apply", "serving", "working"}, version: 1..LastVersion]]
        /\ crashes' \in 0..MaxCrashes
    BY OnboardingAssumption DEF TypeOK, Crash, Exited
  <2> QED BY <1>1, <2>1, <2>2, <2>3 DEF TypeOK, Crash
<1>4. SchemaIsInStep'
  BY DEF TypeOK, SchemaIsInStep, Crash, Exited
<1>5. LoginsHaveRequests' /\ LoginsAreComplete'
  BY <1>1, <1>2 DEF LoginsHaveRequests, LoginsAreComplete, ActiveTenants, Crash
<1>6. HouseholdsAreReady'
  BY <1>1, <1>2 DEF HouseholdsAreReady, Ready, ActiveTenants, Crash
<1>7. WorkIsOnRecord'
  <2> SUFFICES ASSUME NEW r \in DOMAIN request, request'[r].end = "running"
               PROVE  Progress(r)'
    BY <1>1 DEF WorkIsOnRecord, Running
  <2>1. Progress(r) /\ UNCHANGED bank
    BY <1>2 DEF WorkIsOnRecord, Running, Crash
  <2> QED BY <1>2, <2>1 DEF Progress, SignupProgress, CustomerProgress
<1> QED BY <1>3, <1>4, <1>5, <1>6, <1>7

----------------------------------------------------------------------------
LEMMA NextIInv == IInv /\ [Next]_vars => IInv'
<1> SUFFICES ASSUME IInv, [Next]_vars PROVE IInv'
  OBVIOUS
<1>1. ASSUME NEW p \in Process,
             \/ Start(p) \/ CheckVersion(p) \/ ApplyMigration(p)
             \/ StartFails(p) \/ JobEnds(p) \/ Crash(p)
      PROVE  IInv'
  BY <1>1, StartIInv, CheckVersionIInv, ApplyMigrationIInv, CrashIInv
<1>2. ASSUME NEW r \in Request, NEW p \in Process, NEW n \in Name, ReceiveSignup(r, p, n)
      PROVE  IInv'
  <2>1. Receive(r, p, "signup", n, r)
    BY <1>2 DEF ReceiveSignup
  <2> QED BY <2>1, ReceiveIInv
<1>3. ASSUME NEW r \in Request, NEW p \in Process, NEW n \in Name,
             NEW kind \in {"operator", "holder"}, NEW actor \in Operators,
             ReceiveCustomer(r, p, kind, n, actor)
      PROVE  IInv'
  <2>1. /\ Receive(r, p, kind, n, request[actor].household)
        /\ actor \in DOMAIN bank.identity
    BY <1>3 DEF ReceiveCustomer, Operators
  <2>2. request[actor].household \in Request /\ Ready(request[actor].household)
    BY <2>1 DEF IInv, TypeOK, LoginsHaveRequests, LoginsAreComplete, Asked, Ready
  <2> QED BY <2>1, <2>2, ReceiveIInv
<1>4. ASSUME NEW r \in DOMAIN request, Handle(r)
      PROVE  IInv'
  BY <1>4, HandleIInv
<1>5. CASE UNCHANGED vars
  <2>1. TypeOK' /\ SchemaIsInStep'
    BY <1>5 DEF vars, IInv, TypeOK, SchemaIsInStep
  <2> QED BY <1>5, <2>1, ProcessIInv DEF vars
<1> QED BY <1>1, <1>2, <1>3, <1>4, <1>5 DEF Next

THEOREM Invariance == Spec => []IInv
BY InitIInv, NextIInv, PTL DEF Spec

(* Every variable of the processes, tables and requests keeps its type.       *)
THEOREM TypesHold == Spec => []TypeOK
BY Invariance, PTL DEF IInv

(* For any number of processes, versions, crashes and faults: every version is *)
(* committed once and in order, and who serves has the whole schema            *)
(* (store.go:42-101).                                                          *)
THEOREM SchemaHolds == Spec => []SchemaIsInStep
BY Invariance, PTL DEF IInv

(* For any number of requests, names, crashes and faults: a login has its      *)
(* customer and household, and a wallet its login (auth_handlers.go:100-112,   *)
(* customers.go:69-85).                                                        *)
THEOREM LoginsHold == Spec => []LoginsAreComplete
BY Invariance, PTL DEF IInv

----------------------------------------------------------------------------
(* What is left half-made.  Before its lookup a request has left nothing;      *)
(* requests for one name that run at the same time know of each other, so      *)
(* that one that found the name free can only lose it to one it has met.       *)
NothingLeftYet ==
  \A r \in Request : LeftSomething(r) =>
    /\ r \in DOMAIN request
    /\ request[r].end = "running" => request[r].step > 1

RivalsHaveMet ==
  \A r \in Running : \A s \in Running :
    r # s /\ request[r].name = request[s].name => s \in request[r].met

Unsigned(r) ==
  r \in DOMAIN bank.identity => request[r].kind = "holder" /\ request[r].step >= 4

TakenByRivals(r) ==
  request[r].step > 1 =>
    faults > 0 \/ HolderOf(request[r].name) \subseteq request[r].met \cup {r}

Leftover(r) ==
  /\ request[r].end = "done" => Complete(r)
  /\ request[r].end = "refused" => ~LeftSomething(r)
  /\ request[r].end = "lost" =>
       faults > 0 \/ \E s \in request[r].met : s \in HolderOf(request[r].name)

LeftInv ==
  /\ NothingLeftYet
  /\ RivalsHaveMet
  /\ \A r \in Running : Unsigned(r) /\ TakenByRivals(r)
  /\ \A r \in DOMAIN request : Leftover(r)

(* What a handler may leave. *)
Leaves(r) ==
  \A s \in Request : s # r /\ LeftSomething(s)' => LeftSomething(s)

Signs(r) ==
  /\ \A s \in DOMAIN bank.identity : bank'.identity[s] = bank.identity[s]
  /\ DOMAIN bank'.identity \subseteq DOMAIN bank.identity \cup {r}
  /\ r \in DOMAIN bank'.identity /\ r \notin DOMAIN bank.identity =>
       /\ bank'.identity[r] = request[r].name
       /\ request'[r].end = "running" => request[r].kind = "holder" /\ request[r].step = 3

Ends(r) ==
  /\ request'[r].end = "done" => Complete(r)'
  /\ request'[r].end = "refused" => request[r].step = 1
  /\ request'[r].end = "lost" =>
       /\ HolderOf(request[r].name) # {}
       /\ request[r].step = (IF request[r].kind = "signup" THEN 6 ELSE 3)

Looks(r) ==
  request[r].step = 1 =>
    /\ UNCHANGED bank
    /\ request'[r].end = "running" => faults' > 0 \/ HolderOf(request[r].name) = {}

Tidy(r) ==
  /\ Moved(r) /\ Grows
  /\ faults' > 0 \/ faults' = faults
  /\ Leaves(r) /\ Signs(r) /\ Ends(r) /\ Looks(r)

LEMMA CompleteLasts ==
  ASSUME Grows, NEW s \in DOMAIN request, request'[s].kind = request[s].kind, Complete(s)
  PROVE  Complete(s)'
BY DEF Grows, Complete

LEMMA TidyLeaves ==
  ASSUME IInv, LeftInv, NEW r \in Running, Tidy(r)
  PROVE  LeftInv'
<1>1. /\ r \in DOMAIN request /\ r \in Request /\ request[r].end = "running"
      /\ request[r].step \in 1..6 /\ faults \in Nat
      /\ DOMAIN request' = DOMAIN request
      /\ request'[r].kind = request[r].kind /\ request'[r].name = request[r].name
      /\ request'[r].met = request[r].met
      /\ request'[r].end = "running" => request'[r].step = request[r].step + 1
  BY DEF IInv, TypeOK, Running, Asked, Tidy, Moved
<1>2. \A s \in DOMAIN request : s # r => request'[s] = request[s]
  BY DEF Tidy, Moved
<1>3. Running' \subseteq Running
  BY <1>1, <1>2 DEF Running
<1>4. request[r].step = 1 => ~LeftSomething(r) /\ ~LeftSomething(r)'
  <2> SUFFICES ASSUME request[r].step = 1 PROVE ~LeftSomething(r) /\ ~LeftSomething(r)'
    OBVIOUS
  <2>1. ~LeftSomething(r)
    BY <1>1 DEF LeftInv, NothingLeftYet
  <2>2. LeftSomething(r)' <=> LeftSomething(r)
    BY DEF Tidy, Looks, LeftSomething
  <2> QED BY <2>1, <2>2
<1>5. NothingLeftYet'
  <2> SUFFICES ASSUME NEW s \in Request, LeftSomething(s)'
               PROVE  s \in DOMAIN request' /\ (request'[s].end = "running" => request'[s].step > 1)
    BY DEF NothingLeftYet
  <2>1. CASE s = r
    BY <1>1, <1>4, <2>1
  <2>2. CASE s # r
    BY <1>1, <1>2, <2>2 DEF Tidy, Leaves, LeftInv, NothingLeftYet
  <2> QED BY <2>1, <2>2
<1>6. RivalsHaveMet'
  <2>1. \A s \in Running : request'[s].name = request[s].name /\ request'[s].met = request[s].met
    BY <1>1, <1>2 DEF Running
  <2> QED BY <1>3, <2>1 DEF LeftInv, RivalsHaveMet
<1>7. ASSUME NEW s \in Running'
      PROVE  Unsigned(s)'
  <2>1. s \in Running /\ Unsigned(s) /\ s \in DOMAIN request /\ request'[s].end = "running"
    BY <1>3 DEF LeftInv, Running
  <2>2. CASE s = r
    BY <1>1, <2>1, <2>2 DEF Unsigned, Tidy, Signs
  <2>3. CASE s # r
    BY <1>2, <2>1, <2>3 DEF Unsigned, Tidy, Signs
  <2> QED BY <2>2, <2>3
<1>8. ASSUME NEW s \in Running', request'[s].step > 1, faults' = faults, ~(faults > 0),
             NEW t \in DOMAIN bank'.identity, bank'.identity[t] = request'[s].name, t # s
      PROVE  t \in request'[s].met
  <2>1. /\ s \in Running /\ s \in DOMAIN request /\ request'[s].end = "running"
        /\ request'[s].name = request[s].name /\ request'[s].met = request[s].met
        /\ TakenByRivals(s)
    BY <1>1, <1>2, <1>3, <1>8 DEF LeftInv, Running
  <2>2. CASE t \in DOMAIN bank.identity
    <3>1. t \in HolderOf(request[s].name)
      BY <1>8, <2>1, <2>2 DEF Tidy, Signs, HolderOf
    <3>2. request[s].step > 1
      <4>1. CASE s = r
        <5>1. request[r].step # 1
          BY <1>1, <1>8, <2>1, <3>1, <4>1 DEF Tidy, Looks
        <5> QED BY <1>1, <4>1, <5>1
      <4>2. CASE s # r
        BY <1>2, <1>8, <2>1, <4>2
      <4> QED BY <4>1, <4>2
    <3> QED BY <1>8, <2>1, <3>1, <3>2 DEF TakenByRivals
  <2>3. CASE t \notin DOMAIN bank.identity
    <3>1. t = r /\ request[r].name = request[s].name
      BY <1>8, <2>1, <2>3 DEF Tidy, Signs
    <3> QED BY <1>8, <2>1, <3>1 DEF LeftInv, RivalsHaveMet
  <2> QED BY <2>2, <2>3
<1>9. ASSUME NEW s \in DOMAIN request'
      PROVE  Leftover(s)'
  <2>1. s \in DOMAIN request /\ Leftover(s) /\ s \in Request
    BY <1>1, <1>9 DEF LeftInv, IInv, TypeOK
  <2>2. CASE s # r
    <3>1. request'[s] = request[s]
      BY <1>2, <2>1, <2>2
    <3>2. request'[s].end = "done" => Complete(s)'
      BY <2>1, <3>1, CompleteLasts DEF Tidy, Leftover
    <3>3. request'[s].end = "refused" => ~LeftSomething(s)'
      BY <2>1, <2>2, <3>1 DEF Tidy, Leaves, Leftover
    <3>4. request'[s].end = "lost" =>
            faults' > 0 \/ \E u \in request'[s].met :
              u \in DOMAIN bank'.identity /\ bank'.identity[u] = request'[s].name
      BY <2>1, <3>1 DEF Tidy, Grows, Signs, Leftover, HolderOf
    <3> QED BY <3>2, <3>3, <3>4 DEF Leftover, HolderOf
  <2>3. CASE s = r
    <3>1. request'[r].end = "done" => Complete(r)'
      BY DEF Tidy, Ends
    <3>2. request'[r].end = "refused" => ~LeftSomething(r)'
      BY <1>4 DEF Tidy, Ends
    <3>3. ASSUME request'[r].end = "lost", faults' = faults, ~(faults > 0)
          PROVE  \E u \in request'[r].met :
                   u \in DOMAIN bank'.identity /\ bank'.identity[u] = request'[r].name
      <4>1. /\ HolderOf(request[r].name) # {}
            /\ request[r].step = (IF request[r].kind = "signup" THEN 6 ELSE 3)
        BY <3>3 DEF Tidy, Ends
      <4>2. r \notin HolderOf(request[r].name)
        BY <4>1 DEF HolderOf, LeftInv, Unsigned
      <4>3. HolderOf(request[r].name) \subseteq request[r].met \cup {r}
        BY <3>3, <4>1 DEF LeftInv, TakenByRivals
      <4> QED BY <1>1, <4>1, <4>2, <4>3 DEF Tidy, Grows, Signs, HolderOf
    <3> QED BY <2>3, <3>1, <3>2, <3>3 DEF Leftover, Tidy, HolderOf
  <2> QED BY <2>2, <2>3
<1>10. \A s \in Running' : TakenByRivals(s)'
  BY <1>8 DEF TakenByRivals, HolderOf, Tidy
<1> QED BY <1>5, <1>6, <1>7, <1>9, <1>10 DEF LeftInv

(* How a call that writes can end. *)
LEMMA AttemptEnds ==
  ASSUME TypeOK, NEW r \in Running, NEW written, Attempt(r, written)
  PROVE  /\ Moved(r) /\ bank' \in {bank, written}
         /\ faults' > 0 \/ faults' = faults
         /\ request'[r].end \in {"running", "done", "failed"}
         /\ request'[r].end = "done" =>
              bank' = written /\ request[r].step = Len(Steps[request[r].kind])
<1>1. CASE Advance(r) /\ bank' = written /\ UNCHANGED faults
  BY <1>1, AdvanceMoves
<1>2. CASE Fault /\ bank' \in {bank, written} /\ End(r, "failed")
  <2>1. Moved(r) /\ request'[r].end = "failed"
    BY <1>2, EndMoves
  <2>2. faults' > 0
    BY <1>2, OnboardingAssumption DEF Fault, TypeOK
  <2> QED BY <1>2, <2>1, <2>2
<1> QED BY <1>1, <1>2 DEF Attempt

(* A call past the lookup that makes something, but no login. *)
LEMMA MakesTidy ==
  ASSUME IInv, NEW r \in Running, Moved(r), faults' > 0 \/ faults' = faults,
         request[r].step # 1,
         bank.tenant \subseteq bank'.tenant, bank'.tenant \subseteq bank.tenant \cup {r},
         bank.customer \subseteq bank'.customer, bank'.customer \subseteq bank.customer \cup {r},
         bank.ledger \subseteq bank'.ledger,
         bank'.ledger \subseteq bank.ledger \cup ({r} \X (GL \cup {"wallet"})),
         bank.account \subseteq bank'.account, bank'.identity = bank.identity,
         request'[r].end \in {"running", "done", "failed"},
         request'[r].end = "done" => Complete(r)'
  PROVE  Tidy(r)
<1>1. Grows
  BY DEF Grows
<1>2. Leaves(r)
  BY DEF Leaves, LeftSomething
<1>3. Signs(r) /\ Looks(r)
  BY DEF Signs, Looks
<1>4. Ends(r)
  BY DEF Ends
<1> QED BY <1>1, <1>2, <1>3, <1>4 DEF Tidy

LEMMA LookupNameTidy ==
  ASSUME IInv, NEW r \in Running, LookupName(r)
  PROVE  Tidy(r)
<1>1. request[r].step = 1 /\ UNCHANGED bank
  BY StepOf DEF LookupName, IInv
<1>2. Grows /\ Leaves(r) /\ Signs(r)
  BY <1>1 DEF Grows, Leaves, LeftSomething, Signs
<1>3. /\ Moved(r) /\ request'[r].end \in {"running", "done", "refused", "failed"}
      /\ request'[r].end = "done" => request[r].step = Len(Steps[request[r].kind])
      /\ faults' > 0 \/ faults' = faults
      /\ request'[r].end = "running" => faults' > 0 \/ HolderOf(request[r].name) = {}
  <2>1. ASSUME Fault PROVE faults' > 0
    BY <2>1, OnboardingAssumption DEF Fault, TypeOK, IInv
  <2> QED BY <2>1, AdvanceMoves, EndMoves DEF LookupName, IInv
<1>4. request[r].step # Len(Steps[request[r].kind])
  <2>1. request[r].kind \in DOMAIN Steps
    BY DEF IInv, TypeOK, Running, Asked
  <2> QED BY <1>1, <2>1, StepKinds
<1> QED BY <1>1, <1>2, <1>3, <1>4 DEF Tidy, Ends, Looks

(* How far the general ledger's accounts are from being the last. *)
LEMMA NotTheLast ==
  ASSUME IInv, NEW r \in Running,
         \/ request[r].kind = "signup" /\ request[r].step \in {2, 3, 4, 5}
         \/ request[r].kind # "signup" /\ request[r].step = 2
         \/ request[r].kind = "holder" /\ request[r].step = 4
  PROVE  request[r].step # 1 /\ request[r].step # Len(Steps[request[r].kind])
<1>1. request[r].kind \in DOMAIN Steps
  BY DEF IInv, TypeOK, Running, Asked
<1>2. CASE request[r].kind = "signup"
  BY <1>2, StepKinds
<1>3. CASE request[r].kind = "operator"
  BY <1>3, StepKinds
<1>4. CASE request[r].kind = "holder"
  BY <1>4, StepKinds
<1> QED BY <1>1, <1>2, <1>3, <1>4, StepKinds

LEMMA OpenPairEnds ==
  ASSUME TypeOK, NEW r \in Running, NEW table, OpenPair(r, table)
  PROVE  /\ Moved(r) /\ (faults' > 0 \/ faults' = faults)
         /\ request'[r].end \in {"running", "done", "failed"}
         /\ request'[r].end = "done" => request[r].step = Len(Steps[request[r].kind])
<1>1. CASE Advance(r) /\ UNCHANGED faults
  BY <1>1, AdvanceMoves
<1>2. CASE Fault /\ End(r, "failed")
  <2>1. Moved(r) /\ request'[r].end = "failed"
    BY <1>2, EndMoves
  <2>2. faults' > 0
    BY <1>2, OnboardingAssumption DEF Fault, TypeOK
  <2> QED BY <2>1, <2>2
<1> QED BY <1>1, <1>2 DEF OpenPair

LEMMA OpenPairTidy ==
  ASSUME IInv, NEW r \in Running, OpenGL(r) \/ CreateInternalAccount(r)
  PROVE  Tidy(r)
<1>1. TypeOK /\ BankTypes
  BY BankIsTyped DEF IInv
<1>2. PICK table \in {"ledger", "account"} : OpenPair(r, table)
  BY DEF OpenGL, CreateInternalAccount
<1>3. request[r].kind = "signup" /\ request[r].step \in {2, 3, 4, 5}
  BY <1>1, StepOf DEF OpenGL, CreateInternalAccount
<1>4. PICK made \in SUBSET GL : bank' = [bank EXCEPT ![table] = @ \cup {r} \X made]
  BY <1>1, <1>2, OpenPairMoves
<1>5. {r} \X made \subseteq {r} \X (GL \cup {"wallet"})
  OBVIOUS
<1>6. /\ bank'.tenant = bank.tenant /\ bank'.customer = bank.customer
      /\ bank'.identity = bank.identity
      /\ bank.ledger \subseteq bank'.ledger /\ bank.account \subseteq bank'.account
      /\ bank'.ledger \subseteq bank.ledger \cup ({r} \X (GL \cup {"wallet"}))
  <2>1. CASE table = "ledger"
    BY <1>1, <1>4, <1>5, <2>1 DEF BankTypes
  <2>2. CASE table = "account"
    BY <1>1, <1>4, <2>2 DEF BankTypes
  <2> QED BY <1>2, <2>1, <2>2
<1> QED BY <1>1, <1>2, <1>3, <1>6, NotTheLast, OpenPairEnds, MakesTidy

LEMMA CreateTenantTidy ==
  ASSUME IInv, NEW r \in Running, CreateTenant(r)
  PROVE  Tidy(r)
<1> DEFINE written == [bank EXCEPT !.tenant = @ \cup {r}]
<1>1. TypeOK /\ BankTypes
  BY BankIsTyped DEF IInv
<1>2. request[r].kind = "signup" /\ request[r].step \in {2, 3, 4, 5}
  BY <1>1, StepOf DEF CreateTenant
<1>3. Attempt(r, written)
  BY DEF CreateTenant
<1>4. /\ Moved(r) /\ (faults' > 0 \/ faults' = faults)
      /\ bank' \in {bank, written} /\ request'[r].end \in {"running", "done", "failed"}
      /\ request'[r].end = "done" => request[r].step = Len(Steps[request[r].kind])
  <2> HIDE DEF written
  <2> QED BY <1>1, <1>3, AttemptEnds
<1>5. /\ bank.tenant \subseteq bank'.tenant /\ bank'.tenant \subseteq bank.tenant \cup {r}
      /\ bank'.customer = bank.customer /\ bank'.ledger = bank.ledger
      /\ bank'.account = bank.account /\ bank'.identity = bank.identity
  BY <1>1, <1>4 DEF BankTypes
<1> HIDE DEF written
<1> QED BY <1>2, <1>4, <1>5, NotTheLast, MakesTidy

LEMMA CreateCustomerTidy ==
  ASSUME IInv, NEW r \in Running, CreateCustomer(r)
  PROVE  Tidy(r)
<1> DEFINE written == [bank EXCEPT !.customer = @ \cup {r}]
<1>1. TypeOK /\ BankTypes
  BY BankIsTyped DEF IInv
<1>2. \/ request[r].kind = "signup" /\ request[r].step \in {2, 3, 4, 5}
      \/ request[r].kind # "signup" /\ request[r].step = 2
  BY <1>1, StepOf DEF CreateCustomer
<1>3. Attempt(r, written)
  BY DEF CreateCustomer
<1>4. /\ Moved(r) /\ (faults' > 0 \/ faults' = faults)
      /\ bank' \in {bank, written} /\ request'[r].end \in {"running", "done", "failed"}
      /\ request'[r].end = "done" => request[r].step = Len(Steps[request[r].kind])
  <2> HIDE DEF written
  <2> QED BY <1>1, <1>3, AttemptEnds
<1>5. /\ bank.customer \subseteq bank'.customer
      /\ bank'.customer \subseteq bank.customer \cup {r}
      /\ bank'.tenant = bank.tenant /\ bank'.ledger = bank.ledger
      /\ bank'.account = bank.account /\ bank'.identity = bank.identity
  BY <1>1, <1>4 DEF BankTypes
<1> HIDE DEF written
<1> QED BY <1>2, <1>4, <1>5, NotTheLast, MakesTidy

LEMMA OpenAccountTidy ==
  ASSUME IInv, NEW r \in Running, OpenAccount(r)
  PROVE  Tidy(r)
<1> DEFINE written == [bank EXCEPT !.ledger = @ \cup {<<r, "wallet">>}]
<1>1. TypeOK /\ BankTypes
  BY BankIsTyped DEF IInv
<1>2. request[r].kind = "holder" /\ request[r].step = 4
  BY <1>1, StepOf DEF OpenAccount
<1>3. Attempt(r, written)
  BY DEF OpenAccount
<1>4. /\ Moved(r) /\ (faults' > 0 \/ faults' = faults)
      /\ bank' \in {bank, written} /\ request'[r].end \in {"running", "done", "failed"}
      /\ request'[r].end = "done" => request[r].step = Len(Steps[request[r].kind])
  <2> HIDE DEF written
  <2> QED BY <1>1, <1>3, AttemptEnds
<1>5. /\ bank.ledger \subseteq bank'.ledger
      /\ bank'.ledger \subseteq bank.ledger \cup ({r} \X (GL \cup {"wallet"}))
      /\ bank'.tenant = bank.tenant /\ bank'.customer = bank.customer
      /\ bank'.account = bank.account /\ bank'.identity = bank.identity
  BY <1>1, <1>4 DEF BankTypes
<1> HIDE DEF written
<1> QED BY <1>2, <1>4, <1>5, NotTheLast, MakesTidy

(* The last step of a holder: the wallet's row. *)
LEMMA CreateAccountTidy ==
  ASSUME IInv, NEW r \in Running, CreateAccount(r)
  PROVE  Tidy(r)
<1> DEFINE written == [bank EXCEPT !.account = @ \cup {<<r, "wallet">>}]
<1>1. TypeOK /\ BankTypes /\ Progress(r)
  BY BankIsTyped DEF IInv, WorkIsOnRecord
<1>2. request[r].kind = "holder" /\ request[r].step = 5
  BY <1>1, StepOf DEF CreateAccount
<1>3. Attempt(r, written)
  BY DEF CreateAccount
<1>4. /\ Moved(r) /\ (faults' > 0 \/ faults' = faults)
      /\ bank' \in {bank, written} /\ request'[r].end \in {"running", "done", "failed"}
      /\ request'[r].end = "done" => bank' = written
  <2> HIDE DEF written
  <2> QED BY <1>1, <1>3, AttemptEnds
<1>5. /\ bank.account \subseteq bank'.account
      /\ bank'.tenant = bank.tenant /\ bank'.customer = bank.customer
      /\ bank'.ledger = bank.ledger /\ bank'.identity = bank.identity
      /\ bank' = written => <<r, "wallet">> \in bank'.account
  BY <1>1, <1>4 DEF BankTypes
<1> HIDE DEF written
<1>6. request'[r].end = "done" => Complete(r)'
  BY <1>1, <1>2, <1>4, <1>5 DEF Progress, CustomerProgress, Complete
<1> QED BY <1>2, <1>4, <1>5, <1>6, MakesTidy

(* The last step of a signup and of an operator; the login of a holder.       *)
LEMMA CreateIdentityTidy ==
  ASSUME IInv, LeftInv, NEW r \in Running, CreateIdentity(r)
  PROVE  Tidy(r)
<1> DEFINE n == request[r].name
           written == [bank EXCEPT !.identity =
                        [s \in DOMAIN @ \cup {r} |-> IF s = r THEN n ELSE @[s]]]
<1>1. TypeOK /\ BankTypes /\ request[r].kind \in DOMAIN Steps
  BY BankIsTyped DEF IInv, TypeOK, Running, Asked
<1>2. request[r].step = (IF request[r].kind = "signup" THEN 6 ELSE 3)
  BY <1>1, StepOf DEF CreateIdentity
<1>3. CASE HolderOf(n) # {}
  <2>1. End(r, "lost") /\ UNCHANGED <<bank, faults>>
    BY <1>3 DEF CreateIdentity
  <2>2. Moved(r) /\ request'[r].end = "lost"
    BY <1>1, <2>1, EndMoves
  <2>3. Grows /\ Leaves(r) /\ Signs(r) /\ Looks(r)
    BY <2>1, <2>2 DEF Grows, Leaves, LeftSomething, Signs, Looks
  <2>4. Ends(r)
    BY <1>2, <1>3, <2>2 DEF Ends
  <2> QED BY <2>1, <2>2, <2>3, <2>4 DEF Tidy
<1>4. CASE HolderOf(n) = {}
  <2>1. Attempt(r, written)
    BY <1>4 DEF CreateIdentity
  <2>2. /\ Moved(r) /\ (faults' > 0 \/ faults' = faults)
        /\ bank' \in {bank, written} /\ request'[r].end \in {"running", "done", "failed"}
        /\ request'[r].end = "done" =>
             bank' = written /\ request[r].step = Len(Steps[request[r].kind])
        /\ request'[r].end = "running" => request'[r].step \in DOMAIN Steps[request'[r].kind]
        /\ request'[r].end = "running" => request'[r].step = request[r].step + 1
        /\ request'[r].kind = request[r].kind
    <3> HIDE DEF written
    <3>1. Moved(r)
      BY <1>1, <2>1, AttemptEnds
    <3> QED BY <1>1, <2>1, <3>1, AttemptEnds DEF Moved
  <2>3. /\ written.identity = [s \in DOMAIN bank.identity \cup {r} |->
                                 IF s = r THEN n ELSE bank.identity[s]]
        /\ written.tenant = bank.tenant /\ written.customer = bank.customer
        /\ written.ledger = bank.ledger /\ written.account = bank.account
    BY <1>1 DEF BankTypes
  <2>4. Grows /\ Leaves(r)
    BY <2>2, <2>3 DEF Grows, Leaves, LeftSomething
  <2>5. /\ request'[r].end = "running" => request[r].kind = "holder" /\ request[r].step = 3
        /\ request'[r].end = "done" => request[r].kind # "holder"
    <3>1. CASE request[r].kind = "signup"
      <4>1. request[r].step = 6 /\ 6 + 1 \notin DOMAIN Steps["signup"]
        BY <1>2, <3>1, StepKinds
      <4> QED BY <2>2, <3>1, <4>1
    <3>2. CASE request[r].kind = "operator"
      <4>1. request[r].step = 3 /\ 3 + 1 \notin DOMAIN Steps["operator"]
        BY <1>2, <3>2, StepKinds
      <4> QED BY <2>2, <3>2, <4>1
    <3>3. CASE request[r].kind = "holder"
      <4>1. request[r].step = 3 /\ Len(Steps["holder"]) = 5
        BY <1>2, <3>3, StepKinds
      <4> QED BY <2>2, <3>3, <4>1
    <3> QED BY <1>1, <3>1, <3>2, <3>3, StepKinds
  <2>6. Looks(r)
    BY <1>2 DEF Looks
  <2>8. /\ \A s \in DOMAIN bank.identity : bank'.identity[s] = bank.identity[s]
        /\ DOMAIN bank'.identity \subseteq DOMAIN bank.identity \cup {r}
        /\ r \in DOMAIN bank'.identity /\ r \notin DOMAIN bank.identity =>
             bank'.identity[r] = n
    <3>1. r \notin DOMAIN bank.identity
      BY <1>2 DEF LeftInv, Unsigned
    <3> QED BY <2>2, <2>3, <3>1
  <2>9. Signs(r)
    BY <2>5, <2>8 DEF Signs
  <2>7. Ends(r)
    BY <2>2, <2>3, <2>5 DEF Ends, Complete
  <2> QED BY <2>2, <2>4, <2>6, <2>7, <2>9 DEF Tidy
<1> QED BY <1>3, <1>4

LEMMA HandleTidy ==
  ASSUME IInv, LeftInv, NEW r \in DOMAIN request, Handle(r)
  PROVE  r \in Running /\ Tidy(r)
<1>1. r \in Running
  BY DEF Handle, LookupName, OpenGL, CreateTenant, CreateInternalAccount, CreateCustomer,
         CreateIdentity, OpenAccount, CreateAccount, At
<1> QED BY <1>1, LookupNameTidy, OpenPairTidy, CreateTenantTidy, CreateCustomerTidy,
           CreateIdentityTidy, OpenAccountTidy, CreateAccountTidy DEF Handle

(* An arrival: whoever runs for the same name meets the newcomer. *)
LEMMA ReceiveLeaves ==
  ASSUME IInv, LeftInv, NEW r \in Request, NEW p \in Process, NEW n \in Name, NEW kind, NEW h,
         Receive(r, p, kind, n, h)
  PROVE  LeftInv'
<1> DEFINE rivals == {s \in Running : request[s].name = n}
<1>1. /\ r \notin DOMAIN request /\ UNCHANGED <<bank, faults>>
      /\ DOMAIN request' = DOMAIN request \cup {r}
      /\ request'[r] = [kind |-> kind, name |-> n, household |-> h, at |-> p, step |-> 1,
                        met |-> rivals, end |-> "running"]
      /\ \A s \in DOMAIN request : request'[s] =
           IF s \in rivals THEN [request[s] EXCEPT !.met = @ \cup {r}] ELSE request[s]
  BY DEF Receive
<1>2. /\ request'[r].name = n /\ request'[r].step = 1 /\ request'[r].met = rivals
      /\ request'[r].end = "running"
  BY <1>1
<1>3. ASSUME NEW s \in DOMAIN request
      PROVE  /\ request'[s].kind = request[s].kind /\ request'[s].name = request[s].name
             /\ request'[s].step = request[s].step /\ request'[s].end = request[s].end
             /\ request'[s].met = IF s \in rivals THEN request[s].met \cup {r}
                                                  ELSE request[s].met
  <2>1. request[s] \in Asked
    BY DEF IInv, TypeOK
  <2> QED BY <1>1, <2>1 DEF Asked
<1>4. /\ Running \subseteq DOMAIN request /\ r \in Running'
      /\ \A s \in Running' : s = r \/ s \in Running
  BY <1>1, <1>2, <1>3 DEF Running
<1>5. NothingLeftYet'
  BY <1>1, <1>3 DEF LeftInv, NothingLeftYet, LeftSomething
<1>6. RivalsHaveMet'
  <2>1. ASSUME NEW s \in Running', NEW t \in Running', s # t, request'[s].name = request'[t].name
        PROVE  t \in request'[s].met
    <3>1. CASE s # r /\ t # r
      BY <1>3, <1>4, <2>1, <3>1 DEF LeftInv, RivalsHaveMet
    <3>2. CASE s = r
      BY <1>2, <1>3, <1>4, <2>1, <3>2
    <3>3. CASE t = r
      BY <1>2, <1>3, <1>4, <2>1, <3>3
    <3> QED BY <3>1, <3>2, <3>3
  <2> QED BY <2>1 DEF RivalsHaveMet
<1>7. ASSUME NEW s \in Running' PROVE Unsigned(s)' /\ TakenByRivals(s)'
  <2>1. CASE s = r
    BY <1>1, <1>2, <2>1 DEF Unsigned, TakenByRivals, IInv, LoginsHaveRequests
  <2>2. CASE s # r
    BY <1>1, <1>3, <1>4, <2>2 DEF LeftInv, Unsigned, TakenByRivals, HolderOf
  <2> QED BY <2>1, <2>2
<1>8. ASSUME NEW s \in DOMAIN request' PROVE Leftover(s)'
  <2>1. CASE s = r
    BY <1>2, <2>1 DEF Leftover
  <2>2. CASE s # r
    <3>1. s \in DOMAIN request /\ Leftover(s)
      BY <1>1, <2>2 DEF LeftInv
    <3>2. request[s].met \subseteq request'[s].met
      BY <1>3, <3>1
    <3> QED BY <1>1, <1>3, <3>1, <3>2 DEF Leftover, LeftSomething, Complete, HolderOf
  <2> QED BY <2>1, <2>2
<1> QED BY <1>5, <1>6, <1>7, <1>8 DEF LeftInv

(* The steps of the processes: of the tables they touch the seeded household   *)
(* only, and of the requests whether they run on.                              *)
LEMMA ProcessLeaves ==
  ASSUME IInv, LeftInv, DOMAIN request' = DOMAIN request,
         \A r \in DOMAIN request :
           \/ request'[r] = request[r]
           \/ request'[r] = [request[r] EXCEPT !.end = "cut"],
         UNCHANGED <<bank.customer, bank.ledger, bank.account, bank.identity>>,
         bank'.tenant \subseteq bank.tenant \cup {DefaultHousehold},
         faults' > 0 \/ faults' = faults
  PROVE  LeftInv'
<1>1. \A r \in Request : LeftSomething(r)' => LeftSomething(r)
  BY OnboardingAssumption DEF LeftSomething
<1>2. ASSUME NEW r \in DOMAIN request
      PROVE  /\ request'[r].kind = request[r].kind /\ request'[r].name = request[r].name
             /\ request'[r].step = request[r].step /\ request'[r].met = request[r].met
             /\ request'[r].end = request[r].end \/ request'[r].end = "cut"
             /\ r \in Request
  BY DEF IInv, TypeOK, Asked
<1>3. Running' \subseteq Running /\ Running \subseteq DOMAIN request
  BY <1>2 DEF Running
<1>4. NothingLeftYet'
  BY <1>1, <1>2 DEF LeftInv, NothingLeftYet
<1>5. RivalsHaveMet'
  BY <1>2, <1>3 DEF LeftInv, RivalsHaveMet
<1>6. \A r \in Running' : Unsigned(r)' /\ TakenByRivals(r)'
  BY <1>2, <1>3 DEF LeftInv, Unsigned, TakenByRivals, HolderOf
<1>7. ASSUME NEW r \in DOMAIN request PROVE Leftover(r)'
  <2>1. Leftover(r)
    BY DEF LeftInv
  <2>2. request'[r].end = "done" => Complete(r)'
    BY <1>2, <2>1 DEF Leftover, Complete
  <2>3. request'[r].end = "refused" => ~LeftSomething(r)'
    BY <1>1, <1>2, <2>1 DEF Leftover
  <2>4. request'[r].end = "lost" =>
          faults' > 0 \/ \E s \in request'[r].met :
            s \in DOMAIN bank'.identity /\ bank'.identity[s] = request'[r].name
    BY <1>2, <2>1 DEF Leftover, HolderOf
  <2> QED BY <2>2, <2>3, <2>4 DEF Leftover, HolderOf
<1> QED BY <1>4, <1>5, <1>6, <1>7 DEF LeftInv

LEMMA ApplyMigrationTables ==
  ASSUME IInv, NEW p \in Process, ApplyMigration(p)
  PROVE  /\ UNCHANGED <<bank.customer, bank.ledger, bank.account, bank.identity, request>>
         /\ bank'.tenant \subseteq bank.tenant \cup {DefaultHousehold}
         /\ faults' > 0 \/ faults' = faults
<1>1. bank' \in {bank, [bank EXCEPT !.tenant = @ \cup {DefaultHousehold}]}
  BY DEF ApplyMigration, Migrated
<1>2. /\ UNCHANGED <<bank.customer, bank.ledger, bank.account, bank.identity>>
      /\ bank'.tenant \subseteq bank.tenant \cup {DefaultHousehold}
  BY <1>1, BankIsTyped DEF IInv, BankTypes
<1>3. faults' > 0 \/ faults' = faults
  BY OnboardingAssumption DEF ApplyMigration, Fault, IInv, TypeOK
<1> QED BY <1>2, <1>3 DEF ApplyMigration

LEMMA NextLeaves ==
  ASSUME IInv, LeftInv, [Next]_vars
  PROVE  LeftInv'
<1>1. ASSUME NEW p \in Process, Start(p) \/ CheckVersion(p) \/ StartFails(p) \/ JobEnds(p)
      PROVE  LeftInv'
  <2>1. UNCHANGED <<bank, request>> /\ (faults' > 0 \/ faults' = faults)
    BY <1>1, OnboardingAssumption DEF Start, CheckVersion, StartFails, JobEnds, Fault, IInv, TypeOK
  <2> QED BY <2>1, ProcessLeaves
<1>2. ASSUME NEW p \in Process, ApplyMigration(p) PROVE LeftInv'
  BY <1>2, ApplyMigrationTables, ProcessLeaves
<1>3. ASSUME NEW p \in Process, Crash(p) PROVE LeftInv'
  <2>1. /\ UNCHANGED <<bank, faults>> /\ DOMAIN request' = DOMAIN request
        /\ \A r \in DOMAIN request :
             \/ request'[r] = request[r]
             \/ request'[r] = [request[r] EXCEPT !.end = "cut"]
    BY <1>3 DEF Crash
  <2> QED BY <2>1, ProcessLeaves
<1>4. ASSUME NEW r \in Request, NEW p \in Process, NEW n \in Name,
             \/ ReceiveSignup(r, p, n)
             \/ \E kind \in {"operator", "holder"}, actor \in Operators :
                  ReceiveCustomer(r, p, kind, n, actor)
      PROVE  LeftInv'
  <2>1. \E kind, h : Receive(r, p, kind, n, h)
    BY <1>4 DEF ReceiveSignup, ReceiveCustomer
  <2> QED BY <2>1, ReceiveLeaves
<1>5. ASSUME NEW r \in DOMAIN request, Handle(r) PROVE LeftInv'
  BY <1>5, HandleTidy, TidyLeaves
<1>6. CASE UNCHANGED vars
  BY <1>6, ProcessLeaves DEF vars
<1> QED BY <1>1, <1>2, <1>3, <1>4, <1>5, <1>6 DEF Next

(* For any number of requests, names, crashes and faults: a request that says  *)
(* it is done left all it is for, one that refused left nothing, and one loses *)
(* its name only to another that ran at the same time or after a call failed   *)
(* (auth_handlers.go:66-112, customers.go:38-85).                              *)
THEOREM LeftoversHold == Spec => []LeftoversAreExplained
<1>1. Init => LeftInv
  BY DEF Init, LeftInv, NothingLeftYet, RivalsHaveMet, Running, LeftSomething
<1>2. IInv /\ LeftInv /\ [Next]_vars => LeftInv'
  BY NextLeaves
<1>3. LeftInv => LeftoversAreExplained
  BY DEF LeftInv, Leftover, LeftoversAreExplained
<1> QED BY <1>1, <1>2, <1>3, Invariance, PTL DEF Spec
===============================================================================
