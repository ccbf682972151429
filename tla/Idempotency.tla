----------------------------- MODULE Idempotency -----------------------------
(***************************************************************************)
(* The idempotency middleware (internal/api/idempotency.go) around a        *)
(* handler that has an effect, for one client identity.  Looking a key up,  *)
(* running the handler and saving its response are separate calls, all of   *)
(* them under the request's context; the client may resend a request at any *)
(* time, also while an earlier copy of it is still running.                 *)
(***************************************************************************)
EXTENDS Integers, Sequences, FiniteSets

CONSTANTS
  Key,          \* values of the Idempotency-Key header
  Body,         \* what a request asks for: method, path and body, by their hash
  Call,         \* slots for requests that run at the same time
  MaxOverlaps,  \* resends of a key whose earlier request is still running
  MaxFaults     \* disconnects, failing calls after an effect, and crashes

ASSUME IdempotencyAssumption == MaxOverlaps \in Nat /\ MaxFaults \in Nat

VARIABLES
  record,       \* idempotency_keys, by key
  call,         \* the running requests
  effect,       \* what handlers did, in order; a response names its effect
  answer,       \* the answers the client received
  overlaps, faults

vars == <<record, call, effect, answer, overlaps, faults>>

NoEffect == 0

(* A stored response: only those below 500 are kept. *)
Record == [body: Body, code: {"ok", "refused"}, response: Nat]
Request == [step: {"lookup", "handle", "save"}, key: Key, body: Body,
            code: {"none", "ok", "refused"}, response: Nat, gone: BOOLEAN]
Answer == [key: Key, body: Body, code: {"ok", "refused", "error", "reuse"}, response: Nat]

TypeOK ==
  /\ DOMAIN record \subseteq Key
  /\ \A k \in DOMAIN record : record[k] \in Record
  /\ DOMAIN call \subseteq Call
  /\ \A r \in DOMAIN call : call[r] \in Request
  /\ effect \in Seq([key: Key, body: Body])
  /\ answer \subseteq Answer
  /\ overlaps \in 0..MaxOverlaps
  /\ faults \in 0..MaxFaults

Init ==
  /\ record = [k \in {} |-> NoEffect]
  /\ call = [r \in {} |-> NoEffect]
  /\ effect = <<>>
  /\ answer = {}
  /\ overlaps = 0
  /\ faults = 0

At(r, step) == r \in DOMAIN call /\ call[r].step = step
End(r) == call' = [q \in DOMAIN call \ {r} |-> call[q]]

(* The client hears of the outcome unless it has hung up. *)
Reply(r, code, response) ==
  answer' = IF call[r].gone THEN answer
            ELSE answer \cup {[key |-> call[r].key, body |-> call[r].body,
                               code |-> code, response |-> response]}

Running(k) == {q \in DOMAIN call : call[q].key = k}

(* A request of the client: a new one, a retry, or another one under the key.  *)
Send(r, k, b) ==
  /\ r \in Call \ DOMAIN call
  /\ \/ Running(k) = {} /\ UNCHANGED overlaps
     \/ Running(k) # {} /\ overlaps < MaxOverlaps /\ overlaps' = overlaps + 1
  /\ call' = [q \in DOMAIN call \cup {r} |->
               IF q = r
               THEN [step |-> "lookup", key |-> k, body |-> b, code |-> "none",
                     response |-> NoEffect, gone |-> FALSE]
               ELSE call[q]]
  /\ UNCHANGED <<record, effect, answer, faults>>

(* Mutant: a replay does not compare the request with the stored one. *)
ReplayAnything(r) ==
  LET k == call[r].key IN
  /\ At(r, "lookup")
  /\ k \in DOMAIN record
  /\ Reply(r, record[k].code, record[k].response)
  /\ End(r)
  /\ UNCHANGED <<record, effect, overlaps, faults>>

(* A key that is stored answers its own request again and refuses another. *)
Replay(r) ==
  LET k == call[r].key IN
  /\ At(r, "lookup")
  /\ k \in DOMAIN record
  /\ \/ /\ record[k].body = call[r].body
        /\ Reply(r, record[k].code, record[k].response)
     \/ /\ record[k].body # call[r].body
        /\ Reply(r, "reuse", NoEffect)
  /\ End(r)
  /\ UNCHANGED <<record, effect, overlaps, faults>>

FirstTime(r) ==
  /\ At(r, "lookup")
  /\ ~call[r].gone
  /\ call[r].key \notin DOMAIN record
  /\ call' = [call EXCEPT ![r].step = "handle"]
  /\ UNCHANGED <<record, effect, answer, overlaps, faults>>

(* A store call under a cancelled context fails: 500, whatever was looked up.  *)
LookupFails(r) ==
  /\ At(r, "lookup")
  /\ call[r].gone
  /\ End(r)
  /\ UNCHANGED <<record, effect, answer, overlaps, faults>>

Captured(r, code, response) ==
  call' = [call EXCEPT ![r].step = "save", ![r].code = code, ![r].response = response]

Does(r) == effect' = Append(effect, [key |-> call[r].key, body |-> call[r].body])

(* The handler does what was asked, or refuses it with a 4xx. *)
Succeed(r) ==
  /\ At(r, "handle")
  /\ ~call[r].gone
  /\ Does(r)
  /\ Captured(r, "ok", Len(effect'))
  /\ Reply(r, "ok", Len(effect'))
  /\ UNCHANGED <<record, overlaps, faults>>

Refuse(r) ==
  /\ At(r, "handle")
  /\ Captured(r, "refused", NoEffect)
  /\ Reply(r, "refused", NoEffect)
  /\ UNCHANGED <<record, effect, overlaps, faults>>

(* Mutant: a response of 500 is kept like any other. *)
FailStored(r) ==
  /\ At(r, "handle")
  /\ Captured(r, "error", NoEffect)
  /\ Reply(r, "error", NoEffect)
  /\ UNCHANGED <<record, effect, overlaps, faults>>

(* A 5xx before anything was done; not kept, the client may try again. *)
Fail(r) ==
  /\ At(r, "handle")
  /\ Reply(r, "error", NoEffect)
  /\ End(r)
  /\ UNCHANGED <<record, effect, overlaps, faults>>

(* A 5xx after the first of the handler's calls took effect, such as a hold    *)
(* that was placed before its row could not be inserted.                       *)
FailHalfway(r) ==
  /\ At(r, "handle")
  /\ \/ call[r].gone /\ UNCHANGED faults
     \/ ~call[r].gone /\ faults < MaxFaults /\ faults' = faults + 1
  /\ Does(r)
  /\ Reply(r, "error", NoEffect)
  /\ End(r)
  /\ UNCHANGED <<record, overlaps>>

Store(k, r) ==
  record' = [j \in DOMAIN record \cup {k} |->
              IF j = k
              THEN [body |-> call[r].body, code |-> call[r].code, response |-> call[r].response]
              ELSE record[j]]

(* Mutant: the last writer wins. *)
SaveOverwriting(r) ==
  LET k == call[r].key IN
  /\ At(r, "save")
  /\ IF call[r].gone THEN UNCHANGED record ELSE Store(k, r)
  /\ End(r)
  /\ UNCHANGED <<effect, answer, overlaps, faults>>

(* Mutant: successes are not kept, only refusals. *)
SaveRefusals(r) ==
  LET k == call[r].key IN
  /\ At(r, "save")
  /\ IF call[r].gone \/ k \in DOMAIN record \/ call[r].code = "ok"
     THEN UNCHANGED record ELSE Store(k, r)
  /\ End(r)
  /\ UNCHANGED <<effect, answer, overlaps, faults>>

(* SaveIdempotency: the first writer wins; with the client gone it fails, and  *)
(* its error is dropped.                                                       *)
Save(r) ==
  LET k == call[r].key IN
  /\ At(r, "save")
  /\ IF call[r].gone \/ k \in DOMAIN record THEN UNCHANGED record ELSE Store(k, r)
  /\ End(r)
  /\ UNCHANGED <<effect, answer, overlaps, faults>>

(* The client hangs up, or the 30 s of the request are over. *)
Disconnect(r) ==
  /\ r \in DOMAIN call
  /\ ~call[r].gone
  /\ faults < MaxFaults
  /\ faults' = faults + 1
  /\ call' = [call EXCEPT ![r].gone = TRUE]
  /\ UNCHANGED <<record, effect, answer, overlaps>>

Crash ==
  /\ DOMAIN call # {}
  /\ faults < MaxFaults
  /\ faults' = faults + 1
  /\ call' = [r \in {} |-> NoEffect]
  /\ UNCHANGED <<record, effect, answer, overlaps>>

Next ==
  \/ \E r \in Call, k \in Key, b \in Body : Send(r, k, b)
  \/ \E r \in Call :
       \/ Replay(r) \/ FirstTime(r) \/ LookupFails(r)
       \/ Succeed(r) \/ Refuse(r) \/ Fail(r) \/ FailHalfway(r)
       \/ Save(r)
       \/ Disconnect(r)
  \/ Crash

Spec == Init /\ [][Next]_vars

----------------------------------------------------------------------------
Executions(k) == {i \in 1..Len(effect) : effect[i].key = k}

(* A success the client is told of, now or in a replay, is the effect of the   *)
(* very request it sent, under the key it sent, although requests with one key *)
(* may run side by side and only one of them is stored (idempotency.go:45-77). *)
AnswersAreOwn ==
  \A a \in answer :
    a.code = "ok" => a.response \in 1..Len(effect)
                     /\ effect[a.response] = [key |-> a.key, body |-> a.body]

(* The stored response never changes: the first writer wins, so replays agree  *)
(* with each other (store/idempotency.go:34-43).                               *)
FirstResponseStands ==
  [][\A k \in DOMAIN record : k \in DOMAIN record' /\ record'[k] = record[k]]_vars

(* A client that resends only once its request is over, to a server where      *)
(* nothing is cut off, is told one outcome for a request, however often it     *)
(* sends it (idempotency.go:14-16).                                            *)
AnswersAgree ==
  (faults = 0 /\ overlaps = 0) =>
    \A a, b \in answer :
      (a.key = b.key /\ a.body = b.body
         /\ a.code \in {"ok", "refused"} /\ b.code \in {"ok", "refused"}) => a = b

(* Every execution of a key after its first goes back to a request cut off     *)
(* after its effect or to one resent while it was running: nothing else        *)
(* repeats an effect (idempotency.go:44-77).                                   *)
RepeatsAreExplained == \A k \in Key : Cardinality(Executions(k)) <= 1 + faults + overlaps

(* A key executes once: "Idempotency keys make every write safe to retry"      *)
(* (migrations/0001_init.sql:63).                                              *)
KeysExecuteOnce == \A k \in Key : \A i, j \in Executions(k) : i = j
=============================================================================
