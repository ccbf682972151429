-------------------------- MODULE IdempotencyProofs --------------------------
(***************************************************************************)
(* What is answered under an idempotency key, for any number of keys,       *)
(* requests, overlaps and faults.                                           *)
(***************************************************************************)
EXTENDS Idempotency, FiniteSetTheorems, TLAPS

(* Response i names an effect of a request with key k and body b. *)
Owns(done, k, b, i) == i \in 1..Len(done) /\ done[i] = [key |-> k, body |-> b]

(* Stored responses and captured ones own the effect they name, like the       *)
(* answers; without them a replay or a save could not be shown to.             *)
RecordsOwn ==
  \A k \in DOMAIN record :
    record[k].code = "ok" => Owns(effect, k, record[k].body, record[k].response)

CallsOwn ==
  \A r \in DOMAIN call :
    call[r].step = "save" =>
      /\ call[r].code \in {"ok", "refused"}
      /\ call[r].code = "ok" => Owns(effect, call[r].key, call[r].body, call[r].response)

IInv == TypeOK /\ RecordsOwn /\ CallsOwn /\ AnswersAreOwn

USE DEF NoEffect

LEMMA InitIInv == Init => IInv
  BY IdempotencyAssumption
  DEF Init, IInv, TypeOK, RecordsOwn, CallsOwn, AnswersAreOwn

(* Effects are only added. *)
EffectsGrow ==
  \/ effect' = effect
  \/ \E e \in [key: Key, body: Body] : effect' = Append(effect, e)

LEMMA OwnedForEver ==
  ASSUME TypeOK, EffectsGrow, NEW k, NEW b, NEW i, Owns(effect, k, b, i)
  PROVE  Owns(effect', k, b, i)
  BY DEF Owns, TypeOK, EffectsGrow

(* An invariance argument for every step: what it adds to the stored           *)
(* responses, to the captured ones and to the answers owns its effect.         *)
LEMMA Preserved ==
  ASSUME IInv, TypeOK', EffectsGrow,
         \A k \in DOMAIN record' :
           \/ k \in DOMAIN record /\ record'[k] = record[k]
           \/ record'[k].code = "ok" =>
                Owns(effect', k, record'[k].body, record'[k].response),
         \A r \in DOMAIN call' :
           \/ call'[r].step # "save"
           \/ /\ r \in DOMAIN call
              /\ call[r].step = "save"
              /\ call'[r].code = call[r].code /\ call'[r].response = call[r].response
              /\ call'[r].key = call[r].key /\ call'[r].body = call[r].body
           \/ /\ call'[r].code \in {"ok", "refused"}
              /\ call'[r].code = "ok" =>
                   Owns(effect', call'[r].key, call'[r].body, call'[r].response),
         \A a \in answer' :
           a \in answer \/ (a.code = "ok" => Owns(effect', a.key, a.body, a.response))
  PROVE  IInv'
<1>0. TypeOK BY DEF IInv
<1>1. ASSUME NEW k \in DOMAIN record', record'[k].code = "ok"
      PROVE  Owns(effect', k, record'[k].body, record'[k].response)
  BY <1>0, <1>1, OwnedForEver DEF IInv, RecordsOwn
<1>2. ASSUME NEW r \in DOMAIN call', call'[r].step = "save"
      PROVE  /\ call'[r].code \in {"ok", "refused"}
             /\ call'[r].code = "ok" =>
                  Owns(effect', call'[r].key, call'[r].body, call'[r].response)
  BY <1>0, <1>2, OwnedForEver DEF IInv, CallsOwn
<1>3. ASSUME NEW a \in answer', a.code = "ok"
      PROVE  Owns(effect', a.key, a.body, a.response)
  BY <1>0, <1>3, OwnedForEver DEF IInv, AnswersAreOwn, Owns
<1>4. RecordsOwn' /\ CallsOwn'
  BY <1>1, <1>2 DEF RecordsOwn, CallsOwn
<1>5. AnswersAreOwn'
  BY <1>3 DEF AnswersAreOwn, Owns
<1> QED BY <1>4, <1>5 DEF IInv

----------------------------------------------------------------------------
(* One lemma per step: its types, then what it adds. *)
LEMMA SendIInv ==
  ASSUME IInv, NEW r \in Call, NEW k \in Key, NEW b \in Body, Send(r, k, b)
  PROVE  IInv'
<1>1. TypeOK'
  BY IdempotencyAssumption DEF IInv, TypeOK, Send, Running, Request
<1> QED BY <1>1, Preserved DEF Send, EffectsGrow

LEMMA ReplayIInv ==
  ASSUME IInv, NEW r \in Call, Replay(r)
  PROVE  IInv'
<1> DEFINE k == call[r].key
<1>1. /\ k \in DOMAIN record /\ k \in Key /\ record[k] \in Record
      /\ r \in DOMAIN call /\ call[r] \in Request
  BY DEF Replay, At, IInv, TypeOK
<1>2. answer' \subseteq Answer
  BY <1>1 DEF IInv, TypeOK, Replay, Reply, Answer, Record, Request
<1>3. TypeOK'
  BY <1>2 DEF IInv, TypeOK, Replay, End
<1>4. ASSUME NEW a \in answer', a \notin answer, a.code = "ok"
      PROVE  Owns(effect', a.key, a.body, a.response)
  <2>1. /\ record[k].body = call[r].body
        /\ a = [key |-> k, body |-> call[r].body, code |-> record[k].code,
                response |-> record[k].response]
    BY <1>4 DEF Replay, Reply
  <2> QED BY <1>1, <1>4, <2>1 DEF IInv, RecordsOwn, Replay
<1> QED BY <1>3, <1>4, Preserved DEF Replay, End, EffectsGrow

LEMMA FirstTimeIInv ==
  ASSUME IInv, NEW r \in Call, FirstTime(r)
  PROVE  IInv'
<1>1. TypeOK'
  BY DEF IInv, TypeOK, FirstTime, At, Request
<1>2. \A q \in DOMAIN call' :
        \/ call'[q].step # "save"
        \/ q \in DOMAIN call /\ call'[q] = call[q]
  BY DEF FirstTime, At, IInv, TypeOK, Request
<1> QED BY <1>1, <1>2, Preserved DEF FirstTime, EffectsGrow

LEMMA LookupFailsIInv ==
  ASSUME IInv, NEW r \in Call, LookupFails(r)
  PROVE  IInv'
<1>1. TypeOK'
  BY DEF IInv, TypeOK, LookupFails, End
<1> QED BY <1>1, Preserved DEF LookupFails, End, EffectsGrow

(* The effect a handler adds is its own. *)
LEMMA DoesOwn ==
  ASSUME TypeOK, NEW r \in DOMAIN call, Does(r)
  PROVE  /\ effect' \in Seq([key: Key, body: Body])
         /\ EffectsGrow
         /\ Len(effect') \in Nat
         /\ Owns(effect', call[r].key, call[r].body, Len(effect'))
<1>1. call[r].key \in Key /\ call[r].body \in Body
  BY DEF TypeOK, Request
<1> QED BY <1>1 DEF TypeOK, Does, EffectsGrow, Owns

LEMMA SucceedIInv ==
  ASSUME IInv, NEW r \in Call, Succeed(r)
  PROVE  IInv'
<1>1. r \in DOMAIN call /\ call[r] \in Request /\ TypeOK
  BY DEF Succeed, At, IInv, TypeOK
<1>2. /\ effect' \in Seq([key: Key, body: Body]) /\ EffectsGrow
      /\ Len(effect') \in Nat
      /\ Owns(effect', call[r].key, call[r].body, Len(effect'))
  BY <1>1, DoesOwn DEF Succeed
<1>3. \A q \in DOMAIN call' : call'[q] \in Request
  BY <1>1, <1>2 DEF TypeOK, Succeed, Captured, Request
<1>4. answer' \subseteq Answer
  BY <1>1, <1>2 DEF TypeOK, Succeed, Reply, Answer, Request
<1>5. TypeOK'
  BY <1>1, <1>2, <1>3, <1>4 DEF TypeOK, Succeed, Captured
<1>6. \A a \in answer' :
        a \in answer \/ (a.code = "ok" => Owns(effect', a.key, a.body, a.response))
  BY <1>2 DEF Succeed, Reply
<1>7. /\ call'[r].code = "ok" /\ call'[r].response = Len(effect')
      /\ call'[r].key = call[r].key /\ call'[r].body = call[r].body
      /\ DOMAIN call' = DOMAIN call
      /\ \A q \in DOMAIN call \ {r} : call'[q] = call[q]
  BY <1>1 DEF Succeed, Captured, Request
<1> QED BY <1>2, <1>5, <1>6, <1>7, Preserved DEF Succeed

LEMMA RefuseIInv ==
  ASSUME IInv, NEW r \in Call, Refuse(r)
  PROVE  IInv'
<1>1. r \in DOMAIN call /\ call[r] \in Request /\ TypeOK
  BY DEF Refuse, At, IInv, TypeOK
<1>2. answer' \subseteq Answer
  BY <1>1 DEF TypeOK, Refuse, Reply, Answer, Request, NoEffect
<1>3. TypeOK'
  BY <1>1, <1>2 DEF TypeOK, Refuse, Captured, Request
<1> QED BY <1>1, <1>3, Preserved DEF Refuse, Captured, Reply, EffectsGrow, Request

LEMMA FailIInv ==
  ASSUME IInv, NEW r \in Call, Fail(r)
  PROVE  IInv'
<1>1. r \in DOMAIN call /\ call[r] \in Request /\ TypeOK
  BY DEF Fail, At, IInv, TypeOK
<1>2. answer' \subseteq Answer
  BY <1>1 DEF TypeOK, Fail, Reply, Answer, Request
<1>3. TypeOK'
  BY <1>1, <1>2 DEF TypeOK, Fail, End
<1> QED BY <1>1, <1>3, Preserved DEF Fail, End, Reply, EffectsGrow

LEMMA FailHalfwayIInv ==
  ASSUME IInv, NEW r \in Call, FailHalfway(r)
  PROVE  IInv'
<1>1. r \in DOMAIN call /\ call[r] \in Request /\ TypeOK
  BY DEF FailHalfway, At, IInv, TypeOK
<1>2. effect' \in Seq([key: Key, body: Body]) /\ EffectsGrow
  BY <1>1, DoesOwn DEF FailHalfway
<1>3. answer' \subseteq Answer
  BY <1>1 DEF TypeOK, FailHalfway, Reply, Answer, Request
<1>4. TypeOK'
  BY <1>1, <1>2, <1>3, IdempotencyAssumption DEF TypeOK, FailHalfway, End
<1> QED BY <1>1, <1>2, <1>4, Preserved DEF FailHalfway, End, Reply

LEMMA SaveIInv ==
  ASSUME IInv, NEW r \in Call, Save(r)
  PROVE  IInv'
<1> DEFINE k == call[r].key
<1>1. /\ r \in DOMAIN call /\ call[r] \in Request /\ TypeOK
      /\ call[r].code \in {"ok", "refused"}
      /\ call[r].code = "ok" => Owns(effect, k, call[r].body, call[r].response)
  BY DEF Save, At, IInv, TypeOK, CallsOwn
<1>2. CASE record' = record
  <2>1. TypeOK'
    BY <1>1, <1>2 DEF TypeOK, Save, End
  <2> QED BY <1>2, <2>1, Preserved DEF Save, End, EffectsGrow
<1>3. CASE Store(k, r)
  <2>1. TypeOK'
    BY <1>1, <1>3 DEF TypeOK, Save, End, Store, Record, Request
  <2>2. \A j \in DOMAIN record' :
          \/ j \in DOMAIN record /\ record'[j] = record[j]
          \/ record'[j].code = "ok" =>
               Owns(effect', j, record'[j].body, record'[j].response)
    BY <1>1, <1>3 DEF Store, Save
  <2> QED BY <2>1, <2>2, Preserved DEF Save, End, EffectsGrow
<1> QED BY <1>2, <1>3 DEF Save

LEMMA DisconnectIInv ==
  ASSUME IInv, NEW r \in Call, Disconnect(r)
  PROVE  IInv'
<1>0. TypeOK /\ DOMAIN call' = DOMAIN call
  BY DEF Disconnect, IInv
<1>1. TypeOK'
  <2>1. \A q \in DOMAIN call' : call'[q] \in Request
    BY <1>0 DEF TypeOK, Disconnect, Request
  <2>2. faults' \in 0..MaxFaults
    BY <1>0, IdempotencyAssumption DEF TypeOK, Disconnect
  <2> QED BY <1>0, <2>1, <2>2 DEF TypeOK, Disconnect
<1>2. \A q \in DOMAIN call' :
        /\ q \in DOMAIN call
        /\ call'[q].step = call[q].step
        /\ call'[q].code = call[q].code /\ call'[q].response = call[q].response
        /\ call'[q].key = call[q].key /\ call'[q].body = call[q].body
  BY DEF Disconnect, IInv, TypeOK, Request
<1> QED BY <1>1, <1>2, Preserved DEF Disconnect, EffectsGrow

LEMMA CrashIInv ==
  ASSUME IInv, Crash
  PROVE  IInv'
<1>1. TypeOK'
  BY IdempotencyAssumption DEF IInv, TypeOK, Crash
<1> QED BY <1>1, Preserved DEF Crash, EffectsGrow

LEMMA NextIInv ==
  ASSUME IInv, [Next]_vars
  PROVE  IInv'
<1>1. CASE UNCHANGED vars
  BY <1>1 DEF vars, IInv, TypeOK, RecordsOwn, CallsOwn, AnswersAreOwn, Owns
<1>2. CASE Next
  BY <1>2, SendIInv, ReplayIInv, FirstTimeIInv, LookupFailsIInv, SucceedIInv, RefuseIInv,
     FailIInv, FailHalfwayIInv, SaveIInv, DisconnectIInv, CrashIInv
  DEF Next
<1> QED BY <1>1, <1>2

LEMMA IInvHolds == Spec => []IInv
<1>1. IInv /\ [Next]_vars => IInv'
  BY NextIInv
<1> QED BY InitIInv, <1>1, PTL DEF Spec

(* Types, for every number of keys, requests and faults (idempotency.go). *)
THEOREM TypesHold == Spec => []TypeOK
<1>1. IInv => TypeOK
  BY DEF IInv
<1> QED BY IInvHolds, <1>1, PTL

(* Whatever overlaps, is resent or cut off: a success the client is told of is *)
(* the effect of the request it sent, under its key (idempotency.go:45-77).    *)
THEOREM AnswersHold == Spec => []AnswersAreOwn
<1>1. IInv => AnswersAreOwn
  BY DEF IInv
<1> QED BY IInvHolds, <1>1, PTL

(* The first response stored under a key stays as it is                        *)
(* (store/idempotency.go:34-43).                                               *)
THEOREM FirstResponsesHold == Spec => FirstResponseStands
<1>1. [Next]_vars =>
        [\A k \in DOMAIN record : k \in DOMAIN record' /\ record'[k] = record[k]]_vars
  <2> SUFFICES ASSUME [Next]_vars
               PROVE  \/ UNCHANGED vars
                      \/ \A k \in DOMAIN record :
                           k \in DOMAIN record' /\ record'[k] = record[k]
    OBVIOUS
  <2>1. \/ UNCHANGED record
        \/ \E r \in Call : call[r].key \notin DOMAIN record /\ Store(call[r].key, r)
    BY DEF Next, vars, Send, Replay, FirstTime, LookupFails, Succeed, Refuse, Fail,
           FailHalfway, Save, Disconnect, Crash
  <2>2. CASE UNCHANGED record
    BY <2>2
  <2>3. CASE \E r \in Call : call[r].key \notin DOMAIN record /\ Store(call[r].key, r)
    BY <2>3 DEF Store
  <2> QED BY <2>1, <2>2, <2>3
<1> QED BY <1>1, PTL DEF Spec, FirstResponseStands
----------------------------------------------------------------------------
(***************************************************************************)
(* How often a key executes.  Every execution is paid for, and so is every *)
(* one that may still come: a running request that may yet reach its effect *)
(* counts like an execution, a running request that is cut off once more,   *)
(* for its response will not be stored.  A key in hand may be one ahead of  *)
(* the faults and the overlaps, a key at rest only once it is stored.       *)
(***************************************************************************)
RunningIn(calls, k) == {q \in DOMAIN calls : calls[q].key = k}
PendingIn(calls, k) ==
  {q \in DOMAIN calls : calls[q].key = k /\ calls[q].step \in {"lookup", "handle"}}
HandlingIn(calls, k) == {q \in DOMAIN calls : calls[q].key = k /\ calls[q].step = "handle"}
GoneIn(calls, k) == {q \in DOMAIN calls : calls[q].key = k /\ calls[q].gone}

Pending(calls, k) == Cardinality(PendingIn(calls, k))
Handling(calls, k) == Cardinality(HandlingIn(calls, k))
Gone(calls, k) == Cardinality(GoneIn(calls, k))
ExecutionsIn(done, k) == {i \in 1..Len(done) : done[i].key = k}
Executed(done, k) == Cardinality(ExecutionsIn(done, k))

Charged(k) ==
  IF k \in DOMAIN record
  THEN Executed(effect, k) + Handling(call, k) <= faults + overlaps + 1
  ELSE /\ RunningIn(call, k) = {} =>
            Executed(effect, k) + Pending(call, k) + Gone(call, k) <= faults + overlaps
       /\ RunningIn(call, k) # {} =>
            Executed(effect, k) + Pending(call, k) + Gone(call, k) <= faults + overlaps + 1

ChargedInv ==
  /\ IsFiniteSet(DOMAIN call)
  /\ \A k \in Key : Charged(k)

(* 1 if it is so. *)
If(b) == IF b THEN 1 ELSE 0

(* What request h counts for key k. *)
Waits(h, k) == If(h.key = k /\ h.step \in {"lookup", "handle"})
Works(h, k) == If(h.key = k /\ h.step = "handle")
Lost(h, k) == If(h.key = k /\ h.gone)

(* One element more or less. *)
LEMMA OneMore ==
  ASSUME NEW S, IsFiniteSet(S), NEW x, x \notin S, NEW b \in BOOLEAN, NEW T,
         T = IF b THEN S \cup {x} ELSE S
  PROVE  Cardinality(T) = Cardinality(S) + If(b)
<1>1. CASE b
  <2>1. Cardinality(T) = Cardinality(S) + 1
    BY <1>1, FS_AddElement
  <2> QED BY <1>1, <2>1 DEF If
<1>2. CASE ~b
  <2>1. Cardinality(T) = Cardinality(S) /\ Cardinality(S) \in Nat
    BY <1>2, FS_CardinalityType
  <2> QED BY <1>2, <2>1 DEF If
<1> QED BY <1>1, <1>2

LEMMA OneLess ==
  ASSUME NEW S, IsFiniteSet(S), NEW x, NEW b \in BOOLEAN, x \in S <=> b, NEW T, T = S \ {x}
  PROVE  Cardinality(T) = Cardinality(S) - If(b)
<1>1. CASE b
  <2>1. Cardinality(T) = Cardinality(S) - 1
    BY <1>1, FS_RemoveElement
  <2> QED BY <1>1, <2>1 DEF If
<1>2. CASE ~b
  <2>1. Cardinality(T) = Cardinality(S) /\ Cardinality(S) \in Nat
    BY <1>2, FS_CardinalityType
  <2> QED BY <1>2, <2>1 DEF If
<1> QED BY <1>1, <1>2

LEMMA CallSizes ==
  ASSUME NEW calls, IsFiniteSet(DOMAIN calls), NEW k
  PROVE  /\ IsFiniteSet(PendingIn(calls, k)) /\ Pending(calls, k) \in Nat
         /\ IsFiniteSet(HandlingIn(calls, k)) /\ Handling(calls, k) \in Nat
         /\ IsFiniteSet(GoneIn(calls, k)) /\ Gone(calls, k) \in Nat
         /\ Handling(calls, k) <= Pending(calls, k)
<1>1. /\ PendingIn(calls, k) \subseteq DOMAIN calls
      /\ HandlingIn(calls, k) \subseteq PendingIn(calls, k)
      /\ GoneIn(calls, k) \subseteq DOMAIN calls
  BY DEF PendingIn, HandlingIn, GoneIn
<1>2. /\ IsFiniteSet(PendingIn(calls, k)) /\ IsFiniteSet(GoneIn(calls, k))
  BY <1>1, FS_Subset
<1>3. /\ IsFiniteSet(HandlingIn(calls, k)) /\ Handling(calls, k) <= Pending(calls, k)
  BY <1>1, <1>2, FS_Subset DEF Handling, Pending
<1> QED BY <1>2, <1>3, FS_CardinalityType DEF Handling, Pending, Gone

(* The four ways in which the table of the running requests changes. *)
Arrived(calls, next, r, k) ==
  /\ r \notin DOMAIN calls
  /\ DOMAIN next = DOMAIN calls \cup {r}
  /\ \A q \in DOMAIN calls : next[q] = calls[q]
  /\ next[r].key = k /\ next[r].step = "lookup" /\ next[r].gone = FALSE

Ended(calls, next, r) ==
  /\ r \in DOMAIN calls
  /\ DOMAIN next = DOMAIN calls \ {r}
  /\ \A q \in DOMAIN next : next[q] = calls[q]

Moved(calls, next, r, step) ==
  /\ r \in DOMAIN calls
  /\ DOMAIN next = DOMAIN calls
  /\ \A q \in DOMAIN calls \ {r} : next[q] = calls[q]
  /\ next[r].key = calls[r].key /\ next[r].gone = calls[r].gone
  /\ next[r].step = step

HungUp(calls, next, r) ==
  /\ r \in DOMAIN calls
  /\ DOMAIN next = DOMAIN calls
  /\ \A q \in DOMAIN calls \ {r} : next[q] = calls[q]
  /\ next[r].key = calls[r].key /\ next[r].step = calls[r].step
  /\ calls[r].gone = FALSE /\ next[r].gone = TRUE

LEMMA ArrivedSizes ==
  ASSUME NEW calls, NEW next, NEW r, NEW k, NEW j,
         IsFiniteSet(DOMAIN calls), Arrived(calls, next, r, k)
  PROVE  /\ IsFiniteSet(DOMAIN next)
         /\ RunningIn(next, j) = IF j = k THEN RunningIn(calls, j) \cup {r}
                                          ELSE RunningIn(calls, j)
         /\ Pending(next, j) = Pending(calls, j) + If(j = k)
         /\ Handling(next, j) = Handling(calls, j)
         /\ Gone(next, j) = Gone(calls, j)
<1>1. IsFiniteSet(DOMAIN next)
  BY FS_AddElement DEF Arrived
<1>2. RunningIn(next, j) = IF j = k THEN RunningIn(calls, j) \cup {r} ELSE RunningIn(calls, j)
  BY DEF Arrived, RunningIn
<1>3. /\ PendingIn(next, j) = IF j = k THEN PendingIn(calls, j) \cup {r} ELSE PendingIn(calls, j)
      /\ r \notin PendingIn(calls, j)
  BY DEF Arrived, PendingIn
<1>4. HandlingIn(next, j) = HandlingIn(calls, j)
  BY DEF Arrived, HandlingIn
<1>5. GoneIn(next, j) = GoneIn(calls, j)
  BY DEF Arrived, GoneIn
<1>6. Pending(next, j) = Pending(calls, j) + If(j = k)
  BY <1>3, CallSizes, OneMore DEF Pending
<1> QED BY <1>1, <1>2, <1>4, <1>5, <1>6 DEF Handling, Gone

LEMMA EndedRunning ==
  ASSUME NEW calls, NEW next, NEW r, NEW j,
         IsFiniteSet(DOMAIN calls), Ended(calls, next, r)
  PROVE  /\ IsFiniteSet(DOMAIN next)
         /\ RunningIn(next, j) = RunningIn(calls, j) \ {r}
<1>1. IsFiniteSet(DOMAIN next)
  BY FS_RemoveElement DEF Ended
<1>2. RunningIn(next, j) = RunningIn(calls, j) \ {r}
  BY DEF Ended, RunningIn
<1> QED BY <1>1, <1>2

LEMMA EndedPending ==
  ASSUME NEW calls, NEW next, NEW r, NEW j,
         IsFiniteSet(DOMAIN calls), Ended(calls, next, r)
  PROVE  Pending(calls, j) = Pending(next, j) + Waits(calls[r], j)
<1>1. /\ PendingIn(next, j) = PendingIn(calls, j) \ {r}
      /\ r \in PendingIn(calls, j) <=> calls[r].key = j /\ calls[r].step \in {"lookup", "handle"}
  BY DEF Ended, PendingIn
<1>2. Pending(next, j) = Pending(calls, j) - If(calls[r].key = j /\ calls[r].step \in {"lookup", "handle"})
  BY <1>1, CallSizes, OneLess DEF Pending
<1> QED BY <1>2, CallSizes DEF If, Waits

LEMMA EndedHandling ==
  ASSUME NEW calls, NEW next, NEW r, NEW j,
         IsFiniteSet(DOMAIN calls), Ended(calls, next, r)
  PROVE  Handling(calls, j) = Handling(next, j) + Works(calls[r], j)
<1>1. /\ HandlingIn(next, j) = HandlingIn(calls, j) \ {r}
      /\ r \in HandlingIn(calls, j) <=> calls[r].key = j /\ calls[r].step = "handle"
  BY DEF Ended, HandlingIn
<1>2. Handling(next, j) = Handling(calls, j) - If(calls[r].key = j /\ calls[r].step = "handle")
  BY <1>1, CallSizes, OneLess DEF Handling
<1> QED BY <1>2, CallSizes DEF If, Works

LEMMA EndedGone ==
  ASSUME NEW calls, NEW next, NEW r, NEW j,
         IsFiniteSet(DOMAIN calls), Ended(calls, next, r)
  PROVE  Gone(calls, j) = Gone(next, j) + Lost(calls[r], j)
<1>1. /\ GoneIn(next, j) = GoneIn(calls, j) \ {r}
      /\ r \in GoneIn(calls, j) <=> calls[r].key = j /\ calls[r].gone
  BY DEF Ended, GoneIn
<1>2. Gone(next, j) = Gone(calls, j) - If(calls[r].key = j /\ calls[r].gone)
  BY <1>1, CallSizes, OneLess DEF Gone
<1> QED BY <1>2, CallSizes DEF If, Lost

LEMMA FirstTimeSizes ==
  ASSUME NEW calls, NEW next, NEW r, NEW j,
         IsFiniteSet(DOMAIN calls), calls[r].step = "lookup", Moved(calls, next, r, "handle")
  PROVE  /\ IsFiniteSet(DOMAIN next)
         /\ RunningIn(next, j) = RunningIn(calls, j)
         /\ Pending(next, j) = Pending(calls, j)
         /\ Handling(next, j) = Handling(calls, j) + If(calls[r].key = j)
         /\ Gone(next, j) = Gone(calls, j)
<1>2. /\ DOMAIN next = DOMAIN calls
      /\ RunningIn(next, j) = RunningIn(calls, j)
  BY DEF Moved, RunningIn
<1>3. PendingIn(next, j) = PendingIn(calls, j)
  BY DEF Moved, PendingIn
<1>4. /\ HandlingIn(next, j) = IF calls[r].key = j THEN HandlingIn(calls, j) \cup {r}
                                                    ELSE HandlingIn(calls, j)
      /\ r \notin HandlingIn(calls, j)
  BY DEF Moved, HandlingIn
<1>5. GoneIn(next, j) = GoneIn(calls, j)
  BY DEF Moved, GoneIn
<1>6. Handling(next, j) = Handling(calls, j) + If(calls[r].key = j)
  BY <1>4, CallSizes, OneMore DEF Handling
<1> QED BY <1>2, <1>3, <1>5, <1>6 DEF Pending, Gone

LEMMA CapturedSizes ==
  ASSUME NEW calls, NEW next, NEW r, NEW j,
         IsFiniteSet(DOMAIN calls), calls[r].step = "handle", Moved(calls, next, r, "save")
  PROVE  /\ IsFiniteSet(DOMAIN next)
         /\ RunningIn(next, j) = RunningIn(calls, j)
         /\ Pending(next, j) = Pending(calls, j) - If(calls[r].key = j)
         /\ Handling(next, j) = Handling(calls, j) - If(calls[r].key = j)
         /\ Gone(next, j) = Gone(calls, j)
<1>2. /\ DOMAIN next = DOMAIN calls
      /\ RunningIn(next, j) = RunningIn(calls, j)
  BY DEF Moved, RunningIn
<1>3. /\ PendingIn(next, j) = PendingIn(calls, j) \ {r}
      /\ r \in PendingIn(calls, j) <=> calls[r].key = j
  BY DEF Moved, PendingIn
<1>4. /\ HandlingIn(next, j) = HandlingIn(calls, j) \ {r}
      /\ r \in HandlingIn(calls, j) <=> calls[r].key = j
  BY DEF Moved, HandlingIn
<1>5. GoneIn(next, j) = GoneIn(calls, j)
  BY DEF Moved, GoneIn
<1>6. Pending(next, j) = Pending(calls, j) - If(calls[r].key = j)
  BY <1>3, CallSizes, OneLess DEF Pending
<1>7. Handling(next, j) = Handling(calls, j) - If(calls[r].key = j)
  BY <1>4, CallSizes, OneLess DEF Handling
<1> QED BY <1>2, <1>5, <1>6, <1>7 DEF Gone

LEMMA HungUpSizes ==
  ASSUME NEW calls, NEW next, NEW r, NEW j,
         IsFiniteSet(DOMAIN calls), HungUp(calls, next, r)
  PROVE  /\ IsFiniteSet(DOMAIN next)
         /\ RunningIn(next, j) = RunningIn(calls, j)
         /\ Pending(next, j) = Pending(calls, j)
         /\ Handling(next, j) = Handling(calls, j)
         /\ Gone(next, j) = Gone(calls, j) + If(calls[r].key = j)
<1>2. /\ DOMAIN next = DOMAIN calls
      /\ RunningIn(next, j) = RunningIn(calls, j)
  BY DEF HungUp, RunningIn
<1>3. PendingIn(next, j) = PendingIn(calls, j)
  BY DEF HungUp, PendingIn
<1>4. HandlingIn(next, j) = HandlingIn(calls, j)
  BY DEF HungUp, HandlingIn
<1>5. /\ GoneIn(next, j) = IF calls[r].key = j THEN GoneIn(calls, j) \cup {r}
                                                ELSE GoneIn(calls, j)
      /\ r \notin GoneIn(calls, j)
  BY DEF HungUp, GoneIn
<1>6. Gone(next, j) = Gone(calls, j) + If(calls[r].key = j)
  BY <1>5, CallSizes, OneMore DEF Gone
<1> QED BY <1>2, <1>3, <1>4, <1>6 DEF Pending, Handling

LEMMA NoCallSizes ==
  ASSUME NEW calls, DOMAIN calls = {}, NEW j
  PROVE  /\ IsFiniteSet(DOMAIN calls)
         /\ RunningIn(calls, j) = {}
         /\ Pending(calls, j) = 0 /\ Handling(calls, j) = 0 /\ Gone(calls, j) = 0
<1>1. /\ RunningIn(calls, j) = {} /\ PendingIn(calls, j) = {}
      /\ HandlingIn(calls, j) = {} /\ GoneIn(calls, j) = {}
  BY DEF RunningIn, PendingIn, HandlingIn, GoneIn
<1> QED BY <1>1, FS_EmptySet DEF Pending, Handling, Gone

(* What was done is counted once more under its key, and under no other. *)
LEMMA ExecutedSizes ==
  ASSUME TypeOK, NEW j
  PROVE  /\ Executed(effect, j) \in Nat
         /\ \A r \in DOMAIN call :
              Does(r) => Executed(effect', j) = Executed(effect, j) + If(call[r].key = j)
<1>0. effect \in Seq([key: Key, body: Body]) /\ Len(effect) \in Nat
  BY DEF TypeOK
<1>1. IsFiniteSet(ExecutionsIn(effect, j))
  <2>1. IsFiniteSet(1..Len(effect)) /\ ExecutionsIn(effect, j) \subseteq 1..Len(effect)
    BY <1>0, FS_Interval DEF ExecutionsIn
  <2> QED BY <2>1, FS_Subset
<1>2. Executed(effect, j) \in Nat
  BY <1>1, FS_CardinalityType DEF Executed
<1>3. ASSUME NEW r \in DOMAIN call, Does(r)
      PROVE  Executed(effect', j) = Executed(effect, j) + If(call[r].key = j)
  <2>1. /\ Len(effect') = Len(effect) + 1
        /\ effect'[Len(effect) + 1].key = call[r].key
        /\ \A i \in 1..Len(effect) : effect'[i] = effect[i]
    BY <1>0, <1>3 DEF Does, TypeOK, Request
  <2>2. /\ ExecutionsIn(effect', j) =
             IF call[r].key = j THEN ExecutionsIn(effect, j) \cup {Len(effect) + 1}
                                ELSE ExecutionsIn(effect, j)
        /\ Len(effect) + 1 \notin ExecutionsIn(effect, j)
    BY <1>0, <2>1 DEF ExecutionsIn
  <2> QED BY <1>1, <1>2, <2>2, OneMore DEF Executed
<1> QED BY <1>2, <1>3

(* The steps.  Each is one of the four changes of the table, and pays. *)
LEMMA Amounts ==
  ASSUME TypeOK, ChargedInv, NEW j \in Key
  PROVE  /\ faults \in Nat /\ overlaps \in Nat
         /\ Executed(effect, j) \in Nat
         /\ Pending(call, j) \in Nat /\ Handling(call, j) \in Nat /\ Gone(call, j) \in Nat
         /\ Handling(call, j) <= Pending(call, j)
         /\ IsFiniteSet(DOMAIN call)
         /\ Charged(j)
BY IdempotencyAssumption, CallSizes, ExecutedSizes DEF TypeOK, ChargedInv

LEMMA SendCharged ==
  ASSUME TypeOK, ChargedInv, NEW r \in Call, NEW k \in Key, NEW b \in Body, Send(r, k, b)
  PROVE  ChargedInv'
<1>1. Arrived(call, call', r, k) /\ IsFiniteSet(DOMAIN call)
  BY DEF Send, Arrived, ChargedInv
<1>2. IsFiniteSet(DOMAIN call')
  BY <1>1, ArrivedSizes
<1>3. ASSUME NEW j \in Key PROVE Charged(j)'
  <2>1. /\ record' = record /\ effect' = effect /\ faults' = faults
        /\ \/ RunningIn(call, k) = {} /\ overlaps' = overlaps
           \/ RunningIn(call, k) # {} /\ overlaps' = overlaps + 1
    BY DEF Send, Running, RunningIn
  <2>2. /\ RunningIn(call', j) = IF j = k THEN RunningIn(call, j) \cup {r} ELSE RunningIn(call, j)
        /\ Pending(call', j) = Pending(call, j) + If(j = k)
        /\ Handling(call', j) = Handling(call, j)
        /\ Gone(call', j) = Gone(call, j)
    BY <1>1, ArrivedSizes
  <2>3. CASE j = k
    BY <2>1, <2>2, <2>3, Amounts DEF Charged, If
  <2>4. CASE j # k
    BY <2>1, <2>2, <2>4, Amounts DEF Charged, If
  <2> QED BY <2>3, <2>4
<1> QED BY <1>2, <1>3 DEF ChargedInv

LEMMA ReplayCharged ==
  ASSUME TypeOK, ChargedInv, NEW r \in Call, Replay(r)
  PROVE  ChargedInv'
<1>0. Ended(call, call', r) /\ IsFiniteSet(DOMAIN call)
  BY DEF Replay, At, End, Ended, ChargedInv
<1>1. call[r].step = "lookup" /\ call[r].gone \in BOOLEAN
  BY DEF Replay, At, TypeOK, Request
<1>2. IsFiniteSet(DOMAIN call')
  BY <1>0, EndedRunning
<1>3. ASSUME NEW j \in Key PROVE Charged(j)'
  <2>1. /\ overlaps' = overlaps
        /\ record' = record /\ effect' = effect /\ faults' = faults /\ call[r].key \in DOMAIN record
    BY DEF Replay, At
  <2>2. /\ RunningIn(call', j) = RunningIn(call, j) \ {r}
        /\ Pending(call, j) = Pending(call', j) + Waits(call[r], j)
        /\ Handling(call, j) = Handling(call', j) + Works(call[r], j)
        /\ Gone(call, j) = Gone(call', j) + Lost(call[r], j)
    BY <1>0, EndedRunning, EndedPending, EndedHandling, EndedGone
  <2>3. /\ Pending(call', j) \in Nat /\ Handling(call', j) \in Nat /\ Gone(call', j) \in Nat
        /\ Handling(call', j) <= Pending(call', j)
    BY <1>2, CallSizes
  <2>4. r \in RunningIn(call, j) <=> call[r].key = j
    BY <1>0 DEF Ended, RunningIn
  <2>5. CASE call[r].key = j
    BY <1>1, <2>1, <2>2, <2>3, <2>4, <2>5, Amounts DEF Charged, If, Waits, Works, Lost
  <2>6. CASE call[r].key # j
    <3>1. RunningIn(call', j) = RunningIn(call, j)
      BY <2>2, <2>4, <2>6
    <3> QED BY <1>1, <2>1, <2>2, <2>3, <2>6, <3>1, Amounts DEF Charged, If, Waits, Works, Lost
  <2> QED BY <2>5, <2>6
<1> QED BY <1>2, <1>3 DEF ChargedInv

LEMMA LookupFailsCharged ==
  ASSUME TypeOK, ChargedInv, NEW r \in Call, LookupFails(r)
  PROVE  ChargedInv'
<1>0. Ended(call, call', r) /\ IsFiniteSet(DOMAIN call)
  BY DEF LookupFails, At, End, Ended, ChargedInv
<1>1. call[r].step = "lookup" /\ call[r].gone \in BOOLEAN
  BY DEF LookupFails, At, TypeOK, Request
<1>2. IsFiniteSet(DOMAIN call')
  BY <1>0, EndedRunning
<1>3. ASSUME NEW j \in Key PROVE Charged(j)'
  <2>1. /\ overlaps' = overlaps
        /\ record' = record /\ effect' = effect /\ faults' = faults /\ call[r].gone
    BY DEF LookupFails, At
  <2>2. /\ RunningIn(call', j) = RunningIn(call, j) \ {r}
        /\ Pending(call, j) = Pending(call', j) + Waits(call[r], j)
        /\ Handling(call, j) = Handling(call', j) + Works(call[r], j)
        /\ Gone(call, j) = Gone(call', j) + Lost(call[r], j)
    BY <1>0, EndedRunning, EndedPending, EndedHandling, EndedGone
  <2>3. /\ Pending(call', j) \in Nat /\ Handling(call', j) \in Nat /\ Gone(call', j) \in Nat
        /\ Handling(call', j) <= Pending(call', j)
    BY <1>2, CallSizes
  <2>4. r \in RunningIn(call, j) <=> call[r].key = j
    BY <1>0 DEF Ended, RunningIn
  <2>5. CASE call[r].key = j
    BY <1>1, <2>1, <2>2, <2>3, <2>4, <2>5, Amounts DEF Charged, If, Waits, Works, Lost
  <2>6. CASE call[r].key # j
    <3>1. RunningIn(call', j) = RunningIn(call, j)
      BY <2>2, <2>4, <2>6
    <3> QED BY <1>1, <2>1, <2>2, <2>3, <2>6, <3>1, Amounts DEF Charged, If, Waits, Works, Lost
  <2> QED BY <2>5, <2>6
<1> QED BY <1>2, <1>3 DEF ChargedInv

LEMMA FailCharged ==
  ASSUME TypeOK, ChargedInv, NEW r \in Call, Fail(r)
  PROVE  ChargedInv'
<1>0. Ended(call, call', r) /\ IsFiniteSet(DOMAIN call)
  BY DEF Fail, At, End, Ended, ChargedInv
<1>1. call[r].step = "handle" /\ call[r].gone \in BOOLEAN
  BY DEF Fail, At, TypeOK, Request
<1>2. IsFiniteSet(DOMAIN call')
  BY <1>0, EndedRunning
<1>3. ASSUME NEW j \in Key PROVE Charged(j)'
  <2>1. /\ overlaps' = overlaps
        /\ record' = record /\ effect' = effect /\ faults' = faults
    BY DEF Fail, At
  <2>2. /\ RunningIn(call', j) = RunningIn(call, j) \ {r}
        /\ Pending(call, j) = Pending(call', j) + Waits(call[r], j)
        /\ Handling(call, j) = Handling(call', j) + Works(call[r], j)
        /\ Gone(call, j) = Gone(call', j) + Lost(call[r], j)
    BY <1>0, EndedRunning, EndedPending, EndedHandling, EndedGone
  <2>3. /\ Pending(call', j) \in Nat /\ Handling(call', j) \in Nat /\ Gone(call', j) \in Nat
        /\ Handling(call', j) <= Pending(call', j)
    BY <1>2, CallSizes
  <2>4. r \in RunningIn(call, j) <=> call[r].key = j
    BY <1>0 DEF Ended, RunningIn
  <2>5. CASE call[r].key = j
    BY <1>1, <2>1, <2>2, <2>3, <2>4, <2>5, Amounts DEF Charged, If, Waits, Works, Lost
  <2>6. CASE call[r].key # j
    <3>1. RunningIn(call', j) = RunningIn(call, j)
      BY <2>2, <2>4, <2>6
    <3> QED BY <1>1, <2>1, <2>2, <2>3, <2>6, <3>1, Amounts DEF Charged, If, Waits, Works, Lost
  <2> QED BY <2>5, <2>6
<1> QED BY <1>2, <1>3 DEF ChargedInv

LEMMA FailHalfwayCharged ==
  ASSUME TypeOK, ChargedInv, NEW r \in Call, FailHalfway(r)
  PROVE  ChargedInv'
<1>0. Ended(call, call', r) /\ IsFiniteSet(DOMAIN call)
  BY DEF FailHalfway, At, End, Ended, ChargedInv
<1>1. call[r].step = "handle" /\ call[r].gone \in BOOLEAN
  BY DEF FailHalfway, At, TypeOK, Request
<1>2. IsFiniteSet(DOMAIN call')
  BY <1>0, EndedRunning
<1>3. ASSUME NEW j \in Key PROVE Charged(j)'
  <2>1. /\ overlaps' = overlaps
        /\ record' = record
        /\ \/ call[r].gone /\ faults' = faults
           \/ ~call[r].gone /\ faults' = faults + 1
        /\ Executed(effect', j) = Executed(effect, j) + If(call[r].key = j)
    BY ExecutedSizes DEF FailHalfway, At
  <2>2. /\ RunningIn(call', j) = RunningIn(call, j) \ {r}
        /\ Pending(call, j) = Pending(call', j) + Waits(call[r], j)
        /\ Handling(call, j) = Handling(call', j) + Works(call[r], j)
        /\ Gone(call, j) = Gone(call', j) + Lost(call[r], j)
    BY <1>0, EndedRunning, EndedPending, EndedHandling, EndedGone
  <2>3. /\ Pending(call', j) \in Nat /\ Handling(call', j) \in Nat /\ Gone(call', j) \in Nat
        /\ Handling(call', j) <= Pending(call', j)
    BY <1>2, CallSizes
  <2>4. r \in RunningIn(call, j) <=> call[r].key = j
    BY <1>0 DEF Ended, RunningIn
  <2>5. CASE call[r].key = j
    BY <1>1, <2>1, <2>2, <2>3, <2>4, <2>5, Amounts DEF Charged, If, Waits, Works, Lost
  <2>6. CASE call[r].key # j
    <3>1. RunningIn(call', j) = RunningIn(call, j)
      BY <2>2, <2>4, <2>6
    <3> QED BY <1>1, <2>1, <2>2, <2>3, <2>6, <3>1, Amounts DEF Charged, If, Waits, Works, Lost
  <2> QED BY <2>5, <2>6
<1> QED BY <1>2, <1>3 DEF ChargedInv

LEMMA SaveCharged ==
  ASSUME TypeOK, ChargedInv, NEW r \in Call, Save(r)
  PROVE  ChargedInv'
<1>0. Ended(call, call', r) /\ IsFiniteSet(DOMAIN call)
  BY DEF Save, At, End, Ended, ChargedInv
<1>1. call[r].step = "save" /\ call[r].gone \in BOOLEAN
  BY DEF Save, At, TypeOK, Request
<1>2. IsFiniteSet(DOMAIN call')
  BY <1>0, EndedRunning
<1>3. ASSUME NEW j \in Key PROVE Charged(j)'
  <2>1. /\ overlaps' = overlaps
        /\ effect' = effect /\ faults' = faults
        /\ \/ record' = record /\ (call[r].gone \/ call[r].key \in DOMAIN record)
           \/ DOMAIN record' = DOMAIN record \cup {call[r].key}
    BY DEF Save, At, Store
  <2>2. /\ RunningIn(call', j) = RunningIn(call, j) \ {r}
        /\ Pending(call, j) = Pending(call', j) + Waits(call[r], j)
        /\ Handling(call, j) = Handling(call', j) + Works(call[r], j)
        /\ Gone(call, j) = Gone(call', j) + Lost(call[r], j)
    BY <1>0, EndedRunning, EndedPending, EndedHandling, EndedGone
  <2>3. /\ Pending(call', j) \in Nat /\ Handling(call', j) \in Nat /\ Gone(call', j) \in Nat
        /\ Handling(call', j) <= Pending(call', j)
    BY <1>2, CallSizes
  <2>4. r \in RunningIn(call, j) <=> call[r].key = j
    BY <1>0 DEF Ended, RunningIn
  <2>5. CASE call[r].key = j
    BY <1>1, <2>1, <2>2, <2>3, <2>4, <2>5, Amounts DEF Charged, If, Waits, Works, Lost
  <2>6. CASE call[r].key # j
    <3>1. RunningIn(call', j) = RunningIn(call, j)
      BY <2>2, <2>4, <2>6
    <3> QED BY <1>1, <2>1, <2>2, <2>3, <2>6, <3>1, Amounts DEF Charged, If, Waits, Works, Lost
  <2> QED BY <2>5, <2>6
<1> QED BY <1>2, <1>3 DEF ChargedInv

LEMMA FirstTimeCharged ==
  ASSUME TypeOK, ChargedInv, NEW r \in Call, FirstTime(r)
  PROVE  ChargedInv'
<1>1. Moved(call, call', r, "handle") /\ call[r].step = "lookup"
  BY DEF FirstTime, At, Moved, TypeOK, Request
<1>2. IsFiniteSet(DOMAIN call)
  BY DEF ChargedInv
<1>3. IsFiniteSet(DOMAIN call')
  BY <1>1, <1>2, FirstTimeSizes
<1>4. ASSUME NEW j \in Key PROVE Charged(j)'
  <2>1. /\ overlaps' = overlaps
        /\ record' = record /\ effect' = effect /\ faults' = faults
        /\ call[r].key \notin DOMAIN record
    BY DEF FirstTime, At
  <2>2. /\ RunningIn(call', j) = RunningIn(call, j)
        /\ Pending(call', j) = Pending(call, j)
        /\ Handling(call', j) = Handling(call, j) + If(call[r].key = j)
        /\ Gone(call', j) = Gone(call, j)
    BY <1>1, <1>2, FirstTimeSizes
  <2>3. CASE call[r].key = j
    <3>1. r \in RunningIn(call, j)
      BY <1>1, <2>3 DEF RunningIn, Moved, HungUp
    <3> QED BY <2>1, <2>2, <2>3, <3>1, Amounts DEF Charged, If
  <2>4. CASE call[r].key # j
    BY <2>1, <2>2, <2>4, Amounts DEF Charged, If
  <2> QED BY <2>3, <2>4
<1> QED BY <1>3, <1>4 DEF ChargedInv

LEMMA SucceedCharged ==
  ASSUME TypeOK, ChargedInv, NEW r \in Call, Succeed(r)
  PROVE  ChargedInv'
<1>1. Moved(call, call', r, "save") /\ call[r].step = "handle"
  BY DEF Succeed, At, Captured, Moved, TypeOK, Request
<1>2. IsFiniteSet(DOMAIN call)
  BY DEF ChargedInv
<1>3. IsFiniteSet(DOMAIN call')
  BY <1>1, <1>2, CapturedSizes
<1>4. ASSUME NEW j \in Key PROVE Charged(j)'
  <2>1. /\ overlaps' = overlaps
        /\ record' = record /\ faults' = faults
        /\ Executed(effect', j) = Executed(effect, j) + If(call[r].key = j)
    BY ExecutedSizes DEF Succeed, At
  <2>2. /\ RunningIn(call', j) = RunningIn(call, j)
        /\ Pending(call', j) = Pending(call, j) - If(call[r].key = j)
        /\ Handling(call', j) = Handling(call, j) - If(call[r].key = j)
        /\ Gone(call', j) = Gone(call, j)
    BY <1>1, <1>2, CapturedSizes
  <2>3. CASE call[r].key = j
    <3>1. r \in RunningIn(call, j)
      BY <1>1, <2>3 DEF RunningIn, Moved, HungUp
    <3> QED BY <2>1, <2>2, <2>3, <3>1, Amounts DEF Charged, If
  <2>4. CASE call[r].key # j
    BY <2>1, <2>2, <2>4, Amounts DEF Charged, If
  <2> QED BY <2>3, <2>4
<1> QED BY <1>3, <1>4 DEF ChargedInv

LEMMA RefuseCharged ==
  ASSUME TypeOK, ChargedInv, NEW r \in Call, Refuse(r)
  PROVE  ChargedInv'
<1>1. Moved(call, call', r, "save") /\ call[r].step = "handle"
  BY DEF Refuse, At, Captured, Moved, TypeOK, Request
<1>2. IsFiniteSet(DOMAIN call)
  BY DEF ChargedInv
<1>3. IsFiniteSet(DOMAIN call')
  BY <1>1, <1>2, CapturedSizes
<1>4. ASSUME NEW j \in Key PROVE Charged(j)'
  <2>1. /\ overlaps' = overlaps
        /\ record' = record /\ effect' = effect /\ faults' = faults
    BY DEF Refuse, At
  <2>2. /\ RunningIn(call', j) = RunningIn(call, j)
        /\ Pending(call', j) = Pending(call, j) - If(call[r].key = j)
        /\ Handling(call', j) = Handling(call, j) - If(call[r].key = j)
        /\ Gone(call', j) = Gone(call, j)
    BY <1>1, <1>2, CapturedSizes
  <2>3. CASE call[r].key = j
    <3>1. r \in RunningIn(call, j)
      BY <1>1, <2>3 DEF RunningIn, Moved, HungUp
    <3> QED BY <2>1, <2>2, <2>3, <3>1, Amounts DEF Charged, If
  <2>4. CASE call[r].key # j
    BY <2>1, <2>2, <2>4, Amounts DEF Charged, If
  <2> QED BY <2>3, <2>4
<1> QED BY <1>3, <1>4 DEF ChargedInv

LEMMA DisconnectCharged ==
  ASSUME TypeOK, ChargedInv, NEW r \in Call, Disconnect(r)
  PROVE  ChargedInv'
<1>1. HungUp(call, call', r)
  BY DEF Disconnect, HungUp, TypeOK, Request
<1>2. IsFiniteSet(DOMAIN call)
  BY DEF ChargedInv
<1>3. IsFiniteSet(DOMAIN call')
  BY <1>1, <1>2, HungUpSizes
<1>4. ASSUME NEW j \in Key PROVE Charged(j)'
  <2>1. /\ overlaps' = overlaps
        /\ record' = record /\ effect' = effect /\ faults' = faults + 1
    BY DEF Disconnect, At
  <2>2. /\ RunningIn(call', j) = RunningIn(call, j)
        /\ Pending(call', j) = Pending(call, j)
        /\ Handling(call', j) = Handling(call, j)
        /\ Gone(call', j) = Gone(call, j) + If(call[r].key = j)
    BY <1>1, <1>2, HungUpSizes
  <2>3. CASE call[r].key = j
    <3>1. r \in RunningIn(call, j)
      BY <1>1, <2>3 DEF RunningIn, Moved, HungUp
    <3> QED BY <2>1, <2>2, <2>3, <3>1, Amounts DEF Charged, If
  <2>4. CASE call[r].key # j
    BY <2>1, <2>2, <2>4, Amounts DEF Charged, If
  <2> QED BY <2>3, <2>4
<1> QED BY <1>3, <1>4 DEF ChargedInv

LEMMA CrashCharged ==
  ASSUME TypeOK, ChargedInv, Crash
  PROVE  ChargedInv'
<1>1. /\ DOMAIN call' = {}
      /\ record' = record /\ effect' = effect
      /\ overlaps' = overlaps /\ faults' = faults + 1
  BY DEF Crash
<1>2. ASSUME NEW j \in Key PROVE Charged(j)'
  <2>1. /\ RunningIn(call', j) = {}
        /\ Pending(call', j) = 0 /\ Handling(call', j) = 0 /\ Gone(call', j) = 0
    BY <1>1, NoCallSizes
  <2> QED BY <1>1, <2>1, Amounts DEF Charged
<1> QED BY <1>1, <1>2, FS_EmptySet DEF ChargedInv

LEMMA InitCharged == Init => ChargedInv
<1> SUFFICES ASSUME Init PROVE ChargedInv
  OBVIOUS
<1>1. /\ DOMAIN call = {} /\ DOMAIN record = {} /\ effect = <<>>
      /\ overlaps = 0 /\ faults = 0
  BY DEF Init
<1>2. ASSUME NEW j \in Key PROVE Charged(j)
  <2>1. ExecutionsIn(effect, j) = {}
    BY <1>1 DEF ExecutionsIn
  <2>2. Executed(effect, j) = 0
    BY <2>1, FS_EmptySet DEF Executed
  <2>3. /\ RunningIn(call, j) = {}
        /\ Pending(call, j) = 0 /\ Handling(call, j) = 0 /\ Gone(call, j) = 0
    BY <1>1, NoCallSizes
  <2> QED BY <1>1, <2>2, <2>3 DEF Charged
<1> QED BY <1>1, <1>2, FS_EmptySet DEF ChargedInv

LEMMA NextCharged == IInv /\ ChargedInv /\ [Next]_vars => ChargedInv'
<1> SUFFICES ASSUME IInv, ChargedInv, [Next]_vars PROVE ChargedInv'
  OBVIOUS
<1>0. TypeOK
  BY DEF IInv
<1>1. CASE UNCHANGED vars
  BY <1>1 DEF vars, ChargedInv, Charged
<1>2. CASE Next
  BY <1>0, <1>2, SendCharged, ReplayCharged, FirstTimeCharged, LookupFailsCharged,
     SucceedCharged, RefuseCharged, FailCharged, FailHalfwayCharged, SaveCharged,
     DisconnectCharged, CrashCharged
  DEF Next
<1> QED BY <1>1, <1>2

(* However requests are resent, cut off or run side by side: every execution   *)
(* of a key after its first is one of a request cut off or resent while it was *)
(* running (idempotency.go:44-77).                                             *)
THEOREM RepeatsHold == Spec => []RepeatsAreExplained
<1>1. IInv /\ ChargedInv => RepeatsAreExplained
  <2> SUFFICES ASSUME TypeOK, ChargedInv, NEW k \in Key
               PROVE  Cardinality(Executions(k)) <= 1 + faults + overlaps
    BY DEF RepeatsAreExplained, IInv
  <2>1. Cardinality(Executions(k)) = Executed(effect, k)
    BY DEF Executions, Executed, ExecutionsIn
  <2> QED BY <2>1, Amounts DEF Charged
<1> QED BY InitCharged, InitIInv, NextCharged, IInvHolds, <1>1, PTL DEF Spec

----------------------------------------------------------------------------
(***************************************************************************)
(* Where nothing overlaps and nothing is cut off: one request at a time     *)
(* works for a key, and what a client was told stands in the record, or in  *)
(* the hands of the request that is about to store it.                      *)
(***************************************************************************)
Final == {"ok", "refused"}

Stored(a) ==
  /\ a.key \in DOMAIN record
  /\ record[a.key].body = a.body /\ record[a.key].code = a.code
  /\ record[a.key].response = a.response

InHand(a, r) ==
  /\ r \in DOMAIN call
  /\ call[r].step = "save"
  /\ call[r].key = a.key /\ call[r].body = a.body
  /\ call[r].code = a.code /\ call[r].response = a.response

OneAtATime == \A q, r \in DOMAIN call : call[q].key = call[r].key => q = r

Undisturbed ==
  \A r \in DOMAIN call :
    /\ ~call[r].gone
    /\ call[r].step \in {"handle", "save"} => call[r].key \notin DOMAIN record

Kept == \A a \in answer : a.code \in Final => Stored(a) \/ \E r \in Call : InHand(a, r)

Orderly == OneAtATime /\ Undisturbed /\ Kept

OrderlyInv == faults = 0 /\ overlaps = 0 => Orderly

LEMMA SendOrderly ==
  ASSUME TypeOK, Orderly, NEW r \in Call, NEW k \in Key, NEW b \in Body, Send(r, k, b),
         overlaps' = overlaps
  PROVE  Orderly'
<1>1. /\ r \notin DOMAIN call /\ DOMAIN call' = DOMAIN call \cup {r}
      /\ \A q \in DOMAIN call : call'[q] = call[q]
      /\ call'[r].key = k /\ call'[r].step = "lookup" /\ call'[r].gone = FALSE
      /\ record' = record /\ answer' = answer
  BY DEF Send
<1>2. \A q \in DOMAIN call : call[q].key # k
  BY DEF Send, Running, TypeOK
<1>3. OneAtATime'
  BY <1>1, <1>2 DEF Orderly, OneAtATime
<1>4. Undisturbed'
  BY <1>1 DEF Orderly, Undisturbed
<1>5. Kept'
  BY <1>1 DEF Orderly, Kept, Stored, InHand
<1> QED BY <1>3, <1>4, <1>5 DEF Orderly

(* A request that ends before its handler, or with an error, leaves the        *)
(* answers that count as they were, and what is stored.                        *)
LEMMA EndedOrderly ==
  ASSUME TypeOK, Orderly, NEW r \in DOMAIN call, End(r), call[r].step # "save",
         record' = record, \A a \in answer' : a \in answer \/ a.code \notin Final \/ Stored(a)
  PROVE  Orderly'
<1>1. /\ DOMAIN call' = DOMAIN call \ {r}
      /\ \A q \in DOMAIN call' : call'[q] = call[q]
  BY DEF End
<1>2. OneAtATime' /\ Undisturbed'
  BY <1>1 DEF Orderly, OneAtATime, Undisturbed
<1>3. ASSUME NEW a \in answer', a.code \in Final
      PROVE  Stored(a)' \/ \E q \in Call : InHand(a, q)'
  <2>1. Stored(a) \/ \E q \in Call : InHand(a, q)
    BY <1>3 DEF Orderly, Kept
  <2>2. Stored(a) => Stored(a)'
    BY DEF Stored
  <2>3. \A q \in Call : InHand(a, q) => InHand(a, q)'
    BY <1>1 DEF InHand
  <2> QED BY <2>1, <2>2, <2>3
<1> QED BY <1>2, <1>3 DEF Orderly, Kept

LEMMA ReplayOrderly ==
  ASSUME TypeOK, Orderly, NEW r \in Call, Replay(r)
  PROVE  Orderly'
<1>1. /\ r \in DOMAIN call /\ End(r) /\ call[r].step = "lookup" /\ record' = record
      /\ call[r].key \in DOMAIN record
  BY DEF Replay, At
<1>2. \A a \in answer' : a \in answer \/ a.code \notin Final \/ Stored(a)
  BY <1>1 DEF Replay, Reply, Final, Stored
<1> QED BY <1>1, <1>2, EndedOrderly

LEMMA FailOrderly ==
  ASSUME TypeOK, Orderly, NEW r \in Call, Fail(r)
  PROVE  Orderly'
<1>1. /\ r \in DOMAIN call /\ End(r) /\ call[r].step = "handle" /\ record' = record
  BY DEF Fail, At
<1>2. \A a \in answer' : a \in answer \/ a.code \notin Final \/ Stored(a)
  BY DEF Fail, Reply, Final
<1> QED BY <1>1, <1>2, EndedOrderly

LEMMA FirstTimeOrderly ==
  ASSUME TypeOK, Orderly, NEW r \in Call, FirstTime(r)
  PROVE  Orderly'
<1>1. /\ r \in DOMAIN call /\ DOMAIN call' = DOMAIN call
      /\ \A q \in DOMAIN call : q # r => call'[q] = call[q]
      /\ call[r].step = "lookup"
      /\ call'[r].key = call[r].key /\ call'[r].gone = call[r].gone
      /\ call[r].key \notin DOMAIN record
      /\ record' = record /\ answer' = answer
  BY DEF FirstTime, At, TypeOK, Request
<1>2. OneAtATime' /\ Undisturbed'
  BY <1>1 DEF Orderly, OneAtATime, Undisturbed
<1>3. Kept'
  BY <1>1 DEF Orderly, Kept, Stored, InHand
<1> QED BY <1>2, <1>3 DEF Orderly

(* A handler's outcome is the first its key has: nothing is stored for it, and *)
(* nobody else has one in hand.                                                *)
LEMMA CapturedOrderly ==
  ASSUME TypeOK, Orderly, NEW r \in DOMAIN call, call[r].step = "handle", record' = record,
         NEW code \in Final, NEW response, Captured(r, code, response), Reply(r, code, response)
  PROVE  Orderly'
<1>1. /\ DOMAIN call' = DOMAIN call
      /\ \A q \in DOMAIN call : q # r => call'[q] = call[q]
      /\ call'[r].step = "save"
      /\ call'[r].key = call[r].key /\ call'[r].gone = call[r].gone
      /\ call'[r].body = call[r].body
      /\ call'[r].code = code /\ call'[r].response = response
  BY DEF Captured, TypeOK, Request
<1>2. OneAtATime' /\ Undisturbed'
  BY <1>1 DEF Orderly, OneAtATime, Undisturbed
<1>3. ASSUME NEW a \in answer', a.code \in Final
      PROVE  Stored(a)' \/ \E q \in Call : InHand(a, q)'
  <2>1. CASE a \in answer
    <3>1. Stored(a) \/ \E q \in Call : InHand(a, q)
      BY <1>3, <2>1 DEF Orderly, Kept
    <3>2. Stored(a) => Stored(a)'
      BY DEF Stored
    <3>3. \A q \in Call : InHand(a, q) => InHand(a, q)'
      BY <1>1 DEF InHand
    <3> QED BY <3>1, <3>2, <3>3
  <2>2. CASE a \notin answer
    <3>1. /\ a.key = call[r].key /\ a.body = call[r].body
          /\ a.code = code /\ a.response = response
      BY <2>2 DEF Reply
    <3>2. InHand(a, r)' /\ r \in Call
      BY <1>1, <3>1 DEF InHand, TypeOK
    <3> QED BY <3>2
  <2> QED BY <2>1, <2>2
<1> QED BY <1>2, <1>3 DEF Orderly, Kept

LEMMA SaveOrderly ==
  ASSUME TypeOK, Orderly, NEW r \in Call, Save(r)
  PROVE  Orderly'
<1> DEFINE k == call[r].key
<1>1. /\ r \in DOMAIN call /\ call[r].step = "save"
      /\ ~call[r].gone /\ k \notin DOMAIN record
  BY DEF Save, At, Orderly, Undisturbed
<1>2. /\ DOMAIN call' = DOMAIN call \ {r}
      /\ \A q \in DOMAIN call' : call'[q] = call[q]
      /\ DOMAIN record' = DOMAIN record \cup {k}
      /\ \A j \in DOMAIN record : record'[j] = record[j]
      /\ record'[k].body = call[r].body /\ record'[k].code = call[r].code
      /\ record'[k].response = call[r].response
      /\ answer' = answer
  BY <1>1 DEF Save, End, Store
<1>3. OneAtATime'
  BY <1>2 DEF Orderly, OneAtATime
<1>4. Undisturbed'
  <2>1. \A q \in DOMAIN call' : call[q].key # k
    BY <1>1, <1>2 DEF Orderly, OneAtATime
  <2> QED BY <1>2, <2>1 DEF Orderly, Undisturbed
<1>5. ASSUME NEW a \in answer', a.code \in Final
      PROVE  Stored(a)' \/ \E q \in Call : InHand(a, q)'
  <2>1. Stored(a) \/ \E q \in Call : InHand(a, q)
    BY <1>2, <1>5 DEF Orderly, Kept
  <2>2. Stored(a) => Stored(a)'
    BY <1>2 DEF Stored
  <2>3. InHand(a, r) => Stored(a)'
    BY <1>2 DEF InHand, Stored
  <2>4. \A q \in Call : q # r /\ InHand(a, q) => InHand(a, q)'
    BY <1>2 DEF InHand
  <2> QED BY <2>1, <2>2, <2>3, <2>4
<1> QED BY <1>3, <1>4, <1>5 DEF Orderly, Kept

LEMMA NextOrderly == IInv /\ IInv' /\ OrderlyInv /\ [Next]_vars => OrderlyInv'
<1> SUFFICES ASSUME IInv, IInv', OrderlyInv, [Next]_vars, faults' = 0, overlaps' = 0
             PROVE  Orderly'
  BY DEF OrderlyInv
<1>1. TypeOK /\ faults \in Nat /\ overlaps \in Nat
  BY IdempotencyAssumption DEF IInv, TypeOK
<1>2. faults = 0 /\ overlaps = 0
  <2>1. CASE UNCHANGED vars
    BY <2>1 DEF vars
  <2>2. CASE Next
    <3>1. faults' = faults \/ faults' = faults + 1
      BY <2>2 DEF Next, Send, Replay, FirstTime, LookupFails, Succeed, Refuse, Fail,
                  FailHalfway, Save, Disconnect, Crash
    <3>2. overlaps' = overlaps \/ overlaps' = overlaps + 1
      BY <2>2 DEF Next, Send, Replay, FirstTime, LookupFails, Succeed, Refuse, Fail,
                  FailHalfway, Save, Disconnect, Crash
    <3> QED BY <1>1, <3>1, <3>2
  <2> QED BY <2>1, <2>2
<1>3. Orderly /\ OneAtATime /\ Undisturbed
  BY <1>2 DEF OrderlyInv, Orderly
<1>4. CASE UNCHANGED vars
  BY <1>3, <1>4 DEF vars, Orderly, OneAtATime, Undisturbed, Kept, Stored, InHand
<1>5. ASSUME NEW r \in Call, NEW k \in Key, NEW b \in Body, Send(r, k, b)
      PROVE  Orderly'
  BY <1>1, <1>2, <1>3, <1>5, SendOrderly
<1>6. ASSUME NEW r \in Call,
             \/ Replay(r) \/ FirstTime(r) \/ LookupFails(r)
             \/ Succeed(r) \/ Refuse(r) \/ Fail(r) \/ FailHalfway(r)
             \/ Save(r)
             \/ Disconnect(r)
      PROVE  Orderly'
  <2>1. ~LookupFails(r) /\ ~FailHalfway(r) /\ ~Disconnect(r)
    <3>1. r \in DOMAIN call => ~call[r].gone
      BY <1>3 DEF Undisturbed
    <3> QED BY <1>2, <3>1 DEF LookupFails, FailHalfway, Disconnect, At
  <2>2. CASE Succeed(r)
    <3>1. /\ r \in DOMAIN call /\ call[r].step = "handle" /\ record' = record /\ "ok" \in Final
          /\ Captured(r, "ok", Len(effect')) /\ Reply(r, "ok", Len(effect'))
      BY <2>2 DEF Succeed, At, Final
    <3> QED BY <1>1, <1>3, <3>1, CapturedOrderly
  <2>3. CASE Refuse(r)
    <3>1. /\ r \in DOMAIN call /\ call[r].step = "handle" /\ record' = record
          /\ "refused" \in Final
          /\ Captured(r, "refused", NoEffect) /\ Reply(r, "refused", NoEffect)
      BY <2>3 DEF Refuse, At, Final
    <3> QED BY <1>1, <1>3, <3>1, CapturedOrderly
  <2> QED BY <1>1, <1>3, <1>6, <2>1, <2>2, <2>3, ReplayOrderly, FirstTimeOrderly,
             FailOrderly, SaveOrderly
<1>7. ~Crash
  BY <1>1, <1>2 DEF Crash
<1> QED BY <1>4, <1>5, <1>6, <1>7 DEF Next

LEMMA InitOrderly == Init => OrderlyInv
BY DEF Init, OrderlyInv, Orderly, OneAtATime, Undisturbed, Kept

(* Two answers that count, to one request under one key, are both the record,  *)
(* or both what one request has in hand.                                       *)
LEMMA OrderlyAgree ==
  ASSUME TypeOK, OrderlyInv
  PROVE  AnswersAgree
<1> SUFFICES ASSUME faults = 0, overlaps = 0, NEW a \in answer, NEW b \in answer,
                    a.key = b.key, a.body = b.body, a.code \in Final, b.code \in Final
             PROVE  a = b
  BY DEF AnswersAgree, Final
<1>1. Orderly
  BY DEF OrderlyInv
<1>2. /\ Stored(a) \/ \E r \in Call : InHand(a, r)
      /\ Stored(b) \/ \E r \in Call : InHand(b, r)
  BY <1>1 DEF Orderly, Kept
<1>3. \A r \in Call : /\ InHand(a, r) => ~Stored(b)
                      /\ InHand(b, r) => ~Stored(a)
  BY <1>1 DEF Orderly, Undisturbed, InHand, Stored
<1>4. \A q, r \in Call : InHand(a, q) /\ InHand(b, r) => q = r
  BY <1>1 DEF Orderly, OneAtATime, InHand
<1>5. a.code = b.code /\ a.response = b.response
  BY <1>2, <1>3, <1>4 DEF InHand, Stored
<1>6. a \in Answer /\ b \in Answer
  BY DEF TypeOK
<1> QED BY <1>5, <1>6 DEF Answer

(* A client that waits for its answers, of a server where nothing is cut off,  *)
(* is told one outcome for a request however often it sends it                 *)
(* (idempotency.go:14-16).                                                     *)
THEOREM AnswersAgreeHolds == Spec => []AnswersAgree
<1>1. Init => OrderlyInv
  BY InitOrderly
<1>2. IInv /\ IInv' /\ OrderlyInv /\ [Next]_vars => OrderlyInv'
  BY NextOrderly
<1>3. IInv /\ OrderlyInv => AnswersAgree
  BY OrderlyAgree DEF IInv
<1> QED BY IInvHolds, <1>1, <1>2, <1>3, PTL DEF Spec
=============================================================================
