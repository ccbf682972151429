---------------------------- MODULE SessionsProofs ----------------------------
(***************************************************************************)
(* Tokens and sign-outs, for any number of tabs, calls, refresh tokens,     *)
(* overlaps and faults.                                                     *)
(***************************************************************************)
EXTENDS Sessions, FiniteSetTheorems, TLAPS

USE DEF NoToken

(* Call c goes on to a step, ends, or begins as p.                            *)
Moved(c, step) ==
  /\ c \in DOMAIN call
  /\ DOMAIN call' = DOMAIN call
  /\ \A d \in DOMAIN call : d # c => call'[d] = call[d]
  /\ call'[c].step = step
  /\ call'[c].kind = call[c].kind /\ call'[c].tab = call[c].tab
  /\ call'[c].gone = call[c].gone

Ended(c) ==
  /\ c \in DOMAIN call
  /\ DOMAIN call' = DOMAIN call \ {c}
  /\ \A d \in DOMAIN call' : call'[d] = call[d]

Began(c, p) ==
  /\ c \notin DOMAIN call
  /\ DOMAIN call' = DOMAIN call \cup {c}
  /\ \A d \in DOMAIN call : call'[d] = call[d]
  /\ call'[c] = p

LEMMA GotoMoves ==
  ASSUME TypeOK, NEW c \in DOMAIN call, NEW step, Goto(c, step)
  PROVE  /\ Moved(c, step)
         /\ call'[c].used = call[c].used /\ call'[c].fresh = call[c].fresh
BY DEF TypeOK, Pending, Goto, Moved

LEMMA EndEnds ==
  ASSUME NEW c \in DOMAIN call, End(c)
  PROVE  Ended(c)
BY DEF End, Ended

LEMMA PutBegins ==
  ASSUME NEW c, c \notin DOMAIN call, NEW p, Put(c, p, call)
  PROVE  Began(c, p)
BY DEF Put, Began

----------------------------------------------------------------------------
(* Types. *)
Typed(calls, tokens) ==
  /\ DOMAIN calls \subseteq Call
  /\ \A c \in DOMAIN calls :
       /\ calls[c] \in Pending
       /\ calls[c].step \in {"lookup", "revoke", "logout"} => calls[c].used \in DOMAIN tokens
       /\ calls[c].step = "adopt" => calls[c].fresh \in DOMAIN tokens

Counters == overlaps \in 0..MaxOverlaps /\ faults \in 0..MaxFaults

LEMMA OverlapCounts ==
  ASSUME Counters, NEW t, Overlap(t)
  PROVE  overlaps' \in 0..MaxOverlaps
BY SessionsAssumption DEF Counters, Overlap

LEMMA FaultCounts ==
  ASSUME Counters, Fault
  PROVE  faults' \in 0..MaxFaults
BY SessionsAssumption DEF Counters, Fault

LEMMA NewTyped ==
  ASSUME NEW b \in Tab, NEW used \in TokenId \cup {NoToken},
         NEW kind \in {"request", "resume", "login", "logout"},
         NEW step \in {"unauthorized", "lookup", "issue", "logout", "clear"}
  PROVE  New(kind, step, b, used) \in Pending
BY DEF New, Pending

LEMMA BeganTyped ==
  ASSUME TypeOK, NEW c \in Call, NEW p \in Pending, Began(c, p), token' = token,
         p.step \in {"lookup", "revoke", "logout"} => p.used \in DOMAIN token,
         p.step # "adopt"
  PROVE  Typed(call', token')
BY DEF TypeOK, Began, Typed

LEMMA EndedTyped ==
  ASSUME TypeOK, NEW c, Ended(c), DOMAIN token \subseteq DOMAIN token'
  PROVE  Typed(call', token')
BY DEF TypeOK, Ended, Typed

LEMMA TypedAgain ==
  ASSUME Typed(call', token'), Counters',
         DOMAIN token' \subseteq TokenId,
         \A t \in DOMAIN token' : token'[t] \in RefreshToken,
         stored' \in DOMAIN token' \cup {NoToken},
         access' \in [Tab -> {"none", "live", "expired"}],
         session' \in [Tab -> BOOLEAN],
         signedOut' \subseteq TokenId
  PROVE  TypeOK'
BY DEF TypeOK, Typed, Counters

LEMMA LoginTypes ==
  ASSUME TypeOK, NEW c \in Call, NEW b \in Tab, Login(c, b)
  PROVE  TypeOK'
<1>1. Typed(call', token')
  BY PutBegins, NewTyped, BeganTyped DEF Login, New, TypeOK
<1> QED BY <1>1, TypedAgain DEF Login, TypeOK, Counters

LEMMA UnauthorizedTypes ==
  ASSUME TypeOK, NEW c \in Call, NEW b \in Tab, Unauthorized(c, b)
  PROVE  TypeOK'
<1>1. Typed(call', token')
  BY PutBegins, NewTyped, BeganTyped DEF Unauthorized, New, TypeOK
<1> QED BY <1>1, TypedAgain DEF Unauthorized, TypeOK, Counters

LEMMA LogoutTypes ==
  ASSUME TypeOK, NEW c \in Call, NEW b \in Tab, Logout(c, b)
  PROVE  TypeOK'
<1> DEFINE p == New("logout", IF stored = NoToken THEN "clear" ELSE "logout", b, stored)
<1>1. p \in Pending
  BY NewTyped DEF TypeOK
<1>2. /\ p.step \in {"lookup", "revoke", "logout"} => p.used \in DOMAIN token
      /\ p.step # "adopt"
  BY DEF New, TypeOK
<1>3. Began(c, p) /\ token' = token
  BY PutBegins DEF Logout
<1>4. Typed(call', token')
  <2> HIDE DEF p
  <2> QED BY <1>1, <1>2, <1>3, BeganTyped
<1>5. Counters'
  BY OverlapCounts DEF Logout, TypeOK, Counters
<1> QED BY <1>4, <1>5, TypedAgain DEF Logout, TypeOK

(* What a reload does to the calls of its tab. *)
Reloaded(b, calls) ==
  /\ DOMAIN calls =
       DOMAIN call \ {d \in DOMAIN call : call[d].tab = b /\ call[d].step \in {"unauthorized", "clear"}}
  /\ \A d \in DOMAIN calls :
       /\ calls[d] \in Pending
       /\ calls[d].kind = call[d].kind /\ calls[d].step = call[d].step
       /\ calls[d].tab = call[d].tab
       /\ calls[d].used = call[d].used /\ calls[d].fresh = call[d].fresh
       /\ calls[d].gone = (call[d].gone \/ call[d].tab = b)

LEMMA OrphanedReloads ==
  ASSUME TypeOK, NEW b \in Tab
  PROVE  Reloaded(b, Orphaned(b))
BY DEF TypeOK, Pending, Orphaned, Reloaded

LEMMA ReloadCalls ==
  ASSUME TypeOK, NEW c \in Call, NEW b \in Tab, Reload(c, b)
  PROVE  /\ c \notin DOMAIN call
         /\ \/ stored = NoToken /\ overlaps' = overlaps /\ Reloaded(b, call')
            \/ /\ stored # NoToken /\ Overlap(stored)
               /\ \E calls :
                    /\ Reloaded(b, calls)
                    /\ DOMAIN call' = DOMAIN calls \cup {c}
                    /\ \A d \in DOMAIN calls : call'[d] = calls[d]
                    /\ call'[c] = New("resume", "lookup", b, stored)
<1>1. Reloaded(b, Orphaned(b)) /\ c \notin DOMAIN call
  BY OrphanedReloads DEF Reload
<1>2. CASE stored = NoToken
  BY <1>1, <1>2 DEF Reload
<1>3. CASE stored # NoToken
  <2>1. c \notin DOMAIN Orphaned(b)
    BY <1>1 DEF Reloaded
  <2>2. /\ DOMAIN call' = DOMAIN Orphaned(b) \cup {c}
        /\ \A d \in DOMAIN Orphaned(b) : call'[d] = Orphaned(b)[d]
        /\ call'[c] = New("resume", "lookup", b, stored)
        /\ Overlap(stored)
    BY <1>3, <2>1 DEF Reload, Put
  <2> QED BY <1>1, <1>3, <2>2
<1> QED BY <1>2, <1>3

LEMMA ReloadTypes ==
  ASSUME TypeOK, NEW c \in Call, NEW b \in Tab, Reload(c, b)
  PROVE  TypeOK'
<1>1. ASSUME NEW calls, Reloaded(b, calls) PROVE Typed(calls, token)
  BY <1>1 DEF Reloaded, TypeOK, Typed
<1>2. token' = token
  BY DEF Reload
<1>3. Typed(call', token') /\ overlaps' \in 0..MaxOverlaps
  <2>1. CASE stored = NoToken /\ overlaps' = overlaps /\ Reloaded(b, call')
    BY <1>1, <1>2, <2>1 DEF TypeOK
  <2>2. ASSUME stored # NoToken, Overlap(stored), NEW calls, Reloaded(b, calls),
               DOMAIN call' = DOMAIN calls \cup {c},
               \A d \in DOMAIN calls : call'[d] = calls[d],
               call'[c] = New("resume", "lookup", b, stored)
        PROVE  Typed(call', token') /\ overlaps' \in 0..MaxOverlaps
    <3>1. /\ call'[c] \in Pending /\ call'[c].step = "lookup"
          /\ call'[c].used \in DOMAIN token
      <4>1. stored \in TokenId \cup {NoToken} /\ stored \in DOMAIN token
        BY <2>2 DEF TypeOK
      <4>2. New("resume", "lookup", b, stored) \in Pending
        BY <4>1, NewTyped
      <4> QED BY <2>2, <4>1, <4>2 DEF New
    <3>2. Typed(call', token')
      BY <1>1, <1>2, <2>2, <3>1 DEF Typed
    <3> QED BY <2>2, <3>2, OverlapCounts DEF TypeOK, Counters
  <2> QED BY <2>1, <2>2, ReloadCalls
<1>4. Counters'
  BY <1>3 DEF Counters, Reload, TypeOK
<1> QED BY <1>3, <1>4, TypedAgain DEF Reload, TypeOK

LEMMA TryRefreshCalls ==
  ASSUME TypeOK, NEW c \in Call, TryRefresh(c)
  PROVE  /\ call[c].step = "unauthorized"
         /\ \/ stored = NoToken /\ overlaps' = overlaps /\ Ended(c)
            \/ /\ stored # NoToken /\ Overlap(stored) /\ Moved(c, "lookup")
               /\ call'[c] \in Pending
               /\ call'[c].used = stored /\ call'[c].fresh = call[c].fresh
<1>1. c \in DOMAIN call /\ call[c] \in Pending /\ call[c].step = "unauthorized"
  BY DEF TryRefresh, At, TypeOK
<1>2. CASE stored = NoToken
  BY <1>1, <1>2, EndEnds DEF TryRefresh
<1>3. CASE stored # NoToken
  <2>1. /\ call' = [call EXCEPT ![c].step = "lookup", ![c].used = stored]
        /\ Overlap(stored) /\ stored \in TokenId
    BY <1>3 DEF TryRefresh, TypeOK
  <2>2. /\ DOMAIN call' = DOMAIN call
        /\ \A d \in DOMAIN call : d # c => call'[d] = call[d]
        /\ call'[c] = [call[c] EXCEPT !.step = "lookup", !.used = stored]
    BY <1>1, <2>1
  <2>3. /\ call'[c] \in Pending
        /\ call'[c].step = "lookup" /\ call'[c].used = stored
        /\ call'[c].kind = call[c].kind /\ call'[c].tab = call[c].tab
        /\ call'[c].gone = call[c].gone /\ call'[c].fresh = call[c].fresh
    BY <1>1, <2>1, <2>2 DEF Pending
  <2> QED BY <1>1, <1>3, <2>1, <2>2, <2>3 DEF Moved
<1> QED BY <1>1, <1>2, <1>3

LEMMA TryRefreshTypes ==
  ASSUME TypeOK, NEW c \in Call, TryRefresh(c)
  PROVE  TypeOK'
<1>1. Typed(call', token') /\ overlaps' \in 0..MaxOverlaps
  <2>1. CASE stored = NoToken /\ overlaps' = overlaps /\ Ended(c)
    BY <2>1, EndedTyped DEF TryRefresh, TypeOK
  <2>2. CASE /\ stored # NoToken /\ Overlap(stored) /\ Moved(c, "lookup")
             /\ call'[c] \in Pending /\ call'[c].used = stored
    <3>1. Typed(call', token')
      BY <2>2 DEF TryRefresh, TypeOK, Moved, Typed
    <3> QED BY <2>2, <3>1, OverlapCounts DEF TypeOK, Counters
  <2> QED BY <2>1, <2>2, TryRefreshCalls
<1> QED BY <1>1, TypedAgain DEF TryRefresh, TypeOK, Counters

LEMMA AdoptTypes ==
  ASSUME TypeOK, NEW c \in Call, Adopt(c)
  PROVE  TypeOK'
<1>1. c \in DOMAIN call /\ call[c] \in Pending /\ call[c].fresh \in DOMAIN token
  BY DEF Adopt, At, TypeOK
<1>2. Typed(call', token')
  BY <1>1, EndEnds, EndedTyped DEF Adopt
<1>3. /\ access' \in [Tab -> {"none", "live", "expired"}]
      /\ session' \in [Tab -> BOOLEAN]
  BY <1>1 DEF Adopt, TypeOK
<1> QED BY <1>1, <1>2, <1>3, TypedAgain DEF Adopt, TypeOK, Counters

LEMMA DropTokensTypes ==
  ASSUME TypeOK, NEW c \in Call, DropTokens(c)
  PROVE  TypeOK'
<1>1. c \in DOMAIN call
  BY DEF DropTokens, At
<1>2. Typed(call', token')
  BY <1>1, EndEnds, EndedTyped DEF DropTokens
<1>3. /\ access' \in [Tab -> {"none", "live", "expired"}]
      /\ stored' \in DOMAIN token \cup {NoToken}
  BY DEF DropTokens, TypeOK
<1> QED BY <1>2, <1>3, TypedAgain DEF DropTokens, TypeOK, Counters

LEMMA LoseAnswerTypes ==
  ASSUME TypeOK, NEW c \in Call, LoseAnswer(c)
  PROVE  TypeOK'
<1>1. c \in DOMAIN call
  BY DEF LoseAnswer, At
<1>2. Typed(call', token')
  BY <1>1, EndEnds, EndedTyped DEF LoseAnswer
<1>3. Counters'
  BY FaultCounts DEF LoseAnswer, Counters, TypeOK
<1> QED BY <1>2, <1>3, TypedAgain DEF LoseAnswer, TypeOK

LEMMA ClearTokensTypes ==
  ASSUME TypeOK, NEW c \in Call, ClearTokens(c)
  PROVE  TypeOK'
<1>1. c \in DOMAIN call
  BY DEF ClearTokens, At
<1>2. Typed(call', token')
  BY <1>1, EndEnds, EndedTyped DEF ClearTokens
<1>3. /\ access' \in [Tab -> {"none", "live", "expired"}]
      /\ session' \in [Tab -> BOOLEAN]
  BY DEF ClearTokens, TypeOK
<1> QED BY <1>2, <1>3, TypedAgain DEF ClearTokens, TypeOK, Counters

(* A step at the server that only changes where a call is, and some token. *)
LEMMA MovedTyped ==
  ASSUME TypeOK, NEW c, NEW step \in {"revoke", "issue", "refused", "clear"}, Goto(c, step),
         c \in DOMAIN call,
         step = "revoke" => call[c].used \in DOMAIN token, DOMAIN token' = DOMAIN token
  PROVE  Typed(call', token')
BY DEF TypeOK, Goto, Typed, Pending

LEMMA LookupTypes ==
  ASSUME TypeOK, NEW c \in Call, Lookup(c)
  PROVE  TypeOK'
<1>1. c \in DOMAIN call /\ call[c].used \in DOMAIN token
  BY DEF Lookup, At, TypeOK
<1>2. token' = token /\ (Goto(c, "revoke") \/ Goto(c, "refused"))
  BY DEF Lookup
<1>3. Typed(call', token')
  BY <1>1, <1>2, MovedTyped
<1>4. Counters'
  BY FaultCounts DEF Lookup, Counters, TypeOK
<1> QED BY <1>3, <1>4, TypedAgain DEF Lookup, TypeOK

LEMMA RevokedTypes ==
  ASSUME TypeOK, NEW t \in DOMAIN token, RevokeRefreshToken(t)
  PROVE  /\ DOMAIN token' = DOMAIN token
         /\ \A u \in DOMAIN token' : token'[u] \in RefreshToken
         /\ \A u \in DOMAIN token : token'[u].login = token[u].login
         /\ \A u \in DOMAIN token : u # t => token'[u] = token[u]
         /\ token'[t].state = "revoked"
BY DEF TypeOK, RevokeRefreshToken, RefreshToken

LEMMA RotateTypes ==
  ASSUME TypeOK, NEW c \in Call, Rotate(c)
  PROVE  TypeOK'
<1>1. c \in DOMAIN call /\ call[c].used \in DOMAIN token /\ Goto(c, "issue")
  BY DEF Rotate, At, TypeOK
<1>2. DOMAIN token' = DOMAIN token /\ \A u \in DOMAIN token' : token'[u] \in RefreshToken
  BY <1>1, RevokedTypes DEF Rotate, TypeOK
<1>3. Typed(call', token')
  BY <1>1, <1>2, MovedTyped
<1>4. Counters'
  BY FaultCounts DEF Rotate, Counters, TypeOK
<1> QED BY <1>2, <1>3, <1>4, TypedAgain DEF Rotate, TypeOK

LEMMA LogoutRevokesTypes ==
  ASSUME TypeOK, NEW c \in Call, LogoutRevokes(c)
  PROVE  TypeOK'
<1>1. c \in DOMAIN call /\ call[c].used \in DOMAIN token /\ (End(c) \/ Goto(c, "clear"))
  BY DEF LogoutRevokes, At, TypeOK
<1>2. DOMAIN token' = DOMAIN token /\ \A u \in DOMAIN token' : token'[u] \in RefreshToken
  BY <1>1, RevokedTypes DEF LogoutRevokes, TypeOK
<1>3. Typed(call', token')
  BY <1>1, <1>2, MovedTyped, EndEnds, EndedTyped
<1>4. Counters'
  BY FaultCounts DEF LogoutRevokes, Counters, TypeOK
<1>5. signedOut' \subseteq TokenId
  BY <1>1 DEF LogoutRevokes, TypeOK, RefreshToken
<1> QED BY <1>2, <1>3, <1>4, <1>5, TypedAgain DEF LogoutRevokes, TypeOK

(* A login starts a chain, a refresh goes on with that of its token. *)
LoginOf(c, t) == IF call[c].used = NoToken THEN t ELSE token[call[c].used].login

Issued(c, t) ==
  /\ t \in TokenId \ DOMAIN token
  /\ DOMAIN token' = DOMAIN token \cup {t}
  /\ \A u \in DOMAIN token : token'[u] = token[u]
  /\ token'[t] = [state |-> "live", login |-> LoginOf(c, t)]
  /\ Moved(c, "adopt") /\ call'[c] \in Pending
  /\ call'[c].used = call[c].used /\ call'[c].fresh = t

LEMMA IssueCalls ==
  ASSUME TypeOK, NEW c \in Call, IssueTokens(c)
  PROVE  /\ c \in DOMAIN call /\ call[c].step = "issue"
         /\ \/ faults' = faults /\ \E t \in TokenId : Issued(c, t)
            \/ /\ Fault /\ token' = token /\ Goto(c, "refused")
               /\ Moved(c, "refused") /\ call'[c].used = call[c].used
<1>1. c \in DOMAIN call /\ call[c].step = "issue" /\ call[c] \in Pending
  BY DEF IssueTokens, At, TypeOK
<1>2. CASE Fault /\ Goto(c, "refused") /\ UNCHANGED token
  BY <1>1, <1>2, GotoMoves
<1>3. ASSUME NEW t \in FreshToken,
             token' = [u \in DOMAIN token \cup {t} |->
                        IF u = t
                        THEN [state |-> "live",
                              login |-> IF call[c].used = NoToken
                                        THEN t ELSE token[call[c].used].login]
                        ELSE token[u]],
             call' = [call EXCEPT ![c].step = "adopt", ![c].fresh = t]
      PROVE  Issued(c, t)
  <2>1. t \in TokenId \ DOMAIN token
    BY DEF FreshToken
  <2>2. Moved(c, "adopt") /\ call'[c].used = call[c].used /\ call'[c].fresh = t
             /\ call'[c] \in Pending
    BY <1>1, <1>3, <2>1 DEF Moved, TypeOK, Pending
  <2> QED BY <1>3, <2>1, <2>2 DEF Issued, LoginOf
<1> QED BY <1>1, <1>2, <1>3 DEF IssueTokens, Issued


----------------------------------------------------------------------------
(* What fits together: a call uses a token that was issued, a chain of tokens  *)
(* goes back to one, and a token on its way to a tab is new to the browser.    *)
FreshIsNew(c) ==
  /\ call[c].fresh # stored
  /\ token[call[c].fresh].state # "revoked"
  /\ \A d \in DOMAIN call :
       /\ call[d].used # call[c].fresh
       /\ call[d].step = "adopt" /\ call[d].fresh = call[c].fresh => d = c

UsedIsKnown(c) ==
  /\ call[c].used \in DOMAIN token \cup {NoToken}
  /\ call[c].step = "unauthorized" => call[c].used = NoToken /\ call[c].kind = "request"
  /\ call[c].kind = "login" => call[c].used = NoToken

Fits ==
  /\ IsFiniteSet(DOMAIN token) /\ IsFiniteSet(DOMAIN call)
  /\ signedOut \subseteq DOMAIN token
  /\ \A t \in DOMAIN token : token[t].login \in DOMAIN token
  /\ \A c \in DOMAIN call :
       /\ UsedIsKnown(c)
       /\ call[c].step = "adopt" => FreshIsNew(c)

LEMMA IssueTypes ==
  ASSUME TypeOK, Fits, NEW c \in Call, IssueTokens(c)
  PROVE  TypeOK'
<1>1. c \in DOMAIN call /\ call[c] \in Pending
  BY DEF IssueTokens, At, TypeOK
<1>2. CASE Fault /\ token' = token /\ Goto(c, "refused")
  <2>1. Typed(call', token')
    BY <1>1, <1>2, MovedTyped
  <2> QED BY <1>2, <2>1, FaultCounts, TypedAgain DEF IssueTokens, TypeOK, Counters
<1>3. ASSUME faults' = faults, NEW t \in TokenId, Issued(c, t)
      PROVE  TypeOK'
  <2>1. LoginOf(c, t) \in TokenId
    BY <1>1 DEF LoginOf, Fits, UsedIsKnown, TypeOK, RefreshToken
  <2>2. /\ DOMAIN token' \subseteq TokenId
        /\ \A u \in DOMAIN token' : token'[u] \in RefreshToken
    BY <1>3, <2>1 DEF Issued, TypeOK, RefreshToken
  <2>3. Typed(call', token')
    BY <1>3 DEF Issued, Moved, TypeOK, Typed
  <2> QED BY <1>3, <2>2, <2>3, TypedAgain DEF IssueTokens, TypeOK, Counters
<1> QED BY <1>2, <1>3, IssueCalls

LEMMA NextTypes ==
  ASSUME TypeOK, Fits, [Next]_vars
  PROVE  TypeOK'
<1>1. CASE UNCHANGED vars
  BY <1>1 DEF vars, TypeOK
<1>2. ASSUME NEW b \in Tab, AccessExpires(b) PROVE TypeOK'
  BY <1>2 DEF AccessExpires, TypeOK
<1>3. ASSUME NEW t \in DOMAIN token, RefreshExpires(t) PROVE TypeOK'
  BY <1>3 DEF RefreshExpires, TypeOK, RefreshToken
<1>4. CASE \E c \in Call, b \in Tab :
             Login(c, b) \/ Unauthorized(c, b) \/ Reload(c, b) \/ Logout(c, b)
  BY <1>4, LoginTypes, UnauthorizedTypes, ReloadTypes, LogoutTypes
<1>5. CASE \E c \in Call :
             \/ TryRefresh(c) \/ Lookup(c) \/ Rotate(c) \/ IssueTokens(c)
             \/ Adopt(c) \/ DropTokens(c) \/ LoseAnswer(c)
             \/ LogoutRevokes(c) \/ ClearTokens(c)
  BY <1>5, TryRefreshTypes, LookupTypes, RotateTypes, IssueTypes, AdoptTypes,
     DropTokensTypes, LoseAnswerTypes, LogoutRevokesTypes, ClearTokensTypes
<1> QED BY <1>1, <1>2, <1>3, <1>4, <1>5 DEF Next

----------------------------------------------------------------------------
(* The steps keep it fitting. *)
LEMMA LoginFits ==
  ASSUME TypeOK, Fits, NEW c \in Call, NEW b \in Tab, Login(c, b)
  PROVE  Fits'
<1>1. Began(c, New("login", "issue", b, NoToken))
  BY PutBegins DEF Login
<1>2. /\ token' = token /\ stored' = stored /\ signedOut' = signedOut
      /\ call'[c].used = NoToken /\ call'[c].step = "issue"
  BY <1>1 DEF Login, Began, New
<1>3. IsFiniteSet(DOMAIN call')
  BY <1>1, FS_AddElement DEF Began, Fits
<1>4. \A d \in DOMAIN call' : UsedIsKnown(d)'
  BY <1>1, <1>2 DEF Began, Fits, UsedIsKnown
<1>5. \A d \in DOMAIN call' : call'[d].step = "adopt" => FreshIsNew(d)'
  BY <1>1, <1>2, SessionsAssumption DEF Began, Fits, FreshIsNew, TypeOK
<1> QED BY <1>2, <1>3, <1>4, <1>5 DEF Fits

LEMMA UnauthorizedFits ==
  ASSUME TypeOK, Fits, NEW c \in Call, NEW b \in Tab, Unauthorized(c, b)
  PROVE  Fits'
<1>1. Began(c, New("request", "unauthorized", b, NoToken))
  BY PutBegins DEF Unauthorized
<1>2. /\ token' = token /\ stored' = stored /\ signedOut' = signedOut
      /\ call'[c].used = NoToken /\ call'[c].step = "unauthorized"
      /\ call'[c].kind = "request"
  BY <1>1 DEF Unauthorized, Began, New
<1>3. IsFiniteSet(DOMAIN call')
  BY <1>1, FS_AddElement DEF Began, Fits
<1>4. \A d \in DOMAIN call' : UsedIsKnown(d)'
  BY <1>1, <1>2 DEF Began, Fits, UsedIsKnown
<1>5. \A d \in DOMAIN call' : call'[d].step = "adopt" => FreshIsNew(d)'
  BY <1>1, <1>2, SessionsAssumption DEF Began, Fits, FreshIsNew, TypeOK
<1> QED BY <1>2, <1>3, <1>4, <1>5 DEF Fits

LEMMA LogoutFits ==
  ASSUME TypeOK, Fits, NEW c \in Call, NEW b \in Tab, Logout(c, b)
  PROVE  Fits'
<1>1. Began(c, New("logout", IF stored = NoToken THEN "clear" ELSE "logout", b, stored))
  BY PutBegins DEF Logout
<1>2. /\ token' = token /\ stored' = stored /\ signedOut' = signedOut
      /\ call'[c].used = stored /\ call'[c].step \in {"clear", "logout"}
      /\ call'[c].kind = "logout"
  BY <1>1 DEF Logout, Began, New
<1>3. IsFiniteSet(DOMAIN call')
  BY <1>1, FS_AddElement DEF Began, Fits
<1>4. \A d \in DOMAIN call' : UsedIsKnown(d)'
  BY <1>1, <1>2 DEF Began, Fits, UsedIsKnown, TypeOK
<1>5. \A d \in DOMAIN call' : call'[d].step = "adopt" => FreshIsNew(d)'
  BY <1>1, <1>2 DEF Began, Fits, FreshIsNew
<1> QED BY <1>2, <1>3, <1>4, <1>5 DEF Fits

(* Calls that keep what they use and bring, and no token that changes. *)
SameBurden(calls) ==
  \A d \in DOMAIN calls :
    /\ d \in DOMAIN call
    /\ calls[d].used = call[d].used /\ calls[d].fresh = call[d].fresh
    /\ calls[d].kind = call[d].kind
    /\ calls[d].step = "unauthorized" => call[d].step = "unauthorized"
    /\ calls[d].step = "adopt" => call[d].step = "adopt"

(* Tokens keep their chain, and only one that is in use is revoked. *)
Ages(tokens) ==
  /\ DOMAIN tokens = DOMAIN token
  /\ \A t \in DOMAIN token :
       /\ tokens[t].login = token[t].login
       /\ tokens[t].state = "revoked" =>
            token[t].state = "revoked" \/ \E d \in DOMAIN call : call[d].used = t

LEMMA SameBurdenFits ==
  ASSUME TypeOK, Fits, SameBurden(call'), Ages(token'), signedOut' \subseteq DOMAIN token,
         \/ stored' = stored \/ stored' = NoToken
         \/ \A d \in DOMAIN call' : call'[d].step = "adopt" => call'[d].fresh # stored'
  PROVE  Fits'
<1>1. IsFiniteSet(DOMAIN call')
  BY FS_Subset DEF SameBurden, Fits
<1>2. \A d \in DOMAIN call' : UsedIsKnown(d)'
  BY DEF SameBurden, Ages, Fits, UsedIsKnown
<1>3. ASSUME NEW d \in DOMAIN call', call'[d].step = "adopt"
      PROVE  FreshIsNew(d)'
  <2>1. /\ d \in DOMAIN call /\ call[d].step = "adopt" /\ call'[d].fresh = call[d].fresh
        /\ FreshIsNew(d) /\ call[d].fresh \in DOMAIN token /\ call[d].fresh \in TokenId
    BY <1>3 DEF SameBurden, Fits, TypeOK
  <2>2. call'[d].fresh # stored'
    BY <1>3, <2>1, SessionsAssumption DEF FreshIsNew
  <2>3. token'[call'[d].fresh].state # "revoked"
    BY <1>3, <2>1 DEF FreshIsNew, Ages, TypeOK
  <2> QED BY <1>3, <2>1, <2>2, <2>3 DEF FreshIsNew, SameBurden
<1>4. \A t \in DOMAIN token' : token'[t].login \in DOMAIN token'
  BY DEF Ages, Fits
<1>5. IsFiniteSet(DOMAIN token') /\ signedOut' \subseteq DOMAIN token'
  BY DEF Ages, Fits
<1> QED BY <1>1, <1>2, <1>3, <1>4, <1>5 DEF Fits

LEMMA ReloadFits ==
  ASSUME TypeOK, Fits, NEW c \in Call, NEW b \in Tab, Reload(c, b)
  PROVE  Fits'
<1>0. token' = token /\ stored' = stored /\ signedOut' = signedOut
  BY DEF Reload
<1>1. CASE Reloaded(b, call')
  <2>1. SameBurden(call') /\ Ages(token') /\ signedOut' \subseteq DOMAIN token
    BY <1>0, <1>1 DEF Reloaded, SameBurden, Ages, Fits
  <2> QED BY <1>0, <2>1, SameBurdenFits
<1>2. ASSUME stored # NoToken, NEW calls, Reloaded(b, calls),
             DOMAIN call' = DOMAIN calls \cup {c},
             \A d \in DOMAIN calls : call'[d] = calls[d],
             call'[c] = New("resume", "lookup", b, stored)
      PROVE  Fits'
  <2>1. /\ SameBurden(calls)
        /\ call'[c].used = stored /\ call'[c].step = "lookup" /\ call'[c].kind = "resume"
    BY <1>2 DEF Reloaded, SameBurden, New
  <2>2. IsFiniteSet(DOMAIN call')
    BY <1>2, FS_AddElement, FS_Subset DEF Reloaded, Fits
  <2>3. \A d \in DOMAIN call' : UsedIsKnown(d)'
    BY <1>0, <1>2, <2>1 DEF SameBurden, Fits, UsedIsKnown, TypeOK
  <2>4. ASSUME NEW d \in DOMAIN call', call'[d].step = "adopt"
        PROVE  FreshIsNew(d)'
    BY <1>0, <1>2, <2>1, <2>4 DEF SameBurden, Fits, FreshIsNew
  <2> QED BY <1>0, <2>2, <2>3, <2>4 DEF Fits
<1> QED BY <1>1, <1>2, ReloadCalls

LEMMA TryRefreshFits ==
  ASSUME TypeOK, Fits, NEW c \in Call, TryRefresh(c)
  PROVE  Fits'
<1>0. /\ token' = token /\ stored' = stored /\ signedOut' = signedOut
      /\ call[c].step = "unauthorized"
  BY TryRefreshCalls DEF TryRefresh
<1>1. CASE Ended(c)
  <2>1. SameBurden(call') /\ Ages(token') /\ signedOut' \subseteq DOMAIN token
    BY <1>0, <1>1 DEF Ended, SameBurden, Ages, Fits
  <2> QED BY <1>0, <2>1, SameBurdenFits
<1>2. CASE /\ stored # NoToken /\ Moved(c, "lookup")
           /\ call'[c].used = stored
  <2>1. IsFiniteSet(DOMAIN call')
    BY <1>2 DEF Moved, Fits
  <2>2. \A d \in DOMAIN call' : UsedIsKnown(d)'
    BY <1>0, <1>2 DEF Moved, Fits, UsedIsKnown, TypeOK
  <2>3. \A d \in DOMAIN call' : call'[d].step = "adopt" => FreshIsNew(d)'
    BY <1>0, <1>2 DEF Moved, Fits, FreshIsNew
  <2> QED BY <1>0, <2>1, <2>2, <2>3 DEF Fits
<1> QED BY <1>1, <1>2, TryRefreshCalls

LEMMA EndedFits ==
  ASSUME TypeOK, Fits, NEW c, Ended(c), token' = token, signedOut' = signedOut,
         \/ stored' = stored \/ stored' = NoToken
         \/ call[c].step = "adopt" /\ stored' = call[c].fresh
  PROVE  Fits'
<1>1. SameBurden(call') /\ Ages(token') /\ signedOut' \subseteq DOMAIN token
  BY DEF Ended, SameBurden, Ages, Fits
<1>2. call[c].step = "adopt" =>
        \A d \in DOMAIN call' : call'[d].step = "adopt" => call'[d].fresh # call[c].fresh
  BY DEF Ended, Fits, FreshIsNew
<1> QED BY <1>1, <1>2, SameBurdenFits

LEMMA EndingsFit ==
  ASSUME TypeOK, Fits, NEW c \in Call,
         Adopt(c) \/ DropTokens(c) \/ LoseAnswer(c) \/ ClearTokens(c)
  PROVE  Fits'
<1>1. c \in DOMAIN call /\ End(c) /\ token' = token /\ signedOut' = signedOut
  BY DEF Adopt, DropTokens, LoseAnswer, ClearTokens, At
<1>2. \/ stored' = stored \/ stored' = NoToken
      \/ call[c].step = "adopt" /\ stored' = call[c].fresh
  BY DEF Adopt, DropTokens, LoseAnswer, ClearTokens, At
<1> QED BY <1>1, <1>2, EndEnds, EndedFits

LEMMA LookupFits ==
  ASSUME TypeOK, Fits, NEW c \in Call, Lookup(c)
  PROVE  Fits'
<1>1. /\ c \in DOMAIN call /\ token' = token /\ stored' = stored /\ signedOut' = signedOut
      /\ Goto(c, "revoke") \/ Goto(c, "refused")
  BY DEF Lookup, At
<1>2. /\ Moved(c, "revoke") \/ Moved(c, "refused")
      /\ call'[c].used = call[c].used /\ call'[c].fresh = call[c].fresh
  BY <1>1, GotoMoves
<1>3. SameBurden(call') /\ Ages(token') /\ signedOut' \subseteq DOMAIN token
  BY <1>1, <1>2 DEF Moved, SameBurden, Ages, Fits
<1> QED BY <1>1, <1>3, SameBurdenFits

LEMMA RotateFits ==
  ASSUME TypeOK, Fits, NEW c \in Call, Rotate(c)
  PROVE  Fits'
<1>1. /\ c \in DOMAIN call /\ call[c].used \in DOMAIN token
      /\ stored' = stored /\ signedOut' = signedOut
      /\ Goto(c, "issue")
      /\ RevokeRefreshToken(call[c].used) \/ token' = token
  BY DEF Rotate, At, TypeOK
<1>2. /\ Moved(c, "issue")
      /\ call'[c].used = call[c].used /\ call'[c].fresh = call[c].fresh
  BY <1>1, GotoMoves
<1>3. Ages(token')
  BY <1>1, RevokedTypes DEF Ages
<1>4. SameBurden(call') /\ signedOut' \subseteq DOMAIN token
  BY <1>1, <1>2 DEF Moved, SameBurden, Fits
<1> QED BY <1>1, <1>3, <1>4, SameBurdenFits

LEMMA LogoutRevokesFits ==
  ASSUME TypeOK, Fits, NEW c \in Call, LogoutRevokes(c)
  PROVE  Fits'
<1>1. /\ c \in DOMAIN call /\ call[c].used \in DOMAIN token
      /\ stored' = stored
      /\ signedOut' = signedOut \/ signedOut' = signedOut \cup {token[call[c].used].login}
      /\ Goto(c, "clear") \/ End(c)
      /\ RevokeRefreshToken(call[c].used) \/ token' = token
  BY DEF LogoutRevokes, At, TypeOK
<1>2. SameBurden(call')
  <2>1. CASE Goto(c, "clear")
    <3>1. /\ Moved(c, "clear")
          /\ call'[c].used = call[c].used /\ call'[c].fresh = call[c].fresh
      BY <1>1, <2>1, GotoMoves
    <3> QED BY <3>1 DEF Moved, SameBurden
  <2>2. CASE End(c)
    BY <1>1, <2>2, EndEnds DEF Ended, SameBurden
  <2> QED BY <1>1, <2>1, <2>2
<1>3. Ages(token')
  BY <1>1, RevokedTypes DEF Ages
<1>4. signedOut' \subseteq DOMAIN token
  BY <1>1 DEF Fits
<1> QED BY <1>1, <1>2, <1>3, <1>4, SameBurdenFits

LEMMA RefreshExpiresFits ==
  ASSUME TypeOK, Fits, NEW t \in DOMAIN token, RefreshExpires(t)
  PROVE  Fits'
<1>1. Ages(token')
  BY DEF RefreshExpires, TypeOK, RefreshToken, Ages
<1>2. SameBurden(call') /\ stored' = stored /\ signedOut' \subseteq DOMAIN token
  BY DEF RefreshExpires, SameBurden, Fits
<1> QED BY <1>1, <1>2, SameBurdenFits

LEMMA IssueFits ==
  ASSUME TypeOK, Fits, NEW c \in Call, IssueTokens(c)
  PROVE  Fits'
<1>0. c \in DOMAIN call /\ stored' = stored /\ signedOut' = signedOut
  BY DEF IssueTokens, At
<1>1. CASE token' = token /\ Goto(c, "refused")
  <2>1. /\ Moved(c, "refused")
        /\ call'[c].used = call[c].used /\ call'[c].fresh = call[c].fresh
    BY <1>0, <1>1, GotoMoves
  <2>2. SameBurden(call') /\ Ages(token') /\ signedOut' \subseteq DOMAIN token
    BY <1>0, <1>1, <2>1 DEF Moved, SameBurden, Ages, Fits
  <2> QED BY <1>0, <2>2, SameBurdenFits
<1>2. ASSUME NEW t \in TokenId, Issued(c, t)
      PROVE  Fits'
  <2>1. IsFiniteSet(DOMAIN token') /\ IsFiniteSet(DOMAIN call')
    BY <1>2, FS_AddElement DEF Issued, Moved, Fits
  <2>2. \A u \in DOMAIN token' : token'[u].login \in DOMAIN token'
    BY <1>0, <1>2 DEF Issued, LoginOf, Fits, UsedIsKnown
  <2>3. \A d \in DOMAIN call' : UsedIsKnown(d)'
    BY <1>0, <1>2 DEF Issued, Moved, Fits, UsedIsKnown
  <2>4. \A d \in DOMAIN call : call[d].used # t /\ (call[d].step = "adopt" => call[d].fresh # t)
    BY <1>2, SessionsAssumption DEF Issued, Fits, UsedIsKnown, TypeOK
  <2>5. stored # t
    BY <1>2, SessionsAssumption DEF Issued, TypeOK
  <2>6. FreshIsNew(c)'
    BY <1>0, <1>2, <2>4, <2>5 DEF Issued, Moved, FreshIsNew
  <2>7. ASSUME NEW d \in DOMAIN call', d # c, call'[d].step = "adopt"
        PROVE  FreshIsNew(d)'
    BY <1>0, <1>2, <2>4, <2>7 DEF Issued, Moved, Fits, FreshIsNew, TypeOK
  <2> QED BY <1>0, <1>2, <2>1, <2>2, <2>3, <2>6, <2>7 DEF Issued, Fits
<1> QED BY <1>1, <1>2, IssueCalls

LEMMA NextFits ==
  ASSUME TypeOK, Fits, [Next]_vars
  PROVE  Fits'
<1>1. CASE UNCHANGED vars
  BY <1>1 DEF vars, Fits, UsedIsKnown, FreshIsNew
<1>2. ASSUME NEW b \in Tab, AccessExpires(b) PROVE Fits'
  BY <1>2 DEF AccessExpires, Fits, UsedIsKnown, FreshIsNew
<1>3. ASSUME NEW t \in DOMAIN token, RefreshExpires(t) PROVE Fits'
  BY <1>3, RefreshExpiresFits
<1>4. CASE \E c \in Call, b \in Tab :
             Login(c, b) \/ Unauthorized(c, b) \/ Reload(c, b) \/ Logout(c, b)
  BY <1>4, LoginFits, UnauthorizedFits, ReloadFits, LogoutFits
<1>5. CASE \E c \in Call :
             \/ TryRefresh(c) \/ Lookup(c) \/ Rotate(c) \/ IssueTokens(c)
             \/ Adopt(c) \/ DropTokens(c) \/ LoseAnswer(c)
             \/ LogoutRevokes(c) \/ ClearTokens(c)
  BY <1>5, TryRefreshFits, LookupFits, RotateFits, IssueFits, EndingsFit, LogoutRevokesFits
<1> QED BY <1>1, <1>2, <1>3, <1>4, <1>5 DEF Next

LEMMA InitFits == Init => TypeOK /\ Fits
BY SessionsAssumption, FS_EmptySet DEF Init, TypeOK, Fits

LEMMA FitsHolds == Spec => [](TypeOK /\ Fits)
<1>1. TypeOK /\ Fits /\ [Next]_vars => (TypeOK /\ Fits)'
  BY NextTypes, NextFits
<1> QED BY InitFits, <1>1, PTL DEF Spec

(* Types, for every number of tabs, calls, tokens and faults                   *)
(* (auth_handlers.go, api.ts).                                                 *)
THEOREM TypesHold == Spec => []TypeOK
<1>1. TypeOK /\ Fits => TypeOK
  OBVIOUS
<1> QED BY FitsHolds, <1>1, PTL

----------------------------------------------------------------------------
(***************************************************************************)
(* How many live tokens a login is worth.  For each login the calls that    *)
(* may still leave a live token of it behind are counted, and the tokens    *)
(* that are live, or dead but about to be signed out with, without a call   *)
(* that answers for them.  One of all these is free until the sign-out, the *)
(* others are paid for by an overlap or a fault.                            *)
(***************************************************************************)
IsLive(t) == token[t].state = "live"
UsedAt(t, steps) == \E d \in DOMAIN call : call[d].used = t /\ call[d].step \in steps
OnItsWay(t) == \E d \in DOMAIN call : call[d].step = "adopt" /\ call[d].fresh = t

Counts(c, l) ==
  /\ call[c].used # NoToken
  /\ token[call[c].used].login = l
  /\ \/ call[c].step \in {"revoke", "issue"}
     \/ call[c].step = "lookup" /\ IsLive(call[c].used)
     \/ call[c].step = "logout" /\ (IsLive(call[c].used) \/ l \notin signedOut)

LiveSpare(t) == IsLive(t) /\ ~UsedAt(t, {"lookup", "revoke", "logout"})
DeadSpare(t, l) ==
  /\ ~IsLive(t)
  /\ l \notin signedOut
  /\ t = stored \/ OnItsWay(t)
  /\ ~UsedAt(t, {"revoke", "issue", "adopt", "logout"})
Spare(t, l) == token[t].login = l /\ (LiveSpare(t) \/ DeadSpare(t, l))

Working(l) == {c \in DOMAIN call : Counts(c, l)}
Spares(l) == {t \in DOMAIN token : Spare(t, l)}
Free(l) == IF l \in signedOut THEN 0 ELSE 1
Allowed(l) == overlaps + faults + Free(l)

Covered(calls, tokens, n) == Cardinality(calls) + Cardinality(tokens) <= n
Paid == \A l \in DOMAIN token : Covered(Working(l), Spares(l), Allowed(l))

(* The ways in which the two sets may change along with what is allowed.      *)
Balanced(W, S, n, V, T, m) ==
  \/ V \subseteq W /\ T \subseteq S /\ n <= m
  \/ (\E x : V \subseteq W \cup {x}) /\ T \subseteq S /\ n < m
  \/ V \subseteq W /\ (\E x : T \subseteq S \cup {x}) /\ n < m
  \/ (\E x \in W : V \subseteq W \ {x}) /\ (\E y : T \subseteq S \cup {y}) /\ n <= m
  \/ (\E x : V \subseteq W \cup {x}) /\ (\E y \in S : T \subseteq S \ {y}) /\ n <= m
  \/ (\E x \in W : V \subseteq W \ {x}) /\ T \subseteq S /\ n <= m + 1

LEMMA SubsetSize ==
  ASSUME NEW S, IsFiniteSet(S), NEW T
  PROVE  /\ Cardinality(S) \in Nat
         /\ T \subseteq S => Cardinality(T) \in Nat /\ Cardinality(T) <= Cardinality(S)
         /\ (\E x : T \subseteq S \cup {x}) =>
              Cardinality(T) \in Nat /\ Cardinality(T) <= Cardinality(S) + 1
         /\ (\E x \in S : T \subseteq S \ {x}) =>
              Cardinality(T) \in Nat /\ Cardinality(T) <= Cardinality(S) - 1
<1>0. Cardinality(S) \in Nat
  BY FS_CardinalityType
<1>1. ASSUME T \subseteq S PROVE Cardinality(T) \in Nat /\ Cardinality(T) <= Cardinality(S)
  BY <1>1, FS_Subset, FS_CardinalityType
<1>2. ASSUME NEW x, T \subseteq S \cup {x}
      PROVE  Cardinality(T) \in Nat /\ Cardinality(T) <= Cardinality(S) + 1
  <2>1. /\ IsFiniteSet(S \cup {x})
        /\ Cardinality(S \cup {x}) = IF x \in S THEN Cardinality(S) ELSE Cardinality(S) + 1
    BY FS_AddElement
  <2>2. Cardinality(T) \in Nat /\ Cardinality(T) <= Cardinality(S \cup {x})
    BY <1>2, <2>1, FS_Subset, FS_CardinalityType
  <2> QED BY <1>0, <2>1, <2>2
<1>3. ASSUME NEW x \in S, T \subseteq S \ {x}
      PROVE  Cardinality(T) \in Nat /\ Cardinality(T) <= Cardinality(S) - 1
  <2>1. IsFiniteSet(S \ {x}) /\ Cardinality(S \ {x}) = Cardinality(S) - 1
    BY FS_RemoveElement
  <2>2. Cardinality(T) \in Nat /\ Cardinality(T) <= Cardinality(S \ {x})
    BY <1>3, <2>1, FS_Subset, FS_CardinalityType
  <2> QED BY <2>1, <2>2
<1> QED BY <1>0, <1>1, <1>2, <1>3

LEMMA BalancedCovers ==
  ASSUME NEW W, NEW S, NEW V, NEW T, NEW n \in Nat, NEW m \in Nat,
         IsFiniteSet(W), IsFiniteSet(S),
         Balanced(W, S, n, V, T, m), Covered(W, S, n)
  PROVE  Covered(V, T, m)
<1> DEFINE w == Cardinality(W)
           s == Cardinality(S)
           v == Cardinality(V)
           t == Cardinality(T)
<1>0. w \in Nat /\ s \in Nat /\ w + s <= n
  BY SubsetSize DEF Covered
<1>1. CASE V \subseteq W /\ T \subseteq S /\ n <= m
  <2>1. v \in Nat /\ t \in Nat /\ v <= w /\ t <= s
    BY <1>1, SubsetSize
  <2> HIDE DEF w, s, v, t
  <2>2. v + t <= m
    BY <1>0, <1>1, <2>1
  <2> QED BY <2>2 DEF Covered, v, t
<1>2. CASE (\E x : V \subseteq W \cup {x}) /\ T \subseteq S /\ n < m
  <2>1. v \in Nat /\ t \in Nat /\ v <= w + 1 /\ t <= s
    BY <1>2, SubsetSize
  <2> HIDE DEF w, s, v, t
  <2>2. v + t <= m
    BY <1>0, <1>2, <2>1
  <2> QED BY <2>2 DEF Covered, v, t
<1>3. CASE V \subseteq W /\ (\E x : T \subseteq S \cup {x}) /\ n < m
  <2>1. v \in Nat /\ t \in Nat /\ v <= w /\ t <= s + 1
    BY <1>3, SubsetSize
  <2> HIDE DEF w, s, v, t
  <2>2. v + t <= m
    BY <1>0, <1>3, <2>1
  <2> QED BY <2>2 DEF Covered, v, t
<1>4. CASE (\E x \in W : V \subseteq W \ {x}) /\ (\E y : T \subseteq S \cup {y}) /\ n <= m
  <2>0. v \in Nat /\ v <= w - 1
    BY <1>4, SubsetSize
  <2>1. v \in Nat /\ t \in Nat /\ v <= w - 1 /\ t <= s + 1
    BY <1>4, <2>0, SubsetSize
  <2> HIDE DEF w, s, v, t
  <2>2. v + t <= m
    BY <1>0, <1>4, <2>1
  <2> QED BY <2>2 DEF Covered, v, t
<1>5. CASE (\E x : V \subseteq W \cup {x}) /\ (\E y \in S : T \subseteq S \ {y}) /\ n <= m
  <2>1. v \in Nat /\ t \in Nat /\ v <= w + 1 /\ t <= s - 1
    BY <1>5, SubsetSize
  <2> HIDE DEF w, s, v, t
  <2>2. v + t <= m
    BY <1>0, <1>5, <2>1
  <2> QED BY <2>2 DEF Covered, v, t
<1>6. CASE (\E x \in W : V \subseteq W \ {x}) /\ T \subseteq S /\ n <= m + 1
  <2>1. v \in Nat /\ t \in Nat /\ v <= w - 1 /\ t <= s
    BY <1>6, SubsetSize
  <2> HIDE DEF w, s, v, t
  <2>2. v + t <= m
    BY <1>0, <1>6, <2>1
  <2> QED BY <2>2 DEF Covered, v, t
<1> QED BY <1>1, <1>2, <1>3, <1>4, <1>5, <1>6 DEF Balanced

(* One step for one login. *)
Pays(l) == Balanced(Working(l), Spares(l), Allowed(l), Working(l)', Spares(l)', Allowed(l)')

(* What is allowed follows the overlaps and the faults. *)
LEMMA AllowedGrows ==
  ASSUME TypeOK, TypeOK', NEW l, signedOut' = signedOut
  PROVE  /\ Allowed(l) \in Nat /\ Allowed(l)' \in Nat
         /\ overlaps' = overlaps /\ faults' = faults => Allowed(l)' = Allowed(l)
         /\ overlaps' = overlaps + 1 /\ faults' = faults => Allowed(l)' = Allowed(l) + 1
         /\ overlaps' = overlaps /\ faults' = faults + 1 => Allowed(l)' = Allowed(l) + 1
<1>1. overlaps \in Nat /\ faults \in Nat /\ overlaps' \in Nat /\ faults' \in Nat
  BY SessionsAssumption DEF TypeOK
<1>2. Free(l) \in Nat /\ Free(l)' = Free(l)
  BY DEF Free
<1> QED BY <1>1, <1>2 DEF Allowed

LEMMA PaysCovers ==
  ASSUME TypeOK, TypeOK', Fits, Paid, NEW l \in DOMAIN token, Pays(l)
  PROVE  Covered(Working(l)', Spares(l)', Allowed(l)')
<1>1. Allowed(l) \in Nat /\ Allowed(l)' \in Nat
  <2>1. overlaps \in Nat /\ faults \in Nat /\ overlaps' \in Nat /\ faults' \in Nat
    BY SessionsAssumption DEF TypeOK
  <2>2. Free(l) \in Nat /\ Free(l)' \in Nat
    BY DEF Free
  <2> QED BY <2>1, <2>2 DEF Allowed
<1>2. IsFiniteSet(Working(l)) /\ IsFiniteSet(Spares(l))
  BY FS_Subset DEF Fits, Working, Spares
<1>3. Covered(Working(l), Spares(l), Allowed(l))
  BY DEF Paid
<1>4. Balanced(Working(l), Spares(l), Allowed(l), Working(l)', Spares(l)', Allowed(l)')
  BY DEF Pays
<1> HIDE DEF Allowed
<1> QED BY <1>1, <1>2, <1>3, <1>4, BalancedCovers

(* Calls that come and go without counting for any token, and the browser      *)
(* dropping its token.                                                         *)
Idle(calls, next) ==
  /\ \A d \in DOMAIN next :
       \/ next[d].used = NoToken /\ next[d].step # "adopt"
       \/ /\ d \in DOMAIN calls
          /\ next[d].used = calls[d].used /\ next[d].fresh = calls[d].fresh
          /\ next[d].step = calls[d].step
  /\ \A d \in DOMAIN calls :
       \/ calls[d].step \in {"unauthorized", "clear", "refused"}
       \/ calls[d].used = NoToken
       \/ d \in DOMAIN next /\ next[d].used = calls[d].used /\ next[d].step = calls[d].step

LEMMA IdlePays ==
  ASSUME TypeOK, TypeOK', Fits, NEW l \in DOMAIN token, Idle(call, call'),
         token' = token, signedOut' = signedOut, stored' = stored \/ stored' = NoToken,
         overlaps' = overlaps, faults' = faults
  PROVE  Pays(l)
<1>1. Working(l)' \subseteq Working(l)
  BY DEF Idle, Working, Counts, IsLive
<1>2. \A t \in DOMAIN token : t # NoToken
  BY SessionsAssumption DEF TypeOK
<1>3. ASSUME NEW t \in DOMAIN token, Spare(t, l)' PROVE Spare(t, l)
  <2>1. CASE LiveSpare(t)'
    BY <1>2, <1>3, <2>1 DEF Idle, Spare, LiveSpare, IsLive, UsedAt
  <2>2. CASE DeadSpare(t, l)'
    <3>1. ~IsLive(t) /\ l \notin signedOut /\ (t = stored \/ OnItsWay(t))
      BY <1>2, <2>2 DEF Idle, DeadSpare, IsLive, OnItsWay
    <3>2. ~UsedAt(t, {"revoke", "issue", "adopt", "logout"})
      BY <1>2, <2>2 DEF Idle, DeadSpare, UsedAt
    <3> QED BY <1>3, <3>1, <3>2 DEF Spare, DeadSpare
  <2> QED BY <1>3, <2>1, <2>2 DEF Spare
<1>4. Spares(l)' \subseteq Spares(l)
  BY <1>3 DEF Spares
<1>5. Allowed(l)' = Allowed(l) /\ Allowed(l) \in Nat
  BY AllowedGrows
<1> QED BY <1>1, <1>4, <1>5 DEF Pays, Balanced

(* A call that starts to use the stored token: the only one, then it answers   *)
(* for the token from now on, or one more, which is an overlap.                *)
Starts(c, calls, next) ==
  /\ c \in DOMAIN next
  /\ next[c].used = stored /\ next[c].step \in {"lookup", "logout"}
  /\ \A d \in DOMAIN next :
       d # c => /\ d \in DOMAIN calls
                /\ next[d].used = calls[d].used /\ next[d].fresh = calls[d].fresh
                /\ next[d].step = calls[d].step
  /\ \A d \in DOMAIN calls :
       \/ calls[d].step \in {"unauthorized", "clear"}
       \/ d \in DOMAIN next /\ d # c

LEMMA StartsPays ==
  ASSUME TypeOK, TypeOK', Fits, NEW l \in DOMAIN token, NEW c, Starts(c, call, call'),
         token' = token, signedOut' = signedOut, stored' = stored, stored # NoToken,
         Overlap(stored), faults' = faults
  PROVE  Pays(l)
<1>0. stored \in DOMAIN token
  BY DEF TypeOK
<1>1. Working(l)' \subseteq Working(l) \cup {c}
  BY DEF Starts, Working, Counts, IsLive
<1>2. ASSUME NEW t \in DOMAIN token, Spare(t, l)' PROVE Spare(t, l)
  <2>1. CASE LiveSpare(t)'
    BY <1>2, <2>1 DEF Starts, Spare, LiveSpare, IsLive, UsedAt
  <2>2. CASE DeadSpare(t, l)'
    <3>1. ~IsLive(t) /\ l \notin signedOut /\ (t = stored \/ OnItsWay(t))
      BY <2>2 DEF Starts, DeadSpare, IsLive, OnItsWay
    <3>2. ~UsedAt(t, {"revoke", "issue", "adopt", "logout"})
      BY <2>2 DEF Starts, DeadSpare, UsedAt
    <3> QED BY <1>2, <3>1, <3>2 DEF Spare, DeadSpare
  <2> QED BY <1>2, <2>1, <2>2 DEF Spare
<1>3. Spares(l)' \subseteq Spares(l)
  BY <1>2 DEF Spares
<1>4. /\ Allowed(l) \in Nat
      /\ overlaps' = overlaps => Allowed(l)' = Allowed(l)
      /\ overlaps' = overlaps + 1 => Allowed(l)' = Allowed(l) + 1
  BY AllowedGrows
<1>5. CASE overlaps' = overlaps + 1
  BY <1>1, <1>3, <1>4, <1>5 DEF Pays, Balanced
<1>6. CASE Using(stored) = {} /\ overlaps' = overlaps
  <2>0. \A d \in DOMAIN call : call[d].used # stored
    BY <1>6 DEF Using
  <2>1. CASE c \notin Working(l)'
    <3>1. Working(l)' \subseteq Working(l)
      BY <1>1, <2>1
    <3> QED BY <1>3, <1>4, <1>6, <3>1 DEF Pays, Balanced
  <2>2. CASE c \in Working(l)'
    <3>1. /\ token[stored].login = l
          /\ \/ IsLive(stored)
             \/ ~IsLive(stored) /\ call'[c].step = "logout" /\ l \notin signedOut
      BY <2>2 DEF Starts, Working, Counts, IsLive
    <3>2. stored \in Spares(l)
      BY <1>0, <2>0, <3>1 DEF Spares, Spare, LiveSpare, DeadSpare, UsedAt
    <3>3. stored \notin Spares(l)'
      BY <3>1 DEF Starts, Spares, Spare, LiveSpare, DeadSpare, UsedAt, IsLive
    <3>4. Spares(l)' \subseteq Spares(l) \ {stored}
      BY <1>3, <3>3
    <3> QED BY <1>1, <1>4, <1>6, <3>2, <3>4 DEF Pays, Balanced
  <2> QED BY <2>1, <2>2
<1> QED BY <1>5, <1>6 DEF Overlap

(* A call that fails, or is lost, leaves at most its token without an answer   *)
(* for it, and is paid for by the fault.                                       *)
Cut(c, calls, next) ==
  /\ c \in DOMAIN calls
  /\ \A d \in DOMAIN next :
       d # c => /\ d \in DOMAIN calls
                /\ next[d].used = calls[d].used /\ next[d].fresh = calls[d].fresh
                /\ next[d].step = calls[d].step
  /\ \A d \in DOMAIN calls : d # c => d \in DOMAIN next
  /\ c \in DOMAIN next =>
       /\ next[c].used = calls[c].used
       /\ \/ next[c].step \in {"refused", "clear"}
          \/ next[c].step = "issue" /\ calls[c].step = "revoke"

LEMMA CutPays ==
  ASSUME TypeOK, TypeOK', Fits, NEW l \in DOMAIN token, NEW c, Cut(c, call, call'),
         token' = token, signedOut' = signedOut, stored' = stored,
         overlaps' = overlaps, faults' = faults + 1
  PROVE  Pays(l)
<1>1. Working(l)' \subseteq Working(l)
  BY DEF Cut, Working, Counts, IsLive
<1>2. ASSUME NEW t \in DOMAIN token, Spare(t, l)', t # call[c].used PROVE Spare(t, l)
  <2>1. CASE LiveSpare(t)'
    BY <1>2, <2>1 DEF Cut, Spare, LiveSpare, IsLive, UsedAt
  <2>2. CASE DeadSpare(t, l)'
    <3>1. ~IsLive(t) /\ l \notin signedOut /\ (t = stored \/ OnItsWay(t))
      BY <2>2 DEF Cut, DeadSpare, IsLive, OnItsWay
    <3>2. ~UsedAt(t, {"revoke", "issue", "adopt", "logout"})
      BY <1>2, <2>2 DEF Cut, DeadSpare, UsedAt
    <3> QED BY <1>2, <3>1, <3>2 DEF Spare, DeadSpare
  <2> QED BY <1>2, <2>1, <2>2 DEF Spare
<1>3. Spares(l)' \subseteq Spares(l) \cup {call[c].used}
  BY <1>2 DEF Spares
<1>4. Allowed(l) \in Nat /\ Allowed(l)' = Allowed(l) + 1
  BY AllowedGrows
<1> QED BY <1>1, <1>3, <1>4 DEF Pays, Balanced

(* A step that neither adds to what counts nor to what is allowed. *)
LEMMA NeutralPays ==
  ASSUME TypeOK, TypeOK', NEW l \in DOMAIN token,
         Working(l)' \subseteq Working(l),
         \A t \in DOMAIN token' : Spare(t, l)' => t \in DOMAIN token /\ Spare(t, l),
         signedOut' = signedOut, overlaps' = overlaps, faults' = faults
  PROVE  Pays(l)
<1>1. Spares(l)' \subseteq Spares(l)
  BY DEF Spares
<1>2. Allowed(l) \in Nat /\ Allowed(l)' = Allowed(l)
  BY AllowedGrows
<1> QED BY <1>1, <1>2 DEF Pays, Balanced

LEMMA LookupPays ==
  ASSUME TypeOK, TypeOK', Fits, NEW c \in Call, Lookup(c), NEW l \in DOMAIN token
  PROVE  Pays(l)
<1>0. /\ c \in DOMAIN call /\ call[c].step = "lookup"
      /\ token' = token /\ stored' = stored /\ signedOut' = signedOut /\ overlaps' = overlaps
  BY DEF Lookup, At
<1>1. CASE Fault /\ Goto(c, "refused")
  <2>1. Cut(c, call, call') /\ faults' = faults + 1
    BY <1>0, <1>1, GotoMoves DEF Moved, Cut, Fault
  <2> QED BY <1>0, <2>1, CutPays
<1>2. CASE /\ faults' = faults
           /\ \/ IsLive(call[c].used) /\ Goto(c, "revoke")
              \/ ~IsLive(call[c].used) /\ Goto(c, "refused")
  <2>1. /\ DOMAIN call' = DOMAIN call
        /\ \A d \in DOMAIN call : d # c => call'[d] = call[d]
        /\ call'[c].used = call[c].used
        /\ \/ IsLive(call[c].used) /\ call'[c].step = "revoke"
           \/ ~IsLive(call[c].used) /\ call'[c].step = "refused"
    BY <1>0, <1>2, GotoMoves DEF Moved
  <2>2. Working(l)' \subseteq Working(l)
    BY <1>0, <2>1 DEF Working, Counts, IsLive
  <2>3. ASSUME NEW t \in DOMAIN token, Spare(t, l)' PROVE Spare(t, l)
    <3>1. CASE LiveSpare(t)'
      BY <1>0, <2>1, <2>3, <3>1 DEF Spare, LiveSpare, IsLive, UsedAt
    <3>2. CASE DeadSpare(t, l)'
      <4>1. ~IsLive(t) /\ l \notin signedOut /\ (t = stored \/ OnItsWay(t))
        BY <1>0, <2>1, <3>2 DEF DeadSpare, IsLive, OnItsWay
      <4>2. ~UsedAt(t, {"revoke", "issue", "adopt", "logout"})
        BY <1>0, <2>1, <3>2 DEF DeadSpare, UsedAt
      <4> QED BY <1>0, <2>3, <4>1, <4>2 DEF Spare, DeadSpare
    <3> QED BY <2>3, <3>1, <3>2 DEF Spare
  <2> QED BY <1>0, <1>2, <2>2, <2>3, NeutralPays
<1> QED BY <1>1, <1>2 DEF Lookup, IsLive

LEMMA RotatePays ==
  ASSUME TypeOK, TypeOK', Fits, NEW c \in Call, Rotate(c), NEW l \in DOMAIN token
  PROVE  Pays(l)
<1>0. /\ c \in DOMAIN call /\ call[c].step = "revoke" /\ call[c].used \in DOMAIN token
      /\ stored' = stored /\ signedOut' = signedOut /\ overlaps' = overlaps
      /\ Goto(c, "issue")
  BY DEF Rotate, At, TypeOK
<1>1. /\ DOMAIN call' = DOMAIN call
      /\ \A d \in DOMAIN call : d # c => call'[d] = call[d]
      /\ call'[c].used = call[c].used /\ call'[c].step = "issue"
  BY <1>0, GotoMoves DEF Moved
<1>2. CASE Fault /\ token' = token
  <2>1. Cut(c, call, call') /\ faults' = faults + 1
    BY <1>0, <1>1, <1>2 DEF Cut, Fault
  <2> QED BY <1>0, <1>2, <2>1, CutPays
<1>3. CASE RevokeRefreshToken(call[c].used) /\ faults' = faults
  <2>0. /\ DOMAIN token' = DOMAIN token
        /\ \A u \in DOMAIN token : token'[u].login = token[u].login
        /\ \A u \in DOMAIN token : u # call[c].used => token'[u] = token[u]
        /\ token'[call[c].used].state = "revoked"
    BY <1>0, <1>3, RevokedTypes
  <2>1. \A d \in DOMAIN call : call[d].used # NoToken => call[d].used \in DOMAIN token
    BY DEF Fits, UsedIsKnown
  <2>2. Working(l)' \subseteq Working(l)
    BY <1>0, <1>1, <2>0, <2>1 DEF Working, Counts, IsLive
  <2>3. ASSUME NEW t \in DOMAIN token, Spare(t, l)' PROVE Spare(t, l)
    <3>0. t # call[c].used
      BY <1>0, <1>1, <2>0, <2>3 DEF Spare, LiveSpare, DeadSpare, IsLive, UsedAt
    <3>1. CASE LiveSpare(t)'
      BY <1>0, <1>1, <2>0, <2>3, <3>0, <3>1 DEF Spare, LiveSpare, IsLive, UsedAt
    <3>2. CASE DeadSpare(t, l)'
      <4>1. ~IsLive(t) /\ l \notin signedOut /\ (t = stored \/ OnItsWay(t))
        BY <1>0, <1>1, <2>0, <3>0, <3>2 DEF DeadSpare, IsLive, OnItsWay
      <4>2. ~UsedAt(t, {"revoke", "issue", "adopt", "logout"})
        BY <1>1, <3>0, <3>2 DEF DeadSpare, UsedAt
      <4> QED BY <2>0, <2>3, <4>1, <4>2 DEF Spare, DeadSpare
    <3> QED BY <2>3, <3>1, <3>2 DEF Spare
  <2> QED BY <1>0, <1>3, <2>0, <2>2, <2>3, NeutralPays
<1> QED BY <1>2, <1>3 DEF Rotate

LEMMA RefreshExpiresPays ==
  ASSUME TypeOK, TypeOK', Fits, NEW x \in DOMAIN token, RefreshExpires(x), NEW l \in DOMAIN token
  PROVE  Pays(l)
<1>0. /\ call' = call /\ stored' = stored /\ signedOut' = signedOut
      /\ overlaps' = overlaps /\ faults' = faults
      /\ DOMAIN token' = DOMAIN token
      /\ \A u \in DOMAIN token : token'[u].login = token[u].login
      /\ \A u \in DOMAIN token : u # x => token'[u] = token[u]
      /\ token[x].state = "live" /\ token'[x].state = "expired"
  BY DEF RefreshExpires, TypeOK, RefreshToken
<1>1. \A d \in DOMAIN call : call[d].used # NoToken => call[d].used \in DOMAIN token
  BY DEF Fits, UsedIsKnown
<1>2. Working(l)' \subseteq Working(l)
  BY <1>0, <1>1 DEF Working, Counts, IsLive
<1>3. ASSUME NEW t \in DOMAIN token, Spare(t, l)', t # x PROVE Spare(t, l)
  <2>1. LiveSpare(t)' => LiveSpare(t)
    BY <1>0, <1>3 DEF LiveSpare, IsLive, UsedAt
  <2>2. DeadSpare(t, l)' => DeadSpare(t, l)
    BY <1>0, <1>3 DEF DeadSpare, IsLive, OnItsWay, UsedAt
  <2> QED BY <1>0, <1>3, <2>1, <2>2 DEF Spare
<1>4. Allowed(l) \in Nat /\ Allowed(l)' = Allowed(l)
  BY <1>0, AllowedGrows
<1>5. CASE Spare(x, l)' => Spare(x, l)
  BY <1>0, <1>2, <1>3, <1>5, NeutralPays
<1>6. CASE Spare(x, l)' /\ ~Spare(x, l)
  <2>1. PICK d \in DOMAIN call : call[d].used = x /\ call[d].step = "lookup"
    BY <1>0, <1>6 DEF Spare, LiveSpare, DeadSpare, IsLive, UsedAt
  <2>2. token[x].login = l /\ x # NoToken
    BY <1>0, <1>6, SessionsAssumption DEF Spare, TypeOK
  <2>3. d \in Working(l)
    BY <1>0, <2>1, <2>2 DEF Working, Counts, IsLive
  <2>4. d \notin Working(l)'
    BY <1>0, <2>1 DEF Working, Counts, IsLive
  <2>5. Working(l)' \subseteq Working(l) \ {d}
    BY <1>2, <2>4
  <2>6. Spares(l)' \subseteq Spares(l) \cup {x}
    BY <1>0, <1>3 DEF Spares
  <2> QED BY <1>4, <2>3, <2>5, <2>6 DEF Pays, Balanced
<1> QED BY <1>5, <1>6

LEMMA AdoptPays ==
  ASSUME TypeOK, TypeOK', Fits, NEW c \in Call, Adopt(c), NEW l \in DOMAIN token
  PROVE  Pays(l)
<1>0. /\ c \in DOMAIN call /\ call[c].step = "adopt" /\ End(c)
      /\ token' = token /\ stored' = call[c].fresh /\ signedOut' = signedOut
      /\ overlaps' = overlaps /\ faults' = faults
  BY DEF Adopt, At
<1>1. /\ DOMAIN call' = DOMAIN call \ {c}
      /\ \A d \in DOMAIN call' : call'[d] = call[d]
  BY <1>0, EndEnds DEF Ended
<1>2. Working(l)' \subseteq Working(l)
  BY <1>0, <1>1 DEF Working, Counts, IsLive
<1>3. ASSUME NEW t \in DOMAIN token, Spare(t, l)' PROVE Spare(t, l)
  <2>1. CASE LiveSpare(t)'
    BY <1>0, <1>1, <1>3, <2>1 DEF Spare, LiveSpare, IsLive, UsedAt
  <2>2. CASE DeadSpare(t, l)'
    <3>1. PICK e \in DOMAIN call : call[e].step = "adopt" /\ call[e].fresh = t
      BY <1>0, <1>1, <2>2 DEF DeadSpare, OnItsWay
    <3>2. call[c].used # t
      BY <1>0, <3>1 DEF Fits, FreshIsNew
    <3>3. ~IsLive(t) /\ l \notin signedOut /\ OnItsWay(t)
      BY <1>0, <2>2, <3>1 DEF DeadSpare, IsLive, OnItsWay
    <3>4. ~UsedAt(t, {"revoke", "issue", "adopt", "logout"})
      BY <1>1, <2>2, <3>2 DEF DeadSpare, UsedAt
    <3> QED BY <1>0, <1>3, <3>3, <3>4 DEF Spare, DeadSpare
  <2> QED BY <1>3, <2>1, <2>2 DEF Spare
<1> QED BY <1>0, <1>2, <1>3, NeutralPays

LEMMA LoseAnswerPays ==
  ASSUME TypeOK, TypeOK', Fits, NEW c \in Call, LoseAnswer(c), NEW l \in DOMAIN token
  PROVE  Pays(l)
<1>0. /\ c \in DOMAIN call /\ End(c)
      /\ token' = token /\ stored' = stored /\ signedOut' = signedOut
      /\ overlaps' = overlaps
  BY DEF LoseAnswer, At
<1>1. /\ DOMAIN call' = DOMAIN call \ {c}
      /\ \A d \in DOMAIN call' : call'[d] = call[d]
  BY <1>0, EndEnds DEF Ended
<1>2. CASE Fault
  <2>1. Cut(c, call, call') /\ faults' = faults + 1
    BY <1>0, <1>1, <1>2 DEF Cut, Fault
  <2> QED BY <1>0, <2>1, CutPays
<1>3. CASE call[c].step = "refused" /\ faults' = faults
  <2>1. Idle(call, call')
    BY <1>1, <1>3 DEF Idle
  <2> QED BY <1>0, <1>3, <2>1, IdlePays
<1> QED BY <1>2, <1>3 DEF LoseAnswer, At

LEMMA LogoutRevokesPays ==
  ASSUME TypeOK, TypeOK', Fits, NEW c \in Call, LogoutRevokes(c), NEW l \in DOMAIN token
  PROVE  Pays(l)
<1> DEFINE t == call[c].used
<1>0. /\ c \in DOMAIN call /\ call[c].step = "logout" /\ t \in DOMAIN token
      /\ stored' = stored /\ overlaps' = overlaps
      /\ End(c) \/ Goto(c, "clear")
  BY DEF LogoutRevokes, At, TypeOK
<1>1. /\ \A d \in DOMAIN call : d # c => d \in DOMAIN call' /\ call'[d] = call[d]
      /\ \A d \in DOMAIN call' : d \in DOMAIN call
      /\ c \in DOMAIN call' => call'[c].used = t /\ call'[c].step = "clear"
  <2>1. CASE End(c)
    BY <1>0, <2>1, EndEnds DEF Ended
  <2>2. CASE Goto(c, "clear")
    BY <1>0, <2>2, GotoMoves DEF Moved
  <2> QED BY <1>0, <2>1, <2>2
<1>2. CASE Fault /\ token' = token /\ signedOut' = signedOut
  <2>1. Cut(c, call, call') /\ faults' = faults + 1
    BY <1>0, <1>1, <1>2 DEF Cut, Fault
  <2> QED BY <1>0, <1>2, <2>1, CutPays
<1>3. CASE /\ RevokeRefreshToken(t) /\ faults' = faults
           /\ signedOut' = signedOut \cup {token[t].login}
  <2>0. /\ DOMAIN token' = DOMAIN token
        /\ \A u \in DOMAIN token : token'[u].login = token[u].login
        /\ \A u \in DOMAIN token : u # t => token'[u] = token[u]
        /\ token'[t].state = "revoked"
    BY <1>0, <1>3, RevokedTypes
  <2>1. \A d \in DOMAIN call : call[d].used # NoToken => call[d].used \in DOMAIN token
    BY DEF Fits, UsedIsKnown
  <2>2. Working(l)' \subseteq Working(l)
    BY <1>0, <1>1, <1>3, <2>0, <2>1 DEF Working, Counts, IsLive
  <2>3. ASSUME NEW u \in DOMAIN token, Spare(u, l)' PROVE Spare(u, l)
    <3>0. u # t
      BY <1>0, <1>3, <2>0, <2>3 DEF Spare, LiveSpare, DeadSpare, IsLive
    <3>1. CASE LiveSpare(u)'
      BY <1>1, <2>0, <2>3, <3>0, <3>1 DEF Spare, LiveSpare, IsLive, UsedAt
    <3>2. CASE DeadSpare(u, l)'
      <4>1. ~IsLive(u) /\ l \notin signedOut /\ (u = stored \/ OnItsWay(u))
        BY <1>0, <1>1, <1>3, <2>0, <3>0, <3>2 DEF DeadSpare, IsLive, OnItsWay
      <4>2. ~UsedAt(u, {"revoke", "issue", "adopt", "logout"})
        BY <1>1, <3>0, <3>2 DEF DeadSpare, UsedAt
      <4> QED BY <2>0, <2>3, <4>1, <4>2 DEF Spare, DeadSpare
    <3> QED BY <2>3, <3>1, <3>2 DEF Spare
  <2>4. Spares(l)' \subseteq Spares(l)
    BY <2>0, <2>3 DEF Spares
  <2>5. overlaps \in Nat /\ faults \in Nat
    BY SessionsAssumption DEF TypeOK
  <2>6. CASE l \in signedOut \/ l # token[t].login
    <3>1. Free(l)' = Free(l) /\ Free(l) \in Nat
      BY <1>3, <2>6 DEF Free
    <3>2. Allowed(l)' = Allowed(l) /\ Allowed(l) \in Nat
      BY <1>0, <1>3, <2>5, <3>1 DEF Allowed
    <3> QED BY <2>2, <2>4, <3>2 DEF Pays, Balanced
  <2>7. CASE l \notin signedOut /\ l = token[t].login
    <3>1. Free(l)' = 0 /\ Free(l) = 1
      BY <1>3, <2>7 DEF Free
    <3>2. Allowed(l) = Allowed(l)' + 1 /\ Allowed(l)' \in Nat
      BY <1>0, <1>3, <2>5, <3>1 DEF Allowed
    <3>3. c \in Working(l) /\ c \notin Working(l)'
      BY <1>0, <1>1, <2>7, SessionsAssumption DEF Working, Counts, TypeOK
    <3>4. Working(l)' \subseteq Working(l) \ {c}
      BY <2>2, <3>3
    <3> QED BY <2>4, <3>2, <3>3, <3>4 DEF Pays, Balanced
  <2> QED BY <2>6, <2>7
<1> QED BY <1>2, <1>3 DEF LogoutRevokes

LEMMA IssuePays ==
  ASSUME TypeOK, TypeOK', Fits, NEW c \in Call, IssueTokens(c), NEW l \in DOMAIN token
  PROVE  Pays(l)
<1>0. /\ c \in DOMAIN call /\ call[c].step = "issue"
      /\ stored' = stored /\ signedOut' = signedOut /\ overlaps' = overlaps
  BY IssueCalls DEF IssueTokens
<1>1. CASE /\ Fault /\ token' = token
           /\ Moved(c, "refused") /\ call'[c].used = call[c].used
  <2>1. Cut(c, call, call') /\ faults' = faults + 1
    BY <1>0, <1>1 DEF Moved, Cut, Fault
  <2> QED BY <1>0, <1>1, <2>1, CutPays
<1>2. ASSUME faults' = faults, NEW t \in TokenId, Issued(c, t)
      PROVE  Pays(l)
  <2>0. /\ t \notin DOMAIN token /\ DOMAIN token' = DOMAIN token \cup {t}
        /\ \A u \in DOMAIN token : token'[u] = token[u]
        /\ token'[t].login = LoginOf(c, t)
        /\ DOMAIN call' = DOMAIN call
        /\ \A d \in DOMAIN call : d # c => call'[d] = call[d]
        /\ call'[c].used = call[c].used /\ call'[c].step = "adopt" /\ call'[c].fresh = t
    BY <1>2 DEF Issued, Moved
  <2>1. \A d \in DOMAIN call : call[d].used # NoToken => call[d].used \in DOMAIN token
    BY DEF Fits, UsedIsKnown
  <2>2. Working(l)' \subseteq Working(l)
    BY <1>0, <2>0, <2>1 DEF Working, Counts, IsLive
  <2>3. ASSUME NEW u \in DOMAIN token, Spare(u, l)' PROVE Spare(u, l)
    <3>1. CASE LiveSpare(u)'
      BY <1>0, <2>0, <2>3, <3>1 DEF Spare, LiveSpare, IsLive, UsedAt
    <3>2. CASE DeadSpare(u, l)'
      <4>1. ~IsLive(u) /\ l \notin signedOut /\ (u = stored \/ OnItsWay(u))
        BY <1>0, <2>0, <3>2 DEF DeadSpare, IsLive, OnItsWay
      <4>2. ~UsedAt(u, {"revoke", "issue", "adopt", "logout"})
        BY <2>0, <3>2 DEF DeadSpare, UsedAt
      <4> QED BY <2>0, <2>3, <4>1, <4>2 DEF Spare, DeadSpare
    <3> QED BY <2>3, <3>1, <3>2 DEF Spare
  <2>4. Spares(l)' \subseteq Spares(l) \cup {t}
    BY <2>0, <2>3 DEF Spares
  <2>5. CASE LoginOf(c, t) # l
    <3>1. ~Spare(t, l)'
      BY <2>0, <2>5 DEF Spare
    <3> QED BY <1>0, <1>2, <2>0, <2>2, <2>3, <3>1, NeutralPays
  <2>6. CASE LoginOf(c, t) = l
    <3>1. call[c].used # NoToken /\ token[call[c].used].login = l
      BY <2>0, <2>6 DEF LoginOf
    <3>2. c \in Working(l) /\ c \notin Working(l)'
      BY <1>0, <2>0, <3>1 DEF Working, Counts
    <3>3. Working(l)' \subseteq Working(l) \ {c}
      BY <2>2, <3>2
    <3>4. Allowed(l) \in Nat /\ Allowed(l)' = Allowed(l)
      BY <1>0, <1>2, AllowedGrows
    <3> QED BY <2>4, <3>2, <3>3, <3>4 DEF Pays, Balanced
  <2> QED BY <2>5, <2>6
<1> QED BY <1>1, <1>2, IssueCalls

(* The chain of a login begins with one token and nothing else. *)
LEMMA NewLoginCovered ==
  ASSUME TypeOK, TypeOK', Fits, NEW c \in Call, IssueTokens(c),
         NEW l \in DOMAIN token', l \notin DOMAIN token
  PROVE  Covered(Working(l)', Spares(l)', Allowed(l)')
<1>1. faults' = faults /\ Issued(c, l)
  BY IssueCalls DEF Issued
<1>2. /\ DOMAIN token' = DOMAIN token \cup {l}
      /\ \A u \in DOMAIN token : token'[u] = token[u]
      /\ DOMAIN call' = DOMAIN call
      /\ \A d \in DOMAIN call : call'[d].used = call[d].used
  BY <1>1 DEF Issued, Moved
<1>3. /\ \A u \in DOMAIN token : token'[u].login # l
      /\ \A d \in DOMAIN call : call[d].used # NoToken => call[d].used \in DOMAIN token
  BY <1>2 DEF Fits, UsedIsKnown
<1>4. Working(l)' = {}
  BY <1>2, <1>3 DEF Working, Counts
<1>5. Spares(l)' \subseteq {} \cup {l}
  BY <1>2, <1>3 DEF Spares, Spare
<1>6. Cardinality(Working(l)') = 0
  BY <1>4, FS_EmptySet
<1>7. Cardinality(Spares(l)') \in Nat /\ Cardinality(Spares(l)') <= 1
  <2>1. Cardinality(Spares(l)') \in Nat /\ Cardinality(Spares(l)') <= Cardinality({}) + 1
    BY <1>5, SubsetSize, FS_EmptySet
  <2> QED BY <2>1, FS_EmptySet
<1>8. Allowed(l)' \in Nat /\ Allowed(l)' >= 1
  <2>1. Free(l)' = 1
    BY DEF Free, Fits, IssueTokens
  <2>2. overlaps' \in Nat /\ faults' \in Nat
    BY SessionsAssumption DEF TypeOK
  <2>3. overlaps' + faults' + 1 \in Nat /\ overlaps' + faults' + 1 >= 1
    <3>1. ASSUME NEW n \in Nat, NEW m \in Nat PROVE n + m + 1 \in Nat /\ n + m + 1 >= 1
      OBVIOUS
    <3> QED BY <2>2, <3>1
  <2> QED BY <2>1, <2>3 DEF Allowed
<1> HIDE DEF Allowed
<1> QED BY <1>6, <1>7, <1>8 DEF Covered

LEMMA NextPaid ==
  ASSUME TypeOK, TypeOK', Fits, Paid, [Next]_vars
  PROVE  Paid'
<1>1. CASE UNCHANGED vars
  BY <1>1 DEF vars, Paid, Covered, Working, Counts, IsLive, Spares, Spare, LiveSpare,
     DeadSpare, UsedAt, OnItsWay, Allowed, Free
<1>2. ASSUME NEW b \in Tab, AccessExpires(b), NEW l \in DOMAIN token
      PROVE  Pays(l)
  <2>1. Idle(call, call')
    BY <1>2 DEF AccessExpires, Idle
  <2> QED BY <1>2, <2>1, IdlePays DEF AccessExpires
<1>3. ASSUME NEW c \in Call, NEW b \in Tab, Login(c, b) \/ Unauthorized(c, b),
             NEW l \in DOMAIN token
      PROVE  Pays(l)
  <2>1. \/ Began(c, New("login", "issue", b, NoToken))
        \/ Began(c, New("request", "unauthorized", b, NoToken))
    BY <1>3, PutBegins DEF Login, Unauthorized
  <2>2. Idle(call, call')
    BY <2>1 DEF Began, New, Idle
  <2> QED BY <1>3, <2>2, IdlePays DEF Login, Unauthorized
<1>4. ASSUME NEW c \in Call, NEW b \in Tab, Reload(c, b), NEW l \in DOMAIN token
      PROVE  Pays(l)
  <2>0. /\ token' = token /\ signedOut' = signedOut /\ stored' = stored /\ faults' = faults
        /\ c \notin DOMAIN call
    BY <1>4 DEF Reload
  <2>1. CASE overlaps' = overlaps /\ Reloaded(b, call')
    <3>1. Idle(call, call')
      BY <2>1 DEF Reloaded, Idle
    <3> QED BY <2>0, <2>1, <3>1, IdlePays
  <2>2. ASSUME stored # NoToken, Overlap(stored), NEW calls, Reloaded(b, calls),
               DOMAIN call' = DOMAIN calls \cup {c},
               \A d \in DOMAIN calls : call'[d] = calls[d],
               call'[c] = New("resume", "lookup", b, stored)
        PROVE  Pays(l)
    <3>1. call'[c].used = stored /\ call'[c].step = "lookup"
      BY <2>2 DEF New
    <3>2. Starts(c, call, call')
      BY <2>0, <2>2, <3>1 DEF Reloaded, Starts
    <3> QED BY <2>0, <2>2, <3>2, StartsPays
  <2> QED BY <1>4, <2>1, <2>2, ReloadCalls
<1>5. ASSUME NEW c \in Call, NEW b \in Tab, Logout(c, b), NEW l \in DOMAIN token
      PROVE  Pays(l)
  <2>0. /\ token' = token /\ signedOut' = signedOut /\ stored' = stored /\ faults' = faults
        /\ Overlap(stored)
        /\ Began(c, New("logout", IF stored = NoToken THEN "clear" ELSE "logout", b, stored))
    BY <1>5, PutBegins DEF Logout
  <2>1. CASE stored = NoToken
    <3>1. Idle(call, call')
      BY <2>0, <2>1 DEF Began, New, Idle
    <3>2. overlaps' = overlaps
      BY <2>0, <2>1 DEF Overlap, Using
    <3> QED BY <2>0, <3>1, <3>2, IdlePays
  <2>2. CASE stored # NoToken
    <3>1. Starts(c, call, call')
      BY <2>0, <2>2 DEF Began, New, Starts
    <3> QED BY <2>0, <2>2, <3>1, StartsPays
  <2> QED BY <2>1, <2>2
<1>6. ASSUME NEW c \in Call, TryRefresh(c), NEW l \in DOMAIN token
      PROVE  Pays(l)
  <2>0. /\ token' = token /\ signedOut' = signedOut /\ stored' = stored /\ faults' = faults
        /\ call[c].step = "unauthorized"
    BY <1>6, TryRefreshCalls DEF TryRefresh
  <2>1. CASE overlaps' = overlaps /\ Ended(c)
    <3>1. Idle(call, call')
      BY <2>0, <2>1 DEF Ended, Idle
    <3> QED BY <2>0, <2>1, <3>1, IdlePays
  <2>2. CASE /\ stored # NoToken /\ Overlap(stored) /\ Moved(c, "lookup")
             /\ call'[c].used = stored
    <3>1. Starts(c, call, call')
      BY <2>0, <2>2 DEF Moved, Starts
    <3> QED BY <2>0, <2>2, <3>1, StartsPays
  <2> QED BY <1>6, <2>1, <2>2, TryRefreshCalls
<1>7. ASSUME NEW c \in Call, DropTokens(c) \/ ClearTokens(c), NEW l \in DOMAIN token
      PROVE  Pays(l)
  <2>0. /\ token' = token /\ signedOut' = signedOut /\ faults' = faults /\ overlaps' = overlaps
        /\ stored' = stored \/ stored' = NoToken
        /\ c \in DOMAIN call /\ call[c].step \in {"refused", "clear"} /\ End(c)
    BY <1>7 DEF DropTokens, ClearTokens, At
  <2>1. Idle(call, call')
    BY <2>0, EndEnds DEF Ended, Idle
  <2> QED BY <2>0, <2>1, IdlePays
<1>8. CASE \E c \in Call : IssueTokens(c)
  <2>1. PICK c \in Call : IssueTokens(c)
    BY <1>8
  <2>2. ASSUME NEW l \in DOMAIN token' PROVE Covered(Working(l)', Spares(l)', Allowed(l)')
    <3>1. CASE l \in DOMAIN token
      BY <2>1, <3>1, IssuePays, PaysCovers
    <3>2. CASE l \notin DOMAIN token
      BY <2>1, <2>2, <3>2, NewLoginCovered
    <3> QED BY <3>1, <3>2
  <2> QED BY <2>2 DEF Paid
<1>9. CASE /\ DOMAIN token' = DOMAIN token
           /\ \A l \in DOMAIN token : Pays(l)
  BY <1>9, PaysCovers DEF Paid
<1>10. CASE Next /\ ~\E c \in Call : IssueTokens(c)
  <2>1. ASSUME NEW l \in DOMAIN token PROVE Pays(l)
    BY <1>2, <1>3, <1>4, <1>5, <1>6, <1>7, <1>10, LookupPays, RotatePays, AdoptPays,
       LoseAnswerPays, LogoutRevokesPays, RefreshExpiresPays
    DEF Next
  <2>2. DOMAIN token' = DOMAIN token
    BY <1>10 DEF Next, Login, Unauthorized, Reload, Logout, TryRefresh, Lookup, Rotate,
       Adopt, DropTokens, LoseAnswer, LogoutRevokes, ClearTokens, AccessExpires,
       RefreshExpires, RevokeRefreshToken
  <2> QED BY <1>9, <2>1, <2>2
<1> QED BY <1>1, <1>8, <1>10

LEMMA PaidHolds == Spec => []Paid
<1>1. Init => Paid
  BY DEF Init, Paid
<1>2. TypeOK /\ Fits /\ (TypeOK /\ Fits)' /\ Paid /\ [Next]_vars => Paid'
  BY NextPaid
<1> QED BY <1>1, <1>2, FitsHolds, PTL DEF Spec

(* A login is worth one live token, and none once its sign-out has reached the *)
(* server, but for the calls that used a token side by side and the faults     *)
(* (auth_handlers.go:151-178).                                                 *)
THEOREM LiveTokensHold == Spec => []LiveTokensAreExplained
<1>1. TypeOK /\ Fits /\ Paid => LiveTokensAreExplained
  <2> SUFFICES ASSUME TypeOK, Fits, Paid, NEW l \in DOMAIN token
               PROVE  Cardinality(Live(l)) <= Free(l) + overlaps + faults
    BY DEF LiveTokensAreExplained, Free
  <2>1. IsFiniteSet(Working(l)) /\ IsFiniteSet(Spares(l)) /\ IsFiniteSet(Live(l))
    BY FS_Subset DEF Fits, Working, Spares, Live
  <2> DEFINE busy == Live(l) \ Spares(l)
             user == [t \in busy |-> CHOOSE d \in Working(l) : call[d].used = t]
  <2>2. ASSUME NEW t \in busy
        PROVE  \E d \in Working(l) : call[d].used = t
    <3>1. t \in DOMAIN token /\ token[t].login = l /\ IsLive(t) /\ t # NoToken
      BY SessionsAssumption DEF Live, IsLive, TypeOK
    <3>2. UsedAt(t, {"lookup", "revoke", "logout"})
      BY <3>1 DEF Spares, Spare, LiveSpare
    <3> QED BY <3>1, <3>2 DEF UsedAt, Working, Counts
  <2>3. user \in Injection(busy, Working(l))
    <3>1. \A t \in busy : user[t] \in Working(l) /\ call[user[t]].used = t
      BY <2>2
    <3> QED BY <3>1 DEF Injection, IsInjective
  <2>4. Cardinality(busy) <= Cardinality(Working(l))
    <3> HIDE DEF busy, user
    <3> QED BY <2>1, <2>3, FS_Injection
  <2>5. /\ Cardinality(busy) = Cardinality(Live(l)) - Cardinality(Live(l) \cap Spares(l))
        /\ Cardinality(busy) \in Nat
    BY <2>1, FS_Difference, FS_CardinalityType
  <2>6. Cardinality(Live(l) \cap Spares(l)) <= Cardinality(Spares(l))
    BY <2>1, FS_Subset
  <2>7. /\ Cardinality(Live(l)) \in Nat /\ Cardinality(Spares(l)) \in Nat
        /\ Cardinality(Working(l)) \in Nat /\ Cardinality(Live(l) \cap Spares(l)) \in Nat
    BY <2>1, FS_CardinalityType, FS_Subset
  <2>8. Cardinality(Working(l)) + Cardinality(Spares(l)) <= overlaps + faults + Free(l)
    BY DEF Paid, Covered, Allowed
  <2>9. Free(l) \in Nat /\ overlaps \in Nat /\ faults \in Nat
    BY SessionsAssumption DEF TypeOK, Free
  <2> HIDE DEF busy
  <2> QED BY <2>4, <2>5, <2>6, <2>7, <2>8, <2>9
<1> QED BY <1>1, FitsHolds, PaidHolds, PTL

----------------------------------------------------------------------------
(* The browser's own token.  Once it was revoked, or a sign-out that nobody    *)
(* waits for is about to revoke it, a call is under way that will replace or   *)
(* drop it.                                                                    *)
Rescues(d) ==
  /\ call[d].used = stored
  /\ \/ call[d].step \in {"issue", "adopt", "clear"}
     \/ ~call[d].gone /\ call[d].step \in {"lookup", "revoke", "refused"}

AtRisk ==
  /\ stored # NoToken
  /\ \/ token[stored].state = "revoked"
     \/ \E d \in DOMAIN call :
          call[d].used = stored /\ call[d].step = "logout" /\ call[d].gone

Rescued == (faults = 0 /\ AtRisk) => \E d \in DOMAIN call : Rescues(d)

(* A step that leaves the stored token as it is, and at no new risk. *)
LEMMA RescueStays ==
  ASSUME Rescued, stored' = stored, faults' = 0 => faults = 0, AtRisk' => AtRisk,
         \A d \in DOMAIN call : stored # NoToken /\ Rescues(d) => \E e \in DOMAIN call' : Rescues(e)'
  PROVE  Rescued'
BY DEF Rescued, AtRisk

LEMMA FaultShows ==
  ASSUME TypeOK, Fault
  PROVE  Rescued'
BY SessionsAssumption DEF TypeOK, Fault, Rescued

LEMMA BeganRescued ==
  ASSUME Rescued, NEW c, NEW p, Began(c, p), ~p.gone,
         token' = token, stored' = stored, faults' = faults
  PROVE  Rescued'
<1>1. AtRisk' => AtRisk
  BY DEF AtRisk, Began
<1>2. \A d \in DOMAIN call : Rescues(d) => d \in DOMAIN call' /\ Rescues(d)'
  BY DEF Began, Rescues
<1> QED BY <1>1, <1>2, RescueStays

LEMMA EndedRescued ==
  ASSUME Rescued, NEW c, Ended(c), ~(stored # NoToken /\ Rescues(c)),
         token' = token, stored' = stored, faults' = faults
  PROVE  Rescued'
<1>1. AtRisk' => AtRisk
  BY DEF AtRisk, Ended
<1>2. \A d \in DOMAIN call :
        stored # NoToken /\ Rescues(d) => d \in DOMAIN call' /\ Rescues(d)'
  BY DEF Ended, Rescues
<1> QED BY <1>1, <1>2, RescueStays

LEMMA MovedRescued ==
  ASSUME Rescued, NEW c, NEW step, Moved(c, step), step # "logout",
         call'[c].used = call[c].used, stored' = stored, faults' = faults,
         stored # NoToken => token'[stored] = token[stored],
         stored # NoToken /\ Rescues(c) => Rescues(c)'
  PROVE  Rescued'
<1>1. AtRisk' => AtRisk
  BY DEF AtRisk, Moved
<1>2. \A d \in DOMAIN call :
        stored # NoToken /\ Rescues(d) => d \in DOMAIN call' /\ Rescues(d)'
  BY DEF Moved, Rescues
<1> QED BY <1>1, <1>2, RescueStays

LEMMA TryRefreshRescued ==
  ASSUME TypeOK, Fits, Rescued, NEW c \in Call, TryRefresh(c)
  PROVE  Rescued'
<1>0. token' = token /\ stored' = stored /\ faults' = faults
  BY DEF TryRefresh
<1>1. CASE stored = NoToken
  BY <1>0, <1>1 DEF Rescued, AtRisk
<1>2. CASE stored # NoToken
  <2>1. Moved(c, "lookup") /\ call[c].step = "unauthorized"
    BY <1>2, TryRefreshCalls
  <2>2. AtRisk' => AtRisk
    BY <1>0, <2>1 DEF AtRisk, Moved
  <2>3. \A d \in DOMAIN call : Rescues(d) => d \in DOMAIN call' /\ Rescues(d)'
    BY <1>0, <2>1 DEF Moved, Rescues
  <2> QED BY <1>0, <2>2, <2>3, RescueStays
<1> QED BY <1>1, <1>2

LEMMA ReloadRescued ==
  ASSUME TypeOK, Fits, Rescued, NEW c \in Call, NEW b \in Tab, Reload(c, b)
  PROVE  Rescued'
<1>0. stored' = stored
  BY DEF Reload
<1>1. CASE stored = NoToken
  BY <1>0, <1>1 DEF Rescued, AtRisk
<1>2. CASE stored # NoToken
  <2>1. c \in DOMAIN call' /\ call'[c] = New("resume", "lookup", b, stored)
    BY <1>2, ReloadCalls
  <2>2. Rescues(c)'
    BY <1>0, <2>1 DEF Rescues, New
  <2> QED BY <2>1, <2>2 DEF Rescued
<1> QED BY <1>1, <1>2

LEMMA AdoptRescued ==
  ASSUME TypeOK, Fits, NEW c \in Call, Adopt(c)
  PROVE  Rescued'
<1>1. c \in DOMAIN call /\ FreshIsNew(c) /\ Ended(c)
  BY EndEnds DEF Adopt, At, Fits
<1>2. stored' = call[c].fresh /\ token' = token
  BY DEF Adopt
<1>3. ~AtRisk'
  BY <1>1, <1>2 DEF AtRisk, FreshIsNew, Ended
<1> QED BY <1>3 DEF Rescued

LEMMA DropTokensRescued ==
  ASSUME TypeOK, Fits, Rescued, NEW c \in Call, DropTokens(c)
  PROVE  Rescued'
<1>1. c \in DOMAIN call /\ UsedIsKnown(c) /\ Ended(c) /\ token' = token /\ faults' = faults
  BY EndEnds DEF DropTokens, At, Fits
<1>2. CASE call[c].kind = "login"
  <2>1. stored' = stored /\ call[c].used = NoToken
    BY <1>1, <1>2 DEF DropTokens, UsedIsKnown
  <2> QED BY <1>1, <2>1, EndedRescued DEF Rescues
<1>3. CASE call[c].kind # "login"
  BY <1>3 DEF DropTokens, Rescued, AtRisk
<1> QED BY <1>2, <1>3

LEMMA LoseAnswerRescued ==
  ASSUME TypeOK, Rescued, NEW c \in Call, LoseAnswer(c)
  PROVE  Rescued'
<1>1. CASE call[c].gone /\ At(c, "refused")
  <2>1. Ended(c) /\ faults' = faults /\ token' = token /\ stored' = stored
    BY <1>1, EndEnds DEF LoseAnswer, At
  <2>2. ~Rescues(c)
    BY <1>1 DEF Rescues, At
  <2> QED BY <2>1, <2>2, EndedRescued
<1>2. CASE ~(call[c].gone /\ At(c, "refused"))
  BY <1>2, FaultShows DEF LoseAnswer
<1> QED BY <1>1, <1>2

LEMMA LookupRescued ==
  ASSUME TypeOK, Rescued, NEW c \in Call, Lookup(c)
  PROVE  Rescued'
<1>1. c \in DOMAIN call /\ call[c].step = "lookup" /\ token' = token /\ stored' = stored
  BY DEF Lookup, At
<1>2. ASSUME faults' = faults, NEW step \in {"revoke", "refused"}, Goto(c, step)
      PROVE  Rescued'
  <2>1. Moved(c, step) /\ call'[c].used = call[c].used
    BY <1>1, <1>2, GotoMoves
  <2>2. Rescues(c) => Rescues(c)'
    BY <1>1, <1>2, <2>1 DEF Rescues, Moved
  <2> QED BY <1>1, <1>2, <2>1, <2>2, MovedRescued
<1> QED BY <1>2, FaultShows DEF Lookup

LEMMA RotateRescued ==
  ASSUME TypeOK, Rescued, NEW c \in Call, Rotate(c)
  PROVE  Rescued'
<1>1. /\ c \in DOMAIN call /\ call[c].step = "revoke" /\ call[c].used \in DOMAIN token
      /\ stored' = stored /\ Goto(c, "issue")
  BY DEF Rotate, At, TypeOK
<1>2. Moved(c, "issue") /\ call'[c].used = call[c].used
  BY <1>1, GotoMoves
<1>3. CASE call[c].used = stored
  <2>1. c \in DOMAIN call' /\ Rescues(c)'
    BY <1>1, <1>2, <1>3 DEF Rescues, Moved
  <2> QED BY <2>1 DEF Rescued
<1>4. CASE call[c].used # stored /\ RevokeRefreshToken(call[c].used) /\ faults' = faults
  <2>1. stored # NoToken => token'[stored] = token[stored]
    BY <1>1, <1>4, RevokedTypes DEF TypeOK
  <2>2. ~Rescues(c)
    BY <1>4 DEF Rescues
  <2> QED BY <1>1, <1>2, <1>4, <2>1, <2>2, MovedRescued
<1> QED BY <1>3, <1>4, FaultShows DEF Rotate

LEMMA IssueRescued ==
  ASSUME TypeOK, Rescued, NEW c \in Call, IssueTokens(c)
  PROVE  Rescued'
<1>1. stored' = stored /\ c \in DOMAIN call /\ call[c].step = "issue"
  BY IssueCalls DEF IssueTokens
<1>2. ASSUME faults' = faults, NEW t \in TokenId, Issued(c, t)
      PROVE  Rescued'
  <2>1. Moved(c, "adopt") /\ call'[c].used = call[c].used
    BY <1>2 DEF Issued
  <2>2. stored # NoToken => token'[stored] = token[stored]
    BY <1>2 DEF Issued, TypeOK
  <2>3. Rescues(c) => Rescues(c)'
    BY <1>1, <2>1 DEF Rescues, Moved
  <2> QED BY <1>1, <1>2, <2>1, <2>2, <2>3, MovedRescued
<1> QED BY <1>2, IssueCalls, FaultShows

(* A sign-out that nobody waits for revokes a token that was at risk already. *)
LEMMA LogoutRevokesRescued ==
  ASSUME TypeOK, Rescued, NEW c \in Call, LogoutRevokes(c)
  PROVE  Rescued'
<1>1. /\ c \in DOMAIN call /\ call[c].step = "logout" /\ call[c].used \in DOMAIN token
      /\ stored' = stored
  BY DEF LogoutRevokes, At, TypeOK
<1> SUFFICES ASSUME RevokeRefreshToken(call[c].used), faults' = faults
             PROVE  Rescued'
  BY FaultShows DEF LogoutRevokes
<1>2. call[c].used # stored => (stored # NoToken => token'[stored] = token[stored])
  BY <1>1, RevokedTypes DEF TypeOK
<1>3. CASE ~call[c].gone
  <2>1. Moved(c, "clear") /\ call'[c].used = call[c].used
    BY <1>1, <1>3, GotoMoves DEF LogoutRevokes
  <2>2. CASE call[c].used = stored
    <3>1. c \in DOMAIN call' /\ Rescues(c)'
      BY <1>1, <2>1, <2>2 DEF Rescues, Moved
    <3> QED BY <3>1 DEF Rescued
  <2>3. CASE call[c].used # stored
    BY <1>1, <1>2, <2>1, <2>3, MovedRescued DEF Rescues
  <2> QED BY <2>2, <2>3
<1>4. CASE call[c].gone
  <2>1. Ended(c)
    BY <1>1, <1>4, EndEnds DEF LogoutRevokes
  <2>2. \A d \in DOMAIN call : Rescues(d) => d \in DOMAIN call' /\ Rescues(d)'
    BY <1>1, <2>1 DEF Ended, Rescues
  <2>3. AtRisk' => AtRisk
    BY <1>1, <1>2, <1>4, <2>1 DEF AtRisk, Ended
  <2> QED BY <1>1, <2>2, <2>3, RescueStays
<1> QED BY <1>3, <1>4

LEMMA NextRescued ==
  ASSUME TypeOK, Fits, Rescued, [Next]_vars
  PROVE  Rescued'
<1>1. CASE UNCHANGED vars
  BY <1>1 DEF vars, Rescued, AtRisk, Rescues
<1>2. ASSUME NEW b \in Tab, AccessExpires(b) PROVE Rescued'
  BY <1>2 DEF AccessExpires, Rescued, AtRisk, Rescues
<1>3. ASSUME NEW t \in DOMAIN token, RefreshExpires(t) PROVE Rescued'
  <2>1. /\ stored' = stored /\ call' = call /\ faults' = faults
        /\ stored # NoToken => (token'[stored].state = "revoked" => token[stored].state = "revoked")
    BY <1>3 DEF RefreshExpires, TypeOK, RefreshToken
  <2>2. AtRisk' => AtRisk
    BY <2>1 DEF AtRisk
  <2>3. \A d \in DOMAIN call : Rescues(d) => Rescues(d)'
    BY <2>1 DEF Rescues
  <2> QED BY <2>1, <2>2, <2>3, RescueStays
<1>4. ASSUME NEW c \in Call, NEW b \in Tab, Login(c, b) \/ Unauthorized(c, b) \/ Logout(c, b)
      PROVE  Rescued'
  <2>1. /\ token' = token /\ stored' = stored /\ faults' = faults
        /\ \/ Began(c, New("login", "issue", b, NoToken))
           \/ Began(c, New("request", "unauthorized", b, NoToken))
           \/ Began(c, New("logout", IF stored = NoToken THEN "clear" ELSE "logout", b, stored))
    BY <1>4, PutBegins DEF Login, Unauthorized, Logout
  <2>2. \A kind, step, used : ~New(kind, step, b, used).gone
    BY DEF New
  <2> QED BY <2>1, <2>2, BeganRescued
<1>5. ASSUME NEW c \in Call, ClearTokens(c) PROVE Rescued'
  BY <1>5 DEF ClearTokens, Rescued, AtRisk
<1> QED BY <1>1, <1>2, <1>3, <1>4, <1>5, ReloadRescued, TryRefreshRescued, LookupRescued,
        RotateRescued, IssueRescued, AdoptRescued, DropTokensRescued, LoseAnswerRescued,
        LogoutRevokesRescued
    DEF Next

(* As long as no message is lost and no store call fails, a browser at rest    *)
(* does not keep a token that was revoked: whoever revokes it replaces or      *)
(* drops it, also in another tab (api.ts:209-228, 293-298; auth.tsx:33-50).    *)
THEOREM StoredTokenHolds == Spec => []StoredTokenIsUsable
<1>1. Init => Rescued
  BY DEF Init, Rescued, AtRisk
<1>2. TypeOK /\ Fits /\ (TypeOK /\ Fits)' /\ Rescued /\ [Next]_vars => Rescued'
  BY NextRescued
<1>3. Rescued => StoredTokenIsUsable
  BY DEF Rescued, AtRisk, StoredTokenIsUsable
<1> QED BY <1>1, <1>2, <1>3, FitsHolds, PTL DEF Spec
===============================================================================
