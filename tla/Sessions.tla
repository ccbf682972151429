------------------------------- MODULE Sessions -------------------------------
(***************************************************************************)
(* Sign-in, token refresh and sign-out: the web client (web/src/api.ts and  *)
(* auth.tsx) against the auth handlers (internal/api/auth_handlers.go) and  *)
(* the refresh_tokens table (internal/store/refresh_tokens.go).  Tabs of    *)
(* one browser share the stored refresh token and have an access token      *)
(* each.  A handler looks the token up, revokes it and issues the next one  *)
(* by separate calls, and a tab refreshes for every request that comes back *)
(* with a 401.                                                              *)
(***************************************************************************)
EXTENDS Integers, FiniteSets

CONSTANTS
  Tab,          \* tabs of the browser
  Call,         \* slots for calls under way
  TokenId,      \* refresh tokens, numbered in the order they are issued
  MaxOverlaps,  \* calls that start with a token another call is using
  MaxFaults     \* store errors and lost messages

NoToken == 0

ASSUME SessionsAssumption ==
  /\ TokenId \subseteq Nat \ {0}
  /\ MaxOverlaps \in Nat /\ MaxFaults \in Nat

VARIABLES
  token,        \* the refresh_tokens table
  stored,       \* the refresh token in localStorage
  access,       \* per tab: its access token
  session,      \* per tab: the screen shows somebody signed in
  call,         \* the calls under way
  signedOut,    \* the logins whose sign-out reached the server
  overlaps, faults

vars == <<token, stored, access, session, call, signedOut, overlaps, faults>>

(* A row, and the login it descends from: the first token of its chain. *)
RefreshToken == [state: {"live", "revoked", "expired"}, login: TokenId]

(* "unauthorized" is a request that came back with a 401, "lookup", "revoke"   *)
(* and "issue" are in handleRefresh (a login starts at "issue"), "adopt" and   *)
(* "refused" are answers on their way; "logout" and "clear" are a sign-out.    *)
Pending == [kind: {"request", "resume", "login", "logout"},
            step: {"unauthorized", "lookup", "revoke", "issue", "adopt", "refused",
                   "logout", "clear"},
            tab: Tab, gone: BOOLEAN,
            used: TokenId \cup {NoToken}, fresh: TokenId \cup {NoToken}]

(* A call that is to use a token has one that was issued, and so has the one   *)
(* that brings a pair; the browser stores no other.                            *)
TypeOK ==
  /\ DOMAIN token \subseteq TokenId
  /\ \A t \in DOMAIN token : token[t] \in RefreshToken
  /\ stored \in DOMAIN token \cup {NoToken}
  /\ access \in [Tab -> {"none", "live", "expired"}]
  /\ session \in [Tab -> BOOLEAN]
  /\ DOMAIN call \subseteq Call
  /\ \A c \in DOMAIN call :
       /\ call[c] \in Pending
       /\ call[c].step \in {"lookup", "revoke", "logout"} => call[c].used \in DOMAIN token
       /\ call[c].step = "adopt" => call[c].fresh \in DOMAIN token
  /\ signedOut \subseteq TokenId
  /\ overlaps \in 0..MaxOverlaps
  /\ faults \in 0..MaxFaults

Init ==
  /\ token = [t \in {} |-> NoToken]
  /\ stored = NoToken
  /\ access = [b \in Tab |-> "none"]
  /\ session = [b \in Tab |-> FALSE]
  /\ call = [c \in {} |-> NoToken]
  /\ signedOut = {}
  /\ overlaps = 0
  /\ faults = 0

----------------------------------------------------------------------------
At(c, step) == c \in DOMAIN call /\ call[c].step = step
Goto(c, step) == call' = [call EXCEPT ![c].step = step]
End(c) == call' = [d \in DOMAIN call \ {c} |-> call[d]]
Put(c, p, others) ==
  call' = [d \in DOMAIN others \cup {c} |-> IF d = c THEN p ELSE others[d]]

Fault == faults < MaxFaults /\ faults' = faults + 1

(* Starting to use a token that another call is using is an overlap. *)
Using(t) == {d \in DOMAIN call : t # NoToken /\ call[d].used = t}
Overlap(t) ==
  \/ Using(t) = {} /\ UNCHANGED overlaps
  \/ Using(t) # {} /\ overlaps < MaxOverlaps /\ overlaps' = overlaps + 1

New(kind, step, b, used) ==
  [kind |-> kind, step |-> step, tab |-> b, gone |-> FALSE, used |-> used, fresh |-> NoToken]

(* The tab is signing in, resuming or signing out: its screen offers nothing.  *)
Busy(b) ==
  \E d \in DOMAIN call : call[d].tab = b /\ ~call[d].gone /\ call[d].kind # "request"

----------------------------------------------------------------------------
(* The client *)

(* A login with the right password. *)
Login(c, b) ==
  /\ c \notin DOMAIN call
  /\ ~session[b]
  /\ ~Busy(b)
  /\ Put(c, New("login", "issue", b, NoToken), call)
  /\ UNCHANGED <<token, stored, access, session, signedOut, overlaps, faults>>

(* The 15 minutes of an access token are over. *)
AccessExpires(b) ==
  /\ access[b] = "live"
  /\ access' = [access EXCEPT ![b] = "expired"]
  /\ UNCHANGED <<token, stored, session, call, signedOut, overlaps, faults>>

(* A 401: a request without a valid access token, or a login with the wrong    *)
(* password.                                                                   *)
Unauthorized(c, b) ==
  /\ c \notin DOMAIN call
  /\ IF session[b] THEN access[b] # "live" ELSE ~Busy(b)
  /\ Put(c, New("request", "unauthorized", b, NoToken), call)
  /\ UNCHANGED <<token, stored, access, session, signedOut, overlaps, faults>>

(* Mutant: a refresh is asked for although no token is stored. *)
TryRefreshUnchecked(c) ==
  /\ At(c, "unauthorized")
  /\ Overlap(stored)
  /\ call' = [call EXCEPT ![c].step = "lookup", ![c].used = stored]
  /\ UNCHANGED <<token, stored, access, session, signedOut, faults>>

(* tryRefresh reads the stored token when the 401 arrives. *)
TryRefresh(c) ==
  /\ At(c, "unauthorized")
  /\ IF stored = NoToken
     THEN End(c) /\ UNCHANGED overlaps
     ELSE /\ Overlap(stored)
          /\ call' = [call EXCEPT ![c].step = "lookup", ![c].used = stored]
  /\ UNCHANGED <<token, stored, access, session, signedOut, faults>>

(* Mutant: the new refresh token is not stored. *)
AdoptAccessOnly(c) ==
  LET b == call[c].tab IN
  /\ At(c, "adopt")
  /\ ~call[c].gone
  /\ access' = [access EXCEPT ![b] = "live"]
  /\ stored' = IF call[c].kind = "request" THEN stored ELSE call[c].fresh
  /\ session' = IF call[c].kind = "request" THEN session ELSE [session EXCEPT ![b] = TRUE]
  /\ End(c)
  /\ UNCHANGED <<token, signedOut, overlaps, faults>>

(* A pair of tokens arrives, for a refresh, a reload or a login. *)
Adopt(c) ==
  LET b == call[c].tab IN
  /\ At(c, "adopt")
  /\ ~call[c].gone
  /\ access' = [access EXCEPT ![b] = "live"]
  /\ stored' = call[c].fresh
  /\ session' = IF call[c].kind = "request" THEN session ELSE [session EXCEPT ![b] = TRUE]
  /\ End(c)
  /\ UNCHANGED <<token, signedOut, overlaps, faults>>

(* Any answer but 2xx to a refresh drops the tokens, whichever they are by now. *)
DropTokens(c) ==
  /\ At(c, "refused")
  /\ ~call[c].gone
  /\ IF call[c].kind = "login"
     THEN UNCHANGED <<stored, access>>
     ELSE /\ stored' = NoToken
          /\ access' = [access EXCEPT ![call[c].tab] = "none"]
  /\ End(c)
  /\ UNCHANGED <<token, session, signedOut, overlaps, faults>>

(* An answer that never arrives, or whose tab was reloaded, changes nothing;   *)
(* only a refusal nobody waits for is not counted as a fault.                  *)
LoseAnswer(c) ==
  /\ At(c, "adopt") \/ At(c, "refused")
  /\ IF call[c].gone /\ At(c, "refused") THEN UNCHANGED faults ELSE Fault
  /\ End(c)
  /\ UNCHANGED <<token, stored, access, session, signedOut, overlaps>>

(* What a reload leaves of a tab's calls: those that are at the server. *)
Orphaned(b) ==
  LET lost == {d \in DOMAIN call : call[d].tab = b /\ call[d].step \in {"unauthorized", "clear"}}
  IN [d \in DOMAIN call \ lost |-> [call[d] EXCEPT !.gone = @ \/ call[d].tab = b]]

(* A reload forgets what the tab had in memory and resumes with the stored     *)
(* token.                                                                      *)
Reload(c, b) ==
  /\ c \notin DOMAIN call
  /\ session' = [session EXCEPT ![b] = FALSE]
  /\ access' = [access EXCEPT ![b] = "none"]
  /\ IF stored = NoToken
     THEN call' = Orphaned(b) /\ UNCHANGED overlaps
     ELSE Overlap(stored) /\ Put(c, New("resume", "lookup", b, stored), Orphaned(b))
  /\ UNCHANGED <<token, stored, signedOut, faults>>

Logout(c, b) ==
  /\ c \notin DOMAIN call
  /\ session[b]
  /\ ~Busy(b)
  /\ Overlap(stored)
  /\ Put(c, New("logout", IF stored = NoToken THEN "clear" ELSE "logout", b, stored), call)
  /\ UNCHANGED <<token, stored, access, session, signedOut, faults>>

(* The sign-out is over for the tab, whatever the server said. *)
ClearTokens(c) ==
  LET b == call[c].tab IN
  /\ At(c, "clear")
  /\ stored' = NoToken
  /\ access' = [access EXCEPT ![b] = "none"]
  /\ session' = [session EXCEPT ![b] = FALSE]
  /\ End(c)
  /\ UNCHANGED <<token, signedOut, overlaps, faults>>

----------------------------------------------------------------------------
(* The server *)

(* handleRefresh: a token that is revoked, expired or cannot be read is a 401. *)
Lookup(c) ==
  /\ At(c, "lookup")
  /\ \/ token[call[c].used].state = "live" /\ Goto(c, "revoke") /\ UNCHANGED faults
     \/ token[call[c].used].state # "live" /\ Goto(c, "refused") /\ UNCHANGED faults
     \/ Fault /\ Goto(c, "refused")
  /\ UNCHANGED <<token, stored, access, session, signedOut, overlaps>>

(* UPDATE ... WHERE token_hash = $1 AND revoked_at IS NULL. *)
RevokeRefreshToken(t) ==
  token' = [token EXCEPT ![t].state = "revoked"]

(* Mutant: a refresh does not revoke the token it was asked with. *)
RotateWithoutRevoking(c) ==
  /\ At(c, "revoke")
  /\ Goto(c, "issue")
  /\ UNCHANGED <<token, faults, stored, access, session, signedOut, overlaps>>

(* The used token is revoked; an error is dropped, and so is the question      *)
(* whether the token was still there to revoke.                                *)
Rotate(c) ==
  /\ At(c, "revoke")
  /\ \/ RevokeRefreshToken(call[c].used) /\ UNCHANGED faults
     \/ Fault /\ UNCHANGED token
  /\ Goto(c, "issue")
  /\ UNCHANGED <<stored, access, session, signedOut, overlaps>>

FreshToken ==
  LET unused == TokenId \ DOMAIN token
  IN {t \in unused : \A u \in unused : t <= u}

(* issueTokens; when the new token cannot be stored the answer is a 500. *)
IssueTokens(c) ==
  /\ At(c, "issue")
  /\ \/ /\ \E t \in FreshToken :
             /\ token' = [u \in DOMAIN token \cup {t} |->
                           IF u = t
                           THEN [state |-> "live",
                                 login |-> IF call[c].used = NoToken
                                           THEN t ELSE token[call[c].used].login]
                           ELSE token[u]]
             /\ call' = [call EXCEPT ![c].step = "adopt", ![c].fresh = t]
        /\ UNCHANGED faults
     \/ Fault /\ Goto(c, "refused") /\ UNCHANGED token
  /\ UNCHANGED <<stored, access, session, signedOut, overlaps>>

(* handleLogout answers 204 in any case; the client goes on in any case. *)
LogoutRevokes(c) ==
  LET t == call[c].used IN
  /\ At(c, "logout")
  /\ \/ /\ RevokeRefreshToken(t)
        /\ signedOut' = signedOut \cup {token[t].login}
        /\ UNCHANGED faults
     \/ Fault /\ UNCHANGED <<token, signedOut>>
  /\ IF call[c].gone THEN End(c) ELSE Goto(c, "clear")
  /\ UNCHANGED <<stored, access, session, overlaps>>

(* The 30 days of a refresh token are over. *)
RefreshExpires(t) ==
  /\ token[t].state = "live"
  /\ token' = [token EXCEPT ![t].state = "expired"]
  /\ UNCHANGED <<stored, access, session, call, signedOut, overlaps, faults>>

Next ==
  \/ \E c \in Call, b \in Tab :
       Login(c, b) \/ Unauthorized(c, b) \/ Reload(c, b) \/ Logout(c, b)
  \/ \E c \in Call :
       \/ TryRefresh(c) \/ Lookup(c) \/ Rotate(c) \/ IssueTokens(c)
       \/ Adopt(c) \/ DropTokens(c) \/ LoseAnswer(c)
       \/ LogoutRevokes(c) \/ ClearTokens(c)
  \/ \E b \in Tab : AccessExpires(b)
  \/ \E t \in DOMAIN token : RefreshExpires(t)

Spec == Init /\ [][Next]_vars

----------------------------------------------------------------------------
Live(l) == {t \in DOMAIN token : token[t].login = l /\ token[t].state = "live"}

(* A login is worth one refresh token, and none once its sign-out has reached  *)
(* the server; every other live token goes back to two calls that used one     *)
(* token at the same time, or to a revocation that failed                      *)
(* (auth_handlers.go:151-178).                                                 *)
LiveTokensAreExplained ==
  \A l \in DOMAIN token :
    Cardinality(Live(l)) <= (IF l \in signedOut THEN 0 ELSE 1) + overlaps + faults

(* As long as no message is lost and no store call fails, a browser at rest    *)
(* does not keep a token that was revoked: whoever revokes it replaces or      *)
(* drops it, also in another tab (api.ts:209-228, 293-298; auth.tsx:33-50).    *)
StoredTokenIsUsable ==
  (faults = 0 /\ DOMAIN call = {} /\ stored # NoToken) => token[stored].state # "revoked"

(* Until somebody signs out, a browser at rest that shows a session has a      *)
(* token to resume it with, unless tokens expire, calls fail or answers are    *)
(* lost: the stored token is "persisted so a reload can transparently          *)
(* re-authenticate" (api.ts:1-3).                                              *)
SessionsCanResume ==
  (/\ signedOut = {} /\ faults = 0 /\ DOMAIN call = {}
   /\ \A t \in DOMAIN token : token[t].state # "expired") =>
    \A b \in Tab : session[b] => stored # NoToken
===============================================================================
