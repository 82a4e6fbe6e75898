--------------------------- MODULE RefreshTokens ---------------------------
(***************************************************************************)
(* The sessions of one account: the refresh tokens in Mongo and the cookie *)
(* of each browser.  Every use of a token rotates it; a token rotated in   *)
(* the last ten seconds still yields an access token, so that two tabs may *)
(* send the same cookie at once.                                           *)
(*                                                                         *)
(* All tabs of a browser share its cookie.  Requests run at the same time  *)
(* on any instance, each command and each answer is a step of its own, and *)
(* answers reach a browser in any order.                                   *)
(***************************************************************************)
EXTENDS Integers, FiniteSets

CONSTANTS
  Browsers,
  Tokens,       \* bound: the tokens that can be drawn
  Calls,        \* requests that may be in flight at once
  NoToken,      \* no cookie, no token drawn
  NoBrowser,    \* of an idle request
  MaxFailures   \* bound: failed commands, stopped instances, lost answers

ASSUME NoTokenAssumption == NoToken \notin Tokens
ASSUME FailuresAssumption == MaxFailures \in Nat

VARIABLES
  token,     \* what Mongo knows of each token: see States
  root,      \* the token of the login each token descends from
  cookie,    \* refresh_token in each browser
  signedIn,  \* browsers with a tab that has been given an access token
  at,        \* what each request does next
  browser,   \* who sent it
  sent,      \* the cookie it carries
  next,      \* the token it has drawn
  ended,     \* roots of the sessions ended by a logout or a password (ghost)
  refused,   \* tokens a refresh was answered 401 for (ghost)
  changed,   \* root of the session that changed the password last (ghost)
  failures

local  == <<at, browser, sent, next>>
ghosts == <<ended, refused, changed>>
vars   == <<token, root, cookie, signedIn, at, browser, sent, next, ended, refused,
            changed, failures>>

\* "drawn" has a hash and no document.  "rotated" has revokedAt and
\* replacedByTokenHash, "stale" too but for more than ten seconds; "revoked"
\* has only revokedAt.
States == {"none", "drawn", "live", "rotated", "stale", "revoked"}
Steps == {"idle", "find", "claim", "create", "answer", "refuse", "revoke", "clear", "sweep"}

Init ==
  /\ token = [t \in Tokens |-> "none"]
  /\ root = [t \in Tokens |-> t]
  /\ cookie = [b \in Browsers |-> NoToken]
  /\ signedIn = {}
  /\ at = [c \in Calls |-> "idle"]
  /\ browser = [c \in Calls |-> NoBrowser]
  /\ sent = [c \in Calls |-> NoToken]
  /\ next = [c \in Calls |-> NoToken]
  /\ ended = {} /\ refused = {} /\ changed = {}
  /\ failures = 0

Live == {t \in Tokens : token[t] = "live"}

\* The session a cookie belongs to.
Session(t) == IF t = NoToken THEN {} ELSE {root[t]}

Goto(c, step) == at' = [at EXCEPT ![c] = step]

\* A request leaves browser b with the cookie it has by now.
Send(c, b, step) ==
  /\ at[c] = "idle"
  /\ Goto(c, step)
  /\ browser' = [browser EXCEPT ![c] = b]
  /\ sent' = [sent EXCEPT ![c] = cookie[b]]
  /\ UNCHANGED <<token, root, cookie, signedIn, next, ghosts, failures>>

Over(c) ==
  /\ Goto(c, "idle")
  /\ browser' = [browser EXCEPT ![c] = NoBrowser]
  /\ sent' = [sent EXCEPT ![c] = NoToken]
  /\ next' = [next EXCEPT ![c] = NoToken]

\* 32 random bytes: a token nobody has had.
Draw(c, n, r) ==
  /\ token[n] = "none"
  /\ next' = [next EXCEPT ![c] = n]
  /\ root' = [root EXCEPT ![n] = r]

-----------------------------------------------------------------------------
(* register, login, the Google callback *)

Login(c, b) ==
  /\ at[c] = "idle"
  /\ \E n \in Tokens : Draw(c, n, n) /\ token' = [token EXCEPT ![n] = "drawn"]
  /\ Goto(c, "create")
  /\ browser' = [browser EXCEPT ![c] = b]
  /\ UNCHANGED <<cookie, signedIn, sent, ghosts, failures>>

-----------------------------------------------------------------------------
(* refresh *)

\* A page load, the timer of a tab, a tab made visible again.  Without a
\* cookie the answer is 401 and nothing happens.
Refresh(c, b) == cookie[b] # NoToken /\ Send(c, b, "find")

\* Grace only for a token that was rotated, within ten seconds.
FindToken(c) ==
  /\ at[c] = "find"
  /\ Goto(c, CASE token[sent[c]] = "live"    -> "claim"
               [] token[sent[c]] = "rotated" -> "answer"
               [] OTHER                      -> "refuse")
  /\ UNCHANGED <<token, root, cookie, signedIn, browser, sent, next, ghosts, failures>>

\* Variant: the claim filters on the id alone.
Claim_Blind(c) ==
  /\ at[c] = "claim"
  /\ \E n \in Tokens :
       /\ Draw(c, n, root[sent[c]])
       /\ token' = [token EXCEPT ![sent[c]] = "rotated", ![n] = "drawn"]
  /\ Goto(c, "create")
  /\ UNCHANGED <<cookie, signedIn, browser, sent, ghosts, failures>>

\* Variant: the loser is answered 401.
Claim_NoGrace(c) ==
  /\ at[c] = "claim"
  /\ IF sent[c] \in Live
     THEN /\ \E n \in Tokens :
               /\ Draw(c, n, root[sent[c]])
               /\ token' = [token EXCEPT ![sent[c]] = "rotated", ![n] = "drawn"]
          /\ Goto(c, "create")
     ELSE Goto(c, "refuse") /\ UNCHANGED <<token, root, next>>
  /\ UNCHANGED <<cookie, signedIn, browser, sent, ghosts, failures>>

\* Variant: the loser too is given the token he has drawn.
Claim_Share(c) ==
  /\ at[c] = "claim"
  /\ \E n \in Tokens :
       /\ Draw(c, n, root[sent[c]])
       /\ token' = [t \in Tokens |-> IF t = n THEN "drawn"
                                     ELSE IF t = sent[c] /\ t \in Live THEN "rotated"
                                     ELSE token[t]]
  /\ Goto(c, IF sent[c] \in Live THEN "create" ELSE "answer")
  /\ UNCHANGED <<cookie, signedIn, browser, sent, ghosts, failures>>

\* findOneAndUpdate on revokedAt: null: of two requests one wins.  The loser
\* takes it that the other has rotated the token, and gets no cookie.
Claim(c) ==
  /\ at[c] = "claim"
  /\ IF sent[c] \in Live
     THEN /\ \E n \in Tokens :
               /\ Draw(c, n, root[sent[c]])
               /\ token' = [token EXCEPT ![sent[c]] = "rotated", ![n] = "drawn"]
          /\ Goto(c, "create")
     ELSE Goto(c, "answer") /\ UNCHANGED <<token, root, next>>
  /\ UNCHANGED <<cookie, signedIn, browser, sent, ghosts, failures>>

CreateToken(c) ==
  /\ at[c] = "create"
  /\ token' = [token EXCEPT ![next[c]] = "live"]
  /\ Goto(c, "answer")
  /\ UNCHANGED <<root, cookie, signedIn, browser, sent, next, ghosts, failures>>

\* The answer arrives, with a cookie when a token was drawn.
Answer(c) ==
  /\ at[c] = "answer"
  /\ cookie' = IF next[c] = NoToken THEN cookie
               ELSE [cookie EXCEPT ![browser[c]] = next[c]]
  /\ signedIn' = signedIn \cup {browser[c]}
  /\ Over(c)
  /\ UNCHANGED <<token, root, ghosts, failures>>

\* 401: the tab forgets its user; the cookie stays.
Refuse(c) ==
  /\ at[c] = "refuse"
  /\ refused' = refused \cup {sent[c]}
  /\ Over(c)
  /\ UNCHANGED <<token, root, cookie, signedIn, ended, changed, failures>>

-----------------------------------------------------------------------------
(* logout *)

Logout(c, b) == cookie[b] # NoToken /\ Send(c, b, "revoke")

RevokeToken(c) ==
  /\ at[c] = "revoke"
  /\ token' = [token EXCEPT ![sent[c]] = IF @ = "live" THEN "revoked" ELSE @]
  /\ ended' = ended \cup {root[sent[c]]}
  /\ changed' = changed \ {root[sent[c]]}
  /\ Goto(c, "clear")
  /\ UNCHANGED <<root, cookie, signedIn, browser, sent, next, refused, failures>>

\* Set-Cookie that clears it, whatever it is by now.
ClearCookie(c) ==
  /\ at[c] = "clear"
  /\ cookie' = [cookie EXCEPT ![browser[c]] = NoToken]
  /\ Over(c)
  /\ UNCHANGED <<token, root, signedIn, ghosts, failures>>

-----------------------------------------------------------------------------
(* changePassword *)

\* The password is compared, hashed and stored before the sweep.  Any tab with
\* an access token may ask; its browser may have lost the cookie by then.
ChangePassword(c, b) == b \in signedIn /\ Send(c, b, "sweep")

\* Every token not yet revoked, except the one this request came with.
RevokeOthers(c) ==
  /\ at[c] = "sweep"
  /\ token' = [t \in Tokens |-> IF t \in Live \ {sent[c]} THEN "revoked" ELSE token[t]]
  /\ ended' = ended \cup {root[t] : t \in Live \ {sent[c]}}
  /\ changed' = {r \in Session(sent[c]) : \E t \in Live : root[t] = r}
  /\ Goto(c, "answer")
  /\ UNCHANGED <<root, cookie, signedIn, browser, sent, next, refused, failures>>

-----------------------------------------------------------------------------
\* A command throws, the instance stops, the answer is lost.
Fail(c) ==
  /\ at[c] # "idle"
  /\ failures < MaxFailures
  /\ failures' = failures + 1
  /\ Over(c)
  /\ UNCHANGED <<token, root, cookie, signedIn, ghosts>>

\* Ten seconds outlast a request that carries the token.
GraceEnds(t) ==
  /\ token[t] = "rotated"
  /\ \A c \in Calls : sent[c] # t
  /\ token' = [token EXCEPT ![t] = "stale"]
  /\ UNCHANGED <<root, cookie, signedIn, local, ghosts, failures>>

Step(c) ==
  \/ FindToken(c) \/ Claim(c) \/ CreateToken(c) \/ Answer(c) \/ Refuse(c)
  \/ RevokeToken(c) \/ ClearCookie(c) \/ RevokeOthers(c)

Next ==
  \/ \E c \in Calls, b \in Browsers :
       Login(c, b) \/ Refresh(c, b) \/ Logout(c, b) \/ ChangePassword(c, b)
  \/ \E c \in Calls : Step(c) \/ Fail(c)
  \/ \E t \in Tokens : GraceEnds(t)

Spec == Init /\ [][Next]_vars

-----------------------------------------------------------------------------
(* What the sessions promise *)

\* The variables hold what Mongo and the browsers can hold; a cookie is always a
\* token that has got its document.
TypeOK ==
  /\ token \in [Tokens -> States]
  /\ root \in [Tokens -> Tokens]
  /\ cookie \in [Browsers -> Tokens \cup {NoToken}]
  /\ \A b \in Browsers : cookie[b] # NoToken => token[cookie[b]] \notin {"none", "drawn"}
  /\ signedIn \subseteq Browsers
  /\ at \in [Calls -> Steps]
  /\ browser \in [Calls -> Browsers \cup {NoBrowser}]
  /\ sent \in [Calls -> Tokens \cup {NoToken}]
  /\ next \in [Calls -> Tokens \cup {NoToken}]
  /\ ended \subseteq Tokens /\ refused \subseteq Tokens /\ changed \subseteq Tokens
  /\ failures \in Nat

\* ADR-023: however many tabs refresh at once, and whatever fails, a session
\* never has two tokens that can still be rotated.
OneHeir ==
  \A t, u \in Tokens :
    token[t] \in {"drawn", "live"} /\ token[u] \in {"drawn", "live"} /\ root[t] = root[u]
      => t = u

\* auth.service.ts:20: no tab is logged out because another one refreshed first:
\* when nothing fails, 401 is only for sessions that a logout or a password ended.
NobodyLockedOut == failures = 0 => \A t \in refused : root[t] \in ended

\* When nothing is in flight and nothing has failed, the cookie of a browser is
\* the one token its session can go on with, in whatever order answers came.
CookieIsCurrent ==
  failures = 0 /\ (\A c \in Calls : at[c] = "idle") =>
    \A b \in Browsers :
      cookie[b] # NoToken => cookie[b] \in Live \/ root[cookie[b]] \in ended

\* auth.service.ts:190, ADR-027: a change of password ends the other sessions
\* and keeps the one it was made in.
CurrentSessionKept ==
  failures = 0 /\ (\A c \in Calls : at[c] = "idle") =>
    \A r \in changed : \E t \in Live : root[t] = r

=============================================================================
