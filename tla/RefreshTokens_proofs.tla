------------------------ MODULE RefreshTokens_proofs ------------------------
(***************************************************************************)
(* A session has one token that can still be rotated, for any number of    *)
(* browsers, tokens, requests and failures.                                *)
(***************************************************************************)
EXTENDS RefreshTokens, TLAPS


\* Tokens that have got their document.
Known(t) == token[t] \notin {"none", "drawn"}

\* What a request has in hand at each step.
CallInv ==
  \A c \in Calls :
    /\ at[c] # "idle" => browser[c] \in Browsers
    /\ at[c] \in {"find", "claim", "refuse", "revoke", "clear"} => sent[c] \in Tokens
    /\ sent[c] \in Tokens => Known(sent[c])
    /\ at[c] = "create" => next[c] \in Tokens /\ token[next[c]] = "drawn"
    /\ at[c] # "create" /\ next[c] \in Tokens => Known(next[c])

\* No two requests have drawn the same token.
DrawInv == \A c, d \in Calls : next[c] \in Tokens /\ next[c] = next[d] => c = d

\* A token nobody has drawn descends from none, and none descends from it.
RootInv ==
  \A t \in Tokens : IF token[t] = "none" THEN root[t] = t ELSE token[root[t]] # "none"

IInv == TypeOK /\ CallInv /\ DrawInv /\ RootInv /\ OneHeir

LEMMA InitIInv == Init => IInv
BY NoTokenAssumption
   DEF Init, IInv, TypeOK, CallInv, DrawInv, RootInv, OneHeir, States, Steps

\* A request leaves: it carries a cookie and has drawn nothing.
LEMMA SendIInv ==
  ASSUME IInv, NEW c \in Calls, NEW b \in Browsers, NEW step \in Steps,
         Send(c, b, step), step # "create",
         cookie[b] # NoToken \/ step = "sweep"
  PROVE  IInv'
<1> USE DEF IInv, Send, Goto, ghosts
<1>1. TypeOK'
  BY DEF TypeOK
<1>2. CallInv' /\ DrawInv'
  BY NoTokenAssumption DEF TypeOK, CallInv, DrawInv, Known
<1>3. RootInv' /\ OneHeir'
  BY DEF RootInv, OneHeir
<1> QED BY <1>1, <1>2, <1>3

\* A request is over and forgets what it had in hand.
LEMMA OverIInv ==
  ASSUME IInv, NEW c \in Calls, Over(c), UNCHANGED <<token, root>>, TypeOK'
  PROVE  IInv'
<1> USE NoTokenAssumption DEF IInv, Over, Goto
<1>1. CallInv' /\ DrawInv'
  BY DEF TypeOK, CallInv, DrawInv, Known
<1>2. RootInv' /\ OneHeir'
  BY DEF RootInv, OneHeir
<1> QED BY <1>1, <1>2

\* A request goes on with what it has in hand; no token becomes an heir.
LEMMA GotoIInv ==
  ASSUME IInv, NEW c \in Calls, NEW step \in Steps, Goto(c, step), TypeOK',
         at[c] # "idle", at[c] # "create", step \notin {"idle", "create"},
         step \in {"find", "claim", "refuse", "revoke", "clear"} => sent[c] \in Tokens,
         UNCHANGED <<root, browser, sent, next>>,
         \A t \in Tokens : token'[t] = token[t] \/ (token[t] = "live" /\ token'[t] = "revoked")
  PROVE  IInv'
<1> USE DEF IInv, Goto
<1>1. CallInv'
  BY DEF TypeOK, CallInv, Known
<1>2. DrawInv'
  BY DEF DrawInv
<1>3. RootInv'
  BY DEF TypeOK, RootInv
<1>4. OneHeir'
  BY DEF OneHeir
<1> QED BY <1>1, <1>2, <1>3, <1>4

\* A token is drawn for a session that has no heir left, or for a new one.
LEMMA DrawIInv ==
  ASSUME IInv, NEW c \in Calls, NEW n \in Tokens, NEW r \in Tokens,
         Draw(c, n, r), Goto(c, "create"), at[c] # "create",
         UNCHANGED <<cookie, signedIn, sent, ghosts, failures>>,
         browser' \in [Calls -> Browsers \cup {NoBrowser}], browser'[c] \in Browsers,
         \A d \in Calls \ {c} : browser'[d] = browser[d],
         token' \in [Tokens -> States], token'[n] = "drawn",
         \A t \in Tokens \ {n} :
           token'[t] = token[t] \/ (token[t] = "live" /\ token'[t] = "rotated"),
         r = n \/ token[r] # "none",
         \A t \in Tokens \ {n} : root[t] = r => token'[t] \notin {"drawn", "live"}
  PROVE  IInv'
<1> USE DEF IInv, Draw, Goto, ghosts
<1>1. TypeOK'
  BY DEF TypeOK, Steps
<1>2. CallInv'
  BY DEF TypeOK, CallInv, Known
<1>3. DrawInv'
  BY DEF TypeOK, CallInv, DrawInv, Known
<1>4. RootInv'
  BY DEF TypeOK, RootInv
<1>5. OneHeir'
  BY DEF TypeOK, OneHeir, RootInv
<1> QED BY <1>1, <1>2, <1>3, <1>4, <1>5

LEMMA LoginIInv ==
  ASSUME IInv, NEW c \in Calls, NEW b \in Browsers, Login(c, b)
  PROVE  IInv'
<1>1. PICK n \in Tokens : Draw(c, n, n) /\ token' = [token EXCEPT ![n] = "drawn"]
  BY DEF Login
<1>2. token[n] = "none"
  BY <1>1 DEF Draw
<1>3. \A t \in Tokens \ {n} : root[t] = n => token'[t] \notin {"drawn", "live"}
  BY <1>1, <1>2 DEF IInv, TypeOK, RootInv
<1>4. /\ token' \in [Tokens -> States] /\ token'[n] = "drawn"
      /\ \A t \in Tokens \ {n} : token'[t] = token[t]
  BY <1>1 DEF IInv, TypeOK, States
<1>5. /\ browser' \in [Calls -> Browsers \cup {NoBrowser}] /\ browser'[c] \in Browsers
      /\ \A d \in Calls \ {c} : browser'[d] = browser[d]
  BY DEF Login, IInv, TypeOK
<1>6. /\ Goto(c, "create") /\ at[c] # "create"
      /\ UNCHANGED <<cookie, signedIn, sent, ghosts, failures>>
  BY DEF Login
<1> QED BY <1>1, <1>3, <1>4, <1>5, <1>6, DrawIInv

LEMMA ClaimIInv ==
  ASSUME IInv, NEW c \in Calls, Claim(c)
  PROVE  IInv'
<1>1. sent[c] \in Tokens
  BY DEF IInv, CallInv, Claim
<1>2. CASE sent[c] \in Live
  <2>1. PICK n \in Tokens :
          /\ Draw(c, n, root[sent[c]])
          /\ token' = [token EXCEPT ![sent[c]] = "rotated", ![n] = "drawn"]
    BY <1>2 DEF Claim
  <2> DEFINE r == root[sent[c]]
  <2>2. token[n] = "none" /\ token[sent[c]] = "live" /\ n # sent[c]
    BY <1>2, <2>1 DEF Draw, Live
  <2>3. r \in Tokens /\ token[r] # "none"
    BY <1>1, <2>2 DEF IInv, TypeOK, RootInv
  <2>4. \A t \in Tokens \ {n} : root[t] = r => token'[t] \notin {"drawn", "live"}
    BY <1>1, <2>1, <2>2 DEF IInv, TypeOK, OneHeir
  <2>5. /\ browser' \in [Calls -> Browsers \cup {NoBrowser}] /\ browser'[c] \in Browsers
        /\ \A d \in Calls \ {c} : browser'[d] = browser[d]
    BY DEF IInv, TypeOK, CallInv, Claim
  <2>6. /\ token' \in [Tokens -> States] /\ token'[n] = "drawn"
        /\ \A t \in Tokens \ {n} :
             token'[t] = token[t] \/ (token[t] = "live" /\ token'[t] = "rotated")
    BY <2>1, <2>2 DEF IInv, TypeOK, States
  <2>7. /\ Goto(c, "create") /\ at[c] # "create" /\ Draw(c, n, r)
        /\ UNCHANGED <<cookie, signedIn, sent, ghosts, failures>>
    BY <1>2, <2>1 DEF Claim
  <2> QED BY <2>3, <2>4, <2>5, <2>6, <2>7, DrawIInv
<1>3. CASE sent[c] \notin Live
  <2>1. Goto(c, "answer") /\ UNCHANGED <<token, root, next, browser, sent>>
    BY <1>3 DEF Claim
  <2>2. TypeOK'
    BY <1>3 DEF Claim, Goto, IInv, TypeOK, Steps, ghosts
  <2>3. at[c] = "claim" /\ "answer" \in Steps
    BY DEF Claim, Steps
  <2> QED BY <2>1, <2>2, <2>3, GotoIInv
<1> QED BY <1>2, <1>3

LEMMA CreateIInv ==
  ASSUME IInv, NEW c \in Calls, CreateToken(c)
  PROVE  IInv'
<1> USE DEF IInv, CreateToken, Goto, ghosts
<1>1. next[c] \in Tokens /\ token[next[c]] = "drawn"
  BY DEF CallInv
<1>2. TypeOK'
  BY <1>1 DEF TypeOK, States, Steps
<1>3. CallInv'
  BY <1>1 DEF TypeOK, CallInv, DrawInv, Known
<1>4. DrawInv' /\ RootInv'
  BY <1>1 DEF TypeOK, DrawInv, RootInv
<1>5. OneHeir'
  BY <1>1 DEF TypeOK, OneHeir
<1> QED BY <1>2, <1>3, <1>4, <1>5

LEMMA StepIInv ==
  ASSUME IInv, NEW c \in Calls, Step(c)
  PROVE  IInv'
<1> USE DEF ghosts
<1>1. CASE FindToken(c)
  <2>1. PICK step \in {"claim", "answer", "refuse"} : Goto(c, step)
    BY <1>1 DEF FindToken
  <2>2. sent[c] \in Tokens /\ UNCHANGED <<token, root, browser, sent, next>>
    BY <1>1 DEF FindToken, IInv, CallInv
  <2>3. TypeOK'
    BY <1>1, <2>1 DEF FindToken, Goto, IInv, TypeOK, Steps
  <2>4. at[c] = "find" /\ step \in Steps
    BY <1>1 DEF FindToken, Steps
  <2> QED BY <2>1, <2>2, <2>3, <2>4, GotoIInv
<1>2. CASE Claim(c)
  BY <1>2, ClaimIInv
<1>3. CASE CreateToken(c)
  BY <1>3, CreateIInv
<1>4. CASE Answer(c)
  <2>1. browser[c] \in Browsers /\ (next[c] \in Tokens => Known(next[c]))
    BY <1>4 DEF Answer, IInv, CallInv
  <2>2. TypeOK'
    BY <1>4, <2>1, NoTokenAssumption DEF Answer, Over, Goto, IInv, TypeOK, Known, Steps
  <2> QED BY <1>4, <2>2, OverIInv DEF Answer
<1>5. CASE Refuse(c)
  <2>1. sent[c] \in Tokens
    BY <1>5 DEF Refuse, IInv, CallInv
  <2>2. TypeOK'
    BY <1>5, <2>1 DEF Refuse, Over, Goto, IInv, TypeOK, Steps
  <2> QED BY <1>5, <2>2, OverIInv DEF Refuse
<1>6. CASE RevokeToken(c)
  <2>1. sent[c] \in Tokens /\ token[sent[c]] \notin {"none", "drawn"}
    BY <1>6 DEF RevokeToken, IInv, CallInv, Known
  <2>2. \A t \in Tokens : token'[t] = token[t] \/ (token[t] = "live" /\ token'[t] = "revoked")
    <3>1. token \in [Tokens -> States]
      BY DEF IInv, TypeOK
    <3>2. token' = [token EXCEPT ![sent[c]] = IF token[sent[c]] = "live" THEN "revoked"
                                              ELSE token[sent[c]]]
      BY <1>6 DEF RevokeToken
    <3> QED BY <3>1, <3>2
  <2>3. TypeOK'
    BY <1>6, <2>1 DEF RevokeToken, Goto, IInv, TypeOK, States, Steps
  <2>4. /\ at[c] = "revoke" /\ Goto(c, "clear") /\ "clear" \in Steps
        /\ UNCHANGED <<root, browser, sent, next>>
    BY <1>6 DEF RevokeToken, Steps
  <2> QED BY <2>1, <2>2, <2>3, <2>4, GotoIInv
<1>7. CASE ClearCookie(c)
  <2>1. TypeOK'
    BY <1>7 DEF ClearCookie, Over, Goto, IInv, TypeOK, Steps
  <2> QED BY <1>7, <2>1, OverIInv DEF ClearCookie
<1>8. CASE RevokeOthers(c)
  <2>1. \A t \in Tokens : token'[t] = token[t] \/ (token[t] = "live" /\ token'[t] = "revoked")
    BY <1>8 DEF RevokeOthers, Live
  <2>2. TypeOK'
    BY <1>8 DEF RevokeOthers, Goto, IInv, TypeOK, States, Steps, Live, Session
  <2>3. /\ at[c] = "sweep" /\ Goto(c, "answer") /\ "answer" \in Steps
        /\ UNCHANGED <<root, browser, sent, next>>
    BY <1>8 DEF RevokeOthers, Steps
  <2> QED BY <2>1, <2>2, <2>3, GotoIInv
<1> QED BY <1>1, <1>2, <1>3, <1>4, <1>5, <1>6, <1>7, <1>8 DEF Step

LEMMA NextIInv == IInv /\ [Next]_vars => IInv'
<1> SUFFICES ASSUME IInv, [Next]_vars PROVE IInv'
  OBVIOUS
<1>1. CASE UNCHANGED vars
  BY <1>1 DEF vars, IInv, TypeOK, CallInv, DrawInv, RootInv, OneHeir, Known
<1>2. ASSUME NEW c \in Calls, NEW b \in Browsers, Login(c, b)
      PROVE  IInv'
  BY <1>2, LoginIInv
<1>3. ASSUME NEW c \in Calls, NEW b \in Browsers,
             Refresh(c, b) \/ Logout(c, b) \/ ChangePassword(c, b)
      PROVE  IInv'
  BY <1>3, SendIInv DEF Refresh, Logout, ChangePassword, Steps
<1>4. ASSUME NEW c \in Calls, Step(c)
      PROVE  IInv'
  BY <1>4, StepIInv
<1>5. ASSUME NEW c \in Calls, Fail(c)
      PROVE  IInv'
  <2>1. TypeOK'
    BY <1>5, FailuresAssumption DEF Fail, Over, Goto, IInv, TypeOK, Steps, ghosts
  <2>2. UNCHANGED <<token, root>> /\ Over(c)
    BY <1>5 DEF Fail
  <2>3. CallInv'
    BY <2>2, NoTokenAssumption DEF Over, Goto, IInv, TypeOK, CallInv, Known
  <2> QED BY <2>1, <2>2, OverIInv
<1>6. ASSUME NEW t \in Tokens, GraceEnds(t)
      PROVE  IInv'
  <2>1. TypeOK'
    BY <1>6 DEF GraceEnds, IInv, TypeOK, States, local, ghosts
  <2>2. CallInv' /\ DrawInv'
    BY <1>6 DEF GraceEnds, IInv, TypeOK, CallInv, DrawInv, Known, local
  <2>3. RootInv' /\ OneHeir'
    BY <1>6 DEF GraceEnds, IInv, TypeOK, RootInv, OneHeir
  <2> QED BY <2>1, <2>2, <2>3 DEF IInv
<1> QED BY <1>1, <1>2, <1>3, <1>4, <1>5, <1>6 DEF Next

LEMMA Inductive == Spec => []IInv
BY InitIInv, NextIInv, PTL DEF Spec

\* Every variable keeps its type, and a cookie is always a token whose document
\* exists: no answer leaves before its insert.
THEOREM TypeCorrect == Spec => []TypeOK
<1>1. IInv => TypeOK
  BY DEF IInv
<1> QED BY Inductive, <1>1, PTL

\* A session never has two tokens that can be rotated, however many tabs refresh
\* at once and whatever fails between claim and insert.
THEOREM HeirCorrect == Spec => []OneHeir
<1>1. IInv => OneHeir
  BY DEF IInv
<1> QED BY Inductive, <1>1, PTL

-----------------------------------------------------------------------------
(* Nobody is locked out while nothing fails.                               *)

\* A cookie is that of one browser, and so are the requests that carry it.
Own ==
  /\ \A a, b \in Browsers : cookie[a] \in Tokens /\ cookie[a] = cookie[b] => a = b
  /\ \A b \in Browsers, c \in Calls : cookie[b] \in Tokens /\ sent[c] = cookie[b] => browser[c] = b

\* Nobody has a token that is drawn until its answer arrives.
Unseen ==
  \A c \in Calls :
    /\ at[c] = "idle" => sent[c] = NoToken
    /\ next[c] \in Tokens =>
         /\ at[c] \in {"create", "answer"}
         /\ \A b \in Browsers : cookie[b] # next[c]
         /\ \A d \in Calls : sent[d] # next[c]

Gone(t) == root[t] \in ended

\* The answer that brings the next token is on its way.
Claimed(t) ==
  \E c \in Calls : at[c] \in {"create", "answer"} /\ sent[c] = t /\ next[c] \in Tokens

\* The cookie goes on, or its heir is coming, or its session has ended.
CookieInv ==
  \A b \in Browsers :
    cookie[b] \in Tokens =>
      \/ token[cookie[b]] = "live" \/ Gone(cookie[b])
      \/ token[cookie[b]] = "rotated" /\ Claimed(cookie[b])

\* So a request never finds a token too old, unless its session has ended.
RequestInv ==
  \A c \in Calls :
    /\ at[c] = "find" /\ token[sent[c]] = "stale" => Gone(sent[c])
    /\ at[c] = "refuse" => Gone(sent[c])
    /\ at[c] = "answer" /\ next[c] \in Tokens => token[next[c]] = "live" \/ Gone(next[c])

EndedInv ==
  /\ \A t \in Tokens : token[t] = "revoked" => Gone(t)
  /\ \A t \in refused : token[t] # "none" /\ Gone(t)

GoodInv == Own /\ Unseen /\ CookieInv /\ RequestInv /\ EndedInv

GInv == IInv /\ (failures = 0 => GoodInv)

LEMMA InitGInv == Init => GInv
BY InitIInv, NoTokenAssumption
   DEF Init, GInv, GoodInv, Own, Unseen, CookieInv, RequestInv, EndedInv

LEMMA SendGood ==
  ASSUME IInv, GoodInv, NEW c \in Calls, NEW b \in Browsers, NEW step \in {"find", "revoke", "sweep"},
         Send(c, b, step), cookie[b] # NoToken \/ step = "sweep"
  PROVE  GoodInv'
<1> USE NoTokenAssumption DEF IInv, GoodInv, TypeOK, Send, Goto, ghosts
<1>1. /\ at[c] = "idle" /\ at'[c] = step /\ sent'[c] = cookie[b] /\ browser'[c] = b
      /\ \A d \in Calls : d # c => at'[d] = at[d] /\ sent'[d] = sent[d] /\ browser'[d] = browser[d]
      /\ UNCHANGED <<token, root, cookie, next, ended, refused>>
  OBVIOUS
<1> HIDE DEF Send, Goto, TypeOK
<1>2. Own'
  BY <1>1 DEF Own
<1>3. Unseen'
  BY <1>1 DEF Unseen
<1>4. CookieInv'
  <2>1. \A t \in Tokens : Claimed(t) => Claimed(t)'
    BY <1>1 DEF Claimed
  <2> QED BY <1>1, <2>1 DEF CookieInv, Gone, TypeOK
<1>5. RequestInv'
  <2>1. cookie[b] \in Tokens /\ token[cookie[b]] = "stale" => Gone(cookie[b])
    BY DEF CookieInv
  <2>2. step = "find" => cookie[b] \in Tokens
    BY DEF TypeOK
  <2>3. ASSUME NEW d \in Calls, d # c
        PROVE  /\ at'[d] = "find" /\ token[sent'[d]] = "stale" => root[sent'[d]] \in ended
               /\ at'[d] = "refuse" => root[sent'[d]] \in ended
               /\ at'[d] = "answer" /\ next[d] \in Tokens => token[next[d]] = "live" \/ root[next[d]] \in ended
    BY <1>1, <2>3 DEF RequestInv, Gone
  <2> QED BY <1>1, <2>1, <2>2, <2>3 DEF RequestInv, Gone
<1>6. EndedInv'
  BY <1>1 DEF EndedInv, Gone
<1> QED BY <1>2, <1>3, <1>4, <1>5, <1>6

\* A token is drawn, and the one it comes after, if any, is claimed.
LEMMA DrawGood ==
  ASSUME IInv, GoodInv, NEW c \in Calls, NEW n \in Tokens, NEW r, Draw(c, n, r), Goto(c, "create"),
         at[c] \in {"idle", "claim"}, UNCHANGED <<cookie, sent, ended, refused>>,
         \A d \in Calls \ {c} : browser'[d] = browser[d],
         browser'[c] = browser[c] \/ sent[c] = NoToken,
         token'[n] = "drawn",
         \A t \in Tokens \ {n} : token'[t] = token[t] \/ (token'[t] = "rotated" /\ sent[c] = t)
  PROVE  GoodInv'
<1> USE NoTokenAssumption
<1>1. /\ token[n] = "none" /\ next'[c] = n /\ root'[n] = r /\ at'[c] = "create"
      /\ \A d \in Calls : d # c => next'[d] = next[d] /\ at'[d] = at[d]
      /\ \A t \in Tokens : t # n => root'[t] = root[t]
  BY DEF Draw, Goto, IInv, TypeOK
<1>2. /\ \A b \in Browsers : cookie[b] # n
      /\ \A d \in Calls : sent[d] # n /\ next[d] # n
      /\ n \notin refused
  BY <1>1 DEF IInv, TypeOK, CallInv, Known, GoodInv, EndedInv
<1>3. Own'
  BY <1>1 DEF GoodInv, Own
<1>4. Unseen'
  BY <1>1, <1>2 DEF GoodInv, Unseen
<1>5. CookieInv'
  <2>1. SUFFICES ASSUME NEW b \in Browsers, cookie[b] \in Tokens
                 PROVE  \/ token'[cookie[b]] = "live" \/ root'[cookie[b]] \in ended
                        \/ token'[cookie[b]] = "rotated" /\ Claimed(cookie[b])'
    BY DEF CookieInv, Gone
  <2>2. CASE sent[c] = cookie[b]
    <3>1. token'[cookie[b]] = token[cookie[b]] \/ token'[cookie[b]] = "rotated"
      BY <1>2, <2>1
    <3>2. Claimed(cookie[b])'
      BY <1>1, <2>1, <2>2 DEF Claimed
    <3> QED BY <1>1, <1>2, <2>1, <3>1, <3>2 DEF GoodInv, CookieInv, Gone
  <2>3. CASE sent[c] # cookie[b]
    <3>1. token'[cookie[b]] = token[cookie[b]] /\ root'[cookie[b]] = root[cookie[b]]
      BY <1>1, <1>2, <2>1, <2>3
    <3>2. Claimed(cookie[b]) => Claimed(cookie[b])'
      BY <1>1 DEF Claimed
    <3> QED BY <2>1, <3>1, <3>2 DEF GoodInv, CookieInv, Gone
  <2> QED BY <2>2, <2>3
<1>6. RequestInv'
  <2>1. \A d \in Calls : at[d] \in {"find", "refuse"} => sent[d] \in Tokens
    BY DEF IInv, CallInv
  <2>2. \A d \in Calls : next[d] \in Tokens => sent[c] # next[d]
    BY DEF GoodInv, Unseen
  <2> QED BY <1>1, <1>2, <2>1, <2>2 DEF GoodInv, RequestInv, Gone
<1>7. EndedInv'
  BY <1>1, <1>2 DEF GoodInv, EndedInv, Gone, IInv, TypeOK
<1> QED BY <1>3, <1>4, <1>5, <1>6, <1>7 DEF GoodInv

\* A request goes on, and may end sessions.
LEMMA GotoGood ==
  ASSUME IInv, GoodInv, NEW c \in Calls, NEW step \in {"claim", "answer", "refuse", "clear"}, Goto(c, step),
         at[c] \in {"find", "claim", "revoke", "sweep"},
         UNCHANGED <<root, cookie, browser, sent, next, refused>>, ended \subseteq ended',
         \A t \in Tokens : \/ token'[t] = token[t]
                           \/ token[t] = "live" /\ token'[t] = "revoked" /\ root[t] \in ended',
         step = "refuse" => Gone(sent[c])
  PROVE  GoodInv'
<1>1. /\ at'[c] = step /\ \A d \in Calls : d # c => at'[d] = at[d]
      /\ next[c] \notin Tokens
  BY DEF Goto, IInv, TypeOK, GoodInv, Unseen
<1>2. \A t \in Tokens : Gone(t) => root[t] \in ended'
  BY DEF Gone
<1>3. Own'
  BY DEF GoodInv, Own
<1>4. Unseen'
  BY <1>1 DEF GoodInv, Unseen
<1>5. CookieInv'
  <2>1. SUFFICES ASSUME NEW b \in Browsers, cookie[b] \in Tokens
                 PROVE  \/ token'[cookie[b]] = "live" \/ root[cookie[b]] \in ended'
                        \/ token'[cookie[b]] = "rotated" /\ Claimed(cookie[b])'
    BY DEF CookieInv, Gone
  <2>2. Claimed(cookie[b]) => Claimed(cookie[b])'
    BY <1>1 DEF Claimed
  <2> QED BY <1>2, <2>1, <2>2 DEF GoodInv, CookieInv
<1>6. RequestInv'
  <2>1. SUFFICES ASSUME NEW d \in Calls
                 PROVE  /\ at'[d] = "find" /\ token'[sent[d]] = "stale" => root[sent[d]] \in ended'
                        /\ at'[d] = "refuse" => root[sent[d]] \in ended'
                        /\ at'[d] = "answer" /\ next[d] \in Tokens =>
                             token'[next[d]] = "live" \/ root[next[d]] \in ended'
    BY DEF RequestInv, Gone
  <2>2. CASE d = c
    BY <1>1, <1>2, <2>2 DEF Gone
  <2>3. CASE d # c
    <3>1. at[d] \in {"find", "refuse"} => sent[d] \in Tokens
      BY DEF IInv, CallInv
    <3> QED BY <1>1, <1>2, <2>3, <3>1 DEF GoodInv, RequestInv, Gone
  <2> QED BY <2>2, <2>3
<1>7. EndedInv'
  <2>1. refused \subseteq Tokens
    BY DEF IInv, TypeOK
  <2> QED BY <1>2, <2>1 DEF GoodInv, EndedInv, Gone
<1> QED BY <1>3, <1>4, <1>5, <1>6, <1>7 DEF GoodInv

LEMMA CreateGood ==
  ASSUME IInv, GoodInv, NEW c \in Calls, CreateToken(c)
  PROVE  GoodInv'
<1> DEFINE n == next[c]
<1>1. n \in Tokens /\ token[n] = "drawn"
  BY DEF CreateToken, IInv, CallInv
<1>2. /\ at[c] = "create" /\ at'[c] = "answer" /\ \A d \in Calls : d # c => at'[d] = at[d]
      /\ token'[n] = "live" /\ \A t \in Tokens : t # n => token'[t] = token[t]
      /\ UNCHANGED <<root, cookie, browser, sent, next, ended, refused>>
  BY <1>1 DEF CreateToken, Goto, IInv, TypeOK, ghosts
<1>3. /\ \A b \in Browsers : cookie[b] # n
      /\ \A d \in Calls : sent[d] # n
      /\ \A d \in Calls : next[d] = n => d = c
  BY <1>1 DEF GoodInv, Unseen, IInv, DrawInv
<1> HIDE DEF n
<1>4. Own'
  BY <1>2 DEF GoodInv, Own
<1>5. Unseen'
  BY <1>2 DEF GoodInv, Unseen
<1>6. CookieInv'
  <2>1. SUFFICES ASSUME NEW b \in Browsers, cookie[b] \in Tokens
                 PROVE  \/ token'[cookie[b]] = "live" \/ root[cookie[b]] \in ended
                        \/ token'[cookie[b]] = "rotated" /\ Claimed(cookie[b])'
    BY <1>2 DEF CookieInv, Gone
  <2>2. Claimed(cookie[b]) => Claimed(cookie[b])'
    BY <1>2 DEF Claimed
  <2> QED BY <1>2, <1>3, <2>1, <2>2 DEF GoodInv, CookieInv, Gone
<1>7. RequestInv'
  <2>1. \A d \in Calls : at[d] \in {"find", "refuse"} => sent[d] \in Tokens
    BY DEF IInv, CallInv
  <2> QED BY <1>2, <1>3, <2>1 DEF GoodInv, RequestInv, Gone, n
<1>8. EndedInv'
  <2>1. refused \subseteq Tokens
    BY DEF IInv, TypeOK
  <2> QED BY <1>2, <2>1 DEF GoodInv, EndedInv, Gone
<1> QED BY <1>4, <1>5, <1>6, <1>7, <1>8 DEF GoodInv

\* A request is over; what it drew is the cookie now.
LEMMA OverGood ==
  ASSUME IInv, GoodInv, NEW c \in Calls, Over(c), UNCHANGED <<token, root, ended>>,
         next[c] \in Tokens => at[c] = "answer",
         \/ cookie' = cookie /\ next[c] = NoToken
         \/ cookie' = [cookie EXCEPT ![browser[c]] = next[c]],
         browser[c] \in Browsers,
         \A t \in refused' : t \in refused \/ (t \in Tokens /\ token[t] # "none" /\ Gone(t))
  PROVE  GoodInv'
<1> USE NoTokenAssumption
<1> DEFINE a == browser[c]
<1>1. /\ at'[c] = "idle" /\ sent'[c] = NoToken /\ next'[c] = NoToken
      /\ \A d \in Calls : d # c => /\ at'[d] = at[d] /\ sent'[d] = sent[d] /\ next'[d] = next[d]
                                    /\ browser'[d] = browser[d]
  BY DEF Over, Goto, IInv, TypeOK
<1>2. /\ \A b \in Browsers : b # a => cookie'[b] = cookie[b]
      /\ cookie'[a] \in Tokens => \/ cookie'[a] = next[c] /\ next[c] \in Tokens
                                  \/ cookie'[a] = cookie[a] /\ next[c] \notin Tokens
      /\ \A b \in Browsers : cookie[b] \in Tokens \cup {NoToken}
  BY DEF IInv, TypeOK
<1>3. next[c] \in Tokens =>
        /\ \A b \in Browsers : cookie[b] # next[c]
        /\ \A d \in Calls : sent[d] # next[c] /\ (next[d] = next[c] => d = c)
        /\ token[next[c]] = "live" \/ Gone(next[c])
  BY DEF GoodInv, Unseen, RequestInv, IInv, DrawInv
<1> HIDE DEF a
<1>4. Own'
  BY <1>1, <1>2, <1>3 DEF GoodInv, Own, a
<1>5. Unseen'
  BY <1>1, <1>2, <1>3 DEF GoodInv, Unseen
<1>6. CookieInv'
  <2>1. SUFFICES ASSUME NEW b \in Browsers, cookie'[b] \in Tokens
                 PROVE  \/ token[cookie'[b]] = "live" \/ Gone(cookie'[b])
                        \/ token[cookie'[b]] = "rotated" /\ Claimed(cookie[b])' /\ cookie'[b] = cookie[b]
    BY DEF CookieInv, Gone
  <2>2. CASE b = a /\ next[c] \in Tokens
    BY <1>2, <1>3, <2>1, <2>2
  <2>3. CASE ~(b = a /\ next[c] \in Tokens)
    <3>1. cookie'[b] = cookie[b] /\ cookie[b] \in Tokens
      BY <1>2, <2>1, <2>3
    <3>2. Claimed(cookie[b]) => Claimed(cookie[b])'
      <4>1. SUFFICES ASSUME NEW d \in Calls, at[d] \in {"create", "answer"}, sent[d] = cookie[b], next[d] \in Tokens
                     PROVE  Claimed(cookie[b])'
        BY DEF Claimed
      <4>2. d # c
        <5>1. browser[d] = b
          BY <3>1, <4>1 DEF GoodInv, Own
        <5> QED BY <2>3, <4>1, <5>1 DEF a
      <4>3. sent'[d] = cookie'[b] /\ at'[d] \in {"create", "answer"} /\ next'[d] \in Tokens
        BY <1>1, <3>1, <4>1, <4>2
      <4> QED BY <3>1, <4>3 DEF Claimed
    <3> QED BY <3>1, <3>2 DEF GoodInv, CookieInv
  <2> QED BY <2>2, <2>3
<1>7. RequestInv'
  BY <1>1 DEF GoodInv, RequestInv, Gone
<1>8. EndedInv'
  BY DEF GoodInv, EndedInv, Gone
<1> QED BY <1>4, <1>5, <1>6, <1>7, <1>8 DEF GoodInv

\* A token that no request carries grows too old, and is no cookie then.
LEMMA GraceGood ==
  ASSUME IInv, GoodInv, NEW t \in Tokens, GraceEnds(t)
  PROVE  GoodInv'
<1>1. /\ token[t] = "rotated" /\ \A c \in Calls : sent[c] # t
      /\ token'[t] = "stale" /\ \A u \in Tokens : u # t => token'[u] = token[u]
      /\ UNCHANGED <<root, cookie, at, browser, sent, next, ended, refused>>
  BY DEF GraceEnds, IInv, TypeOK, local, ghosts
<1>2. Own' /\ Unseen'
  BY <1>1 DEF GoodInv, Own, Unseen
<1>3. CookieInv'
  <2>1. SUFFICES ASSUME NEW b \in Browsers, cookie[b] \in Tokens
                 PROVE  \/ token'[cookie[b]] = "live" \/ root[cookie[b]] \in ended
                        \/ token'[cookie[b]] = "rotated" /\ Claimed(cookie[b])'
    BY <1>1 DEF CookieInv, Gone
  <2>2. Claimed(cookie[b]) => Claimed(cookie[b])' /\ cookie[b] # t
    BY <1>1 DEF Claimed
  <2> QED BY <1>1, <2>1, <2>2 DEF GoodInv, CookieInv, Gone
<1>4. RequestInv'
  <2>1. SUFFICES ASSUME NEW d \in Calls
                 PROVE  /\ at[d] = "find" /\ token'[sent[d]] = "stale" => root[sent[d]] \in ended
                        /\ at[d] = "refuse" => root[sent[d]] \in ended
                        /\ at[d] = "answer" /\ next[d] \in Tokens =>
                             token'[next[d]] = "live" \/ root[next[d]] \in ended
    BY <1>1 DEF RequestInv, Gone
  <2>2. at[d] \in {"find", "refuse"} => sent[d] \in Tokens
    BY DEF IInv, CallInv
  <2> QED BY <1>1, <2>2 DEF GoodInv, RequestInv, Gone
<1>5. EndedInv'
  <2>1. refused \subseteq Tokens
    BY DEF IInv, TypeOK
  <2> QED BY <1>1, <2>1 DEF GoodInv, EndedInv, Gone
<1> QED BY <1>2, <1>3, <1>4, <1>5 DEF GoodInv

LEMMA StepGood ==
  ASSUME IInv, GoodInv, NEW c \in Calls, Step(c)
  PROVE  GoodInv'
<1> USE DEF ghosts
<1>1. CASE FindToken(c)
  <2>1. sent[c] \in Tokens /\ Known(sent[c]) /\ token[sent[c]] \in States /\ at[c] = "find"
    BY <1>1 DEF FindToken, IInv, CallInv, TypeOK
  <2>2. PICK step \in {"claim", "answer", "refuse"} :
          Goto(c, step) /\ (step = "refuse" => token[sent[c]] \in {"stale", "revoked"})
    BY <1>1, <2>1 DEF FindToken, Known, States
  <2>3. step = "refuse" => Gone(sent[c])
    BY <2>1, <2>2 DEF GoodInv, RequestInv, EndedInv
  <2>4. /\ UNCHANGED <<root, cookie, browser, sent, next, refused>> /\ ended \subseteq ended'
    BY <1>1 DEF FindToken
  <2>5. \A t \in Tokens : token'[t] = token[t]
    BY <1>1 DEF FindToken
  <2>6. Goto(c, step) /\ step \in {"claim", "answer", "refuse", "clear"} /\ at[c] \in {"find", "claim", "revoke", "sweep"}
    BY <2>1, <2>2
  <2> QED BY <2>3, <2>4, <2>5, <2>6, GotoGood
<1>2. CASE Claim(c) /\ sent[c] \in Live
  <2>1. PICK n \in Tokens :
          /\ Draw(c, n, root[sent[c]])
          /\ token' = [token EXCEPT ![sent[c]] = "rotated", ![n] = "drawn"]
    BY <1>2 DEF Claim
  <2>2. /\ token'[n] = "drawn"
        /\ \A t \in Tokens \ {n} : token'[t] = token[t] \/ (token'[t] = "rotated" /\ sent[c] = t)
    BY <1>2, <2>1 DEF Live, IInv, TypeOK
  <2>3. Goto(c, "create") /\ at[c] = "claim" /\ UNCHANGED <<cookie, sent, browser, ended, refused>>
    BY <1>2 DEF Claim
  <2> QED BY <2>1, <2>2, <2>3, DrawGood
<1>3. CASE Claim(c) /\ sent[c] \notin Live
  <2>1. /\ at[c] = "claim" /\ Goto(c, "answer") /\ ended \subseteq ended'
        /\ UNCHANGED <<root, cookie, browser, sent, next, refused>>
    BY <1>3 DEF Claim
  <2>2. \A t \in Tokens : token'[t] = token[t]
    BY <1>3 DEF Claim
  <2> QED BY <2>1, <2>2, GotoGood
<1>4. CASE CreateToken(c)
  BY <1>4, CreateGood
<1>5. CASE Answer(c)
  <2>1. browser[c] \in Browsers /\ next[c] \in Tokens \cup {NoToken} /\ at[c] = "answer"
    BY <1>5 DEF Answer, IInv, TypeOK, CallInv
  <2>2. (cookie' = cookie /\ next[c] = NoToken) \/ cookie' = [cookie EXCEPT ![browser[c]] = next[c]]
    BY <1>5 DEF Answer
  <2> QED BY <1>5, <2>1, <2>2, OverGood DEF Answer
<1>6. CASE Refuse(c)
  <2>1. /\ browser[c] \in Browsers /\ sent[c] \in Tokens /\ token[sent[c]] # "none" /\ Gone(sent[c])
        /\ next[c] = NoToken
    BY <1>6 DEF Refuse, IInv, TypeOK, CallInv, Known, GoodInv, RequestInv, Unseen
  <2>2. /\ Over(c) /\ UNCHANGED <<token, root, ended>> /\ cookie' = cookie
        /\ \A t \in refused' : t \in refused \/ (t \in Tokens /\ token[t] # "none" /\ Gone(t))
    BY <1>6, <2>1 DEF Refuse
  <2>3. next[c] \in Tokens => at[c] = "answer"
    BY <2>1, NoTokenAssumption
  <2> QED BY <2>1, <2>2, <2>3, OverGood
<1>7. CASE RevokeToken(c)
  <2>1. sent[c] \in Tokens /\ token' = [token EXCEPT ![sent[c]] = IF token[sent[c]] = "live" THEN "revoked"
                                                                  ELSE token[sent[c]]]
    BY <1>7 DEF RevokeToken, IInv, CallInv
  <2>2. \A t \in Tokens : \/ token'[t] = token[t]
                          \/ token[t] = "live" /\ token'[t] = "revoked" /\ root[t] \in ended'
    BY <1>7, <2>1 DEF RevokeToken, IInv, TypeOK
  <2>3. /\ at[c] = "revoke" /\ Goto(c, "clear") /\ ended \subseteq ended'
        /\ UNCHANGED <<root, cookie, browser, sent, next, refused>>
    BY <1>7 DEF RevokeToken
  <2> QED BY <2>2, <2>3, GotoGood
<1>8. CASE ClearCookie(c)
  <2>1. browser[c] \in Browsers /\ next[c] = NoToken
    BY <1>8 DEF ClearCookie, IInv, TypeOK, CallInv, GoodInv, Unseen
  <2>2. /\ Over(c) /\ UNCHANGED <<token, root, ended, refused>>
        /\ cookie' = [cookie EXCEPT ![browser[c]] = next[c]]
        /\ \A t \in refused' : t \in refused \/ (t \in Tokens /\ token[t] # "none" /\ Gone(t))
    BY <1>8, <2>1 DEF ClearCookie
  <2>3. next[c] \in Tokens => at[c] = "answer"
    BY <2>1, NoTokenAssumption
  <2> QED BY <2>1, <2>2, <2>3, OverGood
<1>9. CASE RevokeOthers(c)
  <2>1. \A t \in Tokens : \/ token'[t] = token[t]
                          \/ token[t] = "live" /\ token'[t] = "revoked" /\ root[t] \in ended'
    BY <1>9 DEF RevokeOthers, Live
  <2>2. /\ at[c] = "sweep" /\ Goto(c, "answer") /\ ended \subseteq ended'
        /\ UNCHANGED <<root, cookie, browser, sent, next, refused>>
    BY <1>9 DEF RevokeOthers
  <2> QED BY <2>1, <2>2, GotoGood
<1> QED BY <1>1, <1>2, <1>3, <1>4, <1>5, <1>6, <1>7, <1>8, <1>9 DEF Step

LEMMA NextGInv == GInv /\ [Next]_vars => GInv'
<1> SUFFICES ASSUME GInv, [Next]_vars PROVE GInv'
  OBVIOUS
<1>1. IInv'
  BY NextIInv DEF GInv
<1>2. failures \in Nat
  BY DEF GInv, IInv, TypeOK
<1>3. CASE UNCHANGED vars
  BY <1>1, <1>3 DEF vars, GInv, GoodInv, Own, Unseen, CookieInv, Claimed, RequestInv, EndedInv, Gone
<1>4. ASSUME NEW c \in Calls, NEW b \in Browsers, Login(c, b)
      PROVE  GInv'
  <2>1. UNCHANGED failures
    BY <1>4 DEF Login
  <2>2. ASSUME failures = 0 PROVE GoodInv'
    <3>1. PICK n \in Tokens : Draw(c, n, n) /\ token' = [token EXCEPT ![n] = "drawn"]
      BY <1>4 DEF Login
    <3>2. token'[n] = "drawn" /\ \A t \in Tokens \ {n} : token'[t] = token[t]
      BY <3>1 DEF GInv, IInv, TypeOK
    <3>3. /\ at[c] = "idle" /\ Goto(c, "create") /\ UNCHANGED <<cookie, sent, ended, refused>>
          /\ \A d \in Calls \ {c} : browser'[d] = browser[d]
      BY <1>4 DEF Login, ghosts, GInv, IInv, TypeOK
    <3>4. GoodInv /\ sent[c] = NoToken
      BY <2>2, <3>3 DEF GInv, GoodInv, Unseen
    <3> QED BY <3>1, <3>2, <3>3, <3>4, DrawGood DEF GInv
  <2> QED BY <1>1, <2>1, <2>2 DEF GInv
<1>5. ASSUME NEW c \in Calls, NEW b \in Browsers,
             Refresh(c, b) \/ Logout(c, b) \/ ChangePassword(c, b)
      PROVE  GInv'
  <2>1. PICK step \in {"find", "revoke", "sweep"} :
          Send(c, b, step) /\ (cookie[b] # NoToken \/ step = "sweep")
    BY <1>5 DEF Refresh, Logout, ChangePassword
  <2>2. UNCHANGED failures
    BY <2>1 DEF Send
  <2> QED BY <1>1, <2>1, <2>2, SendGood DEF GInv
<1>6. ASSUME NEW c \in Calls, Step(c)
      PROVE  GInv'
  <2>1. UNCHANGED failures
    BY <1>6 DEF Step, FindToken, Claim, CreateToken, Answer, Refuse, RevokeToken, ClearCookie, RevokeOthers
  <2> QED BY <1>1, <1>6, <2>1, StepGood DEF GInv
<1>7. ASSUME NEW c \in Calls, Fail(c)
      PROVE  GInv'
  <2>1. failures' # 0
    BY <1>2, <1>7 DEF Fail
  <2> QED BY <1>1, <2>1 DEF GInv
<1>8. ASSUME NEW t \in Tokens, GraceEnds(t)
      PROVE  GInv'
  <2>1. UNCHANGED failures
    BY <1>8 DEF GraceEnds
  <2> QED BY <1>1, <1>8, <2>1, GraceGood DEF GInv
<1> QED BY <1>3, <1>4, <1>5, <1>6, <1>7, <1>8 DEF Next

LEMMA GoodSpec == Spec => []GInv
BY InitGInv, NextGInv, PTL DEF Spec

\* While nothing fails, a refresh is answered 401 only for a session that a
\* logout or a change of password has ended, however many tabs of however many
\* browsers refresh at once (the grace of refresh in AuthService).
THEOREM NobodyIsLockedOut == Spec => []NobodyLockedOut
<1>1. GInv => NobodyLockedOut
  BY DEF GInv, GoodInv, EndedInv, Gone, NobodyLockedOut
<1> QED BY GoodSpec, <1>1, PTL

\* While nothing fails, a cookie at rest is the token its session can go on
\* with, in whatever order the answers came (Set-Cookie of refresh, login and
\* logout in AuthController).
THEOREM CookieStaysCurrent == Spec => []CookieIsCurrent
<1>1. GInv => CookieIsCurrent
  <2>1. SUFFICES ASSUME GInv, failures = 0, \A c \in Calls : at[c] = "idle",
                        NEW b \in Browsers, cookie[b] # NoToken
                 PROVE  cookie[b] \in Live \/ root[cookie[b]] \in ended
    BY DEF CookieIsCurrent
  <2>2. cookie[b] \in Tokens
    BY <2>1 DEF GInv, IInv, TypeOK
  <2>3. ~Claimed(cookie[b])
    BY <2>1 DEF Claimed
  <2> QED BY <2>1, <2>2, <2>3 DEF GInv, GoodInv, CookieInv, Live, Gone
<1> QED BY GoodSpec, <1>1, PTL

=============================================================================
