------------------------------- MODULE Accounts -------------------------------
(***************************************************************************)
(* The accounts in "users", and the requests that find, create and change  *)
(* them: register, login, the callback of Google and the password.  Each   *)
(* command to Mongo is a step of its own, so that two requests of one      *)
(* person may pass each other; the unique indexes decide.                  *)
(*                                                                         *)
(* One page follows along: LoginForm, RegisterForm and SettingsView.  The  *)
(* sessions that an answer begins are those of RefreshTokens.              *)
(***************************************************************************)
EXTENDS AuthContext, FiniteSets

CONSTANTS
  Emails,       \* in lower case
  MaxNames,     \* bound: usernames; the one after n is what suffixing makes of n
  Googles,      \* Google identities
  EmailOf,      \* the e-mail Google gives of each
  BaseOf,       \* the username made of its display name
  Passwords,
  NoPassword,
  NoGoogle,
  NoEmail,
  MaxAccounts,  \* bound: accounts
  MaxAsks       \* bound: requests

ASSUME AccountsAssumption ==
  /\ MaxNames \in Nat /\ MaxAccounts \in Nat /\ MaxAsks \in Nat
  /\ EmailOf \in [Googles -> Emails] /\ BaseOf \in [Googles -> 1 .. MaxNames]
  /\ NoPassword \notin Passwords /\ NoGoogle \notin Googles /\ NoEmail \notin Emails

VARIABLES
  account,      \* the documents in users
  handler,      \* the requests under way
  asks,         \* requests so far, counted
  answered,     \* who was signed in as whom (ghost)
  screen,       \* the page
  me,           \* the account of the page, or 0
  hasPassword   \* what SettingsView takes the account to have

accountsVars == <<account, handler, asks, answered, screen, me, hasPassword>>
acVars == <<authVars, accountsVars>>

AccountIds == 1 .. MaxAccounts
Names == 1 .. MaxNames
Tabs == {"page", "other"}

NoAccount == [email |-> NoEmail, name |-> 0, google |-> NoGoogle, password |-> NoPassword, providers |-> {}]
NoHandler == [kind |-> "none", step |-> "idle", email |-> NoEmail, name |-> 0, google |-> NoGoogle,
              password |-> NoPassword, current |-> NoPassword, user |-> 0]

AccountsInit ==
  /\ AuthInit
  /\ account = [u \in AccountIds |-> NoAccount]
  /\ handler = [k \in Tabs |-> NoHandler]
  /\ asks = 0 /\ answered = {}
  /\ screen \in {"login", "register"} /\ me = 0 /\ hasPassword = TRUE

Existing == {u \in AccountIds : account[u].email # NoEmail}

-----------------------------------------------------------------------------
(* The page.                                                               *)

\* A tab sends a request; the page only from the form that is drawn.
Request(k, form, h) ==
  /\ handler[k].step = "idle" /\ asks < MaxAsks
  /\ k = "page" => screen \in form
  /\ handler' = [handler EXCEPT ![k] = h]
  /\ asks' = asks + 1
  /\ UNCHANGED <<authVars, account, answered, me, hasPassword>>

\* The form asks for the password twice and the backend for a username of
\* letters, digits and "_", which no e-mail is.
AskRegister(k) ==
  \E e \in Emails, n \in Names, p \in Passwords :
    /\ Request(k, {"register"}, [NoHandler EXCEPT !.kind = "register", !.step = "email",
                                 !.email = e, !.name = n, !.password = p])
    /\ UNCHANGED screen

\* The identifier is an e-mail or a username.
AskLogin(k) ==
  \E p \in Passwords, e \in Emails \cup {NoEmail}, n \in 0 .. MaxNames :
    /\ (e = NoEmail) # (n = 0)
    /\ Request(k, {"login"}, [NoHandler EXCEPT !.kind = "login", !.step = "check",
                              !.email = e, !.name = n, !.password = p])
    /\ UNCHANGED screen

\* The tab leaves for Google and comes back to the callback.
AskGoogle(k) ==
  \E g \in Googles :
    /\ Request(k, {"login", "register"}, [NoHandler EXCEPT !.kind = "google", !.step = "google",
                                          !.google = g, !.email = EmailOf[g]])
    /\ screen' = IF k = "page" THEN "google" ELSE screen

\* Settings send the current password if the account is taken to have one.
AskPassword(k) ==
  \E u \in Existing, p \in Passwords, c \in Passwords \cup {NoPassword} :
    /\ k = "page" => u = me /\ token # 0 /\ (hasPassword <=> c # NoPassword)
    /\ Request(k, {"settings"}, [NoHandler EXCEPT !.kind = "password", !.step = "read",
                                 !.user = u, !.password = p, !.current = c])
    /\ UNCHANGED screen

\* getMyProfile says whether there is a password.
OpenSettings ==
  /\ screen \in {"dashboard", "settings"} /\ token # 0 /\ handler["page"].step = "idle"
  /\ screen' = "settings"
  /\ hasPassword' \in {TRUE, "local" \in account[me].providers}
  /\ UNCHANGED <<authVars, account, handler, asks, answered, me>>

\* What the tab knows of its token changes on any page.
TokenOfPage ==
  /\ ApplySession
  /\ token' = 0 \/ me # 0
  /\ UNCHANGED accountsVars

-----------------------------------------------------------------------------
(* The handlers.                                                           *)

AtStep(k, step) == handler[k].step = step

Go(k, step) ==
  /\ handler' = [handler EXCEPT ![k].step = step]
  /\ UNCHANGED <<authVars, account, asks, answered, screen, me, hasPassword>>

GoWith(k, step, u) ==
  /\ handler' = [handler EXCEPT ![k].step = step, ![k].user = u]
  /\ UNCHANGED <<authVars, account, asks, answered, screen, me, hasPassword>>

ByEmail(e) == {u \in Existing : account[u].email = e}
ByName(n) == {u \in Existing : account[u].name = n}
ByGoogle(g) == {u \in Existing : account[u].google = g}

\* validateGoogleUser: signed in before?
FindByGoogle(k) ==
  /\ AtStep(k, "google")
  /\ IF ByGoogle(handler[k].google) = {} THEN Go(k, "email")
     ELSE \E u \in ByGoogle(handler[k].google) : GoWith(k, "done", u)

\* An e-mail that is taken ends register, and is what Google is linked to.
FindByEmail(k) ==
  /\ AtStep(k, "email")
  /\ IF ByEmail(handler[k].email) = {}
     THEN /\ handler' = [handler EXCEPT ![k].step = "name",
               ![k].name = IF handler[k].kind = "google" THEN BaseOf[handler[k].google] ELSE @]
          /\ UNCHANGED <<authVars, account, asks, answered, screen, me, hasPassword>>
     ELSE IF handler[k].kind = "register" THEN Go(k, "failed")
     ELSE \E u \in ByEmail(handler[k].email) : GoWith(k, "link", u)

\* ensureUniqueUsername tries the next one; register gives up.
FindByName(k) ==
  /\ AtStep(k, "name")
  /\ IF ByName(handler[k].name) = {} THEN Go(k, "insert")
     ELSE IF handler[k].kind = "register" THEN Go(k, "failed")
     ELSE /\ handler[k].name < MaxNames
          /\ handler' = [handler EXCEPT ![k].name = @ + 1]
          /\ UNCHANGED <<authVars, account, asks, answered, screen, me, hasPassword>>

Document(h) ==
  IF h.kind = "google"
  THEN [email |-> h.email, name |-> h.name, google |-> h.google, password |-> NoPassword, providers |-> {"google"}]
  ELSE [email |-> h.email, name |-> h.name, google |-> NoGoogle, password |-> h.password, providers |-> {"local"}]

Insert(k) ==
  \E u \in AccountIds \ Existing :
    /\ \A v \in AccountIds : v < u => v \in Existing
    /\ account' = [account EXCEPT ![u] = Document(handler[k])]
    /\ handler' = [handler EXCEPT ![k].step = "done", ![k].user = u]
    /\ UNCHANGED <<authVars, asks, answered, screen, me, hasPassword>>

\* What was looked up holds.
InsertUser_NoIndex(k) == AtStep(k, "insert") /\ Insert(k)

\* The indexes on e-mail, username and googleId; a duplicate is a 500.
InsertUser(k) ==
  /\ AtStep(k, "insert")
  /\ IF \/ ByEmail(handler[k].email) # {} \/ ByName(handler[k].name) # {}
        \/ handler[k].google # NoGoogle /\ ByGoogle(handler[k].google) # {}
     THEN Go(k, "failed")
     ELSE Insert(k)

\* $set googleId, $addToSet google: whatever googleId was there.
LinkGoogle(k) ==
  /\ AtStep(k, "link")
  /\ LET u == handler[k].user
         g == handler[k].google
     IN IF ByGoogle(g) \subseteq {u}
        THEN /\ account' = [account EXCEPT ![u].google = g, ![u].providers = @ \cup {"google"}]
             /\ handler' = [handler EXCEPT ![k].step = "done"]
             /\ UNCHANGED <<authVars, asks, answered, screen, me, hasPassword>>
        ELSE Go(k, "failed")

\* validateLocalUser: an account without a password has none that fits.
CheckPassword(k) ==
  /\ AtStep(k, "check")
  /\ LET found == {u \in Existing : \/ account[u].email = handler[k].email
                                    \/ account[u].name = handler[k].name}
     IN IF \E u \in found : account[u].password = handler[k].password
        THEN \E u \in found : account[u].password = handler[k].password /\ GoWith(k, "done", u)
        ELSE Go(k, "failed")

\* changePassword: the current one must be right, if there is one.
ReadPassword(k) ==
  /\ AtStep(k, "read")
  /\ Go(k, IF account[handler[k].user].password \in {NoPassword, handler[k].current} THEN "set" ELSE "failed")

SetPassword(k) ==
  /\ AtStep(k, "set")
  /\ account' = [account EXCEPT ![handler[k].user].password = handler[k].password,
                                ![handler[k].user].providers = @ \cup {"local"}]
  /\ handler' = [handler EXCEPT ![k].step = "done"]
  /\ UNCHANGED <<authVars, asks, answered, screen, me, hasPassword>>

\* Who has shown what: an e-mail, a username, a Google identity.
Shown(h) ==
  (IF h.email # NoEmail THEN {<<"email", h.email>>} ELSE {})
    \cup (IF h.google # NoGoogle THEN {<<"google", h.google>>} ELSE {})
    \cup (IF h.name # 0 /\ h.kind # "google" THEN {<<"name", h.name>>} ELSE {})

\* A session begins.  The forms go on to the dashboard, the callback loads the
\* page anew.
AnswerSignIn(k) ==
  /\ AtStep(k, "done") /\ handler[k].kind # "password"
  /\ handler' = [handler EXCEPT ![k] = NoHandler]
  /\ answered' = answered \cup {<<i, handler[k].user>> : i \in Shown(handler[k])}
  /\ IF k = "other" THEN UNCHANGED <<authVars, screen, me>>
     ELSE SignIn /\ screen' = "dashboard" /\ me' = handler[k].user
  /\ UNCHANGED <<account, asks, hasPassword>>

AnswerPassword(k) ==
  /\ AtStep(k, "done") /\ handler[k].kind = "password"
  /\ handler' = [handler EXCEPT ![k] = NoHandler]
  /\ hasPassword' = (hasPassword \/ k = "page")
  /\ UNCHANGED <<authVars, account, asks, answered, screen, me>>

\* The form says why and stays; Google leads to an error page.
AnswerFailed(k) ==
  /\ AtStep(k, "failed")
  /\ handler' = [handler EXCEPT ![k] = NoHandler]
  /\ UNCHANGED <<authVars, account, asks, answered, screen, me, hasPassword>>

AccountsNext ==
  \/ OpenSettings \/ TokenOfPage
  \/ \E k \in Tabs :
       \/ AskRegister(k) \/ AskLogin(k) \/ AskGoogle(k) \/ AskPassword(k)
       \/ FindByGoogle(k) \/ FindByEmail(k) \/ FindByName(k) \/ InsertUser(k) \/ LinkGoogle(k)
       \/ CheckPassword(k) \/ ReadPassword(k) \/ SetPassword(k)
       \/ AnswerSignIn(k) \/ AnswerPassword(k) \/ AnswerFailed(k)

AccountsSpec == AccountsInit /\ [][AccountsNext]_acVars

-----------------------------------------------------------------------------
(* Properties.                                                             *)

\* What a person shows leads to one account, ever.
SameAccount == \A a, b \in answered : a[1] = b[1] => a[2] = b[2]

\* The providers say how: a password if local, a Google identity if google.
ProvidersTold ==
  \A u \in Existing :
    /\ "local" \in account[u].providers <=> account[u].password # NoPassword
    /\ "google" \in account[u].providers <=> account[u].google # NoGoogle

\* However the ways to sign in and up pass each other, an e-mail, a username
\* and a Google identity lead to one account, and to the same one each time, and
\* hasPassword tells the page what it may ask for (register, validateLocalUser,
\* validateGoogleUser, setPassword, linkGoogleAccount, the indexes of users).
OneAccount == SameAccount /\ ProvidersTold
=============================================================================
