----------------------------- MODULE AuthContext -----------------------------
(***************************************************************************)
(* The access token of one tab, as auth.context.tsx keeps it for the pages *)
(* below it.  A page load and a timer exchange the refresh cookie for a    *)
(* token; the answers come in any order and each is applied as it comes.   *)
(*                                                                         *)
(* What the cookie is worth is the business of RefreshTokens: here an      *)
(* answer is a token or none.                                              *)
(***************************************************************************)
EXTENDS Integers

CONSTANT MaxTokens    \* bound: the access tokens a tab is given

ASSUME TokensAssumption == MaxTokens \in Nat

VARIABLES
  token,        \* 0 is null; the n-th token a tab is given is n
  authLoading,  \* the page load has not been answered
  asked,        \* refreshes under way
  given         \* tokens given so far

authVars == <<token, authLoading, asked, given>>

AuthInit == token = 0 /\ authLoading = TRUE /\ asked = 1 /\ given = 0

\* One refresh for each token, before it expires, or when the tab is seen again.
AskRefresh ==
  /\ token # 0 /\ asked = 0
  /\ asked' = 1
  /\ UNCHANGED <<token, authLoading, given>>

\* A new token, or none: no cookie, a revoked one, or no network.
Answered ==
  /\ authLoading' = FALSE
  /\ \/ given < MaxTokens /\ given' = given + 1 /\ token' = given + 1
     \/ token' = 0 /\ UNCHANGED given

ApplySession == asked > 0 /\ asked' = asked - 1 /\ Answered

\* Both at once, where a page cannot tell.
Refresh == token # 0 /\ asked = 0 /\ Answered /\ UNCHANGED asked

\* The answer to login or to register.
SignIn ==
  /\ given < MaxTokens
  /\ given' = given + 1 /\ token' = given + 1
  /\ UNCHANGED <<authLoading, asked>>

\* Also when the backend cannot be reached.
SignOut ==
  /\ token # 0
  /\ token' = 0
  /\ UNCHANGED <<authLoading, asked, given>>
=============================================================================
