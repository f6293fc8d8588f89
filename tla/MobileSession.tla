---------------------------- MODULE MobileSession ----------------------------
(***************************************************************************)
(* The session of one device: the app's cold start, sign-in, silent        *)
(* refresh and logout, which run as asynchronous flows between awaits, and *)
(* the API's refresh tokens, each of which is redeemed for the next one.   *)
(***************************************************************************)
EXTENDS Integers, FiniteSets

CONSTANTS
    Null,        \* "no token"
    MaxTokens,   \* bound on the tokens issued in a behaviour
    MaxRestarts  \* bound on the restarts of the app

ASSUME SessionAssumption ==
    /\ MaxTokens \in Nat
    /\ MaxRestarts \in Nat
    /\ Null \notin Nat

VARIABLES
    live,      \* the API's refresh_tokens
    login,     \* the sign-in each issued token descends from
    issued,    \* the number of tokens issued
    revoked,   \* tokens that expired or that the API revoked
    late,      \* tokens of refreshes still at the API that no flow waits for
    logouts,   \* tokens of logouts on their way to the API
    store,     \* the token in SecureStore
    ref,       \* refreshTokenRef.current
    ui,        \* the status of the session reducer
    pc,        \* the next step of each flow
    held,      \* the token a flow works with
    loggedOut, \* auxiliary: "no", or how the user, who has not signed in
               \* again, logged out
    restarts

apiVars == <<live, login, issued, revoked>>
requests == <<late, logouts>>
appVars == <<store, ref>>
vars == <<live, login, issued, revoked, late, logouts, store, ref, ui, pc, held,
          loggedOut, restarts>>

Token == 1..MaxTokens
Flow == {"boot", "refresh", "login", "logout"}

\* "send" and "redeem" wait for the API's answer, "persist" and "clear" set the
\* reference, "store" and "erase" wait for SecureStore, "dispatch" and "out"
\* tell the reducer, "end" tells the API of a logout.
Label == {"idle", "read", "send", "redeem", "persist", "store", "me",
          "dispatch", "clear", "erase", "out", "end"}

\* A logout is "beside" another flow, or "alone"; "failed" is one alone that
\* left a token in SecureStore which the API still redeems.
TypeOK ==
    /\ live \subseteq Token
    /\ login \in [Token -> Token \cup {Null}]
    /\ issued \in 0..MaxTokens
    /\ revoked \subseteq Token
    /\ late \subseteq Token
    /\ logouts \subseteq Token
    /\ store \in Token \cup {Null}
    /\ ref \in Token \cup {Null}
    /\ ui \in {"loading", "signed_out", "signed_in"}
    /\ pc \in [Flow -> Label]
    /\ held \in [Flow -> Token \cup {Null}]
    /\ loggedOut \in {"no", "alone", "failed", "beside"}
    /\ restarts \in 0..MaxRestarts

AtStart(f) == IF f = "boot" THEN "read" ELSE "idle"

Init ==
    /\ live = {}
    /\ login = [t \in Token |-> Null]
    /\ issued = 0
    /\ revoked = {}
    /\ late = {}
    /\ logouts = {}
    /\ store = Null
    /\ ref = Null
    /\ ui = "loading"
    /\ pc = [f \in Flow |-> AtStart(f)]
    /\ held = [f \in Flow |-> Null]
    /\ loggedOut = "no"
    /\ restarts = 0

Goto(f, l) == pc' = [pc EXCEPT ![f] = l]
Hold(f, t) == held' = [held EXCEPT ![f] = t]
NewToken == issued + 1

-----------------------------------------------------------------------------
(* The API: auth.service.ts, auth-token.service.ts *)

\* createRefreshToken, for the sign-in s
Issue(s) ==
    /\ issued < MaxTokens
    /\ issued' = NewToken
    /\ login' = [login EXCEPT ![NewToken] = s]
    /\ UNCHANGED revoked

RotateUncheckedBug(t) ==
    /\ Issue(login[t])
    /\ live' = (live \ {t}) \cup {NewToken}

\* The transaction of refresh: delete of the row that was read, which throws
\* when the row is gone, and the next token.
Rotate(t) ==
    /\ t \in live
    /\ Issue(login[t])
    /\ live' = (live \ {t}) \cup {NewToken}

\* refresh, for flow f: the row is read,
FindToken(f) ==
    /\ pc[f] = "send"
    /\ held[f] \in live
    /\ Goto(f, "redeem")
    /\ UNCHANGED <<apiVars, requests, appVars, ui, held, loggedOut, restarts>>

\* then redeemed.
Redeem(f) ==
    /\ pc[f] = "redeem"
    /\ Rotate(held[f])
    /\ Hold(f, NewToken)
    /\ Goto(f, "persist")
    /\ UNCHANGED <<requests, appVars, ui, loggedOut, restarts>>

\* The same for a flow that is gone: nobody gets the next token.
RedeemLate(t) ==
    /\ Rotate(t)
    /\ late' = late \ {t}
    /\ UNCHANGED <<logouts, appVars, ui, pc, held, loggedOut, restarts>>

\* logout. After a failed delete on the device it is what ends the stored token.
EndSession(t) ==
    /\ live' = live \ {t}
    /\ logouts' = logouts \ {t}
    /\ loggedOut' = IF loggedOut = "failed" /\ store = t /\ t \in live
                    THEN "alone" ELSE loggedOut
    /\ UNCHANGED <<login, issued, revoked, late, appVars, ui, pc, held,
                   restarts>>

\* Expiry, a password reset, a ban.
Revoke(t) ==
    /\ live' = live \ {t}
    /\ revoked' = revoked \cup {t}
    /\ UNCHANGED <<login, issued, requests, appVars, ui, pc, held, loggedOut,
                   restarts>>

-----------------------------------------------------------------------------
(* What the flows share: auth-provider.tsx *)

\* The API is still at work on the refreshes of the flows F. One whose row is
\* not read yet is as good as one that reads it now.
LeaveLate(F) ==
    LET waiting == {f \in F : pc[f] \in {"send", "redeem"}}
    IN late' = late \cup ({held[f] : f \in waiting} \cap live)

\* POST /auth/refresh fails: the token is dead, or the network fails with the
\* request still under way.
Fail(f) ==
    /\ pc[f] \in {"send", "redeem"}
    /\ LeaveLate({f})
    /\ Hold(f, Null)
    /\ Goto(f, "clear")
    /\ UNCHANGED <<apiVars, logouts, appVars, ui, loggedOut, restarts>>

\* persistRefreshToken sets the reference at once
SetRef(f) ==
    /\ pc[f] \in {"persist", "clear"}
    /\ ref' = IF pc[f] = "persist" THEN held[f] ELSE Null
    /\ Goto(f, IF pc[f] = "persist" THEN "store" ELSE "erase")
    /\ UNCHANGED <<apiVars, requests, store, ui, held, loggedOut, restarts>>

\* and waits for SecureStore, whose failure it swallows.
StoreToken(f) ==
    /\ pc[f] = "store"
    /\ store' \in {held[f], store}
    /\ Goto(f, IF f = "boot" THEN "me" ELSE "dispatch")
    /\ UNCHANGED <<apiVars, requests, ref, ui, held, loggedOut, restarts>>

\* The logout under way fails to take a token that works off the device.
LogoutFails ==
    loggedOut' =
      IF loggedOut = "alone" /\ pc["logout"] = "erase" /\ store \in live
      THEN "failed" ELSE loggedOut

EraseSilentBug(f) ==
    /\ pc[f] = "erase"
    /\ store' = Null
    /\ Goto(f, "idle")
    /\ UNCHANGED <<apiVars, requests, ref, ui, held, loggedOut, restarts>>

EraseToken(f) ==
    /\ pc[f] = "erase"
    /\ \/ store' = Null /\ UNCHANGED loggedOut
       \/ /\ UNCHANGED store
          /\ IF f = "logout" THEN LogoutFails ELSE UNCHANGED loggedOut
    /\ Goto(f, "out")
    /\ UNCHANGED <<apiVars, requests, ref, ui, held, restarts>>

\* SIGNED_IN, or TOKEN_REFRESHED, which the reducer ignores when signed out.
Dispatch(f) ==
    /\ pc[f] = "dispatch"
    /\ ui' = IF f = "refresh" THEN ui ELSE "signed_in"
    /\ Goto(f, "idle")
    /\ Hold(f, Null)
    /\ UNCHANGED <<apiVars, requests, appVars, loggedOut, restarts>>

\* SIGNED_OUT, HYDRATE_SIGNED_OUT
DispatchOut(f) ==
    /\ pc[f] = "out"
    /\ ui' = "signed_out"
    /\ Goto(f, IF f = "logout" THEN "end" ELSE "idle")
    /\ UNCHANGED <<apiVars, requests, appVars, held, loggedOut, restarts>>

-----------------------------------------------------------------------------
(* The flows *)

\* Cold start: without a stored token the app is signed out.
ReadStore ==
    /\ pc["boot"] = "read"
    /\ IF store = Null
       THEN ui' = "signed_out" /\ Goto("boot", "idle")
            /\ UNCHANGED <<ref, held>>
       ELSE ref' = store /\ Hold("boot", store) /\ Goto("boot", "send")
            /\ UNCHANGED ui
    /\ UNCHANGED <<apiVars, requests, store, loggedOut, restarts>>

\* GET /users/me
FetchMe ==
    /\ pc["boot"] = "me"
    /\ Goto("boot", "dispatch") \/ Goto("boot", "clear")
    /\ UNCHANGED <<apiVars, requests, appVars, ui, held, loggedOut, restarts>>

\* Any call that answers 401 joins the refresh in flight or starts one.
StartRefresh ==
    /\ pc["refresh"] = "idle"
    /\ ref # Null
    /\ Hold("refresh", ref)
    /\ Goto("refresh", "send")
    /\ UNCHANGED <<apiVars, requests, appVars, ui, loggedOut, restarts>>

\* login, verifyOtp: POST, whose answer may fail to come.
SignIn ==
    /\ ui = "signed_out"
    /\ pc["login"] = "idle"
    /\ Issue(NewToken)
    /\ live' = live \cup {NewToken}
    /\ \/ /\ Hold("login", NewToken) /\ Goto("login", "persist")
          /\ loggedOut' = "no"
       \/ UNCHANGED <<held, pc, loggedOut>>
    /\ UNCHANGED <<requests, appVars, ui, restarts>>

\* logout remembers the token and clears the reference before its first await.
StartLogout(next) ==
    /\ ui = "signed_in"
    /\ pc["logout"] = "idle"
    /\ Hold("logout", ref)
    /\ ref' = Null
    /\ Goto("logout", next)
    /\ loggedOut' = IF \A f \in Flow : pc[f] = "idle" THEN "alone" ELSE "beside"
    /\ UNCHANGED <<apiVars, requests, store, ui, restarts>>

LogoutKeepsStoreBug == StartLogout("out")

Logout == StartLogout("erase")

LogoutOnServerLateBug ==
    /\ pc["logout"] = "end"
    /\ logouts' = logouts \cup ({ref} \cap live)
    /\ Goto("logout", "idle")
    /\ Hold("logout", Null)
    /\ UNCHANGED <<apiVars, late, appVars, ui, loggedOut, restarts>>

\* POST /auth/logout, best effort: nobody waits for the answer.
LogoutOnServer ==
    /\ pc["logout"] = "end"
    /\ logouts' = logouts \cup ({held["logout"]} \cap live)
    /\ Goto("logout", "idle")
    /\ Hold("logout", Null)
    /\ UNCHANGED <<apiVars, late, appVars, ui, loggedOut, restarts>>

\* The app is killed and started again.
Restart ==
    /\ restarts < MaxRestarts
    /\ restarts' = restarts + 1
    /\ ref' = Null
    /\ ui' = "loading"
    /\ pc' = [f \in Flow |-> AtStart(f)]
    /\ held' = [f \in Flow |-> Null]
    /\ LeaveLate(Flow)
    /\ LogoutFails
    /\ UNCHANGED <<apiVars, logouts, store>>

\* What the cold start does by itself, its calls to the API left aside.
Boot == ReadStore \/ SetRef("boot") \/ StoreToken("boot") \/ EraseToken("boot")
          \/ Dispatch("boot") \/ DispatchOut("boot")

Next ==
    \/ Boot \/ FetchMe \/ StartRefresh \/ SignIn \/ Logout \/ LogoutOnServer
    \/ Restart
    \/ \E f \in Flow : FindToken(f) \/ Redeem(f) \/ Fail(f)
    \/ \E f \in Flow \ {"boot"} : SetRef(f) \/ StoreToken(f) \/ EraseToken(f)
                                  \/ Dispatch(f) \/ DispatchOut(f)
    \/ \E t \in late : RedeemLate(t)
    \/ \E t \in logouts : EndSession(t)
    \/ \E t \in live : Revoke(t)

Spec == Init /\ [][Next]_vars

\* The event loop runs what is ready, and SecureStore answers or fails. No call
\* to the API is assumed to end: fetch has no timeout.
FairSpec == Spec /\ WF_vars(Boot)

-----------------------------------------------------------------------------
(* What holds *)

\* A sign-in has one live refresh token, whichever of the cold start, a
\* silent refresh and the requests of a killed app redeem it at once.
OneTokenPerLogin ==
    \A s, t \in live : login[s] = login[t] => s = t

\* At rest the app never sits on a token that somebody has redeemed or logged
\* out: flows that race for it, late answers and logouts leave it with the last
\* one, or with none.
HeldTokenWorks ==
    (\A f \in Flow : pc[f] = "idle") => ref \in live \cup revoked \cup {Null}

\* The splash screen ends if the calls of the cold start do, in whichever way:
\* with an answer, an error, or a failing network.
ColdStartEnds ==
    LET waiting == pc["boot"] \in {"send", "redeem", "me"}
    IN (waiting ~> ~waiting) => (ui = "loading" ~> ui # "loading")

\* A logout beside no other flow lasts until the next sign-in, over restarts of
\* the app, once SecureStore has dropped the token or the API has ended it. When
\* both fail, or another flow is at work, the next cold start may sign in again.
LogoutIsFinal ==
    loggedOut = "alone" /\ pc["logout"] \notin {"erase", "out"}
      => ui # "signed_in"
=============================================================================
