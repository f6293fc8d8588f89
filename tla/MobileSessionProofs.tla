------------------------- MODULE MobileSessionProofs -------------------------
(***************************************************************************)
(* MobileSession is type correct, keeps one live token per sign-in, leaves *)
(* the app at rest with a token that works, and lets a logout last.        *)
(***************************************************************************)
EXTENDS MobileSession, TLAPS

\* Which steps a flow goes through.
Steps ==
    /\ pc["boot"] \in {"idle", "read", "send", "redeem", "persist", "store", "me",
                       "dispatch", "clear", "erase", "out"}
    /\ pc["refresh"] \in {"idle", "send", "redeem", "persist", "store", "dispatch",
                          "clear", "erase", "out"}
    /\ pc["login"] \in {"idle", "persist", "store", "dispatch"}
    /\ pc["logout"] \in {"idle", "erase", "out", "end"}

\* Tokens are numbered as they are issued, and descend from older ones.
Numbered ==
    /\ live \subseteq 1..issued /\ revoked \subseteq 1..issued
    /\ late \subseteq 1..issued /\ logouts \subseteq 1..issued
    /\ store \in 1..issued \cup {Null} /\ ref \in 1..issued \cup {Null}
    /\ \A f \in Flow : held[f] \in 1..issued \cup {Null}
    /\ \A t \in Token : t <= issued => login[t] \in 1..issued

\* What only its flow knows can neither be redeemed nor logged out by another.
Private(t, f) ==
    /\ t # store /\ t # ref /\ t \notin late \cup logouts
    /\ \A g \in Flow \ {f} : held[g] # t

\* A token about to become the app's works.
Unstored ==
    \A f \in Flow : pc[f] = "persist" =>
      held[f] \in live \cup revoked /\ Private(held[f], f)

\* A logout means to end token t, or is about to.
Ending(t) ==
    t \in logouts \/ (pc["logout"] \in {"erase", "out", "end"} /\ held["logout"] = t)

\* Who redeems the token the app sits on goes on to replace or to clear it;
\* so does a cold start that found a token redeemed before the app was killed.
Moving ==
    \/ pc["boot"] \in {"send", "redeem"}
    \/ \E f \in Flow : pc[f] \in {"persist", "clear"}

RefWorks ==
    \/ Moving
    \/ ref = Null
    \/ ref \in live \cup revoked /\ ref \notin late /\ ~Ending(ref)

\* Flow f has not taken in a token, and can take one in only for those of T.
Holds(f, T) ==
    /\ pc[f] \in {"idle", "read", "send", "redeem", "clear", "erase", "out"}
    /\ pc[f] \in {"send", "redeem"} /\ held[f] \in live => held[f] \in T

\* The only tokens the app can sign in with are those of T.
Left(T) ==
    /\ ref \in live => ref \in T
    /\ pc["login"] = "idle" /\ Holds("boot", T) /\ Holds("refresh", T)
    /\ pc["logout"] \notin {"erase", "out"} => ui # "signed_in"

\* After a logout beside no other flow nothing is left to sign in with,
Gone ==
    loggedOut = "alone" =>
      /\ Left({})
      /\ IF pc["logout"] = "erase"
         THEN ref = Null /\ pc["boot"] = "idle" /\ pc["refresh"] = "idle"
         ELSE store \notin live

\* and after a failed one what it left in SecureStore and means to end.
Failed ==
    loggedOut = "failed" =>
      /\ pc["logout"] # "erase"
      /\ store \in live /\ Ending(store) => Left({store})
      /\ \A f \in Flow : pc[f] = "store" => ~Ending(held[f])

IInv == /\ TypeOK /\ Steps /\ Numbered /\ OneTokenPerLogin
        /\ Unstored /\ RefWorks /\ Gone /\ Failed

LEMMA InitInv == Init => IInv
  BY SessionAssumption
  DEF Init, AtStart, IInv, TypeOK, Steps, Numbered, OneTokenPerLogin,
      Unstored, RefWorks, Gone, Failed, Flow, Label, Token

-----------------------------------------------------------------------------
(* One lemma per action *)

\* The next token is new to everyone, and no token is Null.
LEMMA Fresh ==
    ASSUME TypeOK, Numbered
    PROVE  /\ Null \notin live \cup revoked \cup late \cup logouts
           /\ issued + 1 \notin live \cup revoked \cup late \cup logouts
           /\ issued + 1 \notin {Null, store, ref}
           /\ \A f \in Flow : held[f] # issued + 1
           /\ \A t \in live : t \in Token /\ login[t] \in 1..issued
  <1>1. issued \in Nat /\ Null \notin 1..issued /\ issued + 1 # Null
    BY SessionAssumption DEF TypeOK
  <1>2. issued + 1 \notin 1..issued
    BY <1>1
  <1>3. /\ live \cup revoked \cup late \cup logouts \subseteq 1..issued
        /\ {store, ref} \subseteq 1..issued \cup {Null}
        /\ \A f \in Flow : held[f] \in 1..issued \cup {Null}
    BY DEF Numbered
  <1>4. ASSUME NEW t \in live
        PROVE  t \in Token /\ login[t] \in 1..issued
    <2>1. t \in Token
      BY DEF TypeOK
    <2>2. t <= issued
      BY <1>1, <1>3
    <2>3. QED
      BY <2>1, <2>2 DEF Numbered
  <1>5. QED
    BY <1>1, <1>2, <1>3, <1>4

LEMMA RevokeInv ==
    ASSUME IInv, NEW t \in live, Revoke(t)
    PROVE  IInv'
  <1> USE SessionAssumption
      DEF IInv, Token, apiVars, requests, appVars, Revoke
  <1>1. TypeOK'
    BY DEF TypeOK, Label, Flow
  <1>2. Steps'
    BY DEF Steps, TypeOK, Flow
  <1>3. Numbered'
    BY DEF Numbered, TypeOK, Flow
  <1>4. OneTokenPerLogin'
    BY DEF OneTokenPerLogin, TypeOK
  <1>5. Unstored'
    BY Fresh DEF Unstored, Private, Steps, TypeOK, Flow
  <1>6. RefWorks'
    BY Fresh
    DEF RefWorks, Moving, Ending, Unstored, Private, Steps, TypeOK, Flow
  <1>7. Gone'
    BY Fresh DEF Gone, Failed, Left, Holds, Ending, Steps, TypeOK, Flow
  <1>8. Failed'
    BY Fresh DEF Gone, Failed, Left, Holds, Ending, Steps, TypeOK, Flow
  <1>9. QED
    BY <1>1, <1>2, <1>3, <1>4, <1>5, <1>6, <1>7, <1>8

LEMMA EndSessionInv ==
    ASSUME IInv, NEW t \in logouts, EndSession(t)
    PROVE  IInv'
  <1> USE SessionAssumption
      DEF IInv, Token, apiVars, requests, appVars, EndSession
  <1>1. TypeOK'
    BY DEF TypeOK, Label, Flow
  <1>2. Steps'
    BY DEF Steps, TypeOK, Flow
  <1>3. Numbered'
    BY DEF Numbered, TypeOK, Flow
  <1>4. OneTokenPerLogin'
    BY DEF OneTokenPerLogin, TypeOK
  <1>5. Unstored'
    BY Fresh DEF Unstored, Private, Steps, TypeOK, Flow
  <1>6. RefWorks'
    BY Fresh
    DEF RefWorks, Moving, Ending, Unstored, Private, Steps, TypeOK, Flow
  <1>7. Gone'
    BY Fresh DEF Gone, Failed, Left, Holds, Ending, Steps, TypeOK, Flow
  <1>8. Failed'
    BY Fresh DEF Gone, Failed, Left, Holds, Ending, Steps, TypeOK, Flow
  <1>9. QED
    BY <1>1, <1>2, <1>3, <1>4, <1>5, <1>6, <1>7, <1>8

LEMMA FindTokenInv ==
    ASSUME IInv, NEW f \in Flow, FindToken(f)
    PROVE  IInv'
  <1> USE SessionAssumption
      DEF IInv, Token, apiVars, requests, appVars, FindToken, Goto
  <1>1. TypeOK'
    BY DEF TypeOK, Label, Flow
  <1>2. Steps'
    BY DEF Steps, TypeOK, Flow
  <1>3. Numbered'
    BY DEF Numbered, TypeOK, Flow
  <1>4. OneTokenPerLogin'
    BY DEF OneTokenPerLogin, TypeOK
  <1>5. Unstored'
    BY Fresh DEF Unstored, Private, Steps, TypeOK, Flow
  <1>6. RefWorks'
    BY Fresh
    DEF RefWorks, Moving, Ending, Unstored, Private, Steps, TypeOK, Flow
  <1>7. Gone'
    BY Fresh DEF Gone, Failed, Left, Holds, Ending, Steps, TypeOK, Flow
  <1>8. Failed'
    BY Fresh DEF Gone, Failed, Left, Holds, Ending, Steps, TypeOK, Flow
  <1>9. QED
    BY <1>1, <1>2, <1>3, <1>4, <1>5, <1>6, <1>7, <1>8

LEMMA FailInv ==
    ASSUME IInv, NEW f \in Flow, Fail(f)
    PROVE  IInv'
  <1> USE SessionAssumption
      DEF IInv, Token, apiVars, requests, appVars, Fail, Goto, Hold, LeaveLate
  <1>1. TypeOK'
    BY DEF TypeOK, Label, Flow
  <1>2. Steps'
    BY DEF Steps, TypeOK, Flow
  <1>3. Numbered'
    BY DEF Numbered, TypeOK, Flow
  <1>4. OneTokenPerLogin'
    BY DEF OneTokenPerLogin, TypeOK
  <1>5. Unstored'
    BY Fresh DEF Unstored, Private, Steps, TypeOK, Flow
  <1>6. RefWorks'
    BY Fresh
    DEF RefWorks, Moving, Ending, Unstored, Private, Steps, TypeOK, Flow
  <1>7. Gone'
    BY Fresh DEF Gone, Failed, Left, Holds, Ending, Steps, TypeOK, Flow
  <1>8. Failed'
    BY Fresh DEF Gone, Failed, Left, Holds, Ending, Steps, TypeOK, Flow
  <1>9. QED
    BY <1>1, <1>2, <1>3, <1>4, <1>5, <1>6, <1>7, <1>8

LEMMA SetRefInv ==
    ASSUME IInv, NEW f \in Flow, SetRef(f)
    PROVE  IInv'
  <1> USE SessionAssumption
      DEF IInv, Token, apiVars, requests, appVars, SetRef, Goto
  <1>1. TypeOK'
    BY DEF TypeOK, Label, Flow
  <1>2. Steps'
    BY DEF Steps, TypeOK, Flow
  <1>3. Numbered'
    BY DEF Numbered, TypeOK, Flow
  <1>4. OneTokenPerLogin'
    BY DEF OneTokenPerLogin, TypeOK
  <1>5. Unstored'
    BY Fresh DEF Unstored, Private, Steps, TypeOK, Flow
  <1>6. RefWorks'
    BY Fresh
    DEF RefWorks, Moving, Ending, Unstored, Private, Steps, TypeOK, Flow
  <1>7. Gone'
    BY Fresh DEF Gone, Failed, Left, Holds, Ending, Steps, TypeOK, Flow
  <1>8. Failed'
    <2>1. /\ f # "logout" /\ "logout" \in Flow
          /\ UNCHANGED <<live, logouts, store, loggedOut, ui, held>>
          /\ \A g \in Flow :
               pc'[g] = IF g = f
                        THEN IF pc[f] = "persist" THEN "store" ELSE "erase"
                        ELSE pc[g]
      BY DEF Steps, TypeOK, Flow
    <2>2. \A t : Ending(t)' <=> Ending(t)
      BY <2>1 DEF Ending
    <2>3. ASSUME Left({store}) PROVE Left({store})'
      BY <2>1, <2>3, Fresh DEF Left, Holds, Flow
    <2>4. pc[f] = "persist" => ~Ending(held[f])
      BY <2>1 DEF Ending, Unstored, Private
    <2>5. QED
      BY <2>1, <2>2, <2>3, <2>4 DEF Failed
  <1>9. QED
    BY <1>1, <1>2, <1>3, <1>4, <1>5, <1>6, <1>7, <1>8

LEMMA StoreTokenInv ==
    ASSUME IInv, NEW f \in Flow, StoreToken(f)
    PROVE  IInv'
  <1> USE SessionAssumption
      DEF IInv, Token, apiVars, requests, appVars, StoreToken, Goto
  <1>1. TypeOK'
    BY DEF TypeOK, Label, Flow
  <1>2. Steps'
    BY DEF Steps, TypeOK, Flow
  <1>3. Numbered'
    BY DEF Numbered, TypeOK, Flow
  <1>4. OneTokenPerLogin'
    BY DEF OneTokenPerLogin, TypeOK
  <1>5. Unstored'
    BY Fresh DEF Unstored, Private, Steps, TypeOK, Flow
  <1>6. RefWorks'
    BY Fresh
    DEF RefWorks, Moving, Ending, Unstored, Private, Steps, TypeOK, Flow
  <1>7. Gone'
    BY Fresh DEF Gone, Failed, Left, Holds, Ending, Steps, TypeOK, Flow
  <1>8. Failed'
    BY Fresh DEF Gone, Failed, Left, Holds, Ending, Steps, TypeOK, Flow
  <1>9. QED
    BY <1>1, <1>2, <1>3, <1>4, <1>5, <1>6, <1>7, <1>8

LEMMA EraseTokenInv ==
    ASSUME IInv, NEW f \in Flow, EraseToken(f)
    PROVE  IInv'
  <1> USE SessionAssumption
      DEF IInv, Token, apiVars, requests, appVars, EraseToken, Goto,
          LogoutFails
  <1>1. TypeOK'
    BY DEF TypeOK, Label, Flow
  <1>2. Steps'
    BY DEF Steps, TypeOK, Flow
  <1>3. Numbered'
    BY DEF Numbered, TypeOK, Flow
  <1>4. OneTokenPerLogin'
    BY DEF OneTokenPerLogin, TypeOK
  <1>5. Unstored'
    BY Fresh DEF Unstored, Private, Steps, TypeOK, Flow
  <1>6. RefWorks'
    BY Fresh
    DEF RefWorks, Moving, Ending, Unstored, Private, Steps, TypeOK, Flow
  <1>7. Gone'
    BY Fresh DEF Gone, Failed, Left, Holds, Ending, Steps, TypeOK, Flow
  <1>8. Failed'
    BY Fresh DEF Gone, Failed, Left, Holds, Ending, Steps, TypeOK, Flow
  <1>9. QED
    BY <1>1, <1>2, <1>3, <1>4, <1>5, <1>6, <1>7, <1>8

LEMMA DispatchInv ==
    ASSUME IInv, NEW f \in Flow, Dispatch(f)
    PROVE  IInv'
  <1> USE SessionAssumption
      DEF IInv, Token, apiVars, requests, appVars, Dispatch, Goto, Hold
  <1>1. TypeOK'
    BY DEF TypeOK, Label, Flow
  <1>2. Steps'
    BY DEF Steps, TypeOK, Flow
  <1>3. Numbered'
    BY DEF Numbered, TypeOK, Flow
  <1>4. OneTokenPerLogin'
    BY DEF OneTokenPerLogin, TypeOK
  <1>5. Unstored'
    BY Fresh DEF Unstored, Private, Steps, TypeOK, Flow
  <1>6. RefWorks'
    BY Fresh
    DEF RefWorks, Moving, Ending, Unstored, Private, Steps, TypeOK, Flow
  <1>7. Gone'
    BY Fresh DEF Gone, Failed, Left, Holds, Ending, Steps, TypeOK, Flow
  <1>8. Failed'
    BY Fresh DEF Gone, Failed, Left, Holds, Ending, Steps, TypeOK, Flow
  <1>9. QED
    BY <1>1, <1>2, <1>3, <1>4, <1>5, <1>6, <1>7, <1>8

LEMMA DispatchOutInv ==
    ASSUME IInv, NEW f \in Flow, DispatchOut(f)
    PROVE  IInv'
  <1> USE SessionAssumption
      DEF IInv, Token, apiVars, requests, appVars, DispatchOut, Goto
  <1>1. TypeOK'
    BY DEF TypeOK, Label, Flow
  <1>2. Steps'
    BY DEF Steps, TypeOK, Flow
  <1>3. Numbered'
    BY DEF Numbered, TypeOK, Flow
  <1>4. OneTokenPerLogin'
    BY DEF OneTokenPerLogin, TypeOK
  <1>5. Unstored'
    BY Fresh DEF Unstored, Private, Steps, TypeOK, Flow
  <1>6. RefWorks'
    BY Fresh
    DEF RefWorks, Moving, Ending, Unstored, Private, Steps, TypeOK, Flow
  <1>7. Gone'
    BY Fresh DEF Gone, Failed, Left, Holds, Ending, Steps, TypeOK, Flow
  <1>8. Failed'
    BY Fresh DEF Gone, Failed, Left, Holds, Ending, Steps, TypeOK, Flow
  <1>9. QED
    BY <1>1, <1>2, <1>3, <1>4, <1>5, <1>6, <1>7, <1>8

LEMMA ReadStoreInv ==
    ASSUME IInv, ReadStore
    PROVE  IInv'
  <1> USE SessionAssumption
      DEF IInv, Token, apiVars, requests, appVars, ReadStore, Goto, Hold
  <1>1. TypeOK'
    BY DEF TypeOK, Label, Flow
  <1>2. Steps'
    BY DEF Steps, TypeOK, Flow
  <1>3. Numbered'
    BY DEF Numbered, TypeOK, Flow
  <1>4. OneTokenPerLogin'
    BY DEF OneTokenPerLogin, TypeOK
  <1>5. Unstored'
    BY Fresh DEF Unstored, Private, Steps, TypeOK, Flow
  <1>6. RefWorks'
    BY Fresh
    DEF RefWorks, Moving, Ending, Unstored, Private, Steps, TypeOK, Flow
  <1>7. Gone'
    BY Fresh DEF Gone, Failed, Left, Holds, Ending, Steps, TypeOK, Flow
  <1>8. Failed'
    BY Fresh DEF Gone, Failed, Left, Holds, Ending, Steps, TypeOK, Flow
  <1>9. QED
    BY <1>1, <1>2, <1>3, <1>4, <1>5, <1>6, <1>7, <1>8

LEMMA FetchMeInv ==
    ASSUME IInv, FetchMe
    PROVE  IInv'
  <1> USE SessionAssumption
      DEF IInv, Token, apiVars, requests, appVars, FetchMe, Goto
  <1>1. TypeOK'
    BY DEF TypeOK, Label, Flow
  <1>2. Steps'
    BY DEF Steps, TypeOK, Flow
  <1>3. Numbered'
    BY DEF Numbered, TypeOK, Flow
  <1>4. OneTokenPerLogin'
    BY DEF OneTokenPerLogin, TypeOK
  <1>5. Unstored'
    BY Fresh DEF Unstored, Private, Steps, TypeOK, Flow
  <1>6. RefWorks'
    BY Fresh
    DEF RefWorks, Moving, Ending, Unstored, Private, Steps, TypeOK, Flow
  <1>7. Gone'
    BY Fresh DEF Gone, Failed, Left, Holds, Ending, Steps, TypeOK, Flow
  <1>8. Failed'
    BY Fresh DEF Gone, Failed, Left, Holds, Ending, Steps, TypeOK, Flow
  <1>9. QED
    BY <1>1, <1>2, <1>3, <1>4, <1>5, <1>6, <1>7, <1>8

LEMMA StartRefreshInv ==
    ASSUME IInv, StartRefresh
    PROVE  IInv'
  <1> USE SessionAssumption
      DEF IInv, Token, apiVars, requests, appVars, StartRefresh, Goto, Hold
  <1>1. TypeOK'
    BY DEF TypeOK, Label, Flow
  <1>2. Steps'
    BY DEF Steps, TypeOK, Flow
  <1>3. Numbered'
    BY DEF Numbered, TypeOK, Flow
  <1>4. OneTokenPerLogin'
    BY DEF OneTokenPerLogin, TypeOK
  <1>5. Unstored'
    BY Fresh DEF Unstored, Private, Steps, TypeOK, Flow
  <1>6. RefWorks'
    BY Fresh
    DEF RefWorks, Moving, Ending, Unstored, Private, Steps, TypeOK, Flow
  <1>7. Gone'
    BY Fresh DEF Gone, Failed, Left, Holds, Ending, Steps, TypeOK, Flow
  <1>8. Failed'
    BY Fresh DEF Gone, Failed, Left, Holds, Ending, Steps, TypeOK, Flow
  <1>9. QED
    BY <1>1, <1>2, <1>3, <1>4, <1>5, <1>6, <1>7, <1>8

LEMMA LogoutInv ==
    ASSUME IInv, Logout
    PROVE  IInv'
  <1> USE SessionAssumption
      DEF IInv, Token, apiVars, requests, appVars, Logout, StartLogout, Goto,
          Hold
  <1>1. TypeOK'
    BY DEF TypeOK, Label, Flow
  <1>2. Steps'
    BY DEF Steps, TypeOK, Flow
  <1>3. Numbered'
    BY DEF Numbered, TypeOK, Flow
  <1>4. OneTokenPerLogin'
    BY DEF OneTokenPerLogin, TypeOK
  <1>5. Unstored'
    BY Fresh DEF Unstored, Private, Steps, TypeOK, Flow
  <1>6. RefWorks'
    BY Fresh
    DEF RefWorks, Moving, Ending, Unstored, Private, Steps, TypeOK, Flow
  <1>7. Gone'
    BY Fresh DEF Gone, Failed, Left, Holds, Ending, Steps, TypeOK, Flow
  <1>8. Failed'
    BY Fresh DEF Gone, Failed, Left, Holds, Ending, Steps, TypeOK, Flow
  <1>9. QED
    BY <1>1, <1>2, <1>3, <1>4, <1>5, <1>6, <1>7, <1>8

LEMMA LogoutOnServerInv ==
    ASSUME IInv, LogoutOnServer
    PROVE  IInv'
  <1> USE SessionAssumption
      DEF IInv, Token, apiVars, requests, appVars, LogoutOnServer, Goto, Hold
  <1>1. TypeOK'
    BY DEF TypeOK, Label, Flow
  <1>2. Steps'
    BY DEF Steps, TypeOK, Flow
  <1>3. Numbered'
    BY DEF Numbered, TypeOK, Flow
  <1>4. OneTokenPerLogin'
    BY DEF OneTokenPerLogin, TypeOK
  <1>5. Unstored'
    BY Fresh DEF Unstored, Private, Steps, TypeOK, Flow
  <1>6. RefWorks'
    BY Fresh
    DEF RefWorks, Moving, Ending, Unstored, Private, Steps, TypeOK, Flow
  <1>7. Gone'
    BY Fresh DEF Gone, Failed, Left, Holds, Ending, Steps, TypeOK, Flow
  <1>8. Failed'
    BY Fresh DEF Gone, Failed, Left, Holds, Ending, Steps, TypeOK, Flow
  <1>9. QED
    BY <1>1, <1>2, <1>3, <1>4, <1>5, <1>6, <1>7, <1>8

LEMMA RestartInv ==
    ASSUME IInv, Restart
    PROVE  IInv'
  <1> USE SessionAssumption
      DEF IInv, Token, apiVars, requests, appVars, Restart, AtStart,
          LeaveLate, LogoutFails
  <1>1. TypeOK'
    <2>1. pc' \in [Flow -> Label] /\ held' \in [Flow -> Token \cup {Null}]
      BY DEF Label, Flow
    <2>2. late' \subseteq Token
      BY DEF TypeOK
    <2>3. restarts' \in 0..MaxRestarts
      BY DEF TypeOK
    <2>4. loggedOut' \in {"no", "alone", "failed", "beside"}
      BY DEF TypeOK
    <2>5. QED
      BY <2>1, <2>2, <2>3, <2>4 DEF TypeOK
  <1>2. Steps'
    BY DEF Steps, TypeOK, Flow
  <1>3. Numbered'
    BY DEF Numbered, TypeOK, Flow
  <1>4. OneTokenPerLogin'
    BY DEF OneTokenPerLogin, TypeOK
  <1>5. Unstored'
    BY Fresh DEF Unstored, Private, Steps, TypeOK, Flow
  <1>6. RefWorks'
    BY Fresh
    DEF RefWorks, Moving, Ending, Unstored, Private, Steps, TypeOK, Flow
  <1>7. Gone'
    BY Fresh DEF Gone, Failed, Left, Holds, Ending, Steps, TypeOK, Flow
  <1>8. Failed'
    BY Fresh DEF Gone, Failed, Left, Holds, Ending, Steps, TypeOK, Flow
  <1>9. QED
    BY <1>1, <1>2, <1>3, <1>4, <1>5, <1>6, <1>7, <1>8

\* A redeemed token makes place for a new one of the same sign-in.
LEMMA Rotated ==
    ASSUME TypeOK, Numbered, OneTokenPerLogin, NEW t, Rotate(t)
    PROVE  /\ t \in live /\ issued' = issued + 1 /\ issued' \in 0..MaxTokens
           /\ issued + 1 \in Token /\ issued + 1 \in 1..issued'
           /\ 1..issued \subseteq 1..issued'
           /\ live' = (live \ {t}) \cup {issued + 1}
           /\ live' \subseteq Token /\ live' \subseteq 1..issued'
           /\ UNCHANGED revoked
           /\ login' \in [Token -> Token \cup {Null}]
           /\ \A x \in Token : x <= issued' => login'[x] \in 1..issued'
           /\ OneTokenPerLogin'
  <1> DEFINE n == issued + 1
  <1>1. /\ t \in live /\ issued < MaxTokens /\ issued' = n
        /\ login' = [login EXCEPT ![n] = login[t]]
        /\ live' = (live \ {t}) \cup {n}
        /\ UNCHANGED revoked
    BY DEF Rotate, Issue, NewToken
  <1>2. /\ issued \in Nat /\ n \in Token /\ issued' \in 0..MaxTokens
        /\ 1..issued \subseteq 1..issued' /\ n \in 1..issued'
    BY <1>1, SessionAssumption DEF TypeOK, Token
  <1>3. /\ n \notin live /\ login[t] \in 1..issued /\ t \in Token
        /\ login[t] \in Token \cup {Null}
    BY <1>1, Fresh DEF TypeOK
  <1>4. live' \subseteq Token /\ live' \subseteq 1..issued'
    BY <1>1, <1>2 DEF TypeOK, Numbered
  <1>5. login' \in [Token -> Token \cup {Null}]
    BY <1>1, <1>3 DEF TypeOK
  <1>6. ASSUME NEW x \in Token, x <= issued'
        PROVE  login'[x] \in 1..issued'
    <2>1. CASE x = n
      BY <1>1, <1>2, <1>3, <2>1 DEF TypeOK
    <2>2. CASE x # n
      <3>1. x <= issued /\ login'[x] = login[x]
        BY <1>1, <1>2, <1>6, <2>2 DEF TypeOK, Token
      <3>2. QED
        BY <1>2, <3>1 DEF Numbered
    <2>3. QED
      BY <2>1, <2>2
  <1>7. OneTokenPerLogin'
    <2>1. \A x \in live : login'[x] = login[x]
      BY <1>1, <1>3 DEF TypeOK
    <2>2. login'[n] = login[t]
      BY <1>1, <1>2 DEF TypeOK
    <2>3. QED
      BY <1>1, <1>3, <2>1, <2>2 DEF OneTokenPerLogin
  <1>8. QED
    BY <1>1, <1>2, <1>4, <1>5, <1>6, <1>7

LEMMA RedeemInv ==
    ASSUME IInv, NEW f \in Flow, Redeem(f)
    PROVE  IInv'
  <1> USE DEF IInv
  <1>1. /\ pc[f] = "redeem" /\ Rotate(held[f])
        /\ pc' = [pc EXCEPT ![f] = "persist"]
        /\ held' = [held EXCEPT ![f] = issued + 1]
        /\ late' = late /\ logouts' = logouts /\ store' = store /\ ref' = ref
        /\ ui' = ui /\ loggedOut' = loggedOut /\ restarts' = restarts
    BY DEF Redeem, requests, appVars, Goto, Hold, NewToken
  <1>2. \A g \in Flow : pc'[g] = IF g = f THEN "persist" ELSE pc[g]
    BY <1>1 DEF TypeOK
  <1>3. \A g \in Flow : held'[g] = IF g = f THEN issued + 1 ELSE held[g]
    BY <1>1 DEF TypeOK
  <1>4. f \in {"boot", "refresh"}
    BY <1>1 DEF Steps, Flow
  <1>5. TypeOK'
    <2>1. pc' \in [Flow -> Label]
      BY <1>1 DEF TypeOK, Label
    <2>2. held' \in [Flow -> Token \cup {Null}]
      BY <1>1, Rotated DEF TypeOK
    <2>3. QED
      BY <1>1, <2>1, <2>2, Rotated DEF TypeOK
  <1>6. Steps'
    BY <1>2, <1>4 DEF Steps, Flow
  <1>7. Numbered'
    <2>1. \A g \in Flow : held'[g] \in 1..issued' \cup {Null}
      BY <1>1, <1>3, Rotated DEF Numbered
    <2>2. revoked' \subseteq 1..issued' /\ late' \subseteq 1..issued'
          /\ logouts' \subseteq 1..issued'
      BY <1>1, Rotated DEF Numbered
    <2>3. store' \in 1..issued' \cup {Null} /\ ref' \in 1..issued' \cup {Null}
      BY <1>1, Rotated DEF Numbered
    <2>4. QED
      BY <1>1, <2>1, <2>2, <2>3, Rotated DEF Numbered
  <1>8. OneTokenPerLogin'
    BY <1>1, Rotated
  <1>9. Unstored'
    <2>1. ASSUME NEW g \in Flow, pc'[g] = "persist"
          PROVE  held'[g] \in live' \cup revoked' /\ Private(held[g], g)'
      <3>1. CASE g = f
        <4>1. held'[g] = issued + 1
          BY <1>3, <3>1
        <4>2. \A h \in Flow \ {g} : held'[h] # issued + 1
          BY <1>3, <3>1, Fresh
        <4>3. issued + 1 \in live'
          BY <1>1, Rotated
        <4>4. QED
          BY <1>1, <4>1, <4>2, <4>3, Fresh DEF Private
      <3>2. CASE g # f
        <4>1. held'[g] = held[g] /\ pc[g] = "persist"
          BY <1>2, <1>3, <2>1, <3>2
        <4>2. held[g] \in live \cup revoked /\ Private(held[g], g)
          BY <4>1 DEF Unstored
        <4>3. held[f] # held[g] /\ issued + 1 # held[g]
          BY <3>2, <4>2, Fresh DEF Private
        <4>4. held'[g] \in live' \cup revoked'
          BY <1>1, <4>1, <4>2, <4>3, Rotated
        <4>5. \A h \in Flow \ {g} : held'[h] # held[g]
          BY <1>3, <4>2, <4>3 DEF Private
        <4>6. QED
          BY <1>1, <4>1, <4>2, <4>4, <4>5 DEF Private
      <3>3. QED
        BY <3>1, <3>2
    <2>2. QED
      BY <2>1 DEF Unstored
  <1>10. RefWorks'
    BY <1>2 DEF RefWorks, Moving
  <1>11. Gone'
    <2>1. loggedOut # "alone"
      BY <1>1, <1>4, Rotated DEF Gone, Left, Holds
    <2>2. QED
      BY <1>1, <2>1 DEF Gone
  <1>12. Failed'
    <2>1. ASSUME loggedOut = "failed" PROVE Failed'
      <3>1. "logout" \in Flow /\ "logout" # f
        BY <1>4 DEF Flow
      <3>2. pc'["logout"] = pc["logout"] /\ held'["logout"] = held["logout"]
        BY <1>2, <1>3, <3>1
      <3>3. \A t : Ending(t)' <=> Ending(t)
        BY <1>1, <3>2 DEF Ending
      <3>4. ASSUME store \in live', Ending(store)
            PROVE  FALSE
        <4>1. store \in live /\ store # held[f]
          BY <1>1, <3>4, Rotated, Fresh
        <4>2. Left({store})
          BY <2>1, <3>4, <4>1 DEF Failed
        <4>3. QED
          BY <1>1, <1>4, <4>1, <4>2, Rotated DEF Left, Holds
      <3>5. ASSUME NEW g \in Flow, pc'[g] = "store"
            PROVE  ~Ending(held[g])'
        BY <1>2, <1>3, <2>1, <3>3, <3>5 DEF Failed
      <3>6. QED
        BY <1>1, <2>1, <3>2, <3>3, <3>4, <3>5 DEF Failed
    <2>2. QED
      BY <1>1, <2>1 DEF Failed
  <1>13. QED
    BY <1>5, <1>6, <1>7, <1>8, <1>9, <1>10, <1>11, <1>12

LEMMA RedeemLateInv ==
    ASSUME IInv, NEW t \in late, RedeemLate(t)
    PROVE  IInv'
  <1> USE DEF IInv
  <1>1. /\ Rotate(t) /\ late' = late \ {t}
        /\ UNCHANGED <<logouts, store, ref, ui, pc, held, loggedOut, restarts>>
    BY DEF RedeemLate, appVars
  <1>2. TypeOK'
    BY <1>1, Rotated DEF TypeOK
  <1>3. Steps'
    BY <1>1 DEF Steps
  <1>4. Numbered'
    BY <1>1, Rotated DEF Numbered
  <1>5. OneTokenPerLogin'
    BY <1>1, Rotated
  <1>6. Unstored'
    BY <1>1, Rotated DEF Unstored, Private
  <1>7. RefWorks'
    BY <1>1, Rotated DEF RefWorks, Moving, Ending
  <1>8. \A x : x \in live' /\ x # issued + 1 => x \in live
    BY <1>1, Rotated
  <1>9. /\ ref # issued + 1 /\ store # issued + 1
        /\ "boot" \in Flow /\ held["boot"] # issued + 1
        /\ "refresh" \in Flow /\ held["refresh"] # issued + 1
    BY Fresh DEF Flow
  <1>10. Gone'
    BY <1>1, <1>8, <1>9 DEF Gone, Left, Holds
  <1>11. Failed'
    BY <1>1, <1>8, <1>9 DEF Failed, Left, Holds, Ending
  <1>12. QED
    BY <1>2, <1>3, <1>4, <1>5, <1>6, <1>7, <1>10, <1>11

LEMMA SignInInv ==
    ASSUME IInv, SignIn
    PROVE  IInv'
  <1> USE SessionAssumption
      DEF IInv, Token, apiVars, requests, appVars, SignIn, Issue, NewToken,
          Goto, Hold
  <1>1. TypeOK'
    BY DEF TypeOK, Label, Flow
  <1>2. Steps'
    BY DEF Steps, TypeOK, Flow
  <1>3. Numbered'
    <2>1. /\ issued \in Nat /\ issued' = issued + 1 /\ issued' \in 1..issued'
          /\ 1..issued \subseteq 1..issued'
      BY DEF TypeOK
    <2>2. \A f \in Flow : held'[f] \in 1..issued' \cup {Null}
      BY <2>1 DEF Numbered, TypeOK
    <2>3. \A x \in 1..MaxTokens : x <= issued' => login'[x] \in 1..issued'
      BY <2>1 DEF Numbered, TypeOK
    <2>4. /\ live' \subseteq 1..issued' /\ revoked' \subseteq 1..issued'
          /\ late' \subseteq 1..issued' /\ logouts' \subseteq 1..issued'
          /\ store' \in 1..issued' \cup {Null} /\ ref' \in 1..issued' \cup {Null}
      BY <2>1 DEF Numbered
    <2>5. QED
      BY <2>2, <2>3, <2>4 DEF Numbered
  <1>4. OneTokenPerLogin'
    BY Fresh DEF OneTokenPerLogin, Numbered, TypeOK
  <1>5. Unstored'
    BY Fresh DEF Unstored, Private, Steps, TypeOK, Flow
  <1>6. RefWorks'
    BY Fresh
    DEF RefWorks, Moving, Ending, Unstored, Private, Steps, TypeOK, Flow
  <1>7. Gone'
    BY Fresh DEF Gone, Failed, Left, Holds, Ending, Steps, TypeOK, Flow
  <1>8. Failed'
    BY Fresh DEF Gone, Failed, Left, Holds, Ending, Steps, TypeOK, Flow
  <1>9. QED
    BY <1>1, <1>2, <1>3, <1>4, <1>5, <1>6, <1>7, <1>8

LEMMA StutterInv ==
    ASSUME IInv, UNCHANGED vars
    PROVE  IInv'
  BY DEF vars, apiVars, requests, appVars, IInv, TypeOK, Steps, Numbered,
         OneTokenPerLogin, Unstored, Private, RefWorks, Moving, Ending, Gone,
         Failed, Left, Holds

LEMMA NextInv == IInv /\ [Next]_vars => IInv'
  BY RevokeInv, EndSessionInv, FindTokenInv, RedeemInv, RedeemLateInv, FailInv,
     SetRefInv, StoreTokenInv, EraseTokenInv, DispatchInv, DispatchOutInv,
     ReadStoreInv, FetchMeInv, StartRefreshInv, SignInInv, LogoutInv,
     LogoutOnServerInv, RestartInv, StutterInv
  DEF Next, Boot, Flow

LEMMA Inductive == Spec => []IInv
  BY InitInv, NextInv, PTL DEF Spec

-----------------------------------------------------------------------------
(* What follows *)

\* Type correctness of the tokens, the app's state and its flows.
THEOREM TypeCorrect == Spec => []TypeOK
  <1>1. IInv => TypeOK
    BY DEF IInv
  <1>2. QED
    BY <1>1, Inductive, PTL

\* A sign-in has one live token at most, whichever flows redeem it at once.
THEOREM OneToken == Spec => []OneTokenPerLogin
  <1>1. IInv => OneTokenPerLogin
    BY DEF IInv
  <1>2. QED
    BY <1>1, Inductive, PTL

\* With no flow at work the app has no token, or one that nobody redeemed.
THEOREM HeldWorks == Spec => []HeldTokenWorks
  <1>1. IInv => HeldTokenWorks
    BY DEF IInv, RefWorks, Moving, HeldTokenWorks, Flow
  <1>2. QED
    BY <1>1, Inductive, PTL

\* A logout with no other flow at work is undone by a new sign-in only.
THEOREM LogoutLasts == Spec => []LogoutIsFinal
  <1>1. IInv => LogoutIsFinal
    BY DEF IInv, Gone, Left, LogoutIsFinal
  <1>2. QED
    BY <1>1, Inductive, PTL
=============================================================================
