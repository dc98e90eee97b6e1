--------------------------- MODULE BrowserSession ---------------------------
(***************************************************************************)
(* The sessions of one user's browsers against RefreshTokens: api.js under *)
(* every call of the client and App.jsx above it.  The tabs of a browser   *)
(* share localStorage, each has its own React state and its own guard      *)
(* against a second refresh in flight.  An access token is not modelled:   *)
(* a call of a logged-in tab may be answered 401 at any time.              *)
(***************************************************************************)
EXTENDS RefreshTokens

CONSTANTS Browsers, Tabs,
          BrowserOf,  \* tab -> its browser
          Faults,     \* which of "lost", "logout", "lapse" may happen
          MaxReloads  \* bound of the model: how often a page is loaded again

ASSUME BrowserOfAssumption == BrowserOf \in [Tabs -> Browsers]
Operations == {"login", "refresh", "logout"}

\* A tab has a slot for each kind of request, and one for a refresh that goes on at
\* the server after the page that sent it.
ASSUME SlotsAssumption == Slots = Tabs \X (Operations \cup {"gone"})
ASSUME SessionFaultsAssumption == Faults \subseteq {"lost", "logout", "lapse"}
ASSUME MaxReloadsAssumption == MaxReloads \in Nat

VARIABLES
  store,     \* browser -> the refresh token in localStorage
  session,   \* tab -> the refresh token in React state; NoToken shows the login form
  ended,     \* history: the tokens a logout was sent for or the theft alarm retired
  orphaned,  \* history: the logins of which a refresh was under way at a reload
  reloads    \* history: how many there were

history == <<ended, orphaned, reloads>>
vars == <<server, store, session, history>>

Init ==
  /\ ServerInit
  /\ store = [b \in Browsers |-> NoToken]
  /\ session = [t \in Tabs |-> NoToken]
  /\ ended = {} /\ orphaned = {} /\ reloads = 0

Free(s) == req[s] = NoRequest

\* What the tab keeps, in both places.
Keep(t, token) ==
  /\ store' = [store EXCEPT ![BrowserOf[t]] = token]
  /\ session' = [session EXCEPT ![t] = token]

Send(t, op, token) ==
  /\ Free(<<t, op>>)
  /\ req' = [req EXCEPT ![<<t, op>>] = Request(op, token, "sent")]
  /\ UNCHANGED <<issued, status, root>>

Done(s) == req' = [req EXCEPT ![s] = NoRequest] /\ UNCHANGED <<issued, status, root>>

\* The login form is sent, and answered.
SendLogin(t) ==
  /\ session[t] = NoToken /\ Room
  /\ Send(t, "login", NoToken)
  /\ UNCHANGED <<store, session, history>>

LoggedIn(t) ==
  /\ req[<<t, "login">>].step = "ok"
  /\ Keep(t, req[<<t, "login">>].token)
  /\ Done(<<t, "login">>)
  /\ UNCHANGED history

\* A call is answered 401 and no refresh is in flight: one is sent with the token in
\* localStorage.  (With one in flight the call waits for it and changes nothing.)
SendRefresh(t) ==
  /\ session[t] # NoToken /\ store[BrowserOf[t]] # NoToken
  /\ status[store[BrowserOf[t]]] = "live" => Room
  /\ Send(t, "refresh", store[BrowserOf[t]])
  /\ UNCHANGED <<store, session, history>>

\* Seeded bug: React is not told.
NothingToRefreshSilent(t) ==
  /\ session[t] # NoToken /\ store[BrowserOf[t]] = NoToken
  /\ Free(<<t, "refresh">>)
  /\ store' = [store EXCEPT ![BrowserOf[t]] = NoToken]
  /\ UNCHANGED <<server, session, history>>

\* ... or there is no token any more: the session is over.
NothingToRefresh(t) ==
  /\ session[t] # NoToken /\ store[BrowserOf[t]] = NoToken
  /\ Free(<<t, "refresh">>)
  /\ Keep(t, NoToken)
  /\ UNCHANGED <<server, history>>

\* Seeded bug: the new pair reaches React but not localStorage.
RefreshedInMemory(t) ==
  /\ req[<<t, "refresh">>].step = "ok"
  /\ session' = [session EXCEPT ![t] = req[<<t, "refresh">>].token]
  /\ Done(<<t, "refresh">>)
  /\ UNCHANGED <<store, history>>

\* The new pair is stored and handed to React, whatever happened meanwhile.
Refreshed(t) ==
  /\ req[<<t, "refresh">>].step = "ok"
  /\ Keep(t, req[<<t, "refresh">>].token)
  /\ Done(<<t, "refresh">>)
  /\ UNCHANGED history

\* Seeded bug: a failed refresh leaves the session as it is.
RefreshIgnored(t) ==
  /\ req[<<t, "refresh">>].step = "refused"
  /\ Done(<<t, "refresh">>)
  /\ UNCHANGED <<store, session, history>>

\* The refresh was refused: the session is over.
RefreshRefused(t) ==
  /\ req[<<t, "refresh">>].step = "refused"
  /\ Keep(t, NoToken)
  /\ Done(<<t, "refresh">>)
  /\ UNCHANGED history

\* A request, or its answer, is lost on the network: a refresh that fails in any way
\* ends the session, a login or a logout just did not happen for the client.
Lost(t, op) ==
  /\ "lost" \in Faults /\ req[<<t, op>>].step \in {"sent", "ok", "refused"}
  /\ Done(<<t, op>>)
  /\ IF op = "refresh" THEN Keep(t, NoToken) ELSE UNCHANGED <<store, session>>
  /\ UNCHANGED history

\* The user logs out: locally at once, and the token React holds is retired in the
\* background.
Logout(t) ==
  /\ "logout" \in Faults /\ session[t] # NoToken
  /\ Keep(t, NoToken)
  /\ Send(t, "logout", session[t])
  /\ ended' = ended \cup {session[t]} /\ UNCHANGED <<orphaned, reloads>>

LogoutDone(t) ==
  /\ req[<<t, "logout">>].step = "ok"
  /\ Done(<<t, "logout">>)
  /\ UNCHANGED <<store, session, history>>

\* What becomes of the requests of a page that goes away: nobody hears their answers.
\* A refresh at the server goes on there, unless it had not arrived; a login or a
\* logout is one statement, so it has been served already or never arrives.
Abandon(t) ==
  LET refresh == req[<<t, "refresh">>]
      unanswered == refresh.step \in {"sent", "rotate", "revokeAll"}
  IN
  /\ reloads < MaxReloads /\ reloads' = reloads + 1
  /\ Free(<<t, "gone">>)
  /\ \E left \in {refresh, NoRequest} :
       /\ left = NoRequest => ~ unanswered \/ refresh.step = "sent"
       /\ left # NoRequest => unanswered
       /\ req' = [s \in Slots |-> CASE s = <<t, "gone">>         -> left
                                   [] s \in {t} \X Operations -> NoRequest
                                   [] OTHER                  -> req[s]]
  /\ orphaned' = IF refresh = NoRequest THEN orphaned
                                         ELSE orphaned \cup {root[refresh.token]}
  /\ UNCHANGED <<issued, status, root, ended>>

\* Seeded bug: a reloaded page starts without a session.
ReloadLoggedOut(t) ==
  /\ session' = [session EXCEPT ![t] = NoToken]
  /\ Abandon(t)
  /\ UNCHANGED store

\* The page is loaded again: React state comes from localStorage.
Reload(t) ==
  /\ session' = [session EXCEPT ![t] = store[BrowserOf[t]]]
  /\ Abandon(t)
  /\ UNCHANGED store

\* Its answer finds nobody.
Unheard(t) ==
  /\ req[<<t, "gone">>].step \in {"ok", "refused"}
  /\ Done(<<t, "gone">>)
  /\ UNCHANGED <<store, session, history>>

Client(t) ==
  \/ SendLogin(t) \/ LoggedIn(t)
  \/ SendRefresh(t) \/ NothingToRefresh(t) \/ Refreshed(t) \/ RefreshRefused(t)
  \/ Logout(t) \/ LogoutDone(t) \/ Reload(t) \/ Unheard(t)

Server(s) ==
  /\ ServerStep(s)
  /\ ended' = IF req[s].step = "revokeAll" THEN ended \cup Issued ELSE ended
  /\ UNCHANGED <<store, session, orphaned, reloads>>

Next ==
  \/ \E t \in Tabs : Client(t)
  \/ \E s \in Slots : Server(s)
  \/ \E t \in Tabs, op \in Operations : Lost(t, op)
  \/ "lapse" \in Faults /\ (\E k \in Tokens : Lapse(k)) /\ UNCHANGED <<store, session, history>>

Spec == Init /\ [][Next]_vars

\* With TRANSPORT=poll calls go on in a logged-in tab, so an expired access token is
\* noticed; requests are answered or fail.
Fairness ==
  /\ \A s \in Slots : WF_vars(Server(s))
  /\ \A t \in Tabs : /\ WF_vars(SendRefresh(t)) /\ WF_vars(NothingToRefresh(t))
                     /\ WF_vars(Refreshed(t)) /\ WF_vars(RefreshRefused(t))

FairSpec == Spec /\ Fairness

-----------------------------------------------------------------------------
(* Properties *)

\* Every variable has its type; a slot only ever holds its own kind of request.
TypeOK ==
  /\ ServerTypeOK
  /\ \A s \in Slots : req[s].op \in {"none", IF s[2] = "gone" THEN "refresh" ELSE s[2]}
  /\ store \in [Browsers -> 0..MaxTokens]
  /\ session \in [Tabs -> 0..MaxTokens]
  /\ ended \subseteq Tokens /\ orphaned \subseteq Tokens
  /\ reloads \in 0..MaxReloads

\* "The second would be a reuse and revoke them all": the client never presents a
\* token that was rotated before, so it never sets off the theft alarm.
NoReuse == \A s \in Slots : req[s].step # "revokeAll"

\* ... with one tab per browser, rotation never sets it off: the alarm is raised for
\* no other token than one a logout was sent for, an earlier alarm retired, or a page
\* reloaded during its refresh has left behind.
ReuseOnlyOfEnded ==
  \A s \in Slots : req[s].step = "revokeAll" =>
    (req[s].token \in ended \/ root[req[s].token] \in orphaned)

\* Rotation hands a session on, it does not multiply it: at most one live token
\* descends from one login, unless the page of a refresh was reloaded under it.
OneLivePerLogin ==
  \A j, k \in Live : (root[j] = root[k] /\ root[j] \notin orphaned) => j = k

\* React state and localStorage of a browser with one tab never part.
TabAgreesWithStore == \A t \in Tabs : session[t] = store[BrowserOf[t]]

\* "Logging out one device does not log out the other": a live token stops being
\* live only by a request made with a token of the same login, or by lapsing.
LogoutIsLocal ==
  [][\A k \in Live : status'[k] = "revoked" =>
       \E s \in Slots : req'[s] # req[s] /\ root[req[s].token] = root[k]]_vars

\* A session whose refresh token was retired ends: the browser does not stay logged
\* in on it, as long as its tab polls.
DeadSessionsEnd ==
  \A b \in Browsers : \A k \in Tokens :
    (store[b] = k /\ status[k] # "live") ~> (store[b] # k)

\* Nor does a tab stay logged in, as long as it polls, when the browser has no token
\* any more because another tab logged out or was refused - unless a login or a
\* refresh still in flight brings a token back.
TabsFollowStore ==
  \A t \in Tabs :
    (session[t] # NoToken /\ store[BrowserOf[t]] = NoToken)
      ~> (session[t] = NoToken \/ store[BrowserOf[t]] # NoToken)
=============================================================================
