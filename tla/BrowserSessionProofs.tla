------------------------ MODULE BrowserSessionProofs ------------------------
(***************************************************************************)
(* Theorems of BrowserSession: the type invariant for any tabs of any      *)
(* browsers, and, where no two tabs share a browser, that React state and  *)
(* localStorage never part, that rotation never sets off the theft alarm,  *)
(* and that a login has one live token.                                    *)
(***************************************************************************)
EXTENDS BrowserSession, FiniteSetTheorems, TLAPS

\* One tab per browser: the guard of api.js against a second refresh is per tab.
Alone == \A t, u \in Tabs : BrowserOf[t] = BrowserOf[u] => t = u

-----------------------------------------------------------------------------
(* The invariant of the types *)

\* The requests for which a token is kept back.
Issuing == {s \in Slots : MayIssue(s)}

\* There is one left for each of them.
Bound == issued + Cardinality(Issuing) <= MaxTokens

\* What a slot can hold: each kind of request has its own steps, and names a token
\* that was issued.
WellFormed(s) ==
  \/ req[s] = NoRequest
  \/ /\ req[s].op = "login" /\ s[2] = "login"
     /\ \/ req[s].step = "sent" /\ req[s].token = NoToken
        \/ req[s].step = "ok" /\ req[s].token \in 1..issued
  \/ /\ req[s].op = "refresh" /\ s[2] \in {"refresh", "gone"}
     /\ req[s].step \in {"sent", "rotate", "revokeAll", "ok", "refused"}
     /\ req[s].token \in 1..issued
  \/ /\ req[s].op = "logout" /\ s[2] = "logout" /\ req[s].step \in {"sent", "ok"}
     /\ req[s].token \in 1..issued

\* No token is named that was not issued; a login comes before what descends from it.
Known ==
  /\ \A s \in Slots : WellFormed(s)
  /\ \A b \in Browsers : store[b] \in 0..issued
  /\ \A t \in Tabs : session[t] \in 0..issued
  /\ ended \subseteq 1..issued /\ orphaned \subseteq 1..issued
  /\ \A k \in 1..issued : root[k] \in 1..k

SessionInv == TypeOK /\ Bound /\ Known

\* A slot is of a tab and of a kind.
LEMMA SlotParts ==
  ASSUME NEW s \in Slots
  PROVE  s[1] \in Tabs /\ s[2] \in Operations \cup {"gone"} /\ s = <<s[1], s[2]>>
  BY SlotsAssumption

\* A tab has a slot for each operation and one for what a reload leaves behind.
LEMMA SlotOf ==
  \A t \in Tabs, op \in Operations \cup {"gone"} :
    <<t, op>> \in Slots /\ <<t, op>>[1] = t /\ <<t, op>>[2] = op
  BY SlotsAssumption

\* The slots that may issue are finitely many, and so are fewer.
LEMMA Fewer ==
  ASSUME NEW S, S \subseteq Slots, NEW T, T \subseteq S
  PROVE  /\ IsFiniteSet(S) /\ Cardinality(S) \in Nat
         /\ Cardinality(T) \in Nat /\ Cardinality(T) <= Cardinality(S)
<1>1. IsFiniteSet(S)
  BY FiniteSlotsAssumption, FS_Subset
<1>2. IsFiniteSet(T) /\ Cardinality(T) <= Cardinality(S)
  BY <1>1, FS_Subset
<1> QED BY <1>1, <1>2, FS_CardinalityType

\* A token is left for a request that may issue one.
LEMMA TokenLeft ==
  ASSUME TypeOK, Bound, NEW s \in Slots, MayIssue(s)
  PROVE  issued + 1 \in Tokens
<1>1. Issuing \subseteq Slots /\ {s} \subseteq Issuing
  BY DEF Issuing
<1>2. Cardinality({s}) = 1
  BY FS_Singleton
<1>3. Cardinality(Issuing) \in Nat /\ 1 <= Cardinality(Issuing)
  BY <1>1, <1>2, Fewer
<1> QED BY <1>3, MaxTokensAssumption DEF TypeOK, ServerTypeOK, Bound, Tokens

\* One slot has a new request, every other slot the one it had.
LEMMA OtherSlots ==
  ASSUME Known, issued \in Nat, issued' \in {issued, issued + 1},
         NEW s \in Slots, WellFormed(s)', \A x \in Slots \ {s} : req'[x] = req[x]
  PROVE  \A x \in Slots : WellFormed(x)'
<1> SUFFICES ASSUME NEW x \in Slots, x # s PROVE WellFormed(x)'
  OBVIOUS
<1>1. WellFormed(x) /\ req'[x] = req[x]
  BY DEF Known
<1>2. \A k \in 1..issued : k \in 1..issued'
  OBVIOUS
<1> QED BY <1>1, <1>2 DEF WellFormed

\* The server's steps: what each leaves in its slot, and in the rows.
LEMMA ServerKnown ==
  ASSUME SessionInv, NEW s \in Slots, Server(s)
  PROVE  Known'
<1> USE DEF SessionInv
<1>0. issued \in Nat /\ WellFormed(s)
  BY DEF TypeOK, ServerTypeOK, Known
<1>1. CASE Login(s) \/ Rotate(s)
  <2>1. MayIssue(s)
    BY <1>1 DEF Login, Rotate, MayIssue
  <2>2. issued + 1 \in Tokens /\ issued' = issued + 1
    BY <1>1, <2>1, TokenLeft DEF Login, Rotate, Issue
  <2>3. \A x \in Slots : req'[x] = IF x = s THEN [req[s] EXCEPT !.token = issued + 1, !.step = "ok"]
                                              ELSE req[x]
    BY <1>1 DEF Login, Rotate, Issue, TypeOK, ServerTypeOK
  <2>4. req[s] \in Requests /\ req[s].step \in {"sent", "rotate"}
    BY <1>1 DEF Login, Rotate, TypeOK, ServerTypeOK
  <2>5. req'[s].op = req[s].op /\ req'[s].token = issued + 1 /\ req'[s].step = "ok"
    BY <2>3, <2>4 DEF Requests
  <2>6. WellFormed(s)'
    BY <1>0, <1>1, <2>2, <2>5 DEF WellFormed, Login, Rotate, NoRequest, Request
  <2>7. \A x \in Slots : WellFormed(x)'
    BY <1>0, <2>2, <2>3, <2>6, OtherSlots
  <2>8. ended' = ended
    BY <1>1 DEF Server, Login, Rotate
  <2>9. \A k \in 1..issued' : root'[k] \in 1..k
    <3>1. CASE Login(s)
      BY <1>0, <3>1, <2>2 DEF Login, Issue, TypeOK, ServerTypeOK, Known
    <3>2. CASE Rotate(s)
      <4>1. req[s].token \in 1..issued
        BY <1>0, <3>2 DEF WellFormed, Rotate, NoRequest, Request
      <4> QED BY <1>0, <3>2, <4>1, <2>2 DEF Rotate, Issue, TypeOK, ServerTypeOK, Known
    <3> QED BY <1>1, <3>1, <3>2
  <2>10. UNCHANGED <<store, session, orphaned>>
    BY DEF Server
  <2>11. \A k : k \in 0..issued => k \in 0..issued'
    BY <1>0, <2>2
  <2>12. \A k : k \in 1..issued => k \in 1..issued'
    BY <1>0, <2>2
  <2> QED BY <2>7, <2>8, <2>9, <2>10, <2>11, <2>12 DEF Known
<1>2. CASE Lookup(s) \/ RevokeAll(s) \/ Retire(s)
  <2>1. UNCHANGED <<issued, root>> /\ req[s] # NoRequest
    BY <1>2 DEF Lookup, RevokeAll, Retire, NoRequest, Request
  <2>2. \A x \in Slots \ {s} : req'[x] = req[x]
    BY <1>2 DEF Lookup, RevokeAll, Retire, Goes, TypeOK, ServerTypeOK
  <2>3. /\ req'[s].op = req[s].op /\ req'[s].token = req[s].token
        /\ \/ req[s].op = "refresh" /\ req'[s].step \in {"rotate", "revokeAll", "refused"}
           \/ req[s].op = "logout" /\ req'[s].step = "ok"
    <3>1. req[s] \in Requests
      BY DEF TypeOK, ServerTypeOK
    <3>2. CASE Lookup(s)
      BY <3>1, <3>2 DEF Lookup, Goes, TypeOK, ServerTypeOK, Requests
    <3>3. CASE RevokeAll(s)
      BY <1>0, <3>1, <3>3 DEF RevokeAll, Goes, TypeOK, ServerTypeOK, Requests, WellFormed,
          NoRequest, Request
    <3>4. CASE Retire(s)
      BY <3>1, <3>4 DEF Retire, Goes, TypeOK, ServerTypeOK, Requests
    <3> QED BY <1>2, <3>2, <3>3, <3>4
  <2>4. WellFormed(s)'
    BY <1>0, <2>1, <2>3 DEF WellFormed
  <2>5. \A x \in Slots : WellFormed(x)'
    BY <1>0, <2>1, <2>2, <2>4, OtherSlots
  <2>6. ended' \subseteq 1..issued
    <3>1. Issued \subseteq 1..issued
      BY <1>0 DEF Issued, Tokens, TypeOK, ServerTypeOK
    <3> QED BY <3>1 DEF Server, Known
  <2> QED BY <2>1, <2>5, <2>6 DEF Known, Server
<1> QED BY <1>1, <1>2 DEF Server, ServerStep

\* What sending, taking an answer and keeping a token change, slot by slot.
LEMMA Sent ==
  ASSUME TypeOK, NEW t \in Tabs, NEW op \in Operations, NEW token, Send(t, op, token)
  PROVE  /\ <<t, op>> \in Slots /\ req[<<t, op>>] = NoRequest
         /\ req'[<<t, op>>] = Request(op, token, "sent")
         /\ \A x \in Slots \ {<<t, op>>} : req'[x] = req[x]
         /\ UNCHANGED <<issued, status, root>>
<1>1. <<t, op>> \in Slots
  BY SlotOf
<1>2. req \in [Slots -> Requests]
  BY DEF TypeOK, ServerTypeOK
<1> QED BY <1>1, <1>2 DEF Send, Free

\* An answer that is taken leaves its slot free and all else of the server as it is.
LEMMA Taken ==
  ASSUME TypeOK, NEW s \in Slots, Done(s)
  PROVE  /\ req'[s] = NoRequest /\ \A x \in Slots \ {s} : req'[x] = req[x]
         /\ UNCHANGED <<issued, status, root>>
<1>1. req \in [Slots -> Requests]
  BY DEF TypeOK, ServerTypeOK
<1> QED BY <1>1 DEF Done

\* What a tab keeps is in its React state and in the localStorage of its browser.
LEMMA Kept ==
  ASSUME TypeOK, NEW t \in Tabs, NEW token, Keep(t, token)
  PROVE  /\ \A u \in Tabs : session'[u] = IF u = t THEN token ELSE session[u]
         /\ \A b \in Browsers : store'[b] = IF b = BrowserOf[t] THEN token ELSE store[b]
         /\ BrowserOf[t] \in Browsers
  BY BrowserOfAssumption DEF TypeOK, Keep

\* A page that goes away: its refresh goes on, or nothing does.
LEMMA Abandoned ==
  ASSUME TypeOK, NEW t \in Tabs, Abandon(t)
  PROVE  /\ \A op \in Operations : req'[<<t, op>>] = NoRequest
         /\ req[<<t, "gone">>] = NoRequest
         /\ \/ req'[<<t, "gone">>] = NoRequest
            \/ /\ req'[<<t, "gone">>] = req[<<t, "refresh">>]
               /\ req[<<t, "refresh">>].step \in {"sent", "rotate", "revokeAll"}
         /\ \A x \in Slots : x[1] # t => req'[x] = req[x]
         /\ orphaned' = IF req[<<t, "refresh">>] = NoRequest THEN orphaned
                          ELSE orphaned \cup {root[req[<<t, "refresh">>].token]}
         /\ UNCHANGED <<issued, status, root, ended>>
<1> DEFINE refresh == req[<<t, "refresh">>]
<1>1. PICK left \in {refresh, NoRequest} :
        /\ left # NoRequest => refresh.step \in {"sent", "rotate", "revokeAll"}
        /\ req' = [s \in Slots |-> CASE s = <<t, "gone">>         -> left
                                    [] s \in {t} \X Operations -> NoRequest
                                    [] OTHER                  -> req[s]]
  BY DEF Abandon
<1>2. \A op \in Operations \cup {"gone"} : <<t, op>> \in Slots
  BY SlotOf
<1>3. \A op \in Operations : <<t, op>> # <<t, "gone">> /\ <<t, op>> \in {t} \X Operations
  BY DEF Operations
<1>4. \A x \in Slots : x[1] # t => x # <<t, "gone">> /\ x \notin {t} \X Operations
  OBVIOUS
<1>5. \A op \in Operations : req'[<<t, op>>] = NoRequest
  BY <1>1, <1>2, <1>3
<1>6. req'[<<t, "gone">>] = left
  <2>1. <<t, "gone">> \in Slots
    BY <1>2
  <2>2. <<t, "gone">> \notin {t} \X Operations
    BY DEF Operations
  <2> QED BY <1>1, <2>1, <2>2
<1>7. \A x \in Slots : x[1] # t => req'[x] = req[x]
  BY <1>1, <1>4
<1> QED BY <1>1, <1>5, <1>6, <1>7 DEF Abandon, Free

\* A step of the client that only touches one slot, and keeps one token at most.
LEMMA KnownKept ==
  ASSUME SessionInv, UNCHANGED <<issued, root, orphaned>>,
         NEW s \in Slots, WellFormed(s)', \A x \in Slots \ {s} : req'[x] = req[x],
         NEW token \in 0..issued,
         \A b \in Browsers : store'[b] \in {store[b], token},
         \A u \in Tabs : session'[u] \in {session[u], token},
         ended' \subseteq 1..issued
  PROVE  Known'
<1>1. issued \in Nat /\ Known
  BY DEF SessionInv, TypeOK, ServerTypeOK
<1>2. \A x \in Slots : WellFormed(x)'
  BY <1>1, OtherSlots
<1> QED BY <1>1, <1>2 DEF Known

\* A request that is sent names a token that was issued, unless it is a login.
LEMMA SentWellFormed ==
  ASSUME SessionInv, NEW t \in Tabs, NEW op \in Operations, NEW token, Send(t, op, token),
         IF op = "login" THEN token = NoToken ELSE token \in 1..issued
  PROVE  WellFormed(<<t, op>>)'
<1>1. /\ req'[<<t, op>>] = [op |-> op, token |-> token, step |-> "sent"]
      /\ issued' = issued /\ <<t, op>>[2] = op
  BY Sent, SlotOf DEF SessionInv, Request
<1> QED BY <1>1 DEF WellFormed, Operations

\* A tab and its browser keep, send and hear of tokens that are issued, and of no other.
LEMMA ClientKnown ==
  ASSUME SessionInv, NEW t \in Tabs, Client(t) \/ \E op \in Operations : Lost(t, op)
  PROVE  Known'
<1>0. TypeOK /\ Known /\ issued \in Nat /\ 0 \in 0..issued
  BY DEF SessionInv, TypeOK, ServerTypeOK
<1>1. /\ \A op \in Operations \cup {"gone"} : <<t, op>> \in Slots
      /\ BrowserOf[t] \in Browsers /\ session[t] \in 0..issued /\ store[BrowserOf[t]] \in 0..issued
      /\ ended \subseteq 1..issued /\ orphaned \subseteq 1..issued
  BY <1>0, SlotOf, BrowserOfAssumption DEF Known
<1>2. ASSUME NEW op \in Operations, NEW step \in {"ok", "refused", "sent"},
             req[<<t, op>>].step = step
      PROVE  req[<<t, op>>].token \in 0..issued
  BY <1>0, <1>1, <1>2 DEF Known, WellFormed, NoRequest, Request, NoToken
<1>3. ASSUME NEW s \in Slots, req'[s] = NoRequest PROVE WellFormed(s)'
  BY <1>3 DEF WellFormed, NoRequest, Request
<1>4. CASE SendLogin(t)
  <2>1. "login" \in Operations /\ Send(t, "login", NoToken)
    BY <1>4 DEF Operations, SendLogin
  <2>2. WellFormed(<<t, "login">>)'
    BY <2>1, SentWellFormed
  <2> QED BY <1>0, <1>1, <1>4, <2>1, <2>2, Sent, KnownKept DEF SendLogin, history
<1>5. CASE SendRefresh(t)
  <2>1. "refresh" \in Operations /\ Send(t, "refresh", store[BrowserOf[t]])
    BY <1>5 DEF Operations, SendRefresh
  <2>2. WellFormed(<<t, "refresh">>)'
    <3>1. store[BrowserOf[t]] \in 1..issued
      BY <1>0, <1>1, <1>5 DEF SendRefresh, NoToken
    <3> QED BY <2>1, <3>1, SentWellFormed
  <2> QED BY <1>0, <1>1, <1>5, <2>1, <2>2, Sent, KnownKept DEF SendRefresh, history
<1>6. CASE Logout(t)
  <2>1. "logout" \in Operations /\ Send(t, "logout", session[t])
    BY <1>6 DEF Operations, Logout
  <2>2. WellFormed(<<t, "logout">>)'
    <3>1. session[t] \in 1..issued
      BY <1>0, <1>1, <1>6 DEF Logout, NoToken
    <3> QED BY <2>1, <3>1, SentWellFormed
  <2>3. ended' \subseteq 1..issued
    <3>1. session[t] \in 1..issued
      BY <1>0, <1>1, <1>6 DEF Logout, NoToken
    <3>2. ended' = ended \cup {session[t]}
      BY <1>6 DEF Logout
    <3> QED BY <1>1, <3>1, <3>2
  <2> QED BY <1>0, <1>1, <1>6, <2>1, <2>2, <2>3, Sent, Kept, KnownKept DEF Logout, NoToken
<1>7. CASE NothingToRefresh(t)
  BY <1>0, <1>1, <1>7, Kept, KnownKept DEF NothingToRefresh, history, server, NoToken, Known,
      WellFormed
<1>8. ASSUME NEW op \in Operations \cup {"gone"}, Done(<<t, op>>),
             UNCHANGED history,
             \/ UNCHANGED <<store, session>>
             \/ \E token \in {NoToken, req[<<t, op>>].token} :
                  token \in 0..issued /\ Keep(t, token)
      PROVE  Known'
  <2>1. WellFormed(<<t, op>>)'
    BY <1>0, <1>1, <1>3, <1>8, Taken
  <2>2. /\ \A x \in Slots \ {<<t, op>>} : req'[x] = req[x]
        /\ UNCHANGED <<issued, root, orphaned, ended>>
    BY <1>0, <1>1, <1>8, Taken DEF history
  <2>3. CASE UNCHANGED <<store, session>>
    BY <1>0, <1>1, <2>1, <2>2, <2>3, KnownKept
  <2>4. ASSUME NEW token \in 0..issued, Keep(t, token) PROVE Known'
    <3>1. /\ \A b \in Browsers : store'[b] \in {store[b], token}
          /\ \A u \in Tabs : session'[u] \in {session[u], token}
      BY <1>0, <2>4, Kept
    <3> QED BY <1>1, <2>1, <2>2, <3>1, KnownKept
  <2> QED BY <1>8, <2>3, <2>4
<1>9. CASE LoggedIn(t)
  BY <1>2, <1>8, <1>9 DEF LoggedIn, Operations
<1>10. CASE Refreshed(t)
  BY <1>2, <1>8, <1>10 DEF Refreshed, Operations
<1>11. CASE RefreshRefused(t)
  BY <1>0, <1>8, <1>11 DEF RefreshRefused, Operations, NoToken
<1>12. CASE LogoutDone(t) \/ Unheard(t)
  BY <1>8, <1>12 DEF LogoutDone, Unheard, Operations
<1>13. CASE \E op \in Operations : Lost(t, op)
  BY <1>0, <1>8, <1>13 DEF Lost, NoToken
<1>14. CASE Reload(t)
  <2>1. Abandon(t)
    BY <1>14 DEF Reload
  <2>2. \A x \in Slots : WellFormed(x)'
    <3> SUFFICES ASSUME NEW x \in Slots PROVE WellFormed(x)'
      OBVIOUS
    <3>1. x[1] \in Tabs /\ x[2] \in Operations \cup {"gone"} /\ x = <<x[1], x[2]>>
      BY SlotParts
    <3>2. CASE x[1] # t
      <4>1. req'[x] = req[x] /\ issued' = issued
        BY <1>0, <2>1, <3>2, Abandoned
      <4>2. WellFormed(x)
        BY <1>0 DEF SessionInv, Known
      <4> QED BY <4>1, <4>2 DEF WellFormed
    <3>3. CASE x[1] = t /\ req'[x] = NoRequest
      BY <1>3, <3>3
    <3>4. CASE x = <<t, "gone">> /\ req'[x] # NoRequest
      <4> DEFINE r == req[<<t, "refresh">>]
      <4>1. r.step \in {"sent", "rotate", "revokeAll"} /\ req'[x] = r /\ issued' = issued
        BY <1>0, <2>1, <3>4, Abandoned
      <4>2. WellFormed(<<t, "refresh">>) /\ <<t, "refresh">>[2] = "refresh" /\ x[2] = "gone"
        BY <1>0, <1>1, <3>4, SlotOf DEF Known, Operations
      <4>3. r.op = "refresh" /\ r.token \in 1..issued
        BY <4>1, <4>2 DEF WellFormed, NoRequest, Request
      <4> QED BY <4>1, <4>2, <4>3 DEF WellFormed
    <3>5. x[1] = t /\ x[2] \in Operations => req'[x] = NoRequest
      <4> SUFFICES ASSUME x[1] = t, x[2] \in Operations PROVE req'[x] = NoRequest
        OBVIOUS
      <4>1. x = <<t, x[2]>>
        BY <3>1
      <4>2. req'[<<t, x[2]>>] = NoRequest
        BY <1>0, <2>1, Abandoned
      <4> QED BY <4>1, <4>2
    <3>6. x[1] = t /\ x[2] = "gone" => x = <<t, "gone">>
      BY <3>1
    <3> QED BY <3>1, <3>2, <3>3, <3>4, <3>5, <3>6
  <2>3. orphaned' \subseteq 1..issued
    <3>1. req[<<t, "refresh">>] # NoRequest => req[<<t, "refresh">>].token \in 1..issued
      BY <1>0, <1>1 DEF Known, WellFormed, Operations
    <3>2. \A k \in 1..issued : root[k] \in 1..issued
      BY <1>0 DEF Known
    <3> QED BY <1>0, <1>1, <2>1, <3>1, <3>2, Abandoned
  <2>4. \A u \in Tabs : session'[u] \in 0..issued
    BY <1>0, <1>1, <1>14 DEF Reload, TypeOK, Known
  <2> QED BY <1>0, <1>1, <1>14, <2>1, <2>2, <2>3, <2>4, Abandoned DEF Reload, Known
<1> QED BY <1>4, <1>5, <1>6, <1>7, <1>9, <1>10, <1>11, <1>12, <1>13, <1>14 DEF Client

\* Every step names only tokens that were issued.
LEMMA StepKnown ==
  SessionInv /\ [Next]_vars => Known'
<1> SUFFICES ASSUME SessionInv, [Next]_vars PROVE Known'
  OBVIOUS
<1>1. CASE \E t \in Tabs : Client(t) \/ \E op \in Operations : Lost(t, op)
  BY <1>1, ClientKnown
<1>2. CASE \E s \in Slots : Server(s)
  BY <1>2, ServerKnown
<1>3. CASE UNCHANGED <<issued, root, req, store, session, history>>
  BY <1>3 DEF SessionInv, Known, WellFormed, history
<1> QED BY <1>1, <1>2, <1>3 DEF Next, Lapse, vars, server

-----------------------------------------------------------------------------
(* A token is left for every request that may issue one *)

LEMMA BoundKept ==
  ASSUME TypeOK, Bound, issued' = issued, Issuing' \subseteq Issuing
  PROVE  Bound'
<1>1. Issuing \subseteq Slots
  BY DEF Issuing
<1>2. /\ Cardinality(Issuing) \in Nat /\ Cardinality(Issuing') \in Nat
      /\ Cardinality(Issuing') <= Cardinality(Issuing)
  BY <1>1, Fewer
<1> QED BY <1>2, MaxTokensAssumption DEF Bound, TypeOK, ServerTypeOK

\* The token issued is the one that was kept back for the request ...
LEMMA BoundIssued ==
  ASSUME TypeOK, Bound, NEW s \in Issuing, issued' = issued + 1, Issuing' \subseteq Issuing \ {s}
  PROVE  Bound'
<1>1. Issuing \subseteq Slots /\ IsFiniteSet(Issuing) /\ Issuing \ {s} \subseteq Slots
  BY Fewer DEF Issuing
<1>2. Cardinality(Issuing \ {s}) = Cardinality(Issuing) - 1
  BY <1>1, FS_RemoveElement
<1>3. /\ Cardinality(Issuing) \in Nat /\ Cardinality(Issuing') \in Nat
      /\ Cardinality(Issuing') <= Cardinality(Issuing \ {s})
  BY <1>1, Fewer
<1> QED BY <1>2, <1>3, MaxTokensAssumption DEF Bound, TypeOK, ServerTypeOK

\* ... one is kept back only while there is room for it ...
LEMMA BoundSent ==
  ASSUME TypeOK, Bound, NEW s \in Slots, issued' = issued, Issuing' \subseteq Issuing \cup {s},
         Room
  PROVE  Bound'
<1>1. Issuing \subseteq Slots /\ IsFiniteSet(Issuing) /\ Issuing \cup {s} \subseteq Slots
  BY Fewer DEF Issuing
<1>2. Cardinality(Issuing \cup {s}) <= Cardinality(Issuing) + 1
  BY <1>1, FS_AddElement, Fewer
<1>3. /\ Cardinality(Issuing) \in Nat /\ Cardinality(Issuing') \in Nat
      /\ Cardinality(Issuing \cup {s}) \in Nat
      /\ Cardinality(Issuing') <= Cardinality(Issuing \cup {s})
  BY <1>1, Fewer
<1>4. issued + Cardinality(Issuing) < MaxTokens
  BY DEF Room, Issuing
<1> QED BY <1>2, <1>3, <1>4, MaxTokensAssumption DEF Bound, TypeOK, ServerTypeOK

\* ... and a request that goes on elsewhere keeps the one it has.
LEMMA BoundMoved ==
  ASSUME TypeOK, Bound, NEW s \in Issuing, NEW x \in Slots, issued' = issued,
         Issuing' \subseteq (Issuing \ {s}) \cup {x}
  PROVE  Bound'
<1>1. /\ Issuing \subseteq Slots /\ IsFiniteSet(Issuing)
      /\ Issuing \ {s} \subseteq Slots /\ IsFiniteSet(Issuing \ {s})
      /\ (Issuing \ {s}) \cup {x} \subseteq Slots
  BY Fewer DEF Issuing
<1>2. Cardinality(Issuing \ {s}) = Cardinality(Issuing) - 1
  BY <1>1, FS_RemoveElement
<1>3. Cardinality((Issuing \ {s}) \cup {x}) <= Cardinality(Issuing \ {s}) + 1
  BY <1>1, FS_AddElement, Fewer
<1>4. /\ Cardinality(Issuing) \in Nat /\ Cardinality(Issuing') \in Nat
      /\ Cardinality((Issuing \ {s}) \cup {x}) \in Nat
      /\ Cardinality(Issuing') <= Cardinality((Issuing \ {s}) \cup {x})
  BY <1>1, Fewer
<1> QED BY <1>2, <1>3, <1>4, MaxTokensAssumption DEF Bound, TypeOK, ServerTypeOK

\* A token that was issued is live after a step only if it was before.
Revived == {k \in 1..issued : status'[k] = "live" /\ status[k] # "live"}

\* A request unchanged by a step that revives no token may issue only if it might before.
LEMMA SameMayIssue ==
  ASSUME SessionInv, Revived = {}, NEW x \in Slots, req'[x] = req[x], MayIssue(x)'
  PROVE  MayIssue(x)
<1>1. WellFormed(x)
  BY DEF SessionInv, Known
<1>2. req[x].op = "refresh" /\ req[x].step = "sent" => req[x].token \in 1..issued
  BY <1>1 DEF WellFormed, NoRequest, Request
<1> QED BY <1>2 DEF MayIssue, Revived

\* The server issues a token for a slot that was counted when its request was sent.
LEMMA ServerBound ==
  ASSUME SessionInv, NEW s \in Slots, Server(s)
  PROVE  Bound'
<1>0. TypeOK /\ Bound /\ Known /\ WellFormed(s) /\ issued \in Nat
  BY DEF SessionInv, TypeOK, ServerTypeOK, Known
<1>1. CASE Login(s) \/ Rotate(s)
  <2>1. MayIssue(s) /\ s \in Issuing
    BY <1>1 DEF Login, Rotate, MayIssue, Issuing
  <2>2. issued + 1 \in Tokens /\ issued' = issued + 1
    BY <1>0, <1>1, <2>1, TokenLeft DEF Login, Rotate, Issue
  <2>3. \A x \in Slots \ {s} : req'[x] = req[x]
    BY <1>0, <1>1 DEF Login, Rotate, Issue, TypeOK, ServerTypeOK
  <2>4. req'[s].step = "ok"
    BY <1>0, <1>1 DEF Login, Rotate, Issue, TypeOK, ServerTypeOK, Requests
  <2>5. Revived = {}
    <3> SUFFICES ASSUME NEW k \in 1..issued PROVE status'[k] \in {status[k], "revoked"}
      BY DEF Revived
    <3>1. k \in Tokens /\ k # issued + 1 /\ status \in [Tokens -> Statuses]
      BY <1>0, MaxTokensAssumption DEF TypeOK, ServerTypeOK, Tokens
    <3>2. CASE Login(s)
      BY <2>2, <3>1, <3>2 DEF Login, Issue
    <3>3. CASE Rotate(s)
      BY <2>2, <3>1, <3>3 DEF Rotate, Issue
    <3> QED BY <1>1, <3>2, <3>3
  <2>6. Issuing' \subseteq Issuing \ {s}
    BY <2>3, <2>4, <2>5, SameMayIssue DEF Issuing, MayIssue
  <2> QED BY <1>0, <2>1, <2>2, <2>6, BoundIssued
<1>2. CASE Lookup(s) \/ RevokeAll(s) \/ Retire(s)
  <2>1. UNCHANGED issued /\ \A x \in Slots \ {s} : req'[x] = req[x]
    BY <1>0, <1>2 DEF Lookup, RevokeAll, Retire, Goes, TypeOK, ServerTypeOK
  <2>2. Revived = {}
    <3> SUFFICES ASSUME NEW k \in 1..issued PROVE status'[k] \in {status[k], "revoked"}
      BY DEF Revived
    <3>1. k \in Tokens /\ status[k] # "absent" /\ status \in [Tokens -> Statuses]
      BY <1>0, MaxTokensAssumption DEF TypeOK, ServerTypeOK, Tokens
    <3> QED BY <1>2, <3>1 DEF Lookup, RevokeAll, Retire
  <2>3. MayIssue(s)' => MayIssue(s)
    BY <1>0, <1>2 DEF Lookup, RevokeAll, Retire, Goes, TypeOK, ServerTypeOK, Requests, MayIssue
  <2>4. Issuing' \subseteq Issuing
    BY <2>1, <2>2, <2>3, SameMayIssue DEF Issuing
  <2> QED BY <1>0, <2>1, <2>4, BoundKept
<1> QED BY <1>1, <1>2 DEF Server, ServerStep

\* A tab sends a request that may issue a token only while the bound allows one more.
LEMMA ClientBound ==
  ASSUME SessionInv, NEW t \in Tabs, Client(t) \/ \E op \in Operations : Lost(t, op)
  PROVE  Bound'
<1>0. TypeOK /\ Bound /\ \A op \in Operations \cup {"gone"} : <<t, op>> \in Slots
  BY SlotOf DEF SessionInv
<1>1. ASSUME UNCHANGED <<issued, status>>, NEW s \in Slots,
             \A x \in Slots \ {s} : req'[x] = req[x], Room \/ ~ MayIssue(s)'
      PROVE  Bound'
  <2>1. Revived = {}
    BY <1>1 DEF Revived
  <2>2. Issuing' \subseteq Issuing \cup {s} /\ (~ MayIssue(s)' => Issuing' \subseteq Issuing)
    BY <1>1, <2>1, SameMayIssue DEF Issuing
  <2> QED BY <1>0, <1>1, <2>2, BoundSent, BoundKept
<1>2. ASSUME NEW op \in Operations \cup {"gone"}, Done(<<t, op>>) PROVE Bound'
  <2>1. ~ MayIssue(<<t, op>>)'
    BY <1>0, <1>2, Taken DEF MayIssue, NoRequest, Request
  <2> QED BY <1>0, <1>1, <1>2, <2>1, Taken
<1>3. CASE SendLogin(t)
  BY <1>0, <1>1, <1>3, Sent DEF SendLogin, Operations
<1>4. CASE SendRefresh(t) \/ Logout(t)
  <2>1. CASE SendRefresh(t)
    <3>1. Room \/ ~ MayIssue(<<t, "refresh">>)'
      <4>1. /\ req'[<<t, "refresh">>] =
                 [op |-> "refresh", token |-> store[BrowserOf[t]], step |-> "sent"]
            /\ status' = status
        BY <1>0, <2>1, Sent DEF SendRefresh, Operations, Request
      <4> QED BY <2>1, <4>1 DEF SendRefresh, MayIssue
    <3> QED BY <1>0, <1>1, <2>1, <3>1, Sent DEF SendRefresh, Operations
  <2>2. CASE Logout(t)
    <3>1. ~ MayIssue(<<t, "logout">>)'
      <4>1. req'[<<t, "logout">>] = [op |-> "logout", token |-> session[t], step |-> "sent"]
        BY <1>0, <2>2, Sent DEF Logout, Operations, Request
      <4> QED BY <4>1 DEF MayIssue
    <3> QED BY <1>0, <1>1, <2>2, <3>1, Sent DEF Logout, Operations
  <2> QED BY <1>4, <2>1, <2>2
<1>5. CASE NothingToRefresh(t)
  BY <1>0, <1>5, BoundKept DEF NothingToRefresh, server, Issuing, MayIssue
<1>6. CASE LoggedIn(t) \/ Refreshed(t) \/ RefreshRefused(t) \/ LogoutDone(t) \/ Unheard(t)
           \/ \E op \in Operations : Lost(t, op)
  BY <1>2, <1>6 DEF LoggedIn, Refreshed, RefreshRefused, LogoutDone, Unheard, Lost, Operations
<1>7. CASE Reload(t)
  <2>1. Abandon(t)
    BY <1>7 DEF Reload
  <2>2. UNCHANGED <<issued, status>> /\ Revived = {}
    BY <1>0, <2>1, Abandoned DEF Revived
  <2>3. ASSUME NEW x \in Slots, MayIssue(x)'
        PROVE  \/ x[1] # t /\ x \in Issuing
               \/ x = <<t, "gone">> /\ req'[x] = req[<<t, "refresh">>]
    <3>1. x[1] \in Tabs /\ x[2] \in Operations \cup {"gone"} /\ x = <<x[1], x[2]>>
      BY SlotParts
    <3>2. req'[x] # NoRequest
      BY <2>3 DEF MayIssue, NoRequest, Request
    <3>3. CASE x[1] # t
      BY <1>0, <2>1, <2>2, <2>3, <3>3, Abandoned, SameMayIssue DEF Issuing
    <3>4. CASE x[1] = t
      <4>1. x[2] \notin Operations
        <5>1. x[2] \in Operations => req'[<<t, x[2]>>] = NoRequest
          BY <1>0, <2>1, Abandoned
        <5> QED BY <3>1, <3>2, <3>4, <5>1
      <4>2. x = <<t, "gone">>
        BY <3>1, <3>4, <4>1
      <4> QED BY <1>0, <2>1, <3>2, <4>2, Abandoned
    <3> QED BY <3>3, <3>4
  <2>4. MayIssue(<<t, "gone">>)' => <<t, "refresh">> \in Issuing
    BY <1>0, <2>2, <2>3, SlotOf DEF Issuing, MayIssue, Operations
  <2>5. <<t, "refresh">> \in Slots /\ <<t, "gone">> \in Slots /\ <<t, "refresh">>[1] = t
    BY SlotOf DEF Operations
  <2>6. CASE <<t, "refresh">> \in Issuing
    <3>1. Issuing' \subseteq (Issuing \ {<<t, "refresh">>}) \cup {<<t, "gone">>}
      BY <2>3, <2>5 DEF Issuing
    <3> QED BY <1>0, <2>2, <2>5, <2>6, <3>1, BoundMoved
  <2>7. CASE <<t, "refresh">> \notin Issuing
    <3>1. Issuing' \subseteq Issuing
      BY <2>3, <2>4, <2>7 DEF Issuing
    <3> QED BY <1>0, <2>2, <3>1, BoundKept
  <2> QED BY <2>6, <2>7
<1> QED BY <1>3, <1>4, <1>5, <1>6, <1>7 DEF Client

\* The tokens issued, and those that may be, stay within their number.
LEMMA StepBound ==
  SessionInv /\ [Next]_vars => Bound'
<1> SUFFICES ASSUME SessionInv, [Next]_vars PROVE Bound'
  OBVIOUS
<1>1. CASE \E t \in Tabs : Client(t) \/ \E op \in Operations : Lost(t, op)
  BY <1>1, ClientBound
<1>2. CASE \E s \in Slots : Server(s)
  BY <1>2, ServerBound
<1>3. CASE UNCHANGED <<issued, req>> /\ (UNCHANGED status \/ \E k \in Tokens : Lapse(k))
  <2>1. Revived = {}
    <3>1. \A k \in 1..issued : k \in Tokens
      BY MaxTokensAssumption DEF SessionInv, TypeOK, ServerTypeOK, Tokens
    <3> QED BY <1>3, <3>1 DEF Revived, Lapse, SessionInv, TypeOK, ServerTypeOK
  <2>2. Issuing' \subseteq Issuing
    BY <1>3, <2>1, SameMayIssue DEF Issuing
  <2> QED BY <1>3, <2>2, BoundKept DEF SessionInv
<1> QED BY <1>1, <1>2, <1>3 DEF Next, Lapse, vars, server

-----------------------------------------------------------------------------
(* The types *)

\* An answer with a token keeps the type of the requests.
LEMMA AnswerTypes ==
  ASSUME NEW f \in [Slots -> Requests], NEW s \in Slots,
         NEW token \in 0..MaxTokens, NEW step \in Steps
  PROVE  [f EXCEPT ![s].token = token, ![s].step = step] \in [Slots -> Requests]
<1> DEFINE r == [f[s] EXCEPT !.token = token, !.step = step]
<1>1. r \in Requests
  BY DEF Requests
<1>2. [f EXCEPT ![s] = r] \in [Slots -> Requests]
  BY <1>1
<1>3. [f EXCEPT ![s].token = token, ![s].step = step] = [f EXCEPT ![s] = r]
  <2>1. f[s] = [op |-> f[s].op, token |-> f[s].token, step |-> f[s].step]
    BY DEF Requests
  <2> QED BY <2>1
<1> QED BY <1>2, <1>3

\* Every step keeps the types: a token that is named was issued, and one is left for
\* each that may be.
LEMMA StepTypes ==
  ASSUME SessionInv, [Next]_vars, Known', Bound'
  PROVE  TypeOK'
<1>0. TypeOK /\ Known /\ Bound
  BY DEF SessionInv
<1>1. issued' \in 0..MaxTokens
  <2>1. issued' \in {issued, issued + 1}
    BY DEF Next, Client, Server, ServerStep, Login, Lookup, RevokeAll, Rotate, Retire, Lapse,
        Issue,
           SendLogin, LoggedIn, SendRefresh, NothingToRefresh, Refreshed, RefreshRefused, Logout,
           LogoutDone, Reload, Unheard, Lost, Abandon, Send, Done, server, vars
  <2>2. Issuing' \subseteq Slots
    BY DEF Issuing
  <2>3. Cardinality(Issuing') \in Nat
    BY <2>2, Fewer
  <2> QED BY <1>0, <2>1, <2>3, MaxTokensAssumption DEF Bound, TypeOK, ServerTypeOK
<1>2. ended' \subseteq Tokens /\ orphaned' \subseteq Tokens
  <2>1. \A k \in 1..issued' : k \in Tokens
    BY <1>1, MaxTokensAssumption DEF Tokens
  <2> QED BY <2>1 DEF Known
<1>3. \A s \in Slots : req'[s].op \in {"none", IF s[2] = "gone" THEN "refresh" ELSE s[2]}
  <2> SUFFICES ASSUME NEW s \in Slots
               PROVE  req'[s].op \in {"none", IF s[2] = "gone" THEN "refresh" ELSE s[2]}
    OBVIOUS
  <2>1. WellFormed(s)'
    BY DEF Known
  <2>2. CASE req'[s] = NoRequest
    BY <2>2 DEF NoRequest, Request
  <2>3. CASE req'[s] # NoRequest
    BY <2>1, <2>3 DEF WellFormed
  <2> QED BY <2>2, <2>3
<1>4. reloads' \in 0..MaxReloads
  <2>1. reloads' = reloads \/ (reloads < MaxReloads /\ reloads' = reloads + 1)
    BY DEF Next, Client, Server, SendLogin, LoggedIn, SendRefresh, NothingToRefresh, Refreshed,
           RefreshRefused, Logout, LogoutDone, Reload, Unheard, Lost, Abandon, history, vars
  <2> QED BY <1>0, <2>1, MaxReloadsAssumption DEF TypeOK
<1>5. NoToken \in 0..MaxTokens /\ Statuses = {"absent", "live", "revoked", "expired"}
  BY MaxTokensAssumption DEF NoToken, Statuses
<1>6. NoRequest \in Requests
  BY <1>5 DEF NoRequest, Request, Requests, Steps
<1>7. store' \in [Browsers -> 0..MaxTokens] /\ session' \in [Tabs -> 0..MaxTokens]
  <2>1. \A t \in Tabs, op \in Operations : req[<<t, op>>] \in Requests
    BY <1>0, SlotOf DEF TypeOK, ServerTypeOK
  <2>2. \A t \in Tabs, op \in Operations : req[<<t, op>>].token \in 0..MaxTokens
    BY <2>1 DEF Requests
  <2>3. ASSUME NEW t \in Tabs, NEW token \in 0..MaxTokens, Keep(t, token)
        PROVE  store' \in [Browsers -> 0..MaxTokens] /\ session' \in [Tabs -> 0..MaxTokens]
    BY <1>0, <2>3 DEF Keep, TypeOK
  <2>4. CASE UNCHANGED <<store, session>>
    BY <1>0, <2>4 DEF TypeOK
  <2>5. ASSUME NEW t \in Tabs, Client(t)
        PROVE  store' \in [Browsers -> 0..MaxTokens] /\ session' \in [Tabs -> 0..MaxTokens]
    <3>1. CASE Reload(t)
      BY <1>0, <3>1, BrowserOfAssumption DEF Reload, TypeOK
    <3>2. CASE UNCHANGED <<store, session>>
      BY <2>4, <3>2
    <3>3. CASE \E token \in 0..MaxTokens : Keep(t, token)
      BY <2>3, <3>3
    <3> QED BY <1>5, <2>2, <2>5, <3>1, <3>2, <3>3
            DEF Client, SendLogin, LoggedIn, SendRefresh, NothingToRefresh, Refreshed,
                RefreshRefused, Logout, LogoutDone, Unheard, Operations
  <2>6. ASSUME NEW t \in Tabs, NEW op \in Operations, Lost(t, op)
        PROVE  store' \in [Browsers -> 0..MaxTokens] /\ session' \in [Tabs -> 0..MaxTokens]
    BY <1>5, <2>3, <2>4, <2>6 DEF Lost
  <2> QED BY <2>4, <2>5, <2>6 DEF Next, Server, vars
<1>8. ServerTypeOK'
  <2>1. ASSUME UNCHANGED <<issued, status, root>>, req' \in [Slots -> Requests]
        PROVE  ServerTypeOK'
    BY <1>0, <2>1 DEF TypeOK, ServerTypeOK
  <2>2. ASSUME NEW s, Done(s) PROVE ServerTypeOK'
    BY <1>0, <1>6, <2>1, <2>2 DEF Done, TypeOK, ServerTypeOK
  <2>3. ASSUME NEW t \in Tabs, NEW op \in Operations, NEW token \in 0..MaxTokens,
             Send(t, op, token)
        PROVE  ServerTypeOK'
    <3>1. Request(op, token, "sent") \in Requests
      BY DEF Request, Requests, Operations, Steps
    <3> QED BY <1>0, <2>1, <2>3, <3>1 DEF Send, TypeOK, ServerTypeOK
  <2>4. ASSUME NEW s, NEW step \in Steps, Goes(s, step) PROVE req' \in [Slots -> Requests]
    <3>1. req \in [Slots -> Requests] /\ req' = [req EXCEPT ![s] = [req[s] EXCEPT !.step = step]]
      BY <1>0, <2>4 DEF Goes, TypeOK, ServerTypeOK
    <3>2. s \in Slots => [req[s] EXCEPT !.step = step] \in Requests
      BY <3>1 DEF Requests
    <3> QED BY <3>1, <3>2
  <2>5. ASSUME NEW t \in Tabs, Abandon(t) PROVE ServerTypeOK'
    <3>1. req[<<t, "refresh">>] \in Requests /\ req \in [Slots -> Requests]
      BY <1>0, SlotOf DEF TypeOK, ServerTypeOK, Operations
    <3>2. PICK left \in {req[<<t, "refresh">>], NoRequest} :
            req' = [s \in Slots |-> CASE s = <<t, "gone">>         -> left
                                     [] s \in {t} \X Operations -> NoRequest
                                     [] OTHER                  -> req[s]]
      BY <2>5 DEF Abandon
    <3>3. req' \in [Slots -> Requests]
      BY <1>6, <3>1, <3>2
    <3> QED BY <2>1, <2>5, <3>3 DEF Abandon
  <2>6. ASSUME NEW s \in Slots, Server(s) PROVE ServerTypeOK'
    <3>1. CASE Login(s) \/ Rotate(s)
      <4>1. MayIssue(s)
        BY <3>1 DEF Login, Rotate, MayIssue
      <4>2. issued + 1 \in Tokens /\ issued' = issued + 1
        BY <1>0, <3>1, <4>1, TokenLeft DEF Login, Rotate, Issue
      <4>3. req[s].step = "rotate" => req[s].token \in 1..issued
        BY <1>0 DEF Known, WellFormed, NoRequest, Request
      <4>4. PICK from \in 1..issued + 1 : Issue(s, from)
        BY <1>0, <3>1, <4>3 DEF Login, Rotate, TypeOK, ServerTypeOK
      <4>5. from \in Tokens /\ issued \in Nat
        BY <1>0, <4>2, MaxTokensAssumption DEF TypeOK, ServerTypeOK, Tokens
      <4>6. req' \in [Slots -> Requests]
        <5>1. issued + 1 \in 0..MaxTokens /\ "ok" \in Steps
          BY <4>2, MaxTokensAssumption DEF Tokens, Steps
        <5>2. req \in [Slots -> Requests]
          BY <1>0 DEF TypeOK, ServerTypeOK
        <5> QED BY <4>4, <5>1, <5>2, AnswerTypes DEF Issue
      <4>7. status' \in [Tokens -> Statuses] /\ root' \in [Tokens -> 0..MaxTokens]
        BY <1>0, <1>5, <4>2, <4>4, <4>5 DEF Issue, TypeOK, ServerTypeOK, Tokens
      <4>8. \A k \in Tokens : status'[k] = "absent" <=> k > issued'
        BY <1>0, <4>2, <4>4, <4>5 DEF Issue, TypeOK, ServerTypeOK, Tokens
      <4> QED BY <1>1, <4>6, <4>7, <4>8 DEF ServerTypeOK
    <3>2. CASE Lookup(s)
      BY <2>1, <2>4, <3>2 DEF Lookup, Steps
    <3>3. CASE RevokeAll(s)
      <4>1. req' \in [Slots -> Requests]
        BY <2>4, <3>3 DEF RevokeAll, Steps
      <4> QED BY <1>0, <1>5, <3>3, <4>1 DEF RevokeAll, TypeOK, ServerTypeOK
    <3>4. CASE Retire(s)
      <4>1. req' \in [Slots -> Requests]
        BY <2>4, <3>4 DEF Retire, Steps
      <4>2. req[s].token \in 1..issued
        BY <1>0, <3>4 DEF Retire, Known, WellFormed, NoRequest, Request
      <4>3. /\ issued \in 0..MaxTokens /\ status \in [Tokens -> Statuses]
            /\ status' = [status EXCEPT ![req[s].token] = "revoked"]
            /\ UNCHANGED <<issued, root>>
        BY <1>0, <3>4 DEF Retire, TypeOK, ServerTypeOK
      <4>4. status' \in [Tokens -> Statuses]
        BY <1>5, <4>3
      <4>5. \A k \in Tokens : status'[k] = "absent" <=> k > issued
        BY <1>0, <4>2, <4>3, MaxTokensAssumption DEF TypeOK, ServerTypeOK, Tokens
      <4> QED BY <1>0, <4>1, <4>3, <4>4, <4>5 DEF TypeOK, ServerTypeOK
    <3> QED BY <2>6, <3>1, <3>2, <3>3, <3>4 DEF Server, ServerStep
  <2>7. ASSUME NEW k \in Tokens, Lapse(k) PROVE ServerTypeOK'
    BY <1>0, <2>7 DEF Lapse, TypeOK, ServerTypeOK, Statuses
  <2>8. ASSUME NEW t \in Tabs, Client(t) PROVE ServerTypeOK'
    <3>1. session[t] \in 0..MaxTokens /\ store[BrowserOf[t]] \in 0..MaxTokens
      BY <1>0, BrowserOfAssumption DEF TypeOK
    <3>2. CASE SendLogin(t) \/ SendRefresh(t) \/ Logout(t)
      BY <1>5, <2>3, <3>1, <3>2 DEF SendLogin, SendRefresh, Logout, Operations
    <3>3. CASE LoggedIn(t) \/ Refreshed(t) \/ RefreshRefused(t) \/ LogoutDone(t) \/ Unheard(t)
      BY <2>2, <3>3 DEF LoggedIn, Refreshed, RefreshRefused, LogoutDone, Unheard
    <3>4. CASE NothingToRefresh(t)
      BY <1>0, <3>4 DEF NothingToRefresh, server, TypeOK, ServerTypeOK
    <3>5. CASE Reload(t)
      BY <2>5, <3>5 DEF Reload
    <3> QED BY <2>8, <3>2, <3>3, <3>4, <3>5 DEF Client
  <2>9. ASSUME NEW t \in Tabs, NEW op \in Operations, Lost(t, op) PROVE ServerTypeOK'
    BY <2>2, <2>9 DEF Lost
  <2>10. CASE UNCHANGED server
    BY <1>0, <2>10 DEF server, TypeOK, ServerTypeOK
  <2> QED BY <2>6, <2>7, <2>8, <2>9, <2>10 DEF Next, vars
<1> QED BY <1>2, <1>3, <1>4, <1>7, <1>8 DEF TypeOK

\* SessionInv is inductive.
LEMMA SessionHolds == Spec => []SessionInv
<1>1. Init => SessionInv
  <2> SUFFICES ASSUME Init PROVE SessionInv
    OBVIOUS
  <2>1. \A s \in Slots : req[s] = NoRequest /\ ~ MayIssue(s)
    BY DEF Init, ServerInit, MayIssue, NoRequest, Request
  <2>2. Known
    BY <2>1, BrowserOfAssumption DEF Init, ServerInit, Known, WellFormed, NoToken
  <2>3. Issuing = {}
    BY <2>1 DEF Issuing
  <2>4. Bound
    BY <2>3, FS_EmptySet, MaxTokensAssumption DEF Bound, Init, ServerInit
  <2>5. NoRequest \in Requests
    BY MaxTokensAssumption DEF NoRequest, Request, Requests, Steps, NoToken
  <2>6. ServerTypeOK
    BY <2>5, MaxTokensAssumption DEF Init, ServerInit, ServerTypeOK, Tokens, Statuses, NoToken
  <2>7. TypeOK
    BY <2>1, <2>6, MaxTokensAssumption, MaxReloadsAssumption
       DEF Init, TypeOK, NoRequest, Request, NoToken, Tokens
  <2> QED BY <2>2, <2>4, <2>7 DEF SessionInv
<1>2. SessionInv /\ [Next]_vars => SessionInv'
  BY StepKnown, StepBound, StepTypes DEF SessionInv
<1> QED BY <1>1, <1>2, PTL DEF Spec

\* TypeOK for every number of tabs, browsers, tokens and reloads: every slot only ever
\* holds its own kind of request, and no more tokens are issued than there are rows.
THEOREM SessionTypes == Spec => []TypeOK
<1>1. SessionInv => TypeOK
  BY DEF SessionInv
<1> QED BY <1>1, SessionHolds, PTL

-----------------------------------------------------------------------------
(* A tab that is alone in its browser: the invariant *)

Places == Operations \cup {"gone"}

\* The token of a request of the tab.
Has(t, op) == req[<<t, op>>].token

\* The tokens of a tab, wherever it has them.
Held(t) == {Has(t, op) : op \in Places} \cup {session[t], store[BrowserOf[t]]}

Related(j, k) == j # NoToken /\ k # NoToken /\ root[j] = root[k]

\* No login has tokens in two tabs.
TabsApart ==
  \A t, u \in Tabs : \A j \in Held(t), k \in Held(u) : Related(j, k) => t = u

\* The token of a login the page has not been told of has no relative anywhere.
LoginFresh(t) ==
  /\ \A op \in Places \ {"login"} : ~ Related(Has(t, "login"), Has(t, op))
  /\ ~ Related(Has(t, "login"), session[t])
  /\ ~ Related(Has(t, "login"), store[BrowserOf[t]])

\* A token that a refresh has brought and the page has not been told of is nowhere else.
AnswerFresh(t) ==
  req[<<t, "refresh">>].step = "ok" =>
    /\ \A op \in Places \ {"refresh"} : Has(t, op) # Has(t, "refresh")
    /\ session[t] # Has(t, "refresh") /\ store[BrowserOf[t]] # Has(t, "refresh")

\* What goes on after its page has gone is of an orphaned login, and a token that a
\* logout was sent for has ended.
GoneOrphaned(t) == Has(t, "gone") # NoToken => root[Has(t, "gone")] \in orphaned
LogoutEnded(t) == Has(t, "logout") # NoToken => Has(t, "logout") \in ended

\* Retired by its rotation, and by nothing else.
Spent(k) ==
  k \in Tokens /\ status[k] = "revoked" /\ k \notin ended /\ root[k] \notin orphaned

\* A spent token is in no request, and a tab that still has it has before it the answer
\* of its refresh, with a token of the same login.
SpentReplaced(t) ==
  /\ \A op \in Places : ~ Spent(Has(t, op))
  /\ \A k \in {session[t], store[BrowserOf[t]]} :
       Spent(k) => req[<<t, "refresh">>].step = "ok" /\ root[Has(t, "refresh")] = root[k]

TabInv(t) ==
  /\ LoginFresh(t) /\ AnswerFresh(t) /\ GoneOrphaned(t) /\ LogoutEnded(t)
  /\ SpentReplaced(t)

\* A refresh about to rotate its token is the only one that can issue another of that
\* login: no other token of it is live.
RotatesTheLive ==
  \A s \in Slots : req[s].step = "rotate" /\ root[req[s].token] \notin orphaned =>
    \A j \in Live : root[j] = root[req[s].token] => j = req[s].token

AloneInv ==
  /\ SessionInv
  /\ TabsApart /\ \A t \in Tabs : TabInv(t)
  /\ RotatesTheLive /\ OneLivePerLogin /\ ReuseOnlyOfEnded

-----------------------------------------------------------------------------
(* What a step of the client changes, tab by tab *)

\* One request of one tab has become r.
Sets(t, op, r) ==
  \A u \in Tabs, o \in Places :
    req'[<<u, o>>] = IF u = t /\ o = op THEN r ELSE req[<<u, o>>]

\* A request sent fills a slot that was free.
LEMMA SendSets ==
  ASSUME TypeOK, NEW t \in Tabs, NEW op \in Operations, NEW token, Send(t, op, token)
  PROVE  Sets(t, op, Request(op, token, "sent")) /\ req[<<t, op>>] = NoRequest
<1>1. \A u \in Tabs, o \in Places : <<u, o>> \in Slots
  BY SlotOf DEF Places
<1> QED BY <1>1, Sent DEF Sets

\* An answer taken frees its slot.
LEMMA DoneSets ==
  ASSUME TypeOK, NEW t \in Tabs, NEW op \in Places, Done(<<t, op>>)
  PROVE  Sets(t, op, NoRequest)
<1>1. \A u \in Tabs, o \in Places : <<u, o>> \in Slots
  BY SlotOf DEF Places
<1> QED BY <1>1, Taken DEF Sets

\* With one tab per browser only that tab's token changes.
LEMMA KeepSets ==
  ASSUME Alone, TypeOK, NEW t \in Tabs, NEW token, Keep(t, token)
  PROVE  \A u \in Tabs :
           /\ session'[u] = IF u = t THEN token ELSE session[u]
           /\ store'[BrowserOf[u]] = IF u = t THEN token ELSE store[BrowserOf[u]]
<1>1. \A u \in Tabs : BrowserOf[u] \in Browsers
  BY BrowserOfAssumption
<1> QED BY <1>1, Kept DEF Alone

\* A reload frees the slots of its tab, but for a refresh that has reached the server.
LEMMA AbandonSets ==
  ASSUME TypeOK, NEW t \in Tabs, Abandon(t)
  PROVE  /\ \A u \in Tabs \ {t}, o \in Places : req'[<<u, o>>] = req[<<u, o>>]
         /\ \A op \in Operations : req'[<<t, op>>] = NoRequest
         /\ req[<<t, "gone">>] = NoRequest
         /\ \/ req'[<<t, "gone">>] = NoRequest
            \/ req'[<<t, "gone">>] = req[<<t, "refresh">>]
         /\ orphaned' = IF req[<<t, "refresh">>] = NoRequest THEN orphaned
                          ELSE orphaned \cup {root[Has(t, "refresh")]}
<1>1. \A u \in Tabs, o \in Places : <<u, o>> \in Slots /\ <<u, o>>[1] = u
  BY SlotOf DEF Places
<1> QED BY <1>1, Abandoned DEF Has

\* Nothing changes in another tab, and no token comes to this one from outside.
LEMMA ClientMoves ==
  ASSUME Alone, SessionInv, NEW t \in Tabs, Client(t) \/ \E op \in Operations : Lost(t, op)
  PROVE  /\ UNCHANGED <<issued, status, root>> /\ ended \subseteq ended' /\ orphaned \subseteq orphaned'
         /\ \A u \in Tabs \ {t} :
              /\ \A op \in Places : req'[<<u, op>>] = req[<<u, op>>]
              /\ session'[u] = session[u] /\ store'[BrowserOf[u]] = store[BrowserOf[u]]
         /\ Held(t)' \subseteq Held(t) \cup {NoToken}
<1>0. TypeOK
  BY DEF SessionInv
<1> DEFINE SendsOne == \E op \in Operations, token \in {session[t], store[BrowserOf[t]], NoToken} :
                          Send(t, op, token)
           TakesOne == \E op \in Places : Done(<<t, op>>)
           Keeps == \E token \in {Has(t, op) : op \in Places} \cup {NoToken} : Keep(t, token)
           KeepsNone == UNCHANGED <<store, session>>
<1>1. \/ (SendsOne \/ TakesOne \/ UNCHANGED server) /\ (Keeps \/ KeepsNone)
      \/ Reload(t)
  BY DEF Client, SendLogin, LoggedIn, SendRefresh, NothingToRefresh, Refreshed, RefreshRefused,
         Logout, LogoutDone, Unheard, Lost, Has, Operations, Places
<1>2. UNCHANGED <<issued, status, root>>
  BY <1>0, <1>1, Abandoned DEF Reload, Send, Done, server
<1>3. ended \subseteq ended' /\ orphaned \subseteq orphaned'
  <2>1. CASE Reload(t)
    BY <1>0, <2>1, Abandoned DEF Reload
  <2>2. CASE ~ Reload(t)
    BY <2>2 DEF Client, SendLogin, LoggedIn, SendRefresh, NothingToRefresh, Refreshed,
        RefreshRefused,
         Logout, LogoutDone, Unheard, Lost, history
  <2> QED BY <2>1, <2>2
<1>4. ASSUME SendsOne
      PROVE  \E op \in Places : \E r : Sets(t, op, r) /\ r.token \in Held(t) \cup {NoToken}
  <2>1. PICK op \in Operations, token \in {session[t], store[BrowserOf[t]], NoToken} : Send(t, op, token)
    BY <1>4
  <2>2. Sets(t, op, Request(op, token, "sent")) /\ op \in Places
    BY <1>0, <2>1, SendSets DEF Places
  <2>3. Request(op, token, "sent").token \in Held(t) \cup {NoToken}
    BY DEF Request, Held
  <2> QED BY <2>2, <2>3
<1>5. ASSUME TakesOne
      PROVE  \E op \in Places : \E r : Sets(t, op, r) /\ r.token \in Held(t) \cup {NoToken}
  <2>1. NoRequest.token = NoToken
    BY DEF NoRequest, Request
  <2> QED BY <1>0, <1>5, <2>1, DoneSets
<1>6. ASSUME NEW u \in Tabs \ {t}, NEW op \in Places PROVE req'[<<u, op>>] = req[<<u, op>>]
  <2>1. CASE Reload(t)
    BY <1>0, <2>1, AbandonSets DEF Reload
  <2>2. CASE SendsOne \/ TakesOne
    BY <1>4, <1>5, <2>2 DEF Sets
  <2> QED BY <1>1, <2>1, <2>2 DEF server
<1>7. ASSUME NEW u \in Tabs \ {t}
      PROVE  session'[u] = session[u] /\ store'[BrowserOf[u]] = store[BrowserOf[u]]
  <2>1. CASE Reload(t)
    BY <1>0, <2>1 DEF Reload, TypeOK
  <2>2. CASE Keeps
    BY <1>0, <2>2, KeepSets
  <2> QED BY <1>1, <2>1, <2>2
<1>8. \A op \in Places : Has(t, op)' \in Held(t) \cup {NoToken}
  <2>1. CASE Reload(t)
    <3>1. NoRequest.token = NoToken
      BY DEF NoRequest, Request
    <3> QED BY <1>0, <2>1, <3>1, AbandonSets DEF Reload, Held, Has, Places, Operations
  <2>2. CASE SendsOne \/ TakesOne
    <3>1. PICK op \in Places : \E r : Sets(t, op, r) /\ r.token \in Held(t) \cup {NoToken}
      BY <1>4, <1>5, <2>2
    <3> QED BY <3>1 DEF Sets, Has, Held
  <2>3. CASE UNCHANGED server
    BY <2>3 DEF server, Has, Held
  <2> QED BY <1>1, <2>1, <2>2, <2>3
<1>9. {session'[t], store'[BrowserOf[t]]} \subseteq Held(t) \cup {NoToken}
  <2>1. CASE Reload(t)
    BY <1>0, <2>1 DEF Reload, TypeOK, Held
  <2>2. CASE Keeps
    BY <1>0, <2>2, KeepSets DEF Held
  <2> QED BY <1>1, <2>1, <2>2 DEF Held
<1>10. Held(t)' \subseteq Held(t) \cup {NoToken}
  BY <1>8, <1>9 DEF Held
<1> QED BY <1>2, <1>3, <1>6, <1>7, <1>10

\* A tab in which nothing changes: the histories only grow.
LEMMA SameTab ==
  ASSUME SessionInv, NEW t \in Tabs, TabInv(t),
         \A op \in Places : req'[<<t, op>>] = req[<<t, op>>],
         session'[t] = session[t], store'[BrowserOf[t]] = store[BrowserOf[t]],
         UNCHANGED <<status, root>>, ended \subseteq ended', orphaned \subseteq orphaned'
  PROVE  TabInv(t)'
<1>1. \A op \in Places : Has(t, op)' = Has(t, op)
  BY DEF Has
<1>2. \A op \in Operations \cup {"gone"} : op \in Places
  BY DEF Places
<1>3. \A k : Spent(k)' => Spent(k)
  BY DEF Spent
<1>4. LoginFresh(t)'
  BY <1>1, <1>2 DEF TabInv, LoginFresh, Related, Operations
<1>5. AnswerFresh(t)'
  BY <1>1, <1>2 DEF TabInv, AnswerFresh, Operations
<1>6. GoneOrphaned(t)' /\ LogoutEnded(t)'
  BY <1>1, <1>2 DEF TabInv, GoneOrphaned, LogoutEnded, Operations
<1>7. SpentReplaced(t)'
  BY <1>1, <1>2, <1>3 DEF TabInv, SpentReplaced, Operations
<1> QED BY <1>4, <1>5, <1>6, <1>7 DEF TabInv

\* The requests a step of the client leaves are new, or were there; the one of a page
\* that has gone is of a login orphaned with it.
LEMMA ClientRequests ==
  ASSUME SessionInv, NEW t \in Tabs, Client(t) \/ \E op \in Operations : Lost(t, op),
         NEW s \in Slots
  PROVE  \/ req'[s] = req[s] \/ req'[s].step \in {"sent", "none"}
         \/ root[req'[s].token] \in orphaned'
<1>0. TypeOK /\ s[1] \in Tabs /\ s[2] \in Places /\ s = <<s[1], s[2]>>
  BY SlotParts DEF SessionInv, Places
<1>1. NoRequest.step = "none" /\ \A op, token : Request(op, token, "sent").step = "sent"
  BY DEF NoRequest, Request
<1>2. CASE SendLogin(t) \/ SendRefresh(t) \/ Logout(t)
  <2>1. PICK op \in Operations : \E token : Send(t, op, token)
    BY <1>2 DEF SendLogin, SendRefresh, Logout, Operations
  <2>2. CASE s = <<t, op>>
    BY <1>0, <1>1, <2>1, <2>2, Sent
  <2>3. CASE s # <<t, op>>
    BY <1>0, <2>1, <2>3, Sent, ZenonT(30)
  <2> QED BY <2>2, <2>3
<1>3. CASE LoggedIn(t) \/ Refreshed(t) \/ RefreshRefused(t) \/ LogoutDone(t) \/ Unheard(t)
           \/ \E op \in Operations : Lost(t, op)
  <2>1. PICK op \in Places : Done(<<t, op>>)
    BY <1>3 DEF LoggedIn, Refreshed, RefreshRefused, LogoutDone, Unheard, Lost, Operations, Places
  <2> QED BY <1>0, <1>1, <2>1, SlotOf, Taken DEF Places
<1>4. CASE NothingToRefresh(t)
  BY <1>4 DEF NothingToRefresh, server
<1>5. CASE Reload(t)
  <2>1. Abandon(t)
    BY <1>5 DEF Reload
  <2>2. CASE s[1] # t
    BY <1>0, <2>1, <2>2, Abandoned
  <2>3. CASE s[1] = t
    <3>1. s = <<t, s[2]>>
      BY <1>0, <2>3
    <3>2. s[2] \in Operations => req'[s].step = "none"
      BY <1>0, <1>1, <2>1, <3>1, AbandonSets
    <3>3. CASE s[2] = "gone"
      <4>1. s = <<t, "gone">>
        BY <3>1, <3>3
      <4>2. CASE req'[s] = NoRequest
        BY <1>1, <4>2
      <4>3. CASE req'[s] # NoRequest
        <5>1. req'[s] = req[<<t, "refresh">>]
          BY <1>0, <2>1, <4>1, <4>3, AbandonSets
        <5>2. root[req[<<t, "refresh">>].token] \in orphaned'
          BY <1>0, <2>1, <4>3, <5>1, AbandonSets DEF Has
        <5> QED BY <5>1, <5>2
      <4> QED BY <4>2, <4>3
    <3> QED BY <1>0, <3>2, <3>3 DEF Places
  <2> QED BY <2>2, <2>3
<1> QED BY <1>2, <1>3, <1>4, <1>5 DEF Client

\* The rows stay, so the properties that speak of them do; so do the other tabs.
LEMMA ClientRows ==
  ASSUME Alone, AloneInv, SessionInv', NEW t \in Tabs,
         Client(t) \/ \E op \in Operations : Lost(t, op)
  PROVE  /\ TabsApart' /\ RotatesTheLive' /\ OneLivePerLogin' /\ ReuseOnlyOfEnded'
         /\ \A u \in Tabs \ {t} : TabInv(u)'
<1>0. /\ SessionInv
      /\ UNCHANGED <<issued, status, root>> /\ ended \subseteq ended' /\ orphaned \subseteq orphaned'
      /\ \A u \in Tabs \ {t} :
           /\ \A op \in Places : req'[<<u, op>>] = req[<<u, op>>]
           /\ session'[u] = session[u] /\ store'[BrowserOf[u]] = store[BrowserOf[u]]
      /\ Held(t)' \subseteq Held(t) \cup {NoToken}
  BY ClientMoves DEF AloneInv
<1>1. \A u \in Tabs : Held(u)' \subseteq Held(u) \cup {NoToken}
  <2>1. ASSUME NEW u \in Tabs \ {t} PROVE Held(u)' \subseteq Held(u) \cup {NoToken}
    BY <1>0 DEF Held, Has
  <2> QED BY <1>0, <2>1
<1>2. TabsApart'
  BY <1>0, <1>1 DEF AloneInv, TabsApart, Related
<1>3. Live' = Live
  BY <1>0 DEF Live
<1>4. OneLivePerLogin'
  BY <1>0, <1>3 DEF AloneInv, OneLivePerLogin
<1>5. RotatesTheLive'
  BY <1>0, <1>3, ClientRequests DEF AloneInv, RotatesTheLive
<1>6. ReuseOnlyOfEnded'
  BY <1>0, ClientRequests DEF AloneInv, ReuseOnlyOfEnded
<1>7. \A u \in Tabs \ {t} : TabInv(u)'
  BY <1>0, SameTab DEF AloneInv
<1> QED BY <1>2, <1>4, <1>5, <1>6, <1>7

\* The tab of the step, from what its requests and its two copies have become.
LEMMA MovedTab ==
  ASSUME SessionInv, NEW t \in Tabs, TabInv(t), UNCHANGED <<status, root>>,
         ended \subseteq ended', orphaned \subseteq orphaned',
         \* at most one request changes, and it is no answer
         NEW op \in Operations \cup {"gone"}, NEW r,
         Sets(t, op, r), r.step # "ok",
         op = "login" => r.token = NoToken,
         op = "gone" => r.token = NoToken,
         op = "logout" => r.token \in {NoToken, session[t]} \cap (ended' \cup {NoToken}),
         op = "refresh" => \/ r.token = NoToken
                           \/ r.token = store[BrowserOf[t]] /\ req[<<t, "refresh">>].step # "ok",
         \* the copies stay, are dropped, or become the token of an answer
         \/ session'[t] = session[t] /\ store'[BrowserOf[t]] = store[BrowserOf[t]] /\
             (op = "refresh" => req[<<t, "refresh">>].step # "ok")
         \/ session'[t] = NoToken /\ store'[BrowserOf[t]] = NoToken
         \/ /\ op \in {"login", "refresh"} /\ req[<<t, op>>].step = "ok"
            /\ r.token = NoToken
            /\ session'[t] = Has(t, op) /\ store'[BrowserOf[t]] = Has(t, op)
  PROVE  TabInv(t)'
<1>1. \A o \in Places : Has(t, o)' = IF o = op THEN r.token ELSE Has(t, o)
  BY DEF Has, Sets
<1>2. req'[<<t, "refresh">>].step = "ok" =>
        op # "refresh" /\ req[<<t, "refresh">>].step = "ok"
  BY DEF Sets, Places, Operations
<1>3. \A k : Spent(k)' => Spent(k) /\ k \notin ended'
  BY DEF Spent
<1>4. ~ Spent(NoToken)
  BY DEF Spent, NoToken, Tokens
<1>5. \A o \in {"login", "refresh"} : req[<<t, o>>].step = "ok" => Has(t, o) # NoToken
  <2>1. SUFFICES ASSUME NEW o \in {"login", "refresh"}, req[<<t, o>>].step = "ok"
                 PROVE  Has(t, o) # NoToken
    OBVIOUS
  <2>2. <<t, o>> \in Slots
    BY SlotOf DEF Operations
  <2>3. WellFormed(<<t, o>>)
    BY <2>2 DEF SessionInv, Known
  <2> QED BY <2>1, <2>3 DEF WellFormed, Has, NoRequest, Request, NoToken, SessionInv, TypeOK,
      ServerTypeOK
<1>6. LoginFresh(t)'
  BY <1>1, <1>5 DEF TabInv, LoginFresh, Related, Operations, Places
<1>7. AnswerFresh(t)'
  BY <1>1, <1>2, <1>5 DEF TabInv, AnswerFresh, LoginFresh, Related, Operations, Places
<1>8. GoneOrphaned(t)'
  BY <1>1 DEF TabInv, GoneOrphaned, Operations, Places
<1>9. LogoutEnded(t)'
  BY <1>1 DEF TabInv, LogoutEnded, Operations, Places
<1>10. \A o \in Places : ~ Spent(Has(t, o))'
  BY <1>1, <1>3, <1>4 DEF TabInv, SpentReplaced, Operations, Places
<1>11. \A k \in {session'[t], store'[BrowserOf[t]]} :
         Spent(k)' => req'[<<t, "refresh">>].step = "ok" /\ root'[Has(t, "refresh")'] = root'[k]
  BY <1>1, <1>3, <1>4, ZenonT(30) DEF TabInv, SpentReplaced, Operations, Places, Sets
<1> QED BY <1>6, <1>7, <1>8, <1>9, <1>10, <1>11 DEF TabInv, SpentReplaced

\* A step of a tab keeps what is known of that tab.
LEMMA ClientTab ==
  ASSUME Alone, AloneInv, NEW t \in Tabs, Client(t) \/ \E op \in Operations : Lost(t, op)
  PROVE  TabInv(t)'
<1>0. /\ SessionInv /\ TypeOK /\ TabInv(t)
      /\ UNCHANGED <<status, root>> /\ ended \subseteq ended' /\ orphaned \subseteq orphaned'
  BY ClientMoves DEF AloneInv, SessionInv
<1>1. NoRequest.token = NoToken /\ NoRequest.step = "none"
  BY DEF NoRequest, Request
<1>2. \A op, token : Request(op, token, "sent").token = token /\ Request(op, token, "sent").step = "sent"
  BY DEF Request
<1>3. {"login", "refresh", "logout"} = Operations
  BY DEF Operations
<1>4. CASE SendLogin(t)
  <2>1. Sets(t, "login", Request("login", NoToken, "sent"))
    BY <1>0, <1>3, <1>4, SendSets DEF SendLogin
  <2> QED BY <1>0, <1>2, <1>3, <1>4, <2>1, MovedTab DEF SendLogin
<1>5. CASE SendRefresh(t)
  <2>1. /\ Sets(t, "refresh", Request("refresh", store[BrowserOf[t]], "sent"))
        /\ req[<<t, "refresh">>].step # "ok"
    BY <1>0, <1>1, <1>3, <1>5, SendSets DEF SendRefresh
  <2> QED BY <1>0, <1>2, <1>3, <1>5, <2>1, MovedTab DEF SendRefresh
<1>6. CASE Logout(t)
  <2>1. Sets(t, "logout", Request("logout", session[t], "sent"))
    BY <1>0, <1>3, <1>6, SendSets DEF Logout
  <2>2. session'[t] = NoToken /\ store'[BrowserOf[t]] = NoToken /\ session[t] \in ended'
    BY <1>0, <1>6, KeepSets DEF Logout
  <2> DEFINE r == Request("logout", session[t], "sent")
  <2>3. r.step # "ok" /\ r.token \in {NoToken, session[t]} \cap (ended' \cup {NoToken})
    BY <1>2, <2>2
  <2>4. Sets(t, "logout", r) /\ "logout" \in Operations \cup {"gone"}
    BY <1>3, <2>1
  <2> HIDE DEF r
  <2> QED BY <1>0, <2>2, <2>3, <2>4, MovedTab
<1>7. CASE NothingToRefresh(t)
  <2>1. Sets(t, "refresh", NoRequest)
    BY <1>7 DEF NothingToRefresh, Free, server, Sets
  <2>2. session'[t] = NoToken /\ store'[BrowserOf[t]] = NoToken
    BY <1>0, <1>7, KeepSets DEF NothingToRefresh
  <2> QED BY <1>0, <1>1, <1>3, <2>1, <2>2, MovedTab
<1>8. ASSUME NEW op \in {"login", "refresh"}, Done(<<t, op>>), req[<<t, op>>].step = "ok",
             Keep(t, req[<<t, op>>].token)
      PROVE  TabInv(t)'
  <2>1. Sets(t, op, NoRequest)
    BY <1>0, <1>3, <1>8, DoneSets DEF Places
  <2>2. session'[t] = Has(t, op) /\ store'[BrowserOf[t]] = Has(t, op)
    BY <1>0, <1>8, KeepSets DEF Has
  <2> QED BY <1>0, <1>1, <1>3, <1>8, <2>1, <2>2, MovedTab
<1>9. ASSUME NEW op \in Places, Done(<<t, op>>),
             Keep(t, NoToken) \/ (op # "refresh" /\ UNCHANGED <<store, session>>)
      PROVE  TabInv(t)'
  <2>1. Sets(t, op, NoRequest) /\ op \in Operations \cup {"gone"}
    BY <1>0, <1>9, DoneSets DEF Places
  <2>2. CASE Keep(t, NoToken)
    <3>1. session'[t] = NoToken /\ store'[BrowserOf[t]] = NoToken
      BY <1>0, <2>2, KeepSets
    <3> QED BY <1>0, <1>1, <2>1, <3>1, MovedTab
  <2>3. CASE op # "refresh" /\ UNCHANGED <<store, session>>
    BY <1>0, <1>1, <2>1, <2>3, MovedTab
  <2> QED BY <1>9, <2>2, <2>3
<1>10. CASE LoggedIn(t) \/ Refreshed(t)
  BY <1>8, <1>10 DEF LoggedIn, Refreshed
<1>11. CASE RefreshRefused(t) \/ LogoutDone(t) \/ Unheard(t) \/ \E op \in Operations : Lost(t, op)
  BY <1>9, <1>11 DEF RefreshRefused, LogoutDone, Unheard, Lost, Places, Operations
<1>12. CASE Reload(t)
  <2>1. /\ \A op \in Operations : req'[<<t, op>>] = NoRequest
        /\ \/ Has(t, "gone")' = NoToken
           \/ /\ Has(t, "gone")' = Has(t, "refresh")
              /\ root[Has(t, "refresh")] \in orphaned' \/ Has(t, "refresh") = NoToken
    BY <1>0, <1>1, <1>12, AbandonSets DEF Reload, Has
  <2>2. \A op \in Operations : Has(t, op)' = NoToken
    BY <1>1, <2>1 DEF Has
  <2>3. session'[t] = store[BrowserOf[t]] /\ store' = store
    BY <1>0, <1>12 DEF Reload, TypeOK
  <2>4. req[<<t, "refresh">>].step = "ok" => root[Has(t, "refresh")] \in orphaned'
    BY <1>0, <1>1, <1>12, AbandonSets DEF Reload
  <2>5. \A k : Spent(k)' => Spent(k) /\ root[k] \notin orphaned'
    BY <1>0 DEF Spent
  <2>6. LoginFresh(t)' /\ AnswerFresh(t)' /\ LogoutEnded(t)'
    BY <1>1, <1>3, <2>1, <2>2 DEF LoginFresh, AnswerFresh, LogoutEnded, Related
  <2>7. GoneOrphaned(t)'
    BY <1>0, <2>1 DEF GoneOrphaned
  <2>8. SpentReplaced(t)'
    <3>1. ~ Spent(NoToken)
      BY DEF Spent, NoToken, Tokens
    <3>2. \A op \in Places : ~ Spent(Has(t, op))'
      BY <1>0, <2>1, <2>2, <2>5, <3>1 DEF TabInv, SpentReplaced, Places, Operations
    <3>3. \A k : k = store[BrowserOf[t]] => ~ Spent(k)'
      BY <1>0, <2>4, <2>5 DEF TabInv, SpentReplaced
    <3> QED BY <2>3, <3>2, <3>3 DEF SpentReplaced
  <2> QED BY <2>6, <2>7, <2>8 DEF TabInv
<1> QED BY <1>4, <1>5, <1>6, <1>7, <1>10, <1>11, <1>12 DEF Client

-----------------------------------------------------------------------------
(* The steps of the server *)

\* Every token a tab has was issued, or is none.
LEMMA HeldKnown ==
  ASSUME SessionInv, NEW t \in Tabs
  PROVE  Held(t) \subseteq 0..issued /\ issued \in Nat
<1>1. TypeOK /\ Known /\ issued \in Nat /\ BrowserOf[t] \in Browsers
  BY BrowserOfAssumption DEF SessionInv, TypeOK, ServerTypeOK
<1>2. ASSUME NEW op \in Places PROVE Has(t, op) \in 0..issued
  <2>1. <<t, op>> \in Slots
    BY SlotOf DEF Places
  <2>2. WellFormed(<<t, op>>)
    BY <1>1, <2>1 DEF Known
  <2> QED BY <1>1, <2>2 DEF WellFormed, Has, NoRequest, Request, NoToken
<1>3. session[t] \in 0..issued /\ store[BrowserOf[t]] \in 0..issued
  BY <1>1 DEF Known
<1> QED BY <1>1, <1>2, <1>3 DEF Held

\* A step that issues nothing and retires only what has ended.
LEMMA NothingIssued ==
  ASSUME AloneInv, UNCHANGED <<issued, root, store, session, orphaned>>, ended \subseteq ended',
         \A t \in Tabs, op \in Places : Has(t, op)' = Has(t, op),
         \A t \in Tabs : req'[<<t, "refresh">>].step = "ok" <=> req[<<t, "refresh">>].step = "ok",
         \A k \in Tokens : status'[k] = "revoked" => status[k] = "revoked" \/ k \in ended',
         Live' \subseteq Live
  PROVE  TabsApart' /\ OneLivePerLogin' /\ \A t \in Tabs : TabInv(t)'
<1>1. \A t \in Tabs : Held(t)' = Held(t)
  BY DEF Held
<1>2. TabsApart'
  BY <1>1 DEF AloneInv, TabsApart, Related
<1>3. OneLivePerLogin'
  BY DEF AloneInv, OneLivePerLogin
<1>4. \A k : Spent(k)' => Spent(k)
  BY DEF Spent
<1>5. ASSUME NEW t \in Tabs PROVE TabInv(t)'
  <2>1. TabInv(t) /\ \A op \in Places : Has(t, op)' = Has(t, op)
    BY DEF AloneInv
  <2>2. {"login", "refresh", "logout", "gone"} = Places
    BY DEF Places, Operations
  <2>3. LoginFresh(t)' /\ GoneOrphaned(t)' /\ LogoutEnded(t)'
    BY <2>1, <2>2 DEF TabInv, LoginFresh, GoneOrphaned, LogoutEnded, Related
  <2>4. AnswerFresh(t)'
    BY <2>1, <2>2 DEF TabInv, AnswerFresh
  <2>5. SpentReplaced(t)'
    BY <1>4, <2>1, <2>2 DEF TabInv, SpentReplaced
  <2> QED BY <2>3, <2>4, <2>5 DEF TabInv
<1> QED BY <1>2, <1>3, <1>5

\* A slot whose step changes and whose token stays.
LEMMA GoesSlot ==
  ASSUME TypeOK, NEW s \in Slots, NEW step, Goes(s, step)
  PROVE  /\ req'[s].step = step /\ req'[s].token = req[s].token
         /\ \A x \in Slots \ {s} : req'[x] = req[x]
         /\ \A t \in Tabs, op \in Places : Has(t, op)' = Has(t, op)
<1>1. req \in [Slots -> Requests] /\ req[s] \in Requests
  BY DEF TypeOK, ServerTypeOK
<1>2. req' = [req EXCEPT ![s] = [req[s] EXCEPT !.step = step]]
  BY DEF Goes
<1>3. req'[s] = [req[s] EXCEPT !.step = step] /\ \A x \in Slots \ {s} : req'[x] = req[x]
  BY <1>1, <1>2
<1>4. req'[s].step = step /\ req'[s].token = req[s].token
  BY <1>1, <1>3 DEF Requests
<1>5. \A x \in Slots : req'[x].token = req[x].token
  BY <1>3, <1>4
<1>6. \A t \in Tabs, op \in Places : <<t, op>> \in Slots
  BY SlotOf DEF Places
<1> QED BY <1>3, <1>4, <1>5, <1>6 DEF Has

\* The look-up decides: what it finds live is the only one of its login, what it finds
\* retired has ended.
LEMMA LookupAlone ==
  ASSUME AloneInv, SessionInv', NEW s \in Slots, Server(s), Lookup(s)
  PROVE  AloneInv'
<1>0. SessionInv /\ TypeOK
  BY DEF AloneInv, SessionInv
<1> DEFINE token == req[s].token
<1>1. PICK step \in {"rotate", "revokeAll", "refused"} :
        /\ Goes(s, step)
        /\ step = "rotate" => status[token] = "live"
        /\ step = "revokeAll" => status[token] = "revoked"
  BY DEF Lookup
<1>2. UNCHANGED <<issued, status, root, ended, store, session, orphaned>> /\ req[s].step = "sent"
  BY DEF Lookup, Server
<1>3. token \in 1..issued /\ token \in Tokens
  <2>1. WellFormed(s)
    BY <1>0 DEF SessionInv, Known
  <2>2. token \in 1..issued
    BY <2>1 DEF Lookup, WellFormed, NoRequest, Request
  <2> QED BY <1>0, <2>2, MaxTokensAssumption DEF TypeOK, ServerTypeOK, Tokens
<1>4. /\ req'[s].step = step /\ req'[s].token = token /\ \A x \in Slots \ {s} : req'[x] = req[x]
      /\ \A t \in Tabs, op \in Places : Has(t, op)' = Has(t, op)
  BY <1>0, <1>1, GoesSlot
<1>5. s[1] \in Tabs /\ s[2] \in Places /\ s = <<s[1], s[2]>>
  BY SlotParts DEF Places
<1>6. ~ Spent(token)
  <2>1. token = Has(s[1], s[2])
    BY <1>5 DEF Has
  <2> QED BY <1>5, <2>1 DEF AloneInv, TabInv, SpentReplaced
<1> HIDE DEF token
<1>7. \A t \in Tabs : req'[<<t, "refresh">>].step = "ok" <=> req[<<t, "refresh">>].step = "ok"
  <2>1. \A t \in Tabs : <<t, "refresh">> \in Slots
    BY SlotOf DEF Operations
  <2> QED BY <1>2, <1>4, <2>1
<1>8. Live' = Live
  BY <1>2 DEF Live
<1>9. TabsApart' /\ OneLivePerLogin' /\ \A t \in Tabs : TabInv(t)'
  BY <1>2, <1>4, <1>7, <1>8, NothingIssued
<1>10. RotatesTheLive'
  <2>1. step = "rotate" /\ root[token] \notin orphaned => \A j \in Live : root[j] = root[token] => j = token
    BY <1>1, <1>3 DEF AloneInv, OneLivePerLogin, Live
  <2> QED BY <1>2, <1>4, <1>8, <2>1 DEF AloneInv, RotatesTheLive
<1>11. ReuseOnlyOfEnded'
  <2>1. step = "revokeAll" => token \in ended \/ root[token] \in orphaned
    BY <1>1, <1>3, <1>6 DEF Spent
  <2> QED BY <1>2, <1>4, <2>1 DEF AloneInv, ReuseOnlyOfEnded
<1> QED BY <1>9, <1>10, <1>11 DEF AloneInv

\* The theft alarm ends every token there is; a logout retires one that has ended.
LEMMA RetireAlone ==
  ASSUME AloneInv, SessionInv', NEW s \in Slots, Server(s), RevokeAll(s) \/ Retire(s)
  PROVE  AloneInv'
<1>0. SessionInv /\ TypeOK
  BY DEF AloneInv, SessionInv
<1>1. PICK step \in {"refused", "ok"} : Goes(s, step) /\ (step = "ok" => req[s].op = "logout")
  BY DEF RevokeAll, Retire
<1>2. UNCHANGED <<issued, root, store, session, orphaned>> /\ ended \subseteq ended'
  BY DEF RevokeAll, Retire, Server
<1>3. /\ req'[s].step = step /\ req'[s].token = req[s].token /\ \A x \in Slots \ {s} : req'[x] = req[x]
      /\ \A t \in Tabs, op \in Places : Has(t, op)' = Has(t, op)
  BY <1>0, <1>1, GoesSlot
<1>4. s[1] \in Tabs /\ s[2] \in Places /\ s = <<s[1], s[2]>>
  BY SlotParts DEF Places
<1>5. WellFormed(s)
  BY <1>0 DEF SessionInv, Known
<1>6. \A t \in Tabs : req'[<<t, "refresh">>].step = "ok" <=> req[<<t, "refresh">>].step = "ok"
  <2>1. \A t \in Tabs : <<t, "refresh">> \in Slots /\ <<t, "refresh">>[2] = "refresh"
    BY SlotOf DEF Operations
  <2>2. s[2] = "refresh" => step # "ok"
    BY <1>1, <1>5 DEF WellFormed, NoRequest, Request
  <2>3. req[s].step # "ok"
    BY DEF RevokeAll, Retire
  <2> QED BY <1>3, <2>1, <2>2, <2>3
<1>7. \A k \in Tokens : status'[k] = "revoked" => status[k] = "revoked" \/ k \in ended'
  <2>1. CASE RevokeAll(s)
    BY <2>1 DEF RevokeAll, Server, Issued
  <2>2. CASE Retire(s)
    <3>1. s[2] = "logout" /\ req[s].token # NoToken
      BY <1>0, <1>5, <2>2 DEF Retire, WellFormed, NoRequest, Request, NoToken, SessionInv,
          TypeOK, ServerTypeOK
    <3>2. req[s].token = Has(s[1], "logout")
      BY <1>4, <3>1 DEF Has
    <3>3. req[s].token \in ended
      BY <1>4, <3>1, <3>2 DEF AloneInv, TabInv, LogoutEnded
    <3> QED BY <1>0, <1>2, <2>2, <3>3 DEF Retire, TypeOK, ServerTypeOK
  <2> QED BY <2>1, <2>2
<1>8. Live' \subseteq Live
  BY <1>0 DEF RevokeAll, Retire, Live, TypeOK, ServerTypeOK
<1>9. TabsApart' /\ OneLivePerLogin' /\ \A t \in Tabs : TabInv(t)'
  BY <1>2, <1>3, <1>6, <1>7, <1>8, NothingIssued
<1>10. RotatesTheLive' /\ ReuseOnlyOfEnded'
  BY <1>2, <1>3, <1>8 DEF AloneInv, RotatesTheLive, ReuseOnlyOfEnded
<1> QED BY <1>9, <1>10 DEF AloneInv

\* A token that expires keeps what is known of every tab.
LEMMA LapseAlone ==
  ASSUME AloneInv, SessionInv', NEW k \in Tokens, Lapse(k), UNCHANGED <<store, session, history>>
  PROVE  AloneInv'
<1>1. UNCHANGED <<issued, root, req, store, session, ended, orphaned>>
  BY DEF Lapse, history
<1>2. Live' \subseteq Live /\ \A j \in Tokens : status'[j] = "revoked" => status[j] = "revoked"
  BY DEF Lapse, Live, AloneInv, SessionInv, TypeOK, ServerTypeOK
<1>3. \A t \in Tabs, op \in Places : Has(t, op)' = Has(t, op)
  BY <1>1 DEF Has
<1>4. TabsApart' /\ OneLivePerLogin' /\ \A t \in Tabs : TabInv(t)'
  BY <1>1, <1>2, <1>3, NothingIssued
<1>5. RotatesTheLive' /\ ReuseOnlyOfEnded'
  BY <1>1, <1>2 DEF AloneInv, RotatesTheLive, ReuseOnlyOfEnded
<1> QED BY <1>4, <1>5 DEF AloneInv

\* What issuing does to the rows and to the requests: the token is new, so whoever has
\* another token finds its row as it was, the rotated one apart.
LEMMA Issues ==
  ASSUME SessionInv, NEW s \in Slots, Server(s), Login(s) \/ Rotate(s)
  PROVE  \E from \in 1..issued + 1 :
           /\ from = IF req[s].op = "login" THEN issued + 1 ELSE req[s].token
           /\ req[s].op # "login" => req[s].token \in 1..issued /\ req[s].step = "rotate"
           /\ issued' = issued + 1 /\ issued \in Nat /\ issued + 1 \in Tokens
           /\ \A k \in 1..issued :
                /\ k \in Tokens /\ root'[k] = root[k] /\ root[k] \in 1..k
                /\ status'[k] = IF k = from THEN "revoked" ELSE status[k]
           /\ root'[issued + 1] = IF from = issued + 1 THEN from ELSE root[from]
           /\ status'[issued + 1] = "live"
           /\ req'[s].token = issued + 1 /\ req'[s].step = "ok"
           /\ \A x \in Slots \ {s} : req'[x] = req[x]
           /\ UNCHANGED <<store, session, ended, orphaned>>
<1>0. TypeOK /\ Known /\ Bound /\ WellFormed(s) /\ issued \in Nat
  BY DEF SessionInv, TypeOK, ServerTypeOK, Known
<1>1. MayIssue(s)
  BY DEF Login, Rotate, MayIssue
<1>2. issued + 1 \in Tokens
  BY <1>0, <1>1, TokenLeft
<1>3. req[s].op # "login" => req[s].token \in 1..issued /\ req[s].step = "rotate"
  BY <1>0 DEF Login, Rotate, WellFormed, NoRequest, Request
<1>4. PICK from \in 1..issued + 1 :
        Issue(s, from) /\ from = IF req[s].op = "login" THEN issued + 1 ELSE req[s].token
  <2>1. CASE Login(s)
    BY <1>0, <2>1 DEF Login
  <2>2. CASE Rotate(s)
    <3>1. req[s].op # "login"
      BY <1>0, <2>2 DEF Rotate, WellFormed, NoRequest, Request
    <3> QED BY <1>0, <1>3, <2>2, <3>1 DEF Rotate
  <2> QED BY <2>1, <2>2
<1>5. \A k \in 1..issued : k \in Tokens /\ k # issued + 1 /\ root[k] \in 1..k
  BY <1>0, MaxTokensAssumption DEF Known, TypeOK, ServerTypeOK, Tokens
<1>6. status \in [Tokens -> Statuses] /\ root \in [Tokens -> 0..MaxTokens]
  BY <1>0 DEF TypeOK, ServerTypeOK
<1>7. \A k \in 1..issued :
        root'[k] = root[k] /\ status'[k] = IF k = from THEN "revoked" ELSE status[k]
  BY <1>4, <1>5, <1>6 DEF Issue
<1>8. root'[issued + 1] = IF from = issued + 1 THEN from ELSE root[from]
  BY <1>2, <1>4, <1>6 DEF Issue
<1>9. status'[issued + 1] = "live"
  BY <1>2, <1>4, <1>6 DEF Issue
<1>10. req'[s].token = issued + 1 /\ req'[s].step = "ok" /\ \A x \in Slots \ {s} : req'[x] = req[x]
  BY <1>0, <1>4 DEF Issue, TypeOK, ServerTypeOK, Requests
<1>11. UNCHANGED <<store, session, ended, orphaned>>
  BY DEF Server, Login, Rotate
<1> QED BY <1>0, <1>2, <1>3, <1>4, <1>5, <1>7, <1>8, <1>9, <1>10, <1>11 DEF Issue

\* What the tabs have afterwards, and how the tokens are related: the new one, n, to those
\* its predecessor was related to, to none if it has no predecessor.
LEMMA IssuedTokens ==
  ASSUME AloneInv, SessionInv', NEW s \in Slots, NEW n \in Tokens, NEW from \in 1..n,
         issued \in Nat, n = issued + 1, issued' = n,
         \A k \in 1..issued :
           /\ k \in Tokens /\ root'[k] = root[k] /\ root[k] \in 1..k
           /\ status'[k] = IF k = from THEN "revoked" ELSE status[k],
         root'[n] = IF from = n THEN from ELSE root[from], status'[n] = "live",
         req'[s].token = n, \A x \in Slots \ {s} : req'[x] = req[x],
         UNCHANGED <<store, session, ended, orphaned>>
  PROVE  /\ \A t \in Tabs, op \in Places : Has(t, op)' = IF <<t, op>> = s THEN n ELSE Has(t, op)
         /\ \A j, k \in 0..issued : Related(j, k)' <=> Related(j, k)
         /\ \A k \in 0..issued :
              /\ Related(n, k)' <=> from # n /\ Related(from, k)
              /\ Related(k, n)' <=> from # n /\ Related(k, from)
         /\ ~ Spent(n)'
         /\ \A k \in 0..issued : Spent(k)' =>
              Spent(k) \/ (k = from /\ k \notin ended /\ root[k] \notin orphaned)
         /\ \A k \in Live' : k = n \/ (k \in Live \ {from} /\ k \in 1..issued)
         /\ \A k \in Live : k \in 1..issued
<1>1. \A t \in Tabs, op \in Places : <<t, op>> \in Slots
  BY SlotOf DEF Places
<1>2. \A t \in Tabs, op \in Places : Has(t, op)' = IF <<t, op>> = s THEN n ELSE Has(t, op)
  BY <1>1 DEF Has
<1>3. \A j, k \in 0..issued : Related(j, k)' <=> Related(j, k)
  BY DEF Related, NoToken
<1>4. \A k \in 0..issued :
        /\ Related(n, k)' <=> from # n /\ Related(from, k)
        /\ Related(k, n)' <=> from # n /\ Related(k, from)
  BY DEF Related, NoToken
<1>5. ~ Spent(n)'
  BY DEF Spent
<1>6. \A k \in 0..issued : Spent(k)' =>
        Spent(k) \/ (k = from /\ k \notin ended /\ root[k] \notin orphaned)
  <2> SUFFICES ASSUME NEW k \in 0..issued, Spent(k)'
               PROVE  Spent(k) \/ (k = from /\ k \notin ended /\ root[k] \notin orphaned)
    OBVIOUS
  <2>1. k \in 1..issued
    BY DEF Spent, Tokens
  <2> QED BY <2>1 DEF Spent
<1>7. \A k \in Live : k \in 1..issued
  BY DEF Live, AloneInv, SessionInv, TypeOK, ServerTypeOK, Tokens
<1>8. \A k \in Live' : k = n \/ (k \in Live \ {from} /\ k \in 1..issued)
  <2> SUFFICES ASSUME NEW k \in Live', k # n PROVE k \in Live \ {from} /\ k \in 1..issued
    OBVIOUS
  <2>1. k \in Tokens /\ status'[k] = "live"
    BY DEF Live
  <2>2. k \in 1..issued
    BY <2>1 DEF SessionInv, TypeOK, ServerTypeOK, Tokens
  <2> QED BY <2>1, <2>2 DEF Live
<1> QED BY <1>2, <1>3, <1>4, <1>5, <1>6, <1>7, <1>8

\* A request that is to rotate a token, or was found to present a retired one, names one.
LEMMA RequestKnown ==
  ASSUME SessionInv, NEW s \in Slots, req[s].step \in {"rotate", "revokeAll"}
  PROVE  req[s].token \in 1..issued
<1>1. WellFormed(s)
  BY DEF SessionInv, Known
<1> QED BY <1>1 DEF WellFormed, NoRequest, Request

\* A login starts a family of its own.
LEMMA LoginAlone ==
  ASSUME AloneInv, SessionInv', NEW s \in Slots, Server(s), Login(s)
  PROVE  AloneInv'
<1>0. SessionInv /\ TypeOK /\ WellFormed(s) /\ req[s].op = "login"
  BY DEF AloneInv, SessionInv, Known, Login
<1>1. s[1] \in Tabs /\ s = <<s[1], "login">>
  BY <1>0, SlotParts DEF WellFormed, NoRequest, Request
<1>2. PICK t \in Tabs : s = <<t, "login">>
  BY <1>1
<1>3. PICK n : n = issued + 1
  OBVIOUS
<1>4. /\ n \in Tokens /\ n \in 1..n /\ issued \in Nat /\ issued' = n /\ NoToken \in 0..issued
      /\ \A k \in 1..issued :
           /\ k \in Tokens /\ root'[k] = root[k] /\ root[k] \in 1..k
           /\ status'[k] = IF k = n THEN "revoked" ELSE status[k]
      /\ root'[n] = n /\ status'[n] = "live"
      /\ req'[s].token = n /\ req'[s].step = "ok" /\ \A x \in Slots \ {s} : req'[x] = req[x]
      /\ UNCHANGED <<store, session, ended, orphaned>>
  BY <1>0, <1>3, Issues DEF NoToken
<1>5. /\ \A u \in Tabs, op \in Places : Has(u, op)' = IF <<u, op>> = s THEN n ELSE Has(u, op)
      /\ \A j, k \in 0..issued : Related(j, k)' <=> Related(j, k)
      /\ \A k \in 0..issued : ~ Related(n, k)' /\ ~ Related(k, n)'
      /\ ~ Spent(n)' /\ \A k \in 0..issued : Spent(k)' => Spent(k)
      /\ \A k \in Live' : k = n \/ (k \in Live /\ k \in 1..issued)
  BY <1>3, <1>4, IssuedTokens
<1>6. \A u \in Tabs : Held(u) \subseteq 0..issued
  BY <1>0, HeldKnown
<1>7. \A u \in Tabs : \A k \in Held(u)' : (k = n /\ u = t) \/ k \in Held(u)
  BY <1>2, <1>4, <1>5 DEF Held
<1>8. TabsApart'
  BY <1>5, <1>6, <1>7 DEF AloneInv, TabsApart
<1>9. OneLivePerLogin'
  BY <1>3, <1>4, <1>5 DEF AloneInv, OneLivePerLogin
<1>10. RotatesTheLive'
  <2> SUFFICES ASSUME NEW x \in Slots, req'[x].step = "rotate",
                      root'[req'[x].token] \notin orphaned',
                      NEW j \in Live', root'[j] = root'[req'[x].token]
               PROVE  j = req'[x].token
    BY DEF RotatesTheLive
  <2>1. req'[x] = req[x] /\ req[x].token \in 1..issued
    BY <1>0, <1>4, RequestKnown
  <2>2. root[req[x].token] \in 1..issued /\ root'[req[x].token] = root[req[x].token]
    BY <1>4, <2>1
  <2>3. j # n
    BY <1>3, <1>4, <2>1, <2>2
  <2> QED BY <1>4, <1>5, <2>1, <2>2, <2>3 DEF AloneInv, RotatesTheLive
<1>11. ReuseOnlyOfEnded'
  <2> SUFFICES ASSUME NEW x \in Slots, req'[x].step = "revokeAll"
               PROVE  req'[x].token \in ended' \/ root'[req'[x].token] \in orphaned'
    BY DEF ReuseOnlyOfEnded
  <2>1. req'[x] = req[x] /\ req[x].token \in 1..issued
    BY <1>0, <1>4, RequestKnown
  <2> QED BY <1>4, <2>1 DEF AloneInv, ReuseOnlyOfEnded
<1>12. ASSUME NEW u \in Tabs PROVE TabInv(u)'
  <2>1. /\ \A op \in Places : Has(u, op) \in 0..issued
        /\ session[u] \in 0..issued /\ store[BrowserOf[u]] \in 0..issued
    BY <1>6 DEF Held
  <2>2. /\ \A op \in Places : Has(u, op)' = IF u = t /\ op = "login" THEN n ELSE Has(u, op)
        /\ {"login", "refresh", "logout", "gone"} = Places
    BY <1>2, <1>5 DEF Places, Operations
  <2>3. req'[<<u, "refresh">>] = req[<<u, "refresh">>]
    <3>1. <<u, "refresh">> \in Slots /\ <<u, "refresh">> # s
      BY <1>2, SlotOf DEF Operations
    <3> QED BY <1>4, <3>1
  <2>4. TabInv(u)
    BY DEF AloneInv
  <2>5. LoginFresh(u)'
    BY <1>4, <1>5, <2>1, <2>2, <2>4 DEF TabInv, LoginFresh
  <2>6. AnswerFresh(u)'
    BY <1>3, <1>4, <2>1, <2>2, <2>3, <2>4 DEF TabInv, AnswerFresh
  <2>7. GoneOrphaned(u)' /\ LogoutEnded(u)'
    BY <1>4, <2>1, <2>2, <2>4 DEF TabInv, GoneOrphaned, LogoutEnded, NoToken
  <2>8. SpentReplaced(u)'
    <3>1. \A op \in Places : ~ Spent(Has(u, op))'
      BY <1>5, <2>1, <2>2, <2>4 DEF TabInv, SpentReplaced
    <3>2. \A k \in {session'[u], store'[BrowserOf[u]]} :
            Spent(k)' => req'[<<u, "refresh">>].step = "ok" /\ root'[Has(u, "refresh")'] = root'[k]
      <4> SUFFICES ASSUME NEW k \in {session[u], store[BrowserOf[u]]}, Spent(k)'
                   PROVE  req'[<<u, "refresh">>].step = "ok" /\ root'[Has(u, "refresh")'] = root'[k]
        BY <1>4
      <4>1. k \in 0..issued /\ Spent(k) /\ k \in 1..issued
        BY <1>5, <2>1 DEF Spent, Tokens
      <4>2. req[<<u, "refresh">>].step = "ok" /\ root[Has(u, "refresh")] = root[k]
        BY <2>4, <4>1 DEF TabInv, SpentReplaced
      <4>3. Has(u, "refresh") \in 1..issued
        <5>1. <<u, "refresh">> \in Slots
          BY SlotOf DEF Operations
        <5>2. WellFormed(<<u, "refresh">>)
          BY <1>0, <5>1 DEF SessionInv, Known
        <5> QED BY <4>2, <5>2 DEF WellFormed, Has, NoRequest, Request
      <4> QED BY <1>4, <2>2, <2>3, <4>1, <4>2, <4>3
    <3> QED BY <3>1, <3>2 DEF SpentReplaced
  <2> QED BY <2>5, <2>6, <2>7, <2>8 DEF TabInv
<1> QED BY <1>8, <1>9, <1>10, <1>11, <1>12 DEF AloneInv

\* A rotation hands the login on: what it retires, no other request has, and what it
\* issues is the only live token of that login.
LEMMA RotateAlone ==
  ASSUME AloneInv, SessionInv', NEW s \in Slots, Server(s), Rotate(s)
  PROVE  AloneInv'
<1>0. SessionInv /\ TypeOK /\ WellFormed(s) /\ req[s].step = "rotate"
  BY DEF AloneInv, SessionInv, Known, Rotate
<1>1. req[s].op # "login" /\ s[1] \in Tabs /\ s = <<s[1], s[2]>> /\ s[2] \in {"refresh", "gone"}
  BY <1>0, SlotParts DEF WellFormed, NoRequest, Request
<1>2. PICK t \in Tabs, place \in {"refresh", "gone"} : s = <<t, place>>
  BY <1>1
<1>3. PICK n : n = issued + 1
  OBVIOUS
<1>4. PICK from : from = req[s].token
  OBVIOUS
<1>5. /\ n \in Tokens /\ from \in 1..n /\ from \in 1..issued /\ issued \in Nat /\ issued' = n
      /\ NoToken \in 0..issued
      /\ \A k \in 1..issued :
           /\ k \in Tokens /\ root'[k] = root[k] /\ root[k] \in 1..k
           /\ status'[k] = IF k = from THEN "revoked" ELSE status[k]
      /\ from # n /\ root'[n] = root[from] /\ status'[n] = "live"
      /\ req'[s].token = n /\ req'[s].step = "ok" /\ \A x \in Slots \ {s} : req'[x] = req[x]
      /\ UNCHANGED <<store, session, ended, orphaned>>
  BY <1>0, <1>1, <1>3, <1>4, Issues DEF NoToken
<1>6. /\ \A u \in Tabs, op \in Places : Has(u, op)' = IF <<u, op>> = s THEN n ELSE Has(u, op)
      /\ \A j, k \in 0..issued : Related(j, k)' <=> Related(j, k)
      /\ \A k \in 0..issued :
           (Related(n, k)' <=> Related(from, k)) /\ (Related(k, n)' <=> Related(k, from))
      /\ ~ Spent(n)'
      /\ \A k \in 0..issued : Spent(k)' =>
           Spent(k) \/ (k = from /\ k \notin ended /\ root[k] \notin orphaned)
      /\ \A k \in Live' : k = n \/ (k \in Live \ {from} /\ k \in 1..issued)
  BY <1>3, <1>5, IssuedTokens
<1>7. \A u \in Tabs : Held(u) \subseteq 0..issued
  BY <1>0, HeldKnown
<1>8. from = Has(t, place) /\ from \in Held(t) /\ from # NoToken
  BY <1>2, <1>4, <1>5 DEF Has, Held, Places, Operations, NoToken
<1>9. \A u \in Tabs : \A k \in Held(u)' : (k = n /\ u = t) \/ k \in Held(u)
  BY <1>2, <1>5, <1>6 DEF Held
<1>10. TabsApart'
  BY <1>6, <1>7, <1>8, <1>9 DEF AloneInv, TabsApart
<1>11. place = "gone" => root[from] \in orphaned
  BY <1>8 DEF AloneInv, TabInv, GoneOrphaned
<1>12. root[from] \notin orphaned => \A j \in Live : root[j] = root[from] => j = from
  BY <1>0, <1>4 DEF AloneInv, RotatesTheLive
<1>13. OneLivePerLogin'
  BY <1>5, <1>6, <1>12 DEF AloneInv, OneLivePerLogin
<1>14. RotatesTheLive'
  <2> SUFFICES ASSUME NEW x \in Slots, req'[x].step = "rotate",
                      root'[req'[x].token] \notin orphaned',
                      NEW j \in Live', root'[j] = root'[req'[x].token]
               PROVE  j = req'[x].token
    BY DEF RotatesTheLive
  <2>1. req'[x] = req[x] /\ req[x].token \in 1..issued /\ x # s
    BY <1>0, <1>5, RequestKnown
  <2>2. root[req[x].token] \notin orphaned /\ root'[req[x].token] = root[req[x].token]
    BY <1>5, <2>1
  <2>3. j # n
    <3> SUFFICES ASSUME root[req[x].token] = root[from] PROVE FALSE
      BY <1>5, <2>1, <2>2
    <3>1. PICK u \in Tabs, op \in Places : x = <<u, op>>
      BY SlotParts DEF Places
    <3>2. req[x].token = Has(u, op) /\ Has(u, op) \in Held(u) /\ Has(u, op) # NoToken
      BY <2>1, <3>1 DEF Has, Held, NoToken
    <3>3. u = t
      BY <1>8, <3>2 DEF AloneInv, TabsApart, Related
    <3>4. WellFormed(x)
      BY <1>0 DEF SessionInv, Known
    <3>5. op \in {"refresh", "gone"}
      <4>1. x[2] = op
        BY <3>1
      <4> QED BY <2>1, <3>4, <4>1 DEF WellFormed, NoRequest, Request
    <3>6. op # "gone"
      BY <2>2, <3>2, <3>3 DEF AloneInv, TabInv, GoneOrphaned
    <3> QED BY <1>2, <1>11, <2>1, <2>2, <3>1, <3>3, <3>5, <3>6
  <2> QED BY <1>5, <1>6, <2>1, <2>2, <2>3 DEF AloneInv, RotatesTheLive
<1>15. ReuseOnlyOfEnded'
  <2> SUFFICES ASSUME NEW x \in Slots, req'[x].step = "revokeAll"
               PROVE  req'[x].token \in ended' \/ root'[req'[x].token] \in orphaned'
    BY DEF ReuseOnlyOfEnded
  <2>1. req'[x] = req[x] /\ req[x].token \in 1..issued
    BY <1>0, <1>5, RequestKnown
  <2> QED BY <1>5, <2>1 DEF AloneInv, ReuseOnlyOfEnded
<1>16. ASSUME NEW u \in Tabs PROVE TabInv(u)'
  <2>1. /\ \A op \in Places : Has(u, op) \in 0..issued
        /\ session[u] \in 0..issued /\ store[BrowserOf[u]] \in 0..issued
    BY <1>7 DEF Held
  <2>2. /\ \A op \in Places : Has(u, op)' = IF u = t /\ op = place THEN n ELSE Has(u, op)
        /\ {"login", "refresh", "logout", "gone"} = Places
    BY <1>2, <1>6 DEF Places, Operations
  <2>3. TabInv(u)
    BY DEF AloneInv
  <2>4. LoginFresh(u)'
    <3>1. \A k \in 0..issued : k # NoToken => k \in 1..issued /\ root'[k] = root[k]
      BY <1>5 DEF NoToken
    <3>2. Has(u, "login")' = Has(u, "login")
      BY <2>2
    <3>3. CASE u # t
      BY <1>5, <2>1, <2>2, <2>3, <3>1, <3>3 DEF TabInv, LoginFresh, Related
    <3>4. CASE u = t
      <4>1. ~ Related(Has(t, "login"), from)
        BY <1>8, <2>3, <3>4 DEF TabInv, LoginFresh, Places, Operations
      <4> QED BY <1>5, <1>8, <2>1, <2>2, <2>3, <3>1, <3>4, <4>1 DEF TabInv, LoginFresh, Related
    <3> QED BY <3>3, <3>4
  <2>5. req'[<<u, "refresh">>] = IF u = t /\ place = "refresh" THEN req'[s] ELSE req[<<u, "refresh">>]
    <3>1. <<u, "refresh">> \in Slots /\ (<<u, "refresh">> = s <=> u = t /\ place = "refresh")
      BY <1>2, SlotOf DEF Operations
    <3> QED BY <1>5, <3>1
  <2>6. AnswerFresh(u)'
    BY <1>3, <1>5, <2>1, <2>2, <2>3, <2>5 DEF TabInv, AnswerFresh
  <2>7. GoneOrphaned(u)'
    <3>1. CASE u = t /\ place = "gone"
      BY <1>5, <1>11, <2>2, <3>1 DEF GoneOrphaned
    <3>2. CASE ~ (u = t /\ place = "gone")
      <4>1. Has(u, "gone")' = Has(u, "gone") /\ Has(u, "gone") \in 0..issued
        BY <2>1, <2>2, <3>2
      <4> QED BY <1>5, <2>3, <4>1 DEF TabInv, GoneOrphaned, NoToken
    <3> QED BY <3>1, <3>2
  <2>8. LogoutEnded(u)'
    BY <1>5, <2>2, <2>3 DEF TabInv, LogoutEnded
  <2>9. from \in Held(u) => u = t
    BY <1>8 DEF AloneInv, TabsApart, Related
  <2>10. \A op \in Places : ~ Spent(Has(u, op))'
    <3> SUFFICES ASSUME NEW op \in Places, NEW k, k = Has(u, op)', Spent(k)' PROVE FALSE
      BY DEF Spent
    <3>1. k = Has(u, op) /\ k \in 0..issued /\ k \in Held(u) /\ ~ (u = t /\ op = place)
      BY <1>6, <2>1, <2>2 DEF Held
    <3>2. k = from /\ k \notin ended /\ root[k] \notin orphaned
      BY <1>6, <2>3, <3>1 DEF TabInv, SpentReplaced
    <3>3. u = t /\ place = "refresh"
      BY <1>11, <2>9, <3>1, <3>2
    <3>4. CASE op = "login"
      BY <1>8, <2>2, <2>3, <3>1, <3>2, <3>3, <3>4 DEF TabInv, LoginFresh, Related
    <3>5. CASE op = "logout"
      BY <1>8, <2>3, <3>1, <3>2, <3>5 DEF TabInv, LogoutEnded
    <3>6. CASE op = "gone"
      BY <1>8, <2>3, <3>1, <3>2, <3>6 DEF TabInv, GoneOrphaned
    <3> QED BY <2>2, <3>1, <3>3, <3>4, <3>5, <3>6
  <2>11. ASSUME NEW k \in {session[u], store[BrowserOf[u]]}, Spent(k)'
         PROVE  req'[<<u, "refresh">>].step = "ok" /\ root'[Has(u, "refresh")'] = root'[k]
    <3>1. k \in 0..issued /\ k \in Held(u) /\ k \in 1..issued
      BY <1>5, <2>1, <2>11 DEF Held, Spent, Tokens
    <3>2. CASE Spent(k)
      <4>1. req[<<u, "refresh">>].step = "ok" /\ root[Has(u, "refresh")] = root[k]
        BY <2>3, <3>2 DEF TabInv, SpentReplaced
      <4>2. ~ (u = t /\ place = "refresh")
        BY <1>0, <1>2, <4>1
      <4>3. Has(u, "refresh") \in 1..issued
        <5>1. <<u, "refresh">> \in Slots
          BY SlotOf DEF Operations
        <5>2. WellFormed(<<u, "refresh">>)
          BY <1>0, <5>1 DEF SessionInv, Known
        <5> QED BY <4>1, <5>2 DEF WellFormed, Has, NoRequest, Request
      <4> QED BY <1>5, <2>2, <2>5, <3>1, <4>1, <4>2, <4>3
    <3>3. CASE k = from /\ root[k] \notin orphaned
      <4>1. u = t /\ place = "refresh"
        BY <1>11, <2>9, <3>1, <3>3
      <4> QED BY <1>5, <2>2, <2>5, <3>3, <4>1
    <3> QED BY <1>6, <2>11, <3>1, <3>2, <3>3
  <2>12. SpentReplaced(u)'
    BY <1>5, <2>10, <2>11 DEF SpentReplaced
  <2> QED BY <2>4, <2>6, <2>7, <2>8, <2>12 DEF TabInv
<1> QED BY <1>10, <1>13, <1>14, <1>15, <1>16 DEF AloneInv

-----------------------------------------------------------------------------
(* The theorems of a tab that is alone in its browser *)

LEMMA StepAlone ==
  ASSUME Alone, AloneInv, [Next]_vars, SessionInv'
  PROVE  AloneInv'
<1>1. ASSUME NEW t \in Tabs, Client(t) \/ \E op \in Operations : Lost(t, op) PROVE AloneInv'
  BY <1>1, ClientRows, ClientTab DEF AloneInv
<1>2. ASSUME NEW s \in Slots, Server(s) PROVE AloneInv'
  BY <1>2, LoginAlone, LookupAlone, RetireAlone, RotateAlone DEF Server, ServerStep
<1>3. ASSUME NEW k \in Tokens, Lapse(k), UNCHANGED <<store, session, history>> PROVE AloneInv'
  BY <1>3, LapseAlone
<1>4. CASE UNCHANGED vars
  <2>1. UNCHANGED <<issued, status, root, req, store, session, ended, orphaned>>
    BY <1>4 DEF vars, server, history
  <2>2. \A t \in Tabs, op \in Places : Has(t, op)' = Has(t, op)
    BY <2>1 DEF Has
  <2>3. Live' = Live
    BY <2>1 DEF Live
  <2>4. TabsApart' /\ OneLivePerLogin' /\ \A t \in Tabs : TabInv(t)'
    BY <2>1, <2>2, <2>3, NothingIssued
  <2>5. RotatesTheLive' /\ ReuseOnlyOfEnded'
    BY <2>1, <2>3 DEF AloneInv, RotatesTheLive, ReuseOnlyOfEnded
  <2> QED BY <2>4, <2>5 DEF AloneInv
<1> QED BY <1>1, <1>2, <1>3, <1>4 DEF Next

\* With one tab per browser AloneInv is inductive.
LEMMA AloneHolds == ASSUME Alone PROVE Spec => []AloneInv
<1>1. Init /\ SessionInv => AloneInv
  <2> SUFFICES ASSUME Init, SessionInv PROVE AloneInv
    OBVIOUS
  <2>1. \A s \in Slots : req[s].step = "none" /\ req[s].token = NoToken
    BY DEF Init, ServerInit, NoRequest, Request
  <2>2. \A t \in Tabs, op \in Places : Has(t, op) = NoToken /\ req[<<t, op>>].step = "none"
    BY <2>1, SlotOf DEF Has, Places
  <2>3. \A t \in Tabs : session[t] = NoToken /\ store[BrowserOf[t]] = NoToken
    BY BrowserOfAssumption DEF Init
  <2>4. Live = {} /\ \A k : ~ Spent(k)
    BY DEF Init, ServerInit, Live, Spent
  <2>5. TabsApart
    BY <2>2, <2>3, ZenonT(30) DEF TabsApart, Held, Related
  <2>6. ASSUME NEW t \in Tabs PROVE TabInv(t)
    BY <2>2, <2>3, <2>4 DEF TabInv, LoginFresh, AnswerFresh, GoneOrphaned, LogoutEnded,
        SpentReplaced,
                            Related, Places, Operations
  <2>7. RotatesTheLive /\ OneLivePerLogin /\ ReuseOnlyOfEnded
    BY <2>1, <2>4 DEF RotatesTheLive, OneLivePerLogin, ReuseOnlyOfEnded
  <2> QED BY <2>5, <2>6, <2>7 DEF AloneInv
<1>2. Spec => []SessionInv
  BY SessionHolds
<1>3. AloneInv /\ SessionInv' /\ [Next]_vars => AloneInv'
  BY StepAlone
<1> QED BY <1>1, <1>2, <1>3, PTL DEF Spec

\* ReuseOnlyOfEnded, for every number of browsers with one tab each: however logins,
\* refreshes, logouts, losses and reloads overlap, the theft alarm is raised for no other
\* token than one that has ended or was orphaned by a reload.
THEOREM RotationRaisesNoAlarm == ASSUME Alone PROVE Spec => []ReuseOnlyOfEnded
<1>1. Spec => []AloneInv
  BY AloneHolds
<1>2. AloneInv => ReuseOnlyOfEnded
  BY DEF AloneInv
<1> QED BY <1>1, <1>2, PTL

\* OneLivePerLogin, for every number of browsers with one tab each: two rotations of one
\* login never both leave a live token behind, although the transaction of a rotation does
\* not check that its row is still live.
THEOREM RotationKeepsOne == ASSUME Alone PROVE Spec => []OneLivePerLogin
<1>1. Spec => []AloneInv
  BY AloneHolds
<1>2. AloneInv => OneLivePerLogin
  BY DEF AloneInv
<1> QED BY <1>1, <1>2, PTL

\* TabAgreesWithStore, for every number of browsers with one tab each: no step changes
\* React state without localStorage, or the other way round.
THEOREM TabAndStoreAgree == ASSUME Alone PROVE Spec => []TabAgreesWithStore
<1>1. Init => TabAgreesWithStore
  BY BrowserOfAssumption DEF Init, TabAgreesWithStore
<1>2. TypeOK /\ TabAgreesWithStore /\ [Next]_vars => TabAgreesWithStore'
  <2> SUFFICES ASSUME TypeOK, TabAgreesWithStore, [Next]_vars PROVE TabAgreesWithStore'
    OBVIOUS
  <2>1. CASE UNCHANGED <<store, session>>
    BY <2>1 DEF TabAgreesWithStore
  <2>2. ASSUME NEW t \in Tabs, NEW token, Keep(t, token) PROVE TabAgreesWithStore'
    BY <2>2, KeepSets DEF TabAgreesWithStore
  <2>3. ASSUME NEW t \in Tabs, Reload(t) PROVE TabAgreesWithStore'
    BY <2>3 DEF Reload, TabAgreesWithStore, TypeOK
  <2>4. ASSUME NEW t \in Tabs, Client(t) PROVE TabAgreesWithStore'
    BY <2>1, <2>2, <2>3, <2>4
       DEF Client, SendLogin, LoggedIn, SendRefresh, NothingToRefresh, Refreshed, RefreshRefused,
           Logout, LogoutDone, Unheard
  <2>5. ASSUME NEW t \in Tabs, NEW op \in Operations, Lost(t, op) PROVE TabAgreesWithStore'
    BY <2>1, <2>2, <2>5 DEF Lost
  <2> QED BY <2>1, <2>4, <2>5 DEF Next, Server, vars
<1>3. Spec => []TypeOK
  BY SessionTypes
<1> QED BY <1>1, <1>2, <1>3, PTL DEF Spec
=============================================================================
