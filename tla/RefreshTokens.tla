--------------------------- MODULE RefreshTokens ---------------------------
(***************************************************************************)
(* The refresh tokens of one user on the server: issue, rotate on every    *)
(* use, revoke everything when a retired token is presented again, retire  *)
(* on logout.  A handler is the sequence of its database statements, so    *)
(* two requests interleave between them; the transaction of a rotation is  *)
(* one step (its UPDATE takes the row lock, and finds the row retired by   *)
(* the other transaction, which it does not check).                        *)
(***************************************************************************)
EXTENDS Integers, FiniteSets

CONSTANTS Slots,      \* the requests that can be under way at once
          MaxTokens   \* bound: refresh tokens ever issued

ASSUME MaxTokensAssumption == MaxTokens \in Nat
ASSUME FiniteSlotsAssumption == IsFiniteSet(Slots)

Tokens == 1..MaxTokens
NoToken == 0

VARIABLES
  issued,    \* tokens handed out so far; the next row is issued + 1
  status,    \* token -> state of its row
  root,      \* token -> the token of the login it descends from
  req        \* slot -> the request under way in it

server == <<issued, status, root, req>>

Statuses == {"absent", "live", "revoked", "expired"}
Steps == {"none", "sent", "rotate", "revokeAll", "ok", "refused"}
Request(op, token, step) == [op |-> op, token |-> token, step |-> step]
NoRequest == Request("none", NoToken, "none")
Requests == [op : {"none", "login", "refresh", "logout"}, token : 0..MaxTokens, step : Steps]

ServerInit ==
  /\ issued = 0
  /\ status = [k \in Tokens |-> "absent"]
  /\ root = [k \in Tokens |-> NoToken]
  /\ req = [s \in Slots |-> NoRequest]

Goes(s, step) == req' = [req EXCEPT ![s].step = step]

\* The bound: a request that may issue a token is sent only while one is left for it.
MayIssue(s) ==
  \/ req[s].step = "rotate"
  \/ req[s].step = "sent" /\ req[s].op = "login"
  \/ req[s].step = "sent" /\ req[s].op = "refresh" /\ status[req[s].token] = "live"
Room == issued + Cardinality({s \in Slots : MayIssue(s)}) < MaxTokens

\* Seeded bug: the token is handed out, its row never committed.
IssueWithoutRow(s, from) ==
  /\ issued' = issued + 1
  /\ status' = [status EXCEPT ![from] = IF from = issued + 1 THEN "absent" ELSE "revoked"]
  /\ root' = [root EXCEPT ![issued + 1] = IF from = issued + 1 THEN from ELSE root[from]]
  /\ req' = [req EXCEPT ![s].token = issued + 1, ![s].step = "ok"]

\* _issue_session stores a fresh token; the reply of slot s carries it.
Issue(s, from) ==
  /\ issued' = issued + 1
  /\ status' = [status EXCEPT ![issued + 1] = "live",
                              ![from] = IF from = issued + 1 THEN "live" ELSE "revoked"]
  /\ root' = [root EXCEPT ![issued + 1] = IF from = issued + 1 THEN from ELSE root[from]]
  /\ req' = [req EXCEPT ![s].token = issued + 1, ![s].step = "ok"]

\* login (and register): a session of its own, whatever others the user has.
Login(s) ==
  /\ req[s].op = "login" /\ req[s].step = "sent"
  /\ Issue(s, issued + 1)

\* refresh reads the row of the token presented, and decides.
Lookup(s) ==
  /\ req[s].op = "refresh" /\ req[s].step = "sent"
  /\ Goes(s, CASE status[req[s].token] = "live"    -> "rotate"
               [] status[req[s].token] = "revoked" -> "revokeAll"
               [] OTHER                            -> "refused")
  /\ UNCHANGED <<issued, status, root>>

\* A retired token was presented: every token not revoked is, and the request refused.
RevokeAll(s) ==
  /\ req[s].step = "revokeAll"
  /\ status' = [k \in Tokens |-> IF status[k] = "absent" THEN "absent" ELSE "revoked"]
  /\ Goes(s, "refused")
  /\ UNCHANGED <<issued, root>>

\* Seeded bug: the presented token is not retired.
RotateWithoutRevoke(s) ==
  /\ req[s].step = "rotate"
  /\ issued' = issued + 1
  /\ status' = [status EXCEPT ![issued + 1] = "live"]
  /\ root' = [root EXCEPT ![issued + 1] = root[req[s].token]]
  /\ req' = [req EXCEPT ![s].token = issued + 1, ![s].step = "ok"]

\* The transaction: the presented token is retired, if it still is not, and a new
\* one issued in any case.
Rotate(s) ==
  /\ req[s].step = "rotate"
  /\ Issue(s, req[s].token)

\* logout retires one token, and says nothing of one that is unknown or retired.
Retire(s) ==
  /\ req[s].op = "logout" /\ req[s].step = "sent"
  /\ status' = [status EXCEPT ![req[s].token] = "revoked"]
  /\ Goes(s, "ok")
  /\ UNCHANGED <<issued, root>>

\* 30 days pass without a use of the token.
Lapse(k) ==
  /\ status[k] = "live"
  /\ status' = [status EXCEPT ![k] = "expired"]
  /\ UNCHANGED <<issued, root, req>>

ServerStep(s) == Login(s) \/ Lookup(s) \/ RevokeAll(s) \/ Rotate(s) \/ Retire(s)

ServerTypeOK ==
  /\ issued \in 0..MaxTokens
  /\ status \in [Tokens -> Statuses]
  /\ \A k \in Tokens : status[k] = "absent" <=> k > issued
  /\ root \in [Tokens -> 0..MaxTokens]
  /\ req \in [Slots -> Requests]

Issued == {k \in Tokens : status[k] # "absent"}
Live == {k \in Tokens : status[k] = "live"}
=============================================================================
