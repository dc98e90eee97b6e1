-------------------------------- MODULE Page --------------------------------
(***************************************************************************)
(* The page of a logged-in user with TRANSPORT=poll, over the API of       *)
(* Watchlists: polls on a timer that does not wait for their answers, the  *)
(* rows and what flashes, adding and removing with the refresh after it,   *)
(* and the search bar.  A query stands for what it finds, "" for an empty  *)
(* box or list.  An answer can be late, and late for ever, or lost.        *)
(***************************************************************************)
EXTENDS Watchlists

CONSTANTS Queries,   \* the texts typed into the search bar
          MaxTypes,  \* bound of the model: how many searches are begun
          Hung,      \* a slot whose answers nobody promises
          Faults     \* "lost": an answer, or a search

ASSUME HungAssumption == Hung \in GetSlots
ASSUME TypesAssumption == MaxTypes \in Nat

VARIABLES
  rows,      \* items on the screen
  previous,  \* previous.current: security -> stamp, or NotSeen
  changed,   \* the rows that flash
  query,     \* the text in the box
  results,   \* the list under the box
  latest,    \* latest.current
  timer,     \* the search that waits for its debounce, or 0
  searches   \* the searches under way

table == <<rows, previous, changed>>
search == <<query, results, latest, timer, searches>>
vars == <<server, table, search>>

NotSeen == -1
NoText == ""

Init ==
  /\ ServerInit
  /\ rows = << >> /\ changed = {}
  /\ previous = [s \in Securities |-> NotSeen]
  /\ query = NoText /\ results = NoText /\ latest = 0 /\ timer = 0 /\ searches = {}

Send(slot, r) == requests' = [requests EXCEPT ![slot] = r]
IsFree(slot) == requests[slot].step = "free"

AnySecurity == CHOOSE s \in Securities : TRUE

-----------------------------------------------------------------------------
(* The table *)

\* Seeded bug: the next poll is scheduled when this one has been answered.
PollAfterAnswer(g) ==
  /\ \A h \in GetSlots : IsFree(h)
  /\ Send(g, Request("get", AnySecurity))
  /\ UNCHANGED <<lists, items, price, table, search>>

\* The timer fires; it was set again before the previous poll was awaited.
Poll(g) ==
  /\ IsFree(g)
  /\ Send(g, Request("get", AnySecurity))
  /\ UNCHANGED <<lists, items, price, table, search>>

\* Seeded bug: a price is remembered only the first time it is seen.
ShowFirst(g) ==
  LET got == requests[g].got IN
  /\ requests[g].step = "answered" /\ Send(g, NoRequest)
  /\ rows' = got
  /\ changed' = {s \in DOMAIN got : previous[s] \notin {NotSeen, got[s]}}
  /\ previous' = [s \in Securities |-> IF s \in DOMAIN got /\ previous[s] = NotSeen
                                       THEN got[s] ELSE previous[s]]
  /\ UNCHANGED <<lists, items, price, search>>

\* An answer to a poll, or to a refresh: whichever comes last stays.
Show(g) ==
  LET got == requests[g].got IN
  /\ requests[g].step = "answered" /\ Send(g, NoRequest)
  /\ rows' = got
  /\ changed' = {s \in DOMAIN got : previous[s] \notin {NotSeen, got[s]}}
  /\ previous' = [s \in Securities |-> IF s \in DOMAIN got THEN got[s] ELSE previous[s]]
  /\ UNCHANGED <<lists, items, price, search>>

\* An answer that does not arrive: "offline", and no refresh after an add or a
\* remove.  (A request that does not arrive leaves the page as one not made.)
Lose(slot) ==
  /\ "lost" \in Faults
  /\ requests[slot].step \in {"answered", "refused"}
  /\ Send(slot, NoRequest)
  /\ UNCHANGED <<lists, items, price, table, search>>

Remove(s) ==
  /\ s \in DOMAIN rows
  /\ IsFree(ActSlot) /\ Send(ActSlot, Request("remove", s))
  /\ UNCHANGED <<lists, items, price, table, search>>

\* Done: the refresh after it is one more snapshot request.
Acted(g) ==
  /\ requests[ActSlot].step = "answered" /\ IsFree(g)
  /\ requests' = [requests EXCEPT ![ActSlot] = NoRequest,
                                  ![g] = Request("get", AnySecurity)]
  /\ UNCHANGED <<lists, items, price, table, search>>

\* 404: an exception nobody catches.
ActRefused ==
  /\ requests[ActSlot].step = "refused" /\ Send(ActSlot, NoRequest)
  /\ UNCHANGED <<lists, items, price, table, search>>

-----------------------------------------------------------------------------
(* The search bar *)

\* What the effect on [query, token] does for the text q.
Effect(q) ==
  IF q = NoText THEN results' = NoText /\ timer' = 0 /\ UNCHANGED latest
            ELSE latest < MaxTypes /\ latest' = latest + 1 /\ timer' = latest + 1
                 /\ UNCHANGED results

Type(q) ==
  /\ q # query /\ query' = q
  /\ Effect(q)
  /\ UNCHANGED <<server, table, searches>>

\* The button of a result that is not on the list: the add is sent, and the box is
\* emptied.  A box that is empty already, with a list a late answer left under it,
\* keeps that list: the effect does not run.
Add(s) ==
  /\ results # NoText /\ s \notin DOMAIN rows
  /\ IsFree(ActSlot) /\ Send(ActSlot, Request("add", s))
  /\ query' = NoText
  /\ IF query = NoText THEN UNCHANGED <<results, latest, timer>> ELSE Effect(NoText)
  /\ UNCHANGED <<lists, items, price, table, searches>>

\* The debounce is over.
Fire ==
  /\ timer # 0 /\ timer' = 0
  /\ searches' = searches \cup {[id |-> timer, query |-> query]}
  /\ UNCHANGED <<server, table, query, results, latest>>

\* Seeded bug: an answer is shown whichever request it belongs to.
FoundAny(r) ==
  /\ r \in searches /\ searches' = searches \ {r}
  /\ results' = r.query
  /\ UNCHANGED <<server, table, query, latest, timer>>

\* "Drop responses that arrived out of order."
Found(r) ==
  /\ r \in searches /\ searches' = searches \ {r}
  /\ results' = IF r.id = latest THEN r.query ELSE results
  /\ UNCHANGED <<server, table, query, latest, timer>>

SearchFails(r) ==
  /\ "lost" \in Faults
  /\ r \in searches /\ searches' = searches \ {r}
  /\ UNCHANGED <<server, table, query, results, latest, timer>>

\* The session is refreshed: both effects run again with the new token.
NewToken(g) ==
  /\ IsFree(g) /\ Send(g, Request("get", AnySecurity))
  /\ Effect(query)
  /\ UNCHANGED <<lists, items, price, table, query, searches>>

-----------------------------------------------------------------------------
Table ==
  \/ \E g \in GetSlots : Poll(g) \/ Show(g) \/ Acted(g) \/ NewToken(g)
  \/ \E slot \in Slots : Lose(slot)
  \/ \E s \in Securities : Add(s) \/ Remove(s)
  \/ ActRefused

Search ==
  \/ \E q \in Queries \cup {NoText} : Type(q)
  \/ Fire
  \/ \E r \in searches : Found(r) \/ SearchFails(r)

Api == (Serve \/ \E s \in Securities : Move(s)) /\ UNCHANGED <<table, search>>

Next == Table \/ Search \/ Api

Spec == Init /\ [][Next]_vars

\* The pool serves its waiters in their order, Postgres and Redis answer, and the
\* page has one slot whose answers come now and then; the Hung one may never do.
Fairness ==
  /\ \A slot \in Slots : SF_vars(Acquire(slot) /\ UNCHANGED <<table, search>>)
  /\ \A slot \in Slots : WF_vars(Statement(slot) /\ UNCHANGED <<table, search>>)
  /\ \A g \in GetSlots \ {Hung} : WF_vars(Poll(g)) /\ SF_vars(Show(g))

FairSpec == Spec /\ Fairness

-----------------------------------------------------------------------------
(* Properties *)

\* Every variable has its type, and no connection is handed out that there is not.
TypeOK ==
  /\ ServerTypeOK
  /\ rows \in Snapshots /\ changed \subseteq DOMAIN rows
  /\ previous \in [Securities -> NotSeen..MaxStamp]
  /\ {query, results} \subseteq Queries \cup {NoText}
  /\ {latest, timer} \subseteq 0..MaxTypes
  /\ searches \subseteq [id : 1..MaxTypes, query : Queries]

\* "Every user has exactly one watchlist": the first requests of a user, however
\* they overlap, all work on the same one.
OneWatchlist ==
  \A slot \in Slots :
    requests[slot].step \in {"work", "price"} => lists = {requests[slot].list}

\* "Flash only the rows that actually moved": of two successive tables, a row that
\* is in both flashes if and only if its price differs, whatever order the answers
\* came in and whatever was removed in between.
FlashesWhatMoved ==
  [][(rows' # rows \/ changed' # changed) =>
       \A s \in DOMAIN rows \cap DOMAIN rows' :
         (rows'[s] # rows[s]) <=> (s \in changed')]_vars

\* While there is a query, a list that appears is the list of that query.
LateAnswersDropped ==
  [][(results' # results /\ query' # NoText) => results' = query']_vars

\* What a poll made now, and answered at once, would show.
Truth == [s \in {m \in Securities : \E l \in lists : <<l, m>> \in items} |-> price[s]]

\* If the list and its prices come to rest the page ends up showing them and stays
\* so, although polls overlap, answers are lost and come out of order, and one
\* request may hang for ever.
PollConverges ==
  (<>[][FALSE]_Truth) => (<>[](rows = Truth))

\* No request waits for ever for a connection, however many polls overlap: each
\* gives its own back without waiting for a second.
RequestsServed ==
  \A slot \in Slots : []<>(requests[slot].step # "queued")
=============================================================================
