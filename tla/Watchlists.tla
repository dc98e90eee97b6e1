------------------------------ MODULE Watchlists ------------------------------
(***************************************************************************)
(* The watchlist API of one user, statement by statement, over a pool of   *)
(* connections: every request takes a connection before its first          *)
(* statement and keeps it until its answer is made, the read of the prices *)
(* included.  A request sits in a slot of the client that sent it.         *)
(***************************************************************************)
EXTENDS Integers, FiniteSets

CONSTANTS Securities,  \* rows of the catalog; none is ever deleted
          GetSlots,    \* the snapshot requests a client may have open at once
          ActSlot,     \* the one request that adds or removes
          PoolSize,    \* connections of the API process
          MaxStamp     \* bound of the model: how often a price moves

ASSUME CatalogAssumption == Securities # {}
ASSUME SlotsAssumption == ActSlot \notin GetSlots /\ IsFiniteSet(GetSlots)
ASSUME PoolAssumption == PoolSize \in Nat \ {0} /\ MaxStamp \in Nat

VARIABLES
  lists,     \* the ids of the user's rows in watchlists
  items,     \* watchlist_items: pairs of a watchlist and a security
  price,     \* what a read of the prices finds: security -> stamp, 0 for none
  requests   \* slot -> request

server == <<lists, items, price, requests>>

Slots == GetSlots \cup {ActSlot}

\* A snapshot: the price of each member of the list, and of nothing else.
Snapshots == UNION {[S -> 0..MaxStamp] : S \in SUBSET Securities}

Kinds == {"get", "add", "remove"}

\* Where a request is: waiting for a connection, at the SELECT of its watchlist,
\* at the INSERT after a miss, at its own statement, at the prices, done.
Steps == {"free", "queued", "resolve", "create", "work", "price", "answered", "refused"}

Request(k, s) ==
  [kind |-> k, step |-> "queued", list |-> 0, security |-> s, got |-> << >>]

NoRequest == [Request("get", CHOOSE s \in Securities : TRUE) EXCEPT !.step = "free"]

\* The connections handed out.
Held == {s \in Slots : requests[s].step \in {"resolve", "create", "work", "price"}}

\* Registration creates the row with the user, in one transaction; users older than
\* that have none.
RegisteredLists == {1}

ServerInit ==
  /\ lists \in {{}, RegisteredLists} /\ items = {}
  /\ price = [s \in Securities |-> 0]
  /\ requests = [s \in Slots |-> NoRequest]

\* Seeded bug: a connection is opened when the pool has none.
AcquireOverflow(slot) ==
  /\ requests[slot].step = "queued"
  /\ requests' = [requests EXCEPT ![slot].step = "resolve"]
  /\ UNCHANGED <<lists, items, price>>

\* Seeded bug: a write waits until no read holds a connection.
AcquireExclusive(slot) ==
  /\ requests[slot].step = "queued"
  /\ Cardinality(Held) < IF slot = ActSlot THEN 1 ELSE PoolSize
  /\ requests' = [requests EXCEPT ![slot].step = "resolve"]
  /\ UNCHANGED <<lists, items, price>>

\* The dependency of the route.  (add_item looks the security up first, which finds
\* it: a client adds only what a search has found.)
Acquire(slot) ==
  /\ requests[slot].step = "queued" /\ Cardinality(Held) < PoolSize
  /\ requests' = [requests EXCEPT ![slot].step = "resolve"]
  /\ UNCHANGED <<lists, items, price>>

\* default_watchlist_id reads first, and creates only on a miss.
Resolve(slot) ==
  /\ requests[slot].step = "resolve"
  /\ \/ /\ lists = {}
        /\ requests' = [requests EXCEPT ![slot].step = "create"]
     \/ \E l \in lists :
          requests' = [requests EXCEPT ![slot].step = "work", ![slot].list = l]
  /\ UNCHANGED <<lists, items, price>>

\* Seeded bugs: the INSERT without its ON CONFLICT and its index, or with the one
\* that does nothing and returns nothing.
CreateAnother(slot) ==
  /\ requests[slot].step = "create"
  /\ lists' = lists \cup {Cardinality(lists) + 1}
  /\ requests' = [requests EXCEPT ![slot].step = "work",
                                  ![slot].list = Cardinality(lists) + 1]
  /\ UNCHANGED <<items, price>>

CreateDoNothing(slot) ==
  /\ requests[slot].step = "create"
  /\ lists' = lists \cup {1}
  /\ requests' = [requests EXCEPT ![slot].step = "work",
                                  ![slot].list = IF lists = {} THEN 1 ELSE 0]
  /\ UNCHANGED <<items, price>>

\* INSERT ... ON CONFLICT DO UPDATE ... RETURNING: the row there is, or a new one.
Create(slot) ==
  /\ requests[slot].step = "create"
  /\ lists' = lists \cup {1}
  /\ requests' = [requests EXCEPT ![slot].step = "work", ![slot].list = 1]
  /\ UNCHANGED <<items, price>>

Members(list) == {s \in Securities : <<list, s>> \in items}

\* WatchlistView.build: membership first, prices afterwards.
LoadMembers(slot) ==
  LET r == requests[slot] IN
  /\ r.kind = "get" /\ r.step = "work"
  /\ requests' = [requests EXCEPT ![slot].step = "price",
                                  ![slot].got = [s \in Members(r.list) |-> 0]]
  /\ UNCHANGED <<lists, items, price>>

\* The connection is held, idle, while Redis is asked.
LoadPrices(slot) ==
  /\ requests[slot].step = "price"
  /\ requests' = [requests EXCEPT ![slot].step = "answered",
                    ![slot].got = [s \in DOMAIN requests[slot].got |-> price[s]]]
  /\ UNCHANGED <<lists, items, price>>

\* INSERT ... ON CONFLICT DO NOTHING.
AddRow(slot) ==
  LET r == requests[slot] IN
  /\ r.kind = "add" /\ r.step = "work"
  /\ items' = items \cup {<<r.list, r.security>>}
  /\ requests' = [requests EXCEPT ![slot].step = "answered"]
  /\ UNCHANGED <<lists, price>>

\* The DELETE; 404 when there was nothing to delete.
RemoveRow(slot) ==
  LET r == requests[slot] IN
  /\ r.kind = "remove" /\ r.step = "work"
  /\ items' = items \ {<<r.list, r.security>>}
  /\ requests' = [requests EXCEPT ![slot].step =
                    IF <<r.list, r.security>> \in items THEN "answered" ELSE "refused"]
  /\ UNCHANGED <<lists, price>>

\* The stores move on: GuardedStores promises that they never move back.
Move(s) ==
  /\ price[s] < MaxStamp
  /\ price' = [price EXCEPT ![s] = @ + 1]
  /\ UNCHANGED <<lists, items, requests>>

Statement(slot) ==
  \/ Resolve(slot) \/ Create(slot)
  \/ LoadMembers(slot) \/ LoadPrices(slot) \/ AddRow(slot) \/ RemoveRow(slot)

Serve == \E slot \in Slots : Acquire(slot) \/ Statement(slot)

ServerTypeOK ==
  /\ lists \subseteq 1..Cardinality(Slots)
  /\ items \subseteq (lists \X Securities)
  /\ price \in [Securities -> 0..MaxStamp]
  /\ requests \in [Slots -> [kind : Kinds, step : Steps, list : lists \cup {0},
                             security : Securities, got : Snapshots]]
  /\ Cardinality(Held) <= PoolSize
=============================================================================
