----------------------------- MODULE PageProofs -----------------------------
(***************************************************************************)
(* Theorems of Page and of the API it asks: the types, with the bound of   *)
(* the pool; one watchlist per user; what flashes; which answers of a      *)
(* search are shown.                                                       *)
(***************************************************************************)
EXTENDS Page, FiniteSetTheorems, TLAPS

Requests == [kind : Kinds, step : Steps, list : lists \cup {0},
             security : Securities, got : Snapshots]

\* Every watchlist there is, or is worked on, is the registered one; once a request
\* works on it, it is there.
ListInv ==
  /\ lists \subseteq RegisteredLists
  /\ \A slot \in Slots :
       requests[slot].step \in {"work", "price"} => requests[slot].list = 1 /\ 1 \in lists

\* What is remembered of a row on the screen is its price.
SeenInv == \A s \in DOMAIN rows : previous[s] = rows[s]

\* The debounce waits for the latest search only, and for a text; of the searches under
\* way, the latest is for the text in the box, if there is one.
SearchInv ==
  /\ timer \in {0, latest} /\ (timer # 0 => query # NoText)
  /\ \A r \in searches :
       r.id <= latest /\ (r.id = latest /\ query # NoText => r.query = query)

PageInv == TypeOK /\ ListInv /\ SeenInv /\ SearchInv

-----------------------------------------------------------------------------
(* Requests and snapshots *)

\* A snapshot has prices of securities.
LEMMA SnapshotParts ==
  \A f \in Snapshots :
    DOMAIN f \subseteq Securities /\ \A s \in DOMAIN f : f[s] \in 0..MaxStamp
  BY DEF Snapshots

\* Any prices of some securities are a snapshot.
LEMMA SnapshotOf ==
  ASSUME NEW S \in SUBSET Securities, NEW f \in [S -> 0..MaxStamp]
  PROVE  f \in Snapshots
  BY DEF Snapshots

\* The snapshot of an empty list.
LEMMA NoPrices == << >> \in Snapshots
<1>1. << >> \in [{} -> 0..MaxStamp]
  OBVIOUS
<1> QED BY <1>1, SnapshotOf

\* The first request of a slot, and the end of its last one.
LEMMA FreshRequests ==
  /\ AnySecurity \in Securities
  /\ NoRequest \in Requests /\ NoRequest.step = "free"
  /\ \A k \in Kinds, s \in Securities :
       Request(k, s) \in Requests /\ Request(k, s).step = "queued"
<1>1. AnySecurity \in Securities /\ (CHOOSE s \in Securities : TRUE) \in Securities
  BY CatalogAssumption DEF AnySecurity
<1>2. \A k \in Kinds, s \in Securities :
        Request(k, s) \in Requests /\ Request(k, s).step = "queued"
  BY NoPrices DEF Request, Requests, Steps
<1>3. "get" \in Kinds /\ "free" \in Steps
  BY DEF Kinds, Steps
<1>4. NoRequest \in Requests /\ NoRequest.step = "free"
  BY <1>1, <1>2, <1>3 DEF NoRequest, Requests
<1> QED BY <1>1, <1>2, <1>4

\* The connections are finitely many.
LEMMA Connections ==
  ASSUME NEW S \in SUBSET Slots, NEW T \in SUBSET S
  PROVE  /\ IsFiniteSet(S) /\ Cardinality(S) \in Nat
         /\ Cardinality(T) \in Nat /\ Cardinality(T) <= Cardinality(S)
<1>1. IsFiniteSet(Slots)
  BY SlotsAssumption, FS_AddElement DEF Slots
<1>2. IsFiniteSet(S)
  BY <1>1, FS_Subset
<1>3. IsFiniteSet(T) /\ Cardinality(T) <= Cardinality(S)
  BY <1>2, FS_Subset
<1> QED BY <1>2, <1>3, FS_CardinalityType

-----------------------------------------------------------------------------
(* The API *)

\* A step of one slot keeps the requests, given what it leaves in the slot.
LEMMA OneRequest ==
  ASSUME PageInv, NEW slot \in Slots, lists \subseteq lists', lists' \subseteq RegisteredLists,
         items' \subseteq lists' \X Securities, price' \in [Securities -> 0..MaxStamp],
         NEW r \in Requests', requests' = [requests EXCEPT ![slot] = r],
         r.step \in {"work", "price"} => r.list = 1 /\ 1 \in lists',
         \/ r.step \notin {"resolve", "create", "work", "price"}
         \/ requests[slot].step \in {"resolve", "create", "work", "price"}
         \/ Cardinality(Held) < PoolSize
  PROVE  ServerTypeOK' /\ ListInv'
<1>0. ServerTypeOK /\ ListInv
  BY DEF PageInv, TypeOK
<1>1. requests \in [Slots -> Requests]
  BY <1>0 DEF ServerTypeOK, Requests
<1>2. \A x \in Slots : requests'[x] = IF x = slot THEN r ELSE requests[x]
  BY <1>1
<1>3. requests' \in [Slots -> Requests']
  BY <1>1 DEF Requests
<1>4. ListInv'
  BY <1>0, <1>2 DEF ListInv
<1>5. Held \subseteq Slots /\ Held' \subseteq Slots /\ Held' \subseteq Held \cup {slot}
  BY <1>2 DEF Held
<1>6. Cardinality(Held') <= PoolSize
  <2>1. CASE Held' \subseteq Held
    <3>1. /\ Cardinality(Held) \in Nat /\ Cardinality(Held') \in Nat
          /\ Cardinality(Held') <= Cardinality(Held)
      BY <1>5, <2>1, Connections
    <3> QED BY <1>0, <3>1, PoolAssumption DEF ServerTypeOK
  <2>2. CASE Cardinality(Held) < PoolSize
    <3>1. IsFiniteSet(Held) /\ Held \cup {slot} \subseteq Slots /\ Cardinality(Held) \in Nat
      BY <1>5, Connections
    <3>2. Cardinality(Held \cup {slot}) \in {Cardinality(Held), Cardinality(Held) + 1}
      BY <3>1, FS_AddElement
    <3>3. /\ Cardinality(Held \cup {slot}) \in Nat /\ Cardinality(Held') \in Nat
          /\ Cardinality(Held') <= Cardinality(Held \cup {slot})
      BY <1>5, <3>1, Connections
    <3> QED BY <2>2, <3>1, <3>2, <3>3, PoolAssumption
  <2> QED BY <1>2, <1>5, <2>1, <2>2 DEF Held
<1>7. lists' \subseteq 1..Cardinality(Slots)
  <2>1. {slot} \subseteq Slots /\ Cardinality({slot}) = 1
    BY FS_Singleton
  <2>2. Cardinality(Slots) \in Nat /\ 1 <= Cardinality(Slots)
    BY <2>1, Connections
  <2> QED BY <2>2 DEF RegisteredLists
<1> QED BY <1>3, <1>4, <1>6, <1>7 DEF ServerTypeOK, Requests

\* A step of the API keeps the types, the bound of the pool and the one list.
LEMMA ServeHolds ==
  ASSUME PageInv, NEW slot \in Slots, Acquire(slot) \/ Statement(slot)
  PROVE  ServerTypeOK' /\ ListInv'
<1> DEFINE r == requests[slot]
<1>0. /\ ServerTypeOK /\ ListInv /\ r \in Requests
      /\ r.kind \in Kinds /\ r.step \in Steps /\ r.list \in lists \cup {0}
      /\ r.security \in Securities /\ r.got \in Snapshots
      /\ r.step \in {"work", "price"} => r.list = 1 /\ 1 \in lists
      /\ requests \in [Slots -> Requests]
  BY DEF PageInv, TypeOK, ServerTypeOK, ListInv, Requests
<1>1. ASSUME NEW step \in Steps, requests' = [requests EXCEPT ![slot].step = step],
             UNCHANGED <<lists, price>>, items' \subseteq lists \X Securities,
             step \notin {"work", "price"},
             \/ step \notin {"resolve", "create", "work", "price"}
             \/ r.step \in {"resolve", "create", "work", "price"}
             \/ Cardinality(Held) < PoolSize
      PROVE  ServerTypeOK' /\ ListInv'
  <2>1. requests' = [requests EXCEPT ![slot] = [r EXCEPT !.step = step]]
    BY <1>1
  <2>2. [r EXCEPT !.step = step] \in Requests' /\ [r EXCEPT !.step = step].step = step
    BY <1>0, <1>1 DEF Requests
  <2>3. lists \subseteq RegisteredLists /\ price \in [Securities -> 0..MaxStamp]
    BY <1>0 DEF ServerTypeOK, ListInv
  <2> QED BY <1>1, <2>1, <2>2, <2>3, OneRequest
<1>2. CASE Acquire(slot)
  BY <1>0, <1>1, <1>2 DEF Acquire, ServerTypeOK, Steps
<1>3. CASE Resolve(slot)
  <2>1. CASE requests' = [requests EXCEPT ![slot].step = "create"]
    BY <1>0, <1>1, <1>3, <2>1 DEF Resolve, ServerTypeOK, Steps
  <2>2. ASSUME NEW l \in lists,
               requests' = [requests EXCEPT ![slot].step = "work", ![slot].list = l]
        PROVE  ServerTypeOK' /\ ListInv'
    <3> DEFINE new == [r EXCEPT !.step = "work", !.list = l]
    <3>1. requests' = [requests EXCEPT ![slot] = new]
      BY <2>2
    <3>2. UNCHANGED <<lists, items, price>> /\ l = 1 /\ 1 \in lists /\ r.step = "resolve"
      BY <1>0, <1>3, <2>2 DEF Resolve, ListInv, RegisteredLists
    <3>3. new \in Requests' /\ new.step = "work" /\ new.list = l
      BY <1>0, <3>2 DEF Requests, Steps
    <3> HIDE DEF new
    <3> QED BY <1>0, <3>1, <3>2, <3>3, OneRequest DEF ServerTypeOK, ListInv
  <2> QED BY <1>3, <2>1, <2>2 DEF Resolve
<1>4. CASE Create(slot)
  <2> DEFINE new == [r EXCEPT !.step = "work", !.list = 1]
  <2>1. requests' = [requests EXCEPT ![slot] = new] /\ lists' = lists \cup {1}
        /\ UNCHANGED <<items, price>> /\ r.step = "create"
    BY <1>4 DEF Create
  <2>2. new \in Requests' /\ new.step = "work" /\ new.list = 1
    BY <1>0, <2>1 DEF Requests, Steps
  <2> HIDE DEF new
  <2>3. items' \subseteq lists' \X Securities /\ lists' \subseteq RegisteredLists
    BY <1>0, <2>1 DEF ServerTypeOK, ListInv, RegisteredLists
  <2> QED BY <1>0, <2>1, <2>2, <2>3, OneRequest DEF ServerTypeOK
<1>5. CASE LoadMembers(slot)
  <2> DEFINE new == [r EXCEPT !.step = "price", !.got = [s \in Members(r.list) |-> 0]]
  <2>1. requests' = [requests EXCEPT ![slot] = new] /\ UNCHANGED <<lists, items, price>> /\ r.step = "work"
    BY <1>5 DEF LoadMembers
  <2>2. [s \in Members(r.list) |-> 0] \in Snapshots
    <3>1. Members(r.list) \in SUBSET Securities
      BY DEF Members
    <3>2. [s \in Members(r.list) |-> 0] \in [Members(r.list) -> 0..MaxStamp]
      BY PoolAssumption
    <3> QED BY <3>1, <3>2, SnapshotOf
  <2>3. new \in Requests' /\ new.step = "price" /\ new.list = r.list
    BY <1>0, <2>1, <2>2 DEF Requests, Steps
  <2> HIDE DEF new
  <2> QED BY <1>0, <2>1, <2>3, OneRequest DEF ServerTypeOK, ListInv
<1>6. CASE LoadPrices(slot)
  <2> DEFINE new == [r EXCEPT !.step = "answered", !.got = [s \in DOMAIN r.got |-> price[s]]]
  <2>1. requests' = [requests EXCEPT ![slot] = new] /\ UNCHANGED <<lists, items, price>>
    BY <1>6 DEF LoadPrices
  <2>2. [s \in DOMAIN r.got |-> price[s]] \in Snapshots
    <3>1. DOMAIN r.got \subseteq Securities
      BY <1>0, SnapshotParts
    <3> QED BY <1>0, <3>1, SnapshotOf DEF ServerTypeOK
  <2>3. new \in Requests' /\ new.step = "answered"
    BY <1>0, <2>1, <2>2 DEF Requests, Steps
  <2> HIDE DEF new
  <2> QED BY <1>0, <2>1, <2>3, OneRequest DEF ServerTypeOK, ListInv
<1>7. CASE AddRow(slot) \/ RemoveRow(slot)
  <2>1. r.list \in lists /\ UNCHANGED <<lists, price>>
    BY <1>0, <1>7 DEF AddRow, RemoveRow
  <2>2. items' \subseteq lists \X Securities
    BY <1>0, <1>7, <2>1 DEF AddRow, RemoveRow, ServerTypeOK
  <2>3. \E step \in {"answered", "refused"} : requests' = [requests EXCEPT ![slot].step = step]
    BY <1>7 DEF AddRow, RemoveRow
  <2> QED BY <1>1, <2>1, <2>2, <2>3 DEF Steps
<1> QED BY <1>2, <1>3, <1>4, <1>5, <1>6, <1>7 DEF Statement

-----------------------------------------------------------------------------
(* The page *)

\* What the page does to the requests: it sends one in a free slot, or takes an answer.
LEMMA PageRequests ==
  ASSUME PageInv, Table \/ Search, UNCHANGED <<lists, items, price>>
  PROVE  ServerTypeOK' /\ ListInv'
<1>0. ServerTypeOK /\ ListInv /\ requests \in [Slots -> Requests]
      /\ lists \subseteq RegisteredLists /\ items \subseteq lists \X Securities
      /\ price \in [Securities -> 0..MaxStamp]
  BY DEF PageInv, TypeOK, ServerTypeOK, ListInv, Requests
<1>1. ASSUME NEW slot \in Slots, NEW r \in Requests, Send(slot, r), r.step \in {"queued", "free"}
      PROVE  ServerTypeOK' /\ ListInv'
  <2>1. Requests' = Requests
    BY DEF Requests
  <2> QED BY <1>0, <1>1, <2>1, OneRequest DEF Send
<1>2. CASE UNCHANGED requests
  BY <1>0, <1>2 DEF ServerTypeOK, ListInv, Held
<1>3. ASSUME NEW g \in GetSlots, Acted(g)
      PROVE  ServerTypeOK' /\ ListInv'
  <2> DEFINE get == Request("get", AnySecurity)
  <2>1. g \in Slots /\ ActSlot \in Slots /\ g # ActSlot
    BY SlotsAssumption DEF Slots
  <2>2. requests' = [requests EXCEPT ![ActSlot] = NoRequest, ![g] = get]
    BY <1>3 DEF Acted
  <2>3. NoRequest \in Requests /\ NoRequest.step = "free" /\ get \in Requests /\ get.step = "queued"
    BY FreshRequests DEF Kinds
  <2> HIDE DEF get
  <2>4. \A x \in Slots : requests'[x] = IF x = g THEN get
                                        ELSE IF x = ActSlot THEN NoRequest ELSE requests[x]
    BY <1>0, <2>1, <2>2
  <2>5. requests' \in [Slots -> Requests] /\ Requests' = Requests
    BY <1>0, <2>1, <2>2, <2>3 DEF Requests
  <2>6. ListInv'
    BY <1>0, <2>3, <2>4 DEF ListInv
  <2>7. Held' \subseteq Held /\ Held \subseteq Slots
    BY <2>3, <2>4 DEF Held
  <2>8. /\ Cardinality(Held) \in Nat /\ Cardinality(Held') \in Nat
        /\ Cardinality(Held') <= Cardinality(Held)
    BY <2>7, Connections
  <2>9. Cardinality(Held') <= PoolSize
    BY <1>0, <2>8, PoolAssumption DEF ServerTypeOK
  <2> QED BY <1>0, <2>5, <2>6, <2>9 DEF ServerTypeOK, Requests
<1>4. ASSUME NEW g \in GetSlots, Poll(g) \/ Show(g) \/ NewToken(g)
      PROVE  ServerTypeOK' /\ ListInv'
  BY <1>1, <1>4, FreshRequests DEF Poll, Show, NewToken, Slots, Kinds
<1>5. ASSUME NEW s \in Securities, Add(s) \/ Remove(s)
      PROVE  ServerTypeOK' /\ ListInv'
  BY <1>1, <1>5, FreshRequests DEF Add, Remove, Slots, Kinds
<1>6. ASSUME NEW slot \in Slots, Lose(slot)
      PROVE  ServerTypeOK' /\ ListInv'
  BY <1>1, <1>6, FreshRequests DEF Lose
<1>7. CASE ActRefused
  BY <1>1, <1>7, FreshRequests DEF ActRefused, Slots
<1>8. CASE Search
  BY <1>2, <1>8 DEF Search, Type, Fire, Found, SearchFails, server
<1> QED BY <1>3, <1>4, <1>5, <1>6, <1>7, <1>8 DEF Table

\* A price that moves leaves the requests where they are.
LEMMA MoveHolds ==
  ASSUME PageInv, NEW s \in Securities, Move(s)
  PROVE  ServerTypeOK' /\ ListInv'
<1>0. ServerTypeOK /\ ListInv /\ UNCHANGED <<lists, items, requests>>
  BY DEF PageInv, TypeOK, Move
<1>1. price' \in [Securities -> 0..MaxStamp]
  <2>1. price[s] \in 0..MaxStamp /\ MaxStamp \in Nat /\ price[s] < MaxStamp
    BY <1>0, PoolAssumption DEF ServerTypeOK, Move
  <2>2. price[s] + 1 \in 0..MaxStamp
    BY <2>1
  <2> QED BY <1>0, <2>2 DEF ServerTypeOK, Move
<1> QED BY <1>0, <1>1 DEF ServerTypeOK, ListInv, Held

\* What the box holds, and what is under way for it.
Box ==
  /\ query \in Queries \cup {NoText} /\ results \in Queries \cup {NoText}
  /\ latest \in 0..MaxTypes /\ timer \in 0..MaxTypes
  /\ \A r \in searches : r \in [id : 1..MaxTypes, query : Queries]

\* The types of the box, one by one.
LEMMA BoxTypes ==
  Box <=> /\ {query, results} \subseteq Queries \cup {NoText} /\ {latest, timer} \subseteq 0..MaxTypes
          /\ searches \subseteq [id : 1..MaxTypes, query : Queries]
<1>1. Box => /\ {query, results} \subseteq Queries \cup {NoText} /\ {latest, timer} \subseteq 0..MaxTypes
             /\ searches \subseteq [id : 1..MaxTypes, query : Queries]
  BY Zenon DEF Box
<1>2. ASSUME {query, results} \subseteq Queries \cup {NoText}, {latest, timer} \subseteq 0..MaxTypes,
             searches \subseteq [id : 1..MaxTypes, query : Queries]
      PROVE  Box
  <2>1. query \in {query, results} /\ results \in {query, results}
        /\ latest \in {latest, timer} /\ timer \in {latest, timer}
    OBVIOUS
  <2> QED BY <1>2, <2>1, Zenon DEF Box
<1> QED BY <1>1, <1>2

\* What the effect leaves, for the text q that is then in the box.
LEMMA EffectHolds ==
  ASSUME Box, SearchInv, NEW q \in Queries \cup {NoText}, Effect(q), query' = q,
         UNCHANGED searches
  PROVE  Box' /\ SearchInv'
<1>2. CASE q = NoText
  BY <1>2, TypesAssumption DEF Box, Effect, SearchInv
<1>3. CASE q # NoText
  <2>1. /\ latest \in Nat /\ latest < MaxTypes /\ UNCHANGED <<results, searches>>
        /\ latest' = latest + 1 /\ timer' = latest + 1
    BY <1>3, TypesAssumption DEF Box, Effect
  <2>2. latest' \in Nat /\ latest < latest' /\ latest' <= MaxTypes /\ timer' = latest'
    BY <2>1, TypesAssumption
  <2>3. \A r \in searches : r.id \in Nat /\ r.id < latest'
    BY <2>1, <2>2 DEF Box, SearchInv
  <2>4. \A r \in searches' : r.id <= latest' /\ r.id # latest'
    BY <2>1, <2>2, <2>3
  <2>5. Box'
    <3>1. query' \in Queries \cup {NoText} /\ results' \in Queries \cup {NoText}
      BY <2>1 DEF Box
    <3>2. latest' \in 0..MaxTypes /\ timer' \in 0..MaxTypes
      BY <2>2, TypesAssumption
    <3>3. \A r \in searches' : r \in [id : 1..MaxTypes, query : Queries]
      BY <2>1 DEF Box
    <3> QED BY <3>1, <3>2, <3>3 DEF Box
  <2> QED BY <1>3, <2>2, <2>4, <2>5 DEF SearchInv
<1> QED BY <1>2, <1>3

\* A step of the page keeps what it has in its box, under way and on the screen.
LEMMA PageHolds ==
  ASSUME PageInv, Table \/ Search
  PROVE  /\ rows' \in Snapshots /\ changed' \subseteq DOMAIN rows'
         /\ previous' \in [Securities -> NotSeen..MaxStamp] /\ SeenInv'
         /\ Box' /\ SearchInv'
<1> DEFINE ScreenOK == /\ rows \in Snapshots /\ changed \subseteq DOMAIN rows
                       /\ previous \in [Securities -> NotSeen..MaxStamp] /\ SeenInv
           BoxOK == Box /\ SearchInv
<1>0. ScreenOK /\ BoxOK
  BY BoxTypes DEF PageInv, TypeOK
<1>1. ASSUME UNCHANGED table PROVE ScreenOK'
  BY <1>0, <1>1 DEF table, SeenInv
<1>2. ASSUME UNCHANGED search PROVE BoxOK'
  BY <1>0, <1>2 DEF search, Box, SearchInv
<1>3. ASSUME NEW g \in GetSlots, Show(g) PROVE ScreenOK' /\ BoxOK'
  <2> DEFINE got == requests[g].got
  <2>1. got \in Snapshots
    BY DEF PageInv, TypeOK, ServerTypeOK, Slots
  <2>2. /\ rows' = got /\ changed' = {s \in DOMAIN got : previous[s] \notin {NotSeen, got[s]}}
        /\ previous' = [s \in Securities |-> IF s \in DOMAIN got THEN got[s] ELSE previous[s]]
        /\ UNCHANGED search
    BY <1>3 DEF Show
  <2> HIDE DEF got
  <2>3. DOMAIN got \subseteq Securities /\ \A s \in DOMAIN got : got[s] \in 0..MaxStamp
    BY <2>1, SnapshotParts
  <2>4. \A s \in DOMAIN got : got[s] \in NotSeen..MaxStamp
    BY <2>3, PoolAssumption DEF NotSeen
  <2>5. previous' \in [Securities -> NotSeen..MaxStamp]
    BY <1>0, <2>2, <2>4
  <2>6. SeenInv'
    BY <2>2, <2>3 DEF SeenInv
  <2> QED BY <1>2, <2>1, <2>2, <2>5, <2>6
<1>4. ASSUME NEW g \in GetSlots, NewToken(g) PROVE ScreenOK' /\ BoxOK'
  <2>1. Effect(query) /\ UNCHANGED <<query, searches, table>> /\ query \in Queries \cup {NoText}
    BY <1>0, <1>4 DEF NewToken, Box
  <2> QED BY <1>0, <1>1, <2>1, EffectHolds
<1>5. ASSUME NEW q \in Queries \cup {NoText}, Type(q) PROVE ScreenOK' /\ BoxOK'
  <2>1. Effect(q) /\ query' = q /\ UNCHANGED <<searches, table>>
    BY <1>5 DEF Type
  <2> QED BY <1>0, <1>1, <2>1, EffectHolds
<1>6. ASSUME NEW s \in Securities, Add(s) PROVE ScreenOK' /\ BoxOK'
  <2>1. query' = NoText /\ UNCHANGED <<table, searches>>
    BY <1>6 DEF Add
  <2>2. CASE query = NoText
    <3>1. UNCHANGED search
      BY <1>6, <2>1, <2>2 DEF Add, search
    <3> QED BY <1>1, <1>2, <2>1, <3>1
  <2>3. CASE query # NoText
    <3>1. Effect(NoText)
      BY <1>6, <2>3 DEF Add
    <3> QED BY <1>0, <1>1, <2>1, <3>1, EffectHolds
  <2> QED BY <2>2, <2>3
<1>7. ASSUME Fire PROVE ScreenOK' /\ BoxOK'
  <2>1. /\ timer # 0 /\ timer' = 0 /\ UNCHANGED <<table, query, results, latest>>
        /\ searches' = searches \cup {[id |-> timer, query |-> query]}
    BY <1>7 DEF Fire
  <2>2. timer = latest /\ query \in Queries /\ timer \in 1..MaxTypes /\ latest \in Nat
    BY <1>0, <2>1, TypesAssumption DEF Box, SearchInv
  <2> QED BY <1>0, <1>1, <2>1, <2>2, TypesAssumption DEF Box, SearchInv
<1>8. ASSUME NEW r \in searches, Found(r) \/ SearchFails(r) PROVE ScreenOK' /\ BoxOK'
  <2>1. searches' \subseteq searches /\ UNCHANGED <<table, query, latest, timer>>
        /\ results' \in {r.query, results}
    BY <1>8 DEF Found, SearchFails
  <2>2. r.query \in Queries
    BY <1>0 DEF Box
  <2> QED BY <1>0, <1>1, <2>1, <2>2 DEF Box, SearchInv
<1>9. ASSUME UNCHANGED <<table, search>> PROVE ScreenOK' /\ BoxOK'
  BY <1>1, <1>2, <1>9
<1>10. ASSUME NEW g \in GetSlots, Poll(g) \/ Acted(g) PROVE UNCHANGED <<table, search>>
  BY <1>10 DEF Poll, Acted
<1>11. ASSUME NEW slot \in Slots, Lose(slot) PROVE UNCHANGED <<table, search>>
  BY <1>11 DEF Lose
<1>12. ASSUME NEW s \in Securities, Remove(s) PROVE UNCHANGED <<table, search>>
  BY <1>12 DEF Remove
<1>13. ActRefused => UNCHANGED <<table, search>>
  BY DEF ActRefused
<1> HIDE DEF ScreenOK, BoxOK
<1>14. ScreenOK' /\ BoxOK'
  <2>1. CASE Table
    BY <1>3, <1>4, <1>6, <1>9, <1>10, <1>11, <1>12, <1>13, <2>1 DEF Table
  <2>2. CASE Search
    BY <1>5, <1>7, <1>8, <2>2 DEF Search
  <2> QED BY <2>1, <2>2
<1> QED BY <1>14 DEF ScreenOK, BoxOK

-----------------------------------------------------------------------------
(* The invariant and what follows from it *)

\* PageInv is inductive.
LEMMA PageInductive == Spec => []PageInv
<1>1. Init => PageInv
  <2> SUFFICES ASSUME Init PROVE PageInv
    OBVIOUS
  <2>0. /\ lists \subseteq {1} /\ items = {} /\ price = [s \in Securities |-> 0]
        /\ requests = [s \in Slots |-> NoRequest]
        /\ rows = << >> /\ changed = {} /\ previous = [s \in Securities |-> NotSeen]
        /\ query = NoText /\ results = NoText /\ latest = 0 /\ timer = 0 /\ searches = {}
    BY DEF Init, ServerInit, RegisteredLists
  <2>1. requests \in [Slots -> Requests] /\ \A slot \in Slots : requests[slot].step = "free"
    BY <2>0, FreshRequests
  <2>2. Held = {} /\ Cardinality(Held) = 0
    BY <2>1, FS_EmptySet DEF Held
  <2>3. lists \subseteq 1..Cardinality(Slots)
    <3>1. {ActSlot} \subseteq Slots /\ Cardinality({ActSlot}) = 1
      BY FS_Singleton DEF Slots
    <3>2. Cardinality(Slots) \in Nat /\ 1 <= Cardinality(Slots)
      BY <3>1, Connections
    <3> QED BY <2>0, <3>2
  <2>4. ServerTypeOK
    BY <2>0, <2>1, <2>2, <2>3, PoolAssumption DEF ServerTypeOK, Requests
  <2>5. ListInv
    BY <2>0, <2>1 DEF ListInv, RegisteredLists
  <2>6. NotSeen \in NotSeen..MaxStamp
    BY PoolAssumption DEF NotSeen
  <2>7. SeenInv /\ SearchInv
    BY <2>0 DEF SeenInv, SearchInv
  <2> QED BY <2>0, <2>4, <2>5, <2>6, <2>7, NoPrices, TypesAssumption DEF PageInv, TypeOK
<1>2. PageInv /\ [Next]_vars => PageInv'
  <2> SUFFICES ASSUME PageInv, [Next]_vars PROVE PageInv'
    OBVIOUS
  <2>1. CASE Table \/ Search
    <3>1. UNCHANGED <<lists, items, price>>
      BY <2>1 DEF Table, Search, Poll, Show, Acted, NewToken, Lose, Add, Remove, ActRefused,
                  Type, Fire, Found, SearchFails, server
    <3>2. Box' => /\ {query', results'} \subseteq Queries \cup {NoText}
                  /\ {latest', timer'} \subseteq 0..MaxTypes
                  /\ searches' \subseteq [id : 1..MaxTypes, query : Queries]
      BY Zenon DEF Box
    <3> QED BY <2>1, <3>1, <3>2, PageRequests, PageHolds DEF PageInv, TypeOK
  <2>2. ASSUME ServerTypeOK' /\ ListInv', UNCHANGED <<table, search>> PROVE PageInv'
    BY <2>2 DEF PageInv, TypeOK, SeenInv, SearchInv, table, search
  <2>3. CASE Api
    BY <2>2, <2>3, ServeHolds, MoveHolds DEF Api, Serve
  <2>4. CASE UNCHANGED vars
    BY <2>2, <2>4 DEF vars, server, PageInv, TypeOK, ServerTypeOK, ListInv, Held
  <2> QED BY <2>1, <2>3, <2>4 DEF Next
<1> QED BY <1>1, <1>2, PTL DEF Spec

\* Every variable of the page and of the API has its type, and no more connections are
\* handed out than the pool has, however many polls overlap.
THEOREM PageTypes == Spec => []TypeOK
<1>1. PageInv => TypeOK
  BY DEF PageInv
<1> QED BY <1>1, PageInductive, PTL

\* However the first requests of a user overlap, each of them works on the same list.
THEOREM OneListPerUser == Spec => []OneWatchlist
<1>1. PageInv => OneWatchlist
  BY DEF PageInv, ListInv, OneWatchlist, RegisteredLists
<1> QED BY <1>1, PageInductive, PTL

\* Of two successive tables, exactly the rows whose price differs flash.
THEOREM FlashesAreMoves == Spec => FlashesWhatMoved
<1>1. PageInv /\ [Next]_vars
        => ((rows' # rows \/ changed' # changed) =>
              \A s \in DOMAIN rows \cap DOMAIN rows' :
                (rows'[s] # rows[s]) <=> (s \in changed'))
  <2> SUFFICES ASSUME PageInv, [Next]_vars, rows' # rows \/ changed' # changed,
                      NEW s \in DOMAIN rows, s \in DOMAIN rows'
               PROVE  (rows'[s] # rows[s]) <=> (s \in changed')
    OBVIOUS
  <2>1. PICK g \in GetSlots : Show(g)
    BY DEF Next, Table, Search, Api, Poll, Acted, NewToken, Lose, Add, Remove, ActRefused,
           Type, Fire, Found, SearchFails, vars, table
  <2>2. previous[s] = rows[s] /\ rows[s] \in 0..MaxStamp
    BY SnapshotParts DEF PageInv, TypeOK, SeenInv
  <2>3. previous[s] # NotSeen
    BY <2>2, PoolAssumption DEF NotSeen
  <2> QED BY <2>1, <2>2, <2>3 DEF Show
<1> QED BY <1>1, PageInductive, PTL DEF Spec, FlashesWhatMoved

\* While there is a text in the box, a list that appears is what was found for it.
THEOREM LateSearchesDropped == Spec => LateAnswersDropped
<1>1. PageInv /\ [Next]_vars => ((results' # results /\ query' # NoText) => results' = query')
  <2> SUFFICES ASSUME PageInv, [Next]_vars, results' # results, query' # NoText
               PROVE  results' = query'
    OBVIOUS
  <2>1. PICK r \in searches : Found(r)
    BY DEF Next, Table, Search, Api, Poll, Show, Acted, NewToken, Lose, Add, Remove, ActRefused,
           Type, Fire, SearchFails, Effect, vars, table, search
  <2> QED BY <2>1 DEF Found, PageInv, SearchInv
<1> QED BY <1>1, PageInductive, PTL DEF Spec, LateAnswersDropped
=============================================================================
