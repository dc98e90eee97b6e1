--------------------------- MODULE PushClientProofs ---------------------------
(***************************************************************************)
(* Theorems of PushClient: the types, what the drain of the buffer yields, *)
(* that a row moves back only when a snapshot replaces it, and that the    *)
(* merge loses nothing it was given.                                       *)
(***************************************************************************)
EXTENDS PushClient, WellFoundedInduction, TLAPS

\* Every stamp there is, wherever, is of a move of its ticker.
Behind ==
  /\ \A t \in Tickers : cached[t] <= moved[t] /\ stored[t] <= moved[t] /\ fed[t] <= moved[t]
  /\ \A t \in Tickers : \A a \in ToSet(wire[t]) : a <= moved[t]
  /\ \A e \in ToSet(buffer) : e.at <= moved[e.ticker]
  /\ \A t \in DOMAIN rows : rows[t] <= moved[t]
  /\ \A g \in Gets : \A t \in DOMAIN snaps[g] : snaps[g][t] <= moved[t]

\* A resync that runs alone is the only request under way, and it buffers; once it is
\* done there is none and nothing is buffered.
RunsAlone ==
  /\ sync \in {"none", "done", "failed"} => \A g \in Gets : gets[g] = "free"
  /\ sync = "running" => buffering /\ \E g \in Gets : \A h \in Gets : gets[h] # "free" => h = g
  /\ sync = "done" => ~ buffering

\* Unless a refresh is still to run, a snapshot read alone is of the watchlist there is,
\* changes without an answer apart, and so are the rows it becomes, and the channels of
\* a connected client.
Membership ==
  /\ refreshes = 0 /\ sync = "running"
       => \A g \in Gets : gets[g] \in {"missing", "answered"} => AsTold(DOMAIN snaps[g])
  /\ refreshes = 0 /\ sync = "done" => AsTold(DOMAIN rows)
  /\ connected /\ sync = "done" => subs = DOMAIN rows

\* The price of t in the snapshot of g is read.
Read(g, t) == gets[g] = "answered" \/ (gets[g] = "missing" /\ snaps[g][t] # 0)

\* What a snapshot read alone lacks, and then the rows, is on its way or in the buffer,
\* unless it was missed.
Merge ==
  /\ connected /\ sync = "running" =>
       \A g \in Gets : \A t \in DOMAIN snaps[g] :
         Read(g, t) /\ missed[t] = "no" => snaps[g][t] >= fed[t] \/ InTransit(t)
  /\ connected /\ sync = "done" =>
       \A t \in DOMAIN rows : missed[t] = "no" => rows[t] >= fed[t] \/ InTransit(t)

MergeInv == TypeOK /\ Behind /\ RunsAlone /\ Membership /\ Merge

-----------------------------------------------------------------------------
(* Induction on the number of events *)

\* A set of numbers that is not empty has a least one.
LEMMA LeastNumber ==
  ASSUME NEW T \in SUBSET Nat, T # {}
  PROVE  \E x \in T : \A y \in T : x <= y
<1>1. IsWellFoundedOn(OpToRel(<, Nat), Nat)
  BY NatLessThanWellFounded, Zenon
<1>2. PICK x \in T : \A y \in T : <<y, x>> \notin OpToRel(<, Nat)
  BY <1>1, WFMin
<1>3. \A y \in T : ~ (y < x)
  BY <1>2 DEF OpToRel
<1> QED BY <1>3

\* Induction up to n: a set that has 0, and with each number the next, has them all.
LEMMA UpTo ==
  ASSUME NEW n \in Nat, NEW T, 0 \in T, \A i \in 0..n : i \in T /\ i # n => i + 1 \in T
  PROVE  0..n \subseteq T
<1> DEFINE Out == {i \in 0..n : i \notin T}
<1> SUFFICES ASSUME Out # {} PROVE FALSE
  OBVIOUS
<1>0. Out \in SUBSET Nat
  OBVIOUS
<1> HIDE DEF Out
<1>1. PICK m \in Out : \A i \in Out : m <= i
  BY <1>0, LeastNumber
<1> USE DEF Out
<1>2. m \in Nat /\ m <= n /\ m # 0
  BY <1>1
<1>3. m - 1 \in 0..n /\ m - 1 # n /\ ~ (m <= m - 1) /\ (m - 1) + 1 = m
  BY <1>2
<1>4. m - 1 \in T
  BY <1>1, <1>3
<1> QED BY <1>1, <1>3, <1>4

-----------------------------------------------------------------------------
(* The drain *)

\* A snapshot has stamps of tickers.
LEMMA SnapshotParts ==
  ASSUME NEW f \in Snapshots
  PROVE  DOMAIN f \subseteq Tickers /\ f = [t \in DOMAIN f |-> f[t]]
         /\ \A t \in DOMAIN f : f[t] \in 0..MaxStamp /\ f[t] \in Nat
  BY BoundsAssumption DEF Snapshots

\* Any stamps of some tickers are a snapshot.
LEMMA SnapshotOf ==
  ASSUME NEW S \in SUBSET Tickers, NEW f \in [S -> 0..MaxStamp]
  PROVE  f \in Snapshots
  BY DEF Snapshots

\* An event raises the row of its ticker, if it is shown, and no other.
LEMMA ApplyEventHolds ==
  ASSUME NEW shown \in Snapshots, NEW ev \in Events
  PROVE  /\ ApplyEvent(shown, ev) \in Snapshots
         /\ DOMAIN ApplyEvent(shown, ev) = DOMAIN shown
         /\ \A t \in DOMAIN shown :
              /\ ApplyEvent(shown, ev)[t] >= shown[t]
              /\ ev.ticker = t => ApplyEvent(shown, ev)[t] >= ev.at
              /\ \/ ApplyEvent(shown, ev)[t] = shown[t]
                 \/ ev.ticker = t /\ ApplyEvent(shown, ev)[t] = ev.at
<1> DEFINE new == [shown EXCEPT ![ev.ticker] = ev.at]
<1>1. /\ DOMAIN shown \subseteq Tickers /\ shown \in [DOMAIN shown -> 0..MaxStamp]
      /\ \A t \in DOMAIN shown : shown[t] \in Nat
  BY SnapshotParts
<1>2. ev.ticker \in Tickers /\ ev.at \in 0..MaxStamp /\ ev.at \in Nat
  BY BoundsAssumption DEF Events
<1>3. CASE ev.ticker \in DOMAIN shown /\ ev.at > shown[ev.ticker]
  <2>1. ApplyEvent(shown, ev) = new
    BY <1>3 DEF ApplyEvent
  <2>2. new \in [DOMAIN shown -> 0..MaxStamp]
    BY <1>1, <1>2
  <2>3. new \in Snapshots
    BY <1>1, <2>2, SnapshotOf
  <2>4. \A t \in DOMAIN shown : new[t] = IF t = ev.ticker THEN ev.at ELSE shown[t]
    BY <1>1
  <2> HIDE DEF new
  <2> QED BY <1>1, <1>2, <1>3, <2>1, <2>2, <2>3, <2>4
<1>4. CASE ~ (ev.ticker \in DOMAIN shown /\ ev.at > shown[ev.ticker])
  <2>1. ApplyEvent(shown, ev) = shown
    BY <1>4 DEF ApplyEvent
  <2> QED BY <1>1, <1>2, <1>4, <2>1
<1> QED BY <1>3, <1>4

\* The loop, n events of it.
Loop(after, shown, events, n) ==
  after = [i \in 0..n |-> IF i = 0 THEN shown ELSE ApplyEvent(after[i - 1], events[i])]

\* What an iteration of the loop does.
LEMMA LoopSteps ==
  ASSUME NEW shown, NEW events, NEW n \in Nat, NEW after, Loop(after, shown, events, n)
  PROVE  /\ DOMAIN after = 0..n /\ after[0] = shown
         /\ \A i \in 0..n : i # n => after[i + 1] = ApplyEvent(after[i], events[i + 1])
<1>1. \A i \in 0..n : after[i] = IF i = 0 THEN shown ELSE ApplyEvent(after[i - 1], events[i])
  BY DEF Loop
<1>2. \A i \in 0..n : i # n => i + 1 \in 0..n /\ i + 1 # 0 /\ (i + 1) - 1 = i
  OBVIOUS
<1>3. DOMAIN after = 0..n /\ 0 \in 0..n
  BY DEF Loop
<1> QED BY <1>1, <1>2, <1>3

\* The loop runs to its end.
LEMMA LoopRuns ==
  ASSUME NEW shown, NEW events, NEW n \in Nat
  PROVE  \E after : Loop(after, shown, events, n)
<1> DEFINE T == {k \in 0..n : \E after : Loop(after, shown, events, k)}
<1>1. 0 \in T
  <2> DEFINE one == [i \in 0..0 |-> shown]
  <2>1. \A i \in 0..0 : i = 0
    OBVIOUS
  <2>2. Loop(one, shown, events, 0)
    BY <2>1 DEF Loop
  <2> HIDE DEF one
  <2> QED BY <2>2
<1>2. ASSUME NEW k \in 0..n, k \in T, k # n
      PROVE  k + 1 \in T
  <2>1. PICK after : Loop(after, shown, events, k)
    BY <1>2
  <2>2. k \in Nat /\ k + 1 \in 0..n
    BY <1>2
  <2> DEFINE more == [i \in 0..(k + 1) |-> IF i = k + 1 THEN ApplyEvent(after[k], events[k + 1])
                                           ELSE after[i]]
  <2>3. \A i \in 0..k : after[i] = IF i = 0 THEN shown ELSE ApplyEvent(after[i - 1], events[i])
    BY <2>1 DEF Loop
  <2>4. ASSUME NEW i \in 0..(k + 1)
        PROVE  more[i] = IF i = 0 THEN shown ELSE ApplyEvent(more[i - 1], events[i])
    <3>1. CASE i = 0
      BY <2>2, <2>3, <3>1
    <3>2. CASE i # 0
      <4>1. i - 1 \in 0..k /\ i - 1 # k + 1 /\ i - 1 \in 0..(k + 1)
        BY <2>2, <3>2
      <4>2. more[i - 1] = after[i - 1]
        BY <4>1
      <4>3. i = k + 1 => i - 1 = k
        BY <2>2
      <4>4. i # k + 1 => i \in 0..k
        BY <2>2
      <4> QED BY <2>3, <3>2, <4>2, <4>3, <4>4
    <3> QED BY <3>1, <3>2
  <2>5. more = [i \in 0..(k + 1) |-> more[i]]
    OBVIOUS
  <2> HIDE DEF more
  <2>6. Loop(more, shown, events, k + 1)
    BY <2>4, <2>5 DEF Loop
  <2> QED BY <2>2, <2>6
<1> HIDE DEF T
<1>3. 0..n \subseteq T
  BY <1>1, <1>2, UpTo
<1>4. n \in T
  BY <1>3
<1> QED BY <1>4 DEF T

\* What the drain yields: the rows of the snapshot, each at the newest of its stamp there
\* and its events in the buffer.
LEMMA DrainedHolds ==
  ASSUME NEW shown \in Snapshots, NEW events \in Seq(Events)
  PROVE  /\ Drained(shown, events) \in Snapshots
         /\ DOMAIN Drained(shown, events) = DOMAIN shown
         /\ \A t \in DOMAIN shown :
              /\ Drained(shown, events)[t] >= shown[t]
              /\ \A i \in 1..Len(events) :
                   events[i].ticker = t => Drained(shown, events)[t] >= events[i].at
              /\ \/ Drained(shown, events)[t] = shown[t]
                 \/ \E i \in 1..Len(events) :
                      events[i].ticker = t /\ Drained(shown, events)[t] = events[i].at
<1> DEFINE n == Len(events)
           after == CHOOSE f : Loop(f, shown, events, n)
           Good(f, k) ==
             /\ f \in Snapshots /\ DOMAIN f = DOMAIN shown
             /\ \A t \in DOMAIN shown :
                  /\ f[t] >= shown[t]
                  /\ \A i \in 1..k : events[i].ticker = t => f[t] >= events[i].at
                  /\ \/ f[t] = shown[t]
                     \/ \E i \in 1..k : events[i].ticker = t /\ f[t] = events[i].at
           T == {k \in 0..n : Good(after[k], k)}
<1>1. n \in Nat
  OBVIOUS
<1>2. Drained(shown, events) = after[n]
  BY DEF Drained, Loop
<1>3. Loop(after, shown, events, n)
  BY <1>1, LoopRuns
<1> HIDE DEF after, n
<1>4. /\ DOMAIN after = 0..n /\ after[0] = shown
      /\ \A k \in 0..n : k # n => after[k + 1] = ApplyEvent(after[k], events[k + 1])
  BY <1>1, <1>3, LoopSteps
<1>5. 0 \in T
  BY <1>1, <1>4, SnapshotParts
<1>6. ASSUME NEW k \in 0..n, k \in T, k # n
      PROVE  k + 1 \in T
  <2> DEFINE old == after[k]
             ev == events[k + 1]
             new == ApplyEvent(old, ev)
  <2>1. Good(old, k) /\ k \in Nat /\ k + 1 \in 0..n /\ k + 1 \in 1..n
    BY <1>1, <1>6
  <2>2. ev \in Events
    BY <2>1 DEF n
  <2>3. after[k + 1] = new
    BY <1>4, <1>6
  <2> HIDE DEF old
  <2>4. /\ new \in Snapshots /\ DOMAIN new = DOMAIN old
        /\ \A t \in DOMAIN old :
             /\ new[t] >= old[t] /\ (ev.ticker = t => new[t] >= ev.at)
             /\ (new[t] = old[t] \/ (ev.ticker = t /\ new[t] = ev.at))
    <3>1. old \in Snapshots
      BY <2>1
    <3> HIDE DEF ev
    <3> QED BY <2>2, <3>1, ApplyEventHolds
  <2> HIDE DEF new
  <2>5. \A i \in 1..(k + 1) : i \in 1..k \/ i = k + 1
    BY <2>1
  <2>6. ev.at \in Nat /\ \A i \in 1..k : events[i] \in Events /\ events[i].at \in Nat
    <3>1. \A i \in 1..k : i \in 1..n
      BY <1>1, <1>6
    <3>2. \A i \in 1..n : events[i] \in Events
      BY DEF n
    <3>3. \A e \in Events : e.at \in Nat
      BY BoundsAssumption DEF Events
    <3> QED BY <2>2, <3>1, <3>2, <3>3
  <2>7. ASSUME NEW t \in DOMAIN shown
        PROVE  /\ new[t] >= shown[t]
               /\ \A i \in 1..(k + 1) : events[i].ticker = t => new[t] >= events[i].at
               /\ \/ new[t] = shown[t]
                  \/ \E i \in 1..(k + 1) : events[i].ticker = t /\ new[t] = events[i].at
    <3>1. t \in DOMAIN old /\ shown[t] \in Nat /\ old[t] \in Nat /\ new[t] \in Nat
      BY <2>1, <2>4, SnapshotParts
    <3>2. old[t] >= shown[t] /\ new[t] >= old[t]
      BY <2>1, <2>4, <3>1
    <3>3. \A i \in 1..k : events[i].ticker = t => new[t] >= events[i].at
      BY <2>1, <2>6, <3>1, <3>2
    <3>4. \A i \in 1..(k + 1) : events[i].ticker = t => new[t] >= events[i].at
      BY <2>4, <2>5, <3>1, <3>3
    <3>5. CASE new[t] = old[t]
      <4>1. \A i \in 1..k : i \in 1..(k + 1)
        BY <2>1
      <4> QED BY <2>1, <3>1, <3>2, <3>4, <3>5, <4>1
    <3>6. CASE ev.ticker = t /\ new[t] = ev.at
      <4>1. k + 1 \in 1..(k + 1)
        BY <2>1
      <4> QED BY <3>1, <3>2, <3>4, <3>6, <4>1
    <3> QED BY <2>4, <3>1, <3>5, <3>6
  <2>8. Good(new, k + 1)
    BY <2>1, <2>4, <2>7
  <2> QED BY <2>1, <2>3, <2>8
<1> HIDE DEF T
<1>7. n \in T
  <2>1. 0..n \subseteq T
    BY <1>1, <1>5, <1>6, UpTo
  <2> QED BY <1>1, <2>1
<1> QED BY <1>2, <1>7 DEF T, n

-----------------------------------------------------------------------------
(* The types *)

Servers ==
  /\ moved \in [Tickers -> 0..MaxStamp] /\ cached \in [Tickers -> 0..MaxStamp]
  /\ stored \in [Tickers -> 0..MaxStamp] /\ fed \in [Tickers -> 0..MaxStamp]
  /\ watched \subseteq Tickers

Channels ==
  /\ live \subseteq subs /\ subs \subseteq Tickers /\ connected \in BOOLEAN
  /\ wire \in [Tickers -> Seq(1..MaxStamp)]
  /\ \A t \in Tickers \ live : wire[t] = <<>>

Shown == rows \in Snapshots /\ buffering \in BOOLEAN /\ buffer \in Seq(Events)

Asked ==
  /\ snaps \in [Gets -> Snapshots]
  /\ gets \in [Gets -> {"free", "sent", "missing", "answered"}]
  /\ refreshes \in 0..MaxGets /\ drops \in 0..MaxDrops

Known ==
  /\ sync \in {"none", "running", "overlapped", "done", "failed"}
  /\ missed \in [Tickers -> {"no", "unsubscribed", "lagging", "lost"}]
  /\ unseen \subseteq Tickers

\* The types, part by part.
LEMMA TypeParts == TypeOK <=> Servers /\ Channels /\ Shown /\ Asked /\ Known
  BY DEF TypeOK, Servers, Channels, Shown, Asked, Known

\* The same of the next state.
LEMMA TypePartsNext == Servers' /\ Channels' /\ Shown' /\ Asked' /\ Known' => TypeOK'
  BY DEF TypeOK, Servers, Channels, Shown, Asked, Known

\* Stamps are numbers.
LEMMA Stamps ==
  ASSUME Servers
  PROVE  /\ MaxStamp \in Nat
         /\ \A t \in Tickers : /\ moved[t] \in Nat /\ cached[t] \in Nat
                               /\ stored[t] \in Nat /\ fed[t] \in Nat
  BY BoundsAssumption DEF Servers

\* A snapshot that is not there is one without tickers.
LEMMA EmptyIsSnapshot == Empty \in Snapshots
<1>1. Empty \in [{} -> 0..MaxStamp]
  BY DEF Empty
<1> QED BY <1>1, SnapshotOf

\* A resync starts: one request more, and an empty buffer.
LEMMA StartTypes ==
  ASSUME Asked, Shown, StartResync, UNCHANGED <<snaps, drops, rows>>, refreshes' \in 0..MaxGets
  PROVE  Asked' /\ Shown' /\ sync' \in {"running", "overlapped"}
<1>1. gets' \in [Gets -> {"free", "sent", "missing", "answered"}]
  BY DEF StartResync, Asked
<1>2. buffer' \in Seq(Events) /\ buffering' \in BOOLEAN
  BY DEF StartResync
<1> QED BY <1>1, <1>2 DEF StartResync, Asked, Shown

\* A snapshot is read: its price is that of one store or of the other, or none yet.
LEMMA ReadTypes ==
  ASSUME Asked, Servers, Known, NEW g \in Gets, ReadTable(g) \/ Answer(g)
  PROVE  Asked' /\ missed' \in [Tickers -> {"no", "unsubscribed", "lagging", "lost"}]
<1>1. ASSUME NEW found \in SUBSET watched, ReadCache(g, found)
      PROVE  Asked' /\ missed' \in [Tickers -> {"no", "unsubscribed", "lagging", "lost"}]
  <2> DEFINE snap == [t \in watched |-> IF t \in found THEN cached[t] ELSE 0]
             missing == {t \in watched : snap[t] = 0}
  <2>1. snap \in [watched -> 0..MaxStamp]
    BY Stamps DEF Servers
  <2>2. snap \in Snapshots
    BY <2>1, SnapshotOf DEF Servers
  <2>3. /\ snaps' = [snaps EXCEPT ![g] = snap]
        /\ gets' = [gets EXCEPT ![g] = IF missing = {} THEN "answered" ELSE "missing"]
        /\ missed' = [t \in Tickers |->
                        IF t \in missing THEN missed[t]
                        ELSE IF cached[t] < fed[t] /\ ~ InTransit(t) THEN "lagging" ELSE "no"]
        /\ UNCHANGED <<refreshes, drops>>
    BY <1>1 DEF ReadCache
  <2> HIDE DEF snap, missing
  <2>4. missed' \in [Tickers -> {"no", "unsubscribed", "lagging", "lost"}]
    BY <2>3 DEF Known
  <2> QED BY <2>2, <2>3, <2>4 DEF Asked
<1>2. CASE ReadTable(g)
  <2> DEFINE missing == {t \in DOMAIN snaps[g] : snaps[g][t] = 0}
             snap == [t \in DOMAIN snaps[g] |-> IF t \in missing THEN stored[t] ELSE snaps[g][t]]
  <2>1. snaps[g] \in Snapshots
    BY DEF Asked
  <2>2. DOMAIN snaps[g] \subseteq Tickers /\ \A t \in DOMAIN snaps[g] : snaps[g][t] \in 0..MaxStamp
    BY <2>1, SnapshotParts
  <2>3. snap \in [DOMAIN snaps[g] -> 0..MaxStamp]
    BY <2>2 DEF Servers
  <2>4. snap \in Snapshots
    BY <2>2, <2>3, SnapshotOf
  <2>5. /\ snaps' = [snaps EXCEPT ![g] = snap]
        /\ gets' = [gets EXCEPT ![g] = "answered"]
        /\ missed' = [t \in Tickers |->
                        IF t \notin missing THEN missed[t]
                        ELSE IF stored[t] < fed[t] /\ ~ InTransit(t) THEN "lagging" ELSE "no"]
        /\ UNCHANGED <<refreshes, drops>>
    BY <1>2 DEF ReadTable, Asked
  <2> HIDE DEF snap, missing
  <2>6. missed' \in [Tickers -> {"no", "unsubscribed", "lagging", "lost"}]
    BY <2>5 DEF Known
  <2> QED BY <2>4, <2>5, <2>6 DEF Asked
<1> QED BY <1>1, <1>2 DEF Answer

\* What a sequence holds is its head and what its tail holds.
LEMMA HeadAndTail ==
  ASSUME NEW S, NEW seq \in Seq(S), seq # <<>>
  PROVE  /\ Head(seq) \in S /\ Tail(seq) \in Seq(S)
         /\ ToSet(seq) = {Head(seq)} \cup ToSet(Tail(seq))
<1> DEFINE rest == Tail(seq)
<1>1. Len(seq) \in Nat /\ Len(seq) # 0 /\ Head(seq) = seq[1] /\ Head(seq) \in S
  OBVIOUS
<1>2. rest \in Seq(S) /\ Len(rest) = Len(seq) - 1 /\ DOMAIN rest = 1..Len(rest)
  OBVIOUS
<1>3. \A i \in 1..Len(rest) : rest[i] = seq[i + 1]
  OBVIOUS
<1>4. ToSet(seq) = {seq[i] : i \in 1..Len(seq)}
  BY DEF ToSet
<1> HIDE DEF rest
<1>5. ToSet(rest) = {rest[i] : i \in 1..Len(rest)}
  BY <1>2 DEF ToSet
<1>6. /\ 1 \in 1..Len(seq)
      /\ \A i \in 1..Len(seq) : i = 1 \/ (i - 1 \in 1..Len(rest) /\ (i - 1) + 1 = i)
      /\ \A i \in 1..Len(rest) : i + 1 \in 1..Len(seq)
  BY <1>1, <1>2
<1>7. ToSet(seq) \subseteq {Head(seq)} \cup ToSet(rest)
  <2>1. ASSUME NEW i \in 1..Len(seq)
        PROVE  seq[i] \in {Head(seq)} \cup ToSet(rest)
    <3>1. CASE i = 1
      BY <1>1, <3>1
    <3>2. CASE i # 1
      <4>1. i - 1 \in 1..Len(rest) /\ (i - 1) + 1 = i
        BY <1>6, <3>2
      <4>2. rest[i - 1] = seq[i]
        BY <1>3, <4>1
      <4> QED BY <1>5, <4>1, <4>2
    <3> QED BY <3>1, <3>2
  <2> QED BY <1>4, <2>1
<1>8. {Head(seq)} \cup ToSet(rest) \subseteq ToSet(seq)
  BY <1>1, <1>3, <1>4, <1>5, <1>6
<1> QED BY <1>1, <1>2, <1>7, <1>8 DEF rest

\* One event leaves the wire of its channel.
LEMMA ReceiveParts ==
  ASSUME Channels, NEW t \in Tickers, Receive(t)
  PROVE  LET ev == [ticker |-> t, at |-> Head(wire[t])] IN
         /\ ev \in Events /\ t \in live /\ wire' = [wire EXCEPT ![t] = Tail(wire[t])]
         /\ Tail(wire[t]) \in Seq(1..MaxStamp)
         /\ ToSet(wire[t]) = {ev.at} \cup ToSet(Tail(wire[t]))
<1>1. wire[t] \in Seq(1..MaxStamp) /\ wire[t] # <<>> /\ wire' = [wire EXCEPT ![t] = Tail(wire[t])]
  BY DEF Receive, Channels
<1>2. /\ Head(wire[t]) \in 1..MaxStamp /\ Tail(wire[t]) \in Seq(1..MaxStamp)
      /\ ToSet(wire[t]) = {Head(wire[t])} \cup ToSet(Tail(wire[t]))
  BY <1>1, HeadAndTail
<1>3. t \in live
  BY <1>1 DEF Channels
<1> QED BY <1>1, <1>2, <1>3 DEF Events

\* What a sequence holds to which an element is appended.
LEMMA AppendedSet ==
  ASSUME NEW S, NEW seq \in Seq(S), NEW e \in S
  PROVE  Append(seq, e) \in Seq(S) /\ ToSet(Append(seq, e)) = ToSet(seq) \cup {e}
<1> DEFINE more == Append(seq, e)
<1>1. /\ Len(seq) \in Nat /\ more \in Seq(S) /\ Len(more) = Len(seq) + 1
      /\ more[Len(seq) + 1] = e /\ \A i \in 1..Len(seq) : more[i] = seq[i]
  OBVIOUS
<1>2. ToSet(seq) = {seq[i] : i \in 1..Len(seq)} /\ ToSet(more) = {more[i] : i \in 1..Len(more)}
  BY <1>1 DEF ToSet
<1> HIDE DEF more
<1>3. /\ \A i \in 1..Len(more) : i = Len(seq) + 1 \/ i \in 1..Len(seq)
      /\ \A i \in 1..Len(seq) : i \in 1..Len(more)
      /\ Len(seq) + 1 \in 1..Len(more)
  BY <1>1
<1>4. ToSet(more) \subseteq ToSet(seq) \cup {e}
  BY <1>1, <1>2, <1>3
<1>5. ToSet(seq) \cup {e} \subseteq ToSet(more)
  BY <1>1, <1>2, <1>3
<1> QED BY <1>1, <1>4, <1>5 DEF more

\* The same for the stamps on a wire.
LEMMA PublishedSet ==
  ASSUME NEW seq \in Seq(1..MaxStamp), NEW a \in 1..MaxStamp
  PROVE  ToSet(Append(seq, a)) = ToSet(seq) \cup {a}
<1> DEFINE S == 1..MaxStamp
<1>1. seq \in Seq(S) /\ a \in S
  OBVIOUS
<1> HIDE DEF S
<1> QED BY <1>1, AppendedSet

\* A tick publishes a stamp.
LEMMA Published ==
  ASSUME Servers, Behind, NEW t \in Tickers, fed[t] # moved[t]
  PROVE  moved[t] \in 1..MaxStamp
<1>1. fed[t] <= moved[t] /\ moved[t] \in 0..MaxStamp /\ fed[t] \in Nat /\ moved[t] \in Nat
  BY Stamps DEF Behind, Servers
<1> QED BY <1>1

\* The empty sequence holds nothing.
LEMMA NoSequence == \A S : <<>> \in Seq(S) /\ ToSet(<<>>) = {}
  BY DEF ToSet

\* Every step keeps the types.
LEMMA TypesKept ==
  ASSUME TypeOK, Behind, [Next]_vars
  PROVE  TypeOK'
<1>0. Servers /\ Channels /\ Shown /\ Asked /\ Known
  BY TypeParts
<1> SUFFICES Servers' /\ Channels' /\ Shown' /\ Asked' /\ Known'
  BY TypePartsNext
<1>1. UNCHANGED servers => Servers'
  BY <1>0 DEF servers, Servers
<1>2. UNCHANGED <<live, wire, connected, subs>> => Channels'
  BY <1>0 DEF Channels
<1>3. UNCHANGED <<rows, buffering, buffer>> => Shown'
  BY <1>0 DEF Shown
<1>4. UNCHANGED requests => Asked'
  BY <1>0 DEF requests, Asked
<1>5. UNCHANGED history => Known'
  BY <1>0 DEF history, Known
<1>6. /\ channel = <<live, wire, connected>> /\ channel' = <<live', wire', connected'>>
      /\ screen = <<subs, buffering, buffer, rows>>
      /\ screen' = <<subs', buffering', buffer', rows'>>
  BY DEF channel, screen
<1>7. ASSUME NEW t \in Tickers,
             Move(t) \/ CacheWritten(t) \/ TableWritten(t) \/ Toggle(t) \/ Expire(t)
      PROVE  Servers' /\ Channels' /\ Shown' /\ Asked' /\ Known'
  <2>1. Channels' /\ Shown' /\ Known' /\ UNCHANGED <<gets, snaps, drops>>
    <3>1. CASE Toggle(t)
      BY <1>0, <1>2, <1>3, <1>6, <3>1 DEF Toggle, Known
    <3> QED BY <1>2, <1>3, <1>5, <1>6, <1>7, <3>1
            DEF Move, CacheWritten, TableWritten, Expire, requests
  <2>2. moved[t] \in 0..MaxStamp /\ MaxStamp \in Nat
    BY <1>0, Stamps DEF Servers
  <2>3. Servers'
    <3>1. CASE Move(t)
      <4>1. moved[t] + 1 \in 0..MaxStamp
        BY <2>2, <3>1 DEF Move
      <4> QED BY <1>0, <3>1, <4>1 DEF Servers, Move
    <3>2. CASE CacheWritten(t) \/ TableWritten(t)
      BY <1>0, <2>2, <3>2 DEF Servers, CacheWritten, TableWritten
    <3>3. CASE Toggle(t)
      BY <1>0, <3>3 DEF Servers, Toggle
    <3>4. CASE Expire(t)
      BY <1>0, <2>2, <3>4 DEF Servers, Expire
    <3> QED BY <1>7, <3>1, <3>2, <3>3, <3>4
  <2>4. refreshes' \in 0..MaxGets
    <3>1. refreshes \in 0..MaxGets /\ MaxGets \in Nat
      BY <1>0, BoundsAssumption DEF Asked
    <3>2. refreshes < MaxGets => refreshes + 1 \in 0..MaxGets
      BY <3>1
    <3> QED BY <1>7, <3>1, <3>2 DEF Move, CacheWritten, TableWritten, Toggle, Expire, requests
  <2> QED BY <1>0, <2>1, <2>3, <2>4 DEF Asked
<1>8. ASSUME NEW t \in Tickers, FanOut(t) \/ PublishLost(t)
      PROVE  Servers' /\ Channels' /\ Shown' /\ Asked' /\ Known'
  <2>1. moved[t] \in 1..MaxStamp /\ moved[t] \in 0..MaxStamp
    BY <1>0, <1>8, Published DEF FanOut, PublishLost, Servers
  <2>2. Servers'
    BY <1>0, <1>8, <2>1 DEF FanOut, PublishLost, Servers
  <2>3. Shown' /\ Asked' /\ subs' = subs
    BY <1>3, <1>4, <1>6, <1>8 DEF FanOut, PublishLost
  <2>4. Channels'
    <3>1. CASE t \in live /\ FanOut(t)
      <4>1. wire' = [wire EXCEPT ![t] = Append(wire[t], moved[t])]
            /\ UNCHANGED <<live, connected, subs>>
        BY <2>3, <3>1 DEF FanOut
      <4>2. Append(wire[t], moved[t]) \in Seq(1..MaxStamp)
        BY <1>0, <2>1 DEF Channels
      <4> QED BY <1>0, <3>1, <4>1, <4>2 DEF Channels
    <3>2. CASE t \notin live \/ PublishLost(t)
      BY <1>2, <1>6, <1>8, <2>3, <3>2 DEF FanOut, PublishLost
    <3> QED BY <1>8, <3>1, <3>2
  <2>5. Known'
    BY <1>0, <1>8 DEF FanOut, PublishLost, Known
  <2> QED BY <2>2, <2>3, <2>4, <2>5
<1>9. ASSUME NEW t \in Tickers, Subscribed(t)
      PROVE  Servers' /\ Channels' /\ Shown' /\ Asked' /\ Known'
  <2>1. Servers' /\ Shown' /\ Asked' /\ Known' /\ subs' = subs
    BY <1>1, <1>3, <1>4, <1>5, <1>6, <1>9 DEF Subscribed
  <2>2. Channels'
    BY <1>0, <1>9, <2>1 DEF Subscribed, Channels
  <2> QED BY <2>1, <2>2
<1>10. ASSUME NEW t \in Tickers, Receive(t)
       PROVE  Servers' /\ Channels' /\ Shown' /\ Asked' /\ Known'
  <2> DEFINE ev == [ticker |-> t, at |-> Head(wire[t])]
  <2>1. Servers' /\ Asked' /\ Known' /\ UNCHANGED <<live, connected, subs, buffering>>
    BY <1>1, <1>4, <1>5, <1>10 DEF Receive
  <2>2. /\ ev \in Events /\ t \in live /\ wire' = [wire EXCEPT ![t] = Tail(wire[t])]
        /\ Tail(wire[t]) \in Seq(1..MaxStamp)
    BY <1>0, <1>10, ReceiveParts
  <2>3. \/ buffer' = Append(buffer, ev) /\ UNCHANGED rows
        \/ rows' = ApplyEvent(rows, ev) /\ UNCHANGED buffer
    BY <1>10 DEF Receive
  <2> HIDE DEF ev
  <2>4. Channels'
    BY <1>0, <2>1, <2>2 DEF Channels
  <2>5. Append(buffer, ev) \in Seq(Events) /\ ApplyEvent(rows, ev) \in Snapshots
    BY <1>0, <2>2, AppendedSet, ApplyEventHolds DEF Shown
  <2>6. Shown'
    BY <1>0, <2>1, <2>3, <2>5 DEF Shown
  <2> QED BY <2>1, <2>4, <2>6
<1>11. ASSUME NEW g \in Gets, Answer(g) \/ ReadTable(g)
       PROVE  Servers' /\ Channels' /\ Shown' /\ Asked' /\ Known'
  <2>1. UNCHANGED <<servers, channel, screen, sync>>
    BY <1>11 DEF Answer, ReadCache, ReadTable
  <2>2. Servers' /\ Channels' /\ Shown'
    BY <1>1, <1>2, <1>3, <1>6, <2>1
  <2>3. unseen' \in {{}, unseen}
    BY <1>11 DEF Answer, ReadCache, ReadTable
  <2>4. Asked' /\ Known'
    BY <1>0, <1>11, <2>1, <2>3, ReadTypes DEF Known
  <2> QED BY <2>2, <2>4
<1>12. ASSUME NEW g \in Gets, Apply(g)
       PROVE  Servers' /\ Channels' /\ Shown' /\ Asked' /\ Known'
  <2>1. /\ gets' = [gets EXCEPT ![g] = "free"] /\ snaps' = [snaps EXCEPT ![g] = Empty]
        /\ wire' = [t \in Tickers |-> IF t \in DOMAIN snaps[g] THEN wire[t] ELSE <<>>]
        /\ live' = live \cap DOMAIN snaps[g] /\ buffering' = FALSE /\ buffer' = <<>>
        /\ sync' = IF sync = "running" THEN "done" ELSE sync
        /\ UNCHANGED <<servers, connected, refreshes, drops, missed, unseen>>
        /\ rows' = Drained(snaps[g], buffer) /\ subs' = DOMAIN snaps[g]
    BY <1>12 DEF Apply, Finish
  <2>2. snaps[g] \in Snapshots
    BY <1>0 DEF Asked
  <2>3. DOMAIN snaps[g] \subseteq Tickers
    BY <2>2, SnapshotParts
  <2>4. Servers' /\ Known'
    BY <1>0, <1>1, <2>1 DEF Known
  <2>5. Asked'
    BY <1>0, <2>1, EmptyIsSnapshot DEF Asked
  <2>6. Shown'
    BY <1>0, <2>1, <2>2, DrainedHolds, NoSequence DEF Shown
  <2>7. Channels'
    BY <1>0, <2>1, <2>3, NoSequence DEF Channels
  <2> QED BY <2>4, <2>5, <2>6, <2>7
<1>13. ASSUME NEW g \in Gets, Fail(g)
       PROVE  Servers' /\ Channels' /\ Shown' /\ Asked' /\ Known'
  <2>1. Servers' /\ Channels'
    BY <1>1, <1>2, <1>6, <1>13 DEF Fail
  <2> QED BY <1>0, <1>13, <2>1, EmptyIsSnapshot DEF Fail, Shown, Asked, Known
<1>14. CASE Connect \/ Refresh
  <2>1. refreshes' \in 0..MaxGets
    <3>1. refreshes \in 0..MaxGets /\ MaxGets \in Nat
      BY <1>0, BoundsAssumption DEF Asked
    <3>2. refreshes > 0 => refreshes - 1 \in 0..MaxGets
      BY <3>1
    <3> QED BY <1>14, <3>1, <3>2 DEF Connect, Refresh
  <2>2. Asked' /\ Shown' /\ sync' \in {"running", "overlapped"}
    BY <1>0, <1>14, <2>1, StartTypes DEF Connect, Refresh
  <2>3. Servers' /\ UNCHANGED <<live, wire, subs, missed, unseen>> /\ connected' \in BOOLEAN
    BY <1>0, <1>1, <1>6, <1>14 DEF Connect, Refresh, Channels
  <2> QED BY <1>0, <2>2, <2>3 DEF Channels, Known
<1>15. CASE Drop \/ Remount
  <2>1. drops' \in 0..MaxDrops
    <3>1. drops \in 0..MaxDrops /\ MaxDrops \in Nat
      BY <1>0, BoundsAssumption DEF Asked
    <3>2. drops < MaxDrops => drops + 1 \in 0..MaxDrops
      BY <3>1
    <3> QED BY <1>15, <3>2 DEF Drop, Remount
  <2>2. Servers' /\ Shown' /\ Known' /\ UNCHANGED <<gets, snaps, refreshes>>
    BY <1>1, <1>3, <1>5, <1>6, <1>15 DEF Drop, Remount
  <2>3. connected' = FALSE /\ live' = {} /\ wire' = Silence /\ subs' \in {{}, subs}
    BY <1>6, <1>15 DEF Drop, Remount
  <2>4. Silence \in [Tickers -> Seq(1..MaxStamp)] /\ \A t \in Tickers : Silence[t] = <<>>
    BY NoSequence DEF Silence
  <2> QED BY <1>0, <2>1, <2>2, <2>3, <2>4 DEF Asked, Channels
<1>16. CASE UNCHANGED vars
  BY <1>1, <1>2, <1>3, <1>4, <1>5, <1>6, <1>16 DEF vars
<1> QED BY <1>7, <1>8, <1>9, <1>10, <1>11, <1>12, <1>13, <1>14, <1>15, <1>16 DEF Next

-----------------------------------------------------------------------------
(* The stamps *)

\* The events of the buffer are a set as well as a sequence.
LEMMA Indexed ==
  ASSUME NEW S, NEW seq \in Seq(S)
  PROVE  /\ ToSet(seq) \subseteq S
         /\ \A i \in 1..Len(seq) : seq[i] \in ToSet(seq)
         /\ \A e \in ToSet(seq) : \E i \in 1..Len(seq) : seq[i] = e
  BY DEF ToSet

\* A step that moves no ticker back leaves what it does not touch behind the moves.
LEMMA BehindParts ==
  ASSUME Servers, Servers', Shown, Asked, Channels, Behind,
         \A t \in Tickers : moved[t] <= moved'[t]
  PROVE  /\ \A t \in Tickers : /\ moved[t] \in Nat /\ moved'[t] \in Nat
                               /\ cached[t] <= moved'[t] /\ stored[t] <= moved'[t]
                               /\ fed[t] <= moved'[t]
         /\ \A t \in Tickers : \A a \in ToSet(wire[t]) : a \in Nat /\ a <= moved'[t]
         /\ \A e \in ToSet(buffer) : e \in Events /\ e.at \in Nat /\ e.at <= moved'[e.ticker]
         /\ \A t \in DOMAIN rows : t \in Tickers /\ rows[t] \in Nat /\ rows[t] <= moved'[t]
         /\ \A g \in Gets : \A t \in DOMAIN snaps[g] :
              t \in Tickers /\ snaps[g][t] \in Nat /\ snaps[g][t] <= moved'[t]
<1>1. \A t \in Tickers : /\ moved[t] \in Nat /\ moved'[t] \in Nat /\ moved[t] <= moved'[t]
                         /\ cached[t] \in Nat /\ stored[t] \in Nat /\ fed[t] \in Nat
  <2>1. \A t \in Tickers : moved'[t] \in Nat
    BY BoundsAssumption DEF Servers
  <2> QED BY <2>1, Stamps
<1>2. \A t \in Tickers : /\ cached[t] <= moved'[t] /\ stored[t] <= moved'[t]
                         /\ fed[t] <= moved'[t]
  BY <1>1 DEF Behind
<1>3. \A t \in Tickers : \A a \in ToSet(wire[t]) : a \in Nat /\ a <= moved'[t]
  <2>1. \A t \in Tickers : ToSet(wire[t]) \subseteq 1..MaxStamp
    BY Indexed DEF Channels
  <2>2. \A t \in Tickers : \A a \in ToSet(wire[t]) : a \in Nat
    BY <2>1, BoundsAssumption
  <2> QED BY <1>1, <2>2 DEF Behind
<1>4. \A e \in ToSet(buffer) : e \in Events /\ e.at \in Nat /\ e.at <= moved'[e.ticker]
  <2>1. ToSet(buffer) \subseteq Events
    BY Indexed DEF Shown
  <2>2. \A e \in Events : e.at \in Nat /\ e.ticker \in Tickers
    BY BoundsAssumption DEF Events
  <2> QED BY <1>1, <2>1, <2>2 DEF Behind
<1>5. \A t \in DOMAIN rows : t \in Tickers /\ rows[t] \in Nat /\ rows[t] <= moved'[t]
  <2>1. \A t \in DOMAIN rows : t \in Tickers /\ rows[t] \in Nat
    BY SnapshotParts DEF Shown
  <2> QED BY <1>1, <2>1 DEF Behind
<1>6. \A g \in Gets : \A t \in DOMAIN snaps[g] :
        t \in Tickers /\ snaps[g][t] \in Nat /\ snaps[g][t] <= moved'[t]
  <2>1. \A g \in Gets : snaps[g] \in Snapshots
    BY DEF Asked
  <2>2. \A g \in Gets : \A t \in DOMAIN snaps[g] : t \in Tickers /\ snaps[g][t] \in Nat
    BY <2>1, SnapshotParts
  <2> QED BY <1>1, <2>2 DEF Behind
<1> QED BY <1>1, <1>2, <1>3, <1>4, <1>5, <1>6

\* Every step keeps the stamps behind the moves of their tickers.
LEMMA BehindKept ==
  ASSUME TypeOK, TypeOK', Behind, [Next]_vars
  PROVE  Behind'
<1> DEFINE Stores == \A t \in Tickers :
                       cached[t] <= moved[t] /\ stored[t] <= moved[t] /\ fed[t] <= moved[t]
           Wire == \A t \in Tickers : \A a \in ToSet(wire[t]) : a <= moved[t]
           Buffer == \A e \in ToSet(buffer) : e.at <= moved[e.ticker]
           Rows == \A t \in DOMAIN rows : rows[t] <= moved[t]
           Snaps == \A g \in Gets : \A t \in DOMAIN snaps[g] : snaps[g][t] <= moved[t]
<1>0. /\ Servers /\ Channels /\ Shown /\ Asked /\ Known
      /\ Servers' /\ Channels' /\ Shown' /\ Asked' /\ Known'
  BY TypeParts DEF TypeOK, Servers, Channels, Shown, Asked, Known
<1>1. \A t \in Tickers : moved[t] <= moved'[t]
  <2>1. \A t \in Tickers : moved[t] \in Nat
    BY <1>0, Stamps
  <2>2. ASSUME NEW t \in Tickers, Move(t)
        PROVE  \A u \in Tickers : moved[u] <= moved'[u]
    <3>1. \A u \in Tickers : moved'[u] = IF u = t THEN moved[u] + 1 ELSE moved[u]
      BY <1>0, <2>2 DEF Move, Servers
    <3> QED BY <2>1, <3>1
  <2>3. UNCHANGED moved \/ \E t \in Tickers : Move(t)
    BY DEF Next, vars, servers, CacheWritten, TableWritten, FanOut, PublishLost, Subscribed,
           Toggle, Expire, Receive, Answer, ReadCache, ReadTable, Apply, Finish, Fail,
           Connect, Drop, Remount, Refresh
  <2> QED BY <2>1, <2>2, <2>3
<1>2. /\ \A t \in Tickers : /\ moved[t] \in Nat /\ moved'[t] \in Nat
                            /\ cached[t] <= moved'[t] /\ stored[t] <= moved'[t]
                            /\ fed[t] <= moved'[t]
      /\ \A t \in Tickers : \A a \in ToSet(wire[t]) : a \in Nat /\ a <= moved'[t]
      /\ \A e \in ToSet(buffer) : e \in Events /\ e.at \in Nat /\ e.at <= moved'[e.ticker]
      /\ \A t \in DOMAIN rows : t \in Tickers /\ rows[t] \in Nat /\ rows[t] <= moved'[t]
      /\ \A g \in Gets : \A t \in DOMAIN snaps[g] :
           t \in Tickers /\ snaps[g][t] \in Nat /\ snaps[g][t] <= moved'[t]
  BY <1>0, <1>1, BehindParts
<1>3. UNCHANGED <<cached, stored, fed>> => Stores'
  BY <1>2
<1>4. UNCHANGED wire => Wire'
  BY <1>2
<1>5. UNCHANGED buffer => Buffer'
  BY <1>2
<1>6. UNCHANGED rows => Rows'
  BY <1>2
<1>7. UNCHANGED snaps => Snaps'
  BY <1>2
<1>8. ToSet(<<>>) = {} /\ DOMAIN Empty = {}
  BY NoSequence DEF Empty
<1>9. /\ servers = <<moved, cached, stored, fed, watched>>
      /\ servers' = <<moved', cached', stored', fed', watched'>>
      /\ channel = <<live, wire, connected>> /\ channel' = <<live', wire', connected'>>
      /\ screen = <<subs, buffering, buffer, rows>>
      /\ screen' = <<subs', buffering', buffer', rows'>>
      /\ requests = <<gets, snaps, refreshes, drops>>
      /\ requests' = <<gets', snaps', refreshes', drops'>>
  BY DEF servers, channel, screen, requests
<1> HIDE DEF Stores, Wire, Buffer, Rows, Snaps
<1>10. ASSUME NEW t \in Tickers, \/ Move(t) \/ CacheWritten(t) \/ TableWritten(t) \/ FanOut(t)
                                 \/ PublishLost(t) \/ Toggle(t) \/ Expire(t) \/ Subscribed(t)
       PROVE  Stores' /\ Wire' /\ Buffer' /\ Rows' /\ Snaps'
  <2>1. UNCHANGED <<buffer, rows, snaps>>
    BY <1>9, <1>10 DEF Move, CacheWritten, TableWritten, FanOut, PublishLost, Toggle, Expire,
        Subscribed
  <2>2. Buffer' /\ Rows' /\ Snaps'
    BY <1>5, <1>6, <1>7, <2>1
  <2>3. Stores'
    <3>1. /\ \A u \in Tickers : cached'[u] \in {0, cached[u], moved'[u]}
          /\ \A u \in Tickers : stored'[u] \in {stored[u], moved'[u]}
          /\ \A u \in Tickers : fed'[u] \in {fed[u], moved'[u]}
      BY <1>0, <1>9, <1>10 DEF Servers, Move, CacheWritten, TableWritten, FanOut, PublishLost,
          Toggle,
                               Expire, Subscribed
    <3> QED BY <1>2, <3>1 DEF Stores
  <2>4. Wire'
    <3>1. CASE UNCHANGED wire
      BY <1>4, <3>1
    <3>2. CASE wire' = [wire EXCEPT ![t] = Append(wire[t], moved[t])] /\ FanOut(t)
      <4>1. moved[t] \in 1..MaxStamp /\ UNCHANGED moved
        BY <1>0, <3>2, Published DEF FanOut
      <4>2. ToSet(Append(wire[t], moved[t])) = ToSet(wire[t]) \cup {moved[t]}
        <5>1. wire[t] \in Seq(1..MaxStamp)
          BY <1>0 DEF Channels
        <5> QED BY <4>1, <5>1, PublishedSet
      <4>3. \A u \in Tickers : wire'[u] = IF u = t THEN Append(wire[t], moved[t]) ELSE wire[u]
        BY <1>0, <3>2 DEF Channels
      <4>4. \A u \in Tickers : \A a \in ToSet(wire'[u]) : a <= moved'[u]
        BY <1>2, <4>1, <4>2, <4>3
      <4> QED BY <4>4 DEF Wire
    <3> QED BY <1>9, <1>10, <3>1, <3>2 DEF Move, CacheWritten, TableWritten, FanOut, PublishLost,
                                            Toggle, Expire, Subscribed
  <2> QED BY <2>2, <2>3, <2>4
<1>11. ASSUME NEW t \in Tickers, Receive(t)
       PROVE  Stores' /\ Wire' /\ Buffer' /\ Rows' /\ Snaps'
  <2> DEFINE ev == [ticker |-> t, at |-> Head(wire[t])]
  <2>1. Stores' /\ Snaps' /\ UNCHANGED moved
    BY <1>3, <1>7, <1>9, <1>11 DEF Receive
  <2>2. /\ ev \in Events /\ t \in live /\ wire' = [wire EXCEPT ![t] = Tail(wire[t])]
        /\ ToSet(wire[t]) = {ev.at} \cup ToSet(Tail(wire[t]))
    BY <1>0, <1>11, ReceiveParts
  <2>3. \/ buffer' = Append(buffer, ev) /\ UNCHANGED rows
        \/ rows' = ApplyEvent(rows, ev) /\ UNCHANGED buffer
    BY <1>11 DEF Receive
  <2>4. ev.ticker = t /\ ev.at \in Nat /\ ev.at <= moved'[t]
    BY <1>2, <2>2
  <2> HIDE DEF ev
  <2>5. Wire'
    <3>1. \A u \in Tickers : wire'[u] = IF u = t THEN Tail(wire[t]) ELSE wire[u]
      BY <1>0, <2>2 DEF Channels
    <3>2. \A u \in Tickers : \A a \in ToSet(wire'[u]) : a <= moved'[u]
      BY <1>2, <2>2, <3>1
    <3> QED BY <3>2 DEF Wire
  <2>6. CASE buffer' = Append(buffer, ev) /\ UNCHANGED rows
    <3>1. ToSet(buffer') = ToSet(buffer) \cup {ev}
      BY <1>0, <2>2, <2>6, AppendedSet DEF Shown
    <3>2. \A e \in ToSet(buffer') : e.at <= moved'[e.ticker]
      BY <1>2, <2>4, <3>1
    <3> QED BY <1>6, <2>1, <2>5, <2>6, <3>2 DEF Buffer
  <2>7. CASE rows' = ApplyEvent(rows, ev) /\ UNCHANGED buffer
    <3>1. /\ DOMAIN rows' = DOMAIN rows
          /\ \A u \in DOMAIN rows : rows'[u] = rows[u] \/ (ev.ticker = u /\ rows'[u] = ev.at)
      BY <1>0, <2>2, <2>7, ApplyEventHolds DEF Shown
    <3>2. \A u \in DOMAIN rows' : rows'[u] <= moved'[u]
      BY <1>2, <2>4, <3>1
    <3> QED BY <1>5, <2>1, <2>5, <2>7, <3>2 DEF Rows
  <2> QED BY <2>3, <2>6, <2>7
<1>12. ASSUME NEW g \in Gets, Answer(g) \/ ReadTable(g)
       PROVE  Stores' /\ Wire' /\ Buffer' /\ Rows' /\ Snaps'
  <2>1. UNCHANGED <<servers, channel, screen>>
    BY <1>12 DEF Answer, ReadCache, ReadTable
  <2>2. Stores' /\ Wire' /\ Buffer' /\ Rows'
    BY <1>3, <1>4, <1>5, <1>6, <1>9, <2>1
  <2> DEFINE New(snap) ==
               /\ snaps' = [snaps EXCEPT ![g] = snap] /\ DOMAIN snap \subseteq Tickers
               /\ \A t \in DOMAIN snap : \/ snap[t] \in {0, cached[t], stored[t]}
                                         \/ t \in DOMAIN snaps[g] /\ snap[t] = snaps[g][t]
  <2>3. \E snap : New(snap)
    <3>1. ASSUME NEW found \in SUBSET watched, ReadCache(g, found)
          PROVE  \E snap : New(snap)
      <4> DEFINE snap == [t \in watched |-> IF t \in found THEN cached[t] ELSE 0]
      <4>1. New(snap)
        BY <1>0, <3>1 DEF ReadCache, Servers
      <4> QED BY <4>1
    <3>2. ASSUME ReadTable(g)
          PROVE  \E snap : New(snap)
      <4> DEFINE snap == [t \in DOMAIN snaps[g] |-> IF snaps[g][t] = 0 THEN stored[t] ELSE snaps[g][t]]
      <4>1. snaps[g] \in Snapshots
        BY <1>0 DEF Asked
      <4>2. DOMAIN snaps[g] \subseteq Tickers
        BY <4>1, SnapshotParts
      <4>3. snaps' = [snaps EXCEPT ![g] = snap]
        BY <1>0, <3>2 DEF ReadTable, Asked
      <4>4. New(snap)
        BY <4>2, <4>3
      <4> QED BY <4>4
    <3> QED BY <1>12, <3>1, <3>2 DEF Answer
  <2>4. PICK snap : New(snap)
    BY <2>3
  <2>5. \A t \in DOMAIN snap : snap[t] <= moved'[t]
    BY <1>2, <2>4
  <2>6. \A h \in Gets : snaps'[h] = IF h = g THEN snap ELSE snaps[h]
    BY <1>0, <2>4 DEF Asked
  <2>7. \A h \in Gets : \A t \in DOMAIN snaps'[h] : snaps'[h][t] <= moved'[t]
    BY <1>2, <2>5, <2>6
  <2> QED BY <2>2, <2>7 DEF Snaps
<1>13. ASSUME NEW g \in Gets, Apply(g)
       PROVE  Stores' /\ Wire' /\ Buffer' /\ Rows' /\ Snaps'
  <2>1. /\ snaps' = [snaps EXCEPT ![g] = Empty] /\ buffer' = <<>> /\ UNCHANGED servers
        /\ wire' = [t \in Tickers |-> IF t \in DOMAIN snaps[g] THEN wire[t] ELSE <<>>]
        /\ rows' = Drained(snaps[g], buffer)
    BY <1>13 DEF Apply, Finish
  <2>2. Stores'
    BY <1>3, <1>9, <2>1
  <2>3. Wire'
    <3>1. \A t \in Tickers : wire'[t] \in {wire[t], <<>>}
      BY <2>1
    <3>2. \A t \in Tickers : \A a \in ToSet(wire'[t]) : a <= moved'[t]
      BY <1>2, <1>8, <3>1
    <3> QED BY <3>2 DEF Wire
  <2>4. Buffer'
    BY <1>8, <2>1 DEF Buffer
  <2>5. Snaps'
    <3>1. \A h \in Gets : snaps'[h] = IF h = g THEN Empty ELSE snaps[h]
      BY <1>0, <2>1 DEF Asked
    <3>2. \A h \in Gets : \A t \in DOMAIN snaps'[h] : snaps'[h][t] <= moved'[t]
      BY <1>2, <1>8, <3>1
    <3> QED BY <3>2 DEF Snaps
  <2>6. Rows'
    <3>1. snaps[g] \in Snapshots /\ buffer \in Seq(Events)
      BY <1>0 DEF Asked, Shown
    <3>2. /\ DOMAIN rows' = DOMAIN snaps[g]
          /\ \A t \in DOMAIN rows' :
               \/ rows'[t] = snaps[g][t]
               \/ \E i \in 1..Len(buffer) : buffer[i].ticker = t /\ rows'[t] = buffer[i].at
      BY <2>1, <3>1, DrainedHolds
    <3>3. \A i \in 1..Len(buffer) : buffer[i] \in ToSet(buffer)
      BY <3>1, Indexed
    <3>4. \A t \in DOMAIN rows' : rows'[t] <= moved'[t]
      BY <1>2, <3>2, <3>3
    <3> QED BY <3>4 DEF Rows
  <2> QED BY <2>2, <2>3, <2>4, <2>5, <2>6
<1>14. ASSUME NEW g \in Gets, Fail(g)
       PROVE  Stores' /\ Wire' /\ Buffer' /\ Rows' /\ Snaps'
  <2>1. snaps' = [snaps EXCEPT ![g] = Empty] /\ UNCHANGED <<servers, channel, buffer, rows>>
    BY <1>14 DEF Fail
  <2>2. \A h \in Gets : snaps'[h] = IF h = g THEN Empty ELSE snaps[h]
    BY <1>0, <2>1 DEF Asked
  <2>3. \A h \in Gets : \A t \in DOMAIN snaps'[h] : snaps'[h][t] <= moved'[t]
    BY <1>2, <1>8, <2>2
  <2>4. Snaps'
    BY <2>3 DEF Snaps
  <2> QED BY <1>3, <1>4, <1>5, <1>6, <1>9, <2>1, <2>4
<1>15. CASE Connect \/ Refresh
  <2>1. UNCHANGED <<servers, wire, rows, snaps>> /\ buffer' = <<>>
    BY <1>9, <1>15 DEF Connect, Refresh, StartResync
  <2>2. Buffer'
    BY <1>8, <2>1 DEF Buffer
  <2>3. Stores' /\ Wire' /\ Buffer' /\ Rows' /\ Snaps'
    BY <1>3, <1>4, <1>6, <1>7, <1>9, <2>1, <2>2
  <2> QED BY <2>3 DEF Behind, Stores, Wire, Buffer, Rows, Snaps
<1>16. CASE Drop \/ Remount
  <2>1. UNCHANGED <<servers, buffer, rows, snaps>> /\ wire' = Silence
    BY <1>9, <1>16 DEF Drop, Remount
  <2>2. \A t \in Tickers : \A a \in ToSet(wire'[t]) : a <= moved'[t]
    BY <1>8, <2>1 DEF Silence
  <2>3. Wire'
    BY <2>2 DEF Wire
  <2>4. Stores' /\ Wire' /\ Buffer' /\ Rows' /\ Snaps'
    BY <1>3, <1>5, <1>6, <1>7, <1>9, <2>1, <2>3
  <2> QED BY <2>4 DEF Behind, Stores, Wire, Buffer, Rows, Snaps
<1>17. CASE UNCHANGED vars
  <2>1. Stores' /\ Wire' /\ Buffer' /\ Rows' /\ Snaps'
    BY <1>3, <1>4, <1>5, <1>6, <1>7, <1>9, <1>17 DEF vars
  <2> QED BY <2>1 DEF Behind, Stores, Wire, Buffer, Rows, Snaps
<1>18. Stores' /\ Wire' /\ Buffer' /\ Rows' /\ Snaps' => Behind'
  BY DEF Behind, Stores, Wire, Buffer, Rows, Snaps
<1> QED BY <1>10, <1>11, <1>12, <1>13, <1>14, <1>15, <1>16, <1>17, <1>18 DEF Next

-----------------------------------------------------------------------------
(* The resync *)

\* The steps that neither start nor end a resync, nor read for one.
Aside ==
  \/ \E t \in Tickers : \/ Move(t) \/ CacheWritten(t) \/ TableWritten(t) \/ FanOut(t)
                        \/ PublishLost(t) \/ Subscribed(t) \/ Toggle(t) \/ Expire(t) \/ Receive(t)
  \/ Drop \/ Remount \/ UNCHANGED vars

\* The steps, sorted by what they are to a resync.
LEMMA StepKinds ==
  ASSUME [Next]_vars
  PROVE  \/ Aside \/ Connect \/ Refresh
         \/ \E g \in Gets : Answer(g) \/ ReadTable(g) \/ Apply(g) \/ Fail(g)
  BY DEF Next, Aside

\* The steps aside leave the resync as it is.
LEMMA AsideLeaves ==
  ASSUME Aside
  PROVE  UNCHANGED <<gets, snaps, sync, buffering>>
  BY DEF Aside, Move, CacheWritten, TableWritten, FanOut, PublishLost, Subscribed, Toggle,
         Expire, Receive, Drop, Remount, screen, requests, history, vars

\* A resync started runs alone if and only if no request was under way.
LEMMA StartAlone ==
  ASSUME Asked, StartResync
  PROVE  /\ buffering' /\ sync' \in {"running", "overlapped"}
         /\ sync' = "running" =>
              \E g \in Gets : /\ \A h \in Gets : h # g => gets'[h] = "free"
                              /\ gets'[g] = "sent"
<1>1. PICK g \in Gets : gets[g] = "free" /\ gets' = [gets EXCEPT ![g] = "sent"]
  BY DEF StartResync
<1>2. \A h \in Gets : gets'[h] = IF h = g THEN "sent" ELSE gets[h]
  BY <1>1 DEF Asked
<1>3. sync' = "running" => \A h \in Gets : gets[h] = "free"
  BY DEF StartResync
<1>4. buffering' /\ sync' \in {"running", "overlapped"}
  BY DEF StartResync
<1> QED BY <1>2, <1>3, <1>4

\* Every step keeps count of the requests under way.
LEMMA RunsAloneKept ==
  ASSUME TypeOK, RunsAlone, [Next]_vars
  PROVE  RunsAlone'
<1>0. Asked /\ Known
  BY TypeParts
<1>1. CASE Aside
  BY <1>1, AsideLeaves DEF RunsAlone
<1>2. CASE Connect \/ Refresh
  <2>1. StartResync
    BY <1>2 DEF Connect, Refresh
  <2> QED BY <1>0, <2>1, StartAlone DEF RunsAlone
<1>3. ASSUME NEW g \in Gets, Answer(g) \/ ReadTable(g)
      PROVE  RunsAlone'
  <2>1. UNCHANGED <<sync, buffering>> /\ gets[g] # "free"
    BY <1>3 DEF Answer, ReadCache, ReadTable, screen
  <2>2. \A h \in Gets : gets'[h] # "free" => gets[h] # "free"
    BY <1>0, <1>3, <2>1 DEF Answer, ReadCache, ReadTable, Asked
  <2> QED BY <2>1, <2>2 DEF RunsAlone
<1>4. ASSUME NEW g \in Gets, Apply(g) \/ Fail(g)
      PROVE  RunsAlone'
  <2>1. /\ gets' = [gets EXCEPT ![g] = "free"] /\ gets[g] # "free" /\ ~ buffering'
        /\ \/ sync = "running" /\ sync' \in {"done", "failed"}
           \/ sync # "running" /\ sync' = sync
    BY <1>4 DEF Apply, Finish, Fail
  <2>2. \A h \in Gets : gets'[h] = IF h = g THEN "free" ELSE gets[h]
    BY <1>0, <2>1 DEF Asked
  <2>3. CASE sync = "running"
    <3>1. \A h \in Gets : gets'[h] = "free"
      BY <2>1, <2>2, <2>3 DEF RunsAlone
    <3> QED BY <2>1, <2>3, <3>1 DEF RunsAlone
  <2>4. CASE sync # "running"
    BY <2>1, <2>2, <2>4 DEF RunsAlone
  <2> QED BY <2>3, <2>4
<1> QED BY <1>1, <1>2, <1>3, <1>4, StepKinds

\* Every step keeps the rows, and the snapshot they will be, those of the watchlist.
LEMMA MembershipKept ==
  ASSUME TypeOK, TypeOK', RunsAlone, Membership, [Next]_vars
  PROVE  Membership'
<1>0. Asked /\ Shown /\ Servers /\ Known /\ Asked'
  BY TypeParts DEF TypeOK, Asked
<1>1. \A g \in Gets : snaps[g] \in Snapshots
  BY <1>0 DEF Asked
<1>2. CASE Aside
  <2>1. UNCHANGED <<gets, snaps, sync, buffering>>
    BY <1>2, AsideLeaves
  <2>2. DOMAIN rows' = DOMAIN rows
    <3>1. ASSUME NEW t \in Tickers, Receive(t)
          PROVE  DOMAIN rows' = DOMAIN rows
      BY <3>1 DEF Receive, ApplyEvent
    <3>2. UNCHANGED rows \/ \E t \in Tickers : Receive(t)
      BY <1>2 DEF Aside, Move, CacheWritten, TableWritten, FanOut, PublishLost, Subscribed,
          Toggle,
                  Expire, Drop, Remount, screen, vars
    <3> QED BY <3>1, <3>2
  <2>3. refreshes' = 0 => /\ refreshes = 0 /\ unseen \subseteq unseen'
                          /\ \A u \in Tickers \ unseen' : u \in watched' <=> u \in watched
    <3>1. ASSUME NEW t \in Tickers, Toggle(t), refreshes' = 0
          PROVE  /\ refreshes = 0 /\ unseen' = unseen \cup {t}
                 /\ \A u \in Tickers \ {t} : u \in watched' <=> u \in watched
      <4>1. refreshes \in 0..MaxGets /\ MaxGets \in Nat
        BY <1>0, BoundsAssumption DEF Asked
      <4>2. refreshes + 1 # 0
        BY <4>1
      <4> QED BY <3>1, <4>2 DEF Toggle
    <3>2. UNCHANGED <<watched, refreshes, unseen>> \/ \E t \in Tickers : Toggle(t)
      BY <1>2 DEF Aside, Move, CacheWritten, TableWritten, FanOut, PublishLost, Subscribed,
                  Expire, Receive, Drop, Remount, servers, requests, history, vars
    <3> QED BY <3>1, <3>2
  <2>4. connected' => connected /\ subs' = subs
    BY <1>2 DEF Aside, Move, CacheWritten, TableWritten, FanOut, PublishLost, Subscribed, Toggle,
                Expire, Receive, Drop, Remount, channel, screen, vars
  <2>5. refreshes' = 0 /\ AsTold(DOMAIN rows) => AsTold(DOMAIN rows)'
    BY <2>2, <2>3 DEF AsTold
  <2>6. \A g \in Gets :
          refreshes' = 0 /\ AsTold(DOMAIN snaps[g]) => AsTold(DOMAIN snaps[g])'
    BY <2>1, <2>3 DEF AsTold
  <2> QED BY <2>1, <2>2, <2>3, <2>4, <2>5, <2>6 DEF Membership
<1>3. CASE Connect \/ Refresh
  <2>1. StartResync
    BY <1>3 DEF Connect, Refresh
  <2>2. /\ sync' \in {"running", "overlapped"}
        /\ sync' = "running" => \A h \in Gets : gets'[h] \in {"free", "sent"}
    BY <1>0, <2>1, StartAlone
  <2> QED BY <2>2 DEF Membership
<1>4. ASSUME NEW g \in Gets, Answer(g) \/ ReadTable(g)
      PROVE  Membership'
  <2>1. UNCHANGED <<servers, channel, screen, refreshes, sync>> /\ gets[g] # "free"
    BY <1>4 DEF Answer, ReadCache, ReadTable
  <2>2. UNCHANGED <<watched, rows, subs, connected>>
    BY <2>1 DEF servers, channel, screen
  <2>3. \A h \in Gets : h # g => gets'[h] = gets[h] /\ snaps'[h] = snaps[h]
    BY <1>0, <1>4 DEF Answer, ReadCache, ReadTable, Asked
  <2>4. sync = "running" => \A h \in Gets : h # g => gets[h] = "free"
    BY <2>1 DEF RunsAlone
  <2>5. \/ AsTold(DOMAIN snaps[g])'
        \/ /\ gets[g] = "missing" /\ DOMAIN snaps'[g] = DOMAIN snaps[g]
           /\ unseen' = unseen
    <3>1. ASSUME NEW found, ReadCache(g, found) PROVE DOMAIN snaps'[g] = watched
      BY <1>0, <3>1 DEF ReadCache, Asked
    <3>2. ReadTable(g) => /\ gets[g] = "missing" /\ DOMAIN snaps'[g] = DOMAIN snaps[g]
                          /\ unseen' = unseen
      BY <1>0 DEF ReadTable, Asked
    <3> QED BY <1>4, <2>2, <3>1, <3>2 DEF Answer, AsTold
  <2>6. sync # "done"
    BY <2>1 DEF RunsAlone
  <2>7. ASSUME refreshes' = 0, sync' = "running", NEW h \in Gets,
               gets'[h] \in {"missing", "answered"}
        PROVE  AsTold(DOMAIN snaps[h])'
    <3>1. h = g /\ refreshes = 0 /\ sync = "running"
      BY <2>1, <2>3, <2>4, <2>7
    <3>2. gets[g] = "missing" => AsTold(DOMAIN snaps[g])
      BY <3>1 DEF Membership
    <3> QED BY <2>2, <2>5, <3>1, <3>2 DEF AsTold
  <2> QED BY <2>1, <2>6, <2>7 DEF Membership
<1>5. ASSUME NEW g \in Gets, Apply(g)
      PROVE  Membership'
  <2>1. /\ gets[g] = "answered" /\ UNCHANGED <<servers, refreshes>>
        /\ rows' = Drained(snaps[g], buffer) /\ subs' = DOMAIN snaps[g]
        /\ sync' = IF sync = "running" THEN "done" ELSE sync
    BY <1>5 DEF Apply, Finish
  <2>2. DOMAIN rows' = DOMAIN snaps[g]
    BY <1>0, <1>1, <2>1, DrainedHolds DEF Shown
  <2>3. UNCHANGED <<watched, unseen>>
    BY <1>5, <2>1 DEF servers, Apply, Finish
  <2>4. sync \in {"running", "overlapped"}
    BY <1>0, <2>1 DEF RunsAlone, Known
  <2>5. sync' # "running"
    BY <2>1
  <2>6. refreshes = 0 /\ sync = "running" => AsTold(DOMAIN rows)'
    <3>1. refreshes = 0 /\ sync = "running" => AsTold(DOMAIN snaps[g])
      BY <2>1 DEF Membership
    <3> QED BY <2>2, <2>3, <3>1 DEF AsTold
  <2> QED BY <2>1, <2>2, <2>4, <2>5, <2>6 DEF Membership
<1>6. ASSUME NEW g \in Gets, Fail(g)
      PROVE  Membership'
  <2>1. sync \in {"running", "overlapped"} /\ sync' \in {"failed", "overlapped"}
    BY <1>0, <1>6 DEF Fail, RunsAlone, Known
  <2> QED BY <2>1 DEF Membership
<1> QED BY <1>2, <1>3, <1>4, <1>5, <1>6, StepKinds

-----------------------------------------------------------------------------
(* The merge *)

\* Whatever a step does to the channels of a connected client, what was in transit still
\* is, and a publication it makes is in transit or missed.
LEMMA AsideCarries ==
  ASSUME TypeOK, Behind, Aside, connected', NEW t \in Tickers, missed'[t] = "no"
  PROVE  /\ connected
         /\ \/ InTransit(t)'
            \/ /\ missed[t] = "no" /\ fed'[t] = fed[t]
               /\ \/ ~ InTransit(t)
                  \/ ~ buffering /\ (t \in DOMAIN rows => rows'[t] >= fed[t])
<1>0. Servers /\ Channels /\ Shown /\ Asked /\ Known
  BY TypeParts
<1>1. buffering' = buffering /\ connected
  BY AsideLeaves DEF Aside, Move, CacheWritten, TableWritten, FanOut, PublishLost, Subscribed,
     Toggle, Expire, Receive, Drop, Remount, channel, vars
<1>2. ASSUME UNCHANGED <<fed, missed, wire, buffer>>
      PROVE  \/ InTransit(t)'
             \/ missed[t] = "no" /\ fed'[t] = fed[t] /\ ~ InTransit(t)
  BY <1>1, <1>2 DEF InTransit
<1>3. ASSUME NEW u \in Tickers, FanOut(u) \/ PublishLost(u)
      PROVE  \/ InTransit(t)'
             \/ missed[t] = "no" /\ fed'[t] = fed[t] /\ ~ InTransit(t)
  <2>1. UNCHANGED <<buffer, moved>> /\ fed' = [fed EXCEPT ![u] = moved[u]]
    BY <1>3 DEF FanOut, PublishLost, screen
  <2>2. CASE t = u
    <3>1. FanOut(u) /\ u \in live /\ moved[t] \in 1..MaxStamp
      BY <1>0, <1>3, <2>2, Published DEF FanOut, PublishLost, Known
    <3>2. wire' = [wire EXCEPT ![t] = Append(wire[t], moved[t])] /\ fed'[t] = moved[t]
      BY <1>0, <2>1, <2>2, <3>1 DEF FanOut, Servers
    <3>3. wire[t] \in Seq(1..MaxStamp) /\ wire'[t] = Append(wire[t], moved[t])
      BY <1>0, <3>2 DEF Channels
    <3>4. ToSet(Append(wire[t], moved[t])) = ToSet(wire[t]) \cup {moved[t]}
      BY <3>1, <3>3, PublishedSet
    <3>5. fed'[t] \in ToSet(wire'[t])
      BY <3>2, <3>3, <3>4
    <3> QED BY <3>5 DEF InTransit
  <2>3. CASE t # u
    <3>1. fed'[t] = fed[t] /\ wire'[t] = wire[t] /\ missed'[t] = missed[t]
      BY <1>0, <1>3, <2>1, <2>3 DEF FanOut, PublishLost, Servers, Channels, Known, channel
    <3> QED BY <1>1, <2>1, <3>1 DEF InTransit
  <2> QED BY <2>2, <2>3
<1>4. ASSUME NEW u \in Tickers, Receive(u)
      PROVE  \/ InTransit(t)'
             \/ /\ missed[t] = "no" /\ fed'[t] = fed[t]
                /\ \/ ~ InTransit(t)
                   \/ ~ buffering /\ (t \in DOMAIN rows => rows'[t] >= fed[t])
  <2> DEFINE ev == [ticker |-> u, at |-> Head(wire[u])]
  <2>1. /\ ev \in Events /\ wire' = [wire EXCEPT ![u] = Tail(wire[u])]
        /\ ToSet(wire[u]) = {ev.at} \cup ToSet(Tail(wire[u]))
    BY <1>0, <1>4, ReceiveParts
  <2>2. UNCHANGED <<fed, missed>>
    BY <1>4 DEF Receive, servers, history
  <2>3. \/ buffering /\ buffer' = Append(buffer, ev)
        \/ ~ buffering /\ rows' = ApplyEvent(rows, ev)
    BY <1>4 DEF Receive
  <2>4. ev.ticker = u /\ ev = [ticker |-> u, at |-> ev.at]
    OBVIOUS
  <2> HIDE DEF ev
  <2>5. wire'[t] = IF t = u THEN Tail(wire[t]) ELSE wire[t]
    BY <1>0, <2>1 DEF Channels
  <2>6. CASE buffering /\ buffer' = Append(buffer, ev)
    <3>1. ToSet(buffer') = ToSet(buffer) \cup {ev}
      BY <1>0, <2>1, <2>6, AppendedSet DEF Shown
    <3>2. InTransit(t) => InTransit(t)'
      BY <1>1, <2>1, <2>2, <2>4, <2>5, <2>6, <3>1 DEF InTransit
    <3> QED BY <2>2, <3>2
  <2>7. CASE ~ buffering /\ rows' = ApplyEvent(rows, ev)
    <3>1. InTransit(t) => InTransit(t)' \/ (t = u /\ fed[t] = ev.at)
      BY <2>1, <2>2, <2>5, <2>7 DEF InTransit
    <3>2. t \in DOMAIN rows /\ t = u => rows'[t] >= ev.at
      BY <1>0, <2>1, <2>4, <2>7, ApplyEventHolds DEF Shown
    <3> QED BY <2>2, <2>7, <3>1, <3>2
  <2> QED BY <2>3, <2>6, <2>7
<1>5. \/ UNCHANGED <<fed, missed, wire, buffer>>
      \/ \E u \in Tickers : FanOut(u) \/ PublishLost(u) \/ Receive(u)
  BY DEF Aside, Move, CacheWritten, TableWritten, Subscribed, Toggle, Expire, Drop, Remount,
         servers, channel, screen, history, vars
<1> QED BY <1>1, <1>2, <1>3, <1>4, <1>5

\* No step loses a publication without counting it as missed.
LEMMA MergeKept ==
  ASSUME MergeInv, TypeOK', [Next]_vars
  PROVE  Merge'
<1>0. /\ TypeOK /\ Behind /\ RunsAlone /\ Merge
      /\ Servers /\ Channels /\ Shown /\ Asked /\ Known /\ Servers'
  BY TypeParts DEF MergeInv, TypeOK, Servers
<1>1. /\ \A t \in Tickers : fed[t] \in Nat /\ cached[t] \in Nat /\ stored[t] \in Nat
      /\ \A g \in Gets : snaps[g] \in Snapshots
      /\ \A g \in Gets : \A t \in DOMAIN snaps[g] : t \in Tickers /\ snaps[g][t] \in Nat
      /\ \A t \in DOMAIN rows : t \in Tickers /\ rows[t] \in Nat
  <2>1. \A g \in Gets : snaps[g] \in Snapshots
    BY <1>0 DEF Asked
  <2> QED BY <1>0, <2>1, Stamps, SnapshotParts DEF Shown
<1>2. CASE Aside
  <2>1. UNCHANGED <<gets, snaps, sync, buffering>>
    BY <1>2, AsideLeaves
  <2>2. /\ DOMAIN rows' = DOMAIN rows
        /\ \A t \in DOMAIN rows : rows'[t] \in Nat /\ rows'[t] >= rows[t]
    <3>1. ASSUME NEW u \in Tickers, Receive(u)
          PROVE  /\ DOMAIN rows' = DOMAIN rows
                 /\ \A t \in DOMAIN rows : rows'[t] \in Nat /\ rows'[t] >= rows[t]
      <4> DEFINE ev == [ticker |-> u, at |-> Head(wire[u])]
      <4>1. ev \in Events
        BY <1>0, <3>1, ReceiveParts
      <4>2. UNCHANGED rows \/ rows' = ApplyEvent(rows, ev)
        BY <3>1 DEF Receive
      <4> HIDE DEF ev
      <4>3. /\ ApplyEvent(rows, ev) \in Snapshots /\ DOMAIN ApplyEvent(rows, ev) = DOMAIN rows
            /\ \A t \in DOMAIN rows : ApplyEvent(rows, ev)[t] >= rows[t]
        BY <1>0, <4>1, ApplyEventHolds DEF Shown
      <4>4. \A t \in DOMAIN ApplyEvent(rows, ev) : ApplyEvent(rows, ev)[t] \in Nat
        BY <4>3, SnapshotParts
      <4> QED BY <1>1, <4>2, <4>3, <4>4
    <3>2. UNCHANGED rows \/ \E u \in Tickers : Receive(u)
      BY <1>2 DEF Aside, Move, CacheWritten, TableWritten, FanOut, PublishLost, Subscribed,
          Toggle,
                  Expire, Drop, Remount, screen, vars
    <3> QED BY <1>1, <3>1, <3>2
  <2>3. SUFFICES ASSUME connected' PROVE Merge'
    BY DEF Merge
  <2>4. ASSUME sync = "running", NEW g \in Gets, NEW t \in DOMAIN snaps[g], Read(g, t),
               missed'[t] = "no"
        PROVE  snaps[g][t] >= fed'[t] \/ InTransit(t)'
    <3>1. t \in Tickers /\ buffering
      BY <1>0, <1>1, <2>4 DEF RunsAlone
    <3>2. \/ InTransit(t)'
          \/ connected /\ missed[t] = "no" /\ fed'[t] = fed[t] /\ ~ InTransit(t)
      BY <1>0, <1>2, <2>3, <2>4, <3>1, AsideCarries
    <3> QED BY <1>0, <2>4, <3>2 DEF Merge
  <2>5. ASSUME sync = "done", NEW t \in DOMAIN rows, missed'[t] = "no"
        PROVE  rows'[t] >= fed'[t] \/ InTransit(t)'
    <3>1. t \in Tickers
      BY <1>1
    <3>2. \/ InTransit(t)'
          \/ /\ connected /\ missed[t] = "no" /\ fed'[t] = fed[t]
             /\ ~ InTransit(t) \/ rows'[t] >= fed[t]
      BY <1>0, <1>2, <2>3, <2>5, <3>1, AsideCarries
    <3>3. CASE connected /\ missed[t] = "no" /\ fed'[t] = fed[t] /\ ~ InTransit(t)
      <4>1. rows[t] >= fed[t]
        BY <1>0, <2>5, <3>3 DEF Merge
      <4> QED BY <1>1, <2>2, <3>1, <3>3, <4>1
    <3> QED BY <3>2, <3>3
  <2>6. \A g, t : Read(g, t)' <=> Read(g, t)
    BY <2>1 DEF Read
  <2> QED BY <2>1, <2>2, <2>4, <2>5, <2>6 DEF Merge
<1>3. CASE Connect \/ Refresh
  <2>1. StartResync /\ UNCHANGED snaps
    BY <1>3 DEF Connect, Refresh, requests
  <2>2. /\ sync' \in {"running", "overlapped"}
        /\ sync' = "running" => \A h \in Gets : gets'[h] \in {"free", "sent"}
    BY <1>0, <2>1, StartAlone
  <2> QED BY <2>2 DEF Merge, Read
<1>4. ASSUME NEW g \in Gets, Answer(g) \/ ReadTable(g)
      PROVE  Merge'
  <2>1. UNCHANGED <<servers, channel, screen, refreshes, sync>> /\ gets[g] # "free"
    BY <1>4 DEF Answer, ReadCache, ReadTable
  <2>2. /\ UNCHANGED <<fed, wire, buffer, buffering, rows, connected>>
        /\ \A t \in Tickers : InTransit(t)' <=> InTransit(t)
    BY <2>1 DEF servers, channel, screen, InTransit
  <2>3. SUFFICES ASSUME connected, sync = "running", NEW h \in Gets, NEW t \in DOMAIN snaps'[h],
                        Read(h, t)', missed'[t] = "no"
                 PROVE  snaps'[h][t] >= fed[t] \/ InTransit(t)'
    BY <1>0, <2>1, <2>2 DEF Merge, RunsAlone
  <2>4. h = g
    <3>1. h # g => gets[h] = "free" /\ gets'[h] = gets[h]
      BY <1>0, <1>4, <2>1, <2>3 DEF RunsAlone, Answer, ReadCache, ReadTable, Asked
    <3> QED BY <2>3, <3>1 DEF Read
  <2>5. ASSUME NEW found \in SUBSET watched, ReadCache(g, found)
        PROVE  snaps'[g][t] >= fed[t] \/ InTransit(t)
    <3> DEFINE snap == [u \in watched |-> IF u \in found THEN cached[u] ELSE 0]
               missing == {u \in watched : snap[u] = 0}
    <3>1. /\ snaps'[g] = snap /\ gets'[g] = IF missing = {} THEN "answered" ELSE "missing"
          /\ missed' = [u \in Tickers |->
                          IF u \in missing THEN missed[u]
                          ELSE IF cached[u] < fed[u] /\ ~ InTransit(u) THEN "lagging" ELSE "no"]
      BY <1>0, <2>5 DEF ReadCache, Asked
    <3>2. t \in watched /\ t \in Tickers /\ snaps'[g][t] = snap[t]
      BY <1>0, <2>3, <2>4, <3>1 DEF Servers
    <3>3. t \notin missing
      BY <2>3, <2>4, <3>1, <3>2 DEF Read
    <3>4. snap[t] = cached[t]
      BY <3>2, <3>3
    <3>5. ~ (cached[t] < fed[t] /\ ~ InTransit(t))
      BY <2>3, <3>1, <3>2, <3>3
    <3> QED BY <1>1, <3>2, <3>4, <3>5
  <2>6. CASE ReadTable(g)
    <3> DEFINE missing == {u \in DOMAIN snaps[g] : snaps[g][u] = 0}
    <3>1. /\ gets[g] = "missing" /\ DOMAIN snaps'[g] = DOMAIN snaps[g]
          /\ snaps'[g] = [u \in DOMAIN snaps[g] |-> IF u \in missing THEN stored[u] ELSE snaps[g][u]]
          /\ missed' = [u \in Tickers |->
                          IF u \notin missing THEN missed[u]
                          ELSE IF stored[u] < fed[u] /\ ~ InTransit(u) THEN "lagging" ELSE "no"]
      BY <1>0, <2>6 DEF ReadTable, Asked
    <3>2. t \in DOMAIN snaps[g] /\ t \in Tickers
      BY <1>1, <2>3, <2>4, <3>1
    <3>3. CASE t \in missing
      <4>1. ~ (stored[t] < fed[t] /\ ~ InTransit(t)) /\ snaps'[g][t] = stored[t]
        BY <2>3, <3>1, <3>2, <3>3
      <4> QED BY <1>1, <2>2, <2>4, <3>2, <4>1
    <3>4. CASE t \notin missing
      <4>1. missed[t] = "no" /\ snaps'[g][t] = snaps[g][t] /\ snaps[g][t] # 0
        BY <2>3, <3>1, <3>2, <3>4
      <4>2. snaps[g][t] >= fed[t] \/ InTransit(t)
        BY <1>0, <2>3, <3>1, <3>2, <4>1 DEF Merge, Read
      <4> QED BY <2>2, <2>4, <3>2, <4>1, <4>2
    <3> QED BY <3>3, <3>4
  <2>7. t \in Tickers
    <3>1. \A u \in DOMAIN snaps'[g] : u \in watched \/ u \in DOMAIN snaps[g]
      BY <1>0, <1>4 DEF Answer, ReadCache, ReadTable, Asked
    <3> QED BY <1>0, <1>1, <2>3, <2>4, <3>1 DEF Servers
  <2> QED BY <1>4, <2>2, <2>4, <2>5, <2>6, <2>7 DEF Answer
<1>5. ASSUME NEW g \in Gets, Apply(g)
      PROVE  Merge'
  <2>1. /\ gets[g] = "answered" /\ UNCHANGED <<servers, connected, missed>> /\ ~ buffering'
        /\ wire' = [t \in Tickers |-> IF t \in DOMAIN snaps[g] THEN wire[t] ELSE <<>>]
        /\ rows' = Drained(snaps[g], buffer)
        /\ sync' = IF sync = "running" THEN "done" ELSE sync
    BY <1>5 DEF Apply, Finish
  <2>2. sync \in {"running", "overlapped"}
    BY <1>0, <2>1 DEF RunsAlone, Known
  <2>3. fed' = fed
    BY <2>1 DEF servers
  <2>4. SUFFICES ASSUME connected, sync = "running", NEW t \in DOMAIN rows', missed[t] = "no"
                 PROVE  rows'[t] >= fed[t] \/ InTransit(t)'
    BY <2>1, <2>2, <2>3 DEF Merge
  <2>5. /\ rows' \in Snapshots /\ DOMAIN rows' = DOMAIN snaps[g] /\ rows'[t] >= snaps[g][t]
        /\ \A i \in 1..Len(buffer) : buffer[i].ticker = t => rows'[t] >= buffer[i].at
    BY <1>0, <1>1, <2>1, <2>4, DrainedHolds DEF Shown
  <2>6. t \in Tickers /\ rows'[t] \in Nat /\ snaps[g][t] \in Nat /\ fed[t] \in Nat
    BY <1>1, <2>4, <2>5, SnapshotParts
  <2>7. snaps[g][t] >= fed[t] \/ InTransit(t)
    BY <1>0, <2>1, <2>4, <2>5 DEF Merge, Read
  <2>8. CASE snaps[g][t] >= fed[t]
    BY <2>5, <2>6, <2>8
  <2>9. CASE fed[t] \in ToSet(wire[t])
    <3>1. wire'[t] = wire[t]
      BY <2>1, <2>5, <2>6
    <3> QED BY <2>3, <2>9, <3>1 DEF InTransit
  <2>10. CASE [ticker |-> t, at |-> fed[t]] \in ToSet(buffer)
    <3>1. PICK i \in 1..Len(buffer) : buffer[i] = [ticker |-> t, at |-> fed[t]]
      BY <1>0, <2>10, Indexed DEF Shown
    <3> QED BY <2>5, <3>1
  <2> QED BY <2>7, <2>8, <2>9, <2>10 DEF InTransit
<1>6. ASSUME NEW g \in Gets, Fail(g)
      PROVE  Merge'
  <2>1. sync \in {"running", "overlapped"} /\ sync' \in {"failed", "overlapped"}
    BY <1>0, <1>6 DEF Fail, RunsAlone, Known
  <2> QED BY <2>1 DEF Merge
<1> QED BY <1>2, <1>3, <1>4, <1>5, <1>6, StepKinds

-----------------------------------------------------------------------------
(* The invariant and what follows from it *)

\* MergeInv is inductive.
LEMMA MergeInductive == Spec => []MergeInv
<1>1. Init => MergeInv
  <2> SUFFICES ASSUME Init PROVE MergeInv
    OBVIOUS
  <2>0. /\ moved = [t \in Tickers |-> 0] /\ cached = moved /\ stored = moved /\ fed = moved
        /\ watched \subseteq Tickers /\ live = {} /\ wire = Silence /\ connected = FALSE
        /\ subs = {} /\ buffering = TRUE /\ buffer = <<>> /\ rows = Empty
        /\ gets = [g \in Gets |-> "free"] /\ snaps = [g \in Gets |-> Empty]
        /\ refreshes = 0 /\ drops = 0 /\ sync = "none" /\ missed = [t \in Tickers |-> "no"]
        /\ unseen = {}
    BY DEF Init
  <2>1. ToSet(<<>>) = {} /\ DOMAIN Empty = {} /\ \A t \in Tickers : Silence[t] = <<>>
    BY NoSequence DEF Empty, Silence
  <2>2. Servers
    <3>1. moved \in [Tickers -> 0..MaxStamp]
      BY <2>0, BoundsAssumption
    <3> QED BY <2>0, <3>1 DEF Servers
  <2>3. Channels
    BY <2>0, NoSequence DEF Channels, Silence
  <2>4. Shown
    BY <2>0, EmptyIsSnapshot, NoSequence DEF Shown
  <2>5. Asked
    <3>1. 0 \in 0..MaxGets /\ 0 \in 0..MaxDrops
      BY BoundsAssumption
    <3> QED BY <2>0, <3>1, EmptyIsSnapshot DEF Asked
  <2>6. Known
    BY <2>0 DEF Known
  <2>7. TypeOK
    BY <2>2, <2>3, <2>4, <2>5, <2>6, TypeParts
  <2>8. Behind
    <3>1. \A t \in Tickers : /\ moved[t] = 0 /\ cached[t] = 0 /\ stored[t] = 0 /\ fed[t] = 0
                             /\ wire[t] = <<>>
      BY <2>0, <2>1
    <3>2. \A g \in Gets : DOMAIN snaps[g] = {}
      BY <2>0, <2>1
    <3>3. DOMAIN rows = {} /\ ToSet(buffer) = {}
      BY <2>0, <2>1
    <3> QED BY <2>1, <3>1, <3>2, <3>3 DEF Behind
  <2>9. RunsAlone /\ Membership /\ Merge
    BY <2>0 DEF RunsAlone, Membership, Merge
  <2> QED BY <2>7, <2>8, <2>9 DEF MergeInv
<1>2. MergeInv /\ [Next]_vars => MergeInv'
  BY TypesKept, BehindKept, RunsAloneKept, MembershipKept, MergeKept DEF MergeInv
<1> QED BY <1>1, <1>2, PTL DEF Spec

\* Every variable of the servers, the channel and the client has its type, and nothing is
\* under way for a channel the client is not subscribed to.
THEOREM PushTypes == Spec => []TypeOK
<1>1. MergeInv => TypeOK
  BY DEF MergeInv
<1> QED BY <1>1, MergeInductive, PTL

\* Once nothing is under way the client is subscribed to the rows it shows, no more, no less.
THEOREM SubscribedToRows == Spec => []ChannelsFollowRows
<1>1. MergeInv => ChannelsFollowRows
  BY DEF MergeInv, Membership, ChannelsFollowRows, Quiet
<1> QED BY <1>1, MergeInductive, PTL

\* Once nothing is under way, after a resync that ran alone, the screen is the watchlist,
\* but for the changes whose answer was lost since it was read, with the current prices,
\* but for those that neither stream could bring.
THEOREM MergeConverges == Spec => []ScreenConverges
<1>1. MergeInv => ScreenConverges
  <2> SUFFICES ASSUME MergeInv, Quiet
               PROVE  /\ AsTold(DOMAIN rows)
                      /\ \A t \in DOMAIN rows : rows[t] = moved[t] \/ missed[t] # "no"
    BY DEF ScreenConverges
  <2>1. AsTold(DOMAIN rows)
    BY DEF MergeInv, Membership, Quiet
  <2>2. ASSUME NEW t \in DOMAIN rows, missed[t] = "no"
        PROVE  rows[t] = moved[t]
    <3>1. Servers /\ Shown /\ t \in Tickers
      <4>1. Servers /\ Shown
        BY TypeParts DEF MergeInv
      <4>2. DOMAIN rows \subseteq Tickers
        BY <4>1, SnapshotParts DEF Shown
      <4> QED BY <4>1, <4>2
    <3>2. wire[t] = <<>> /\ ~ buffering
      BY <3>1 DEF MergeInv, RunsAlone, Quiet, Silence
    <3>3. ~ InTransit(t)
      BY <3>2, NoSequence DEF InTransit
    <3>4. rows[t] >= fed[t] /\ fed[t] = moved[t] /\ rows[t] <= moved[t]
      BY <2>2, <3>1, <3>3 DEF MergeInv, Merge, Behind, Quiet
    <3>5. rows[t] \in Nat /\ moved[t] \in Nat
      BY <2>2, <3>1, SnapshotParts, Stamps DEF Shown
    <3> QED BY <3>4, <3>5
  <2> QED BY <2>1, <2>2
<1> QED BY <1>1, MergeInductive, PTL

\* An event never moves a row back, whether it is received live or drained: only a snapshot
\* that replaces the rows does.
THEOREM EventsMoveForward == Spec => RowsMoveForward
<1>1. MergeInv /\ [Next]_vars =>
        \A t \in DOMAIN rows \cap DOMAIN rows' :
          rows'[t] < rows[t] => \E g \in Gets : gets[g] = "answered" /\ gets'[g] = "free"
  <2> SUFFICES ASSUME MergeInv, [Next]_vars, NEW t \in DOMAIN rows, t \in DOMAIN rows',
                      rows'[t] < rows[t]
               PROVE  \E g \in Gets : gets[g] = "answered" /\ gets'[g] = "free"
    OBVIOUS
  <2>0. Channels /\ Shown /\ Asked
    BY TypeParts DEF MergeInv
  <2>1. rows[t] \in Nat
    BY <2>0, SnapshotParts DEF Shown
  <2>2. ~ UNCHANGED rows
    BY <2>1
  <2>3. \/ \E u \in Tickers : Receive(u)
        \/ \E g \in Gets : Apply(g)
    BY <2>2 DEF Next, Move, CacheWritten, TableWritten, FanOut, PublishLost, Subscribed, Toggle,
                Expire, Answer, ReadCache, ReadTable, Fail, Connect, Drop, Remount, Refresh,
                screen, vars
  <2>4. ASSUME NEW u \in Tickers, Receive(u) PROVE FALSE
    <3> DEFINE ev == [ticker |-> u, at |-> Head(wire[u])]
    <3>1. ev \in Events /\ rows' = ApplyEvent(rows, ev)
      BY <2>0, <2>2, <2>4, ReceiveParts DEF Receive
    <3> HIDE DEF ev
    <3>2. rows'[t] >= rows[t] /\ rows' \in Snapshots
      BY <2>0, <3>1, ApplyEventHolds DEF Shown
    <3>3. rows'[t] \in Nat
      BY <3>2, SnapshotParts
    <3> QED BY <2>1, <3>2, <3>3
  <2>5. ASSUME NEW g \in Gets, Apply(g)
        PROVE  gets[g] = "answered" /\ gets'[g] = "free"
    BY <2>0, <2>5 DEF Apply, Finish, Asked
  <2> QED BY <2>3, <2>4, <2>5
<1> QED BY <1>1, MergeInductive, PTL DEF Spec, RowsMoveForward
=============================================================================
