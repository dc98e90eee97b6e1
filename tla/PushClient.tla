----------------------------- MODULE PushClient -----------------------------
(***************************************************************************)
(* A browser on TRANSPORT=push: usePushPrices.js merges two streams of one *)
(* price, the publications of the ticker's channel and the snapshots of    *)
(* GET /watchlist.  A price is its stamp (effective_at), 0 for none; the   *)
(* price service, the API and Centrifugo are as much of themselves as the  *)
(* client can see: a tick writes the cache and the table and publishes, in *)
(* any order; a snapshot is read from the cache, and from the table for    *)
(* what the cache does not have.                                           *)
(***************************************************************************)
EXTENDS Integers, Sequences, SequencesExt

CONSTANTS Tickers,
          MaxStamp,  \* bound: the ticks in which a ticker moves
          MaxGets,   \* bound: snapshots requested and not yet answered
          MaxDrops,  \* bound: connections lost
          Faults     \* which of "drop", "remount", "fail", "lost", "expire" and
                     \* "redis" may happen

ASSUME BoundsAssumption == MaxStamp \in Nat /\ MaxGets \in Nat \ {0} /\ MaxDrops \in Nat
ASSUME FaultsAssumption == Faults \subseteq {"drop", "remount", "fail", "lost", "expire", "redis"}

Gets == 1..MaxGets

VARIABLES
  \* the servers
  moved,     \* ticker -> stamp of its last price change
  cached,    \* ticker -> stamp of its key in Redis, 0 for none
  stored,    \* ticker -> stamp of its row in latest_prices, 0 for none
  fed,       \* ticker -> stamp of its last publication
  watched,   \* the tickers of the user's watchlist
  live,      \* the channels Centrifugo has this client subscribed to
  wire,      \* channel -> stamps on their way to the client; the WebSocket keeps their
             \* order, and that between channels nothing tells apart
  \* the client
  connected, \* the WebSocket is up
  subs,      \* keys of the subs map
  buffering, \* events are buffered
  buffer,    \* events received while buffering
  rows,      \* byTicker: ticker -> stamp, for the rows shown
  gets,      \* request -> "free", "sent", "missing" (the cache is read) or "answered"
  snaps,     \* request -> the snapshot as read so far
  refreshes, \* add and remove calls answered, refresh() still to run
  drops,     \* connections lost so far
  \* history, read by the properties only
  sync,      \* how the last resync went
  missed,    \* ticker -> why neither stream can bring its last publication, or "no"
  unseen     \* tickers added or removed without an answer, and no snapshot read since

servers == <<moved, cached, stored, fed, watched>>
channel == <<live, wire, connected>>
screen == <<subs, buffering, buffer, rows>>
requests == <<gets, snaps, refreshes, drops>>
history == <<sync, missed, unseen>>
vars == <<servers, channel, screen, requests, history>>

Empty == [t \in {} |-> 0]
Events == [ticker : Tickers, at : 1..MaxStamp]
Snapshots == UNION {[S -> 0..MaxStamp] : S \in SUBSET Tickers}
Silence == [t \in Tickers |-> <<>>]

Init ==
  /\ moved = [t \in Tickers |-> 0] /\ cached = moved /\ stored = moved /\ fed = moved
  /\ watched \in SUBSET Tickers
  /\ live = {} /\ wire = Silence /\ connected = FALSE
  /\ subs = {} /\ buffering = TRUE /\ buffer = <<>> /\ rows = Empty
  /\ gets = [g \in Gets |-> "free"] /\ snaps = [g \in Gets |-> Empty]
  /\ refreshes = 0 /\ drops = 0
  /\ sync = "none" /\ missed = [t \in Tickers |-> "no"] /\ unseen = {}

-----------------------------------------------------------------------------
(* The servers *)

\* A tick of the price service in which the ticker moves; the one before it has
\* made its three writes.
Move(t) ==
  /\ cached[t] \in {0, moved[t]} /\ stored[t] = moved[t] /\ fed[t] = moved[t]
  /\ moved[t] < MaxStamp
  /\ moved' = [moved EXCEPT ![t] = @ + 1]
  /\ UNCHANGED <<cached, stored, fed, watched, channel, screen, requests, history>>

\* The cache write, of this tick or, for a key that was lost, of one without a move.
CacheWritten(t) ==
  /\ cached[t] # moved[t]
  /\ cached' = [cached EXCEPT ![t] = moved[t]]
  /\ UNCHANGED <<moved, stored, fed, watched, channel, screen, requests, history>>

Expire(t) ==
  /\ "expire" \in Faults /\ cached[t] # 0
  /\ cached' = [cached EXCEPT ![t] = 0]
  /\ UNCHANGED <<moved, stored, fed, watched, channel, screen, requests, history>>

TableWritten(t) ==
  /\ stored[t] # moved[t]
  /\ stored' = [stored EXCEPT ![t] = moved[t]]
  /\ UNCHANGED <<moved, cached, fed, watched, channel, screen, requests, history>>

\* Centrifugo fans the publication out to the client if it is subscribed by then.
FanOut(t) ==
  /\ fed[t] # moved[t]
  /\ fed' = [fed EXCEPT ![t] = moved[t]]
  /\ IF t \in live
     THEN wire' = [wire EXCEPT ![t] = Append(@, moved[t])]
     ELSE UNCHANGED wire
  /\ missed' = [missed EXCEPT ![t] = IF t \in live THEN "no" ELSE "unsubscribed"]
  /\ UNCHANGED <<moved, cached, stored, watched, live, connected, screen, requests, sync, unseen>>

\* The publish failed: nobody is sent it.
PublishLost(t) ==
  /\ "lost" \in Faults /\ fed[t] # moved[t]
  /\ fed' = [fed EXCEPT ![t] = moved[t]]
  /\ missed' = [missed EXCEPT ![t] = "lost"]
  /\ UNCHANGED <<moved, cached, stored, watched, channel, screen, requests, sync, unseen>>

\* Centrifugo establishes a subscription the client asked for.
Subscribed(t) ==
  /\ connected /\ t \in subs \ live
  /\ live' = live \cup {t}
  /\ UNCHANGED <<servers, wire, connected, screen, requests, history>>

\* A price the client is still to be given by its channel.
InTransit(t) ==
  \/ fed[t] \in ToSet(wire[t])
  \/ buffering /\ [ticker |-> t, at |-> fed[t]] \in ToSet(buffer)

\* The API reads membership and the cache (MGET): the tickers missing there are read
\* from the table next, if there are any.
ReadCache(g, found) ==
  LET snap == [t \in watched |-> IF t \in found THEN cached[t] ELSE 0]
      missing == {t \in watched : snap[t] = 0}
  IN
  /\ gets[g] = "sent"
  /\ snaps' = [snaps EXCEPT ![g] = snap]
  /\ gets' = [gets EXCEPT ![g] = IF missing = {} THEN "answered" ELSE "missing"]
  /\ missed' = [t \in Tickers |->
                  IF t \in missing THEN missed[t]
                  ELSE IF cached[t] < fed[t] /\ ~ InTransit(t) THEN "lagging" ELSE "no"]
  /\ unseen' = {}
  /\ UNCHANGED <<servers, channel, screen, refreshes, drops, sync>>

\* With the cache up, every key it has; with it down (or not configured), none.
Answer(g) ==
  \/ ReadCache(g, watched)
  \/ "redis" \in Faults /\ ReadCache(g, {})

\* Seeded bug: what the cache does not have is left without a price.
ReadNothing(g) ==
  /\ gets[g] = "missing"
  /\ gets' = [gets EXCEPT ![g] = "answered"]
  /\ UNCHANGED <<servers, channel, screen, snaps, refreshes, drops, history>>

\* The SELECT for the tickers missing in the cache.
ReadTable(g) ==
  LET missing == {t \in DOMAIN snaps[g] : snaps[g][t] = 0} IN
  /\ gets[g] = "missing"
  /\ snaps' = [snaps EXCEPT ![g] = [t \in DOMAIN @ |-> IF t \in missing THEN stored[t] ELSE @[t]]]
  /\ gets' = [gets EXCEPT ![g] = "answered"]
  /\ missed' = [t \in Tickers |->
                  IF t \notin missing THEN missed[t]
                  ELSE IF stored[t] < fed[t] /\ ~ InTransit(t) THEN "lagging" ELSE "no"]
  /\ UNCHANGED <<servers, channel, screen, refreshes, drops, sync, unseen>>

-----------------------------------------------------------------------------
(* The client *)

\* Seeded bug: an event is applied whatever the row holds already.
ApplyAnyEvent(shown, ev) ==
  IF ev.ticker \in DOMAIN shown THEN [shown EXCEPT ![ev.ticker] = ev.at] ELSE shown

\* applyEvent: only for a row that is shown, and only if it is newer.
ApplyEvent(shown, ev) ==
  IF ev.ticker \in DOMAIN shown /\ ev.at > shown[ev.ticker]
  THEN [shown EXCEPT ![ev.ticker] = ev.at]
  ELSE shown

\* The loop over the buffer.
Drained(shown, events) ==
  LET after[n \in 0..Len(events)] ==
        IF n = 0 THEN shown ELSE ApplyEvent(after[n - 1], events[n])
  IN after[Len(events)]

\* resync up to its await: the request is sent, the buffer is started afresh.
StartResync ==
  /\ \E g \in Gets : gets[g] = "free" /\ gets' = [gets EXCEPT ![g] = "sent"]
  /\ buffering' = TRUE /\ buffer' = <<>>
  /\ sync' = IF \A g \in Gets : gets[g] = "free" THEN "running" ELSE "overlapped"

\* The connected event: subscriptions kept over a reconnect are asked for again,
\* and a snapshot is requested without waiting for them.
Connect ==
  /\ ~ connected /\ connected' = TRUE
  /\ StartResync
  /\ UNCHANGED <<servers, live, wire, subs, rows, snaps, refreshes, drops, missed, unseen>>

\* Seeded bug: what the old connection had under way still reaches the client.
DropLate ==
  /\ "drop" \in Faults /\ connected /\ drops < MaxDrops
  /\ connected' = FALSE /\ live' = {} /\ drops' = drops + 1
  /\ UNCHANGED <<servers, wire, screen, gets, snaps, refreshes, history>>

\* The WebSocket is lost with what was on it; centrifuge-js will reconnect.
Drop ==
  /\ "drop" \in Faults /\ connected /\ drops < MaxDrops
  /\ connected' = FALSE /\ live' = {} /\ wire' = Silence /\ drops' = drops + 1
  /\ UNCHANGED <<servers, screen, gets, snaps, refreshes, history>>

\* The token changed (a session refresh): the effect is torn down and run again,
\* with a new connection and no subscription; the rows stay on screen.
Remount ==
  /\ "remount" \in Faults /\ drops < MaxDrops
  /\ connected' = FALSE /\ live' = {} /\ wire' = Silence /\ drops' = drops + 1
  /\ subs' = {}
  /\ UNCHANGED <<servers, buffering, buffer, rows, gets, snaps, refreshes, history>>

\* A publication reaches the client.
Receive(t) ==
  LET ev == [ticker |-> t, at |-> Head(wire[t])] IN
  /\ wire[t] # <<>> /\ wire' = [wire EXCEPT ![t] = Tail(@)]
  /\ IF buffering
     THEN buffer' = Append(buffer, ev) /\ UNCHANGED rows
     ELSE rows' = ApplyEvent(rows, ev) /\ UNCHANGED buffer
  /\ UNCHANGED <<servers, live, connected, subs, buffering, requests, history>>

\* What every version of the continuation of resync does besides.
Finish(g, members) ==
  /\ gets[g] = "answered"
  /\ gets' = [gets EXCEPT ![g] = "free"] /\ snaps' = [snaps EXCEPT ![g] = Empty]
  /\ wire' = [t \in Tickers |-> IF t \in members THEN wire[t] ELSE <<>>]
  /\ live' = live \cap members
  /\ buffering' = FALSE /\ buffer' = <<>>
  /\ sync' = IF sync = "running" THEN "done" ELSE sync
  /\ UNCHANGED <<servers, connected, refreshes, drops, missed, unseen>>

\* Seeded bugs: the buffer is not drained, or only additions reach the channels.
ApplyUndrained(g) ==
  /\ Finish(g, DOMAIN snaps[g])
  /\ rows' = snaps[g] /\ subs' = DOMAIN snaps[g]
ApplyKeepingSubs(g) ==
  /\ Finish(g, Tickers)
  /\ rows' = Drained(snaps[g], buffer)
  /\ subs' = subs \cup DOMAIN snaps[g]

\* resync after its await: the snapshot replaces the rows, the subscriptions
\* follow the membership, and the buffer is drained over it.
Apply(g) ==
  /\ Finish(g, DOMAIN snaps[g])
  /\ rows' = Drained(snaps[g], buffer)
  /\ subs' = DOMAIN snaps[g]

\* The request failed: live events are applied again, the buffered ones are not.
Fail(g) ==
  /\ "fail" \in Faults /\ gets[g] # "free"
  /\ gets' = [gets EXCEPT ![g] = "free"] /\ snaps' = [snaps EXCEPT ![g] = Empty]
  /\ buffering' = FALSE
  /\ sync' = IF sync = "running" THEN "failed" ELSE sync
  /\ UNCHANGED <<servers, channel, subs, buffer, rows, refreshes, drops, missed, unseen>>

\* Seeded bug: an add asks for no snapshot.
ToggleOnly(t) ==
  /\ watched' = watched \cup {t}
  /\ UNCHANGED <<moved, cached, stored, fed, channel, screen, requests, history>>

\* The user adds a stock, which does nothing to one already there, or removes one that is
\* there.  refresh() runs once the answer is in; when the answer is lost the change
\* stays and nothing asks for it.
Toggle(t) ==
  /\ \/ watched' = watched \cup {t}
     \/ t \in watched /\ watched' = watched \ {t}
  /\ \/ refreshes < MaxGets /\ refreshes' = refreshes + 1 /\ UNCHANGED unseen
     \/ "fail" \in Faults /\ watched' # watched /\ unseen' = unseen \cup {t}
        /\ UNCHANGED refreshes
  /\ UNCHANGED <<moved, cached, stored, fed, channel, screen, gets, snaps, drops, sync, missed>>

Refresh ==
  /\ refreshes > 0 /\ refreshes' = refreshes - 1
  /\ StartResync
  /\ UNCHANGED <<servers, channel, subs, rows, snaps, drops, missed, unseen>>

-----------------------------------------------------------------------------
Next ==
  \/ \E t \in Tickers : \/ Move(t) \/ CacheWritten(t) \/ TableWritten(t)
                        \/ FanOut(t) \/ PublishLost(t) \/ Subscribed(t)
                        \/ Toggle(t) \/ Expire(t) \/ Receive(t)
  \/ \E g \in Gets : Answer(g) \/ ReadTable(g) \/ Apply(g) \/ Fail(g)
  \/ Connect \/ Drop \/ Remount \/ Refresh

Spec == Init /\ [][Next]_vars

-----------------------------------------------------------------------------
(* Properties *)

\* Every variable has its type.  Nothing is under way for a channel not subscribed.
TypeOK ==
  /\ \A f \in {moved, cached, stored, fed} : f \in [Tickers -> 0..MaxStamp]
  /\ watched \subseteq Tickers /\ live \subseteq subs /\ subs \subseteq Tickers
  /\ wire \in [Tickers -> Seq(1..MaxStamp)] /\ buffer \in Seq(Events)
  /\ \A t \in Tickers \ live : wire[t] = <<>>
  /\ connected \in BOOLEAN /\ buffering \in BOOLEAN
  /\ rows \in Snapshots /\ snaps \in [Gets -> Snapshots]
  /\ gets \in [Gets -> {"free", "sent", "missing", "answered"}]
  /\ refreshes \in 0..MaxGets /\ drops \in 0..MaxDrops
  /\ sync \in {"none", "running", "overlapped", "done", "failed"}
  /\ missed \in [Tickers -> {"no", "unsubscribed", "lagging", "lost"}]
  /\ unseen \subseteq Tickers

\* Nothing is under way, and the last resync ran alone and succeeded.
Quiet ==
  /\ connected /\ wire = Silence /\ refreshes = 0 /\ sync = "done"
  /\ \A g \in Gets : gets[g] = "free"
  /\ \A t \in Tickers : cached[t] = moved[t] /\ stored[t] = moved[t] /\ fed[t] = moved[t]

\* The tickers of S are the watchlist's, the changes nobody told the client of apart.
AsTold(S) == \A t \in Tickers \ unseen : t \in S <=> t \in watched

\* The merge loses nothing it was given: once nothing is under way, the screen shows
\* the watchlist, but for the stocks whose add or remove was committed and never
\* answered after the last snapshot was read (nothing is requested for those); and
\* each row shown is at the current price, but for the tickers whose last
\* publication fell where neither stream could bring it: before the channel was
\* subscribed and after the snapshot was read, or dropped, or applied before a
\* resync whose snapshot is older than it.
ScreenConverges ==
  Quiet => /\ AsTold(DOMAIN rows)
           /\ \A t \in DOMAIN rows : rows[t] = moved[t] \/ missed[t] # "no"

\* The subscriptions are exactly those of the rows shown, so no channel of a
\* removed stock is left behind and no row is left without one.
ChannelsFollowRows == Quiet => subs = DOMAIN rows

\* The rule "discarding anything older than what was applied": whatever the order
\* of the two streams, a row shown moves back in time only when a snapshot replaces
\* it, never by an event.
RowsMoveForward ==
  [][\A t \in DOMAIN rows \cap DOMAIN rows' :
       rows'[t] < rows[t] => \E g \in Gets : gets[g] = "answered" /\ gets'[g] = "free"]_vars

\* "Read-then-subscribe would drop any update landing in the gap": once nothing is
\* under way a row shown is current, unless its publish failed or a snapshot was read
\* before the cache had the price.
NoGap ==
  Quiet => \A t \in DOMAIN rows : rows[t] = moved[t] \/ missed[t] \in {"lost", "lagging"}
=============================================================================
