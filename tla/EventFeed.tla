----------------------------- MODULE EventFeed -----------------------------
(***************************************************************************)
(* The admin activity feed, end to end.                                    *)
(*                                                                         *)
(*   plugin threads     RedisManager.publishAndRecord: PUBLISH, then LPUSH, *)
(*                      then LTRIM, three separate Redis commands          *)
(*   Redis              the list audio:recent-events and the channel       *)
(*                      audio:events                                       *)
(*   relay              one admin_ws_session task per connection: LRANGE,  *)
(*                      replay, sentinel, SUBSCRIBE, forward               *)
(*   portal             EventsPage: ticket, WebSocket, feed, reconnection  *)
(*                                                                         *)
(* Every event is published by a task of its own (a virtual thread of the  *)
(* proxy, or a call on a server's main thread), so an event also stands    *)
(* for the task that publishes it.  A connection is used once: a page that *)
(* reconnects takes a new one, and the relay task of the old one lives on  *)
(* until it notices.                                                       *)
(***************************************************************************)
EXTENDS Integers, Sequences, FiniteSets

CONSTANTS
    Events,     \* the events published during a behaviour
    Conns,      \* admin WebSocket connections
    Pages,      \* mounted EventsPage components
    Cap,        \* RECENT_EVENTS_CAP: LTRIM keeps the indices 0..Cap
    FeedCap,    \* the page keeps this many entries (500 in the code)
    HistoryEnd, \* the frame {"type":"__history_end__"}
    NoConn      \* a page without a WebSocket

ASSUME CapAssumption == Cap \in Nat
ASSUME FeedCapAssumption == FeedCap \in Nat \ {0}
ASSUME EventsAssumption == IsFiniteSet(Events)
ASSUME SentinelAssumption == HistoryEnd \notin Events
ASSUME NoConnAssumption == NoConn \notin Conns

VARIABLES
    pc,         \* next command of the event's publishAndRecord
    failed,     \* events whose task was ended by a Jedis exception
    recent,     \* audio:recent-events, newest first
    subscribed, \* connections whose relay task is subscribed to audio:events
    pubsub,     \* messages Redis delivered to that task, not yet taken
    task,       \* where the relay task of the connection is
    history,    \* replies of LRANGE still to be replayed, newest first
    sent,       \* frames the relay task has written to the socket
    link,       \* the connection as the browser knows it
    read,       \* how many frames the page has handled
    page,       \* connState of the page, or "unmounted"
    cur,        \* wsRef of the page
    feed,       \* events shown by the page, newest first
    pushed,     \* history variable: every LPUSH ever done, newest first
    earlier     \* history variable: the events over when this one went out

publisherVars == <<pc, failed, recent, pushed, earlier>>
relayVars == <<subscribed, task, history, sent>>
pageVars == <<link, read, page, cur, feed>>
vars == <<pc, failed, recent, pushed, earlier, subscribed, pubsub, task,
          history, sent, link, read, page, cur, feed>>

-----------------------------------------------------------------------------
Steps == {"publish", "lpush", "ltrim", "done"}
TaskStates == {"none", "lrange", "replay", "subscribe", "live", "closed"}
LinkStates == {"unused", "opening", "open", "closed", "lost"}
PageStates == {"connecting", "live", "reconnecting", "error", "unmounted"}

\* The newest n entries of a newest-first sequence.
Newest(s, n) == SubSeq(s, 1, IF Len(s) < n THEN Len(s) ELSE n)

IsPublished(e) == pc[e] # "publish"
IsPushed(e) == pc[e] \in {"ltrim", "done"}

\* The task that publishes e will issue no further command.
IsOver(e) == pc[e] = "done" \/ (e \in failed /\ IsPublished(e))

Init ==
    /\ pc = [e \in Events |-> "publish"]
    /\ failed = {}
    /\ recent = <<>>
    /\ subscribed = {}
    /\ pubsub = [c \in Conns |-> <<>>]
    /\ task = [c \in Conns |-> "none"]
    /\ history = [c \in Conns |-> <<>>]
    /\ sent = [c \in Conns |-> <<>>]
    /\ link = [c \in Conns |-> "unused"]
    /\ read = [c \in Conns |-> 0]
    /\ page = [p \in Pages |-> "connecting"]
    /\ cur = [p \in Pages |-> NoConn]
    /\ feed = [p \in Pages |-> <<>>]
    /\ pushed = <<>>
    /\ earlier = [e \in Events |-> {}]

-----------------------------------------------------------------------------
(* Plugin: RedisManager.publishAndRecord, one command per step.            *)

\* Redis hands the message to every connection subscribed at this moment.
Publish(e) ==
    /\ pc[e] = "publish" /\ e \notin failed
    /\ pc' = [pc EXCEPT ![e] = "lpush"]
    /\ pubsub' = [c \in Conns |->
                    IF c \in subscribed THEN Append(pubsub[c], e) ELSE pubsub[c]]
    /\ earlier' = [earlier EXCEPT ![e] = {x \in Events : IsOver(x)}]
    /\ UNCHANGED <<failed, recent, pushed, relayVars, pageVars>>

Lpush(e) ==
    /\ pc[e] = "lpush" /\ e \notin failed
    /\ pc' = [pc EXCEPT ![e] = "ltrim"]
    /\ recent' = <<e>> \o recent
    /\ pushed' = <<e>> \o pushed
    /\ UNCHANGED <<failed, earlier, pubsub, relayVars, pageVars>>

\* Mutants of Ltrim: one entry too few is kept; LTRIM is forgotten.
LtrimOneShort(e) ==
    /\ pc[e] = "ltrim" /\ e \notin failed
    /\ pc' = [pc EXCEPT ![e] = "done"]
    /\ recent' = Newest(recent, Cap)
    /\ UNCHANGED <<failed, pushed, earlier, pubsub, relayVars, pageVars>>

LtrimForgotten(e) ==
    /\ pc[e] = "ltrim" /\ e \notin failed
    /\ pc' = [pc EXCEPT ![e] = "done"]
    /\ UNCHANGED <<failed, recent, pushed, earlier, pubsub, relayVars, pageVars>>

Ltrim(e) ==
    /\ pc[e] = "ltrim" /\ e \notin failed
    /\ pc' = [pc EXCEPT ![e] = "done"]
    /\ recent' = Newest(recent, Cap + 1)
    /\ UNCHANGED <<failed, pushed, earlier, pubsub, relayVars, pageVars>>

\* pool.getResource() or a command throws: the remaining commands are skipped.
PublisherFails(e) ==
    /\ pc[e] # "done" /\ e \notin failed
    /\ failed' = failed \cup {e}
    /\ UNCHANGED <<pc, recent, pushed, earlier, pubsub, relayVars, pageVars>>

PublisherStep(e) == Publish(e) \/ Lpush(e) \/ Ltrim(e)

-----------------------------------------------------------------------------
(* Relay: admin_ws_handler and admin_ws_session.                           *)

\* Mutant of Accept: the session subscribes before it reads the list.
AcceptSubscribed(c) ==
    /\ link[c] = "opening"
    /\ link' = [link EXCEPT ![c] = "open"]
    /\ task' = [task EXCEPT ![c] = "lrange"]
    /\ subscribed' = subscribed \cup {c}
    /\ UNCHANGED <<publisherVars, pubsub, history, sent, read, page, cur, feed>>

\* The ticket is valid: the handler upgrades and spawns the session task.
Accept(c) ==
    /\ link[c] = "opening"
    /\ link' = [link EXCEPT ![c] = "open"]
    /\ task' = [task EXCEPT ![c] = "lrange"]
    /\ UNCHANGED <<publisherVars, subscribed, pubsub, history, sent, read,
                   page, cur, feed>>

\* 400, 401 or 500 instead of the upgrade: the ticket expired or Redis failed.
Reject(c) ==
    /\ link[c] = "opening"
    /\ link' = [link EXCEPT ![c] = "closed"]
    /\ UNCHANGED <<publisherVars, relayVars, pubsub, read, page, cur, feed>>

Lrange(c) ==
    /\ task[c] = "lrange"
    /\ task' = [task EXCEPT ![c] = "replay"]
    /\ history' = [history EXCEPT ![c] = recent]
    /\ UNCHANGED <<publisherVars, subscribed, pubsub, sent, pageVars>>

\* No pooled connection, or LRANGE failed: the replay is skipped silently.
LrangeFails(c) ==
    /\ task[c] = "lrange"
    /\ task' = [task EXCEPT ![c] = "replay"]
    /\ UNCHANGED <<publisherVars, subscribed, pubsub, history, sent, pageVars>>

\* Mutant of Replay: the list is not reversed.
ReplayNewestFirst(c) ==
    /\ task[c] = "replay" /\ history[c] # <<>>
    /\ sent' = [sent EXCEPT ![c] = Append(@, Head(history[c]))]
    /\ history' = [history EXCEPT ![c] = Tail(@)]
    /\ UNCHANGED <<publisherVars, subscribed, pubsub, task, pageVars>>

\* The reversed list is sent from its oldest entry on.
Replay(c) ==
    /\ task[c] = "replay" /\ history[c] # <<>>
    /\ sent' = [sent EXCEPT ![c] = Append(@, history[c][Len(history[c])])]
    /\ history' = [history EXCEPT ![c] = SubSeq(@, 1, Len(@) - 1)]
    /\ UNCHANGED <<publisherVars, subscribed, pubsub, task, pageVars>>

SendSentinel(c) ==
    /\ task[c] = "replay" /\ history[c] = <<>>
    /\ sent' = [sent EXCEPT ![c] = Append(@, HistoryEnd)]
    /\ task' = [task EXCEPT ![c] = "subscribe"]
    /\ UNCHANGED <<publisherVars, subscribed, pubsub, history, pageVars>>

Subscribe(c) ==
    /\ task[c] = "subscribe"
    /\ task' = [task EXCEPT ![c] = "live"]
    /\ subscribed' = subscribed \cup {c}
    /\ UNCHANGED <<publisherVars, pubsub, history, sent, pageVars>>

\* The Pub/Sub connection or SUBSCRIBE failed: a Close frame and return.
SubscribeFails(c) ==
    /\ task[c] = "subscribe"
    /\ task' = [task EXCEPT ![c] = "closed"]
    /\ UNCHANGED <<publisherVars, subscribed, pubsub, history, sent, pageVars>>

\* Mutant of Forward: the message is filtered out, as for a player.
ForwardFiltered(c) ==
    /\ task[c] = "live" /\ pubsub[c] # <<>>
    /\ pubsub' = [pubsub EXCEPT ![c] = Tail(@)]
    /\ UNCHANGED <<publisherVars, subscribed, task, history, sent, pageVars>>

\* The select! loop takes the next message and forwards it unfiltered.
Forward(c) ==
    /\ task[c] = "live" /\ pubsub[c] # <<>>
    /\ sent' = [sent EXCEPT ![c] = Append(@, Head(pubsub[c]))]
    /\ pubsub' = [pubsub EXCEPT ![c] = Tail(@)]
    /\ UNCHANGED <<publisherVars, subscribed, task, history, pageVars>>

\* Redis drops the subscriber; what it had delivered can still be taken.
PubSubDrops(c) ==
    /\ c \in subscribed
    /\ subscribed' = subscribed \ {c}
    /\ UNCHANGED <<publisherVars, pubsub, task, history, sent, pageVars>>

\* Mutant of StreamEnds: the loop breaks before the queue is drained.
StreamEndsUndrained(c) ==
    /\ task[c] = "live" /\ c \notin subscribed
    /\ task' = [task EXCEPT ![c] = "closed"]
    /\ pubsub' = [pubsub EXCEPT ![c] = <<>>]
    /\ UNCHANGED <<publisherVars, subscribed, history, sent, pageVars>>

\* The message stream ended: the loop breaks without a Close frame.
StreamEnds(c) ==
    /\ task[c] = "live" /\ pubsub[c] = <<>> /\ c \notin subscribed
    /\ task' = [task EXCEPT ![c] = "closed"]
    /\ UNCHANGED <<publisherVars, subscribed, pubsub, history, sent, pageVars>>

\* Mutant of TaskNotices: the Pub/Sub connection outlives the task.
TaskLeaks(c) ==
    /\ task[c] \in {"replay", "live"}
    /\ link[c] \in {"closed", "lost"}
    /\ task' = [task EXCEPT ![c] = "closed"]
    /\ UNCHANGED <<publisherVars, subscribed, pubsub, history, sent, pageVars>>

\* recv() returns Close, None or an error, or a send fails: the task returns
\* and its Pub/Sub connection is dropped with all that waits in it.  Before the
\* loop only the sends notice; a lost link is noticed when TCP gives up.
TaskNotices(c) ==
    /\ task[c] \in {"replay", "live"}
    /\ link[c] \in {"closed", "lost"}
    /\ task' = [task EXCEPT ![c] = "closed"]
    /\ subscribed' = subscribed \ {c}
    /\ pubsub' = [pubsub EXCEPT ![c] = <<>>]
    /\ UNCHANGED <<publisherVars, history, sent, pageVars>>

TaskStep(c) ==
    \/ Lrange(c) \/ Replay(c) \/ SendSentinel(c) \/ Subscribe(c)
    \/ Forward(c) \/ StreamEnds(c)

RelayFails(c) ==
    \/ Reject(c) \/ LrangeFails(c) \/ SubscribeFails(c) \/ PubSubDrops(c)

-----------------------------------------------------------------------------
(* Portal: EventsPage.                                                     *)

\* connect(): the ticket was fetched, a new WebSocket is opened.
Connect(p, c) ==
    /\ page[p] = "connecting" /\ cur[p] = NoConn /\ link[c] = "unused"
    /\ cur' = [cur EXCEPT ![p] = c]
    /\ link' = [link EXCEPT ![c] = "opening"]
    /\ UNCHANGED <<publisherVars, relayVars, pubsub, read, page, feed>>

\* /api/admin-ticket failed: the page gives up and never retries.
TicketFails(p) ==
    /\ page[p] = "connecting" /\ cur[p] = NoConn
    /\ page' = [page EXCEPT ![p] = "error"]
    /\ UNCHANGED <<publisherVars, relayVars, pubsub, link, read, cur, feed>>

OnOpen(p) ==
    /\ page[p] = "connecting" /\ cur[p] # NoConn
    /\ link[cur[p]] = "open"
    /\ page' = [page EXCEPT ![p] = "live"]
    /\ UNCHANGED <<publisherVars, relayVars, pubsub, link, read, cur, feed>>

\* Mutants of OnMessage: the sentinel is shown; an event is put at the bottom.
OnMessageShowsAll(p) ==
    /\ page[p] = "live" /\ cur[p] # NoConn
    /\ LET c == cur[p] IN
        /\ link[c] = "open" /\ read[c] < Len(sent[c])
        /\ read' = [read EXCEPT ![c] = @ + 1]
        /\ feed' = [feed EXCEPT ![p] = Newest(<<sent[c][read[c] + 1]>> \o @, FeedCap)]
    /\ UNCHANGED <<publisherVars, relayVars, pubsub, link, page, cur>>

OnMessageAtBottom(p) ==
    /\ page[p] = "live" /\ cur[p] # NoConn
    /\ LET c == cur[p] IN
        /\ link[c] = "open" /\ read[c] < Len(sent[c])
        /\ read' = [read EXCEPT ![c] = @ + 1]
        /\ LET frame == sent[c][read[c] + 1] IN
             feed' = [feed EXCEPT ![p] =
                        IF frame = HistoryEnd THEN @
                        ELSE Newest(@ \o <<frame>>, FeedCap)]
    /\ UNCHANGED <<publisherVars, relayVars, pubsub, link, page, cur>>

\* onmessage: the sentinel is swallowed, an event is put on top of the feed.
OnMessage(p) ==
    /\ page[p] = "live" /\ cur[p] # NoConn
    /\ LET c == cur[p] IN
        /\ link[c] = "open" /\ read[c] < Len(sent[c])
        /\ read' = [read EXCEPT ![c] = @ + 1]
        /\ LET frame == sent[c][read[c] + 1] IN
             feed' = [feed EXCEPT ![p] =
                        IF frame = HistoryEnd THEN @
                        ELSE Newest(<<frame>> \o @, FeedCap)]
    /\ UNCHANGED <<publisherVars, relayVars, pubsub, link, page, cur>>

\* onclose: drop the socket and schedule a reconnection.
CloseAndReconnect(p) ==
    /\ page' = [page EXCEPT ![p] = "reconnecting"]
    /\ cur' = [cur EXCEPT ![p] = NoConn]
    /\ UNCHANGED <<publisherVars, relayVars, pubsub, read, feed>>

\* The upgrade was refused, or the relay ended the connection and the page has
\* read every frame of it.
OnClose(p) ==
    /\ page[p] \in {"connecting", "live"} /\ cur[p] # NoConn
    /\ LET c == cur[p] IN
        /\ \/ link[c] = "closed"
           \/ link[c] = "open" /\ task[c] = "closed" /\ read[c] = Len(sent[c])
        /\ link' = [link EXCEPT ![c] = "closed"]
    /\ CloseAndReconnect(p)

\* The browser notices that the link is dead; nothing obliges it to.
OnLinkLost(p) ==
    /\ page[p] \in {"connecting", "live"} /\ cur[p] # NoConn
    /\ link[cur[p]] = "lost"
    /\ CloseAndReconnect(p) /\ UNCHANGED link

\* The 3 s timer: connect() again.  The feed is kept, so the replay of the new
\* connection repeats entries the page already shows.
Retry(p) ==
    /\ page[p] = "reconnecting"
    /\ page' = [page EXCEPT ![p] = "connecting"]
    /\ UNCHANGED <<publisherVars, relayVars, pubsub, link, read, cur, feed>>

\* Effect cleanup: cancelled, timer cleared, socket closed.
Unmount(p) ==
    /\ page[p] # "unmounted"
    /\ page' = [page EXCEPT ![p] = "unmounted"]
    /\ cur' = [cur EXCEPT ![p] = NoConn]
    /\ link' = [c \in Conns |->
                  IF c = cur[p] /\ link[c] # "lost" THEN "closed" ELSE link[c]]
    /\ UNCHANGED <<publisherVars, relayVars, pubsub, read, feed>>

\* The network between browser and relay fails: unread frames are lost.
LinkFails(c) ==
    /\ link[c] = "open"
    /\ link' = [link EXCEPT ![c] = "lost"]
    /\ UNCHANGED <<publisherVars, relayVars, pubsub, read, page, cur, feed>>

PageStep(p) == OnOpen(p) \/ OnMessage(p) \/ OnClose(p) \/ Retry(p)

-----------------------------------------------------------------------------
\* What the program does when nothing fails.
Progress ==
    \/ \E e \in Events : PublisherStep(e)
    \/ \E c \in Conns : Accept(c) \/ TaskStep(c) \/ TaskNotices(c)
    \/ \E p \in Pages :
         \/ PageStep(p) \/ Unmount(p)
         \/ \E c \in Conns : Connect(p, c)

Faults ==
    \/ \E e \in Events : PublisherFails(e)
    \/ \E c \in Conns : RelayFails(c) \/ LinkFails(c)
    \/ \E p \in Pages : TicketFails(p) \/ OnLinkLost(p)

Next == Progress \/ Faults

Spec == Init /\ [][Next]_vars

\* No command, connection or ticket request ever fails.
FaultFreeSpec == Init /\ [][Progress]_vars

\* Threads, relay tasks and browser callbacks run.  Faults and users need not,
\* and neither end is sure to notice a lost link: there is no heartbeat.
Fairness ==
    /\ \A e \in Events : WF_vars(PublisherStep(e))
    /\ \A c \in Conns :
        WF_vars(TaskStep(c)) /\ WF_vars(link[c] = "closed" /\ TaskNotices(c))
    /\ \A p \in Pages : WF_vars(PageStep(p))

FairSpec == Spec /\ Fairness

-----------------------------------------------------------------------------
(* Properties.                                                             *)

NoRepeat(s) == \A i, j \in 1..Len(s) : s[i] = s[j] => i = j

\* Every variable has its type.
TypeOK ==
    /\ pc \in [Events -> Steps]
    /\ failed \in SUBSET Events
    /\ recent \in Seq(Events)
    /\ pushed \in Seq(Events)
    /\ earlier \in [Events -> SUBSET Events]
    /\ subscribed \in SUBSET Conns
    /\ pubsub \in [Conns -> Seq(Events)]
    /\ task \in [Conns -> TaskStates]
    /\ history \in [Conns -> Seq(Events)]
    /\ sent \in [Conns -> Seq(Events \cup {HistoryEnd})]
    /\ link \in [Conns -> LinkStates]
    /\ read \in [Conns -> Nat]
    /\ page \in [Pages -> PageStates]
    /\ cur \in [Pages -> Conns \cup {NoConn}]
    /\ feed \in [Pages -> Seq(Events)]

\* No event is sent twice on one connection, neither twice live, nor in the
\* replay and again live; nor is the sentinel.  It depends on the publishers
\* doing PUBLISH before LPUSH and on the relay doing LRANGE before SUBSCRIBE.
NoEventTwice == \A c \in Conns : NoRepeat(sent[c])

\* An event whose publication was over before another one went out is never
\* sent after it, whichever of the two comes from the replay.
OrderKept ==
    \A c \in Conns : \A i, j \in 1..Len(sent[c]) :
        (i < j /\ sent[c][i] \in Events) => sent[c][j] \notin earlier[sent[c][i]]

\* Trimming never loses a newer event: the Cap + 1 events recorded last are
\* the head of the list, in the order they were recorded, however the LPUSH
\* and LTRIM commands of several publishers interleave.
NewestKept ==
    \A k \in 1..Len(pushed) : k <= Cap + 1 => k <= Len(recent) /\ recent[k] = pushed[k]

\* The list exceeds its cap only by the publishers that are between LPUSH and
\* LTRIM, or that failed there.
ListBounded ==
    Len(recent) <= Cap + 1 + Cardinality({e \in Events : pc[e] = "ltrim"})

\* The page shows, newest first, what it has read on the connection it holds:
\* the event that is the k-th newest of those read is entry k of the feed, unless
\* FeedCap newer ones pushed it out.
FeedShowsConnection ==
    \A p \in Pages : cur[p] # NoConn =>
        LET c == cur[p]
            Rank(i) == Cardinality({j \in i..read[c] : sent[c][j] \in Events})
        IN  \A i \in 1..read[c] : sent[c][i] \in Events /\ Rank(i) <= FeedCap =>
                Rank(i) <= Len(feed[p]) /\ feed[p][Rank(i)] = sent[c][i]

\* What the doc comment of admin_ws_handler promises, "streams every
\* audio:events message": an event still in the list while a session that
\* replayed the list is live has been sent or is about to be.
EveryEventStreamed ==
    \A c \in subscribed : \A i \in 1..Len(recent) :
        \/ \E j \in 1..Len(sent[c]) : sent[c][j] = recent[i]
        \/ \E j \in 1..Len(pubsub[c]) : pubsub[c][j] = recent[i]

\* The event waits in the queue of the session or among the frames the page has
\* not handled, and can still arrive: nothing does once the link is down.
IsUnderway(c, e) ==
    /\ link[c] = "open"
    /\ \/ \E j \in 1..Len(pubsub[c]) : pubsub[c][j] = e
       \/ \E j \in 1..Len(sent[c]) : j > read[c] /\ sent[c][j] = e

IsShown(p, e) == \E j \in 1..Len(feed[p]) : feed[p][j] = e

\* Only a network failure or the user's leaving the page loses an event that
\* Redis delivered to the session of the page.  When Redis drops the subscriber
\* the session ends and the page reconnects, but not before everything delivered
\* was forwarded, read and shown.
DeliveredIsKept ==
    [][\A p \in Pages, c \in Conns, e \in Events :
         cur[p] = c /\ IsUnderway(c, e) =>
             \/ IsUnderway(c, e)' \/ IsShown(p, e)'
             \/ link'[c] = "lost" \/ page'[p] = "unmounted"]_vars

\* An event delivered to a live session appears on the page that holds the
\* connection, unless the page loses the connection first.
LiveEventShown ==
    \A p \in Pages, c \in Conns, e \in Events :
        (cur[p] = c /\ \E j \in 1..Len(pubsub[c]) : pubsub[c][j] = e)
            ~> (cur[p] # c \/ link[c] = "lost"
                  \/ IsShown(p, e))

\* A connection the browser closed does not leave a relay task behind, nor a
\* subscription in Redis.
SessionReleased ==
    \A c \in Conns :
        (link[c] = "closed" /\ task[c] # "none")
            ~> (task[c] = "closed" /\ c \notin subscribed)
=============================================================================
