--------------------------- MODULE AudioDelivery ---------------------------
(***************************************************************************)
(* From a player's region to the sound on the player's listen page.        *)
(*                                                                         *)
(*   Paper      AudioSessionHandler publishes audio_play and audio_stop on *)
(*              the server's main thread                                   *)
(*   Velocity   PlayerEventListener publishes server_switch and            *)
(*              player_disconnect on virtual threads: at some later time   *)
(*   relay      one ws_session task per connection subscribes to           *)
(*              audio:events, filters and forwards                         *)
(*   client     +page.svelte keeps what the server last requested and      *)
(*              reconciles one Howl with it                                *)
(*                                                                         *)
(* A session is one link of /audio lite: a token, the page that opens it   *)
(* and the relay task that serves it; the page never reconnects.           *)
(* player_connect and region_enter are dropped by the relay just like      *)
(* server_switch, which stands for them; volume is set wherever loop is.   *)
(***************************************************************************)
EXTENDS Integers, Sequences, FiniteSets

CONSTANTS
    Players,
    Sessions,
    Owner,      \* the player whose UUID the session's token is for
    Srcs,       \* values of the region flag audio-src
    Regions,    \* the flags of the regions with audio that each player gets to
    Silence,    \* no audio: the region has no audio-src, desired = null
    Offline,
    NoHowl,     \* activeHowl = null
    MaxMoves    \* bound: logins, server switches and region changes

ASSUME OwnerAssumption == Owner \in [Sessions -> Players]
ASSUME MaxMovesAssumption == MaxMoves \in Nat

Audio == [src : Srcs, loop : BOOLEAN]
Howls == [src : Srcs, loop : BOOLEAN, state : {"playing", "ended", "failed", "unloaded"}]

ASSUME RegionsAssumption == Regions \in [Players -> SUBSET Audio]
ASSUME SilenceAssumption == Silence \notin Audio
ASSUME OfflineAssumption == Offline \notin Audio \cup {Silence}
ASSUME NoHowlAssumption == NoHowl \notin Howls

VARIABLES
    where,      \* the audio of the player's region, Silence or Offline
    moves,      \* logins, switches and region changes so far
    pending,    \* lifecycle messages whose task has not published yet
    subscribed, \* sessions whose relay task is subscribed to audio:events
    pubsub,     \* messages Redis delivered to that task, not yet taken
    task,       \* where the relay task is
    wire,       \* frames written to the socket, not yet handled by the page
    link,       \* the token, then the WebSocket as the browser knows it
    client,     \* the page
    issued,     \* history variable: commands for the owner since SUBSCRIBE
    applied     \* history variable: how many commands the page has handled

gameVars == <<where, moves, pending>>
relayVars == <<subscribed, task>>
vars == <<where, moves, pending, subscribed, pubsub, task, wire, link, client,
          issued, applied>>

-----------------------------------------------------------------------------
Lifecycle == {"server_switch", "player_disconnect"}
Commands == {"audio_play", "audio_stop"}
Message == [event : Commands \cup Lifecycle, player : Players, audio : Audio \cup {Silence}]
Frame == [type : Commands \cup {"auth_success"}, audio : Audio \cup {Silence}]

Client == [authenticated : BOOLEAN, enabled : BOOLEAN, resuming : BOOLEAN,
           destroyed : BOOLEAN, desired : Audio \cup {Silence}, howl : Howls \cup {NoHowl}]

\* "issued": the token is in Redis; "closing": onclose is about to be called.
LinkStates == {"none", "issued", "opening", "open", "closing", "closed", "lost"}
TaskStates == {"none", "auth", "subscribe", "live", "closed"}

IsOnline(p) == where[p] # Offline

Init ==
    /\ where = [p \in Players |-> Offline]
    /\ moves = 0
    /\ pending = {}
    /\ subscribed = {}
    /\ pubsub = [s \in Sessions |-> <<>>]
    /\ task = [s \in Sessions |-> "none"]
    /\ wire = [s \in Sessions |-> <<>>]
    /\ link = [s \in Sessions |-> "none"]
    /\ client = [s \in Sessions |->
                   [authenticated |-> FALSE, enabled |-> FALSE, resuming |-> FALSE,
                    destroyed |-> FALSE, desired |-> Silence, howl |-> NoHowl]]
    /\ issued = [s \in Sessions |-> <<>>]
    /\ applied = [s \in Sessions |-> 0]

-----------------------------------------------------------------------------
(* Redis: PUBLISH hands a message to every task subscribed at this moment. *)

Publish(event, p, a) ==
    /\ pubsub' = [s \in Sessions |->
                    IF s \in subscribed
                    THEN Append(pubsub[s], [event |-> event, player |-> p, audio |-> a])
                    ELSE pubsub[s]]
    /\ issued' = [s \in Sessions |->
                    IF s \in subscribed /\ Owner[s] = p /\ event \in Commands
                    THEN Append(issued[s], a) ELSE issued[s]]

PublishNothing == UNCHANGED <<pubsub, issued>>

-----------------------------------------------------------------------------
(* The game servers.                                                       *)

Arrive(p, a) ==
    /\ moves < MaxMoves
    /\ moves' = moves + 1
    /\ where' = [where EXCEPT ![p] = a]
    /\ UNCHANGED <<relayVars, wire, link, client, applied>>

\* AudioSessionHandler.onInitialValue, on the server the player now enters:
\* nothing is published when the flag has no value there.
OnInitialValue(p, a) ==
    IF a = Silence THEN PublishNothing ELSE Publish("audio_play", p, a)

Login(p, a) ==
    /\ ~IsOnline(p)
    /\ Arrive(p, a) /\ OnInitialValue(p, a)
    /\ UNCHANGED pending

\* The server the player leaves calls no handler; the proxy submits the task
\* that publishes server_switch (bound: one such message awaits at a time).
SwitchServer(p, a) ==
    /\ IsOnline(p) /\ <<p, "server_switch">> \notin pending
    /\ Arrive(p, a) /\ OnInitialValue(p, a)
    /\ pending' = pending \cup {<<p, "server_switch">>}

OnSetValue(p, a) ==
    /\ IsOnline(p) /\ a # where[p] /\ a # Silence
    /\ Arrive(p, a) /\ Publish("audio_play", p, a)
    /\ UNCHANGED pending

OnAbsentValue(p) ==
    /\ IsOnline(p) /\ where[p] # Silence
    /\ Arrive(p, Silence) /\ Publish("audio_stop", p, Silence)
    /\ UNCHANGED pending

\* publish threw: the player moves on, the command is lost.
CommandLost(p, a) ==
    /\ IsOnline(p) /\ a # where[p]
    /\ Arrive(p, a) /\ PublishNothing
    /\ UNCHANGED pending

\* DisconnectEvent (bound: one player_disconnect awaits at a time).
Disconnect(p) ==
    /\ IsOnline(p) /\ <<p, "player_disconnect">> \notin pending
    /\ where' = [where EXCEPT ![p] = Offline]
    /\ pending' = pending \cup {<<p, "player_disconnect">>}
    /\ PublishNothing
    /\ UNCHANGED <<moves, relayVars, wire, link, client, applied>>

\* The virtual thread gets to its PUBLISH.
PublishLifecycle(p, event) ==
    /\ <<p, event>> \in pending
    /\ pending' = pending \ {<<p, event>>}
    /\ Publish(event, p, Silence)
    /\ UNCHANGED <<where, moves, relayVars, wire, link, client, applied>>

\* HSET, HDEL or PUBLISH threw, or the proxy died: no message.
LifecycleLost(p, event) ==
    /\ <<p, event>> \in pending
    /\ pending' = pending \ {<<p, event>>}
    /\ PublishNothing
    /\ UNCHANGED <<where, moves, relayVars, wire, link, client, applied>>

-----------------------------------------------------------------------------
(* Relay: ws_handler and ws_session.                                       *)

\* /audio lite: the plugin stores the token and shows the link to the player.
IssueLink(s) ==
    /\ link[s] = "none" /\ IsOnline(Owner[s])
    /\ link' = [link EXCEPT ![s] = "issued"]
    /\ UNCHANGED <<gameVars, relayVars, pubsub, wire, client, issued, applied>>

\* GETDEL returned the UUID: upgrade and spawn the session task, for a page
\* that may have been left meanwhile.
Accept(s) ==
    /\ link[s] \in {"opening", "closing"} /\ task[s] = "none"
    /\ link' = [link EXCEPT ![s] = IF @ = "opening" THEN "open" ELSE @]
    /\ task' = [task EXCEPT ![s] = "auth"]
    /\ UNCHANGED <<gameVars, subscribed, pubsub, wire, client, issued, applied>>

\* 401 or 500: the token expired, Redis failed or the JWT was not signed.
Reject(s) ==
    /\ link[s] = "opening"
    /\ link' = [link EXCEPT ![s] = "closing"]
    /\ task' = [task EXCEPT ![s] = "closed"]
    /\ UNCHANGED <<gameVars, subscribed, pubsub, wire, client, issued, applied>>

SendAuth(s) ==
    /\ task[s] = "auth"
    /\ wire' = [wire EXCEPT ![s] = Append(@, [type |-> "auth_success", audio |-> Silence])]
    /\ task' = [task EXCEPT ![s] = "subscribe"]
    /\ UNCHANGED <<gameVars, subscribed, pubsub, link, client, issued, applied>>

Subscribe(s) ==
    /\ task[s] = "subscribe"
    /\ task' = [task EXCEPT ![s] = "live"]
    /\ subscribed' = subscribed \cup {s}
    /\ UNCHANGED <<gameVars, pubsub, wire, link, client, issued, applied>>

SubscribeFails(s) ==
    /\ task[s] = "subscribe"
    /\ task' = [task EXCEPT ![s] = "closed"]
    /\ UNCHANGED <<gameVars, subscribed, pubsub, wire, link, client, issued, applied>>

\* The select! loop takes the next message; translate_event has three answers.
Take(s) ==
    /\ task[s] = "live" /\ pubsub[s] # <<>>
    /\ pubsub' = [pubsub EXCEPT ![s] = Tail(@)]

\* Mutants of IsForwarded: every event but the leave; the commands of anyone;
\* audio_stop is one of the dropped events.
IsForwardedAll(m, s) == m.player = Owner[s] /\ m.event # "player_disconnect"
IsForwardedToAll(m, s) == m.event \in Commands
IsForwardedPlay(m, s) == m.player = Owner[s] /\ m.event = "audio_play"

IsForwarded(m, s) == m.player = Owner[s] /\ m.event \in Commands
ClosesSession(m, s) == m.player = Owner[s] /\ m.event = "player_disconnect"

Forward(s) ==
    /\ Take(s) /\ IsForwarded(Head(pubsub[s]), s)
    /\ wire' = [wire EXCEPT ![s] =
                  Append(@, [type |-> Head(pubsub[s]).event, audio |-> Head(pubsub[s]).audio])]
    /\ UNCHANGED <<gameVars, relayVars, link, client, issued, applied>>

\* Mutant of CloseOnLeave: player_disconnect is one of the dropped events.
DropLeave(s) ==
    /\ Take(s) /\ ClosesSession(Head(pubsub[s]), s)
    /\ UNCHANGED <<gameVars, relayVars, wire, link, client, issued, applied>>

\* A Close frame, and the task ends: its subscription goes with it.
CloseOnLeave(s) ==
    /\ Take(s) /\ ClosesSession(Head(pubsub[s]), s)
    /\ task' = [task EXCEPT ![s] = "closed"]
    /\ subscribed' = subscribed \ {s}
    /\ UNCHANGED <<gameVars, wire, link, client, issued, applied>>

Drop(s) ==
    /\ Take(s)
    /\ ~IsForwarded(Head(pubsub[s]), s) /\ ~ClosesSession(Head(pubsub[s]), s)
    /\ UNCHANGED <<gameVars, relayVars, wire, link, client, issued, applied>>

\* Redis drops the subscriber; what it had delivered can still be taken.
PubSubDrops(s) ==
    /\ s \in subscribed
    /\ subscribed' = subscribed \ {s}
    /\ UNCHANGED <<gameVars, pubsub, task, wire, link, client, issued, applied>>

StreamEnds(s) ==
    /\ task[s] = "live" /\ pubsub[s] = <<>> /\ s \notin subscribed
    /\ task' = [task EXCEPT ![s] = "closed"]
    /\ UNCHANGED <<gameVars, subscribed, pubsub, wire, link, client, issued, applied>>

\* A send fails, or recv() returns Close, None or an error.  The code drops what
\* is queued when a task ends; here it stays, and nothing takes it any more.
TaskNotices(s) ==
    /\ task[s] \in {"auth", "live"} /\ link[s] \in {"closing", "closed", "lost"}
    /\ task' = [task EXCEPT ![s] = "closed"]
    /\ subscribed' = subscribed \ {s}
    /\ UNCHANGED <<gameVars, pubsub, wire, link, client, issued, applied>>

TaskStep(s) ==
    \/ SendAuth(s) \/ Subscribe(s) \/ Forward(s) \/ CloseOnLeave(s) \/ Drop(s)
    \/ StreamEnds(s)

-----------------------------------------------------------------------------
(* Client: +page.svelte, one action per callback.                          *)

Replace(c) == [c EXCEPT !.howl = [src |-> c.desired.src, loop |-> c.desired.loop,
                                  state |-> "playing"]]

\* Mutant of Reconcile: a Howl of the same src is left as it is.
ReconcileSkipsLoaded(c) ==
    CASE ~c.enabled -> c
      [] c.enabled /\ c.desired = Silence -> [c EXCEPT !.howl = NoHowl]
      [] c.enabled /\ c.desired # Silence ->
           IF c.howl # NoHowl /\ c.howl.src = c.desired.src THEN c ELSE Replace(c)

\* A Howl of the same src is not restarted: only its parameters are set.
Reconcile(c) ==
    CASE ~c.enabled -> c
      [] c.enabled /\ c.desired = Silence -> [c EXCEPT !.howl = NoHowl]
      [] c.enabled /\ c.desired # Silence ->
           IF c.howl # NoHowl /\ c.howl.src = c.desired.src
           THEN [c EXCEPT !.howl.loop = c.desired.loop]
           ELSE Replace(c)

SetClient(s, c) == client' = [client EXCEPT ![s] = c]

\* onMount: the page opens its WebSocket with the token.
OnMount(s) ==
    /\ link[s] = "issued"
    /\ link' = [link EXCEPT ![s] = "opening"]
    /\ UNCHANGED <<gameVars, relayVars, pubsub, wire, client, issued, applied>>

\* The browser hands frames only to an open socket.
TakeFrame(s) ==
    /\ link[s] = "open" /\ wire[s] # <<>>
    /\ wire' = [wire EXCEPT ![s] = Tail(@)]
    /\ UNCHANGED <<gameVars, relayVars, pubsub, link, issued>>

OnAuthSuccess(s) ==
    /\ TakeFrame(s) /\ Head(wire[s]).type = "auth_success"
    /\ SetClient(s, [client[s] EXCEPT !.authenticated = TRUE])
    /\ UNCHANGED applied

OnCommand(s) ==
    /\ TakeFrame(s) /\ Head(wire[s]).type \in Commands
    /\ SetClient(s, Reconcile([client[s] EXCEPT !.desired = Head(wire[s]).audio]))
    /\ applied' = [applied EXCEPT ![s] = @ + 1]

\* The button is there once authenticated.  A suspended AudioContext reconciles
\* when its resume() settles, a running one at once.
EnableAudio(s, suspended) ==
    /\ client[s].authenticated /\ ~client[s].enabled /\ ~client[s].destroyed
    /\ LET c == [client[s] EXCEPT !.enabled = TRUE, !.resuming = suspended]
       IN  SetClient(s, IF suspended THEN c ELSE Reconcile(c))
    /\ UNCHANGED <<gameVars, relayVars, pubsub, wire, link, issued, applied>>

ResumeSettles(s) ==
    /\ client[s].resuming
    /\ SetClient(s, Reconcile([client[s] EXCEPT !.resuming = FALSE]))
    /\ UNCHANGED <<gameVars, relayVars, pubsub, wire, link, issued, applied>>

\* Howler: a clip that does not loop reaches its end, or cannot be loaded.
ClipStops(s, state) ==
    /\ client[s].howl # NoHowl /\ client[s].howl.state = "playing"
    /\ state = "ended" => ~client[s].howl.loop
    /\ SetClient(s, [client[s] EXCEPT !.howl.state = state])
    /\ UNCHANGED <<gameVars, relayVars, pubsub, wire, link, issued, applied>>

ClipEnds(s) == ClipStops(s, "ended")
LoadFails(s) == ClipStops(s, "failed")

\* Mutant of HandleClose: the page does not reconcile.
HandleCloseLazily(s) ==
    /\ link' = [link EXCEPT ![s] = "closed"]
    /\ SetClient(s, [client[s] EXCEPT !.desired = Silence])
    /\ UNCHANGED <<gameVars, relayVars, pubsub, wire, issued, applied>>

\* onclose.
HandleClose(s) ==
    /\ link' = [link EXCEPT ![s] = "closed"]
    /\ SetClient(s, IF client[s].authenticated
                    THEN Reconcile([client[s] EXCEPT !.desired = Silence])
                    ELSE client[s])
    /\ UNCHANGED <<gameVars, relayVars, pubsub, wire, issued, applied>>

OnClose(s) ==
    /\ \/ link[s] = "closing"
       \/ link[s] = "open" /\ task[s] = "closed" /\ wire[s] = <<>>
    /\ HandleClose(s)

\* The browser notices that the link is dead; nothing obliges it to.
OnLinkLost(s) == link[s] = "lost" /\ HandleClose(s)

\* onDestroy: close the socket and unload the Howl, which stays referenced.
OnDestroy(s) ==
    /\ link[s] \in {"opening", "open", "closing", "closed", "lost"}
    /\ ~client[s].destroyed
    /\ link' = [link EXCEPT ![s] = IF @ \in {"opening", "open"} THEN "closing" ELSE @]
    /\ LET c == [client[s] EXCEPT !.destroyed = TRUE]
       IN  SetClient(s, IF c.howl = NoHowl THEN c ELSE [c EXCEPT !.howl.state = "unloaded"])
    /\ UNCHANGED <<gameVars, relayVars, pubsub, wire, issued, applied>>

\* The network between browser and relay fails: unread frames are lost.
LinkFails(s) ==
    /\ link[s] = "open"
    /\ link' = [link EXCEPT ![s] = "lost"]
    /\ UNCHANGED <<gameVars, relayVars, pubsub, wire, client, issued, applied>>

PageStep(s) == OnAuthSuccess(s) \/ OnCommand(s) \/ ResumeSettles(s) \/ OnClose(s)

-----------------------------------------------------------------------------
\* What happens when nothing fails.
Progress ==
    \/ \E p \in Players :
         \/ \E a \in Regions[p] \cup {Silence} :
              Login(p, a) \/ SwitchServer(p, a) \/ OnSetValue(p, a)
         \/ OnAbsentValue(p) \/ Disconnect(p)
         \/ \E event \in Lifecycle : PublishLifecycle(p, event)
    \/ \E s \in Sessions :
         \/ IssueLink(s) \/ Accept(s) \/ TaskStep(s) \/ TaskNotices(s)
         \/ OnMount(s) \/ PageStep(s) \/ ClipEnds(s) \/ OnDestroy(s)
         \/ \E suspended \in BOOLEAN : EnableAudio(s, suspended)

Faults ==
    \/ \E p \in Players :
         \/ \E a \in Regions[p] \cup {Silence} : CommandLost(p, a)
         \/ \E event \in Lifecycle : LifecycleLost(p, event)
    \/ \E s \in Sessions :
         \/ Reject(s) \/ SubscribeFails(s) \/ PubSubDrops(s) \/ LinkFails(s)
         \/ OnLinkLost(s) \/ LoadFails(s)

Next == Progress \/ Faults

Spec == Init /\ [][Next]_vars

\* No command, connection or download ever fails, and no token expires.
FaultFreeSpec == Init /\ [][Progress]_vars

\* Relay tasks and browser callbacks run.  Players, faults and the noticing of
\* a lost link are not obliged to happen: there is no heartbeat.
Fairness ==
    \A s \in Sessions :
        /\ WF_vars(TaskStep(s)) /\ WF_vars(PageStep(s))
        /\ WF_vars(link[s] \in {"closing", "closed"} /\ TaskNotices(s))

FairSpec == Spec /\ Fairness

-----------------------------------------------------------------------------
(* Properties.                                                             *)

\* Every variable has its type.
TypeOK ==
    /\ where \in [Players -> Audio \cup {Silence, Offline}]
    /\ moves \in 0..MaxMoves
    /\ pending \in SUBSET (Players \X Lifecycle)
    /\ subscribed \in SUBSET Sessions
    /\ pubsub \in [Sessions -> Seq(Message)]
    /\ task \in [Sessions -> TaskStates]
    /\ wire \in [Sessions -> Seq(Frame)]
    /\ link \in [Sessions -> LinkStates]
    /\ client \in [Sessions -> Client]
    /\ issued \in [Sessions -> Seq(Audio \cup {Silence})]
    /\ applied \in [Sessions -> Nat]

\* The commands of the session's own player, and of nobody else, reach the page
\* once each and in order, from SUBSCRIBE on, through the subscription, the
\* filter, the socket and the page, which wants what the last one asks for.
Stream == INSTANCE CommandStream WITH
    want <- [s \in Sessions |-> client[s].desired],
    over <- [s \in Sessions |-> link[s] \in {"closing", "closed", "lost"}]

StreamImplemented == Stream!Spec

\* Every command that translate_event lets through does reach the page, unless
\* the connection ends first.
StreamDelivers == Stream!Delivery

\* Once audio is enabled the one Howl is the clip the server last requested,
\* with its parameters, and there is none when it requested silence: whatever
\* the order of commands, click, resume() and close.
PlaybackFollowsDesired ==
    \A s \in Sessions :
        LET c == client[s] IN
        (c.enabled /\ ~c.resuming) =>
            IF c.desired = Silence THEN c.howl = NoHowl
            ELSE /\ c.howl # NoHowl
                 /\ c.howl.src = c.desired.src /\ c.howl.loop = c.desired.loop

\* A page that was told that its connection is over plays nothing and will
\* not: not even when resume() settles later, nor when it had been destroyed.
ClosedIsSilent ==
    \A s \in Sessions : link[s] = "closed" =>
        client[s].desired = Silence /\ client[s].howl = NoHowl

LeaveDelivered(s) == \E i \in 1..Len(pubsub[s]) : ClosesSession(pubsub[s][i], s)
HasEnded(s) == task[s] = "closed" /\ s \notin subscribed

\* A player_disconnect delivered to the relay task of a session is not lost and
\* has no other effect than to end the task, which never comes back.
LeaveIsKept ==
    [][\A s \in Sessions : LeaveDelivered(s) \/ HasEnded(s)
                             => LeaveDelivered(s)' \/ HasEnded(s)']_vars

\* It does end the task, and the page's audio with it, unless the network had
\* cut the page off.
LeaveSilences ==
    \A s \in Sessions :
        LeaveDelivered(s)
            ~> \/ link[s] = "lost"
               \/ HasEnded(s) /\ link[s] = "closed" /\ client[s].howl = NoHowl

\* Javadoc of PlayerEventListener: the relay "receives player_disconnect and
\* can close zombie connections".  No session is live for a player who is
\* offline and whose player_disconnect has been handled.
NoZombie ==
    \A s \in Sessions :
        (~IsOnline(Owner[s]) /\ <<Owner[s], "player_disconnect">> \notin pending
            /\ link[s] = "open" /\ task[s] = "live")
        => \E i \in 1..Len(pubsub[s]) : ClosesSession(pubsub[s][i], s)

\* Javadoc of AudioStopEvent: published "when a player leaves all WG regions
\* that carry the audio-src flag".  A page with nothing left to handle does not
\* want audio for a player who is in no such region.
SilentOutside ==
    \A s \in Sessions :
        (where[Owner[s]] = Silence /\ link[s] = "open" /\ task[s] = "live"
            /\ pubsub[s] = <<>> /\ wire[s] = <<>>)
        => client[s].desired = Silence
=============================================================================
