-------------------------- MODULE SessionRegistry --------------------------
(***************************************************************************)
(* The registry of players online, Redis hash audio:sessions.              *)
(*                                                                         *)
(* PlayerEventListener turns every event of the Velocity proxy into a task *)
(* on a virtual thread of its own: first sessionJoin (HSET) or             *)
(* sessionLeave (HDEL), then the lifecycle message on audio:events.        *)
(* Velocity raises the events of one player in order, but nothing orders   *)
(* the tasks.  The relay answers GET /api/sessions and GET /api/stats from *)
(* the hash.                                                               *)
(***************************************************************************)
EXTENDS Integers, Sequences, FiniteSets

CONSTANTS
    Players,
    Servers,    \* backend servers behind the proxy
    NoServer,   \* online, but not yet on a backend: the empty string
    Offline,
    NoEntry,    \* the hash has no field for the player
    MaxTasks,   \* bound: proxy events in a behaviour
    MaxTime     \* bound: seconds in a behaviour

ASSUME NoServerAssumption == NoServer \notin Servers
ASSUME OfflineAssumption == Offline \notin Servers \cup {NoServer}
ASSUME NoEntryAssumption ==
    NoEntry \notin [server : Servers \cup {NoServer}, joined : 0..MaxTime]
ASSUME BoundsAssumption == MaxTasks \in Nat /\ MaxTime \in Nat

VARIABLES
    proxy,      \* where the player is, as the proxy knows
    tasks,      \* the submitted tasks, in the order of the proxy's events
    sessions,   \* audio:sessions
    channel,    \* lifecycle messages published, each given by its task
    now,        \* System.currentTimeMillis() / 1000
    unseen      \* players a crash of the proxy took offline without an event

vars == <<proxy, tasks, sessions, channel, now, unseen>>

-----------------------------------------------------------------------------
Entry == [server : Servers \cup {NoServer}, joined : 0..MaxTime]

\* "alone": every earlier task of the player had ended at the submission.
\* "at": the time the task read for joined_at.
Task == [player : Players, kind : {"join", "leave"}, server : Servers \cup {NoServer},
         first : BOOLEAN, step : {"store", "publish", "done", "failed"},
         alone : BOOLEAN, at : 0..MaxTime]

TasksOf(p) == {i \in 1..Len(tasks) : tasks[i].player = p}
HasEnded(i) == tasks[i].step \in {"done", "failed"}
HasStored(i) == tasks[i].step \in {"publish", "done"}
IsQuiet(p) == \A i \in TasksOf(p) : HasEnded(i)
IsLast(i, S) == i \in S /\ \A j \in S : j <= i

Init ==
    /\ proxy = [p \in Players |-> Offline]
    /\ tasks = <<>>
    /\ sessions = [p \in Players |-> NoEntry]
    /\ channel = <<>>
    /\ now = 0
    /\ unseen = {}

-----------------------------------------------------------------------------
(* Proxy events: each handler submits one task and returns.                *)

Submit(p, kind, server, first) ==
    /\ Len(tasks) < MaxTasks
    /\ tasks' = Append(tasks,
          [player |-> p, kind |-> kind, server |-> server, first |-> first,
           step |-> "store", alone |-> IsQuiet(p), at |-> 0])
    /\ unseen' = unseen \ {p}
    /\ UNCHANGED <<sessions, channel, now>>

OnPostLogin(p) ==
    /\ proxy[p] = Offline
    /\ proxy' = [proxy EXCEPT ![p] = NoServer]
    /\ Submit(p, "join", NoServer, TRUE)

OnServerConnected(p, s) ==
    /\ proxy[p] \notin {Offline, s}
    /\ proxy' = [proxy EXCEPT ![p] = s]
    /\ Submit(p, "join", s, FALSE)

OnDisconnect(p) ==
    /\ proxy[p] # Offline
    /\ proxy' = [proxy EXCEPT ![p] = Offline]
    /\ Submit(p, "leave", NoServer, FALSE)

-----------------------------------------------------------------------------
(* The task of an event.                                                   *)

\* Mutants of Stored: a leave marks the entry; HSETNX instead of HSET.
StoredMark(t) ==
    [sessions EXCEPT ![t.player] =
        [server |-> IF t.kind = "join" THEN t.server ELSE Offline, joined |-> now]]

StoredOnce(t) ==
    [sessions EXCEPT ![t.player] =
        IF t.kind = "leave" THEN NoEntry
        ELSE IF @ = NoEntry THEN [server |-> t.server, joined |-> now] ELSE @]

\* RedisManager.sessionJoin and sessionLeave: joined_at is read anew each time.
Stored(t) ==
    [sessions EXCEPT ![t.player] =
        IF t.kind = "join" THEN [server |-> t.server, joined |-> now] ELSE NoEntry]

Store(i) ==
    /\ tasks[i].step = "store"
    /\ sessions' = Stored(tasks[i])
    /\ tasks' = [tasks EXCEPT ![i].step = "publish", ![i].at = now]
    /\ UNCHANGED <<proxy, channel, now, unseen>>

\* Mutant of StoreFails: the exception is swallowed before the publication.
StoreFailsQuietly(i) ==
    /\ tasks[i].step = "store"
    /\ sessions' \in {sessions, Stored(tasks[i])}
    /\ tasks' = [tasks EXCEPT ![i].step = "publish"]
    /\ UNCHANGED <<proxy, channel, now, unseen>>

\* Jedis throws, before or after Redis executed the command; the exception
\* ends the task, so that the message is not published either.
StoreFails(i) ==
    /\ tasks[i].step = "store"
    /\ sessions' \in {sessions, Stored(tasks[i])}
    /\ tasks' = [tasks EXCEPT ![i].step = "failed"]
    /\ UNCHANGED <<proxy, channel, now, unseen>>

Publish(i) ==
    /\ tasks[i].step = "publish"
    /\ channel' = Append(channel, i)
    /\ tasks' = [tasks EXCEPT ![i].step = "done"]
    /\ UNCHANGED <<proxy, sessions, now, unseen>>

\* The listener swallows an exception of publish.
PublishFails(i) ==
    /\ tasks[i].step = "publish"
    /\ tasks' = [tasks EXCEPT ![i].step = "done"]
    /\ UNCHANGED <<proxy, sessions, channel, now, unseen>>

-----------------------------------------------------------------------------
(* The environment.                                                        *)

Tick == now < MaxTime /\ now' = now + 1 /\ UNCHANGED <<proxy, tasks, sessions, channel, unseen>>

\* The proxy dies and is restarted: no DisconnectEvent, no task survives.
ProxyCrashes ==
    /\ \E p \in Players : proxy[p] # Offline
    /\ unseen' = unseen \cup {p \in Players : proxy[p] # Offline}
    /\ proxy' = [p \in Players |-> Offline]
    /\ tasks' = [i \in 1..Len(tasks) |->
                   IF HasEnded(i) THEN tasks[i] ELSE [tasks[i] EXCEPT !.step = "failed"]]
    /\ UNCHANGED <<sessions, channel, now>>

-----------------------------------------------------------------------------
Progress ==
    \/ \E p \in Players :
         \/ OnPostLogin(p) \/ OnDisconnect(p)
         \/ \E s \in Servers : OnServerConnected(p, s)
    \/ \E i \in 1..Len(tasks) : Store(i) \/ Publish(i)
    \/ Tick

Faults ==
    \/ \E i \in 1..Len(tasks) : StoreFails(i) \/ PublishFails(i)
    \/ ProxyCrashes

Next == Progress \/ Faults

Spec == Init /\ [][Next]_vars

\* Redis and the proxy never fail.
FaultFreeSpec == Init /\ [][Progress]_vars

-----------------------------------------------------------------------------
(* The relay's answers.                                                    *)

\* GET /api/sessions: HGETALL; every value the plugin writes parses.
GetSessions ==
    {[player |-> p, server |-> sessions[p].server, joined_at |-> sessions[p].joined] :
        p \in {q \in Players : sessions[q] # NoEntry}}

-----------------------------------------------------------------------------
(* Properties.                                                             *)

TypeOK ==
    /\ proxy \in [Players -> Servers \cup {NoServer, Offline}]
    /\ tasks \in Seq(Task)
    /\ Len(tasks) <= MaxTasks
    /\ sessions \in [Players -> Entry \cup {NoEntry}]
    /\ channel \in Seq(1..MaxTasks)
    /\ now \in 0..MaxTime
    /\ unseen \in SUBSET Players

\* The registry agrees with the proxy about the player.
IsRight(p) ==
    IF proxy[p] = Offline THEN sessions[p] = NoEntry
    ELSE sessions[p] # NoEntry /\ sessions[p].server = proxy[p]

\* The registry heals: whatever raced or failed before, it is right about a
\* player as soon as the write of the player's latest event is done, provided
\* that event's task was submitted when no other task of the player was left.
SelfHeals ==
    \A p \in Players \ unseen : \A i \in TasksOf(p) :
        (IsLast(i, TasksOf(p)) /\ tasks[i].alone /\ HasStored(i)) => IsRight(p)

\* The player's message tells what a reader of the registry finds: when it goes
\* out while no other task of the player is left, and none was when the task
\* was submitted, the registry is in the state the event describes.
Matches(entry, t) ==
    IF t.kind = "leave" THEN entry = NoEntry
    ELSE entry # NoEntry /\ entry.server = t.server

OnlyTask(i) ==
    /\ tasks[i].alone
    /\ \A j \in TasksOf(tasks[i].player) \ {i} : HasEnded(j) /\ j < i

MessageMatchesRegistry ==
    [][\A i \in 1..Len(tasks) :
        (channel' = Append(channel, i) /\ OnlyTask(i))
            => Matches(sessions'[tasks[i].player], tasks[i])]_vars

\* Javadoc of onServerConnected, "GET /api/sessions always shows the current
\* server", and docs/events.md, "entries are deleted explicitly on disconnect":
\* what the relay answers agrees with the proxy once no task of a player is left.
RightWhenQuiet ==
    \A p \in Players : IsQuiet(p) =>
        {r.server : r \in {q \in GetSessions : q.player = p}}
            = {proxy[p]} \ {Offline}
=============================================================================
