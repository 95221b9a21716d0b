------------------------ MODULE AudioDelivery_proofs ------------------------
(***************************************************************************)
(* What holds in every state of AudioDelivery, for any players, sessions   *)
(* and clips.                                                              *)
(***************************************************************************)
EXTENDS AudioDelivery, SequenceTheorems, TLAPS

-----------------------------------------------------------------------------
(* The inductive invariant.                                                *)

\* The Howl is what the server last requested.
Follows(c) ==
    IF c.desired = Silence THEN c.howl = NoHowl
    ELSE /\ c.howl # NoHowl
         /\ c.howl.src = c.desired.src /\ c.howl.loop = c.desired.loop

\* Only an authenticated page gets commands or can be enabled, and only an
\* enabled one has a Howl or waits for resume().
PageInv(c) ==
    /\ ~c.authenticated => c.desired = Silence /\ ~c.enabled
    /\ ~c.enabled => c.howl = NoHowl /\ ~c.resuming
    /\ (c.enabled /\ ~c.resuming) => Follows(c)

\* The first frame of a connection, and the first one the page handles, is
\* auth_success.
AuthFirst ==
    \A s \in Sessions : ~client[s].authenticated =>
        \/ wire[s] = <<>> /\ task[s] \in {"none", "auth", "closed"}
        \/ wire[s] # <<>> /\ Head(wire[s]).type = "auth_success"

DeliveryInv ==
    /\ TypeOK
    /\ AuthFirst
    /\ \A s \in Sessions : PageInv(client[s])
    /\ ClosedIsSilent

-----------------------------------------------------------------------------
(* Reconciliation.                                                         *)

\* reconcile touches nothing but the Howl, does nothing until audio is
\* enabled, and then makes the Howl follow the request.
LEMMA ReconcileProperties ==
    ASSUME NEW c \in Client
    PROVE  /\ Reconcile(c) \in Client
           /\ Reconcile(c).authenticated = c.authenticated
           /\ Reconcile(c).enabled = c.enabled
           /\ Reconcile(c).resuming = c.resuming
           /\ Reconcile(c).desired = c.desired
           /\ c.enabled => Follows(Reconcile(c))
           /\ ~c.enabled => Reconcile(c) = c
<1>1. CASE ~c.enabled
  <2>1. Reconcile(c) = c
    BY <1>1 DEF Reconcile
  <2> QED
    BY <1>1, <2>1
<1>2. CASE c.enabled /\ c.desired = Silence
  <2>1. Reconcile(c) = [c EXCEPT !.howl = NoHowl]
    BY <1>2 DEF Reconcile
  <2> QED
    BY <1>2, <2>1 DEF Client, Follows
<1>3. CASE c.enabled /\ c.desired # Silence
  <2>1. c.desired \in Audio
    BY <1>3 DEF Client
  <2>2. CASE c.howl # NoHowl /\ c.howl.src = c.desired.src
    <3>1. Reconcile(c) = [c EXCEPT !.howl.loop = c.desired.loop]
      BY <1>3, <2>2 DEF Reconcile
    <3>2. c.howl \in Howls
      BY <2>2 DEF Client
    <3>3. [c.howl EXCEPT !.loop = c.desired.loop] \in Howls
      BY <2>1, <3>2 DEF Howls, Audio
    <3>4. [c.howl EXCEPT !.loop = c.desired.loop] # NoHowl
      BY <3>3, NoHowlAssumption
    <3>5. /\ [c.howl EXCEPT !.loop = c.desired.loop].src = c.desired.src
          /\ [c.howl EXCEPT !.loop = c.desired.loop].loop = c.desired.loop
      BY <2>1, <2>2, <3>2 DEF Howls, Audio
    <3>6. Reconcile(c) = [c EXCEPT !.howl = [c.howl EXCEPT !.loop = c.desired.loop]]
      BY <3>1 DEF Client
    <3> QED
      BY <1>3, <3>3, <3>4, <3>5, <3>6 DEF Client, Follows
  <2>3. CASE ~(c.howl # NoHowl /\ c.howl.src = c.desired.src)
    <3> DEFINE h == [src |-> c.desired.src, loop |-> c.desired.loop, state |-> "playing"]
    <3>1. Reconcile(c) = [c EXCEPT !.howl = h]
      BY <1>3, <2>3 DEF Reconcile, Replace
    <3>2. h \in Howls
      BY <2>1 DEF Howls, Audio
    <3>3. h # NoHowl
      BY <3>2, NoHowlAssumption
    <3> HIDE DEF h
    <3>4. h.src = c.desired.src /\ h.loop = c.desired.loop
      BY DEF h
    <3> QED
      BY <1>3, <3>1, <3>2, <3>3, <3>4 DEF Client, Follows
  <2> QED
    BY <2>2, <2>3
<1> QED
  BY <1>1, <1>2, <1>3 DEF Client

-----------------------------------------------------------------------------
(* Types.                                                                  *)

\* A publication keeps the types of the two variables it changes.
LEMMA PublishTypes ==
    ASSUME TypeOK, NEW event \in Commands \cup Lifecycle, NEW p \in Players,
           NEW a \in Audio \cup {Silence},
           Publish(event, p, a) \/ PublishNothing
    PROVE  pubsub' \in [Sessions -> Seq(Message)]
             /\ issued' \in [Sessions -> Seq(Audio \cup {Silence})]
<1>1. CASE PublishNothing
  BY <1>1 DEF PublishNothing, TypeOK
<1>2. CASE Publish(event, p, a)
  <2> DEFINE m == [event |-> event, player |-> p, audio |-> a]
  <2>1. m \in Message
    BY DEF Message
  <2>2. pubsub' = [s \in Sessions |->
                     IF s \in subscribed THEN Append(pubsub[s], m) ELSE pubsub[s]]
    BY <1>2 DEF Publish
  <2> HIDE DEF m
  <2>3. \A s \in Sessions : Append(pubsub[s], m) \in Seq(Message)
    BY <2>1, AppendProperties DEF TypeOK
  <2>4. pubsub' \in [Sessions -> Seq(Message)]
    BY <2>2, <2>3 DEF TypeOK
  <2>5. \A s \in Sessions : Append(issued[s], a) \in Seq(Audio \cup {Silence})
    BY AppendProperties DEF TypeOK
  <2>6. issued' \in [Sessions -> Seq(Audio \cup {Silence})]
    BY <1>2, <2>5 DEF Publish, TypeOK
  <2> QED
    BY <2>4, <2>6
<1> QED
  BY <1>1, <1>2

\* What a step of the game servers or the proxy does, but for the publication.
GameStep ==
    /\ where' \in [Players -> Audio \cup {Silence, Offline}]
    /\ moves' \in 0..MaxMoves
    /\ pending' \in SUBSET (Players \X Lifecycle)
    /\ pubsub' \in [Sessions -> Seq(Message)]
    /\ issued' \in [Sessions -> Seq(Audio \cup {Silence})]
    /\ UNCHANGED <<subscribed, task, wire, link, client, applied>>

LEMMA ArriveTypes ==
    ASSUME TypeOK, NEW p \in Players, NEW a \in Audio \cup {Silence}, Arrive(p, a)
    PROVE  /\ where' \in [Players -> Audio \cup {Silence, Offline}]
           /\ moves' \in 0..MaxMoves
           /\ UNCHANGED <<subscribed, task, wire, link, client, applied>>
BY MaxMovesAssumption DEF Arrive, TypeOK, relayVars

\* Every step of the environment is a GameStep.
LEMMA GameSteps ==
    ASSUME TypeOK, NEW p \in Players,
           \/ \E a \in Audio \cup {Silence} :
                \/ Login(p, a) \/ SwitchServer(p, a) \/ OnSetValue(p, a) \/ CommandLost(p, a)
           \/ OnAbsentValue(p) \/ Disconnect(p)
           \/ \E event \in Lifecycle : PublishLifecycle(p, event) \/ LifecycleLost(p, event)
    PROVE  GameStep
<1> USE DEF Commands, Lifecycle
<1>1. ASSUME NEW a \in Audio \cup {Silence},
             Login(p, a) \/ SwitchServer(p, a) \/ OnSetValue(p, a) \/ CommandLost(p, a)
      PROVE  GameStep
  <2>1. Arrive(p, a)
    BY <1>1 DEF Login, SwitchServer, OnSetValue, CommandLost
  <2>2. Publish("audio_play", p, a) \/ PublishNothing
    BY <1>1 DEF Login, SwitchServer, OnSetValue, CommandLost, OnInitialValue
  <2>3. pending' \in SUBSET (Players \X Lifecycle)
    BY <1>1 DEF Login, SwitchServer, OnSetValue, CommandLost, TypeOK
  <2>4. pubsub' \in [Sessions -> Seq(Message)]
          /\ issued' \in [Sessions -> Seq(Audio \cup {Silence})]
    BY <2>2, PublishTypes
  <2> QED
    BY <2>1, <2>3, <2>4, ArriveTypes DEF GameStep
<1>2. CASE OnAbsentValue(p)
  <2>1. Arrive(p, Silence)
    BY <1>2 DEF OnAbsentValue
  <2>2. pubsub' \in [Sessions -> Seq(Message)]
          /\ issued' \in [Sessions -> Seq(Audio \cup {Silence})]
    BY <1>2, PublishTypes DEF OnAbsentValue
  <2> QED
    BY <1>2, <2>1, <2>2, ArriveTypes DEF GameStep, OnAbsentValue, TypeOK
<1>3. CASE Disconnect(p)
  BY <1>3 DEF Disconnect, PublishNothing, GameStep, TypeOK, relayVars
<1>4. ASSUME NEW event \in Lifecycle, PublishLifecycle(p, event) \/ LifecycleLost(p, event)
      PROVE  GameStep
  <2>1. Publish(event, p, Silence) \/ PublishNothing
    BY <1>4 DEF PublishLifecycle, LifecycleLost
  <2>2. pubsub' \in [Sessions -> Seq(Message)]
          /\ issued' \in [Sessions -> Seq(Audio \cup {Silence})]
    BY <2>1, PublishTypes
  <2> QED
    BY <1>4, <2>2 DEF PublishLifecycle, LifecycleLost, GameStep, TypeOK, relayVars
<1> QED
  BY <1>1, <1>2, <1>3, <1>4

-----------------------------------------------------------------------------
(* Opening and losing a connection.                                        *)

\* No page is touched, no link is closed, and a task that is not yet sending
\* stays so: IssueLink, OnMount, Accept, Reject, LinkFails.
LEMMA ConnectingSteps ==
    ASSUME DeliveryInv, NEW s \in Sessions,
           IssueLink(s) \/ Accept(s) \/ Reject(s) \/ OnMount(s) \/ LinkFails(s)
    PROVE  DeliveryInv'
<1> USE DEF DeliveryInv, TypeOK
<1>1. UNCHANGED <<where, moves, pending, subscribed, pubsub, wire, client, issued, applied>>
  BY DEF IssueLink, Accept, Reject, OnMount, LinkFails, gameVars, relayVars
<1>2. /\ link' \in [Sessions -> LinkStates]
      /\ task' \in [Sessions -> TaskStates]
      /\ \A t \in Sessions : link'[t] = "closed" => link[t] = "closed"
      /\ \A t \in Sessions : task'[t] = task[t] \/ task'[t] \in {"auth", "closed"}
  <2>1. CASE IssueLink(s)
    BY <2>1 DEF IssueLink, relayVars, LinkStates
  <2>2. CASE Accept(s)
    BY <2>2 DEF Accept, LinkStates, TaskStates
  <2>3. CASE Reject(s)
    BY <2>3 DEF Reject, LinkStates, TaskStates
  <2>4. CASE OnMount(s)
    BY <2>4 DEF OnMount, relayVars, LinkStates
  <2>5. CASE LinkFails(s)
    BY <2>5 DEF LinkFails, relayVars, LinkStates
  <2> QED
    BY <2>1, <2>2, <2>3, <2>4, <2>5
<1>3. TypeOK'
  BY <1>1, <1>2
<1>4. AuthFirst'
  BY <1>1, <1>2 DEF AuthFirst
<1>5. ClosedIsSilent'
  BY <1>1, <1>2 DEF ClosedIsSilent
<1> QED
  BY <1>1, <1>3, <1>4, <1>5 DEF PageInv

-----------------------------------------------------------------------------
(* The relay: no step of a session task touches a page.                    *)

\* A frame behind another leaves the first where it is.
LEMMA AppendKeepsHead ==
    ASSUME NEW S, NEW seq \in Seq(S), NEW e \in S
    PROVE  /\ Append(seq, e) \in Seq(S)
           /\ Append(seq, e) # <<>>
           /\ seq = <<>> => Head(Append(seq, e)) = e
           /\ seq # <<>> => Head(Append(seq, e)) = Head(seq)
<1>1. /\ Append(seq, e) \in Seq(S) /\ Len(Append(seq, e)) = Len(seq) + 1
      /\ \A i \in 1..Len(seq) : Append(seq, e)[i] = seq[i]
      /\ Append(seq, e)[Len(seq) + 1] = e
  BY AppendProperties
<1>2. Len(seq) \in Nat /\ (seq = <<>> <=> Len(seq) = 0)
  BY EmptySeq, LenProperties
<1>3. Append(seq, e) # <<>>
  BY <1>1, <1>2
<1>4. Head(Append(seq, e)) = Append(seq, e)[1]
  BY <1>1, <1>3
<1>5. seq # <<>> => Head(seq) = seq[1]
  OBVIOUS
<1> QED
  BY <1>1, <1>2, <1>3, <1>4, <1>5

LEMMA TaskSteps ==
    ASSUME DeliveryInv, NEW s \in Sessions,
           TaskStep(s) \/ SubscribeFails(s) \/ PubSubDrops(s) \/ TaskNotices(s)
    PROVE  DeliveryInv'
<1> USE DEF DeliveryInv, TypeOK
<1>1. UNCHANGED <<where, moves, pending, link, client, issued, applied>>
  BY DEF TaskStep, SendAuth, Subscribe, SubscribeFails, Forward, CloseOnLeave, Drop,
         PubSubDrops, StreamEnds, TaskNotices, gameVars
<1>2. /\ subscribed' \in SUBSET Sessions /\ pubsub' \in [Sessions -> Seq(Message)]
      /\ task' \in [Sessions -> TaskStates] /\ wire' \in [Sessions -> Seq(Frame)]
      /\ AuthFirst'
  <2>1. ASSUME Take(s)
        PROVE  /\ task[s] = "live" /\ pubsub[s] \in Seq(Message) /\ pubsub[s] # <<>>
               /\ pubsub' \in [Sessions -> Seq(Message)] /\ Head(pubsub[s]) \in Message
    <3>1. task[s] = "live" /\ pubsub[s] \in Seq(Message) /\ pubsub[s] # <<>>
      BY <2>1 DEF Take
    <3>2. Head(pubsub[s]) \in Message /\ Tail(pubsub[s]) \in Seq(Message)
      BY <3>1, HeadTailProperties
    <3> QED
      BY <2>1, <3>1, <3>2 DEF Take
  <2>2. CASE SendAuth(s)
    <3> DEFINE f == [type |-> "auth_success", audio |-> Silence]
    <3>1. f \in Frame /\ f.type = "auth_success"
      BY DEF Frame
    <3>2. wire' = [wire EXCEPT ![s] = Append(wire[s], f)]
      BY <2>2 DEF SendAuth
    <3> HIDE DEF f
    <3>3. /\ Append(wire[s], f) \in Seq(Frame) /\ Append(wire[s], f) # <<>>
          /\ wire[s] = <<>> => Head(Append(wire[s], f)) = f
          /\ wire[s] # <<>> => Head(Append(wire[s], f)) = Head(wire[s])
      <4>1. wire[s] \in Seq(Frame)
        OBVIOUS
      <4> QED
        BY ONLY <3>1, <4>1, AppendKeepsHead
    <3>4. task' = [task EXCEPT ![s] = "subscribe"] /\ UNCHANGED <<subscribed, pubsub>>
      BY <2>2 DEF SendAuth
    <3>5. wire' \in [Sessions -> Seq(Frame)] /\ task' \in [Sessions -> TaskStates]
      BY <3>2, <3>3, <3>4 DEF TaskStates
    <3>6. AuthFirst'
      BY <1>1, <3>1, <3>2, <3>3, <3>4 DEF AuthFirst
    <3> QED
      BY <3>4, <3>5, <3>6
  <2>3. CASE Subscribe(s)
    BY <1>1, <2>3 DEF Subscribe, TaskStates, AuthFirst
  <2>4. CASE SubscribeFails(s)
    BY <1>1, <2>4 DEF SubscribeFails, TaskStates, AuthFirst
  <2>5. CASE Forward(s)
    <3> DEFINE f == [type |-> Head(pubsub[s]).event, audio |-> Head(pubsub[s]).audio]
    <3>1. f \in Frame
      BY <2>1, <2>5 DEF Forward, IsForwarded, Message, Frame
    <3>2. wire' = [wire EXCEPT ![s] = Append(wire[s], f)] /\ UNCHANGED <<subscribed, task>>
      BY <2>5 DEF Forward, relayVars
    <3> HIDE DEF f
    <3>3. /\ Append(wire[s], f) \in Seq(Frame) /\ Append(wire[s], f) # <<>>
          /\ wire[s] # <<>> => Head(Append(wire[s], f)) = Head(wire[s])
      <4>1. wire[s] \in Seq(Frame)
        OBVIOUS
      <4> QED
        BY ONLY <3>1, <4>1, AppendKeepsHead
    <3>4. ~client[s].authenticated => wire[s] # <<>> /\ Head(wire[s]).type = "auth_success"
      BY <2>1, <2>5 DEF Forward, AuthFirst
    <3>5. wire' \in [Sessions -> Seq(Frame)] /\ AuthFirst'
      BY <1>1, <3>2, <3>3, <3>4 DEF AuthFirst
    <3> QED
      BY <2>1, <2>5, <3>2, <3>5 DEF Forward
  <2>6. CASE CloseOnLeave(s)
    BY <1>1, <2>1, <2>6 DEF CloseOnLeave, TaskStates, AuthFirst
  <2>7. CASE Drop(s)
    BY <1>1, <2>1, <2>7 DEF Drop, relayVars, AuthFirst
  <2>8. CASE PubSubDrops(s)
    BY <1>1, <2>8 DEF PubSubDrops, AuthFirst
  <2>9. CASE StreamEnds(s)
    BY <1>1, <2>9 DEF StreamEnds, TaskStates, AuthFirst
  <2>10. CASE TaskNotices(s)
    BY <1>1, <2>10 DEF TaskNotices, TaskStates, AuthFirst
  <2> QED
    BY <2>2, <2>3, <2>4, <2>5, <2>6, <2>7, <2>8, <2>9, <2>10 DEF TaskStep
<1>3. TypeOK'
  BY <1>1, <1>2
<1> QED
  BY <1>1, <1>2, <1>3 DEF PageInv, ClosedIsSilent

-----------------------------------------------------------------------------
(* The page.                                                               *)

\* A callback that leaves the page as PageInv says, and silent when the link is
\* closed, keeps the invariant: only what is left of the wire remains to see.
LEMMA SetClientKeeps ==
    ASSUME DeliveryInv, NEW s \in Sessions, NEW c \in Client, PageInv(c),
           SetClient(s, c),
           client[s].authenticated => c.authenticated,
           UNCHANGED <<gameVars, relayVars, pubsub, issued>>,
           applied' \in [Sessions -> Nat],
           link' \in [Sessions -> LinkStates],
           \A t \in Sessions : t # s => link'[t] = link[t],
           link'[s] = "closed" => c.desired = Silence /\ c.howl = NoHowl,
           wire' \in [Sessions -> Seq(Frame)],
           \A t \in Sessions : wire'[t] = wire[t] \/ (t = s /\ c.authenticated)
    PROVE  DeliveryInv'
<1> USE DEF DeliveryInv, TypeOK, SetClient
<1>1. client' \in [Sessions -> Client] /\ client'[s] = c
  OBVIOUS
<1>2. \A t \in Sessions : t # s => client'[t] = client[t]
  OBVIOUS
<1>3. TypeOK'
  BY <1>1 DEF gameVars, relayVars
<1>4. AuthFirst'
  BY <1>1, <1>2 DEF AuthFirst, gameVars, relayVars
<1>5. \A t \in Sessions : PageInv(client[t])'
  BY <1>1, <1>2 DEF PageInv, Follows
<1>6. ClosedIsSilent'
  BY <1>1, <1>2 DEF ClosedIsSilent
<1> QED
  BY <1>3, <1>4, <1>5, <1>6

\* Whatever a page wants once it is authenticated, reconciling it makes it so.
LEMMA ReconcileEstablishes ==
    ASSUME NEW c \in Client, c.authenticated,
           ~c.enabled => c.howl = NoHowl /\ ~c.resuming
    PROVE  /\ Reconcile(c) \in Client /\ PageInv(Reconcile(c))
           /\ Reconcile(c).authenticated
           /\ Reconcile(c).desired = c.desired
           /\ c.desired = Silence => Reconcile(c).howl = NoHowl
BY ReconcileProperties DEF PageInv, Follows

\* Taking a frame needs an open socket and leaves the others alone.
LEMMA TakeFrameKeeps ==
    ASSUME DeliveryInv, NEW s \in Sessions, TakeFrame(s)
    PROVE  /\ wire[s] # <<>> /\ Head(wire[s]) \in Frame /\ link[s] = "open"
           /\ wire' \in [Sessions -> Seq(Frame)]
           /\ \A t \in Sessions : t # s => wire'[t] = wire[t]
           /\ UNCHANGED <<gameVars, relayVars, pubsub, link, issued>>
<1>1. wire \in [Sessions -> Seq(Frame)] /\ wire[s] # <<>> /\ link[s] = "open"
  BY DEF TakeFrame, DeliveryInv, TypeOK
<1>2. Head(wire[s]) \in Frame /\ Tail(wire[s]) \in Seq(Frame)
  BY <1>1, HeadTailProperties
<1> QED
  BY <1>1, <1>2 DEF TakeFrame

LEMMA FrameSteps ==
    ASSUME DeliveryInv, NEW s \in Sessions, OnAuthSuccess(s) \/ OnCommand(s)
    PROVE  DeliveryInv'
<1>1. /\ client[s] \in Client /\ PageInv(client[s])
      /\ link \in [Sessions -> LinkStates] /\ applied \in [Sessions -> Nat]
  BY DEF DeliveryInv, TypeOK
<1>2. TakeFrame(s)
  BY DEF OnAuthSuccess, OnCommand
<1>3. CASE OnAuthSuccess(s)
  <2> DEFINE c == [client[s] EXCEPT !.authenticated = TRUE]
  <2>1. c \in Client /\ PageInv(c) /\ c.authenticated
    BY <1>1 DEF Client, PageInv, Follows
  <2>2. SetClient(s, c) /\ applied' = applied
    BY <1>3 DEF OnAuthSuccess
  <2> HIDE DEF c
  <2> QED
    BY <1>1, <1>2, <2>1, <2>2, TakeFrameKeeps, SetClientKeeps
<1>4. CASE OnCommand(s)
  <2> DEFINE d == [client[s] EXCEPT !.desired = Head(wire[s]).audio]
             c == Reconcile(d)
  <2>1. client[s].authenticated
    BY <1>2, <1>4, TakeFrameKeeps DEF OnCommand, Commands, DeliveryInv, AuthFirst
  <2>2. d \in Client /\ d.authenticated /\ (~d.enabled => d.howl = NoHowl /\ ~d.resuming)
    BY <1>1, <1>2, <2>1, TakeFrameKeeps DEF Client, Frame, PageInv
  <2>3. SetClient(s, c) /\ applied' \in [Sessions -> Nat]
    BY <1>1, <1>4 DEF OnCommand
  <2> HIDE DEF d
  <2>4. c \in Client /\ PageInv(c) /\ c.authenticated
    BY <2>2, ReconcileEstablishes
  <2> HIDE DEF c
  <2> QED
    BY <1>1, <1>2, <2>3, <2>4, TakeFrameKeeps, SetClientKeeps
<1> QED
  BY <1>3, <1>4

\* The callbacks that read no frame and do not close the link.
Callback(s) ==
    \E c \in Client :
        /\ PageInv(c) /\ SetClient(s, c)
        /\ client[s].authenticated => c.authenticated
        /\ link'[s] = "closed" => c.desired = Silence /\ c.howl = NoHowl

LEMMA CallbackKeeps ==
    ASSUME DeliveryInv, NEW s \in Sessions, Callback(s),
           link' \in [Sessions -> LinkStates],
           \A t \in Sessions : t # s => link'[t] = link[t],
           UNCHANGED <<gameVars, relayVars, pubsub, wire, issued, applied>>
    PROVE  DeliveryInv'
<1>1. PICK c \in Client :
          /\ PageInv(c) /\ SetClient(s, c)
          /\ client[s].authenticated => c.authenticated
          /\ link'[s] = "closed" => c.desired = Silence /\ c.howl = NoHowl
  BY DEF Callback
<1>2. /\ UNCHANGED <<gameVars, relayVars, pubsub, issued>>
      /\ applied' = applied /\ wire' = wire
  OBVIOUS
<1>3. applied' \in [Sessions -> Nat] /\ wire' \in [Sessions -> Seq(Frame)]
  BY <1>2 DEF DeliveryInv, TypeOK
<1> QED
  BY <1>1, <1>2, <1>3, SetClientKeeps

\* The click, resume() and Howler's callbacks.
LEMMA AudioSteps ==
    ASSUME DeliveryInv, NEW s \in Sessions,
           \/ \E suspended \in BOOLEAN : EnableAudio(s, suspended)
           \/ ResumeSettles(s) \/ ClipEnds(s) \/ LoadFails(s)
    PROVE  DeliveryInv'
<1>1. /\ client[s] \in Client /\ PageInv(client[s])
      /\ link \in [Sessions -> LinkStates]
      /\ link[s] = "closed" => client[s].desired = Silence /\ client[s].howl = NoHowl
  BY DEF DeliveryInv, TypeOK, ClosedIsSilent
<1>2. UNCHANGED <<gameVars, relayVars, pubsub, wire, link, issued, applied>>
  BY DEF EnableAudio, ResumeSettles, ClipEnds, LoadFails, ClipStops
<1>3. link' = link
  BY <1>2
<1>4. ASSUME NEW d \in Client, d.authenticated, d.enabled, d.desired = client[s].desired,
             SetClient(s, Reconcile(d))
      PROVE  Callback(s)
  BY <1>1, <1>3, <1>4, ReconcileEstablishes DEF Callback
<1>5. ASSUME NEW suspended \in BOOLEAN, EnableAudio(s, suspended)
      PROVE  Callback(s)
  <2> DEFINE d == [client[s] EXCEPT !.enabled = TRUE, !.resuming = suspended]
  <2>1. /\ client[s].authenticated /\ ~client[s].enabled
        /\ SetClient(s, IF suspended THEN d ELSE Reconcile(d))
    BY <1>5 DEF EnableAudio
  <2>2. /\ d \in Client /\ d.authenticated /\ d.enabled /\ d.resuming = suspended
        /\ d.desired = client[s].desired /\ d.howl = client[s].howl
    BY <1>1, <2>1 DEF Client
  <2> HIDE DEF d
  <2>3. CASE suspended
    <3>1. PageInv(d) /\ SetClient(s, d)
      BY <2>1, <2>2, <2>3 DEF PageInv
    <3> QED
      BY <1>1, <1>3, <2>2, <3>1 DEF Callback
  <2>4. CASE ~suspended
    BY <1>4, <2>1, <2>2, <2>4
  <2> QED
    BY <2>3, <2>4
<1>6. ASSUME ResumeSettles(s)
      PROVE  Callback(s)
  <2> DEFINE d == [client[s] EXCEPT !.resuming = FALSE]
  <2>1. SetClient(s, Reconcile(d)) /\ client[s].authenticated /\ client[s].enabled
    BY <1>1, <1>6 DEF ResumeSettles, PageInv, Client
  <2>2. d \in Client /\ d.authenticated /\ d.enabled /\ d.desired = client[s].desired
    BY <1>1, <2>1 DEF Client
  <2> HIDE DEF d
  <2> QED
    BY <1>4, <2>1, <2>2
<1>7. ASSUME NEW state \in {"ended", "failed"}, ClipStops(s, state)
      PROVE  Callback(s)
  <2> DEFINE h == [client[s].howl EXCEPT !.state = state]
             c == [client[s] EXCEPT !.howl = h]
  <2>1. client[s].howl \in Howls /\ client[s].howl # NoHowl
    BY <1>1, <1>7 DEF ClipStops, Client
  <2>2. h \in Howls /\ h.src = client[s].howl.src /\ h.loop = client[s].howl.loop
    BY <2>1 DEF Howls
  <2>3. h # NoHowl
    BY <2>2, NoHowlAssumption
  <2>4. SetClient(s, c)
    BY <1>1, <1>7, <2>1 DEF ClipStops, Client
  <2> HIDE DEF h
  <2>5. c \in Client /\ PageInv(c) /\ c.authenticated = client[s].authenticated
    BY <1>1, <2>1, <2>2, <2>3 DEF Client, PageInv, Follows
  <2> HIDE DEF c
  <2> QED
    BY <1>1, <1>3, <2>1, <2>4, <2>5 DEF Callback
<1>8. Callback(s)
  BY <1>5, <1>6, <1>7 DEF ClipEnds, LoadFails
<1> QED
  BY <1>1, <1>2, <1>3, <1>8, CallbackKeeps

\* onclose leaves the page silent, whether or not it was ever authenticated.
LEMMA CloseSteps ==
    ASSUME DeliveryInv, NEW s \in Sessions, OnClose(s) \/ OnLinkLost(s)
    PROVE  DeliveryInv'
<1>1. /\ client[s] \in Client /\ PageInv(client[s])
      /\ link \in [Sessions -> LinkStates]
      /\ HandleClose(s)
  BY DEF DeliveryInv, TypeOK, OnClose, OnLinkLost
<1>2. /\ link' = [link EXCEPT ![s] = "closed"]
      /\ UNCHANGED <<gameVars, relayVars, pubsub, wire, issued, applied>>
  BY <1>1 DEF HandleClose
<1>3. link' \in [Sessions -> LinkStates] /\ (\A t \in Sessions : t # s => link'[t] = link[t])
  BY <1>1, <1>2 DEF LinkStates
<1>4. ASSUME client[s].authenticated
      PROVE  Callback(s)
  <2> DEFINE d == [client[s] EXCEPT !.desired = Silence]
  <2>1. SetClient(s, Reconcile(d))
    BY <1>1, <1>4 DEF HandleClose
  <2>2. /\ d \in Client /\ d.authenticated /\ d.desired = Silence
        /\ ~d.enabled => d.howl = NoHowl /\ ~d.resuming
    BY <1>1, <1>4 DEF Client, PageInv
  <2> HIDE DEF d
  <2> QED
    BY <2>1, <2>2, ReconcileEstablishes DEF Callback
<1>5. ASSUME ~client[s].authenticated
      PROVE  Callback(s)
  <2>1. SetClient(s, client[s])
    BY <1>1, <1>5 DEF HandleClose
  <2>2. client[s].desired = Silence /\ client[s].howl = NoHowl
    BY <1>1, <1>5 DEF PageInv
  <2> QED
    BY <1>1, <2>1, <2>2 DEF Callback
<1> QED
  BY <1>2, <1>3, <1>4, <1>5, CallbackKeeps

\* onDestroy unloads the Howl but keeps it: what it is stays what was wanted.
LEMMA DestroyStep ==
    ASSUME DeliveryInv, NEW s \in Sessions, OnDestroy(s)
    PROVE  DeliveryInv'
<1> DEFINE d == [client[s] EXCEPT !.destroyed = TRUE]
<1>1. /\ client[s] \in Client /\ PageInv(client[s])
      /\ link \in [Sessions -> LinkStates]
      /\ link[s] = "closed" => client[s].desired = Silence /\ client[s].howl = NoHowl
  BY DEF DeliveryInv, TypeOK, ClosedIsSilent
<1>2. /\ link' = [link EXCEPT ![s] = IF @ \in {"opening", "open"} THEN "closing" ELSE @]
      /\ SetClient(s, IF d.howl = NoHowl THEN d ELSE [d EXCEPT !.howl.state = "unloaded"])
      /\ UNCHANGED <<gameVars, relayVars, pubsub, wire, issued, applied>>
  BY DEF OnDestroy
<1>3. /\ link' \in [Sessions -> LinkStates]
      /\ \A t \in Sessions : t # s => link'[t] = link[t]
      /\ link'[s] = "closed" => link[s] = "closed"
  BY <1>1, <1>2 DEF LinkStates
<1>4. d \in Client /\ PageInv(d) /\ d.authenticated = client[s].authenticated
        /\ d.desired = client[s].desired /\ d.howl = client[s].howl
  BY <1>1 DEF Client, PageInv, Follows
<1> HIDE DEF d
<1>5. ASSUME d.howl = NoHowl
      PROVE  Callback(s)
  BY <1>1, <1>2, <1>3, <1>4, <1>5 DEF Callback
<1>6. ASSUME d.howl # NoHowl
      PROVE  Callback(s)
  <2> DEFINE h == [d.howl EXCEPT !.state = "unloaded"]
             c == [d EXCEPT !.howl = h]
  <2>1. d.howl \in Howls
    BY <1>4, <1>6 DEF Client
  <2>2. h \in Howls /\ h.src = d.howl.src /\ h.loop = d.howl.loop
    BY <2>1 DEF Howls
  <2>3. h # NoHowl
    BY <2>2, NoHowlAssumption
  <2>4. SetClient(s, c)
    BY <1>2, <1>4, <1>6 DEF Client
  <2> HIDE DEF h
  <2>5. c \in Client /\ PageInv(c) /\ c.authenticated = client[s].authenticated
    BY <1>4, <1>6, <2>1, <2>2, <2>3 DEF Client, PageInv, Follows
  <2> HIDE DEF c
  <2> QED
    BY <1>1, <1>3, <1>4, <1>6, <2>4, <2>5 DEF Callback
<1> QED
  BY <1>2, <1>3, <1>5, <1>6, CallbackKeeps

-----------------------------------------------------------------------------
(* The theorems.                                                           *)

LEMMA InitDelivery ==
    ASSUME Init
    PROVE  DeliveryInv
<1>1. TypeOK
  <2>1. \A S : <<>> \in Seq(S)
    BY EmptySeq
  <2>2. where \in [Players -> Audio \cup {Silence, Offline}] /\ moves \in 0..MaxMoves
    BY MaxMovesAssumption DEF Init
  <2>3. pending \in SUBSET (Players \X Lifecycle) /\ subscribed \in SUBSET Sessions
    BY DEF Init
  <2>4. /\ pubsub \in [Sessions -> Seq(Message)] /\ wire \in [Sessions -> Seq(Frame)]
        /\ issued \in [Sessions -> Seq(Audio \cup {Silence})]
    BY <2>1 DEF Init
  <2>5. /\ task \in [Sessions -> TaskStates] /\ link \in [Sessions -> LinkStates]
        /\ client \in [Sessions -> Client] /\ applied \in [Sessions -> Nat]
    BY DEF Init, TaskStates, LinkStates, Client
  <2> QED
    BY <2>2, <2>3, <2>4, <2>5 DEF TypeOK
<1>2. AuthFirst /\ ClosedIsSilent
  BY DEF Init, AuthFirst, ClosedIsSilent
<1>3. \A s \in Sessions : PageInv(client[s])
  BY DEF Init, PageInv
<1> QED
  BY <1>1, <1>2, <1>3 DEF DeliveryInv

LEMMA NextDelivery ==
    ASSUME DeliveryInv, [Next]_vars
    PROVE  DeliveryInv'
<1>1. ASSUME GameStep
      PROVE  DeliveryInv'
  BY <1>1 DEF GameStep, DeliveryInv, TypeOK, AuthFirst, PageInv, Follows, ClosedIsSilent
<1>2. ASSUME NEW p \in Players,
             \/ \E a \in Audio \cup {Silence} :
                  \/ Login(p, a) \/ SwitchServer(p, a) \/ OnSetValue(p, a) \/ CommandLost(p, a)
             \/ OnAbsentValue(p) \/ Disconnect(p)
             \/ \E event \in Lifecycle : PublishLifecycle(p, event) \/ LifecycleLost(p, event)
      PROVE  DeliveryInv'
  BY <1>1, <1>2, GameSteps DEF DeliveryInv
<1>3. ASSUME NEW s \in Sessions,
             IssueLink(s) \/ Accept(s) \/ Reject(s) \/ OnMount(s) \/ LinkFails(s)
      PROVE  DeliveryInv'
  BY <1>3, ConnectingSteps
<1>4. ASSUME NEW s \in Sessions,
             TaskStep(s) \/ SubscribeFails(s) \/ PubSubDrops(s) \/ TaskNotices(s)
      PROVE  DeliveryInv'
  BY <1>4, TaskSteps
<1>5. ASSUME NEW s \in Sessions,
             \/ OnAuthSuccess(s) \/ OnCommand(s) \/ ResumeSettles(s) \/ OnClose(s)
             \/ ClipEnds(s) \/ LoadFails(s) \/ OnLinkLost(s) \/ OnDestroy(s)
             \/ \E suspended \in BOOLEAN : EnableAudio(s, suspended)
      PROVE  DeliveryInv'
  BY <1>5, FrameSteps, AudioSteps, CloseSteps, DestroyStep
<1>6. CASE UNCHANGED vars
  BY <1>6 DEF vars, DeliveryInv, TypeOK, AuthFirst, PageInv, Follows, ClosedIsSilent
<1>7. \A p \in Players : Regions[p] \subseteq Audio
  BY RegionsAssumption
<1>8. CASE Progress
  BY <1>2, <1>3, <1>4, <1>5, <1>7, <1>8 DEF Progress, PageStep
<1>9. CASE Faults
  BY <1>2, <1>3, <1>4, <1>5, <1>7, <1>9 DEF Faults
<1> QED
  BY <1>6, <1>8, <1>9 DEF Next

\* In every behaviour, with every fault, the inductive invariant holds.
THEOREM DeliveryInvariant == Spec => []DeliveryInv
<1>1. Init => DeliveryInv
  BY InitDelivery
<1>2. DeliveryInv /\ [Next]_vars => DeliveryInv'
  BY NextDelivery
<1> QED
  BY <1>1, <1>2, PTL DEF Spec

\* Every variable keeps its type, whatever the players, sessions and clips.
THEOREM DeliveryTypes == Spec => []TypeOK
<1>1. DeliveryInv => TypeOK
  BY DEF DeliveryInv
<1> QED
  BY <1>1, DeliveryInvariant, PTL

\* The Howl of an enabled page is always what reconcile would make of the last
\* request: the property of +page.svelte's reconcile, for all interleavings of
\* commands, click, resume(), Howler's callbacks, close and destroy.
THEOREM PlaybackFollows == Spec => []PlaybackFollowsDesired
<1>1. DeliveryInv => PlaybackFollowsDesired
  BY DEF DeliveryInv, PageInv, Follows, PlaybackFollowsDesired
<1> QED
  BY <1>1, DeliveryInvariant, PTL

\* A page whose onclose ran never plays again: no later callback revives it.
THEOREM ClosedStaysSilent == Spec => []ClosedIsSilent
<1>1. DeliveryInv => ClosedIsSilent
  BY DEF DeliveryInv
<1> QED
  BY <1>1, DeliveryInvariant, PTL

-----------------------------------------------------------------------------
(* A player_disconnect in the queue of a session.                          *)

\* A longer queue still holds it.
LEMMA LeaveStaysBehind ==
    ASSUME NEW s \in Sessions, pubsub[s] \in Seq(Message), NEW m \in Message,
           pubsub'[s] = Append(pubsub[s], m), LeaveDelivered(s)
    PROVE  LeaveDelivered(s)'
<1>1. PICK i \in 1..Len(pubsub[s]) : ClosesSession(pubsub[s][i], s)
  BY DEF LeaveDelivered
<1>2. PICK q \in Seq(Message) : q = pubsub[s]
  OBVIOUS
<1>3. /\ Len(q) \in Nat /\ Len(Append(q, m)) = Len(q) + 1
      /\ \A j \in 1..Len(q) : Append(q, m)[j] = q[j]
  BY LenProperties, AppendProperties
<1>4. i \in 1..Len(pubsub'[s]) /\ pubsub'[s][i] = pubsub[s][i]
  BY <1>1, <1>2, <1>3
<1> QED
  BY <1>1, <1>4 DEF LeaveDelivered, ClosesSession

\* Taking another message leaves it in the queue.
LEMMA LeaveMovesUp ==
    ASSUME NEW s \in Sessions, pubsub[s] \in Seq(Message), pubsub[s] # <<>>,
           pubsub'[s] = Tail(pubsub[s]), ~ClosesSession(Head(pubsub[s]), s),
           LeaveDelivered(s)
    PROVE  LeaveDelivered(s)'
<1>1. PICK i \in 1..Len(pubsub[s]) : ClosesSession(pubsub[s][i], s)
  BY DEF LeaveDelivered
<1>2. PICK q \in Seq(Message) : q = pubsub[s]
  OBVIOUS
<1>3. q # <<>> /\ Head(q) = q[1] /\ Len(q) \in Nat
  BY <1>2, LenProperties
<1>4. Len(Tail(q)) = Len(q) - 1 /\ \A j \in 1..Len(Tail(q)) : Tail(q)[j] = q[j + 1]
  BY <1>3, HeadTailProperties
<1>5. i # 1
  BY <1>1, <1>2, <1>3
<1>6. i - 1 \in 1..Len(Tail(q)) /\ Tail(q)[i - 1] = q[i]
  BY <1>2, <1>3, <1>4, <1>5
<1> QED
  BY <1>1, <1>2, <1>6 DEF LeaveDelivered, ClosesSession

LEMMA LeaveStep ==
    ASSUME DeliveryInv, [Next]_vars, NEW s \in Sessions, LeaveDelivered(s) \/ HasEnded(s)
    PROVE  LeaveDelivered(s)' \/ HasEnded(s)'
<1>1. /\ pubsub \in [Sessions -> Seq(Message)] /\ task \in [Sessions -> TaskStates]
      /\ TypeOK
  BY DEF DeliveryInv, TypeOK
<1>2. ASSUME pubsub'[s] = pubsub[s], HasEnded(s) => HasEnded(s)'
      PROVE  LeaveDelivered(s)' \/ HasEnded(s)'
  BY <1>2 DEF LeaveDelivered, ClosesSession
<1>3. ASSUME UNCHANGED <<pubsub, task, subscribed>>
      PROVE  LeaveDelivered(s)' \/ HasEnded(s)'
  BY <1>2, <1>3 DEF HasEnded
<1>4. ASSUME NEW p \in Players, NEW event \in Commands \cup Lifecycle,
             NEW a \in Audio \cup {Silence}, Publish(event, p, a), UNCHANGED relayVars
      PROVE  LeaveDelivered(s)' \/ HasEnded(s)'
  <2> DEFINE m == [event |-> event, player |-> p, audio |-> a]
  <2>1. m \in Message /\ pubsub'[s] \in {pubsub[s], Append(pubsub[s], m)}
    BY <1>4 DEF Message, Publish
  <2>2. HasEnded(s) => HasEnded(s)'
    BY <1>4 DEF relayVars, HasEnded
  <2> HIDE DEF m
  <2> QED
    BY <1>1, <1>2, <2>1, <2>2, LeaveStaysBehind
<1>5. ASSUME NEW p \in Players,
             \/ \E a \in Audio \cup {Silence} :
                  \/ Login(p, a) \/ SwitchServer(p, a) \/ OnSetValue(p, a) \/ CommandLost(p, a)
             \/ OnAbsentValue(p) \/ Disconnect(p)
             \/ \E event \in Lifecycle : PublishLifecycle(p, event) \/ LifecycleLost(p, event)
      PROVE  LeaveDelivered(s)' \/ HasEnded(s)'
  <2>1. UNCHANGED relayVars
    BY <1>5 DEF Login, SwitchServer, OnSetValue, CommandLost, OnAbsentValue, Disconnect,
                PublishLifecycle, LifecycleLost, Arrive
  <2>2. \E event \in Commands \cup Lifecycle, a \in Audio \cup {Silence} :
            Publish(event, p, a) \/ PublishNothing
    BY <1>5 DEF Login, SwitchServer, OnSetValue, CommandLost, OnAbsentValue, Disconnect,
                PublishLifecycle, LifecycleLost, OnInitialValue, Commands
  <2> QED
    BY <1>3, <1>4, <2>1, <2>2 DEF PublishNothing, relayVars
<1>6. ASSUME NEW t \in Sessions,
             \/ Accept(t) \/ Reject(t) \/ SendAuth(t) \/ Subscribe(t) \/ SubscribeFails(t)
             \/ PubSubDrops(t) \/ StreamEnds(t) \/ TaskNotices(t)
      PROVE  LeaveDelivered(s)' \/ HasEnded(s)'
  <2>1. pubsub' = pubsub
    BY <1>6 DEF Accept, Reject, SendAuth, Subscribe, SubscribeFails, PubSubDrops, StreamEnds,
                TaskNotices
  <2>2. HasEnded(s) => HasEnded(s)'
    BY <1>1, <1>6 DEF Accept, Reject, SendAuth, Subscribe, SubscribeFails, PubSubDrops,
                      StreamEnds, TaskNotices, HasEnded
  <2> QED
    BY <1>2, <2>1, <2>2
<1>7. ASSUME NEW t \in Sessions, Forward(t) \/ CloseOnLeave(t) \/ Drop(t)
      PROVE  LeaveDelivered(s)' \/ HasEnded(s)'
  <2>1. task[t] = "live" /\ pubsub[t] # <<>> /\ pubsub' = [pubsub EXCEPT ![t] = Tail(pubsub[t])]
    BY <1>7 DEF Forward, CloseOnLeave, Drop, Take
  <2>2. CASE t # s
    <3>1. HasEnded(s) => HasEnded(s)'
      BY <1>1, <1>7, <2>2 DEF Forward, CloseOnLeave, Drop, HasEnded, relayVars
    <3> QED
      BY <1>1, <1>2, <2>1, <2>2, <3>1
  <2>3. CASE t = s /\ CloseOnLeave(s)
    BY <1>1, <2>3 DEF CloseOnLeave, HasEnded
  <2>4. CASE t = s /\ (Forward(s) \/ Drop(s))
    <3>1. ~ClosesSession(Head(pubsub[s]), s)
      BY <2>4 DEF Forward, Drop, IsForwarded, ClosesSession, Commands
    <3>2. LeaveDelivered(s)
      BY <2>1, <2>4 DEF HasEnded
    <3>3. pubsub[s] \in Seq(Message) /\ pubsub[s] # <<>> /\ pubsub'[s] = Tail(pubsub[s])
      BY <1>1, <2>1, <2>4
    <3> QED
      BY <3>1, <3>2, <3>3, LeaveMovesUp
  <2> QED
    BY <1>7, <2>2, <2>3, <2>4
<1>8. ASSUME NEW t \in Sessions,
             \/ IssueLink(t) \/ OnMount(t) \/ LinkFails(t) \/ OnAuthSuccess(t) \/ OnCommand(t)
             \/ ResumeSettles(t) \/ OnClose(t) \/ ClipEnds(t) \/ LoadFails(t) \/ OnLinkLost(t)
             \/ OnDestroy(t) \/ \E suspended \in BOOLEAN : EnableAudio(t, suspended)
      PROVE  LeaveDelivered(s)' \/ HasEnded(s)'
  BY <1>3, <1>8 DEF IssueLink, OnMount, LinkFails, OnAuthSuccess, OnCommand, TakeFrame,
     ResumeSettles, OnClose, ClipEnds, LoadFails, ClipStops, OnLinkLost, HandleClose,
     OnDestroy, EnableAudio, relayVars
<1>9. CASE UNCHANGED vars
  BY <1>3, <1>9 DEF vars
<1>10. \A p \in Players : Regions[p] \subseteq Audio
  BY RegionsAssumption
<1>11. CASE Progress
  BY <1>5, <1>6, <1>7, <1>8, <1>10, <1>11 DEF Progress, TaskStep, PageStep
<1>12. CASE Faults
  BY <1>5, <1>6, <1>8, <1>10, <1>12 DEF Faults
<1> QED
  BY <1>9, <1>11, <1>12 DEF Next

\* A delivered player_disconnect waits for its task or has ended it, and what it
\* ended stays ended: the part of LeaveSilences that needs no fairness.
THEOREM LeaveWaits == Spec => LeaveIsKept
<1>1. DeliveryInv /\ [Next]_vars =>
        [\A s \in Sessions : LeaveDelivered(s) \/ HasEnded(s)
                               => LeaveDelivered(s)' \/ HasEnded(s)']_vars
  BY LeaveStep
<1> QED
  BY <1>1, DeliveryInvariant, PTL DEF LeaveIsKept, Spec
=============================================================================
