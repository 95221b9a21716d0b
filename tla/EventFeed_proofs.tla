-------------------------- MODULE EventFeed_proofs --------------------------
(***************************************************************************)
(* What TLAPS proves about EventFeed, for any number of events,            *)
(* connections and pages and any cap.                                      *)
(***************************************************************************)
EXTENDS EventFeed, SeqLemmas, FiniteSetTheorems

\* Newest keeps the head of the sequence.
LEMMA NewestProperties ==
    ASSUME NEW S, NEW s \in Seq(S), NEW n \in Nat
    PROVE  /\ Newest(s, n) \in Seq(S)
           /\ Len(Newest(s, n)) = IF Len(s) < n THEN Len(s) ELSE n
           /\ \A i \in 1..Len(Newest(s, n)) : i \in 1..Len(s) /\ Newest(s, n)[i] = s[i]
<1>1. Len(s) \in Nat
  BY LenProperties
<1>2. SUFFICES ASSUME NEW m \in Nat, m = IF Len(s) < n THEN Len(s) ELSE n
               PROVE  /\ SubSeq(s, 1, m) \in Seq(S)
                      /\ Len(SubSeq(s, 1, m)) = m
                      /\ \A i \in 1..m : i \in 1..Len(s) /\ SubSeq(s, 1, m)[i] = s[i]
  BY <1>1 DEF Newest
<1>3. m <= Len(s)
  BY <1>1, <1>2
<1> QED
  BY <1>3, PrefixProperties

-----------------------------------------------------------------------------
(* The inductive invariant.                                                *)

\* y may be sent after x: they differ, and y was not over when x went out,
\* where ea gives what was over when an event went out.
MayFollow(ea, x, y) == x # y /\ (x \in Events => y \notin ea[x])

Increasing(ea, s) == \A i, j \in 1..Len(s) : i < j => MayFollow(ea, s[i], s[j])
Decreasing(ea, s) == \A i, j \in 1..Len(s) : i < j => MayFollow(ea, s[j], s[i])
Before(ea, s, t) == \A i \in 1..Len(s), j \in 1..Len(t) : MayFollow(ea, s[i], t[j])
AllOut(ps, s) == \A i \in 1..Len(s) : s[i] \in Events => ps[s[i]] # "publish"

\* What was over when an event went out is still over.
EarlierOver == \A e \in Events : \A x \in earlier[e] : IsOver(x)

\* The list holds recorded events only, newest first.
RecentInv ==
    /\ \A i \in 1..Len(recent) : IsPushed(recent[i])
    /\ Decreasing(earlier, recent)

\* A connection that was not accepted has no task; only live tasks subscribe;
\* nothing is sent before LRANGE, nothing is queued but for a live task, and
\* nothing is left to replay after SUBSCRIBE.
PhaseInv ==
    /\ \A c \in Conns : link[c] \in {"unused", "opening"} => task[c] = "none"
    /\ \A c \in subscribed : task[c] = "live"
    /\ \A c \in Conns : task[c] \in {"none", "lrange"} =>
                            sent[c] = <<>> /\ history[c] = <<>>
    /\ \A c \in Conns : task[c] # "live" => pubsub[c] = <<>>
    /\ \A c \in Conns : task[c] \in {"subscribe", "live"} => history[c] = <<>>
    /\ \A c \in Conns : task[c] \in {"none", "lrange", "replay"} =>
                            \A i \in 1..Len(sent[c]) : sent[c][i] \in Events

\* What was sent, what is still to be replayed and what is queued are in order
\* one by one and one after the other, and were all published.
ConnInv(c) ==
    /\ Increasing(earlier, sent[c])
    /\ Decreasing(earlier, history[c])
    /\ Increasing(earlier, pubsub[c])
    /\ Before(earlier, sent[c], history[c])
    /\ Before(earlier, sent[c], pubsub[c])
    /\ AllOut(pc, sent[c]) /\ AllOut(pc, history[c]) /\ AllOut(pc, pubsub[c])

FeedInv ==
    /\ TypeOK /\ EarlierOver /\ RecentInv /\ PhaseInv
    /\ \A c \in Conns : ConnInv(c)

-----------------------------------------------------------------------------
(* Type correctness.                                                       *)

\* Every step keeps every variable in its type.
LEMMA TypeStep == TypeOK /\ [Next]_vars => TypeOK'
<1> SUFFICES ASSUME TypeOK, [Next]_vars
             PROVE  TypeOK'
  OBVIOUS
<1> USE DEF TypeOK, publisherVars, relayVars, pageVars, Steps, TaskStates,
            LinkStates, PageStates
<1>1. ASSUME NEW e \in Events, Publish(e)
      PROVE  TypeOK'
  <2>1. pubsub' \in [Conns -> Seq(Events)]
    BY <1>1, AppendProperties DEF Publish
  <2>2. earlier' \in [Events -> SUBSET Events]
    BY <1>1 DEF Publish
  <2>3. pc' \in [Events -> Steps]
    BY <1>1 DEF Publish
  <2> QED
    BY <1>1, <2>1, <2>2, <2>3 DEF Publish
<1>2. ASSUME NEW e \in Events, Lpush(e)
      PROVE  TypeOK'
  <2>1. recent' \in Seq(Events) /\ pushed' \in Seq(Events)
    BY <1>2, ConsProperties DEF Lpush
  <2> QED
    BY <1>2, <2>1 DEF Lpush
<1>3. ASSUME NEW e \in Events, Ltrim(e)
      PROVE  TypeOK'
  <2>1. recent' \in Seq(Events)
    BY <1>3, NewestProperties, CapAssumption DEF Ltrim
  <2> QED
    BY <1>3, <2>1 DEF Ltrim
<1>4. ASSUME NEW e \in Events, PublisherFails(e)
      PROVE  TypeOK'
  BY <1>4 DEF PublisherFails
<1>5. ASSUME NEW c \in Conns, Accept(c) \/ Reject(c) \/ LinkFails(c)
      PROVE  TypeOK'
  <2>1. CASE Accept(c)
    BY <2>1 DEF Accept
  <2>2. CASE Reject(c)
    BY <2>2 DEF Reject
  <2>3. CASE LinkFails(c)
    BY <2>3 DEF LinkFails
  <2> QED
    BY <1>5, <2>1, <2>2, <2>3
<1>6. ASSUME NEW c \in Conns, Lrange(c) \/ LrangeFails(c)
      PROVE  TypeOK'
  <2>1. CASE Lrange(c)
    BY <2>1 DEF Lrange
  <2>2. CASE LrangeFails(c)
    BY <2>2 DEF LrangeFails
  <2> QED
    BY <1>6, <2>1, <2>2
<1>7. ASSUME NEW c \in Conns, Replay(c)
      PROVE  TypeOK'
  <2>1. history[c][Len(history[c])] \in Events
    BY <1>7, FrontProperties DEF Replay
  <2>2. sent' \in [Conns -> Seq(Events \cup {HistoryEnd})]
    BY <1>7, <2>1, AppendProperties DEF Replay
  <2>3. history' \in [Conns -> Seq(Events)]
    BY <1>7, FrontProperties DEF Replay
  <2> QED
    BY <1>7, <2>2, <2>3 DEF Replay
<1>8. ASSUME NEW c \in Conns, SendSentinel(c)
      PROVE  TypeOK'
  <2>1. sent' \in [Conns -> Seq(Events \cup {HistoryEnd})]
    BY <1>8, AppendProperties DEF SendSentinel
  <2> QED
    BY <1>8, <2>1 DEF SendSentinel
<1>9. ASSUME NEW c \in Conns,
             \/ Subscribe(c) \/ SubscribeFails(c) \/ PubSubDrops(c)
             \/ StreamEnds(c) \/ TaskNotices(c)
      PROVE  TypeOK'
  <2>1. CASE Subscribe(c)
    BY <2>1 DEF Subscribe
  <2>2. CASE SubscribeFails(c)
    BY <2>2 DEF SubscribeFails
  <2>3. CASE PubSubDrops(c)
    BY <2>3 DEF PubSubDrops
  <2>4. CASE StreamEnds(c)
    BY <2>4 DEF StreamEnds
  <2>5. CASE TaskNotices(c)
    <3>1. pubsub' \in [Conns -> Seq(Events)]
      BY <2>5, EmptySeq DEF TaskNotices
    <3> QED
      BY <2>5, <3>1 DEF TaskNotices
  <2> QED
    BY <1>9, <2>1, <2>2, <2>3, <2>4, <2>5
<1>10. ASSUME NEW c \in Conns, Forward(c)
       PROVE  TypeOK'
  <2>1. Head(pubsub[c]) \in Events /\ Tail(pubsub[c]) \in Seq(Events)
    BY <1>10, HeadTailProperties DEF Forward
  <2>2. sent' \in [Conns -> Seq(Events \cup {HistoryEnd})]
    BY <1>10, <2>1, AppendProperties DEF Forward
  <2>3. pubsub' \in [Conns -> Seq(Events)]
    BY <1>10, <2>1 DEF Forward
  <2> QED
    BY <1>10, <2>2, <2>3 DEF Forward
<1>11. ASSUME NEW p \in Pages, NEW c \in Conns, Connect(p, c)
       PROVE  TypeOK'
  BY <1>11 DEF Connect
<1>12. ASSUME NEW p \in Pages, TicketFails(p) \/ OnOpen(p) \/ Retry(p) \/ OnLinkLost(p)
       PROVE  TypeOK'
  <2>1. CASE TicketFails(p)
    BY <2>1 DEF TicketFails
  <2>2. CASE OnOpen(p)
    BY <2>2 DEF OnOpen
  <2>3. CASE Retry(p)
    BY <2>3 DEF Retry
  <2>4. CASE OnLinkLost(p)
    BY <2>4 DEF OnLinkLost, CloseAndReconnect
  <2> QED
    BY <1>12, <2>1, <2>2, <2>3, <2>4
<1>13. ASSUME NEW p \in Pages, OnMessage(p)
       PROVE  TypeOK'
  <2>1. link[cur[p]] = "open" /\ read[cur[p]] < Len(sent[cur[p]])
    BY <1>13 DEF OnMessage
  <2>2. ASSUME cur[p] \in Conns
        PROVE  feed' \in [Pages -> Seq(Events)]
    <3> DEFINE frame == sent[cur[p]][read[cur[p]] + 1]
    <3>1. frame \in Events \cup {HistoryEnd}
      <4>1. read[cur[p]] \in Nat /\ sent[cur[p]] \in Seq(Events \cup {HistoryEnd})
        BY <2>2
      <4>2. read[cur[p]] + 1 \in 1..Len(sent[cur[p]])
        BY <2>1, <4>1, LenProperties
      <4> QED
        BY <4>1, <4>2, ElementOfSeq
    <3>2. ASSUME frame # HistoryEnd
          PROVE  Newest(<<frame>> \o feed[p], FeedCap) \in Seq(Events)
      <4>1. feed[p] \in Seq(Events) /\ FeedCap \in Nat /\ frame \in Events
        BY <3>1, <3>2, FeedCapAssumption
      <4>2. <<frame>> \o feed[p] \in Seq(Events)
        BY ONLY <4>1, ConsProperties
      <4> QED
        BY ONLY <4>1, <4>2, NewestProperties
    <3> QED
      BY <1>13, <3>2 DEF OnMessage
  <2>3. cur[p] \in Conns
    BY <1>13 DEF OnMessage
  <2> QED
    BY <1>13, <2>2, <2>3 DEF OnMessage
<1>14. ASSUME NEW p \in Pages, OnClose(p)
       PROVE  TypeOK'
  BY <1>14 DEF OnClose, CloseAndReconnect
<1>15. ASSUME NEW p \in Pages, Unmount(p)
       PROVE  TypeOK'
  BY <1>15 DEF Unmount
<1>16. CASE UNCHANGED vars
  BY <1>16 DEF vars
<1> QED
  BY <1>1, <1>2, <1>3, <1>4, <1>5, <1>6, <1>7, <1>8, <1>9, <1>10, <1>11,
     <1>12, <1>13, <1>14, <1>15, <1>16
  DEF Next, Progress, Faults, PublisherStep, TaskStep, RelayFails, PageStep
-----------------------------------------------------------------------------
(* Preservation of the parts of the invariant.                             *)

\* Every step is one of the four publisher actions, or leaves Redis's list
\* and the publishers alone.
LEMMA StepKinds ==
    ASSUME [Next]_vars
    PROVE  \/ \E e \in Events : Publish(e) \/ Lpush(e) \/ Ltrim(e) \/ PublisherFails(e)
           \/ UNCHANGED publisherVars
<1>1. ASSUME NEW c \in Conns,
             Accept(c) \/ TaskStep(c) \/ TaskNotices(c) \/ RelayFails(c) \/ LinkFails(c)
      PROVE  UNCHANGED publisherVars
  BY <1>1 DEF TaskStep, RelayFails, Accept, Reject, Lrange, LrangeFails, Replay,
     SendSentinel, Subscribe, SubscribeFails, Forward, PubSubDrops, StreamEnds,
     TaskNotices, LinkFails
<1>2. ASSUME NEW p \in Pages,
             \/ PageStep(p) \/ Unmount(p) \/ TicketFails(p) \/ OnLinkLost(p)
             \/ \E c \in Conns : Connect(p, c)
      PROVE  UNCHANGED publisherVars
  BY <1>2 DEF PageStep, Connect, TicketFails, OnOpen, OnMessage, OnClose,
     OnLinkLost, CloseAndReconnect, Retry, Unmount
<1>3. CASE UNCHANGED vars
  BY <1>3 DEF vars, publisherVars
<1> QED
  BY <1>1, <1>2, <1>3 DEF Next, Progress, Faults, PublisherStep

\* A step only adds to what went out, was recorded or is over, and what was
\* over before an event is fixed by its PUBLISH.
LEMMA PublisherStability ==
    ASSUME TypeOK, EarlierOver, [Next]_vars
    PROVE  /\ \A e \in Events : IsPublished(e) =>
                    IsPublished(e)' /\ earlier'[e] = earlier[e]
           /\ \A e \in Events : IsPushed(e) => IsPushed(e)'
           /\ EarlierOver'
<1> USE DEF TypeOK, IsPublished, IsPushed, IsOver, EarlierOver, Steps
<1>1. ASSUME NEW e \in Events, Publish(e)
      PROVE  /\ \A x \in Events : IsPublished(x) =>
                     IsPublished(x)' /\ earlier'[x] = earlier[x]
             /\ \A x \in Events : IsPushed(x) => IsPushed(x)'
             /\ EarlierOver'
  BY <1>1 DEF Publish
<1>2. ASSUME NEW e \in Events, Lpush(e) \/ Ltrim(e) \/ PublisherFails(e)
      PROVE  /\ \A x \in Events : IsPublished(x) =>
                     IsPublished(x)' /\ earlier'[x] = earlier[x]
             /\ \A x \in Events : IsPushed(x) => IsPushed(x)'
             /\ EarlierOver'
  BY <1>2 DEF Lpush, Ltrim, PublisherFails
<1>3. CASE UNCHANGED publisherVars
  BY <1>3 DEF publisherVars
<1> QED
  BY <1>1, <1>2, <1>3, StepKinds

\* LPUSH puts an event on top that is not over, so that it may follow every
\* event of the list; LTRIM keeps a prefix.
LEMMA RecentStep ==
    ASSUME TypeOK, EarlierOver, RecentInv, [Next]_vars
    PROVE  RecentInv'
<1>1. ASSUME NEW e \in Events, Publish(e) \/ PublisherFails(e)
      PROVE  RecentInv'
  <2>1. recent' = recent
    BY <1>1 DEF Publish, PublisherFails
  <2>2. \A i \in 1..Len(recent) : recent[i] \in Events
    BY ElementOfSeq DEF TypeOK
  <2>3. \A i \in 1..Len(recent) : IsPublished(recent[i])
    BY <2>2 DEF RecentInv, IsPushed, IsPublished
  <2> QED
    BY <2>1, <2>2, <2>3, PublisherStability
    DEF RecentInv, Decreasing, MayFollow
<1>2. ASSUME NEW e \in Events, Lpush(e)
      PROVE  RecentInv'
  <2>1. \A i \in 1..Len(recent) : recent[i] \in Events
    BY ElementOfSeq DEF TypeOK
  <2>2. earlier' = earlier
    BY <1>2 DEF Lpush
  <2>3. ~IsOver(e) /\ ~IsPushed(e)
    BY <1>2 DEF Lpush, IsOver, IsPushed
  <2>4. \A i \in 1..Len(recent) : MayFollow(earlier, recent[i], e)
    BY <2>1, <2>3 DEF MayFollow, RecentInv, EarlierOver
  <2>5. /\ Len(recent') = Len(recent) + 1 /\ Len(recent) \in Nat
        /\ recent'[1] = e
        /\ \A i \in 2..(Len(recent) + 1) :
              i - 1 \in 1..Len(recent) /\ recent'[i] = recent[i - 1]
    BY <1>2, ConsProperties, LenProperties DEF Lpush, TypeOK
  <2>6. IsPushed(e)'
    BY <1>2 DEF Lpush, IsPushed, TypeOK
  <2>7. \A i \in 1..Len(recent') : IsPushed(recent[i])'
    <3> SUFFICES ASSUME NEW i \in 1..Len(recent')
                 PROVE  IsPushed(recent[i])'
      OBVIOUS
    <3>1. CASE i = 1
      BY <2>5, <2>6, <3>1 DEF IsPushed
    <3>2. CASE i \in 2..(Len(recent) + 1)
      BY <2>1, <2>5, <3>2, PublisherStability DEF RecentInv, IsPushed
    <3> QED
      BY <2>5, <3>1, <3>2
  <2>8. ASSUME NEW i \in 1..Len(recent'), NEW j \in 1..Len(recent'), i < j
        PROVE  MayFollow(earlier, recent[j], recent[i])'
    <3>1. j - 1 \in 1..Len(recent) /\ recent'[j] = recent[j - 1]
      BY <2>5, <2>8
    <3>2. CASE i = 1
      BY <2>2, <2>4, <2>5, <3>1, <3>2 DEF MayFollow
    <3>3. CASE i \in 2..(Len(recent) + 1)
      BY <2>2, <2>5, <2>8, <3>1, <3>3 DEF RecentInv, Decreasing, MayFollow
    <3> QED
      BY <2>5, <3>2, <3>3
  <2> QED
    BY <2>7, <2>8 DEF RecentInv, Decreasing
<1>3. ASSUME NEW e \in Events, Ltrim(e)
      PROVE  RecentInv'
  <2>1. /\ Len(recent') <= Len(recent) /\ Len(recent) \in Nat /\ Len(recent') \in Nat
        /\ \A i \in 1..Len(recent') : i \in 1..Len(recent) /\ recent'[i] = recent[i]
    <3>1. recent \in Seq(Events) /\ Cap + 1 \in Nat /\ recent' = Newest(recent, Cap + 1)
      BY <1>3, CapAssumption DEF Ltrim, TypeOK
    <3> QED
      BY <3>1, NewestProperties, LenProperties
  <2>2. earlier' = earlier
    BY <1>3 DEF Ltrim
  <2>3. \A i \in 1..Len(recent) : recent[i] \in Events
    BY ElementOfSeq DEF TypeOK
  <2>4. \A i \in 1..Len(recent') : IsPushed(recent[i])'
    BY <2>1, <2>3, PublisherStability DEF RecentInv, IsPushed
  <2>5. \A i, j \in 1..Len(recent') : i < j => MayFollow(earlier, recent[j], recent[i])'
    BY <2>1, <2>2 DEF RecentInv, Decreasing, MayFollow
  <2> QED
    BY <2>4, <2>5 DEF RecentInv, Decreasing
<1>4. CASE UNCHANGED publisherVars
  BY <1>4 DEF publisherVars, RecentInv, Decreasing, MayFollow, IsPushed
<1> QED
  BY <1>1, <1>2, <1>3, <1>4, StepKinds

\* The phases of a relay task: see PhaseInv.
LEMMA PhaseStep ==
    ASSUME TypeOK, PhaseInv, [Next]_vars
    PROVE  PhaseInv'
<1> USE DEF PhaseInv
<1> DEFINE phaseVars == <<task, sent, history, pubsub, subscribed, link>>
<1>1. ASSUME NEW e \in Events, Publish(e)
      PROVE  PhaseInv'
  BY <1>1 DEF Publish, relayVars, pageVars, TypeOK
<1>2. ASSUME NEW c \in Conns, Accept(c) \/ Reject(c) \/ LinkFails(c)
      PROVE  PhaseInv'
  BY <1>2 DEF Accept, Reject, LinkFails, relayVars, TypeOK
<1>3. ASSUME NEW c \in Conns, Lrange(c) \/ LrangeFails(c)
      PROVE  PhaseInv'
  BY <1>3 DEF Lrange, LrangeFails, pageVars, TypeOK
<1>4. ASSUME NEW c \in Conns, Replay(c)
      PROVE  PhaseInv'
  <2>1. history[c][Len(history[c])] \in Events
    BY <1>4, FrontProperties DEF Replay, TypeOK
  <2>2. /\ Len(sent'[c]) = Len(sent[c]) + 1 /\ Len(sent[c]) \in Nat
        /\ \A i \in 1..Len(sent[c]) : sent'[c][i] = sent[c][i]
        /\ sent'[c][Len(sent[c]) + 1] \in Events
    BY <1>4, <2>1, AppendProperties, LenProperties DEF Replay, TypeOK
  <2>3. \A i \in 1..Len(sent'[c]) : sent'[c][i] \in Events
    BY <1>4, <2>2 DEF Replay
  <2> QED
    BY <1>4, <2>3 DEF Replay, pageVars, TypeOK
<1>5. ASSUME NEW c \in Conns,
             SendSentinel(c) \/ Subscribe(c) \/ SubscribeFails(c) \/ Forward(c)
      PROVE  PhaseInv'
  <2>1. CASE SendSentinel(c)
    BY <2>1 DEF SendSentinel, pageVars, TypeOK
  <2>2. CASE Subscribe(c)
    BY <2>2 DEF Subscribe, pageVars, TypeOK
  <2>3. CASE SubscribeFails(c)
    BY <2>3 DEF SubscribeFails, pageVars, TypeOK
  <2>4. CASE Forward(c)
    BY <2>4 DEF Forward, pageVars, TypeOK
  <2> QED
    BY <1>5, <2>1, <2>2, <2>3, <2>4
<1>6. ASSUME NEW c \in Conns, PubSubDrops(c) \/ StreamEnds(c) \/ TaskNotices(c)
      PROVE  PhaseInv'
  <2>1. CASE PubSubDrops(c)
    BY <2>1 DEF PubSubDrops, pageVars, TypeOK
  <2>2. CASE StreamEnds(c)
    BY <2>2 DEF StreamEnds, pageVars, TypeOK
  <2>3. CASE TaskNotices(c)
    BY <2>3 DEF TaskNotices, pageVars, TypeOK
  <2> QED
    BY <1>6, <2>1, <2>2, <2>3
<1>7. ASSUME NEW p \in Pages, NEW c \in Conns, Connect(p, c)
      PROVE  PhaseInv'
  BY <1>7 DEF Connect, relayVars, TypeOK
<1>8. ASSUME NEW p \in Pages, OnClose(p) \/ Unmount(p)
      PROVE  PhaseInv'
  BY <1>8 DEF OnClose, CloseAndReconnect, Unmount, relayVars, TypeOK
<1>9. CASE UNCHANGED phaseVars
  BY <1>9
<1>10. ASSUME NEW e \in Events, Lpush(e) \/ Ltrim(e) \/ PublisherFails(e)
       PROVE  UNCHANGED phaseVars
  BY <1>10 DEF Lpush, Ltrim, PublisherFails, relayVars, pageVars
<1>11. ASSUME NEW p \in Pages,
              TicketFails(p) \/ OnOpen(p) \/ OnMessage(p) \/ OnLinkLost(p) \/ Retry(p)
       PROVE  UNCHANGED phaseVars
  BY <1>11 DEF TicketFails, OnOpen, OnMessage, OnLinkLost, CloseAndReconnect,
               Retry, relayVars
<1>12. CASE UNCHANGED vars
  BY <1>12 DEF vars
<1> QED
  BY <1>1, <1>2, <1>3, <1>4, <1>5, <1>6, <1>7, <1>8, <1>9, <1>10, <1>11, <1>12
  DEF Next, Progress, Faults, PublisherStep, TaskStep, RelayFails, PageStep

\* The order of a sequence only depends on what was over before its events.
LEMMA OrderStable ==
    ASSUME NEW ea, NEW eb, NEW s, NEW t,
           \A i \in 1..Len(s) : s[i] \in Events => eb[s[i]] = ea[s[i]]
    PROVE  /\ Increasing(ea, s) => Increasing(eb, s)
           /\ Decreasing(ea, s) => Decreasing(eb, s)
           /\ Before(ea, s, t) => Before(eb, s, t)
<1>1. \A i \in 1..Len(s) : \A y : MayFollow(ea, s[i], y) => MayFollow(eb, s[i], y)
  BY DEF MayFollow
<1> QED
  BY <1>1 DEF Increasing, Decreasing, Before

\* Appending an event that may follow the others keeps the order.
LEMMA OrderAppend ==
    ASSUME NEW ea, NEW S, NEW s \in Seq(S), NEW x \in S, NEW t
    PROVE  /\ (Increasing(ea, s) /\ \A i \in 1..Len(s) : MayFollow(ea, s[i], x))
                => Increasing(ea, Append(s, x))
           /\ (Before(ea, s, t) /\ \A j \in 1..Len(t) : MayFollow(ea, x, t[j]))
                => Before(ea, Append(s, x), t)
           /\ (Before(ea, t, s) /\ \A j \in 1..Len(t) : MayFollow(ea, t[j], x))
                => Before(ea, t, Append(s, x))
<1> DEFINE r == Append(s, x)
<1>1. /\ Len(s) \in Nat /\ Len(r) = Len(s) + 1
      /\ \A i \in 1..Len(s) : r[i] = s[i]
      /\ r[Len(s) + 1] = x
  BY AppendProperties, LenProperties
<1> HIDE DEF r
<1>2. \A i \in 1..Len(r) : i \in 1..Len(s) \/ i = Len(s) + 1
  BY <1>1
<1>3. ASSUME Increasing(ea, s), \A i \in 1..Len(s) : MayFollow(ea, s[i], x)
      PROVE  Increasing(ea, r)
  <2> SUFFICES ASSUME NEW i \in 1..Len(r), NEW j \in 1..Len(r), i < j
               PROVE  MayFollow(ea, r[i], r[j])
    BY DEF Increasing
  <2>1. i \in 1..Len(s)
    BY <1>1
  <2>2. CASE j \in 1..Len(s)
    BY <1>1, <1>3, <2>1, <2>2 DEF Increasing
  <2>3. CASE j = Len(s) + 1
    BY <1>1, <1>3, <2>1, <2>3
  <2> QED
    BY <1>2, <2>2, <2>3
<1>4. ASSUME Before(ea, s, t), \A j \in 1..Len(t) : MayFollow(ea, x, t[j])
      PROVE  Before(ea, r, t)
  BY <1>1, <1>2, <1>4 DEF Before
<1>5. ASSUME Before(ea, t, s), \A j \in 1..Len(t) : MayFollow(ea, t[j], x)
      PROVE  Before(ea, t, r)
  BY <1>1, <1>2, <1>5 DEF Before
<1> QED
  BY <1>3, <1>4, <1>5 DEF r

\* Appending a published event to published ones.
LEMMA OutAppend ==
    ASSUME NEW ps, NEW S, NEW s \in Seq(S), NEW x \in S,
           AllOut(ps, s), x \in Events => ps[x] # "publish"
    PROVE  AllOut(ps, Append(s, x))
<1>1. /\ Len(s) \in Nat /\ Len(Append(s, x)) = Len(s) + 1
      /\ \A i \in 1..Len(s) : Append(s, x)[i] = s[i]
      /\ Append(s, x)[Len(s) + 1] = x
  BY AppendProperties, LenProperties
<1>2. \A i \in 1..Len(Append(s, x)) : i \in 1..Len(s) \/ i = Len(s) + 1
  BY <1>1
<1> QED
  BY <1>1, <1>2 DEF AllOut

\* Dropping the first or the last event keeps the order.
LEMMA OrderShrink ==
    ASSUME NEW ea, NEW r, NEW s, NEW t, NEW k \in {0, 1},
           Len(s) \in Nat, Len(r) = Len(s) - 1,
           \A i \in 1..Len(r) : r[i] = s[i + k]
    PROVE  /\ Increasing(ea, s) => Increasing(ea, r)
           /\ Decreasing(ea, s) => Decreasing(ea, r)
           /\ Before(ea, t, s) => Before(ea, t, r)
<1>1. \A i \in 1..Len(r) : i + k \in 1..Len(s) /\ r[i] = s[i + k]
  OBVIOUS
<1>2. \A i, j \in 1..Len(r) : i < j => i + k < j + k
  OBVIOUS
<1>3. Increasing(ea, s) => Increasing(ea, r)
  BY <1>1, <1>2 DEF Increasing
<1>4. Decreasing(ea, s) => Decreasing(ea, r)
  BY <1>1, <1>2 DEF Decreasing
<1>5. Before(ea, t, s) => Before(ea, t, r)
  BY <1>1 DEF Before
<1> QED
  BY <1>3, <1>4, <1>5

\* A connection whose sequences a step leaves alone keeps its invariant: what
\* was over before an event that is out never changes.
LEMMA ConnUnchanged ==
    ASSUME TypeOK, EarlierOver, [Next]_vars, NEW c \in Conns, ConnInv(c),
           sent'[c] = sent[c], history'[c] = history[c], pubsub'[c] = pubsub[c]
    PROVE  ConnInv(c)'
<1>1. ASSUME NEW s, AllOut(pc, s)
      PROVE  /\ \A i \in 1..Len(s) : s[i] \in Events => earlier'[s[i]] = earlier[s[i]]
             /\ AllOut(pc', s)
  BY <1>1, PublisherStability DEF AllOut, IsPublished
<1>2. AllOut(pc', sent[c]) /\ AllOut(pc', history[c]) /\ AllOut(pc', pubsub[c])
  BY <1>1 DEF ConnInv
<1>3. /\ Increasing(earlier', sent[c])
      /\ Before(earlier', sent[c], history[c])
      /\ Before(earlier', sent[c], pubsub[c])
  BY <1>1, OrderStable DEF ConnInv
<1>4. Decreasing(earlier', history[c])
  BY <1>1, OrderStable DEF ConnInv
<1>5. Increasing(earlier', pubsub[c])
  BY <1>1, OrderStable DEF ConnInv
<1> QED
  BY <1>2, <1>3, <1>4, <1>5 DEF ConnInv

\* PUBLISH queues an event that is not yet over, so that it may follow every
\* event sent, replayed or queued so far.
LEMMA PublishConn ==
    ASSUME TypeOK, EarlierOver, [Next]_vars, NEW c \in Conns, ConnInv(c),
           NEW e \in Events, Publish(e)
    PROVE  ConnInv(c)'
<1>1. sent'[c] = sent[c] /\ history'[c] = history[c]
  BY DEF Publish, relayVars
<1>2. CASE c \notin subscribed
  BY <1>1, <1>2, ConnUnchanged DEF Publish, TypeOK
<1>3. CASE c \in subscribed
  <2>1. pubsub'[c] = Append(pubsub[c], e) /\ pubsub[c] \in Seq(Events)
    BY <1>3 DEF Publish, TypeOK
  <2>2. ~IsPublished(e) /\ ~IsOver(e) /\ IsPublished(e)'
    BY DEF Publish, IsPublished, IsOver, TypeOK
  <2>3. ASSUME NEW s, AllOut(pc, s)
        PROVE  /\ \A i \in 1..Len(s) : s[i] \in Events => earlier'[s[i]] = earlier[s[i]]
               /\ \A i \in 1..Len(s) : MayFollow(earlier', s[i], e)
               /\ AllOut(pc', s)
    <3>1. \A i \in 1..Len(s) : s[i] \in Events =>
             earlier'[s[i]] = earlier[s[i]] /\ pc'[s[i]] # "publish" /\ s[i] # e
      BY <2>2, <2>3, PublisherStability DEF AllOut, IsPublished
    <3>2. \A i \in 1..Len(s) : s[i] \in Events => e \notin earlier[s[i]]
      BY <2>2 DEF EarlierOver
    <3> QED
      BY <3>1, <3>2 DEF MayFollow, AllOut
  <2>4. /\ Increasing(earlier', sent[c])
        /\ Before(earlier', sent[c], history[c])
        /\ Before(earlier', sent[c], pubsub[c])
    BY <2>3, OrderStable DEF ConnInv
  <2>5. Decreasing(earlier', history[c])
    BY <2>3, OrderStable DEF ConnInv
  <2>6. Increasing(earlier', pubsub[c])
    BY <2>3, OrderStable DEF ConnInv
  <2>7. /\ Increasing(earlier', Append(pubsub[c], e))
        /\ Before(earlier', sent[c], Append(pubsub[c], e))
    BY <2>1, <2>3, <2>4, <2>6, OrderAppend DEF ConnInv
  <2>8. AllOut(pc', sent[c]) /\ AllOut(pc', history[c]) /\ AllOut(pc', pubsub[c])
    BY <2>3 DEF ConnInv
  <2>9. AllOut(pc', Append(pubsub[c], e))
    BY <2>1, <2>2, <2>8, OutAppend DEF IsPublished
  <2> QED
    BY <1>1, <2>1, <2>4, <2>5, <2>7, <2>8, <2>9 DEF ConnInv
<1> QED
  BY <1>2, <1>3

\* LRANGE copies the list into a connection on which nothing was sent.
LEMMA LrangeConn ==
    ASSUME TypeOK, RecentInv, PhaseInv, NEW c \in Conns, Lrange(c)
    PROVE  ConnInv(c)'
<1>1. /\ sent'[c] = <<>> /\ pubsub'[c] = <<>> /\ history'[c] = recent
      /\ earlier' = earlier /\ pc' = pc
  BY DEF Lrange, PhaseInv, publisherVars, TypeOK
<1>2. Len(<<>>) = 0
  OBVIOUS
<1>3. Decreasing(earlier, recent)
  BY DEF RecentInv
<1>4. AllOut(pc, recent)
  BY DEF RecentInv, AllOut, IsPushed
<1>5. /\ Increasing(earlier, <<>>) /\ Before(earlier, <<>>, recent)
      /\ Before(earlier, <<>>, <<>>) /\ AllOut(pc, <<>>)
  BY <1>2 DEF Increasing, Before, AllOut
<1> QED
  BY <1>1, <1>3, <1>4, <1>5 DEF ConnInv

\* The oldest event still to be replayed moves to the end of what was sent.
LEMMA ReplayConn ==
    ASSUME TypeOK, PhaseInv, NEW c \in Conns, ConnInv(c), Replay(c)
    PROVE  ConnInv(c)'
<1>1. PICK h \in Seq(Events) : h = history[c] /\ h # <<>>
  BY DEF Replay, TypeOK
<1>2. PICK s \in Seq(Events \cup {HistoryEnd}) : s = sent[c]
  BY DEF TypeOK
<1>3. PICK x \in Events : x = h[Len(h)]
  BY <1>1, FrontProperties
<1>4. PICK r \in Seq(Events) : r = SubSeq(h, 1, Len(h) - 1)
  BY <1>1, FrontProperties
<1>5. /\ Len(h) \in Nat \ {0} /\ Len(h) \in 1..Len(h)
      /\ Len(r) = Len(h) - 1
      /\ \A i \in 1..Len(r) : i \in 1..Len(h) /\ r[i] = h[i]
  BY <1>1, <1>4, FrontProperties
<1>6. /\ earlier' = earlier /\ pc' = pc /\ pubsub'[c] = <<>>
      /\ sent'[c] = Append(s, x) /\ history'[c] = r
  BY <1>1, <1>2, <1>3, <1>4 DEF Replay, PhaseInv, publisherVars, TypeOK
<1>7. /\ Increasing(earlier, s) /\ Decreasing(earlier, h) /\ Before(earlier, s, h)
      /\ AllOut(pc, s) /\ AllOut(pc, h)
  BY <1>1, <1>2 DEF ConnInv
<1>8. Decreasing(earlier, r) /\ Before(earlier, s, r)
  <2>1. Len(h) \in Nat /\ 0 \in {0, 1} /\ \A i \in 1..Len(r) : r[i] = h[i + 0]
    BY <1>5
  <2> QED
    BY <1>5, <1>7, <2>1, OrderShrink
<1>9. \A i \in 1..Len(s) : MayFollow(earlier, s[i], x)
  BY <1>3, <1>5, <1>7 DEF Before
<1>10. \A j \in 1..Len(r) : MayFollow(earlier, x, r[j])
  <2>1. \A j \in 1..Len(r) : j \in 1..Len(h) /\ j < Len(h) /\ r[j] = h[j]
    BY <1>5
  <2> QED
    BY <1>3, <1>5, <1>7, <2>1 DEF Decreasing
<1>11. Increasing(earlier, Append(s, x)) /\ Before(earlier, Append(s, x), r)
  BY <1>7, <1>8, <1>9, <1>10, OrderAppend
<1>12. pc[x] # "publish"
  BY <1>3, <1>5, <1>7 DEF AllOut
<1>13. AllOut(pc, Append(s, x))
  BY <1>7, <1>12, OutAppend
<1>14. AllOut(pc, r)
  BY <1>5, <1>7 DEF AllOut
<1>15. Len(<<>>) = 0
  OBVIOUS
<1>16. /\ Increasing(earlier, <<>>) /\ Before(earlier, Append(s, x), <<>>)
       /\ AllOut(pc, <<>>)
  BY <1>15 DEF Increasing, Before, AllOut
<1> QED
  BY <1>6, <1>8, <1>11, <1>13, <1>14, <1>16 DEF ConnInv

\* The sentinel follows a replay that is complete; it is sent once.
LEMMA SentinelConn ==
    ASSUME TypeOK, PhaseInv, NEW c \in Conns, ConnInv(c), SendSentinel(c)
    PROVE  ConnInv(c)'
<1>1. PICK s \in Seq(Events \cup {HistoryEnd}) : s = sent[c]
  BY DEF TypeOK
<1>2. /\ earlier' = earlier /\ pc' = pc /\ pubsub'[c] = <<>> /\ history'[c] = <<>>
      /\ sent'[c] = Append(s, HistoryEnd)
  BY <1>1 DEF SendSentinel, PhaseInv, publisherVars, TypeOK
<1>3. Increasing(earlier, s) /\ AllOut(pc, s)
  BY <1>1 DEF ConnInv
<1>4. \A i \in 1..Len(s) : s[i] \in Events
  BY <1>1 DEF SendSentinel, PhaseInv
<1>5. \A i \in 1..Len(s) : s[i] # HistoryEnd /\ earlier[s[i]] \in SUBSET Events
  BY <1>4, SentinelAssumption DEF TypeOK
<1>6. \A i \in 1..Len(s) : MayFollow(earlier, s[i], HistoryEnd)
  BY <1>5, SentinelAssumption DEF MayFollow
<1>7. Increasing(earlier, Append(s, HistoryEnd))
  BY <1>3, <1>6, OrderAppend
<1>8. AllOut(pc, Append(s, HistoryEnd))
  BY <1>3, SentinelAssumption, OutAppend
<1>9. Len(<<>>) = 0
  OBVIOUS
<1>10. /\ Decreasing(earlier, <<>>) /\ Increasing(earlier, <<>>) /\ AllOut(pc, <<>>)
       /\ Before(earlier, Append(s, HistoryEnd), <<>>)
  BY <1>9 DEF Increasing, Decreasing, Before, AllOut
<1> QED
  BY <1>2, <1>7, <1>8, <1>10 DEF ConnInv

\* The oldest queued message moves to the end of what was sent.
LEMMA ForwardConn ==
    ASSUME TypeOK, PhaseInv, NEW c \in Conns, ConnInv(c), Forward(c)
    PROVE  ConnInv(c)'
<1>1. PICK q \in Seq(Events) : q = pubsub[c] /\ q # <<>>
  BY DEF Forward, TypeOK
<1>2. PICK s \in Seq(Events \cup {HistoryEnd}) : s = sent[c]
  BY DEF TypeOK
<1>3. PICK x \in Events : x = Head(q)
  BY <1>1, HeadTailProperties
<1>4. PICK r \in Seq(Events) : r = Tail(q)
  BY <1>1, HeadTailProperties
<1>5. /\ Len(q) \in Nat \ {0} /\ 1 \in 1..Len(q) /\ x = q[1]
      /\ Len(r) = Len(q) - 1
      /\ \A i \in 1..Len(r) : i + 1 \in 1..Len(q) /\ r[i] = q[i + 1]
  BY <1>1, <1>3, <1>4, HeadTailProperties, EmptySeq
<1>6. /\ earlier' = earlier /\ pc' = pc /\ history'[c] = history[c]
      /\ sent'[c] = Append(s, x) /\ pubsub'[c] = r
  BY <1>1, <1>2, <1>3, <1>4 DEF Forward, publisherVars, TypeOK
<1>7. /\ Increasing(earlier, s) /\ Increasing(earlier, q) /\ Before(earlier, s, q)
      /\ AllOut(pc, s) /\ AllOut(pc, q)
  BY <1>1, <1>2 DEF ConnInv
<1>8. Increasing(earlier, r) /\ Before(earlier, s, r)
  BY <1>5, <1>7, OrderShrink
<1>9. \A i \in 1..Len(s) : MayFollow(earlier, s[i], x)
  BY <1>5, <1>7 DEF Before
<1>10. \A j \in 1..Len(r) : MayFollow(earlier, x, r[j])
  BY <1>5, <1>7 DEF Increasing
<1>11. Increasing(earlier, Append(s, x)) /\ Before(earlier, Append(s, x), r)
  BY <1>7, <1>8, <1>9, <1>10, OrderAppend
<1>12. pc[x] # "publish"
  BY <1>5, <1>7 DEF AllOut
<1>13. AllOut(pc, Append(s, x))
  BY <1>7, <1>12, OutAppend
<1>14. AllOut(pc, r)
  BY <1>5, <1>7 DEF AllOut
<1>15. history[c] = <<>> /\ Len(<<>>) = 0
  BY DEF Forward, PhaseInv
<1>16. Decreasing(earlier, <<>>) /\ Before(earlier, Append(s, x), <<>>) /\ AllOut(pc, <<>>)
  BY <1>15 DEF Decreasing, Before, AllOut
<1> QED
  BY <1>6, <1>8, <1>11, <1>13, <1>14, <1>15, <1>16 DEF ConnInv

\* Every step preserves the invariant of every connection.
LEMMA ConnStep ==
    ASSUME TypeOK, EarlierOver, RecentInv, PhaseInv, [Next]_vars,
           NEW c \in Conns, ConnInv(c)
    PROVE  ConnInv(c)'
<1>1. ASSUME NEW e \in Events, Publish(e)
      PROVE  ConnInv(c)'
  BY <1>1, PublishConn
<1>2. ASSUME NEW d \in Conns, Lrange(d) \/ Replay(d) \/ SendSentinel(d) \/ Forward(d)
      PROVE  ConnInv(c)'
  <2>1. CASE d = c
    BY <1>2, <2>1, LrangeConn, ReplayConn, SentinelConn, ForwardConn
  <2>2. CASE d # c
    <3>1. sent'[c] = sent[c] /\ history'[c] = history[c] /\ pubsub'[c] = pubsub[c]
      BY <1>2, <2>2 DEF Lrange, Replay, SendSentinel, Forward, TypeOK
    <3> QED
      BY <3>1, ConnUnchanged
  <2> QED
    BY <2>1, <2>2
<1> DEFINE same == UNCHANGED <<sent, history, pubsub>>
<1>3. ASSUME NEW e \in Events, Lpush(e) \/ Ltrim(e) \/ PublisherFails(e)
      PROVE  same
  BY <1>3 DEF Lpush, Ltrim, PublisherFails, relayVars
<1>4. ASSUME NEW d \in Conns,
             \/ Accept(d) \/ Reject(d) \/ LrangeFails(d) \/ Subscribe(d)
             \/ SubscribeFails(d) \/ PubSubDrops(d) \/ StreamEnds(d) \/ LinkFails(d)
      PROVE  same
  BY <1>4 DEF Accept, Reject, LrangeFails, Subscribe, SubscribeFails,
              PubSubDrops, StreamEnds, LinkFails, relayVars
<1>5. ASSUME NEW p \in Pages,
             \/ TicketFails(p) \/ OnOpen(p) \/ OnMessage(p) \/ OnClose(p)
             \/ OnLinkLost(p) \/ Retry(p) \/ Unmount(p)
             \/ \E d \in Conns : Connect(p, d)
      PROVE  same
  BY <1>5 DEF TicketFails, OnOpen, OnMessage, OnClose, OnLinkLost,
              CloseAndReconnect, Retry, Unmount, Connect, relayVars
<1>6. ASSUME UNCHANGED vars
      PROVE  same
  BY <1>6 DEF vars
<1>7. CASE same
  BY <1>7, ConnUnchanged
<1>8. ASSUME NEW d \in Conns, TaskNotices(d)
      PROVE  ConnInv(c)'
  <2>1. /\ sent'[c] = sent[c] /\ history'[c] = history[c] /\ UNCHANGED <<pc, earlier>>
        /\ pubsub'[c] \in {pubsub[c], <<>>}
    BY <1>8 DEF TaskNotices, publisherVars, TypeOK
  <2>2. CASE pubsub'[c] = pubsub[c]
    BY <2>1, <2>2, ConnUnchanged
  <2>3. CASE pubsub'[c] = <<>>
    <3>1. Len(<<>>) = 0
      OBVIOUS
    <3>2. Increasing(earlier, <<>>) /\ Before(earlier, sent[c], <<>>) /\ AllOut(pc, <<>>)
      BY <3>1 DEF Increasing, Before, AllOut
    <3> QED
      BY <2>1, <2>3, <3>2 DEF ConnInv
  <2> QED
    BY <2>1, <2>2, <2>3
<1> QED
  BY <1>1, <1>2, <1>3, <1>4, <1>5, <1>6, <1>7, <1>8
  DEF Next, Progress, Faults, PublisherStep, TaskStep, RelayFails, PageStep

-----------------------------------------------------------------------------
(* The theorems.                                                           *)

\* The initial state is an empty Redis without connections.
LEMMA FeedInit == Init => FeedInv
<1> SUFFICES ASSUME Init PROVE FeedInv
  OBVIOUS
<1>1. <<>> \in Seq(Events) /\ <<>> \in Seq(Events \cup {HistoryEnd}) /\ Len(<<>>) = 0
  OBVIOUS
<1>2. TypeOK
  BY <1>1 DEF Init, TypeOK, Steps, TaskStates, LinkStates, PageStates
<1>3. EarlierOver /\ RecentInv
  BY <1>1 DEF Init, EarlierOver, RecentInv, Decreasing
<1>4. PhaseInv
  BY <1>1 DEF Init, PhaseInv
<1>5. \A c \in Conns : ConnInv(c)
  BY <1>1 DEF Init, ConnInv, Increasing, Decreasing, Before, AllOut
<1> QED
  BY <1>2, <1>3, <1>4, <1>5 DEF FeedInv

\* FeedInv is inductive.
THEOREM FeedInvariant == Spec => []FeedInv
<1>1. FeedInv /\ [Next]_vars => FeedInv'
  BY TypeStep, PublisherStability, RecentStep, PhaseStep, ConnStep DEF FeedInv
<1> QED
  BY FeedInit, <1>1, PTL DEF Spec

\* Every variable of the feed has its type in every reachable state.
THEOREM TypeCorrect == Spec => []TypeOK
<1>1. FeedInv => TypeOK
  BY DEF FeedInv
<1> QED
  BY FeedInvariant, <1>1, PTL

\* On one admin connection no event, and no sentinel, is sent twice, whatever
\* the interleaving of the publishers' commands with LRANGE and SUBSCRIBE.
THEOREM NeverTwice == Spec => []NoEventTwice
<1>1. FeedInv => NoEventTwice
  <2> SUFFICES ASSUME FeedInv, NEW c \in Conns,
                      NEW i \in 1..Len(sent[c]), NEW j \in 1..Len(sent[c]), i # j
               PROVE  sent[c][i] # sent[c][j]
    BY DEF NoEventTwice, NoRepeat
  <2>1. Increasing(earlier, sent[c])
    BY DEF FeedInv, ConnInv
  <2>2. i \in Int /\ j \in Int
    OBVIOUS
  <2>3. i < j \/ j < i
    BY <2>2
  <2> QED
    BY <2>1, <2>3 DEF Increasing, MayFollow
<1> QED
  BY FeedInvariant, <1>1, PTL

\* On one admin connection an event whose publication was over before another
\* one went out is never sent after it, across replay and live forwarding.
THEOREM SentInOrder == Spec => []OrderKept
<1>1. FeedInv => OrderKept
  BY DEF FeedInv, ConnInv, OrderKept, Increasing, MayFollow
<1> QED
  BY FeedInvariant, <1>1, PTL

-----------------------------------------------------------------------------
(* The list.                                                               *)

\* The list is a head of the log of all LPUSHes that holds at least its
\* Cap + 1 newest entries.
ListInv ==
    /\ TypeOK
    /\ Len(recent) <= Len(pushed)
    /\ \A k \in 1..Len(recent) : recent[k] = pushed[k]
    /\ Len(recent) < Len(pushed) => Len(recent) >= Cap + 1

\* Only LPUSH and LTRIM touch the list and the log.
LEMMA ListStep == ListInv /\ [Next]_vars => ListInv'
<1> SUFFICES ASSUME ListInv, [Next]_vars
             PROVE  ListInv'
  OBVIOUS
<1>1. TypeOK'
  BY TypeStep DEF ListInv
<1>2. Len(recent) \in Nat /\ Len(pushed) \in Nat
  BY LenProperties DEF ListInv, TypeOK
<1>3. ASSUME NEW e \in Events, Lpush(e)
      PROVE  ListInv'
  <2>1. /\ Len(recent') = Len(recent) + 1 /\ recent'[1] = e
        /\ \A i \in 2..(Len(recent) + 1) :
              i - 1 \in 1..Len(recent) /\ recent'[i] = recent[i - 1]
    BY <1>3, ConsProperties DEF Lpush, ListInv, TypeOK
  <2>2. /\ Len(pushed') = Len(pushed) + 1 /\ pushed'[1] = e
        /\ \A i \in 2..(Len(pushed) + 1) :
              i - 1 \in 1..Len(pushed) /\ pushed'[i] = pushed[i - 1]
    BY <1>3, ConsProperties DEF Lpush, ListInv, TypeOK
  <2>3. \A k \in 1..Len(recent') : recent'[k] = pushed'[k]
    <3> SUFFICES ASSUME NEW k \in 1..Len(recent')
                 PROVE  recent'[k] = pushed'[k]
      OBVIOUS
    <3>1. CASE k = 1
      BY <2>1, <2>2, <3>1
    <3>2. CASE k \in 2..(Len(recent) + 1)
      <4>1. k \in 2..(Len(pushed) + 1) /\ k - 1 \in 1..Len(recent)
        BY <1>2, <3>2 DEF ListInv
      <4> QED
        BY <2>1, <2>2, <3>2, <4>1 DEF ListInv
    <3> QED
      BY <1>2, <2>1, <3>1, <3>2
  <2>4. /\ Len(recent') <= Len(pushed')
        /\ Len(recent') < Len(pushed') => Len(recent') >= Cap + 1
    BY <1>2, <2>1, <2>2, CapAssumption DEF ListInv
  <2> QED
    BY <1>1, <2>3, <2>4 DEF ListInv
<1>4. ASSUME NEW e \in Events, Ltrim(e)
      PROVE  ListInv'
  <2>1. /\ Len(recent') = IF Len(recent) < Cap + 1 THEN Len(recent) ELSE Cap + 1
        /\ \A i \in 1..Len(recent') : i \in 1..Len(recent) /\ recent'[i] = recent[i]
    <3>1. recent \in Seq(Events) /\ Cap + 1 \in Nat /\ recent' = Newest(recent, Cap + 1)
      BY <1>4, CapAssumption DEF Ltrim, ListInv, TypeOK
    <3> QED
      BY <3>1, NewestProperties
  <2>2. pushed' = pushed
    BY <1>4 DEF Ltrim
  <2> QED
    BY <1>1, <1>2, <2>1, <2>2, CapAssumption DEF ListInv
<1>5. CASE UNCHANGED <<recent, pushed>>
  BY <1>1, <1>5 DEF ListInv
<1>6. ASSUME NEW e \in Events, Publish(e) \/ PublisherFails(e)
      PROVE  UNCHANGED <<recent, pushed>>
  BY <1>6 DEF Publish, PublisherFails
<1> QED
  BY <1>3, <1>4, <1>5, <1>6, StepKinds DEF publisherVars

\* However LPUSH and LTRIM of several publishers interleave, and whichever of
\* them fail, the Cap + 1 events recorded last head the list in their order.
THEOREM TrimKeepsNewest == Spec => []NewestKept
<1>1. Init => ListInv
  <2>1. Len(<<>>) = 0
    OBVIOUS
  <2> QED
    BY <2>1, FeedInit DEF Init, ListInv, FeedInv
<1>2. ListInv => NewestKept
  <2> SUFFICES ASSUME ListInv, NEW k \in 1..Len(pushed), k <= Cap + 1
               PROVE  k <= Len(recent) /\ recent[k] = pushed[k]
    BY DEF NewestKept
  <2>1. Len(recent) \in Nat /\ Len(pushed) \in Nat /\ k \in Nat \ {0}
    BY LenProperties DEF ListInv, TypeOK
  <2>2. k <= Len(recent)
    BY <2>1, CapAssumption DEF ListInv
  <2> QED
    BY <2>1, <2>2 DEF ListInv
<1> QED
  BY <1>1, <1>2, ListStep, PTL DEF Spec

\* The publishers between LPUSH and LTRIM, those that failed there included.
Untrimmed == {e \in Events : pc[e] = "ltrim"}

BoundInv == TypeOK /\ ListBounded

\* An LPUSH adds one entry and one untrimmed publisher; an LTRIM that removes
\* a publisher from the count cuts the list to its cap.
LEMMA BoundStep == BoundInv /\ [Next]_vars => BoundInv'
<1> SUFFICES ASSUME BoundInv, [Next]_vars
             PROVE  BoundInv'
  OBVIOUS
<1>1. TypeOK'
  BY TypeStep DEF BoundInv
<1>2. IsFiniteSet(Untrimmed) /\ Cardinality(Untrimmed) \in Nat
  BY EventsAssumption, FS_Subset, FS_CardinalityType DEF Untrimmed
<1>3. IsFiniteSet(Untrimmed') /\ Cardinality(Untrimmed') \in Nat
  BY EventsAssumption, FS_Subset, FS_CardinalityType DEF Untrimmed
<1>4. ListBounded <=> Len(recent) <= Cap + 1 + Cardinality(Untrimmed)
  BY DEF ListBounded, Untrimmed
<1>5. ListBounded' <=> Len(recent') <= Cap + 1 + Cardinality(Untrimmed')
  BY DEF ListBounded, Untrimmed
<1>6. Len(recent) \in Nat
  BY LenProperties DEF BoundInv, TypeOK
<1>7. ASSUME NEW e \in Events, Lpush(e)
      PROVE  ListBounded'
  <2>1. Len(recent') = Len(recent) + 1
    BY <1>7, ConsProperties DEF Lpush, BoundInv, TypeOK
  <2>2. Untrimmed' = Untrimmed \cup {e} /\ e \notin Untrimmed
    BY <1>7 DEF Lpush, Untrimmed, BoundInv, TypeOK
  <2>3. Cardinality(Untrimmed') = Cardinality(Untrimmed) + 1
    BY <1>2, <2>2, FS_AddElement
  <2> QED
    BY <1>2, <1>4, <1>5, <1>6, <2>1, <2>3, CapAssumption DEF BoundInv
<1>8. ASSUME NEW e \in Events, Ltrim(e)
      PROVE  ListBounded'
  <2>1. Len(recent') <= Cap + 1
    <3>1. recent \in Seq(Events) /\ Cap + 1 \in Nat /\ recent' = Newest(recent, Cap + 1)
      BY <1>8, CapAssumption DEF Ltrim, BoundInv, TypeOK
    <3> QED
      BY <1>6, <3>1, NewestProperties
  <2>2. Len(recent') \in Nat
    BY <1>1, LenProperties DEF TypeOK
  <2> QED
    BY <1>3, <1>5, <2>1, <2>2, CapAssumption
<1>9. ASSUME recent' = recent, Untrimmed' = Untrimmed
      PROVE  ListBounded'
  BY <1>4, <1>5, <1>9 DEF BoundInv
<1>10. ASSUME NEW e \in Events, Publish(e) \/ PublisherFails(e)
       PROVE  recent' = recent /\ Untrimmed' = Untrimmed
  BY <1>10 DEF Publish, PublisherFails, Untrimmed, BoundInv, TypeOK
<1>11. ASSUME UNCHANGED publisherVars
       PROVE  ListBounded'
  BY <1>9, <1>11 DEF publisherVars, Untrimmed
<1> QED
  BY <1>1, <1>7, <1>8, <1>9, <1>10, <1>11, StepKinds DEF BoundInv

\* The list exceeds its Cap + 1 entries by no more than the publishers between
\* their LPUSH and their LTRIM, those that failed there included.
THEOREM ListStaysBounded == Spec => []ListBounded
<1>1. Init => BoundInv
  <2>1. ASSUME Init
        PROVE  ListBounded
    <3>1. IsFiniteSet(Untrimmed) /\ Cardinality(Untrimmed) \in Nat
      BY EventsAssumption, FS_Subset, FS_CardinalityType DEF Untrimmed
    <3>2. Len(recent) = 0
      BY <2>1 DEF Init
    <3> QED
      BY <3>1, <3>2, CapAssumption DEF ListBounded, Untrimmed
  <2> QED
    BY <2>1, FeedInit DEF BoundInv, FeedInv
<1>2. BoundInv => ListBounded
  BY DEF BoundInv
<1> QED
  BY <1>1, <1>2, BoundStep, PTL DEF Spec
-----------------------------------------------------------------------------
(* The page.                                                               *)

\* The event of frame i is entry number Rank(i) of the feed.
Rank(c, i) == CountIn(sent[c], Events, i, read[c])

Shows(p, c) ==
    \A i \in 1..read[c] : sent[c][i] \in Events /\ Rank(c, i) <= FeedCap =>
        Rank(c, i) <= Len(feed[p]) /\ feed[p][Rank(c, i)] = sent[c][i]

\* A page handles frames that were sent, on a connection it opened itself.
ReadInv ==
    /\ TypeOK
    /\ \A c \in Conns : read[c] <= Len(sent[c]) /\ (link[c] = "unused" => read[c] = 0)
    /\ \A p \in Pages : cur[p] # NoConn => link[cur[p]] # "unused"
    /\ \A p, q \in Pages : cur[p] = cur[q] /\ cur[p] # NoConn => p = q
    /\ \A p \in Pages : cur[p] # NoConn => Shows(p, cur[p])

\* A relay task only adds frames behind those that were handled.
SentGrows ==
    /\ UNCHANGED <<link, read, page, cur, feed>>
    /\ \A c \in Conns : Len(sent[c]) <= Len(sent'[c])
                        /\ \A i \in 1..Len(sent[c]) : sent'[c][i] = sent[c][i]

LEMMA SentGrowsKeeps ==
    ASSUME ReadInv, TypeOK', SentGrows
    PROVE  ReadInv'
<1>1. /\ link' = link /\ read' = read /\ cur' = cur /\ feed' = feed
      /\ \A c \in Conns : /\ read[c] \in Nat /\ Len(sent[c]) \in Nat
                          /\ Len(sent'[c]) \in Nat
                          /\ read[c] <= Len(sent[c])
                          /\ \A i \in 1..Len(sent[c]) : sent'[c][i] = sent[c][i]
  BY LenProperties DEF SentGrows, ReadInv, TypeOK
<1>2. \A c \in Conns : read'[c] <= Len(sent'[c])
  BY <1>1 DEF SentGrows
<1>3. ASSUME NEW p \in Pages, NEW c \in Conns, Shows(p, c)
      PROVE  Shows(p, c)'
  <2>1. \A i \in 1..read[c] : i \in Int /\ sent'[c][i] = sent[c][i]
    BY <1>1
  <2>2. \A i \in 1..read[c] : Rank(c, i)' = Rank(c, i)
    <3> SUFFICES ASSUME NEW i \in 1..read[c]
                 PROVE  CountIn(sent'[c], Events, i, read[c]) = CountIn(sent[c], Events, i, read[c])
      BY <1>1 DEF Rank
    <3>1. i \in Int /\ read[c] \in Int /\ \A j \in i..read[c] : sent'[c][j] = sent[c][j]
      BY <1>1, <2>1
    <3> QED
      BY ONLY <3>1, CountSame
  <2> QED
    BY <1>1, <1>3, <2>1, <2>2 DEF Shows
<1>4. \A p \in Pages : cur'[p] # NoConn => Shows(p, cur[p])'
  BY <1>1, <1>3 DEF ReadInv, TypeOK
<1> QED
  BY <1>1, <1>2, <1>4 DEF ReadInv

\* Opening and giving up a connection: a new one has no frame handled yet.
LEMMA PageMoves ==
    ASSUME ReadInv, TypeOK', UNCHANGED <<sent, read, feed>>,
           \A c \in Conns : link'[c] = "unused" => link[c] = "unused",
           \/ cur' = cur
           \/ \E p \in Pages : cur' = [cur EXCEPT ![p] = NoConn]
           \/ \E p \in Pages, c \in Conns :
                link[c] = "unused" /\ link'[c] # "unused" /\ cur' = [cur EXCEPT ![p] = c]
    PROVE  ReadInv'
<1>1. /\ \A c \in Conns : read'[c] <= Len(sent'[c]) /\ (link'[c] = "unused" => read'[c] = 0)
      /\ \A p \in Pages : cur[p] \in Conns \cup {NoConn}
  BY DEF ReadInv, TypeOK
<1>2. ASSUME NEW p \in Pages, NEW c \in Conns, Shows(p, c) \/ read[c] = 0
      PROVE  Shows(p, c)'
  BY <1>2 DEF Shows, Rank
<1>3. ASSUME cur' = cur \/ \E p \in Pages : cur' = [cur EXCEPT ![p] = NoConn]
      PROVE  ReadInv'
  <2>1. \A p \in Pages : cur'[p] = cur[p] \/ cur'[p] = NoConn
    BY <1>3 DEF ReadInv, TypeOK
  <2>2. \A p \in Pages : cur'[p] # NoConn =>
            cur'[p] = cur[p] /\ cur[p] \in Conns /\ link[cur[p]] # "unused" /\ Shows(p, cur[p])
    BY <1>1, <2>1 DEF ReadInv
  <2>3. \A p \in Pages : cur'[p] # NoConn => Shows(p, cur[p])'
    BY <1>2, <2>2
  <2> QED
    BY <1>1, <2>1, <2>2, <2>3 DEF ReadInv
<1>4. ASSUME NEW p \in Pages, NEW c \in Conns, link[c] = "unused", link'[c] # "unused",
             cur' = [cur EXCEPT ![p] = c]
      PROVE  ReadInv'
  <2>1. cur'[p] = c /\ \A q \in Pages : q # p => cur'[q] = cur[q] /\ cur[q] # c
    BY <1>1, <1>4, NoConnAssumption DEF ReadInv, TypeOK
  <2>2. read[c] = 0
    BY <1>4 DEF ReadInv
  <2>3. \A q \in Pages : cur'[q] # NoConn => Shows(q, cur[q])'
    BY <1>1, <1>2, <2>1, <2>2 DEF ReadInv
  <2>4. \A q \in Pages : cur'[q] # NoConn => link'[cur'[q]] # "unused"
    BY <1>1, <1>4, <2>1 DEF ReadInv
  <2> QED
    BY <1>1, <2>1, <2>3, <2>4 DEF ReadInv
<1> QED
  BY <1>3, <1>4

\* The frame handled becomes the newest: an event takes the first rank and
\* pushes the others down, the sentinel changes no rank.
LEMMA MessageKeeps ==
    ASSUME ReadInv, TypeOK', NEW p \in Pages, OnMessage(p)
    PROVE  ReadInv'
<1>c. PICK c \in Conns : c = cur[p]
  BY DEF OnMessage, ReadInv, TypeOK
<1> DEFINE n == read[c]
           frame == sent[c][n + 1]
<1>1. /\ c \in Conns /\ c = cur[p] /\ c # NoConn /\ n \in Nat /\ n < Len(sent[c])
      /\ Len(sent[c]) \in Nat /\ link[c] = "open"
      /\ read' = [read EXCEPT ![c] = n + 1]
      /\ feed' = [feed EXCEPT ![p] = IF frame = HistoryEnd THEN feed[p]
                                     ELSE Newest(<<frame>> \o feed[p], FeedCap)]
      /\ sent' = sent /\ link' = link /\ cur' = cur
  BY <1>c, LenProperties DEF OnMessage, ReadInv, TypeOK, relayVars
<1>2. /\ feed[p] \in Seq(Events) /\ Len(feed[p]) \in Nat /\ FeedCap \in Nat \ {0}
      /\ frame \in Events \cup {HistoryEnd}
  <2>1. sent[c] \in Seq(Events \cup {HistoryEnd}) /\ n + 1 \in 1..Len(sent[c])
    BY <1>1 DEF ReadInv, TypeOK
  <2>2. frame \in Events \cup {HistoryEnd}
    BY ONLY <2>1, ElementOfSeq
  <2> QED
    BY <2>2, LenProperties, FeedCapAssumption DEF ReadInv, TypeOK
<1>3. /\ read'[c] = n + 1 /\ \A d \in Conns : d # c => read'[d] = read[d]
      /\ \A q \in Pages : q # p => feed'[q] = feed[q] /\ (cur[q] # NoConn => cur[q] # c)
  BY <1>1 DEF ReadInv, TypeOK
<1>4. \A d \in Conns : read'[d] <= Len(sent'[d]) /\ (link'[d] = "unused" => read'[d] = 0)
  BY <1>1, <1>3 DEF ReadInv
<1>5. ASSUME NEW q \in Pages, q # p, cur[q] # NoConn
      PROVE  Shows(q, cur[q])'
  <2>1. cur[q] \in Conns /\ cur[q] # c /\ Shows(q, cur[q])
    BY <1>3, <1>5 DEF ReadInv, TypeOK
  <2> QED
    BY <1>1, <1>3, <1>5, <2>1 DEF Shows, Rank
<1>6. ASSUME NEW i \in 1..n, sent[c][i] \in Events
      PROVE  Rank(c, i) \in Nat \ {0}
  <2>1. i \in Int /\ n \in Int /\ i \in i..n
    BY <1>1
  <2>2. CountIn(sent[c], Events, i, n) \in Nat /\ CountIn(sent[c], Events, i, n) >= 1
    BY ONLY <1>6, <2>1, CountType, CountBounds
  <2> QED
    BY <2>2 DEF Rank
<1>7. \A i \in 1..(n + 1) : Rank(c, i)' =
            CountIn(sent[c], Events, i, n) + (IF frame \in Events THEN 1 ELSE 0)
  <2> SUFFICES ASSUME NEW i \in 1..(n + 1)
               PROVE  CountIn(sent[c], Events, i, n + 1) =
                        CountIn(sent[c], Events, i, n) + (IF frame \in Events THEN 1 ELSE 0)
    BY <1>1, <1>3 DEF Rank
  <2>1. i \in Int /\ n \in Int /\ i <= n + 1
    BY <1>1
  <2> QED
    BY ONLY <2>1, CountNext
<1>8. \A i \in 1..n : Rank(c, i) = CountIn(sent[c], Events, i, n)
  BY DEF Rank
<1>9. CountIn(sent[c], Events, n + 1, n) = 0
  <2>1. n + 1 \in Int /\ n \in Int /\ n < n + 1
    BY <1>1
  <2> QED
    BY ONLY <2>1, CountType
<1>10. Shows(p, c)
  BY <1>1 DEF ReadInv
<1> HIDE DEF n, frame
<1>11. CASE frame = HistoryEnd
  <2>1. feed'[p] = feed[p] /\ frame \notin Events
    BY <1>1, <1>11, SentinelAssumption DEF ReadInv, TypeOK
  <2>2. \A i \in 1..n : Rank(c, i)' = Rank(c, i) /\ Rank(c, i) \in Int
    <3> SUFFICES ASSUME NEW i \in 1..n
                 PROVE  Rank(c, i)' = Rank(c, i) /\ Rank(c, i) \in Int
      OBVIOUS
    <3>1. i \in 1..(n + 1) /\ i \in Int /\ n \in Int
      BY <1>1
    <3>2. CountIn(sent[c], Events, i, n) \in Nat
      BY ONLY <3>1, CountType
    <3> QED
      BY <1>7, <1>8, <2>1, <3>1, <3>2
  <2>3. sent'[c][n + 1] \notin Events
    BY <1>1, <2>1 DEF frame
  <2>4. Shows(p, c)'
    <3> SUFFICES ASSUME NEW i \in 1..(n + 1), sent[c][i] \in Events, Rank(c, i)' <= FeedCap
                 PROVE  Rank(c, i)' <= Len(feed[p]) /\ feed[p][Rank(c, i)'] = sent[c][i]
      BY <1>1, <1>3, <2>1 DEF Shows
    <3>1. i \in 1..n
      BY <1>1, <2>3
    <3> QED
      BY <1>10, <2>2, <3>1 DEF Shows, n
  <2> QED
    BY <1>1, <1>4, <1>5, <2>4 DEF ReadInv
<1>12. CASE frame # HistoryEnd
  <2>1. frame \in Events /\ feed'[p] = Newest(<<frame>> \o feed[p], FeedCap)
    BY <1>1, <1>2, <1>12 DEF ReadInv, TypeOK
  <2>2. /\ <<frame>> \o feed[p] \in Seq(Events)
        /\ Len(<<frame>> \o feed[p]) = Len(feed[p]) + 1
        /\ (<<frame>> \o feed[p])[1] = frame
        /\ \A i \in 2..(Len(feed[p]) + 1) : (<<frame>> \o feed[p])[i] = feed[p][i - 1]
    <3>1. feed[p] \in Seq(Events) /\ frame \in Events
      BY <1>2, <2>1
    <3> QED
      BY ONLY <3>1, ConsProperties
  <2>3. /\ Len(feed'[p]) = IF Len(feed[p]) + 1 < FeedCap THEN Len(feed[p]) + 1 ELSE FeedCap
        /\ \A i \in 1..Len(feed'[p]) : feed'[p][i] = (<<frame>> \o feed[p])[i]
    <3>1. FeedCap \in Nat /\ <<frame>> \o feed[p] \in Seq(Events)
      BY <1>2, <2>2
    <3>2. /\ Len(Newest(<<frame>> \o feed[p], FeedCap))
               = IF Len(<<frame>> \o feed[p]) < FeedCap THEN Len(<<frame>> \o feed[p]) ELSE FeedCap
          /\ \A i \in 1..Len(Newest(<<frame>> \o feed[p], FeedCap)) :
                Newest(<<frame>> \o feed[p], FeedCap)[i] = (<<frame>> \o feed[p])[i]
      BY ONLY <3>1, NewestProperties
    <3> QED
      BY <2>1, <2>2, <3>2
  <2>4. Shows(p, c)'
    <3> SUFFICES ASSUME NEW i \in 1..(n + 1), sent[c][i] \in Events, Rank(c, i)' <= FeedCap
                 PROVE  Rank(c, i)' <= Len(feed'[p]) /\ feed'[p][Rank(c, i)'] = sent[c][i]
      BY <1>1, <1>3 DEF Shows
    <3>1. CASE i = n + 1
      <4>1. Rank(c, i)' = 1
        BY <1>7, <1>9, <2>1, <3>1
      <4> QED
        BY <1>2, <2>2, <2>3, <3>1, <4>1 DEF frame
    <3>2. CASE i \in 1..n
      <4>1. Rank(c, i) \in Nat \ {0} /\ Rank(c, i)' = Rank(c, i) + 1
        BY <1>6, <1>7, <1>8, <2>1, <3>2
      <4>2. Rank(c, i) <= FeedCap
        BY <1>2, <4>1
      <4>3. Rank(c, i) <= Len(feed[p]) /\ feed[p][Rank(c, i)] = sent[c][i]
        BY <1>10, <3>2, <4>2 DEF Shows, n
      <4>4. Rank(c, i)' \in 2..(Len(feed[p]) + 1) /\ Rank(c, i)' - 1 = Rank(c, i)
        BY <1>2, <4>1, <4>3
      <4>5. Rank(c, i)' \in 1..Len(feed'[p])
        BY <1>2, <2>3, <4>4
      <4> QED
        BY <2>2, <2>3, <4>3, <4>4, <4>5
    <3> QED
      BY <1>1, <3>1, <3>2
  <2> QED
    BY <1>1, <1>4, <1>5, <2>4 DEF ReadInv
<1> QED
  BY <1>11, <1>12

\* Every step of a relay task adds frames at most; every other step opens or
\* gives up a connection, handles a frame, or touches neither.
LEMMA ReadStep == ReadInv /\ [Next]_vars => ReadInv'
<1> SUFFICES ASSUME ReadInv, [Next]_vars
             PROVE  ReadInv'
  OBVIOUS
<1>1. TypeOK /\ TypeOK'
  BY TypeStep DEF ReadInv
<1>2. ASSUME UNCHANGED <<sent, read, feed, cur>>,
             \A c \in Conns : link'[c] = "unused" => link[c] = "unused"
      PROVE  ReadInv'
  BY <1>1, <1>2, PageMoves
<1>3. ASSUME UNCHANGED <<sent, pageVars>>
      PROVE  ReadInv'
  BY <1>2, <1>3 DEF pageVars
<1>4. ASSUME NEW e \in Events, Publish(e) \/ Lpush(e) \/ Ltrim(e) \/ PublisherFails(e)
      PROVE  ReadInv'
  BY <1>3, <1>4 DEF Publish, Lpush, Ltrim, PublisherFails, relayVars
<1>5. ASSUME NEW c \in Conns,
             \/ Lrange(c) \/ LrangeFails(c) \/ Subscribe(c) \/ SubscribeFails(c)
             \/ PubSubDrops(c) \/ StreamEnds(c) \/ TaskNotices(c)
      PROVE  ReadInv'
  BY <1>3, <1>5 DEF Lrange, LrangeFails, Subscribe, SubscribeFails, PubSubDrops,
                    StreamEnds, TaskNotices
<1>6. ASSUME NEW c \in Conns, Accept(c) \/ Reject(c) \/ LinkFails(c)
      PROVE  ReadInv'
  BY <1>1, <1>2, <1>6 DEF Accept, Reject, LinkFails, relayVars, TypeOK
<1>7. ASSUME NEW c \in Conns, Replay(c) \/ SendSentinel(c) \/ Forward(c)
      PROVE  ReadInv'
  <2>1. PICK f \in Events \cup {HistoryEnd} :
            sent' = [sent EXCEPT ![c] = Append(sent[c], f)]
    <3>1. history[c] # <<>> => history[c][Len(history[c])] \in Events
      BY <1>1, FrontProperties DEF TypeOK
    <3>2. pubsub[c] # <<>> => Head(pubsub[c]) \in Events
      BY <1>1, HeadTailProperties DEF TypeOK
    <3> QED
      BY <1>7, <3>1, <3>2 DEF Replay, SendSentinel, Forward
  <2>2. UNCHANGED <<link, read, page, cur, feed>>
    BY <1>7 DEF Replay, SendSentinel, Forward, pageVars
  <2>3. \A d \in Conns : sent[d] \in Seq(Events \cup {HistoryEnd}) /\ Len(sent[d]) \in Nat
    BY <1>1, LenProperties DEF TypeOK
  <2>4. /\ Len(Append(sent[c], f)) = Len(sent[c]) + 1
        /\ \A i \in 1..Len(sent[c]) : Append(sent[c], f)[i] = sent[c][i]
    BY <2>3, AppendProperties
  <2>5. \A d \in Conns : sent'[d] = IF d = c THEN Append(sent[c], f) ELSE sent[d]
    BY <1>1, <2>1 DEF TypeOK
  <2>6. ASSUME NEW d \in Conns
        PROVE  Len(sent[d]) <= Len(sent'[d]) /\ \A i \in 1..Len(sent[d]) : sent'[d][i] = sent[d][i]
    <3>1. CASE d = c
      <4>1. Len(sent'[d]) = Len(sent[d]) + 1 /\ Len(sent[d]) \in Nat
        BY <2>3, <2>4, <2>5, <3>1
      <4>2. \A i \in 1..Len(sent[d]) : sent'[d][i] = sent[d][i]
        BY <2>4, <2>5, <3>1
      <4> QED
        BY <4>1, <4>2
    <3>2. CASE d # c
      BY <2>3, <2>5, <3>2
    <3> QED
      BY <3>1, <3>2
  <2>7. SentGrows
    BY <2>2, <2>6 DEF SentGrows
  <2> QED
    BY <1>1, <2>7, SentGrowsKeeps
<1>8. ASSUME NEW p \in Pages, NEW c \in Conns, Connect(p, c)
      PROVE  ReadInv'
  <2>1. /\ UNCHANGED <<sent, read, feed>> /\ link[c] = "unused"
        /\ link' = [link EXCEPT ![c] = "opening"] /\ cur' = [cur EXCEPT ![p] = c]
    BY <1>8 DEF Connect, relayVars
  <2>2. link'[c] # "unused" /\ \A d \in Conns : link'[d] = "unused" => link[d] = "unused"
    BY <1>1, <2>1 DEF TypeOK
  <2> QED
    BY <1>1, <2>1, <2>2, PageMoves
<1>9. ASSUME NEW p \in Pages, TicketFails(p) \/ OnOpen(p) \/ Retry(p)
      PROVE  ReadInv'
  BY <1>2, <1>9 DEF TicketFails, OnOpen, Retry, relayVars
<1>10. ASSUME NEW p \in Pages, OnClose(p) \/ OnLinkLost(p) \/ Unmount(p)
       PROVE  ReadInv'
  <2>1. UNCHANGED <<sent, read, feed>> /\ cur' = [cur EXCEPT ![p] = NoConn]
    BY <1>10 DEF OnClose, OnLinkLost, Unmount, CloseAndReconnect, relayVars
  <2>2. \A c \in Conns : link'[c] = "unused" => link[c] = "unused"
    BY <1>1, <1>10 DEF OnClose, OnLinkLost, Unmount, TypeOK
  <2> QED
    BY <1>1, <2>1, <2>2, PageMoves
<1>11. ASSUME NEW p \in Pages, OnMessage(p)
       PROVE  ReadInv'
  BY <1>1, <1>11, MessageKeeps
<1>12. CASE UNCHANGED vars
  BY <1>3, <1>12 DEF vars, pageVars
<1> QED
  BY <1>4, <1>5, <1>6, <1>7, <1>8, <1>9, <1>10, <1>11, <1>12
  DEF Next, Progress, Faults, PublisherStep, TaskStep, RelayFails, PageStep

LEMMA ReadInit == Init => ReadInv
<1> SUFFICES ASSUME Init PROVE ReadInv
  OBVIOUS
<1>1. TypeOK
  BY FeedInit DEF FeedInv
<1>2. /\ \A c \in Conns : read[c] = 0 /\ sent[c] = <<>> /\ Len(sent[c]) \in Nat
      /\ \A p \in Pages : cur[p] = NoConn
  BY <1>1, LenProperties DEF Init, TypeOK
<1> QED
  BY <1>1, <1>2 DEF ReadInv

\* Whatever the page read before, and however often it reconnected: the events it
\* has read on the connection it holds are on top of its feed, newest first and
\* without a gap.
THEOREM FeedIsWhatWasRead == Spec => []FeedShowsConnection
<1>1. ReadInv => FeedShowsConnection
  BY DEF ReadInv, Shows, Rank, CountIn, FeedShowsConnection
<1> QED
  BY <1>1, ReadInit, ReadStep, PTL DEF Spec
-----------------------------------------------------------------------------
(* What was delivered.                                                     *)

\* An event stays underway when the queue and the frames only grow.
LEMMA UnderwayGrows ==
    ASSUME TypeOK, NEW c \in Conns, NEW e \in Events, IsUnderway(c, e),
           read'[c] = read[c], link'[c] = link[c],
           Len(pubsub[c]) <= Len(pubsub'[c]), Len(pubsub'[c]) \in Nat,
           \A i \in 1..Len(pubsub[c]) : pubsub'[c][i] = pubsub[c][i],
           Len(sent[c]) <= Len(sent'[c]), Len(sent'[c]) \in Nat,
           \A i \in 1..Len(sent[c]) : sent'[c][i] = sent[c][i]
    PROVE  IsUnderway(c, e)'
<1>1. Len(pubsub[c]) \in Nat /\ Len(sent[c]) \in Nat
  BY LenProperties DEF TypeOK
<1> link'[c] = "open"
  BY DEF IsUnderway
<1>2. CASE \E j \in 1..Len(pubsub[c]) : pubsub[c][j] = e
  <2>1. PICK j \in 1..Len(pubsub[c]) : pubsub[c][j] = e
    BY <1>2
  <2>2. j \in 1..Len(pubsub'[c]) /\ pubsub'[c][j] = e
    BY <1>1, <2>1
  <2> QED
    BY <2>2 DEF IsUnderway
<1>3. CASE \E j \in 1..Len(sent[c]) : j > read[c] /\ sent[c][j] = e
  <2>1. PICK j \in 1..Len(sent[c]) : j > read[c] /\ sent[c][j] = e
    BY <1>3
  <2>2. j \in 1..Len(sent'[c]) /\ j > read'[c] /\ sent'[c][j] = e
    BY <1>1, <2>1
  <2> QED
    BY <2>2 DEF IsUnderway
<1> QED
  BY <1>2, <1>3 DEF IsUnderway

\* Forwarding takes the head of the queue and makes it the last frame.
LEMMA UnderwayForward ==
    ASSUME ReadInv, NEW c \in Conns, NEW e \in Events, IsUnderway(c, e), Forward(c)
    PROVE  IsUnderway(c, e)'
<1>1. PICK q \in Seq(Events) : q = pubsub[c] /\ q # <<>>
  BY DEF Forward, ReadInv, TypeOK
<1>2. PICK s \in Seq(Events \cup {HistoryEnd}) : s = sent[c]
  BY DEF ReadInv, TypeOK
<1>3. PICK x \in Events : x = Head(q)
  BY <1>1, HeadTailProperties
<1>4. PICK r \in Seq(Events) : r = Tail(q)
  BY <1>1, HeadTailProperties
<1>5. PICK t \in Seq(Events \cup {HistoryEnd}) : t = Append(s, x)
  BY AppendProperties
<1>6. /\ Len(q) \in Nat \ {0} /\ x = q[1] /\ Len(r) = Len(q) - 1
      /\ \A i \in 1..Len(r) : i + 1 \in 1..Len(q) /\ r[i] = q[i + 1]
  BY <1>1, <1>3, <1>4, HeadTailProperties, EmptySeq
<1>7. /\ Len(s) \in Nat /\ Len(t) = Len(s) + 1 /\ t[Len(s) + 1] = x
      /\ \A i \in 1..Len(s) : t[i] = s[i]
  BY <1>5, AppendProperties, LenProperties
<1>8. /\ pubsub'[c] = r /\ sent'[c] = t /\ read'[c] = read[c]
      /\ link'[c] = "open" /\ read[c] \in Nat /\ read[c] <= Len(s)
  BY <1>1, <1>2, <1>3, <1>4, <1>5 DEF Forward, pageVars, ReadInv, TypeOK, IsUnderway
<1>9. ASSUME x = e
      PROVE  IsUnderway(c, e)'
  <2>1. Len(s) + 1 \in 1..Len(t) /\ Len(s) + 1 > read[c]
    BY <1>7, <1>8
  <2> QED
    BY <1>7, <1>8, <1>9, <2>1 DEF IsUnderway
<1>10. ASSUME NEW j \in 1..Len(q), q[j] = e, j # 1
       PROVE  IsUnderway(c, e)'
  <2>1. j - 1 \in 1..Len(r) /\ r[j - 1] = q[j]
    BY <1>6, <1>10
  <2> QED
    BY <1>8, <1>10, <2>1 DEF IsUnderway
<1>11. ASSUME NEW j \in 1..Len(s), j > read[c], s[j] = e
       PROVE  IsUnderway(c, e)'
  <2>1. j \in 1..Len(t) /\ t[j] = e
    BY <1>7, <1>11
  <2> QED
    BY <1>8, <1>11, <2>1 DEF IsUnderway
<1> QED
  BY <1>1, <1>2, <1>6, <1>9, <1>10, <1>11 DEF IsUnderway

\* The frame that is handled is shown when it is an event; the others wait on.
LEMMA UnderwayMessage ==
    ASSUME ReadInv, NEW p \in Pages, NEW c \in Conns, c = cur[p], NEW e \in Events,
           IsUnderway(c, e), OnMessage(p)
    PROVE  IsUnderway(c, e)' \/ IsShown(p, e)'
<1> DEFINE n == read[c]
           frame == sent[c][n + 1]
<1>1. /\ n \in Nat /\ n < Len(sent[c]) /\ Len(sent[c]) \in Nat
      /\ read'[c] = n + 1 /\ UNCHANGED <<sent, pubsub, link>>
      /\ feed'[p] = IF frame = HistoryEnd THEN feed[p]
                    ELSE Newest(<<frame>> \o feed[p], FeedCap)
  BY LenProperties DEF OnMessage, ReadInv, TypeOK, relayVars
<1>2. feed[p] \in Seq(Events) /\ FeedCap \in Nat \ {0}
  BY FeedCapAssumption DEF ReadInv, TypeOK
<1>3. CASE \E j \in 1..Len(pubsub[c]) : pubsub[c][j] = e
  BY <1>1, <1>3 DEF IsUnderway
<1>4. ASSUME NEW j \in 1..Len(sent[c]), j > n, sent[c][j] = e
      PROVE  IsUnderway(c, e)' \/ IsShown(p, e)'
  <2>1. CASE j > n + 1
    BY <1>1, <1>4, <2>1 DEF IsUnderway
  <2>2. CASE j = n + 1
    <3>1. frame = e /\ e # HistoryEnd
      BY <1>4, <2>2, SentinelAssumption
    <3>2. /\ <<e>> \o feed[p] \in Seq(Events) /\ (<<e>> \o feed[p])[1] = e
          /\ Len(<<e>> \o feed[p]) = Len(feed[p]) + 1 /\ Len(feed[p]) \in Nat
      BY <1>2, ConsProperties, LenProperties
    <3>3. /\ Len(Newest(<<e>> \o feed[p], FeedCap)) \in Nat \ {0}
          /\ Newest(<<e>> \o feed[p], FeedCap)[1] = e
      <4>1. FeedCap \in Nat /\ <<e>> \o feed[p] \in Seq(Events)
        BY <1>2, <3>2
      <4>2. /\ Len(Newest(<<e>> \o feed[p], FeedCap))
                 = IF Len(<<e>> \o feed[p]) < FeedCap THEN Len(<<e>> \o feed[p]) ELSE FeedCap
            /\ \A i \in 1..Len(Newest(<<e>> \o feed[p], FeedCap)) :
                  Newest(<<e>> \o feed[p], FeedCap)[i] = (<<e>> \o feed[p])[i]
        BY ONLY <4>1, NewestProperties
      <4>3. Len(Newest(<<e>> \o feed[p], FeedCap)) \in Nat \ {0}
        BY <1>2, <3>2, <4>2
      <4> QED
        BY <3>2, <4>2, <4>3
    <3>4. feed'[p] = Newest(<<e>> \o feed[p], FeedCap)
      BY <1>1, <3>1
    <3> QED
      BY <3>3, <3>4 DEF IsShown
  <2> QED
    BY <1>1, <1>4, <2>1, <2>2
<1> QED
  BY <1>3, <1>4 DEF IsUnderway

\* No step loses what was delivered to the session of a page, but the failure of
\* its link and the unmounting of the page.
LEMMA KeptStep ==
    ASSUME ReadInv, PhaseInv, [Next]_vars,
           NEW p \in Pages, NEW c \in Conns, NEW e \in Events,
           cur[p] = c, IsUnderway(c, e)
    PROVE  \/ IsUnderway(c, e)' \/ IsShown(p, e)'
           \/ link'[c] = "lost" \/ page'[p] = "unmounted"
<1>1. TypeOK /\ TypeOK' /\ c # NoConn /\ link[c] = "open"
  BY TypeStep, NoConnAssumption DEF ReadInv, IsUnderway
<1>2. \A d \in Conns : /\ Len(pubsub[d]) \in Nat /\ Len(pubsub'[d]) \in Nat
                       /\ Len(sent[d]) \in Nat /\ Len(sent'[d]) \in Nat
  BY <1>1, LenProperties DEF TypeOK
<1>3. ASSUME UNCHANGED <<sent, read>>, pubsub'[c] = pubsub[c], link'[c] = link[c]
      PROVE  IsUnderway(c, e)'
  BY <1>3 DEF IsUnderway
<1>4. ASSUME NEW d \in Events, Publish(d)
      PROVE  IsUnderway(c, e)'
  <2>1. UNCHANGED <<sent, read, link>> /\ pubsub'[c] \in {pubsub[c], Append(pubsub[c], d)}
    BY <1>1, <1>4 DEF Publish, relayVars, pageVars, TypeOK
  <2>2. /\ Len(pubsub[c]) <= Len(pubsub'[c])
        /\ \A i \in 1..Len(pubsub[c]) : pubsub'[c][i] = pubsub[c][i]
    <3>1. pubsub[c] \in Seq(Events) /\ d \in Events /\ Len(pubsub[c]) \in Nat
      BY <1>1, <1>2 DEF TypeOK
    <3>2. /\ Len(Append(pubsub[c], d)) = Len(pubsub[c]) + 1
          /\ \A i \in 1..Len(pubsub[c]) : Append(pubsub[c], d)[i] = pubsub[c][i]
      BY ONLY <3>1, AppendProperties
    <3>3. CASE pubsub'[c] = pubsub[c]
      BY <3>1, <3>3
    <3>4. CASE pubsub'[c] = Append(pubsub[c], d)
      BY <3>1, <3>2, <3>4
    <3> QED
      BY <2>1, <3>3, <3>4
  <2> QED
    BY <1>1, <1>2, <2>1, <2>2, UnderwayGrows
<1>5. ASSUME NEW d \in Events, Lpush(d) \/ Ltrim(d) \/ PublisherFails(d)
      PROVE  IsUnderway(c, e)'
  BY <1>3, <1>5 DEF Lpush, Ltrim, PublisherFails, relayVars, pageVars
<1>6. ASSUME NEW d \in Conns,
             \/ Lrange(d) \/ LrangeFails(d)
             \/ Subscribe(d) \/ SubscribeFails(d) \/ PubSubDrops(d) \/ StreamEnds(d)
      PROVE  IsUnderway(c, e)'
  BY <1>3, <1>6 DEF Lrange, LrangeFails, Subscribe, SubscribeFails, PubSubDrops,
     StreamEnds, pageVars
<1>7. ASSUME NEW d \in Conns, Replay(d) \/ SendSentinel(d)
      PROVE  IsUnderway(c, e)'
  <2>1. PICK f \in Events \cup {HistoryEnd} :
            sent' = [sent EXCEPT ![d] = Append(sent[d], f)]
    <3>1. history[d] # <<>> => history[d][Len(history[d])] \in Events
      BY <1>1, FrontProperties DEF TypeOK
    <3> QED
      BY <1>7, <3>1 DEF Replay, SendSentinel
  <2>2. UNCHANGED <<pubsub, read, link>> /\ sent'[c] \in {sent[c], Append(sent[c], f)}
    BY <1>1, <1>7, <2>1 DEF Replay, SendSentinel, pageVars, TypeOK
  <2>3. /\ Len(sent[c]) <= Len(sent'[c])
        /\ \A i \in 1..Len(sent[c]) : sent'[c][i] = sent[c][i]
    <3>1. sent[c] \in Seq(Events \cup {HistoryEnd}) /\ f \in Events \cup {HistoryEnd} /\ Len(sent[c]) \in Nat
      BY <1>1, <1>2 DEF TypeOK
    <3>2. /\ Len(Append(sent[c], f)) = Len(sent[c]) + 1
          /\ \A i \in 1..Len(sent[c]) : Append(sent[c], f)[i] = sent[c][i]
      BY ONLY <3>1, AppendProperties
    <3>3. CASE sent'[c] = sent[c]
      BY <3>1, <3>3
    <3>4. CASE sent'[c] = Append(sent[c], f)
      BY <3>1, <3>2, <3>4
    <3> QED
      BY <2>2, <3>3, <3>4
  <2> QED
    BY <1>1, <1>2, <2>2, <2>3, UnderwayGrows
<1>8. ASSUME NEW d \in Conns, Forward(d)
      PROVE  IsUnderway(c, e)'
  <2>1. CASE d = c
    BY <1>8, <2>1, UnderwayForward
  <2>2. CASE d # c
    <3>1. pubsub'[c] = pubsub[c] /\ sent'[c] = sent[c] /\ UNCHANGED <<read, link>>
      BY <1>1, <1>8, <2>2 DEF Forward, pageVars, TypeOK
    <3> QED
      BY <3>1 DEF IsUnderway
  <2> QED
    BY <2>1, <2>2
<1>9. ASSUME NEW q \in Pages,
             \/ TicketFails(q) \/ OnOpen(q) \/ Retry(q) \/ OnLinkLost(q)
      PROVE  IsUnderway(c, e)'
  BY <1>3, <1>9 DEF TicketFails, OnOpen, Retry, OnLinkLost, CloseAndReconnect, relayVars
<1>10. ASSUME NEW q \in Pages, OnMessage(q)
       PROVE  IsUnderway(c, e)' \/ IsShown(p, e)'
  <2>1. CASE q = p
    BY <1>10, <2>1, UnderwayMessage
  <2>2. CASE q # p
    <3>1. cur[q] # c
      BY <1>1, <2>2 DEF ReadInv
    <3>2. UNCHANGED <<pubsub, sent, link>> /\ read'[c] = read[c]
      BY <1>1, <1>10, <3>1 DEF OnMessage, relayVars, TypeOK
    <3> QED
      BY <3>2 DEF IsUnderway
  <2> QED
    BY <2>1, <2>2
<1>11. CASE UNCHANGED vars
  BY <1>3, <1>11 DEF vars
<1>12. ASSUME NEW d \in Conns, Accept(d) \/ Reject(d) \/ LinkFails(d)
       PROVE  IsUnderway(c, e)' \/ link'[c] = "lost"
  <2>1. UNCHANGED <<pubsub, sent, read>> /\ (link'[c] = link[c] \/ link'[c] = "lost")
    BY <1>1, <1>12 DEF Accept, Reject, LinkFails, relayVars, TypeOK
  <2> QED
    BY <1>3, <2>1
\* The task of an open link does not notice anything.
<1>13. ASSUME NEW d \in Conns, TaskNotices(d)
       PROVE  IsUnderway(c, e)'
  <2>1. UNCHANGED <<sent, read, link>> /\ pubsub'[c] = pubsub[c]
    BY <1>1, <1>13 DEF TaskNotices, pageVars, TypeOK
  <2> QED
    BY <1>3, <2>1
<1>14. ASSUME NEW q \in Pages, NEW d \in Conns, Connect(q, d)
       PROVE  IsUnderway(c, e)'
  <2>1. UNCHANGED <<pubsub, sent, read>> /\ link'[c] = link[c]
    BY <1>1, <1>14 DEF Connect, relayVars, TypeOK
  <2> QED
    BY <1>3, <2>1
\* The relay ended the connection with an empty queue, and all of it was read.
<1>15. ASSUME NEW q \in Pages, OnClose(q)
       PROVE  IsUnderway(c, e)'
  <2>1. UNCHANGED <<pubsub, sent, read>>
    BY <1>15 DEF OnClose, CloseAndReconnect, relayVars
  <2>2. CASE cur[q] = c
    <3>1. task[c] = "closed" /\ read[c] = Len(sent[c])
      BY <1>1, <1>15, <2>2 DEF OnClose
    <3>2. pubsub[c] = <<>> /\ Len(<<>>) = 0
      BY <3>1 DEF PhaseInv
    <3>3. ~IsUnderway(c, e)
      BY <1>2, <3>1, <3>2 DEF IsUnderway
    <3> QED
      BY <3>3
  <2>3. CASE cur[q] # c
    <3>1. link'[c] = link[c]
      BY <1>1, <1>15, <2>3 DEF OnClose, TypeOK
    <3> QED
      BY <1>3, <2>1, <3>1
  <2> QED
    BY <2>2, <2>3
<1>16. ASSUME NEW q \in Pages, Unmount(q)
       PROVE  IsUnderway(c, e)' \/ page'[p] = "unmounted"
  <2>1. CASE q = p
    BY <1>1, <1>16, <2>1 DEF Unmount, TypeOK
  <2>2. CASE q # p
    <3>1. cur[q] # c
      BY <1>1, <2>2 DEF ReadInv
    <3>2. UNCHANGED <<pubsub, sent, read>> /\ link'[c] = link[c]
      BY <1>1, <1>16, <3>1 DEF Unmount, relayVars, TypeOK
    <3> QED
      BY <1>3, <3>2
  <2> QED
    BY <2>1, <2>2
<1> QED
  BY <1>4, <1>5, <1>6, <1>7, <1>8, <1>9, <1>10, <1>11, <1>12, <1>13, <1>14, <1>15, <1>16
  DEF Next, Progress, Faults, PublisherStep, TaskStep, RelayFails, PageStep

\* An event that Redis handed to the session of a page and that can still arrive
\* is lost by nothing but a network failure or the unmounting of the page.  A
\* session that ends by itself has forwarded its whole queue, and the page leaves
\* it only after the last frame: the safety half of LiveEventShown.
THEOREM DeliveredStaysUnderway == Spec => DeliveredIsKept
<1>1. Spec => []ReadInv
  BY ReadInit, ReadStep, PTL DEF Spec
<1>2. FeedInv => PhaseInv
  BY DEF FeedInv
<1>3. ReadInv /\ PhaseInv /\ [Next]_vars =>
        [\A p \in Pages, c \in Conns, e \in Events :
           cur[p] = c /\ IsUnderway(c, e) =>
               \/ IsUnderway(c, e)' \/ IsShown(p, e)'
               \/ link'[c] = "lost" \/ page'[p] = "unmounted"]_vars
  BY KeptStep
<1> QED
  BY <1>1, <1>2, <1>3, FeedInvariant, PTL DEF Spec, DeliveredIsKept
=============================================================================
