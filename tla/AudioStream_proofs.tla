------------------------- MODULE AudioStream_proofs -------------------------
(***************************************************************************)
(* AudioDelivery implements CommandStream: between the PUBLISH of a        *)
(* command and the page that obeys it lie two queues, the subscription and *)
(* the socket, and together they hold what was issued and not yet obeyed.  *)
(***************************************************************************)
EXTENDS AudioDelivery_proofs, SeqLemmas

-----------------------------------------------------------------------------
(* A queue holds commands among other things: those of its elements in A   *)
(* ask, one by one, for what stands in iss after the first n entries.      *)

Waiting(q, A) == CountIn(q, A, 1, Len(q))

Holds(q, A, iss, n) ==
    \A i \in 1..Len(q) : q[i] \in A => iss[n + CountIn(q, A, 1, i)] = q[i].audio

\* The entries a queue refers to are those from n + 1 to n + Waiting(q, A).
LEMMA WaitingBounds ==
    ASSUME NEW S, NEW q \in Seq(S), NEW A
    PROVE  /\ Waiting(q, A) \in Nat
           /\ \A i \in 1..Len(q) : /\ CountIn(q, A, 1, i) \in Nat
                                   /\ CountIn(q, A, 1, i) <= Waiting(q, A)
                                   /\ q[i] \in A => CountIn(q, A, 1, i) >= 1
<1>1. Len(q) \in Nat
  BY LenProperties
<1>2. Waiting(q, A) \in Nat
  <2>1. 1 \in Int /\ Len(q) \in Int
    BY <1>1
  <2>2. CountIn(q, A, 1, Len(q)) \in Nat
    BY ONLY <2>1, CountType
  <2> QED
    BY <2>2 DEF Waiting
<1>3. ASSUME NEW i \in 1..Len(q)
      PROVE  /\ CountIn(q, A, 1, i) \in Nat
             /\ CountIn(q, A, 1, i) <= Waiting(q, A)
             /\ q[i] \in A => CountIn(q, A, 1, i) >= 1
  <2>1. 1 \in Int /\ Len(q) \in Int /\ i \in Int
    BY <1>1
  <2>2. CountIn(q, A, 1, i) \in Nat
    BY ONLY <2>1, CountType
  <2> QED
    BY <2>1, <2>2, CountBounds DEF Waiting
<1> QED
  BY <1>2, <1>3

\* What is issued later does not concern what is in a queue.
LEMMA HoldsGrows ==
    ASSUME NEW S, NEW q \in Seq(S), NEW A, NEW n \in Nat, NEW iss, NEW jss,
           Holds(q, A, iss, n),
           \A k \in 1..(n + Waiting(q, A)) : jss[k] = iss[k]
    PROVE  Holds(q, A, jss, n)
<1> SUFFICES ASSUME NEW i \in 1..Len(q), q[i] \in A
             PROVE  jss[n + CountIn(q, A, 1, i)] = q[i].audio
  BY DEF Holds
<1>1. n + CountIn(q, A, 1, i) \in 1..(n + Waiting(q, A))
  BY WaitingBounds
<1> QED
  BY <1>1 DEF Holds

\* An element at the end of a queue waits behind the others.
LEMMA HoldsAppend ==
    ASSUME NEW S, NEW q \in Seq(S), NEW A, NEW n \in Nat, NEW iss, NEW e \in S,
           Holds(q, A, iss, n),
           e \in A => iss[n + Waiting(q, A) + 1] = e.audio
    PROVE  /\ Holds(Append(q, e), A, iss, n)
           /\ e \in A => Waiting(Append(q, e), A) = Waiting(q, A) + 1
           /\ e \notin A => Waiting(Append(q, e), A) = Waiting(q, A)
<1> DEFINE r == Append(q, e)
<1>1. /\ Len(q) \in Nat /\ Len(r) = Len(q) + 1
      /\ r[Len(q) + 1] = e /\ \A i \in 1..Len(q) : r[i] = q[i]
  BY ONLY q \in Seq(S), e \in S, LenProperties, AppendProperties
<1> HIDE DEF r
<1>2. ASSUME NEW i \in 0..Len(q)
      PROVE  CountIn(r, A, 1, i) = CountIn(q, A, 1, i)
  <2>1. 1 \in Int /\ i \in Int /\ \A j \in 1..i : r[j] = q[j]
    BY <1>1
  <2> QED
    BY ONLY <2>1, CountSame
<1>3. CountIn(r, A, 1, Len(q) + 1)
        = CountIn(r, A, 1, Len(q)) + (IF r[Len(q) + 1] \in A THEN 1 ELSE 0)
  <2>1. 1 \in Int /\ Len(q) \in Int /\ 1 <= Len(q) + 1
    BY <1>1
  <2> QED
    BY ONLY <2>1, CountNext
<1>4. CountIn(r, A, 1, Len(q) + 1) = Waiting(q, A) + (IF e \in A THEN 1 ELSE 0)
  BY <1>1, <1>2, <1>3 DEF Waiting
<1>5. ASSUME NEW i \in 1..Len(r), r[i] \in A
      PROVE  iss[n + CountIn(r, A, 1, i)] = r[i].audio
  <2>1. CASE i \in 1..Len(q)
    BY <1>1, <1>2, <1>5, <2>1 DEF Holds
  <2>2. CASE i = Len(q) + 1
    <3>1. e \in A /\ r[i] = e
      BY <1>1, <1>5, <2>2
    <3>2. Waiting(q, A) \in Nat
      BY WaitingBounds
    <3>3. n + CountIn(r, A, 1, i) = n + Waiting(q, A) + 1
      BY <1>4, <2>2, <3>1, <3>2
    <3> QED
      BY <3>1, <3>3
  <2> QED
    BY <1>1, <2>1, <2>2
<1>6. /\ e \in A => Waiting(r, A) = Waiting(q, A) + 1
      /\ e \notin A => Waiting(r, A) = Waiting(q, A)
  <2>1. Waiting(q, A) \in Nat
    BY WaitingBounds
  <2> QED
    BY <1>1, <1>4, <2>1 DEF Waiting
<1> QED
  BY <1>5, <1>6 DEF Holds, r

\* Taking the first element: a command is the next entry, and the rest follow.
LEMMA HoldsTail ==
    ASSUME NEW S, NEW q \in Seq(S), q # <<>>, NEW A, NEW n \in Nat, NEW iss,
           Holds(q, A, iss, n)
    PROVE  /\ Head(q) \in A => /\ Holds(Tail(q), A, iss, n + 1)
                               /\ Waiting(q, A) = Waiting(Tail(q), A) + 1
                               /\ iss[n + 1] = Head(q).audio
           /\ Head(q) \notin A => /\ Holds(Tail(q), A, iss, n)
                                  /\ Waiting(q, A) = Waiting(Tail(q), A)
<1> DEFINE r == Tail(q)
           k == IF Head(q) \in A THEN 1 ELSE 0
<1>1. /\ Len(q) \in Nat \ {0} /\ r \in Seq(S) /\ Len(r) = Len(q) - 1
      /\ Head(q) = q[1] /\ \A i \in 1..Len(r) : r[i] = q[i + 1]
  <2>1. Len(q) \in Nat \ {0}
    BY EmptySeq, LenProperties
  <2>2. /\ r \in Seq(S) /\ Len(r) = Len(q) - 1
        /\ \A i \in 1..Len(r) : r[i] = q[i + 1]
    BY ONLY q \in Seq(S), q # <<>>, HeadTailProperties
  <2> QED
    BY <2>1, <2>2
<1> HIDE DEF r
<1>2. k \in Nat
  OBVIOUS
<1>3. ASSUME NEW i \in 0..Len(r)
      PROVE  CountIn(q, A, 1, i + 1) = CountIn(r, A, 1, i) + k
  <2>1. 1 \in Int /\ i \in Int /\ i + 1 \in Int /\ 1 <= i + 1
    BY <1>1
  <2>2. CountIn(q, A, 1, i + 1)
          = CountIn(q, A, 1 + 1, i + 1) + (IF q[1] \in A THEN 1 ELSE 0)
    BY ONLY <2>1, CountFirst
  <2>3. \A j \in 1..i : r[j] = q[j + 1]
    BY <1>1
  <2>4. CountIn(r, A, 1, i) = CountIn(q, A, 1 + 1, i + 1)
    BY ONLY <2>1, <2>3, CountShift
  <2> QED
    BY <1>1, <2>2, <2>4
<1>4. ASSUME NEW i \in 1..Len(r), r[i] \in A
      PROVE  iss[n + k + CountIn(r, A, 1, i)] = r[i].audio
  <2>1. i + 1 \in 1..Len(q) /\ q[i + 1] \in A /\ r[i] = q[i + 1]
    BY <1>1, <1>4
  <2>2. iss[n + CountIn(q, A, 1, i + 1)] = r[i].audio
    BY <2>1 DEF Holds
  <2>3. CountIn(r, A, 1, i) \in Nat
    BY <1>1, WaitingBounds
  <2>4. CountIn(q, A, 1, i + 1) = CountIn(r, A, 1, i) + k
    BY <1>1, <1>3
  <2>5. n + CountIn(q, A, 1, i + 1) = n + k + CountIn(r, A, 1, i)
    BY <1>2, <2>3, <2>4
  <2> QED
    BY <2>2, <2>5
<1>5. Waiting(q, A) = Waiting(r, A) + k
  <2>1. Len(r) \in 0..Len(r) /\ Len(r) + 1 = Len(q)
    BY <1>1
  <2> QED
    BY <1>3, <2>1 DEF Waiting
<1>6. ASSUME Head(q) \in A
      PROVE  iss[n + 1] = Head(q).audio
  <2>1. 0 \in 0..Len(r) /\ 1 \in 1..Len(q) /\ q[1] \in A /\ k = 1
    BY <1>1, <1>6
  <2>2. CountIn(r, A, 1, 0) = 0
    BY CountType
  <2>3. CountIn(q, A, 1, 1) = 1
    BY <1>3, <2>1, <2>2
  <2> QED
    BY <1>1, <2>1, <2>3 DEF Holds
<1>7. Holds(r, A, iss, n + k) /\ Waiting(r, A) \in Nat
  BY <1>1, <1>4, WaitingBounds DEF Holds
<1>8. CASE Head(q) \in A
  <2>1. k = 1
    BY <1>8
  <2> QED
    BY <1>5, <1>6, <1>7, <1>8, <2>1 DEF r
<1>9. CASE Head(q) \notin A
  <2>1. k = 0 /\ n + k = n
    BY <1>9
  <2>2. Waiting(r, A) + k = Waiting(r, A)
    BY <1>7, <2>1
  <2> QED
    BY <1>5, <1>7, <1>9, <2>1, <2>2 DEF r
<1> QED
  BY <1>8, <1>9

-----------------------------------------------------------------------------
(* The two queues of a session.                                            *)

CommandFrames == {f \in Frame : f.type \in Commands}
CommandsFor(s) == {m \in Message : IsForwarded(m, s)}

\* What was issued for a session is what its page obeyed, n commands, followed
\* by those in the socket w, followed by those in the subscription p.
PipeOf(w, p, B, iss, n) ==
    /\ Len(iss) = n + Waiting(w, CommandFrames) + Waiting(p, B)
    /\ Holds(w, CommandFrames, iss, n)
    /\ Holds(p, B, iss, n + Waiting(w, CommandFrames))

PipelineOf(s) == PipeOf(wire[s], pubsub[s], CommandsFor(s), issued[s], applied[s])

Pipeline == \A s \in Sessions : PipelineOf(s)

\* The numbers of a pipe.
LEMMA PipeNumbers ==
    ASSUME NEW w \in Seq(Frame), NEW p \in Seq(Message), NEW B, NEW n \in Nat
    PROVE  /\ Waiting(w, CommandFrames) \in Nat /\ Waiting(p, B) \in Nat
           /\ n + Waiting(w, CommandFrames) \in Nat
BY WaitingBounds

\* A frame that is no command goes behind those that are.
LEMMA PipeSend ==
    ASSUME NEW w \in Seq(Frame), NEW p \in Seq(Message), NEW B, NEW iss, NEW n \in Nat,
           NEW f \in Frame, f \notin CommandFrames, PipeOf(w, p, B, iss, n)
    PROVE  PipeOf(Append(w, f), p, B, iss, n)
<1>1. Holds(w, CommandFrames, iss, n)
  BY DEF PipeOf
<1>2. /\ Holds(Append(w, f), CommandFrames, iss, n)
      /\ Waiting(Append(w, f), CommandFrames) = Waiting(w, CommandFrames)
  BY <1>1, HoldsAppend
<1> QED
  BY <1>2 DEF PipeOf

\* The relay drops a message that is no command for the session.
LEMMA PipeDrop ==
    ASSUME NEW w \in Seq(Frame), NEW p \in Seq(Message), NEW B, NEW iss, NEW n \in Nat,
           p # <<>>, Head(p) \notin B, PipeOf(w, p, B, iss, n)
    PROVE  PipeOf(w, Tail(p), B, iss, n)
<1>1. PICK m \in Nat : m = n + Waiting(w, CommandFrames)
  BY PipeNumbers
<1>2. Holds(p, B, iss, m)
  BY <1>1 DEF PipeOf
<1>3. Holds(Tail(p), B, iss, m) /\ Waiting(p, B) = Waiting(Tail(p), B)
  BY <1>2, HoldsTail
<1> QED
  BY <1>1, <1>3 DEF PipeOf

\* The relay forwards a command from the one queue to the other.
LEMMA PipeForward ==
    ASSUME NEW w \in Seq(Frame), NEW p \in Seq(Message), NEW B, NEW iss, NEW n \in Nat,
           p # <<>>, Head(p) \in B, NEW f \in CommandFrames, f.audio = Head(p).audio,
           PipeOf(w, p, B, iss, n)
    PROVE  PipeOf(Append(w, f), Tail(p), B, iss, n)
<1>1. PICK m \in Nat : m = n + Waiting(w, CommandFrames)
  BY PipeNumbers
<1>2. Holds(p, B, iss, m) /\ Holds(w, CommandFrames, iss, n)
  BY <1>1 DEF PipeOf
<1>3. /\ Holds(Tail(p), B, iss, m + 1) /\ Waiting(p, B) = Waiting(Tail(p), B) + 1
      /\ iss[m + 1] = Head(p).audio
  BY <1>2, HoldsTail
<1>4. f \in Frame /\ (f \in CommandFrames => iss[n + Waiting(w, CommandFrames) + 1] = f.audio)
  BY <1>1, <1>3 DEF CommandFrames
<1>5. /\ Holds(Append(w, f), CommandFrames, iss, n)
      /\ Waiting(Append(w, f), CommandFrames) = Waiting(w, CommandFrames) + 1
  BY <1>2, <1>4, HoldsAppend
<1>6. Waiting(w, CommandFrames) \in Nat /\ Waiting(Tail(p), B) \in Nat
  <2>1. Tail(p) \in Seq(Message)
    BY HeadTailProperties
  <2> QED
    BY <2>1, PipeNumbers
<1>7. n + Waiting(Append(w, f), CommandFrames) = m + 1
  BY <1>1, <1>5, <1>6
<1>8. Len(iss) = n + Waiting(w, CommandFrames) + Waiting(p, B)
  BY DEF PipeOf
<1>9. Len(iss) = n + Waiting(Append(w, f), CommandFrames) + Waiting(Tail(p), B)
  BY <1>3, <1>5, <1>6, <1>8
<1> QED
  BY <1>3, <1>5, <1>7, <1>9 DEF PipeOf

\* The page takes a frame that is no command.
LEMMA PipeRead ==
    ASSUME NEW w \in Seq(Frame), NEW p \in Seq(Message), NEW B, NEW iss, NEW n \in Nat,
           w # <<>>, Head(w) \notin CommandFrames, PipeOf(w, p, B, iss, n)
    PROVE  PipeOf(Tail(w), p, B, iss, n)
<1>1. Holds(w, CommandFrames, iss, n)
  BY DEF PipeOf
<1>2. /\ Holds(Tail(w), CommandFrames, iss, n)
      /\ Waiting(w, CommandFrames) = Waiting(Tail(w), CommandFrames)
  BY <1>1, HoldsTail
<1> QED
  BY <1>2 DEF PipeOf

\* The page obeys the next command that was issued for it.
LEMMA PipeObey ==
    ASSUME NEW w \in Seq(Frame), NEW p \in Seq(Message), NEW B, NEW iss, NEW n \in Nat,
           w # <<>>, Head(w) \in CommandFrames, PipeOf(w, p, B, iss, n)
    PROVE  /\ n < Len(iss) /\ Head(w).audio = iss[n + 1]
           /\ PipeOf(Tail(w), p, B, iss, n + 1)
<1>1. /\ Len(iss) = n + Waiting(w, CommandFrames) + Waiting(p, B)
      /\ Holds(w, CommandFrames, iss, n)
      /\ Holds(p, B, iss, n + Waiting(w, CommandFrames))
  BY DEF PipeOf
<1>2. /\ Holds(Tail(w), CommandFrames, iss, n + 1)
      /\ Waiting(w, CommandFrames) = Waiting(Tail(w), CommandFrames) + 1
      /\ iss[n + 1] = Head(w).audio
  BY <1>1, HoldsTail
<1>3. Waiting(Tail(w), CommandFrames) \in Nat /\ Waiting(p, B) \in Nat
  <2>1. Tail(w) \in Seq(Frame)
    BY HeadTailProperties
  <2> QED
    BY <2>1, PipeNumbers
<1>4. /\ n + Waiting(w, CommandFrames) = (n + 1) + Waiting(Tail(w), CommandFrames)
      /\ n < Len(iss)
  <2>1. PICK x \in Nat : x = Waiting(Tail(w), CommandFrames)
    BY <1>3
  <2>2. PICK y \in Nat : y = Waiting(p, B)
    BY <1>3
  <2>3. Waiting(w, CommandFrames) = x + 1 /\ Len(iss) = n + (x + 1) + y
    BY <1>1, <1>2, <2>1, <2>2
  <2>4. n + (x + 1) = (n + 1) + x /\ n < n + (x + 1) + y
    OBVIOUS
  <2> QED
    BY <2>1, <2>3, <2>4
<1> QED
  BY <1>1, <1>2, <1>4 DEF PipeOf

LEMMA PipelineTypes ==
    ASSUME TypeOK, NEW s \in Sessions
    PROVE  /\ issued[s] \in Seq(Audio \cup {Silence}) /\ Len(issued[s]) \in Nat
           /\ pubsub[s] \in Seq(Message) /\ wire[s] \in Seq(Frame)
           /\ applied[s] \in Nat
           /\ Waiting(wire[s], CommandFrames) \in Nat
           /\ Waiting(pubsub[s], CommandsFor(s)) \in Nat
<1>1. /\ issued[s] \in Seq(Audio \cup {Silence})
      /\ pubsub[s] \in Seq(Message) /\ wire[s] \in Seq(Frame) /\ applied[s] \in Nat
  BY DEF TypeOK
<1> QED
  BY <1>1, LenProperties, WaitingBounds

LEMMA PipelineInit ==
    ASSUME Init
    PROVE  Pipeline
<1> SUFFICES ASSUME NEW s \in Sessions
             PROVE  PipelineOf(s)
  BY DEF Pipeline
<1>1. issued[s] = <<>> /\ wire[s] = <<>> /\ pubsub[s] = <<>> /\ applied[s] = 0
  BY DEF Init
<1>2. Len(<<>>) = 0
  OBVIOUS
<1>3. ASSUME NEW A
      PROVE  CountIn(<<>>, A, 1, 0) = 0
  <2>1. 1 \in Int /\ 0 \in Int /\ 0 < 1
    OBVIOUS
  <2> QED
    BY ONLY <2>1, CountType
<1> QED
  BY <1>1, <1>2, <1>3 DEF PipelineOf, PipeOf, Waiting, Holds

\* The steps that move neither commands nor frames of a session.
LEMMA PipelineSame ==
    ASSUME NEW s \in Sessions, PipelineOf(s),
           issued'[s] = issued[s], applied'[s] = applied[s],
           wire'[s] = wire[s], pubsub'[s] = pubsub[s]
    PROVE  PipelineOf(s)'
BY DEF PipelineOf, CommandsFor, IsForwarded

\* A publication lengthens both ends, or neither.
LEMMA PipelinePublish ==
    ASSUME TypeOK, Pipeline, NEW p \in Players, NEW event \in Commands \cup Lifecycle,
           NEW a \in Audio \cup {Silence}, Publish(event, p, a),
           UNCHANGED <<wire, applied>>
    PROVE  Pipeline'
<1> SUFFICES ASSUME NEW s \in Sessions
             PROVE  PipelineOf(s)'
  BY DEF Pipeline
<1> DEFINE m == [event |-> event, player |-> p, audio |-> a]
<1>1. PipelineOf(s)
  BY DEF Pipeline
<1>2. CASE s \notin subscribed
  BY <1>1, <1>2, PipelineSame DEF Publish
<1>3. CASE s \in subscribed
  <2>1. m \in Message /\ m.audio = a
        /\ (m \in CommandsFor(s) <=> Owner[s] = p /\ event \in Commands)
    BY DEF Message, CommandsFor, IsForwarded
  <2>2. /\ pubsub'[s] = Append(pubsub[s], m)
        /\ issued'[s] = IF m \in CommandsFor(s) THEN Append(issued[s], a) ELSE issued[s]
        /\ wire'[s] = wire[s] /\ applied'[s] = applied[s]
    BY <1>3, <2>1 DEF Publish
  <2> HIDE DEF m
  <2> DEFINE W == Waiting(wire[s], CommandFrames)
             P == Waiting(pubsub[s], CommandsFor(s))
  <2>3. W \in Nat /\ P \in Nat /\ applied[s] \in Nat /\ applied[s] + W \in Nat
    BY PipelineTypes
  <2>4. /\ Len(issued[s]) = applied[s] + W + P
        /\ Holds(wire[s], CommandFrames, issued[s], applied[s])
        /\ Holds(pubsub[s], CommandsFor(s), issued[s], applied[s] + W)
    BY <1>1 DEF PipelineOf, PipeOf
  <2>5. /\ Len(issued'[s]) = Len(issued[s]) + (IF m \in CommandsFor(s) THEN 1 ELSE 0)
        /\ \A k \in 1..Len(issued[s]) : issued'[s][k] = issued[s][k]
        /\ m \in CommandsFor(s) => issued'[s][Len(issued[s]) + 1] = a
    <3>1. issued[s] \in Seq(Audio \cup {Silence}) /\ Len(issued[s]) \in Nat
      BY PipelineTypes
    <3>2. /\ Len(Append(issued[s], a)) = Len(issued[s]) + 1
          /\ \A k \in 1..Len(issued[s]) : Append(issued[s], a)[k] = issued[s][k]
          /\ Append(issued[s], a)[Len(issued[s]) + 1] = a
      BY ONLY <3>1, a \in Audio \cup {Silence}, AppendProperties
    <3>3. CASE m \in CommandsFor(s)
      BY <2>2, <3>1, <3>2, <3>3
    <3>4. CASE m \notin CommandsFor(s)
      BY <2>2, <3>1, <3>4
    <3> QED
      BY <3>3, <3>4
  <2>6. wire[s] \in Seq(Frame) /\ pubsub[s] \in Seq(Message)
    BY PipelineTypes
  <2> HIDE DEF W, P
  <2>7. /\ \A k \in 1..(applied[s] + W) : issued'[s][k] = issued[s][k]
        /\ \A k \in 1..(applied[s] + W + P) : issued'[s][k] = issued[s][k]
    BY <2>3, <2>4, <2>5
  <2>8. Holds(wire[s], CommandFrames, issued'[s], applied[s])
    BY <2>3, <2>4, <2>6, <2>7, HoldsGrows DEF W
  <2>9. Holds(pubsub[s], CommandsFor(s), issued'[s], applied[s] + W)
    BY <2>3, <2>4, <2>6, <2>7, HoldsGrows DEF P
  <2>10. m \in CommandsFor(s) => issued'[s][applied[s] + W + P + 1] = m.audio
    BY <2>1, <2>4, <2>5
  <2>11. /\ Holds(pubsub'[s], CommandsFor(s), issued'[s], applied[s] + W)
         /\ m \in CommandsFor(s) => Waiting(pubsub'[s], CommandsFor(s)) = P + 1
         /\ m \notin CommandsFor(s) => Waiting(pubsub'[s], CommandsFor(s)) = P
    <3>1. PICK n \in Nat : n = applied[s] + W
      BY <2>3
    <3>2. PICK A : A = CommandsFor(s)
      OBVIOUS
    <3>3. PICK iss : iss = issued'[s]
      OBVIOUS
    <3>4. PICK q \in Seq(Message) : q = pubsub[s]
      BY <2>6
    <3>5. PICK e \in Message : e = m
      BY <2>1
    <3>6. /\ Holds(q, A, iss, n)
          /\ e \in A => iss[n + Waiting(q, A) + 1] = e.audio
      BY <2>9, <2>10, <3>1, <3>2, <3>3, <3>4, <3>5 DEF P
    <3>7. /\ Holds(Append(q, e), A, iss, n)
          /\ e \in A => Waiting(Append(q, e), A) = Waiting(q, A) + 1
          /\ e \notin A => Waiting(Append(q, e), A) = Waiting(q, A)
      BY ONLY <3>6, HoldsAppend
    <3> QED
      BY <2>2, <3>1, <3>2, <3>3, <3>4, <3>5, <3>7 DEF P
  <2>12. Len(issued'[s]) = applied[s] + W + Waiting(pubsub'[s], CommandsFor(s))
    <3>1. \A i, j, k, l \in Nat : i = j + k + l => i + 1 = j + k + (l + 1)
      OBVIOUS
    <3>2. Len(issued[s]) \in Nat
      BY <2>3, <2>4
    <3>3. CASE m \in CommandsFor(s)
      <4>1. /\ Len(issued'[s]) = Len(issued[s]) + 1
            /\ Waiting(pubsub'[s], CommandsFor(s)) = P + 1
        BY <2>5, <2>11, <3>3
      <4> QED
        BY <2>3, <2>4, <3>1, <3>2, <4>1
    <3>4. CASE m \notin CommandsFor(s)
      BY <2>3, <2>4, <2>5, <2>11, <3>4
    <3> QED
      BY <3>3, <3>4
  <2>13. CommandsFor(s)' = CommandsFor(s)
    BY DEF CommandsFor, IsForwarded
  <2> QED
    BY <2>2, <2>8, <2>11, <2>12, <2>13 DEF PipelineOf, PipeOf, W
<1> QED
  BY <1>2, <1>3

\* Relay and page move commands along the pipeline, and nothing else touches it.
LEMMA PipelineStep ==
    ASSUME DeliveryInv, Pipeline, [Next]_vars
    PROVE  Pipeline'
<1>1. TypeOK
  BY DEF DeliveryInv
<1>2. ASSUME NEW s \in Sessions,
             \A t \in Sessions \ {s} : /\ issued'[t] = issued[t] /\ applied'[t] = applied[t]
                                       /\ wire'[t] = wire[t] /\ pubsub'[t] = pubsub[t],
             PipelineOf(s)'
      PROVE  Pipeline'
  BY <1>2, PipelineSame DEF Pipeline
<1>3. ASSUME UNCHANGED <<issued, applied, wire, pubsub>>
      PROVE  Pipeline'
  BY <1>3, PipelineSame DEF Pipeline
<1>4. ASSUME NEW p \in Players, NEW event \in Commands \cup Lifecycle,
             NEW a \in Audio \cup {Silence}, Publish(event, p, a) \/ PublishNothing,
             UNCHANGED <<wire, applied>>
      PROVE  Pipeline'
  BY <1>1, <1>3, <1>4, PipelinePublish DEF PublishNothing
<1>5. ASSUME NEW s \in Sessions
      PROVE  /\ wire[s] \in Seq(Frame) /\ pubsub[s] \in Seq(Message) /\ applied[s] \in Nat
             /\ PipeOf(wire[s], pubsub[s], CommandsFor(s), issued[s], applied[s])
             /\ CommandsFor(s)' = CommandsFor(s)
  BY <1>1, PipelineTypes DEF Pipeline, PipelineOf, CommandsFor, IsForwarded
<1>6. ASSUME NEW s \in Sessions, SendAuth(s)
      PROVE  Pipeline'
  <2> DEFINE f == [type |-> "auth_success", audio |-> Silence]
  <2>1. f \in Frame /\ f \notin CommandFrames
    BY DEF Frame, CommandFrames, Commands
  <2>2. /\ wire' = [wire EXCEPT ![s] = Append(wire[s], f)]
        /\ UNCHANGED <<issued, applied, pubsub>>
    BY <1>6 DEF SendAuth
  <2> HIDE DEF f
  <2>3. PipeOf(Append(wire[s], f), pubsub[s], CommandsFor(s), issued[s], applied[s])
    BY <1>5, <2>1, PipeSend
  <2>4. PipelineOf(s)'
    BY <1>1, <1>5, <2>2, <2>3 DEF PipelineOf, TypeOK
  <2> QED
    BY <1>1, <1>2, <2>2, <2>4 DEF TypeOK
<1>7. ASSUME NEW s \in Sessions, Take(s)
      PROVE  /\ pubsub[s] # <<>> /\ Head(pubsub[s]) \in Message
             /\ pubsub' = [pubsub EXCEPT ![s] = Tail(pubsub[s])]
  BY <1>5, <1>7, HeadTailProperties DEF Take
<1>8. ASSUME NEW s \in Sessions, Drop(s) \/ CloseOnLeave(s)
      PROVE  Pipeline'
  <2>1. Take(s) /\ Head(pubsub[s]) \notin CommandsFor(s) /\ UNCHANGED <<issued, applied, wire>>
    BY <1>8 DEF Drop, CloseOnLeave, ClosesSession, CommandsFor, IsForwarded, Commands
  <2>2. PipeOf(wire[s], Tail(pubsub[s]), CommandsFor(s), issued[s], applied[s])
    BY <1>5, <1>7, <2>1, PipeDrop
  <2>3. PipelineOf(s)'
    BY <1>1, <1>5, <1>7, <2>1, <2>2 DEF PipelineOf, TypeOK
  <2> QED
    BY <1>1, <1>2, <1>7, <2>1, <2>3 DEF TypeOK
<1>9. ASSUME NEW s \in Sessions, Forward(s)
      PROVE  Pipeline'
  <2> DEFINE f == [type |-> Head(pubsub[s]).event, audio |-> Head(pubsub[s]).audio]
  <2>1. Take(s) /\ Head(pubsub[s]) \in CommandsFor(s)
    BY <1>7, <1>9 DEF Forward, CommandsFor
  <2>2. f \in CommandFrames /\ f.audio = Head(pubsub[s]).audio
    BY <2>1 DEF CommandsFor, IsForwarded, Message, CommandFrames, Frame
  <2>3. /\ wire' = [wire EXCEPT ![s] = Append(wire[s], f)]
        /\ UNCHANGED <<issued, applied>>
    BY <1>9 DEF Forward
  <2> HIDE DEF f
  <2>4. PipeOf(Append(wire[s], f), Tail(pubsub[s]), CommandsFor(s), issued[s], applied[s])
    BY <1>5, <1>7, <2>1, <2>2, PipeForward
  <2>5. PipelineOf(s)'
    BY <1>1, <1>5, <1>7, <2>1, <2>3, <2>4 DEF PipelineOf, TypeOK
  <2> QED
    BY <1>1, <1>2, <1>7, <2>1, <2>3, <2>5 DEF TypeOK
<1>10. ASSUME NEW s \in Sessions, TakeFrame(s)
       PROVE  /\ wire[s] # <<>> /\ Head(wire[s]) \in Frame
              /\ wire' = [wire EXCEPT ![s] = Tail(wire[s])] /\ UNCHANGED <<issued, pubsub>>
  BY <1>5, <1>10, HeadTailProperties DEF TakeFrame
<1>11. ASSUME NEW s \in Sessions, OnAuthSuccess(s)
       PROVE  Pipeline'
  <2>1. TakeFrame(s) /\ Head(wire[s]) \notin CommandFrames /\ UNCHANGED applied
    BY <1>11 DEF OnAuthSuccess, CommandFrames, Commands
  <2>2. PipeOf(Tail(wire[s]), pubsub[s], CommandsFor(s), issued[s], applied[s])
    BY <1>5, <1>10, <2>1, PipeRead
  <2>3. PipelineOf(s)'
    BY <1>1, <1>5, <1>10, <2>1, <2>2 DEF PipelineOf, TypeOK
  <2> QED
    BY <1>1, <1>2, <1>10, <2>1, <2>3 DEF TypeOK
<1>12. ASSUME NEW s \in Sessions, OnCommand(s)
       PROVE  Pipeline'
  <2>1. /\ TakeFrame(s) /\ Head(wire[s]) \in CommandFrames
        /\ applied' = [applied EXCEPT ![s] = applied[s] + 1]
    BY <1>10, <1>12 DEF OnCommand, CommandFrames
  <2>2. PipeOf(Tail(wire[s]), pubsub[s], CommandsFor(s), issued[s], applied[s] + 1)
    BY <1>5, <1>10, <2>1, PipeObey
  <2>3. PipelineOf(s)'
    BY <1>1, <1>5, <1>10, <2>1, <2>2 DEF PipelineOf, TypeOK
  <2> QED
    BY <1>1, <1>2, <1>10, <2>1, <2>3 DEF TypeOK
<1>13. ASSUME NEW p \in Players,
              \/ \E a \in Audio \cup {Silence} :
                   \/ Login(p, a) \/ SwitchServer(p, a) \/ OnSetValue(p, a) \/ CommandLost(p, a)
              \/ OnAbsentValue(p) \/ Disconnect(p)
              \/ \E event \in Lifecycle : PublishLifecycle(p, event) \/ LifecycleLost(p, event)
       PROVE  Pipeline'
  <2>1. UNCHANGED <<wire, applied>>
    BY <1>13 DEF Login, SwitchServer, OnSetValue, CommandLost, OnAbsentValue, Disconnect,
                 PublishLifecycle, LifecycleLost, Arrive
  <2>2. \E event \in Commands \cup Lifecycle, a \in Audio \cup {Silence} :
            Publish(event, p, a) \/ PublishNothing
    BY <1>13 DEF Login, SwitchServer, OnSetValue, CommandLost, OnAbsentValue, Disconnect,
                 PublishLifecycle, LifecycleLost, OnInitialValue, Commands
  <2> QED
    BY <1>4, <2>1, <2>2
<1>14. ASSUME NEW s \in Sessions,
              \/ IssueLink(s) \/ Accept(s) \/ Reject(s) \/ OnMount(s) \/ LinkFails(s)
              \/ Subscribe(s) \/ StreamEnds(s) \/ SubscribeFails(s) \/ PubSubDrops(s)
              \/ TaskNotices(s) \/ ResumeSettles(s) \/ OnClose(s) \/ ClipEnds(s)
              \/ LoadFails(s) \/ OnLinkLost(s) \/ OnDestroy(s)
              \/ \E suspended \in BOOLEAN : EnableAudio(s, suspended)
       PROVE  Pipeline'
  BY <1>3, <1>14 DEF IssueLink, Accept, Reject, OnMount, LinkFails, Subscribe, StreamEnds,
     SubscribeFails, PubSubDrops, TaskNotices, ResumeSettles, OnClose, ClipEnds, LoadFails,
     OnLinkLost, OnDestroy, EnableAudio, ClipStops, HandleClose
<1>15. CASE UNCHANGED vars
  BY <1>3, <1>15 DEF vars
<1>16. \A p \in Players : Regions[p] \subseteq Audio
  BY RegionsAssumption
<1>17. CASE Progress
  BY <1>6, <1>8, <1>9, <1>11, <1>12, <1>13, <1>14, <1>16, <1>17
  DEF Progress, TaskStep, PageStep
<1>18. CASE Faults
  BY <1>13, <1>14, <1>16, <1>18 DEF Faults
<1> QED
  BY <1>15, <1>17, <1>18 DEF Next

-----------------------------------------------------------------------------
(* The refinement, step by step.                                           *)

Over(s) == link[s] \in {"closing", "closed", "lost"}
WantMap == [s \in Sessions |-> client[s].desired]
OverMap == [s \in Sessions |-> link[s] \in {"closing", "closed", "lost"}]

StreamStep == Stream!Next \/ UNCHANGED <<issued, applied, WantMap, OverMap>>

\* A step that leaves alone what every page wants and whether it is over.
LEMMA StreamStutters ==
    ASSUME UNCHANGED <<issued, applied>>,
           \A s \in Sessions : client'[s].desired = client[s].desired /\ Over(s)' = Over(s)
    PROVE  StreamStep
BY DEF StreamStep, WantMap, OverMap, Over

\* A publication issues the command for all sessions of the player that listen.
LEMMA StreamIssues ==
    ASSUME NEW p \in Players, NEW event \in Commands \cup Lifecycle,
           NEW a \in Audio \cup {Silence}, TypeOK, Publish(event, p, a) \/ PublishNothing,
           UNCHANGED <<link, client, applied>>
    PROVE  StreamStep
<1>1. UNCHANGED <<WantMap, OverMap>>
  BY DEF WantMap, OverMap
<1>2. CASE PublishNothing
  BY <1>1, <1>2 DEF PublishNothing, StreamStep
<1>3. CASE Publish(event, p, a) /\ event \in Commands
  <2> DEFINE S == {s \in subscribed : Owner[s] = p}
  <2>1. S \in SUBSET Sessions
    BY DEF TypeOK
  <2>2. issued' = [s \in Sessions |-> IF s \in S THEN Append(issued[s], a) ELSE issued[s]]
    BY <1>3 DEF Publish
  <2> HIDE DEF S
  <2>3. Stream!Issue(S, a)
    BY <1>1, <2>2 DEF Stream!Issue, WantMap, OverMap
  <2> QED
    BY <2>1, <2>3 DEF Stream!Next, StreamStep
<1>4. CASE Publish(event, p, a) /\ event \notin Commands
  <2>1. issued' = issued
    BY <1>4 DEF Publish, TypeOK
  <2> QED
    BY <1>1, <2>1 DEF StreamStep
<1> QED
  BY <1>2, <1>3, <1>4

\* The end of a session, however often it is told, silences the page or not.
LEMMA StreamEnded ==
    ASSUME UNCHANGED <<issued, applied>>, NEW s \in Sessions, Over(s)',
           client'[s].desired \in {client[s].desired, Silence},
           \A t \in Sessions \ {s} : /\ client'[t].desired = client[t].desired
                                     /\ Over(t)' = Over(t)
    PROVE  StreamStep
<1>1. WantMap' = [WantMap EXCEPT ![s] = client'[s].desired]
  BY DEF WantMap
<1>2. OverMap' = [OverMap EXCEPT ![s] = TRUE]
  BY DEF OverMap, Over
<1>3. WantMap[s] = client[s].desired /\ OverMap[s] = Over(s)
  BY DEF WantMap, OverMap, Over
<1>4. WantMap' \in {WantMap, [WantMap EXCEPT ![s] = Silence]}
  <2>1. CASE client'[s].desired = Silence
    BY <1>1, <2>1
  <2>2. CASE client'[s].desired = client[s].desired
    BY <2>2 DEF WantMap
  <2> QED
    BY <2>1, <2>2
<1>5. CASE ~Over(s)
  <2>1. Stream!End(s)
    BY <1>2, <1>3, <1>4, <1>5 DEF Stream!End, WantMap, OverMap
  <2> QED
    BY <2>1 DEF Stream!Next, StreamStep
<1>6. CASE Over(s)
  <2>1. OverMap' = OverMap
    BY <1>2, <1>6 DEF OverMap, Over
  <2>2. CASE WantMap' = WantMap
    BY <2>1, <2>2 DEF StreamStep
  <2>3. CASE WantMap' = [WantMap EXCEPT ![s] = Silence]
    <3>1. Stream!FallSilent(s)
      BY <1>3, <1>6, <2>1, <2>3 DEF Stream!FallSilent, WantMap, OverMap
    <3> QED
      BY <3>1 DEF Stream!Next, StreamStep
  <2> QED
    BY <1>4, <2>2, <2>3
<1> QED
  BY <1>5, <1>6

\* The page obeys the next command of the stream.
LEMMA StreamApplies ==
    ASSUME DeliveryInv, Pipeline, NEW s \in Sessions, OnCommand(s)
    PROVE  StreamStep
<1>1. /\ wire[s] \in Seq(Frame) /\ pubsub[s] \in Seq(Message) /\ applied[s] \in Nat
      /\ PipeOf(wire[s], pubsub[s], CommandsFor(s), issued[s], applied[s])
      /\ client[s] \in Client /\ client \in [Sessions -> Client]
  BY PipelineTypes DEF Pipeline, PipelineOf, DeliveryInv, TypeOK
<1>2. /\ link[s] = "open" /\ wire[s] # <<>> /\ Head(wire[s]) \in CommandFrames
      /\ applied' = [applied EXCEPT ![s] = applied[s] + 1]
      /\ UNCHANGED <<link, issued>>
  BY <1>1, HeadTailProperties DEF OnCommand, TakeFrame, CommandFrames
<1>3. applied[s] < Len(issued[s]) /\ Head(wire[s]).audio = issued[s][applied[s] + 1]
  BY <1>1, <1>2, PipeObey
<1> DEFINE d == [client[s] EXCEPT !.desired = Head(wire[s]).audio]
<1>4. d \in Client /\ d.desired = issued[s][applied[s] + 1]
  BY <1>1, <1>2, <1>3 DEF Client, CommandFrames, Frame
<1>5. client' = [client EXCEPT ![s] = Reconcile(d)]
  BY DEF OnCommand, SetClient
<1> HIDE DEF d
<1>6. client'[s].desired = issued[s][applied[s] + 1]
  BY <1>1, <1>4, <1>5, ReconcileProperties
<1>7. WantMap' = [WantMap EXCEPT ![s] = issued[s][applied[s] + 1]]
  BY <1>1, <1>5, <1>6 DEF WantMap
<1>8. OverMap' = OverMap /\ ~OverMap[s]
  BY <1>2 DEF OverMap
<1>9. Stream!Apply(s)
  BY <1>2, <1>3, <1>7, <1>8 DEF Stream!Apply, WantMap, OverMap
<1> QED
  BY <1>9 DEF Stream!Next, StreamStep

LEMMA NextStream ==
    ASSUME DeliveryInv, Pipeline, [Next]_vars
    PROVE  StreamStep
<1>1. TypeOK /\ client \in [Sessions -> Client] /\ link \in [Sessions -> LinkStates]
  BY DEF DeliveryInv, TypeOK
<1>2. ASSUME UNCHANGED <<issued, applied, link, client>>
      PROVE  StreamStep
  BY <1>2, StreamStutters DEF Over
<1>3. ASSUME NEW p \in Players,
             \/ \E a \in Audio \cup {Silence} :
                  \/ Login(p, a) \/ SwitchServer(p, a) \/ OnSetValue(p, a) \/ CommandLost(p, a)
             \/ OnAbsentValue(p) \/ Disconnect(p)
             \/ \E event \in Lifecycle : PublishLifecycle(p, event) \/ LifecycleLost(p, event)
      PROVE  StreamStep
  <2>1. UNCHANGED <<link, client, applied>>
    BY <1>3 DEF Login, SwitchServer, OnSetValue, CommandLost, OnAbsentValue, Disconnect,
                PublishLifecycle, LifecycleLost, Arrive
  <2>2. \E event \in Commands \cup Lifecycle, a \in Audio \cup {Silence} :
            Publish(event, p, a) \/ PublishNothing
    BY <1>3 DEF Login, SwitchServer, OnSetValue, CommandLost, OnAbsentValue, Disconnect,
                PublishLifecycle, LifecycleLost, OnInitialValue, Commands
  <2> QED
    BY <1>1, <2>1, <2>2, StreamIssues
<1>4. ASSUME NEW s \in Sessions, IssueLink(s) \/ Accept(s) \/ OnMount(s)
      PROVE  StreamStep
  <2>1. UNCHANGED <<issued, applied, client>> /\ \A t \in Sessions : Over(t)' = Over(t)
    BY <1>1, <1>4 DEF IssueLink, Accept, OnMount, Over
  <2> QED
    BY <2>1, StreamStutters
<1>5. ASSUME NEW s \in Sessions, Reject(s) \/ LinkFails(s)
      PROVE  StreamStep
  <2>1. /\ UNCHANGED <<issued, applied, client>> /\ Over(s)'
        /\ \A t \in Sessions \ {s} : Over(t)' = Over(t)
    BY <1>1, <1>5 DEF Reject, LinkFails, Over
  <2> QED
    BY <2>1, StreamEnded
<1>6. ASSUME NEW s \in Sessions,
             TaskStep(s) \/ SubscribeFails(s) \/ PubSubDrops(s) \/ TaskNotices(s)
      PROVE  StreamStep
  BY <1>2, <1>6 DEF TaskStep, SendAuth, Subscribe, SubscribeFails, Forward, CloseOnLeave,
     Drop, PubSubDrops, StreamEnds, TaskNotices
<1>7. ASSUME NEW s \in Sessions, NEW c \in Client, SetClient(s, c),
             c.desired = client[s].desired, UNCHANGED <<issued, applied, link>>
      PROVE  StreamStep
  <2>1. \A t \in Sessions : client'[t].desired = client[t].desired
    BY <1>1, <1>7 DEF SetClient
  <2> QED
    BY <1>7, <2>1, StreamStutters DEF Over
<1>8. ASSUME NEW s \in Sessions, OnAuthSuccess(s)
      PROVE  StreamStep
  <2>1. [client[s] EXCEPT !.authenticated = TRUE] \in Client
    BY <1>1 DEF Client
  <2> QED
    BY <1>1, <1>7, <1>8, <2>1 DEF OnAuthSuccess, TakeFrame, Client
<1>9. ASSUME NEW s \in Sessions, NEW suspended \in BOOLEAN, EnableAudio(s, suspended)
      PROVE  StreamStep
  <2> DEFINE c == [client[s] EXCEPT !.enabled = TRUE, !.resuming = suspended]
  <2>1. c \in Client /\ c.desired = client[s].desired
    BY <1>1 DEF Client
  <2>2. SetClient(s, IF suspended THEN c ELSE Reconcile(c))
          /\ UNCHANGED <<issued, applied, link>>
    BY <1>9 DEF EnableAudio
  <2> HIDE DEF c
  <2>3. Reconcile(c) \in Client /\ Reconcile(c).desired = client[s].desired
    BY <2>1, ReconcileProperties
  <2> QED
    BY <1>7, <2>1, <2>2, <2>3
<1>10. ASSUME NEW s \in Sessions, ResumeSettles(s)
       PROVE  StreamStep
  <2> DEFINE c == [client[s] EXCEPT !.resuming = FALSE]
  <2>1. c \in Client /\ c.desired = client[s].desired
    BY <1>1 DEF Client
  <2>2. SetClient(s, Reconcile(c)) /\ UNCHANGED <<issued, applied, link>>
    BY <1>10 DEF ResumeSettles
  <2> HIDE DEF c
  <2>3. Reconcile(c) \in Client /\ Reconcile(c).desired = client[s].desired
    BY <2>1, ReconcileProperties
  <2> QED
    BY <1>7, <2>2, <2>3
<1>11. ASSUME NEW s \in Sessions, NEW state \in {"ended", "failed"}, ClipStops(s, state)
       PROVE  StreamStep
  <2>1. /\ client' = [client EXCEPT ![s] = [client[s] EXCEPT !.howl.state = state]]
        /\ UNCHANGED <<issued, applied, link>>
    BY <1>11 DEF ClipStops, SetClient
  <2>2. \A t \in Sessions : client'[t].desired = client[t].desired
    BY <1>1, <2>1 DEF Client
  <2> QED
    BY <2>1, <2>2, StreamStutters DEF Over
<1>12. ASSUME NEW s \in Sessions, HandleClose(s)
       PROVE  StreamStep
  <2> DEFINE d == [client[s] EXCEPT !.desired = Silence]
  <2>1. d \in Client /\ d.desired = Silence
    BY <1>1 DEF Client
  <2>2. /\ client' = [client EXCEPT ![s] = IF client[s].authenticated THEN Reconcile(d)
                                           ELSE client[s]]
        /\ link' = [link EXCEPT ![s] = "closed"] /\ UNCHANGED <<issued, applied>>
    BY <1>12 DEF HandleClose, SetClient
  <2> HIDE DEF d
  <2>3. Reconcile(d).desired = Silence
    BY <2>1, ReconcileProperties
  <2>4. client'[s].desired \in {client[s].desired, Silence} /\ Over(s)'
    BY <1>1, <2>2, <2>3 DEF Over
  <2>5. \A t \in Sessions \ {s} : client'[t].desired = client[t].desired /\ Over(t)' = Over(t)
    BY <1>1, <2>2 DEF Over
  <2> QED
    BY <2>2, <2>4, <2>5, StreamEnded
<1>13. ASSUME NEW s \in Sessions, OnDestroy(s)
       PROVE  StreamStep
  <2> DEFINE d == [client[s] EXCEPT !.destroyed = TRUE]
  <2>1. d.desired = client[s].desired /\ [d EXCEPT !.howl.state = "unloaded"].desired = d.desired
    BY <1>1 DEF Client
  <2>2. /\ client' = [client EXCEPT ![s] =
                        IF d.howl = NoHowl THEN d ELSE [d EXCEPT !.howl.state = "unloaded"]]
        /\ link' = [link EXCEPT ![s] = IF @ \in {"opening", "open"} THEN "closing" ELSE @]
        /\ link[s] \in {"opening", "open", "closing", "closed", "lost"}
        /\ UNCHANGED <<issued, applied>>
    BY <1>13 DEF OnDestroy, SetClient
  <2> HIDE DEF d
  <2>3. client'[s].desired = client[s].desired /\ Over(s)'
    BY <1>1, <2>1, <2>2 DEF Over
  <2>4. \A t \in Sessions \ {s} : client'[t].desired = client[t].desired /\ Over(t)' = Over(t)
    BY <1>1, <2>2 DEF Over
  <2> QED
    BY <2>2, <2>3, <2>4, StreamEnded
<1>14. CASE UNCHANGED vars
  BY <1>2, <1>14 DEF vars
<1>15. \A p \in Players : Regions[p] \subseteq Audio
  BY RegionsAssumption
<1>16. CASE Progress
  BY <1>3, <1>4, <1>6, <1>8, <1>9, <1>10, <1>11, <1>12, <1>13, <1>15, <1>16, StreamApplies
  DEF Progress, PageStep, OnClose, ClipEnds
<1>17. CASE Faults
  BY <1>3, <1>5, <1>6, <1>11, <1>12, <1>15, <1>17 DEF Faults, OnLinkLost, LoadFails
<1> QED
  BY <1>14, <1>16, <1>17 DEF Next

\* Whatever was issued for a session and not yet obeyed is in the subscription
\* and the socket, in order and once: for every interleaving and every fault.
THEOREM PipelineInvariant == Spec => [](DeliveryInv /\ Pipeline)
<1>1. Init => DeliveryInv /\ Pipeline
  BY InitDelivery, PipelineInit
<1>2. DeliveryInv /\ Pipeline /\ [Next]_vars => DeliveryInv' /\ Pipeline'
  BY NextDelivery, PipelineStep
<1> QED
  BY <1>1, <1>2, PTL DEF Spec

\* The way from publish to reconcile is a command stream: each page obeys the
\* commands of its own player, from SUBSCRIBE on, in order and once each.
THEOREM DeliveryImplementsStream == Spec => StreamImplemented
<1>1. Init => Stream!Init
  <2> SUFFICES ASSUME Init
               PROVE  Stream!Init
    OBVIOUS
  <2>1. \A s \in Sessions : client[s].desired = Silence
    BY DEF Init
  <2>2. \A s \in Sessions : (link[s] \in {"closing", "closed", "lost"}) = FALSE
    BY DEF Init
  <2>3. [s \in Sessions |-> client[s].desired] = [s \in Sessions |-> Silence]
    BY <2>1
  <2>4. [s \in Sessions |-> link[s] \in {"closing", "closed", "lost"}]
          = [s \in Sessions |-> FALSE]
    BY <2>2, Zenon
  <2> QED
    BY <2>3, <2>4 DEF Init, Stream!Init
<1>2. DeliveryInv /\ Pipeline /\ [Next]_vars =>
        [Stream!Next]_<<issued, applied, [s \in Sessions |-> client[s].desired],
                        [s \in Sessions |-> link[s] \in {"closing", "closed", "lost"}]>>
  BY NextStream DEF StreamStep, WantMap, OverMap
<1> QED
  BY <1>1, <1>2, PipelineInvariant, PTL DEF Spec, StreamImplemented, Stream!Spec, Stream!vars

-----------------------------------------------------------------------------
(* What the stream promises the page.                                      *)

\* In the abstract specification: a command counted as obeyed is one that was
\* issued, and issuing another leaves it where it is.
StreamInv ==
    /\ Stream!LastObeyed
    /\ issued \in [Sessions -> Seq(Audio \cup {Silence})]
    /\ applied \in [Sessions -> Nat]

LEMMA ObeyedStays ==
    ASSUME NEW q \in Seq(Audio \cup {Silence}), NEW a \in Audio \cup {Silence},
           NEW n \in 0..Len(q)
    PROVE  /\ Append(q, a) \in Seq(Audio \cup {Silence})
           /\ n \in 0..Len(Append(q, a))
           /\ n # 0 => Append(q, a)[n] = q[n]
<1>1. Len(q) \in Nat /\ Len(Append(q, a)) = Len(q) + 1
        /\ \A i \in 1..Len(q) : Append(q, a)[i] = q[i]
  BY LenProperties, AppendProperties
<1>2. n # 0 => n \in 1..Len(q)
  BY <1>1
<1> QED
  BY <1>1, <1>2, AppendProperties

LEMMA StreamInvStep ==
    ASSUME StreamInv, StreamStep
    PROVE  StreamInv'
<1>1. /\ issued \in [Sessions -> Seq(Audio \cup {Silence})]
      /\ applied \in [Sessions -> Nat]
      /\ \A s \in Sessions :
           /\ applied[s] \in 0..Len(issued[s])
           /\ ~OverMap[s] => WantMap[s] = IF applied[s] = 0 THEN Silence
                                          ELSE issued[s][applied[s]]
  BY DEF StreamInv, Stream!LastObeyed, WantMap, OverMap
<1>2. ASSUME issued' \in [Sessions -> Seq(Audio \cup {Silence})],
             applied' \in [Sessions -> Nat],
             \A s \in Sessions :
               /\ applied'[s] \in 0..Len(issued'[s])
               /\ ~OverMap'[s] => WantMap'[s] = IF applied'[s] = 0 THEN Silence
                                                ELSE issued'[s][applied'[s]]
      PROVE  StreamInv'
  BY <1>2 DEF StreamInv, Stream!LastObeyed, WantMap, OverMap
<1>3. ASSUME NEW S \in SUBSET Sessions, NEW a \in Audio \cup {Silence}, Stream!Issue(S, a)
      PROVE  StreamInv'
  <2>1. /\ issued' = [s \in Sessions |-> IF s \in S THEN Append(issued[s], a) ELSE issued[s]]
        /\ UNCHANGED <<applied, WantMap, OverMap>>
    BY <1>3 DEF Stream!Issue, WantMap, OverMap
  <2>2. ASSUME NEW s \in Sessions
        PROVE  /\ issued'[s] \in Seq(Audio \cup {Silence})
               /\ applied[s] \in 0..Len(issued'[s])
               /\ applied[s] # 0 => issued'[s][applied[s]] = issued[s][applied[s]]
    <3>1. issued[s] \in Seq(Audio \cup {Silence}) /\ applied[s] \in 0..Len(issued[s])
      BY <1>1
    <3> QED
      BY <2>1, <3>1, ObeyedStays
  <2> QED
    BY <1>1, <1>2, <2>1, <2>2
<1>4. ASSUME NEW s \in Sessions, Stream!Apply(s)
      PROVE  StreamInv'
  <2>1. /\ applied[s] < Len(issued[s]) /\ issued' = issued /\ OverMap' = OverMap
        /\ applied' = [applied EXCEPT ![s] = applied[s] + 1]
        /\ WantMap' = [WantMap EXCEPT ![s] = issued[s][applied[s] + 1]]
    BY <1>4 DEF Stream!Apply, WantMap, OverMap
  <2>2. /\ Len(issued[s]) \in Nat
        /\ applied[s] \in Nat /\ applied[s] + 1 \in 0..Len(issued[s]) /\ applied[s] + 1 # 0
    BY <1>1, <2>1, LenProperties
  <2>3. DOMAIN WantMap = Sessions
    BY DEF WantMap
  <2>4. /\ applied' \in [Sessions -> Nat] /\ applied'[s] = applied[s] + 1
        /\ WantMap'[s] = issued[s][applied[s] + 1]
    BY <1>1, <2>1, <2>2, <2>3
  <2>5. \A t \in Sessions \ {s} : applied'[t] = applied[t] /\ WantMap'[t] = WantMap[t]
    BY <1>1, <2>1, <2>3
  <2>6. \A t \in Sessions :
          /\ applied'[t] \in 0..Len(issued'[t])
          /\ ~OverMap'[t] => WantMap'[t] = IF applied'[t] = 0 THEN Silence
                                           ELSE issued'[t][applied'[t]]
    BY <1>1, <2>1, <2>2, <2>4, <2>5
  <2> QED
    BY <1>1, <1>2, <2>1, <2>4, <2>6
<1>5. ASSUME NEW s \in Sessions, Stream!End(s) \/ Stream!FallSilent(s)
      PROVE  StreamInv'
  <2>1. DOMAIN OverMap = Sessions /\ DOMAIN WantMap = Sessions
    BY DEF OverMap, WantMap
  <2>2. UNCHANGED <<issued, applied>>
    BY <1>5 DEF Stream!End, Stream!FallSilent
  <2>3. OverMap'[s] /\ \A t \in Sessions \ {s} : OverMap'[t] = OverMap[t]
                                                 /\ WantMap'[t] = WantMap[t]
    BY <1>5, <2>1 DEF Stream!End, Stream!FallSilent, WantMap, OverMap
  <2> QED
    BY <1>1, <1>2, <2>2, <2>3
<1>6. CASE UNCHANGED <<issued, applied, WantMap, OverMap>>
  BY <1>1, <1>2, <1>6
<1> QED
  BY <1>3, <1>4, <1>5, <1>6 DEF StreamStep, Stream!Next

\* Until its session ends, a page wants what the last command it obeyed asks for:
\* reconcile, the buttons, a failing load and the element's ceilings change what
\* it plays, never what it wants.
THEOREM PageWantsLast == Spec => []Stream!LastObeyed
<1>1. Init => StreamInv
  <2> SUFFICES ASSUME Init
               PROVE  StreamInv
    OBVIOUS
  <2>1. \A s \in Sessions : /\ applied[s] = 0 /\ issued[s] = <<>>
                            /\ client[s].desired = Silence
    BY DEF Init
  <2>2. issued \in [Sessions -> Seq(Audio \cup {Silence})] /\ applied \in [Sessions -> Nat]
    BY DEF Init
  <2> QED
    BY <2>1, <2>2 DEF StreamInv, Stream!LastObeyed
<1>2. DeliveryInv /\ Pipeline /\ [Next]_vars /\ StreamInv => StreamInv'
  BY NextStream, StreamInvStep
<1>3. StreamInv => Stream!LastObeyed
  BY DEF StreamInv
<1> QED
  BY <1>1, <1>2, <1>3, PipelineInvariant, PTL DEF Spec
=============================================================================
