----------------------- MODULE SessionRegistry_proofs -----------------------
(***************************************************************************)
(* What TLAPS proves about SessionRegistry, for any players and servers    *)
(* and any bound on the number of proxy events and on time.                *)
(***************************************************************************)
EXTENDS SessionRegistry, SequenceTheorems, TLAPS

\* The submission of a task that was alone came after the end of the others.
AloneInv ==
    \A i, j \in 1..Len(tasks) :
        (j < i /\ tasks[j].player = tasks[i].player /\ tasks[i].alone) => HasEnded(j)

\* The write of a latest task that was alone is what the registry holds.
LatestInv ==
    \A i \in 1..Len(tasks) :
        (IsLast(i, TasksOf(tasks[i].player)) /\ tasks[i].alone /\ HasStored(i))
            => Matches(sessions[tasks[i].player], tasks[i])

\* The latest task describes where the player is, unless the proxy crashed.
ProxyInv ==
    \A i \in 1..Len(tasks) :
        (IsLast(i, TasksOf(tasks[i].player)) /\ tasks[i].player \notin unseen)
            => proxy[tasks[i].player] =
                 IF tasks[i].kind = "leave" THEN Offline ELSE tasks[i].server

RegistryInv == TypeOK /\ AloneInv /\ LatestInv /\ ProxyInv

-----------------------------------------------------------------------------
\* What a handler's submission does to the sequence of tasks.
LEMMA SubmitProperties ==
    ASSUME TypeOK, NEW p \in Players, NEW kind \in {"join", "leave"},
           NEW s \in Servers \cup {NoServer}, NEW first \in BOOLEAN,
           Submit(p, kind, s, first)
    PROVE  /\ tasks' \in Seq(Task) /\ Len(tasks') = Len(tasks) + 1
           /\ Len(tasks) \in Nat /\ Len(tasks') <= MaxTasks
           /\ \A i \in 1..Len(tasks) : tasks'[i] = tasks[i]
           /\ tasks'[Len(tasks) + 1] =
                [player |-> p, kind |-> kind, server |-> s, first |-> first,
                 step |-> "store", alone |-> IsQuiet(p), at |-> 0]
<1> DEFINE t == [player |-> p, kind |-> kind, server |-> s, first |-> first,
                 step |-> "store", alone |-> IsQuiet(p), at |-> 0]
<1>1. IsQuiet(p) \in BOOLEAN
  BY DEF IsQuiet
<1>2. 0 \in 0..MaxTime
  BY BoundsAssumption
<1>3. t \in Task
  BY <1>1, <1>2 DEF Task
<1>4. tasks \in Seq(Task) /\ tasks' = Append(tasks, t) /\ Len(tasks) < MaxTasks
  BY DEF Submit, TypeOK
<1> HIDE DEF t
<1>5. Len(tasks) \in Nat
  BY <1>4, LenProperties
<1>6. Len(tasks) + 1 <= MaxTasks
  BY <1>4, <1>5, BoundsAssumption
<1> QED
  BY <1>3, <1>4, <1>5, <1>6, AppendProperties DEF t

\* A submission preserves the invariant when the handler moved the player to
\* where its task says.
LEMMA SubmitStep ==
    ASSUME RegistryInv, NEW p \in Players, NEW kind \in {"join", "leave"},
           NEW s \in Servers \cup {NoServer}, NEW first \in BOOLEAN,
           Submit(p, kind, s, first),
           proxy' = [proxy EXCEPT ![p] = IF kind = "leave" THEN Offline ELSE s]
    PROVE  RegistryInv'
<1> DEFINE n == Len(tasks)
<1>1. /\ tasks' \in Seq(Task) /\ Len(tasks') = n + 1
      /\ n \in Nat /\ Len(tasks') <= MaxTasks
      /\ \A i \in 1..n : tasks'[i] = tasks[i]
      /\ tasks'[n + 1].player = p /\ tasks'[n + 1].kind = kind
      /\ tasks'[n + 1].server = s /\ tasks'[n + 1].step = "store"
      /\ tasks'[n + 1].alone = IsQuiet(p)
  <2>1. TypeOK
    BY DEF RegistryInv
  <2>2. /\ tasks' \in Seq(Task) /\ Len(tasks') = Len(tasks) + 1
        /\ Len(tasks) \in Nat /\ Len(tasks') <= MaxTasks
        /\ \A i \in 1..Len(tasks) : tasks'[i] = tasks[i]
        /\ tasks'[Len(tasks) + 1] =
             [player |-> p, kind |-> kind, server |-> s, first |-> first,
              step |-> "store", alone |-> IsQuiet(p), at |-> 0]
    BY <2>1, SubmitProperties
  <2> QED
    BY <2>2
<1>2. sessions' = sessions /\ channel' = channel /\ now' = now /\ unseen' = unseen \ {p}
  BY DEF Submit
<1> HIDE DEF n
<1>3. \A i \in 1..Len(tasks') : i \in 1..n \/ i = n + 1
  BY <1>1
<1>4. TypeOK'
  BY <1>1, <1>2 DEF RegistryInv, TypeOK
<1>5. \A i \in 1..n : tasks[i].player # p =>
        (IsLast(i, TasksOf(tasks[i].player))' <=> IsLast(i, TasksOf(tasks[i].player)))
  BY <1>1, <1>3 DEF IsLast, TasksOf, n
<1>6. \A i \in 1..n : tasks[i].player = p => ~IsLast(i, TasksOf(p))'
  BY <1>1 DEF IsLast, TasksOf
<1>7. AloneInv'
  <2> SUFFICES ASSUME NEW i \in 1..Len(tasks'), NEW j \in 1..Len(tasks'), j < i,
                      tasks'[j].player = tasks'[i].player, tasks'[i].alone
               PROVE  HasEnded(j)'
    BY DEF AloneInv
  <2>1. j \in 1..n
    BY <1>1
  <2>2. CASE i \in 1..n
    BY <1>1, <2>1, <2>2 DEF RegistryInv, AloneInv, HasEnded, n
  <2>3. CASE i = n + 1
    <3>1. tasks[j].player = p /\ IsQuiet(p)
      BY <1>1, <2>1, <2>3
    <3>2. HasEnded(j)
      BY <2>1, <3>1 DEF IsQuiet, TasksOf, n
    <3> QED
      BY <1>1, <2>1, <3>2 DEF HasEnded
  <2> QED
    BY <1>3, <2>2, <2>3
<1>8. LatestInv'
  BY <1>1, <1>2, <1>3, <1>5, <1>6 DEF RegistryInv, LatestInv, HasStored, Matches, n
<1>9. ProxyInv'
  BY <1>1, <1>2, <1>3, <1>5, <1>6 DEF RegistryInv, ProxyInv, TypeOK, n
<1> QED
  BY <1>4, <1>7, <1>8, <1>9 DEF RegistryInv

\* A task that makes a step keeps its event; the other tasks are untouched.
LEMMA TaskStepProperties ==
    ASSUME TypeOK, NEW i \in 1..Len(tasks),
           NEW x \in {"publish", "done", "failed"}, NEW t \in 0..MaxTime,
           \/ tasks' = [tasks EXCEPT ![i].step = x, ![i].at = t]
           \/ tasks' = [tasks EXCEPT ![i].step = x]
    PROVE  /\ tasks' \in Seq(Task) /\ Len(tasks') = Len(tasks)
           /\ \A j \in 1..Len(tasks) :
                /\ tasks'[j].player = tasks[j].player /\ tasks'[j].kind = tasks[j].kind
                /\ tasks'[j].server = tasks[j].server /\ tasks'[j].alone = tasks[j].alone
                /\ tasks'[j].step = IF j = i THEN x ELSE tasks[j].step
<1>1. tasks \in Seq(Task)
  BY DEF TypeOK
<1>2. tasks[i] \in Task
  BY <1>1, ElementOfSeq
<1>3. PICK u \in Task : /\ tasks' = [tasks EXCEPT ![i] = u]
                        /\ u.player = tasks[i].player /\ u.kind = tasks[i].kind
                        /\ u.server = tasks[i].server /\ u.alone = tasks[i].alone
                        /\ u.step = x
  <2>1. CASE tasks' = [tasks EXCEPT ![i].step = x, ![i].at = t]
    <3> DEFINE u == [tasks[i] EXCEPT !.step = x, !.at = t]
    <3>1. u \in Task /\ u.player = tasks[i].player /\ u.kind = tasks[i].kind
          /\ u.server = tasks[i].server /\ u.alone = tasks[i].alone /\ u.step = x
      BY <1>2 DEF Task
    <3>2. tasks' = [tasks EXCEPT ![i] = u]
      BY <1>1, <1>2, <2>1 DEF Task
    <3> QED
      BY <3>1, <3>2
  <2>2. CASE tasks' = [tasks EXCEPT ![i].step = x]
    <3> DEFINE u == [tasks[i] EXCEPT !.step = x]
    <3>1. u \in Task /\ u.player = tasks[i].player /\ u.kind = tasks[i].kind
          /\ u.server = tasks[i].server /\ u.alone = tasks[i].alone /\ u.step = x
      BY <1>2 DEF Task
    <3>2. tasks' = [tasks EXCEPT ![i] = u]
      BY <1>1, <1>2, <2>2 DEF Task
    <3> QED
      BY <3>1, <3>2
  <2> QED
    BY <2>1, <2>2
<1> QED
  BY <1>1, <1>3, ExceptSeq

\* A step of one task preserves the invariant when it stores what its event
\* says, or reports, or fails.
LEMMA TaskStepPreserves ==
    ASSUME RegistryInv, TypeOK', NEW i \in 1..Len(tasks), ~HasEnded(i),
           NEW x \in {"publish", "done", "failed"}, Len(tasks') = Len(tasks),
           \A j \in 1..Len(tasks) :
                /\ tasks'[j].player = tasks[j].player /\ tasks'[j].kind = tasks[j].kind
                /\ tasks'[j].server = tasks[j].server /\ tasks'[j].alone = tasks[j].alone
                /\ tasks'[j].step = IF j = i THEN x ELSE tasks[j].step,
           proxy' = proxy, unseen' = unseen,
           \A q \in Players \ {tasks[i].player} : sessions'[q] = sessions[q],
           \/ x = "publish" /\ Matches(sessions'[tasks[i].player], tasks[i])
           \/ x = "done" /\ HasStored(i) /\ sessions' = sessions
           \/ x = "failed"
    PROVE  RegistryInv'
<1>1. \A j \in 1..Len(tasks) :
        /\ tasks[j].player \in Players
        /\ IsLast(j, TasksOf(tasks[j].player))' <=> IsLast(j, TasksOf(tasks[j].player))
  <2>1. \A j \in 1..Len(tasks) : tasks[j] \in Task
    BY ElementOfSeq DEF RegistryInv, TypeOK
  <2>2. \A q : TasksOf(q)' = TasksOf(q)
    BY DEF TasksOf
  <2>3. \A j \in 1..Len(tasks) : tasks[j].player \in Players
    BY <2>1 DEF Task
  <2>4. \A j \in 1..Len(tasks) :
          IsLast(j, TasksOf(tasks[j].player))' <=> IsLast(j, TasksOf(tasks[j].player))
    BY DEF IsLast, TasksOf
  <2> QED
    BY <2>3, <2>4
<1>2. AloneInv'
  BY DEF RegistryInv, AloneInv, HasEnded
<1>3. LatestInv'
  <2> SUFFICES ASSUME NEW j \in 1..Len(tasks), IsLast(j, TasksOf(tasks[j].player)),
                      tasks[j].alone, HasStored(j)'
               PROVE  Matches(sessions'[tasks[j].player], tasks[j])
    BY <1>1 DEF LatestInv, Matches
  <2>1. CASE tasks[j].player # tasks[i].player
    BY <1>1, <2>1 DEF RegistryInv, LatestInv, HasStored
  <2>2. CASE tasks[j].player = tasks[i].player /\ j # i
    <3>1. i < j
      BY <2>2 DEF IsLast, TasksOf
    <3> QED
      BY <2>2, <3>1 DEF RegistryInv, AloneInv
  <2>3. CASE j = i
    BY <2>3 DEF RegistryInv, LatestInv, HasStored
  <2> QED
    BY <2>1, <2>2, <2>3
<1>4. ProxyInv'
  BY <1>1 DEF RegistryInv, ProxyInv
<1> QED
  BY <1>2, <1>3, <1>4 DEF RegistryInv

\* The write of a task does what its event says, to its player only.
LEMMA StoredProperties ==
    ASSUME TypeOK, NEW i \in 1..Len(tasks)
    PROVE  /\ Stored(tasks[i]) \in [Players -> Entry \cup {NoEntry}]
           /\ Matches(Stored(tasks[i])[tasks[i].player], tasks[i])
           /\ \A q \in Players \ {tasks[i].player} : Stored(tasks[i])[q] = sessions[q]
<1>1. tasks[i] \in Task
  BY ElementOfSeq DEF TypeOK
<1>2. /\ tasks[i].player \in Players /\ tasks[i].kind \in {"join", "leave"}
      /\ tasks[i].server \in Servers \cup {NoServer}
  BY <1>1 DEF Task
<1>3. PICK e \in Entry \cup {NoEntry} :
        /\ e = IF tasks[i].kind = "join" THEN [server |-> tasks[i].server, joined |-> now]
                                        ELSE NoEntry
        /\ Matches(e, tasks[i])
  <2>1. CASE tasks[i].kind = "join"
    <3>1. [server |-> tasks[i].server, joined |-> now] \in Entry
      BY <1>2 DEF Entry, TypeOK
    <3>2. [server |-> tasks[i].server, joined |-> now] # NoEntry
      BY <3>1, NoEntryAssumption DEF Entry
    <3>3. Matches([server |-> tasks[i].server, joined |-> now], tasks[i])
      BY <2>1, <3>2 DEF Matches
    <3> QED
      BY <2>1, <3>1, <3>3
  <2>2. CASE tasks[i].kind = "leave"
    BY <2>2 DEF Matches
  <2> QED
    BY <1>2, <2>1, <2>2
<1>4. Stored(tasks[i]) = [sessions EXCEPT ![tasks[i].player] = e]
  BY <1>3 DEF Stored
<1> QED
  BY <1>2, <1>3, <1>4 DEF TypeOK

\* Every step preserves the invariant.
LEMMA RegistryStep == RegistryInv /\ [Next]_vars => RegistryInv'
<1> SUFFICES ASSUME RegistryInv, [Next]_vars
             PROVE  RegistryInv'
  OBVIOUS
<1>0. TypeOK
  BY DEF RegistryInv
<1>1. ASSUME NEW p \in Players, OnPostLogin(p)
      PROVE  RegistryInv'
  BY <1>1, SubmitStep DEF OnPostLogin
<1>2. ASSUME NEW p \in Players, NEW s \in Servers, OnServerConnected(p, s)
      PROVE  RegistryInv'
  BY <1>2, SubmitStep DEF OnServerConnected
<1>3. ASSUME NEW p \in Players, OnDisconnect(p)
      PROVE  RegistryInv'
  BY <1>3, SubmitStep DEF OnDisconnect
<1>4. ASSUME NEW i \in 1..Len(tasks), Store(i)
      PROVE  RegistryInv'
  <2>1. tasks' = [tasks EXCEPT ![i].step = "publish", ![i].at = now] /\ now \in 0..MaxTime
    BY <1>0, <1>4 DEF Store, TypeOK
  <2>2. /\ tasks' \in Seq(Task) /\ Len(tasks') = Len(tasks)
        /\ \A j \in 1..Len(tasks) :
             /\ tasks'[j].player = tasks[j].player /\ tasks'[j].kind = tasks[j].kind
             /\ tasks'[j].server = tasks[j].server /\ tasks'[j].alone = tasks[j].alone
             /\ tasks'[j].step = IF j = i THEN "publish" ELSE tasks[j].step
    BY <1>0, <2>1, TaskStepProperties
  <2>3. /\ sessions' = Stored(tasks[i]) /\ ~HasEnded(i)
        /\ UNCHANGED <<proxy, channel, now, unseen>>
    BY <1>4 DEF Store, HasEnded
  <2>4. TypeOK'
    BY <1>0, <2>2, <2>3, StoredProperties DEF TypeOK
  <2> QED
    BY <1>0, <2>2, <2>3, <2>4, StoredProperties, TaskStepPreserves
<1>5. ASSUME NEW i \in 1..Len(tasks), StoreFails(i)
      PROVE  RegistryInv'
  <2>1. tasks' = [tasks EXCEPT ![i].step = "failed"] /\ 0 \in 0..MaxTime
    BY <1>5, BoundsAssumption DEF StoreFails
  <2>2. /\ tasks' \in Seq(Task) /\ Len(tasks') = Len(tasks)
        /\ \A j \in 1..Len(tasks) :
             /\ tasks'[j].player = tasks[j].player /\ tasks'[j].kind = tasks[j].kind
             /\ tasks'[j].server = tasks[j].server /\ tasks'[j].alone = tasks[j].alone
             /\ tasks'[j].step = IF j = i THEN "failed" ELSE tasks[j].step
    BY <1>0, <2>1, TaskStepProperties
  <2>3. /\ sessions' \in {sessions, Stored(tasks[i])} /\ ~HasEnded(i)
        /\ UNCHANGED <<proxy, channel, now, unseen>>
    BY <1>5 DEF StoreFails, HasEnded
  <2>4. TypeOK'
    BY <1>0, <2>2, <2>3, StoredProperties DEF TypeOK
  <2>5. \A q \in Players \ {tasks[i].player} : sessions'[q] = sessions[q]
    BY <1>0, <2>3, StoredProperties
  <2> QED
    BY <2>2, <2>3, <2>4, <2>5, TaskStepPreserves
<1>6. ASSUME NEW i \in 1..Len(tasks), Publish(i) \/ PublishFails(i)
      PROVE  RegistryInv'
  <2>1. tasks' = [tasks EXCEPT ![i].step = "done"] /\ 0 \in 0..MaxTime
    BY <1>6, BoundsAssumption DEF Publish, PublishFails
  <2>2. /\ tasks' \in Seq(Task) /\ Len(tasks') = Len(tasks)
        /\ \A j \in 1..Len(tasks) :
             /\ tasks'[j].player = tasks[j].player /\ tasks'[j].kind = tasks[j].kind
             /\ tasks'[j].server = tasks[j].server /\ tasks'[j].alone = tasks[j].alone
             /\ tasks'[j].step = IF j = i THEN "done" ELSE tasks[j].step
    BY <1>0, <2>1, TaskStepProperties
  <2>3. HasStored(i) /\ ~HasEnded(i) /\ UNCHANGED <<proxy, sessions, now, unseen>>
    BY <1>6 DEF Publish, PublishFails, HasStored, HasEnded
  <2>4. channel' \in Seq(1..MaxTasks)
    <3>1. channel \in Seq(1..MaxTasks) /\ i \in 1..MaxTasks
      BY <1>0, LenProperties, BoundsAssumption DEF TypeOK
    <3>2. Append(channel, i) \in Seq(1..MaxTasks)
      BY <3>1, AppendProperties
    <3>3. channel' = Append(channel, i) \/ channel' = channel
      BY <1>6 DEF Publish, PublishFails
    <3> QED
      BY <3>1, <3>2, <3>3
  <2>5. TypeOK'
    BY <1>0, <2>2, <2>3, <2>4 DEF TypeOK
  <2> QED
    BY <2>2, <2>3, <2>5, TaskStepPreserves
<1>7. CASE Tick
  <2>1. now' \in 0..MaxTime
    BY <1>0, <1>7, BoundsAssumption DEF Tick, TypeOK
  <2> QED
    BY <1>7, <2>1 DEF Tick, RegistryInv, TypeOK, AloneInv, LatestInv, ProxyInv,
       HasEnded, HasStored, IsLast, TasksOf, Matches
<1>8. CASE ProxyCrashes
  <2>1. /\ unseen' = unseen \cup {p \in Players : proxy[p] # Offline}
        /\ proxy' = [p \in Players |-> Offline]
        /\ UNCHANGED <<sessions, channel, now>>
    BY <1>8 DEF ProxyCrashes
  <2>2. tasks \in Seq(Task) /\ Len(tasks) \in Nat /\ \A i \in 1..Len(tasks) : tasks[i] \in Task
    BY <1>0, LenProperties, ElementOfSeq DEF TypeOK
  <2> DEFINE crashed(i) == IF HasEnded(i) THEN tasks[i] ELSE [tasks[i] EXCEPT !.step = "failed"]
  <2>4. tasks' = [i \in 1..Len(tasks) |-> crashed(i)]
    BY <1>8 DEF ProxyCrashes
  <2>5. \A i \in 1..Len(tasks) :
          /\ crashed(i) \in Task
          /\ crashed(i).player = tasks[i].player /\ crashed(i).kind = tasks[i].kind
          /\ crashed(i).server = tasks[i].server /\ crashed(i).alone = tasks[i].alone
          /\ crashed(i).step = IF HasEnded(i) THEN tasks[i].step ELSE "failed"
    BY <2>2 DEF Task
  <2> HIDE DEF crashed
  <2>6. tasks' \in Seq(Task) /\ Len(tasks') = Len(tasks)
    <3>1. [i \in 1..Len(tasks) |-> crashed(i)] \in Seq(Task)
      BY <2>2, <2>5
    <3>2. Len([i \in 1..Len(tasks) |-> crashed(i)]) = Len(tasks)
      BY <2>2
    <3> QED
      BY <2>4, <3>1, <3>2
  <2>7. \A i \in 1..Len(tasks) :
          /\ tasks'[i].player = tasks[i].player /\ tasks'[i].kind = tasks[i].kind
          /\ tasks'[i].server = tasks[i].server /\ tasks'[i].alone = tasks[i].alone
          /\ tasks'[i].step = IF HasEnded(i) THEN tasks[i].step ELSE "failed"
    BY <2>4, <2>5
  <2>8. \A i \in 1..Len(tasks) :
          IsLast(i, TasksOf(tasks[i].player))' <=> IsLast(i, TasksOf(tasks[i].player))
    BY <2>6, <2>7 DEF IsLast, TasksOf
  <2>9. TypeOK'
    BY <1>0, <2>1, <2>6 DEF TypeOK
  <2>10. AloneInv'
    BY <2>6, <2>7 DEF RegistryInv, AloneInv, HasEnded
  <2>11. LatestInv'
    BY <2>1, <2>6, <2>7, <2>8 DEF RegistryInv, LatestInv, HasEnded, HasStored, Matches
  <2>12. ProxyInv'
    <3> SUFFICES ASSUME NEW i \in 1..Len(tasks), IsLast(i, TasksOf(tasks[i].player)),
                        tasks[i].player \notin unseen'
                 PROVE  proxy'[tasks[i].player] =
                          IF tasks[i].kind = "leave" THEN Offline ELSE tasks[i].server
      BY <2>6, <2>7, <2>8 DEF ProxyInv
    <3>1. tasks[i].player \in Players
      BY <2>2 DEF Task
    <3>2. tasks[i].player \notin unseen /\ proxy[tasks[i].player] = Offline
      BY <2>1, <3>1
    <3> QED
      BY <2>1, <3>1, <3>2 DEF RegistryInv, ProxyInv
  <2> QED
    BY <2>9, <2>10, <2>11, <2>12 DEF RegistryInv
<1>9. CASE UNCHANGED vars
  BY <1>9 DEF vars, RegistryInv, TypeOK, AloneInv, LatestInv, ProxyInv,
       HasEnded, HasStored, IsLast, TasksOf, Matches
<1> QED
  BY <1>1, <1>2, <1>3, <1>4, <1>5, <1>6, <1>7, <1>8, <1>9 DEF Next, Progress, Faults

\* RegistryInv is inductive and holds at the start, where there is no task.
THEOREM RegistryInvariant == Spec => []RegistryInv
<1>1. Init => RegistryInv
  <2> SUFFICES ASSUME Init PROVE RegistryInv
    OBVIOUS
  <2>1. <<>> \in Seq(Task) /\ <<>> \in Seq(1..MaxTasks) /\ Len(<<>>) = 0
    OBVIOUS
  <2>2. 0 \in 0..MaxTime /\ 0 <= MaxTasks
    BY BoundsAssumption
  <2> QED
    BY <2>1, <2>2 DEF Init, RegistryInv, TypeOK, AloneInv, LatestInv, ProxyInv
<1> QED
  BY <1>1, RegistryStep, PTL DEF Spec

\* Every variable of the registry has its type in every reachable state.
THEOREM TypeCorrect == Spec => []TypeOK
<1>1. RegistryInv => TypeOK
  BY DEF RegistryInv
<1> QED
  BY RegistryInvariant, <1>1, PTL

\* Whatever raced or failed before, the registry is right about a player once
\* the write of the player's latest event is done, provided that event's task
\* found no other task of the player left.
THEOREM Heals == Spec => []SelfHeals
<1>1. RegistryInv => SelfHeals
  <2> SUFFICES ASSUME RegistryInv, NEW p \in Players \ unseen, NEW i \in TasksOf(p),
                      IsLast(i, TasksOf(p)), tasks[i].alone, HasStored(i)
               PROVE  IsRight(p)
    BY DEF SelfHeals
  <2>1. i \in 1..Len(tasks) /\ tasks[i].player = p
    BY DEF TasksOf
  <2>2. Matches(sessions[p], tasks[i])
    BY <2>1 DEF RegistryInv, LatestInv
  <2>3. proxy[p] = IF tasks[i].kind = "leave" THEN Offline ELSE tasks[i].server
    BY <2>1 DEF RegistryInv, ProxyInv
  <2>4. tasks[i].server # Offline
    <3>1. tasks[i] \in Task
      BY <2>1, ElementOfSeq DEF RegistryInv, TypeOK
    <3> QED
      BY <3>1, OfflineAssumption DEF Task
  <2> QED
    BY <2>2, <2>3, <2>4 DEF Matches, IsRight
<1> QED
  BY RegistryInvariant, <1>1, PTL

\* A message that goes out while its task is the player's only one left says
\* what the registry holds.
THEOREM MessagesMatch == Spec => MessageMatchesRegistry
<1>1. ASSUME RegistryInv, [Next]_vars, NEW i \in 1..Len(tasks),
             channel' = Append(channel, i), OnlyTask(i), vars' # vars
      PROVE  Matches(sessions'[tasks[i].player], tasks[i])
  <2>1. /\ channel \in Seq(1..MaxTasks) /\ Len(channel) \in Nat
        /\ \A j \in 1..Len(tasks) : j \in 1..MaxTasks
    BY <1>1, LenProperties, BoundsAssumption DEF RegistryInv, TypeOK
  <2>2. channel' # channel
    <3>1. Len(channel') = Len(channel) + 1
      BY <1>1, <2>1, AppendProperties
    <3> QED
      BY <2>1, <3>1
  <2>3. PICK j \in 1..Len(tasks) : Publish(j)
    BY <1>1, <2>2 DEF Next, Progress, Faults, OnPostLogin, OnServerConnected,
       OnDisconnect, Submit, Store, StoreFails, PublishFails, Tick, ProxyCrashes
  <2>4. j = i
    <3>1. Append(channel, i) = Append(channel, j) /\ i \in 1..MaxTasks /\ j \in 1..MaxTasks
      BY <1>1, <2>1, <2>3 DEF Publish
    <3>2. /\ Append(channel, i)[Len(channel) + 1] = i
          /\ Append(channel, j)[Len(channel) + 1] = j
      BY <2>1, <3>1, AppendProperties
    <3> QED
      BY <3>1, <3>2
  <2>5. HasStored(i) /\ sessions' = sessions
    BY <2>3, <2>4 DEF Publish, HasStored
  <2>6. IsLast(i, TasksOf(tasks[i].player)) /\ tasks[i].alone
    BY <1>1 DEF OnlyTask, IsLast, TasksOf
  <2> QED
    BY <1>1, <2>5, <2>6 DEF RegistryInv, LatestInv
<1>2. RegistryInv /\ [Next]_vars =>
        [\A i \in 1..Len(tasks) :
            (channel' = Append(channel, i) /\ OnlyTask(i))
                => Matches(sessions'[tasks[i].player], tasks[i])]_vars
  BY <1>1
<1> QED
  BY RegistryInvariant, <1>2, PTL DEF Spec, MessageMatchesRegistry
=============================================================================
