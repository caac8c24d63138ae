---------------------------- MODULE RuntimeProofs ----------------------------
(***************************************************************************)
(* For any number of connections and threads: the Mutex of the server is   *)
(* never held by who waits for a thread, and nobody asks for it twice.     *)
(***************************************************************************)
EXTENDS Runtime, FiniteSetTheorems, TLAPS

Wants(c) == stage[c] \in {"lock", "test", "blocked"}

SeqsTyped == /\ stage \in [Tasks -> Stages]
             /\ job \in [Tasks -> Jobs]
             /\ queue \in Seq(Tasks) /\ mutex \in Seq(Tasks)

\* Who wants the Mutex has it or is in its queue, and the task that has come as
\* far as its tests has it.
WantsListed ==
  \A c \in Tasks : Wants(c) => \E i \in 1 .. Len(mutex) : mutex[i] = c
TestHolds == \A c \in Tasks : stage[c] = "test" => Head(mutex) = c

\* A closure that waits for a thread waits once, and is one of a queued task.
QueueWaits == /\ \A i \in 1 .. Len(queue) : stage[queue[i]] = "queued"
              /\ \A i, j \in 1 .. Len(queue) : queue[i] = queue[j] => i = j
QueuedWorks == \A c \in Tasks : stage[c] = "queued" => job[c] # "none"

MutexInv == SeqsTyped /\ HolderRuns /\ WantsListed /\ TestHolds /\ QueueWaits /\ QueuedWorks

\* The three changes of a list of tasks without repetition: it stays, its head
\* leaves, and one that is not in it joins it.
LEMMA TailOfList ==
  ASSUME NEW s \in Seq(Tasks), s # <<>>
  PROVE  /\ Tail(s) \in Seq(Tasks) /\ Len(Tail(s)) = Len(s) - 1
         /\ \A i \in 1 .. Len(Tail(s)) : i + 1 \in 1 .. Len(s) /\ Tail(s)[i] = s[i + 1]
         /\ Head(s) = s[1] /\ 1 \in 1 .. Len(s) /\ Head(s) \in Tasks
  OBVIOUS

LEMMA AppendToList ==
  ASSUME NEW s \in Seq(Tasks), NEW c \in Tasks
  PROVE  /\ Append(s, c) \in Seq(Tasks) /\ Len(Append(s, c)) = Len(s) + 1
         /\ \A i \in 1 .. Len(s) : Append(s, c)[i] = s[i]
         /\ Append(s, c)[Len(s) + 1] = c
         /\ s # <<>> => Head(Append(s, c)) = Head(s)
  OBVIOUS

MutexPart == HolderRuns /\ WantsListed /\ TestHolds
QueuePart == QueueWaits /\ QueuedWorks

\* A step of task c that leaves the Mutex alone.
LEMMA MutexStays ==
  ASSUME SeqsTyped, MutexPart, NEW c \in Tasks, NEW there \in Stages,
         Go(c, there), mutex' = mutex,
         Wants(c) <=> there \in {"lock", "test", "blocked"},
         there = "test" => Head(mutex) = c
  PROVE  MutexPart'
<1>1. stage'[c] = there /\ \A d \in Tasks : d # c => stage'[d] = stage[d]
  BY DEF SeqsTyped, Go
<1>2. \A d \in Tasks : Wants(d)' <=> Wants(d)
  BY <1>1 DEF Wants
<1>3. \A i \in 1 .. Len(mutex) : mutex[i] \in Tasks
  BY DEF SeqsTyped
<1>4. HolderRuns'
  BY <1>2, <1>3 DEF MutexPart, HolderRuns, Wants
<1>5. WantsListed'
  BY <1>2 DEF MutexPart, WantsListed
<1>6. TestHolds'
  BY <1>1 DEF MutexPart, TestHolds
<1>7. QED
  BY <1>4, <1>5, <1>6 DEF MutexPart

\* Task c asks for the Mutex.
LEMMA MutexJoined ==
  ASSUME SeqsTyped, MutexPart, NEW c \in Tasks, NEW there \in {"lock", "blocked"},
         Go(c, there), mutex' = Append(mutex, c), ~Wants(c)
  PROVE  MutexPart'
<1>1. stage'[c] = there /\ \A d \in Tasks : d # c => stage'[d] = stage[d]
  BY DEF SeqsTyped, Go
<1>2. mutex \in Seq(Tasks)
  BY DEF SeqsTyped
<1>3. /\ Len(mutex') = Len(mutex) + 1 /\ Len(mutex) \in Nat
      /\ \A i \in 1 .. Len(mutex) : mutex'[i] = mutex[i] /\ mutex[i] \in Tasks
      /\ mutex'[Len(mutex) + 1] = c
      /\ mutex # <<>> => Head(mutex') = Head(mutex)
  BY <1>2, AppendToList
<1>4. \A i \in 1 .. Len(mutex) : mutex[i] # c
  BY DEF MutexPart, HolderRuns, Wants
<1>5. HolderRuns'
  <2>1. \A i \in 1 .. Len(mutex') : stage'[mutex'[i]] \in {"lock", "test", "blocked"}
    BY <1>1, <1>3, <1>4 DEF MutexPart, HolderRuns
  <2>2. ASSUME NEW i \in 1 .. Len(mutex'), NEW j \in 1 .. Len(mutex'), mutex'[i] = mutex'[j]
        PROVE  i = j
    BY <1>3, <1>4, <2>2 DEF MutexPart, HolderRuns
  <2>3. QED
    BY <2>1, <2>2 DEF HolderRuns
<1>6. WantsListed'
  BY <1>1, <1>3 DEF MutexPart, WantsListed, Wants
<1>7. TestHolds'
  <2>1. ASSUME NEW d \in Tasks, stage'[d] = "test" PROVE Head(mutex') = d
    <3>1. d # c /\ stage[d] = "test"
      BY <1>1, <2>1
    <3>2. Head(mutex) = d /\ mutex # <<>>
      BY <3>1, <1>2 DEF MutexPart, TestHolds, WantsListed, Wants
    <3>3. QED
      BY <1>3, <3>2
  <2>2. QED
    BY <2>1 DEF TestHolds
<1>8. QED
  BY <1>5, <1>6, <1>7 DEF MutexPart

\* Task c, who has the Mutex, lets go of it.
LEMMA MutexLeft ==
  ASSUME SeqsTyped, MutexPart, NEW c \in Tasks, NEW there,
         there \notin {"lock", "test", "blocked"},
         Go(c, there), mutex' = Tail(mutex), Wants(c), Head(mutex) = c
  PROVE  MutexPart'
<1>1. stage'[c] = there /\ \A d \in Tasks : d # c => stage'[d] = stage[d]
  BY DEF SeqsTyped, Go
<1>2. mutex \in Seq(Tasks) /\ mutex # <<>>
  BY DEF SeqsTyped, MutexPart, WantsListed
<1>3. /\ Len(mutex') = Len(mutex) - 1 /\ Len(mutex) \in Nat
      /\ \A i \in 1 .. Len(mutex') : i + 1 \in 1 .. Len(mutex) /\ mutex'[i] = mutex[i + 1]
      /\ mutex[1] = c /\ 1 \in 1 .. Len(mutex)
  BY <1>2, TailOfList
<1>4. \A i \in 1 .. Len(mutex) : mutex[i] \in Tasks /\ (mutex[i] = c => i = 1)
  BY <1>2, <1>3 DEF MutexPart, HolderRuns
<1>5. HolderRuns'
  <2>1. \A i \in 1 .. Len(mutex') : mutex'[i] # c /\ mutex'[i] \in Tasks
    BY <1>3, <1>4
  <2>2. \A i \in 1 .. Len(mutex') : stage'[mutex'[i]] \in {"lock", "test", "blocked"}
    BY <1>1, <1>3, <2>1 DEF MutexPart, HolderRuns
  <2>3. ASSUME NEW i \in 1 .. Len(mutex'), NEW j \in 1 .. Len(mutex'), mutex'[i] = mutex'[j]
        PROVE  i = j
    <3>1. i + 1 = j + 1
      BY <1>3, <2>3 DEF MutexPart, HolderRuns
    <3>2. QED
      BY <3>1
  <2>4. QED
    BY <2>2, <2>3 DEF HolderRuns
<1>6. WantsListed'
  <2>1. ASSUME NEW d \in Tasks, Wants(d)' PROVE \E i \in 1 .. Len(mutex') : mutex'[i] = d
    <3>1. d # c /\ Wants(d)
      BY <1>1, <2>1 DEF Wants
    <3>2. PICK i \in 1 .. Len(mutex) : mutex[i] = d
      BY <3>1 DEF MutexPart, WantsListed
    <3>3. i # 1 /\ i - 1 \in 1 .. Len(mutex')
      BY <1>3, <3>1, <3>2
    <3>4. mutex'[i - 1] = d
      BY <1>3, <3>2, <3>3
    <3>5. QED
      BY <3>3, <3>4
  <2>2. QED
    BY <2>1 DEF WantsListed
<1>7. TestHolds'
  BY <1>1 DEF MutexPart, TestHolds
<1>8. QED
  BY <1>5, <1>6, <1>7 DEF MutexPart

\* A step of task c that is about no closure.
LEMMA QueueStays ==
  ASSUME SeqsTyped, QueuePart, NEW c \in Tasks, NEW there,
         there # "queued", stage[c] # "queued", Go(c, there), queue' = queue,
         \A d \in Tasks : d # c => job'[d] = job[d]
  PROVE  QueuePart'
<1>1. stage'[c] = there /\ \A d \in Tasks : d # c => stage'[d] = stage[d]
  BY DEF SeqsTyped, Go
<1>2. \A i \in 1 .. Len(queue) : queue[i] \in Tasks /\ queue[i] # c
  BY DEF SeqsTyped, QueuePart, QueueWaits
<1>3. QueueWaits'
  BY <1>1, <1>2 DEF QueuePart, QueueWaits
<1>4. QueuedWorks'
  BY <1>1 DEF QueuePart, QueuedWorks
<1>5. QED
  BY <1>3, <1>4 DEF QueuePart

\* Task c gives a closure to the pool.
LEMMA QueueJoined ==
  ASSUME SeqsTyped, QueuePart, NEW c \in Tasks, NEW j \in Jobs \ {"none"},
         stage[c] # "queued", Spawn(c, j)
  PROVE  QueuePart'
<1>1. /\ stage'[c] = "queued" /\ \A d \in Tasks : d # c => stage'[d] = stage[d]
      /\ job'[c] = j /\ \A d \in Tasks : d # c => job'[d] = job[d]
  BY DEF SeqsTyped, Spawn, Go
<1>2. queue \in Seq(Tasks) /\ queue' = Append(queue, c)
  BY DEF SeqsTyped, Spawn
<1>3. /\ Len(queue') = Len(queue) + 1 /\ Len(queue) \in Nat
      /\ \A i \in 1 .. Len(queue) : queue'[i] = queue[i] /\ queue[i] \in Tasks
      /\ queue'[Len(queue) + 1] = c
  BY <1>2, AppendToList
<1>4. \A i \in 1 .. Len(queue) : queue[i] # c
  BY DEF QueuePart, QueueWaits
<1>5. QueueWaits'
  <2>1. \A i \in 1 .. Len(queue') : stage'[queue'[i]] = "queued"
    BY <1>1, <1>3, <1>4 DEF QueuePart, QueueWaits
  <2>2. ASSUME NEW i \in 1 .. Len(queue'), NEW k \in 1 .. Len(queue'), queue'[i] = queue'[k]
        PROVE  i = k
    BY <1>3, <1>4, <2>2 DEF QueuePart, QueueWaits
  <2>3. QED
    BY <2>1, <2>2 DEF QueueWaits
<1>6. QueuedWorks'
  BY <1>1 DEF QueuePart, QueuedWorks
<1>7. QED
  BY <1>5, <1>6 DEF QueuePart

\* A thread takes the closure of task c.
LEMMA QueueLeft ==
  ASSUME SeqsTyped, QueuePart, NEW c \in Tasks, NEW there, there # "queued",
         Go(c, there), queue # <<>>, Head(queue) = c, queue' = Tail(queue), job' = job
  PROVE  QueuePart'
<1>1. stage'[c] = there /\ \A d \in Tasks : d # c => stage'[d] = stage[d]
  BY DEF SeqsTyped, Go
<1>2. queue \in Seq(Tasks)
  BY DEF SeqsTyped
<1>3. /\ Len(queue') = Len(queue) - 1 /\ Len(queue) \in Nat
      /\ \A i \in 1 .. Len(queue') : i + 1 \in 1 .. Len(queue) /\ queue'[i] = queue[i + 1]
      /\ queue[1] = c /\ 1 \in 1 .. Len(queue)
  BY <1>2, TailOfList
<1>4. \A i \in 1 .. Len(queue) : queue[i] \in Tasks /\ (queue[i] = c => i = 1)
  BY <1>2, <1>3 DEF QueuePart, QueueWaits
<1>5. \A i \in 1 .. Len(queue') : queue'[i] # c /\ queue'[i] \in Tasks
  BY <1>3, <1>4
<1>6. QueueWaits'
  <2>1. \A i \in 1 .. Len(queue') : stage'[queue'[i]] = "queued"
    BY <1>1, <1>3, <1>5 DEF QueuePart, QueueWaits
  <2>2. ASSUME NEW i \in 1 .. Len(queue'), NEW k \in 1 .. Len(queue'), queue'[i] = queue'[k]
        PROVE  i = k
    <3>1. i + 1 = k + 1
      BY <1>3, <2>2 DEF QueuePart, QueueWaits
    <3>2. QED
      BY <3>1
  <2>3. QED
    BY <2>1, <2>2 DEF QueueWaits
<1>7. QueuedWorks'
  BY <1>1 DEF QueuePart, QueuedWorks
<1>8. QED
  BY <1>6, <1>7 DEF QueuePart

TasksTyped == stage \in [Tasks -> Stages] /\ job \in [Tasks -> Jobs] /\ queue \in Seq(Tasks)

LEMMA Forgotten ==
  ASSUME SeqsTyped, QueuePart, NEW c \in Tasks, NEW there \in Stages \ {"queued"},
         stage[c] # "queued", Forget(c, there), queue' = queue
  PROVE  Go(c, there) /\ TasksTyped' /\ QueuePart'
<1>1. Go(c, there) /\ job' = [job EXCEPT ![c] = "none"]
  BY DEF Forget
<1>2. TasksTyped'
  BY <1>1 DEF SeqsTyped, TasksTyped, Go, Jobs
<1>3. QueuePart'
  BY <1>1, QueueStays DEF SeqsTyped
<1>4. QED
  BY <1>1, <1>2, <1>3

LEMMA Spawned ==
  ASSUME SeqsTyped, QueuePart, NEW c \in Tasks, NEW j \in Jobs \ {"none"},
         stage[c] # "queued", Spawn(c, j)
  PROVE  Go(c, "queued") /\ TasksTyped' /\ QueuePart'
<1>1. queue' \in Seq(Tasks)
  BY AppendToList DEF SeqsTyped, Spawn
<1>2. TasksTyped'
  BY <1>1 DEF SeqsTyped, TasksTyped, Spawn, Go, Stages
<1>3. QED
  BY <1>2, QueueJoined DEF Spawn

\* The same of a connection that is left.
LEMMA Left ==
  ASSUME SeqsTyped, QueuePart, NEW c \in Tasks, stage[c] # "queued", Leave(c)
  PROVE  (Go(c, "queued") \/ Go(c, "closed")) /\ TasksTyped' /\ QueuePart'
<1>1. CASE Spawn(c, "cleanup")
  BY <1>1, Spawned DEF Jobs
<1>2. CASE Forget(c, "closed") /\ UNCHANGED queue
  BY <1>2, Forgotten DEF Stages
<1>3. QED
  BY <1>1, <1>2 DEF Leave

LEMMA InitMutexInv == Init => MutexInv
<1>1. SUFFICES ASSUME Init PROVE MutexInv
  OBVIOUS
<1>2. SeqsTyped
  BY <1>1 DEF Init, Fresh, SeqsTyped, Stages, Jobs
<1>3. HolderRuns /\ WantsListed /\ TestHolds /\ QueueWaits /\ QueuedWorks
  BY <1>1 DEF Init, Fresh, HolderRuns, WantsListed, TestHolds, QueueWaits, QueuedWorks, Wants
<1>4. QED
  BY <1>2, <1>3 DEF MutexInv

\* The steps of task c, grouped by what they do with the Mutex.
LEMMA TaskMutexInv ==
  ASSUME MutexInv, NEW c \in Tasks,
         \/ accept(c) \/ Step(c) \/ IoDone(c)
         \/ \E j \in {"call", "bridge"} : Call(c, j)
         \/ \E t \in Timeouts : Transfer(c, t)
  PROVE  MutexInv'
<1>1. SeqsTyped /\ MutexPart /\ QueuePart
  BY DEF MutexInv, MutexPart, QueuePart
<1>2. SUFFICES TasksTyped' /\ mutex' \in Seq(Tasks) /\ MutexPart' /\ QueuePart'
  BY DEF MutexInv, MutexPart, QueuePart, SeqsTyped, TasksTyped
<1> DEFINE Stay(there) == /\ there \in Stages \ {"lock", "test", "blocked"}
                          /\ ~Wants(c) /\ Go(c, there) /\ mutex' = mutex
<1>3. ASSUME NEW there, Stay(there) PROVE mutex' \in Seq(Tasks) /\ MutexPart'
  BY <1>1, <1>3, MutexStays DEF SeqsTyped
<1>4. ASSUME accept(c) PROVE TasksTyped' /\ QueuePart' /\ Stay("idle")
  <2>1. Go(c, "idle") /\ UNCHANGED <<job, queue, mutex>> /\ At(c, "closed")
    BY <1>4 DEF accept
  <2>2. TasksTyped'
    BY <1>1, <2>1 DEF SeqsTyped, TasksTyped, Go, Stages
  <2>3. QueuePart'
    BY <1>1, <2>1, QueueStays DEF At
  <2>4. QED
    BY <2>1, <2>2, <2>3 DEF At, Wants, Stages
<1>5. ASSUME NEW j \in {"call", "bridge"}, Call(c, j)
      PROVE  TasksTyped' /\ QueuePart' /\ Stay("queued")
  BY <1>1, <1>5, Spawned DEF Call, At, Wants, Stages, Jobs
<1>6. ASSUME IoDone(c) PROVE TasksTyped' /\ QueuePart' /\ Stay("send")
  <2>1. At(c, "io") /\ queue' = queue /\ mutex' = mutex
    BY <1>6 DEF IoDone
  <2>2. CASE Forget(c, "send")
    BY <1>1, <2>1, <2>2, Forgotten DEF At, Wants, Stages
  <2>3. CASE Go(c, "send") /\ UNCHANGED <<job, ms>>
    <3>1. TasksTyped'
      BY <1>1, <2>1, <2>3 DEF SeqsTyped, TasksTyped, Go, Stages
    <3>2. QueuePart'
      BY <1>1, <2>1, <2>3, QueueStays DEF At
    <3>3. QED
      BY <2>1, <2>3, <3>1, <3>2 DEF At, Wants, Stages
  <2>4. QED
    BY <1>6, <2>2, <2>3 DEF IoDone
<1>7. ASSUME Send(c) PROVE TasksTyped' /\ QueuePart' /\ \E there : Stay(there)
  <2>1. At(c, "send") /\ mutex' = mutex /\ ~Wants(c) /\ stage[c] # "queued"
    BY <1>7 DEF Send, At, Wants
  <2>2. CASE Forget(c, "idle") /\ UNCHANGED queue
    BY <1>1, <2>1, <2>2, Forgotten DEF Stages
  <2>3. CASE Forget(c, "handover") /\ UNCHANGED queue
    BY <1>1, <2>1, <2>3, Forgotten DEF Stages
  <2>4. CASE Leave(c)
    BY <1>1, <2>1, <2>4, Left DEF Stages
  <2>5. QED
    BY <1>7, <2>2, <2>3, <2>4 DEF Send
<1>8. ASSUME EndOfStream(c) PROVE TasksTyped' /\ QueuePart' /\ \E there : Stay(there)
  BY <1>1, <1>8, Left DEF EndOfStream, At, Wants, Stages
<1>9. ASSUME BridgeFails(c) \/ WatchEnds(c)
      PROVE  TasksTyped' /\ QueuePart' /\ Stay("closed")
  BY <1>1, <1>9, Forgotten DEF BridgeFails, WatchEnds, At, Wants, Stages
<1>10. ASSUME BridgeServes(c) PROVE TasksTyped' /\ QueuePart' /\ Stay("queued")
  BY <1>1, <1>10, Spawned DEF BridgeServes, At, Wants, Stages, Jobs
\* The Mutex is asked for.
<1>11. ASSUME NEW t \in Timeouts, Transfer(c, t)
       PROVE  TasksTyped' /\ QueuePart' /\ mutex' \in Seq(Tasks) /\ MutexPart'
  <2>1. /\ At(c, "idle") /\ Go(c, "lock") /\ UNCHANGED <<job, queue>>
        /\ mutex' = Append(mutex, c)
    BY <1>11 DEF Transfer
  <2>2. TasksTyped'
    BY <1>1, <2>1 DEF SeqsTyped, TasksTyped, Go, Stages
  <2>3. QueuePart'
    BY <1>1, <2>1, QueueStays DEF At
  <2>4. mutex' \in Seq(Tasks)
    BY <1>1, <2>1, AppendToList DEF SeqsTyped
  <2>5. MutexPart'
    BY <1>1, <2>1, MutexJoined DEF At, Wants
  <2>6. QED
    BY <2>2, <2>3, <2>4, <2>5
<1>12. ASSUME TakeThread(c)
       PROVE  TasksTyped' /\ QueuePart' /\ mutex' \in Seq(Tasks) /\ MutexPart'
  <2>1. /\ queue # <<>> /\ Head(queue) = c /\ queue' = Tail(queue)
        /\ Go(c, Begins(job[c])) /\ job' = job
        /\ mutex' = IF Begins(job[c]) = "blocked" THEN Append(mutex, c) ELSE mutex
    BY <1>12 DEF TakeThread, Start
  <2>2. stage[c] = "queued" /\ queue' \in Seq(Tasks)
    BY <1>1, <2>1, TailOfList DEF SeqsTyped, QueuePart, QueueWaits
  <2>3. Begins(job[c]) \in {"blocked", "io", "watch"}
    BY <1>1, <2>2 DEF SeqsTyped, QueuePart, QueuedWorks, Begins, Jobs
  <2>4. TasksTyped'
    BY <1>1, <2>1, <2>2, <2>3 DEF SeqsTyped, TasksTyped, Go, Stages
  <2>5. QueuePart'
    BY <1>1, <2>1, <2>3, QueueLeft
  <2>6. CASE Begins(job[c]) = "blocked"
    <3>1. mutex' = Append(mutex, c) /\ Go(c, "blocked") /\ ~Wants(c)
      BY <2>1, <2>2, <2>6 DEF Wants
    <3>2. mutex' \in Seq(Tasks)
      BY <1>1, <3>1, AppendToList DEF SeqsTyped
    <3>3. MutexPart'
      BY <1>1, <3>1, MutexJoined
    <3>4. QED
      BY <2>4, <2>5, <3>2, <3>3
  <2>7. CASE Begins(job[c]) # "blocked"
    <3>1. Stay(Begins(job[c]))
      BY <2>1, <2>2, <2>3, <2>7 DEF Wants, Stages
    <3>2. QED
      BY <1>3, <2>4, <2>5, <3>1
  <2>8. QED
    BY <2>6, <2>7
\* The Mutex is the task's turn.
<1>13. ASSUME Lock(c)
       PROVE  TasksTyped' /\ QueuePart' /\ mutex' \in Seq(Tasks) /\ MutexPart'
  <2>1. /\ At(c, "lock") /\ Head(mutex) = c /\ Go(c, "test")
        /\ UNCHANGED <<job, queue, mutex>>
    BY <1>13 DEF Lock
  <2>2. TasksTyped' /\ mutex' \in Seq(Tasks)
    BY <1>1, <2>1 DEF SeqsTyped, TasksTyped, Go, Stages
  <2>3. QueuePart'
    BY <1>1, <2>1, QueueStays DEF At
  <2>4. MutexPart'
    BY <1>1, <2>1, MutexStays DEF At, Wants, Stages
  <2>5. QED
    BY <2>2, <2>3, <2>4
\* The Mutex is let go of.
<1>14. ASSUME DropGuard(c)
       PROVE  TasksTyped' /\ QueuePart' /\ mutex' \in Seq(Tasks) /\ MutexPart'
  <2>1. stage[c] = "test" /\ mutex' = Tail(mutex) /\ Wants(c)
    BY <1>14 DEF DropGuard, At, Wants
  <2>2. Head(mutex) = c /\ mutex # <<>>
    BY <1>1, <2>1 DEF MutexPart, TestHolds, WantsListed, SeqsTyped
  <2>3. (Go(c, "queued") \/ Go(c, "send")) /\ TasksTyped' /\ QueuePart'
    <3>1. CASE Spawn(c, "transfer")
      BY <1>1, <2>1, <3>1, Spawned DEF Jobs
    <3>2. CASE Forget(c, "send") /\ UNCHANGED queue
      BY <1>1, <2>1, <3>2, Forgotten DEF Stages
    <3>3. QED
      BY <1>14, <3>1, <3>2 DEF DropGuard
  <2>4. mutex' \in Seq(Tasks)
    BY <1>1, <2>1, <2>2, TailOfList DEF SeqsTyped
  <2>5. MutexPart'
    BY <1>1, <2>1, <2>2, <2>3, MutexLeft
  <2>6. QED
    BY <2>3, <2>4, <2>5
<1>15. ASSUME CallDone(c)
       PROVE  TasksTyped' /\ QueuePart' /\ mutex' \in Seq(Tasks) /\ MutexPart'
  <2>1. /\ stage[c] = "blocked" /\ mutex' = Tail(mutex) /\ Wants(c)
        /\ Head(mutex) = c /\ queue' = queue
    BY <1>15 DEF CallDone, At, Wants
  <2>2. mutex # <<>>
    BY <1>1, <2>1 DEF MutexPart, WantsListed, SeqsTyped
  <2>3. PICK there \in {"closed", "send"} : Forget(c, there)
    BY <1>15 DEF CallDone
  <2>4. Go(c, there) /\ TasksTyped' /\ QueuePart'
    BY <1>1, <2>1, <2>3, Forgotten DEF Stages
  <2>5. mutex' \in Seq(Tasks)
    BY <1>1, <2>1, <2>2, TailOfList DEF SeqsTyped
  <2>6. MutexPart'
    BY <1>1, <2>1, <2>3, <2>4, MutexLeft
  <2>7. QED
    BY <2>4, <2>5, <2>6
<1>16. QED
  BY <1>3, <1>4, <1>5, <1>6, <1>7, <1>8, <1>9, <1>10, <1>11, <1>12, <1>13, <1>14, <1>15
  DEF Step

LEMMA NextMutexInv == MutexInv /\ [Next]_vars => MutexInv'
<1>1. SUFFICES ASSUME MutexInv, [Next]_vars PROVE MutexInv'
  OBVIOUS
<1>2. CASE \E c \in Tasks : \/ accept(c) \/ Step(c) \/ IoDone(c)
                            \/ \E j \in {"call", "bridge"} : Call(c, j)
                            \/ \E t \in Timeouts : Transfer(c, t)
  BY <1>1, <1>2, TaskMutexInv
<1>3. CASE UNCHANGED <<stage, job, queue, mutex>>
  BY <1>1, <1>3
  DEF MutexInv, SeqsTyped, HolderRuns, WantsListed, TestHolds, QueueWaits, QueuedWorks, Wants
<1>4. CASE AcceptFails
  <2>1. SeqsTyped'
    BY <1>4 DEF AcceptFails, SeqsTyped, Stages, Jobs
  <2>2. HolderRuns' /\ WantsListed' /\ TestHolds' /\ QueueWaits' /\ QueuedWorks'
    BY <1>4
    DEF AcceptFails, HolderRuns, WantsListed, TestHolds, QueueWaits, QueuedWorks, Wants
  <2>3. QED
    BY <2>1, <2>2 DEF MutexInv
<1>5. QED
  BY <1>1, <1>2, <1>3, <1>4 DEF Next, Disconnect, Restart, vars, taskVars

\* The Mutex is held by a running thread, or by a task that gives it back before
\* it asks for a thread, and nobody asks for it twice (connection.rs:446-455):
\* for any number of connections and threads.
THEOREM HolderRunsCorrect == Spec => []HolderRuns
<1>1. MutexInv => HolderRuns
  BY DEF MutexInv
<1>2. QED
  BY <1>1, InitMutexInv, NextMutexInv, PTL DEF Spec
-----------------------------------------------------------------------------
(***************************************************************************)
(* The descriptors.  Every bridge the kernel took over is being watched or *)
(* has leaked its descriptor, so that the two together are what served     *)
(* counts.                                                                 *)
(***************************************************************************)
Watching == {c \in Tasks : job[c] = "watch"}

RestTyped == /\ up \in BOOLEAN
             /\ ms \in [Tasks -> Timeouts \cup {0}]
             /\ gone \in [Tasks -> BOOLEAN]

WatchStages == \A c \in Tasks : /\ job[c] = "watch" => stage[c] \in {"queued", "watch"}
                                /\ stage[c] = "watch" => job[c] = "watch"

Counted == /\ leaked \in Nat
           /\ served = leaked + Cardinality(Watching)
           /\ Cardinality(Open) + leaked <= MaxFds

FdsInv == MutexInv /\ RestTyped /\ WatchStages /\ Counted

LEMMA OpenFinite ==
  /\ IsFiniteSet(Open) /\ Cardinality(Open) \in Nat
  /\ IsFiniteSet(Watching) /\ Cardinality(Watching) \in Nat
<1>1. Open \subseteq Tasks /\ Watching \subseteq Tasks
  BY DEF Open, Watching
<1>2. QED
  BY <1>1, RuntimeAssumption, FS_Subset, FS_CardinalityType

\* The bridges watched are among the open connections.
LEMMA WatchingOpen ==
  ASSUME WatchStages PROVE Watching \subseteq Open /\ Cardinality(Watching) <= Cardinality(Open)
<1>1. Watching \subseteq Open
  BY DEF WatchStages, Watching, Open, At
<1>2. QED
  BY <1>1, OpenFinite, FS_Subset

\* Most steps of task c neither begin nor end a connection that keeps a
\* descriptor, nor a watch.
LEMMA PlainCounted ==
  ASSUME SeqsTyped, Counted, WatchStages, NEW c \in Tasks, stage[c] # "closed",
         NEW there \in Stages, Go(c, there), job' \in [Tasks -> Jobs],
         \A d \in Tasks : d # c => job'[d] = job[d],
         job'[c] = "watch" <=> job[c] = "watch",
         job'[c] = "watch" => there \in {"queued", "watch"},
         there = "watch" => job'[c] = "watch",
         UNCHANGED <<served, leaked>>
  PROVE  WatchStages' /\ Counted'
<1>1. stage'[c] = there /\ \A d \in Tasks : d # c => stage'[d] = stage[d]
  BY DEF SeqsTyped, Go
<1>2. WatchStages'
  BY <1>1 DEF WatchStages
<1>3. Watching' = Watching
  BY DEF Watching
<1>4. Open' \subseteq Open
  BY <1>1 DEF Open, At
<1>5. Cardinality(Open') <= Cardinality(Open) /\ Cardinality(Open') \in Nat
  BY <1>4, OpenFinite, FS_Subset, FS_CardinalityType
<1>6. MaxFds \in Nat
  BY RuntimeAssumption
<1>7. Counted'
  BY <1>3, <1>5, <1>6, OpenFinite DEF Counted
<1>8. QED
  BY <1>2, <1>7

LEMMA InitFdsInv == Init => FdsInv
<1>1. SUFFICES ASSUME Init PROVE FdsInv
  OBVIOUS
<1>2. RestTyped /\ WatchStages
  BY <1>1 DEF Init, Fresh, RestTyped, WatchStages
<1>3. Watching = {} /\ Open = {}
  BY <1>1 DEF Init, Fresh, Watching, Open, At
<1>4. Counted
  BY <1>1, <1>3, FS_EmptySet, RuntimeAssumption DEF Init, Fresh, Counted
<1>5. QED
  BY <1>1, <1>2, <1>4, InitMutexInv DEF FdsInv

LEMMA TaskRestTyped ==
  ASSUME RestTyped, NEW c \in Tasks,
         \/ accept(c) \/ Step(c) \/ IoDone(c)
         \/ \E j \in {"call", "bridge"} : Call(c, j)
         \/ \E t \in Timeouts : Transfer(c, t)
  PROVE  RestTyped'
<1>1. CASE Step(c) \/ IoDone(c)
  <2>1. up' = up /\ gone' = gone
    BY <1>1 DEF Step, Lock, DropGuard, TakeThread, Start, CallDone, IoDone, Send, EndOfStream,
                BridgeFails, BridgeServes, WatchEnds
  <2>2. ms' = ms \/ ms' = [ms EXCEPT ![c] = 0]
    BY <1>1 DEF Step, Lock, DropGuard, TakeThread, Start, CallDone, IoDone, Send, EndOfStream,
                BridgeFails, BridgeServes, WatchEnds, Leave, Forget
  <2>3. QED
    BY <2>1, <2>2 DEF RestTyped
<1>2. CASE accept(c)
  BY <1>2 DEF accept, RestTyped
<1>3. CASE \E j \in {"call", "bridge"} : Call(c, j)
  BY <1>3 DEF Call, RestTyped
<1>4. CASE \E t \in Timeouts : Transfer(c, t)
  BY <1>4 DEF Transfer, RestTyped
<1>5. QED
  BY <1>1, <1>2, <1>3, <1>4

\* What a step of task c does to its stage and job when it is none of accept,
\* BridgeServes and WatchEnds.
LEMMA PlainStep ==
  ASSUME MutexInv, WatchStages, NEW c \in Tasks,
         \/ Lock(c) \/ DropGuard(c) \/ TakeThread(c) \/ CallDone(c) \/ IoDone(c)
         \/ Send(c) \/ EndOfStream(c) \/ BridgeFails(c)
         \/ \E j \in {"call", "bridge"} : Call(c, j)
         \/ \E t \in Timeouts : Transfer(c, t)
  PROVE  /\ stage[c] # "closed" /\ UNCHANGED <<served, leaked>>
         /\ \A d \in Tasks : d # c => job'[d] = job[d]
         /\ \E there \in Stages :
              /\ Go(c, there)
              /\ job'[c] = "watch" <=> job[c] = "watch"
              /\ job'[c] = "watch" => there \in {"queued", "watch"}
              /\ there = "watch" => job'[c] = "watch"
<1>1. stage \in [Tasks -> Stages] /\ job \in [Tasks -> Jobs]
  BY DEF MutexInv, SeqsTyped
<1> DEFINE Plain == /\ UNCHANGED <<served, leaked>>
                    /\ \A d \in Tasks : d # c => job'[d] = job[d]
                    /\ \E there \in Stages :
                         /\ Go(c, there)
                         /\ job'[c] = "watch" <=> job[c] = "watch"
                         /\ job'[c] = "watch" => there \in {"queued", "watch"}
                         /\ there = "watch" => job'[c] = "watch"
<1>2. ASSUME NEW there \in Stages \ {"watch"}, stage[c] \notin {"queued", "watch"},
             Forget(c, there), UNCHANGED <<served, leaked>>
      PROVE  Plain
  BY <1>1, <1>2 DEF Forget, WatchStages
<1>3. ASSUME NEW j \in Jobs \ {"watch"}, stage[c] \notin {"queued", "watch"},
             Spawn(c, j), UNCHANGED <<served, leaked>>
      PROVE  Plain
  BY <1>1, <1>3 DEF Spawn, WatchStages, Stages
<1>4. ASSUME stage[c] \notin {"queued", "watch"}, Leave(c), UNCHANGED <<served, leaked>>
      PROVE  Plain
  BY <1>2, <1>3, <1>4 DEF Leave, Stages, Jobs
<1>5. ASSUME NEW there \in Stages \ {"watch"}, stage[c] \notin {"queued", "watch"},
             Go(c, there), UNCHANGED <<job, served, leaked>>
      PROVE  Plain
  BY <1>1, <1>5 DEF WatchStages
<1>6. CASE Lock(c)
  BY <1>5, <1>6 DEF Lock, At, Stages
<1>7. CASE DropGuard(c)
  BY <1>2, <1>3, <1>7 DEF DropGuard, At, Stages, Jobs
<1>8. CASE TakeThread(c)
  <2>1. Go(c, Begins(job[c])) /\ UNCHANGED <<job, served, leaked>>
    BY <1>8 DEF TakeThread, Start
  <2>2. stage[c] = "queued"
    BY <1>8, TailOfList DEF TakeThread, MutexInv, SeqsTyped, QueueWaits
  <2>3. Begins(job[c]) \in Stages /\ (Begins(job[c]) = "watch" <=> job[c] = "watch")
    BY <1>1, <2>2 DEF MutexInv, QueuedWorks, Begins, Jobs, Stages
  <2>4. QED
    BY <2>1, <2>2, <2>3
<1>9. CASE CallDone(c)
  BY <1>2, <1>9 DEF CallDone, At, Stages
<1>10. CASE IoDone(c)
  BY <1>2, <1>5, <1>10 DEF IoDone, At, Stages
<1>11. CASE Send(c)
  BY <1>2, <1>4, <1>11 DEF Send, At, Stages
<1>12. CASE EndOfStream(c)
  BY <1>4, <1>12 DEF EndOfStream, At
<1>13. CASE BridgeFails(c)
  BY <1>2, <1>13 DEF BridgeFails, At, Stages
<1>14. CASE \E j \in {"call", "bridge"} : Call(c, j)
  BY <1>3, <1>14 DEF Call, At, Jobs
<1>15. CASE \E t \in Timeouts : Transfer(c, t)
  BY <1>5, <1>15 DEF Transfer, At, Stages
<1>16. QED
  BY <1>6, <1>7, <1>8, <1>9, <1>10, <1>11, <1>12, <1>13, <1>14, <1>15

LEMMA TaskFdsInv ==
  ASSUME FdsInv, NEW c \in Tasks,
         \/ accept(c) \/ Step(c) \/ IoDone(c)
         \/ \E j \in {"call", "bridge"} : Call(c, j)
         \/ \E t \in Timeouts : Transfer(c, t)
  PROVE  FdsInv'
<1>1. MutexInv /\ RestTyped /\ WatchStages /\ Counted
  BY DEF FdsInv
<1>2. MutexInv'
  BY <1>1, TaskMutexInv
<1>3. RestTyped'
  BY <1>1, TaskRestTyped
<1>4. /\ stage \in [Tasks -> Stages] /\ job \in [Tasks -> Jobs]
      /\ stage' \in [Tasks -> Stages] /\ job' \in [Tasks -> Jobs]
  BY <1>1, <1>2 DEF MutexInv, SeqsTyped
<1>5. MaxFds \in Nat
  BY RuntimeAssumption
<1>6. SUFFICES WatchStages' /\ Counted'
  BY <1>2, <1>3 DEF FdsInv
<1>7. CASE accept(c)
  <2>1. /\ stage[c] = "closed" /\ Go(c, "idle") /\ UNCHANGED <<job, served, leaked>>
        /\ Cardinality(Open) + leaked < MaxFds
    BY <1>7 DEF accept, At
  <2>2. WatchStages'
    BY <1>1, <1>4, <2>1 DEF Go, WatchStages
  <2>3. Open' = Open \cup {c} /\ Watching' = Watching
    BY <1>4, <2>1 DEF Open, Watching, At, Go
  <2>4. c \notin Open
    BY <2>1 DEF Open, At
  <2>5. Cardinality(Open') = Cardinality(Open) + 1
    BY <2>3, <2>4, OpenFinite, FS_AddElement
  <2>6. Counted'
    BY <1>1, <1>5, <2>1, <2>3, <2>5, OpenFinite DEF Counted
  <2>7. QED
    BY <2>2, <2>6
<1>8. CASE BridgeServes(c)
  <2>1. /\ stage[c] = "handover" /\ Go(c, "queued") /\ job' = [job EXCEPT ![c] = "watch"]
        /\ served' = served + 1 /\ leaked' = leaked
    BY <1>8 DEF BridgeServes, At, Spawn
  <2>2. c \notin Watching
    BY <1>1, <2>1 DEF WatchStages, Watching
  <2>3. WatchStages'
    BY <1>1, <1>4, <2>1 DEF Go, WatchStages
  <2>4. Open' = Open /\ Watching' = Watching \cup {c}
    BY <1>4, <2>1 DEF Open, Watching, At, Go
  <2>5. Cardinality(Watching') = Cardinality(Watching) + 1
    BY <2>2, <2>4, OpenFinite, FS_AddElement
  <2>6. Counted'
    BY <1>1, <2>1, <2>4, <2>5, OpenFinite DEF Counted
  <2>7. QED
    BY <2>3, <2>6
<1>9. CASE WatchEnds(c)
  <2>1. /\ stage[c] = "watch" /\ Go(c, "closed") /\ job' = [job EXCEPT ![c] = "none"]
        /\ served' = served /\ leaked' = leaked + 1
    BY <1>9 DEF WatchEnds, At, Forget
  <2>2. c \in Watching /\ c \in Open
    BY <1>1, <2>1 DEF WatchStages, Watching, Open, At
  <2>3. WatchStages'
    BY <1>1, <1>4, <2>1 DEF Go, WatchStages
  <2>4. Open' = Open \ {c} /\ Watching' = Watching \ {c}
    BY <1>4, <2>1 DEF Open, Watching, At, Go
  <2>5. /\ Cardinality(Open') = Cardinality(Open) - 1
        /\ Cardinality(Watching') = Cardinality(Watching) - 1
    BY <2>2, <2>4, OpenFinite, FS_RemoveElement
  <2>6. Counted'
    BY <1>1, <2>1, <2>5, OpenFinite DEF Counted
  <2>7. QED
    BY <2>3, <2>6
<1>10. CASE \/ Lock(c) \/ DropGuard(c) \/ TakeThread(c) \/ CallDone(c) \/ IoDone(c)
            \/ Send(c) \/ EndOfStream(c) \/ BridgeFails(c)
            \/ \E j \in {"call", "bridge"} : Call(c, j)
            \/ \E t \in Timeouts : Transfer(c, t)
  <2>1. /\ stage[c] # "closed" /\ UNCHANGED <<served, leaked>>
        /\ \A d \in Tasks : d # c => job'[d] = job[d]
    BY <1>1, <1>10, PlainStep
  <2>2. PICK there \in Stages : /\ Go(c, there)
                                /\ job'[c] = "watch" <=> job[c] = "watch"
                                /\ job'[c] = "watch" => there \in {"queued", "watch"}
                                /\ there = "watch" => job'[c] = "watch"
    BY <1>1, <1>10, PlainStep
  <2>3. QED
    BY <1>1, <1>4, <2>1, <2>2, PlainCounted DEF MutexInv
<1>11. QED
  BY <1>7, <1>8, <1>9, <1>10 DEF Step

LEMMA NextFdsInv == FdsInv /\ [Next]_vars => FdsInv'
<1>1. SUFFICES ASSUME FdsInv, [Next]_vars PROVE FdsInv'
  OBVIOUS
<1>2. CASE \E c \in Tasks : \/ accept(c) \/ Step(c) \/ IoDone(c)
                            \/ \E j \in {"call", "bridge"} : Call(c, j)
                            \/ \E t \in Timeouts : Transfer(c, t)
  BY <1>1, <1>2, TaskFdsInv
<1>3. MutexInv'
  BY <1>1, NextMutexInv DEF FdsInv
<1>4. CASE AcceptFails
  <2>1. RestTyped' /\ WatchStages'
    BY <1>4, <1>1 DEF AcceptFails, FdsInv, RestTyped, WatchStages
  <2>2. Open' = {} /\ Watching' = {}
    BY <1>4 DEF AcceptFails, Open, Watching, At
  <2>3. Counted'
    BY <1>4, <2>2, FS_EmptySet, RuntimeAssumption DEF AcceptFails, Counted
  <2>4. QED
    BY <1>3, <2>1, <2>3 DEF FdsInv
<1>5. CASE UNCHANGED <<stage, job, served, leaked, ms>> /\ RestTyped'
  <2>1. Open' = Open /\ Watching' = Watching
    BY <1>5 DEF Open, Watching, At
  <2>2. WatchStages' /\ Counted'
    BY <1>1, <1>5, <2>1 DEF FdsInv, WatchStages, Counted
  <2>3. QED
    BY <1>3, <1>5, <2>2 DEF FdsInv
<1>6. CASE \E c \in Tasks : Disconnect(c)
  BY <1>1, <1>5, <1>6 DEF Disconnect, FdsInv, RestTyped
<1>7. CASE Restart
  BY <1>1, <1>5, <1>7 DEF Restart, taskVars, FdsInv, RestTyped
<1>8. CASE UNCHANGED vars
  BY <1>1, <1>5, <1>8 DEF vars, taskVars, FdsInv, RestTyped
<1>9. QED
  BY <1>1, <1>2, <1>4, <1>6, <1>7, <1>8 DEF Next

LEMMA AlwaysFdsInv == Spec => []FdsInv
  BY InitFdsInv, NextFdsInv, PTL DEF Spec

\* The server's tasks, queues and descriptors keep their types; of the two
\* counters that means that descriptors are never overdrawn (listener.rs:32).
THEOREM RuntimeTypeCorrect == Spec => []TypeOK
<1>1. FdsInv => TypeOK
  <2>1. SUFFICES ASSUME FdsInv PROVE TypeOK
    OBVIOUS
  <2>2. {served, leaked} \subseteq 0 .. MaxFds
    BY <2>1, OpenFinite, WatchingOpen, RuntimeAssumption DEF FdsInv, Counted
  <2>3. QED
    BY <2>1, <2>2 DEF FdsInv, MutexInv, SeqsTyped, RestTyped, TypeOK
<1>2. QED
  BY <1>1, AlwaysFdsInv, PTL

\* The server stops for want of a descriptor (listener.rs:32) only when the
\* bridges served and the connections open are as many as its descriptors.
THEOREM StopsOnlyForBridgesCorrect == Spec => StopsOnlyForBridges
<1> DEFINE ForBridges == (up /\ ~up') => served + Cardinality(Open) >= MaxFds
<1>1. ASSUME FdsInv, [Next]_vars PROVE [ForBridges]_vars
  <2>1. SUFFICES ASSUME Next, up, ~up' PROVE served + Cardinality(Open) >= MaxFds
    BY <1>1
  <2>2. AcceptFails
    BY <2>1
    DEF Next, accept, Disconnect, Step, Lock, DropGuard, TakeThread, Start, CallDone, IoDone,
        Send, EndOfStream, BridgeFails, BridgeServes, WatchEnds, Call, Transfer, Restart
  <2>3. Cardinality(Open) + leaked >= MaxFds
    BY <2>2 DEF AcceptFails
  <2>4. QED
    BY <1>1, <2>3, OpenFinite, RuntimeAssumption DEF FdsInv, Counted
<1>2. QED
  BY <1>1, AlwaysFdsInv, PTL DEF Spec, StopsOnlyForBridges
=============================================================================
