------------------------------- MODULE Runtime -------------------------------
(***************************************************************************)
(* What the server's connections share beside the DeviceManager's tables:  *)
(* the Mutex around them, the threads of tokio's blocking pool, and the    *)
(* process's descriptors.  listener.rs and connection.rs with the parts of *)
(* bridge.rs and transfer.rs that take or give back one of the three; what *)
(* the calls do to devices is in Connection.tla and KernelBridge.tla.      *)
(*                                                                         *)
(*  call, cleanup:  idle - queued - blocked - send - idle, or closed       *)
(*  transfer:       idle - lock - test - queued - io - send - idle         *)
(*  bridge:         idle - queued - io - send - handover - queued - watch  *)
(***************************************************************************)
EXTENDS Naturals, Sequences, FiniteSets

CONSTANTS Tasks,        \* connection tasks; a closed one's slot is used again
          Threads,      \* threads of the blocking pool
          MaxFds,       \* descriptors for connections
          TimeoutBits,  \* width of libusb's timeout
          Timeouts      \* timeout_ms of the transfers that clients ask for

ASSUME RuntimeAssumption == /\ IsFiniteSet(Tasks)
                            /\ {Threads, MaxFds, TimeoutBits} \subseteq Nat \ {0}
                            /\ Timeouts \subseteq Nat

VARIABLES up,      \* the server process runs
          stage,   \* where the task is
          job,     \* what the closure it gives to the pool does
          ms,      \* the timeout of its transfer
          gone,    \* its client has closed the connection
          queue,   \* tasks whose closure waits for a thread, oldest first
          mutex,   \* the Mutex: its holder, then those who wait for it in turn
          served,  \* bridges the kernel took over since the server started
          leaked   \* descriptors of ended bridges that stay open

taskVars == <<stage, job, ms, gone>>
vars == <<up, taskVars, queue, mutex, served, leaked>>

Stages == {"closed", "idle", "lock", "test", "queued", "blocked", "io", "send",
           "handover", "watch"}
Jobs == {"none", "call", "transfer", "bridge", "watch", "cleanup"}

TypeOK == /\ up \in BOOLEAN
          /\ stage \in [Tasks -> Stages]
          /\ job \in [Tasks -> Jobs]
          /\ ms \in [Tasks -> Timeouts \cup {0}]
          /\ gone \in [Tasks -> BOOLEAN]
          /\ queue \in Seq(Tasks) /\ mutex \in Seq(Tasks)
          /\ {served, leaked} \subseteq 0 .. MaxFds

Fresh == /\ stage = [c \in Tasks |-> "closed"]
         /\ job = [c \in Tasks |-> "none"]
         /\ ms = [c \in Tasks |-> 0]
         /\ gone = [c \in Tasks |-> FALSE]
         /\ queue = <<>> /\ mutex = <<>>
         /\ served = 0 /\ leaked = 0

Init == up = TRUE /\ Fresh

At(c, here) == stage[c] = here
Go(c, there) == stage' = [stage EXCEPT ![c] = there]
Open == {c \in Tasks : ~At(c, "closed")}
Busy == {c \in Tasks : stage[c] \in {"blocked", "io", "watch"}}

\* The task is done with its request, or altogether.
Forget(c, there) == /\ Go(c, there)
                    /\ job' = [job EXCEPT ![c] = "none"]
                    /\ ms' = [ms EXCEPT ![c] = 0]

\* spawn_blocking: the closure does j.
Spawn(c, j) == /\ Go(c, "queued")
               /\ job' = [job EXCEPT ![c] = j]
               /\ queue' = Append(queue, c)

(***************************************************************************)
(* run_server                                                              *)
(***************************************************************************)
accept(c) == /\ up /\ At(c, "closed")
             /\ Cardinality(Open) + leaked < MaxFds
             /\ Go(c, "idle")
             /\ gone' = [gone EXCEPT ![c] = FALSE]
             /\ UNCHANGED <<up, job, ms, queue, mutex, served, leaked>>

\* accept finds no descriptor: its error is run_server's, main's and the
\* process's, and every connection ends.
AcceptFails == /\ up /\ Open # Tasks
               /\ Cardinality(Open) + leaked >= MaxFds
               /\ up' = FALSE
               /\ stage' = [c \in Tasks |-> "closed"]
               /\ job' = [c \in Tasks |-> "none"]
               /\ ms' = [c \in Tasks |-> 0]
               /\ gone' = [c \in Tasks |-> FALSE]
               /\ queue' = <<>> /\ mutex' = <<>>
               /\ served' = 0 /\ leaked' = 0

\* The unit's Restart=on-failure.
Restart == /\ ~up
           /\ up' = TRUE
           /\ UNCHANGED <<taskVars, queue, mutex, served, leaked>>

Disconnect(c) == /\ ~At(c, "closed") /\ ~gone[c]
                 /\ gone' = [gone EXCEPT ![c] = TRUE]
                 /\ UNCHANGED <<up, stage, job, ms, queue, mutex, served, leaked>>

(***************************************************************************)
(* The tasks.                                                              *)
(***************************************************************************)
\* A request whose handler goes to the pool at once: a call of DeviceManager,
\* or handle_bridge's look at the bus.
Call(c, j) == /\ At(c, "idle") /\ ~gone[c]
              /\ Spawn(c, j)
              /\ UNCHANGED <<up, ms, gone, mutex, served, leaked>>

\* A transfer's handler first waits for the Mutex as a task.
Transfer(c, t) == /\ At(c, "idle") /\ ~gone[c]
                  /\ Go(c, "lock")
                  /\ ms' = [ms EXCEPT ![c] = t]
                  /\ mutex' = Append(mutex, c)
                  /\ UNCHANGED <<up, job, gone, queue, served, leaked>>

Lock(c) == /\ At(c, "lock") /\ Head(mutex) = c
           /\ Go(c, "test")
           /\ UNCHANGED <<up, job, ms, gone, queue, mutex, served, leaked>>

\* Mutant of DropGuard: the guard lives until the transfer is over.
DropGuard_late(c) == /\ At(c, "test")
                     /\ Spawn(c, "transfer")
                     /\ UNCHANGED <<up, ms, gone, mutex, served, leaked>>

\* The block with the two tests ends, and with it the guard.
DropGuard(c) == /\ At(c, "test")
                /\ mutex' = Tail(mutex)
                /\ \/ Spawn(c, "transfer")
                      /\ UNCHANGED ms
                   \/ Forget(c, "send") /\ UNCHANGED queue
                /\ UNCHANGED <<up, gone, served, leaked>>

\* Where a closure begins: at blocking_lock, on a device, or at its wait.
Begins(j) == CASE j \in {"call", "cleanup"}    -> "blocked"
               [] j \in {"transfer", "bridge"} -> "io"
               [] j = "watch"                  -> "watch"

Start(c) == /\ Cardinality(Busy) < Threads
            /\ Go(c, Begins(job[c]))
            /\ mutex' = IF Begins(job[c]) = "blocked" THEN Append(mutex, c) ELSE mutex
            /\ UNCHANGED <<up, job, ms, gone, served, leaked>>

\* Mutant of TakeThread: the last closure is taken first.
TakeThread_last(c) == /\ queue # <<>> /\ queue[Len(queue)] = c
                      /\ queue' = SubSeq(queue, 1, Len(queue) - 1)
                      /\ Start(c)

TakeThread(c) == /\ queue # <<>> /\ Head(queue) = c
                 /\ queue' = Tail(queue)
                 /\ Start(c)

\* The Mutex is the thread's turn; the method runs, and lets go of both.
CallDone(c) == /\ At(c, "blocked") /\ Head(mutex) = c
               /\ mutex' = Tail(mutex)
               /\ Forget(c, IF job[c] = "cleanup" THEN "closed" ELSE "send")
               /\ UNCHANGED <<up, gone, queue, served, leaked>>

\* Mutant of safe_timeout: no minimum.
safe_timeout_as_is(t) == t
safe_timeout(t) == IF t = 0 THEN 1 ELSE t

\* rusb hands libusb the milliseconds as an unsigned int; 0 waits for ever.
TimesOut(c) == job[c] = "transfer" => safe_timeout(ms[c]) % 2 ^ TimeoutBits # 0

\* The transfer, or the look at the bus, is over.
IoDone(c) == /\ At(c, "io")
             /\ IF job[c] = "bridge" THEN Go(c, "send") /\ UNCHANGED <<job, ms>>
                                     ELSE Forget(c, "send")
             /\ UNCHANGED <<up, gone, queue, mutex, served, leaked>>

\* The loop ends: cleanup needs a thread if the connection has sessions.
Leave(c) == \/ Spawn(c, "cleanup") /\ UNCHANGED ms
            \/ Forget(c, "closed") /\ UNCHANGED queue

Send(c) == /\ At(c, "send")
           /\ \/ ~gone[c] /\ Forget(c, "idle") /\ UNCHANGED queue
              \/ ~gone[c] /\ job[c] = "bridge" /\ Forget(c, "handover") /\ UNCHANGED queue
              \/ gone[c] /\ Leave(c)
           /\ UNCHANGED <<up, gone, mutex, served, leaked>>

EndOfStream(c) == /\ At(c, "idle") /\ gone[c]
                  /\ Leave(c)
                  /\ UNCHANGED <<up, gone, mutex, served, leaked>>

\* Mutant of BridgeFails: the descriptor is given away before the kernel has
\* accepted it.
BridgeFails_leaks(c) == /\ At(c, "handover")
                        /\ Forget(c, "closed")
                        /\ leaked' = leaked + 1
                        /\ UNCHANGED <<up, gone, queue, mutex, served>>

\* An error of run_bridge_inner before the hand-over closes the socket.
BridgeFails(c) == /\ At(c, "handover")
                  /\ Forget(c, "closed")
                  /\ UNCHANGED <<up, gone, queue, mutex, served, leaked>>

\* The kernel has the socket; the process's descriptor of it is leaked.
BridgeServes(c) == /\ At(c, "handover")
                   /\ Spawn(c, "watch")
                   /\ served' = served + 1
                   /\ UNCHANGED <<up, ms, gone, mutex, leaked>>

\* Mutant of WatchEnds: a clone of the socket stays open as well.
WatchEnds_clone(c) == /\ At(c, "watch") /\ gone[c]
                      /\ Forget(c, "closed")
                      /\ leaked' = leaked + 2
                      /\ UNCHANGED <<up, gone, queue, mutex, served>>

\* wait_until_detached returns some time after the client has gone.
WatchEnds(c) == /\ At(c, "watch") /\ gone[c]
                /\ Forget(c, "closed")
                /\ leaked' = leaked + 1
                /\ UNCHANGED <<up, gone, queue, mutex, served>>

Step(c) == \/ Lock(c) \/ DropGuard(c) \/ TakeThread(c) \/ CallDone(c)
           \/ TimesOut(c) /\ IoDone(c)
           \/ Send(c) \/ EndOfStream(c) \/ BridgeFails(c) \/ BridgeServes(c)
           \/ WatchEnds(c)

Next == \/ \E c \in Tasks :
             \/ accept(c) \/ Disconnect(c) \/ Step(c) \/ IoDone(c)
             \/ \E j \in {"call", "bridge"} : Call(c, j)
             \/ \E t \in Timeouts : Transfer(c, t)
        \/ AcceptFails \/ Restart

Spec == Init /\ [][Next]_vars

\* tokio polls a task that can go on and runs the pool's closures; libusb calls
\* return, transfers by their timeout; the poll of usbip_status has a timer.
\* Nothing is assumed of clients, nor of a device whose transfer has none.
FairSpec == Spec /\ WF_vars(Restart) /\ \A c \in Tasks : WF_vars(Step(c))
-----------------------------------------------------------------------------
\* The threads that will not come back by themselves: bridges whose client is
\* there, and transfers whose timeout is a nonzero multiple of libusb's 2^32.
Held == {c \in Tasks : \/ At(c, "watch") /\ ~gone[c]
                       \/ At(c, "io") /\ job[c] = "transfer" /\ ms[c] >= 2 ^ TimeoutBits}

Waiting(c) == /\ stage[c] \in {"lock", "test", "queued", "blocked", "io", "send"}
              /\ job[c] # "watch"

\* A request is answered, and a cleanup done, unless bridges hold every thread
\* of the pool (bridge.rs:145; "Run on a blocking thread so we don't tie up the
\* Tokio runtime", bridge.rs:144): the Mutex and the pool together deadlock
\* nobody and starve nobody.
CallsReturn == \A c \in Tasks : Waiting(c) ~> (~Waiting(c) \/ Cardinality(Held) = Threads
                                                 \/ c \in Held)

\* Whoever has the Mutex is a thread, or a task that lets go of it before it
\* asks for one (connection.rs:446-455): nobody holds it while he waits for a
\* thread, and nobody asks for it twice.
HolderRuns == /\ \A i \in 1 .. Len(mutex) : stage[mutex[i]] \in {"lock", "test", "blocked"}
              /\ \A i, j \in 1 .. Len(mutex) : mutex[i] = mutex[j] => i = j

\* When its client has gone a connection ends and gives its slot back, wherever
\* it was, unless the pool's threads are held (connection.rs:105-158, 611-625).
ConnectionsEnd == \A c \in Tasks :
   gone[c] ~> (At(c, "closed") \/ Cardinality(Held) = Threads \/ c \in Held)

\* The server stops for want of a descriptor (listener.rs:32) only when bridges
\* have been served: every other way a connection ends gives its own back.
StopsOnlyForBridges == [][(up /\ ~up') => served + Cardinality(Open) >= MaxFds]_vars
=============================================================================
