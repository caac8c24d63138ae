-------------------------------- MODULE Mount --------------------------------
(***************************************************************************)
(* client/mount.rs with bridge/vhci.rs: the processes `wolfusb mount` of   *)
(* one host, which import a remote device into a port of the kernel's      *)
(* vhci_hcd and then watch the port.  The host's port table is shared; the *)
(* kernel's side of it is modelled as the code uses it.  systemd starts a  *)
(* mount that exits with an error again (Restart=always, mount.rs:117).    *)
(***************************************************************************)
EXTENDS Naturals, FiniteSetsExt

CONSTANTS Mounts,    \* mount processes
          Ports,     \* vhci port numbers, tried in increasing order
          NoMount,
          MaxFree    \* CONSECUTIVE_FREE_TO_EXIT

ASSUME MountAssumption == /\ NoMount \notin Mounts
                          /\ Ports \subseteq Nat
                          /\ MaxFree \in Nat /\ MaxFree > 1

VARIABLES pc,       \* the process: where it is in cmd_mount
          port,     \* the port number find_free_port gave it
          free,     \* consecutive_free
          session,  \* the USB/IP socket to the source server is alive
          owner,    \* owner[p]: the mount whose socket vhci has on port p
          left      \* ports whose mount was killed: vhci keeps the socket

vars == <<pc, port, free, session, owner, left>>

PCs == {"down", "imported", "chosen", "parked", "lost", "detached"}

TypeOK == /\ pc \in [Mounts -> PCs]
          /\ port \in [Mounts -> Ports \cup {0}]
          /\ free \in [Mounts -> 0 .. MaxFree]
          /\ session \in [Mounts -> BOOLEAN]
          /\ owner \in [Ports -> Mounts \cup {NoMount}]
          /\ left \subseteq Ports

Init == /\ pc = [m \in Mounts |-> "down"]
        /\ port = [m \in Mounts |-> 0]
        /\ free = [m \in Mounts |-> 0]
        /\ session = [m \in Mounts |-> FALSE]
        /\ owner = [p \in Ports |-> NoMount]
        /\ left = {}

FreePorts == {p \in Ports : owner[p] = NoMount}
Parked(m) == pc[m] = "parked"

\* Connect, Hello, Bridge and OP_REQ_IMPORT went through; if they do not, the
\* process exits and is started again, which is no step here.
cmd_mount(m) == /\ pc[m] \in {"down", "lost"}
                /\ pc' = [pc EXCEPT ![m] = "imported"]
                /\ session' = [session EXCEPT ![m] = TRUE]
                /\ free' = [free EXCEPT ![m] = 0]
                /\ UNCHANGED <<port, owner, left>>

\* The process exits with an error, and its socket is closed.
Fails(m) == /\ pc' = [pc EXCEPT ![m] = "lost"]
            /\ session' = [session EXCEPT ![m] = FALSE]

\* The first free line of the status file; with none the process exits.
find_free_port(m) ==
  /\ pc[m] = "imported"
  /\ IF FreePorts = {} THEN Fails(m) /\ UNCHANGED port
                       ELSE /\ pc' = [pc EXCEPT ![m] = "chosen"]
                            /\ port' = [port EXCEPT ![m] = Min(FreePorts)]
                            /\ UNCHANGED session
  /\ UNCHANGED <<free, owner, left>>

\* Mutant of attach: the port that it did not get is cleaned up.
attach_cleans_up(m) ==
  /\ pc[m] = "chosen"
  /\ IF owner[port[m]] = NoMount
     THEN /\ owner' = [owner EXCEPT ![port[m]] = m]
          /\ pc' = [pc EXCEPT ![m] = "parked"] /\ UNCHANGED session
     ELSE owner' = [owner EXCEPT ![port[m]] = NoMount] /\ Fails(m)
  /\ UNCHANGED <<port, free, left>>

\* The write of the attach file; vhci refuses a port that is in use by now.
attach(m) ==
  /\ pc[m] = "chosen"
  /\ IF owner[port[m]] = NoMount
     THEN /\ owner' = [owner EXCEPT ![port[m]] = m]
          /\ pc' = [pc EXCEPT ![m] = "parked"] /\ UNCHANGED session
     ELSE UNCHANGED owner /\ Fails(m)
  /\ UNCHANGED <<port, free, left>>

\* The loop of polls breaks, or turns.
Break(m, when) == IF when THEN Fails(m) ELSE UNCHANGED <<pc, session>>

\* Mutants of Poll: one free read is enough; the count never gets past one; it
\* goes one too far.
Poll_first_read(m, read) == /\ Parked(m)
                            /\ free' = [free EXCEPT ![m] = IF read THEN 0 ELSE @ + 1]
                            /\ Break(m, free'[m] >= MaxFree - 1)
                            /\ UNCHANGED <<port, owner, left>>
Poll_set_to_one(m, read) == /\ Parked(m)
                            /\ free' = [free EXCEPT ![m] = IF read THEN 0 ELSE 1]
                            /\ Break(m, free'[m] >= MaxFree)
                            /\ UNCHANGED <<port, owner, left>>
Poll_one_more(m, read) == /\ Parked(m)
                          /\ free' = [free EXCEPT ![m] = IF read THEN 0 ELSE @ + 1]
                          /\ Break(m, free'[m] > MaxFree)
                          /\ UNCHANGED <<port, owner, left>>

\* One turn of the port_lost loop.  read is what port_in_use makes of the
\* status file: the port's line, or FALSE when it could not be read.
Poll(m, read) == /\ Parked(m)
                 /\ free' = [free EXCEPT ![m] = IF read THEN 0 ELSE @ + 1]
                 /\ Break(m, free'[m] >= MaxFree)
                 /\ UNCHANGED <<port, owner, left>>

port_in_use(m) == owner[port[m]] # NoMount

PollStatus(m) == Poll(m, port_in_use(m))

\* A transient failure to read the status file; never two in a row, the case
\* the two reads are there for (mount.rs:113-116).
PollBlip(m) == free[m] = 0 /\ Poll(m, FALSE)

\* vhci lets go of the socket on port p, and closes it.
Release(p) == /\ owner' = [owner EXCEPT ![p] = NoMount]
              /\ session' = [m \in Mounts |-> session[m] /\ (owner[p] = m => p \in left)]
              /\ left' = left \ {p}

\* Mutant of CtrlC: the process only exits.
CtrlC_exits(m) == /\ Parked(m)
                  /\ pc' = [pc EXCEPT ![m] = "detached"]
                  /\ UNCHANGED <<port, free, session, owner, left>>

\* Ctrl-C: detach writes the number of the port, whoever has it now.
CtrlC(m) == /\ Parked(m)
            /\ Release(port[m])
            /\ pc' = [pc EXCEPT ![m] = "detached"]
            /\ UNCHANGED <<port, free>>

\* SIGTERM or SIGKILL at any time, SIGINT before the park: no handler runs, the
\* process's descriptors are closed, and vhci's own hold of the socket stays.
Killed(m) == /\ pc[m] \in {"imported", "chosen", "parked"}
             /\ pc' = [pc EXCEPT ![m] = "down"]
             /\ session' = [session EXCEPT ![m] = FALSE]
             /\ left' = left \cup {p \in Ports : owner[p] = m}
             /\ UNCHANGED <<port, free, owner>>

\* The source server closes the connection or reboots.
SourceGone(m) == /\ session[m]
                 /\ session' = [session EXCEPT ![m] = FALSE]
                 /\ UNCHANGED <<pc, port, free, owner, left>>

\* vhci frees the port of a dead socket.
KernelFrees(p) == /\ owner[p] # NoMount /\ p \notin left /\ ~session[owner[p]]
                  /\ Release(p)
                  /\ UNCHANGED <<pc, port, free>>

\* So it does with a killed mount's, when the source goes: nothing says when.
LeftFreed(p) == /\ p \in left
                /\ Release(p)
                /\ UNCHANGED <<pc, port, free>>

Next == \/ \E m \in Mounts : \/ cmd_mount(m) \/ find_free_port(m) \/ attach(m)
                             \/ PollStatus(m) \/ PollBlip(m) \/ CtrlC(m)
                             \/ SourceGone(m) \/ Killed(m)
        \/ \E p \in Ports : KernelFrees(p) \/ LeftFreed(p)

Spec == Init /\ [][Next]_vars

\* The poll has a timer of its own, vhci notices a dead socket, and systemd
\* starts a lost mount again.
FairSpec == /\ Spec
            /\ \A p \in Ports : WF_vars(KernelFrees(p))
            /\ \A m \in Mounts : /\ WF_vars(PollStatus(m))
                                 /\ WF_vars(find_free_port(m) \/ attach(m))
                                 /\ WF_vars(pc[m] = "lost" /\ cmd_mount(m))
-----------------------------------------------------------------------------
\* "poll ... so it can exit (and let systemd reconnect) instead of parking
\* forever on a dead port" (vhci.rs:187-192): a mount whose socket is dead
\* leaves its park.
LossNoticed == \A m \in Mounts : (Parked(m) /\ ~session[m]) ~> ~Parked(m)

\* A mount whose port is free for good exits, however other mounts come and go
\* and whichever reads fail: the loop of two-second polls (mount.rs:119-132).
FreePortNoticed ==
  \A m \in Mounts : (Parked(m) /\ owner[port[m]] = NoMount)
                           ~> (~Parked(m) \/ owner[port[m]] # NoMount)

\* A transient blip of the status file is not taken for a lost connection
\* (mount.rs:113-116): a mount gives its port up for lost only when it is.
LostIsLost == [][\A m \in Mounts : (Parked(m) /\ pc'[m] = "lost") => owner[port[m]] # m]_vars

\* "When the device is detached (via `detach()` or `wolfusb mount` exit), the
\* kernel releases the port" (vhci.rs:133): a port in use has its mount parked
\* on it, however its mounts exit, fail and retry.  A kill is the exception.
PortWatched ==
  \A p \in Ports \ left : owner[p] # NoMount => Parked(owner[p]) /\ port[owner[p]] = p

\* A mount whose source is there loses its port only to a Ctrl-C (mount.rs:137):
\* its own, or that of a mount whose connection is dead and who has not noticed
\* that its port is another's by now.  No exit, kill or retry of another mount
\* takes it away.
LivePortKept ==
  [][\A p \in Ports \ left : (owner[p] # NoMount /\ session[owner[p]] /\ owner'[p] # owner[p])
       => \E m \in Mounts : /\ port[m] = p /\ (m = owner[p] \/ ~session[m])
                            /\ Parked(m) /\ pc'[m] = "detached"]_vars
=============================================================================
