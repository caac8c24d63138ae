---------------------------- MODULE KernelBridge ----------------------------
(***************************************************************************)
(* server/bridge.rs and server/kernel_usbip.rs: the tasks that bridge one  *)
(* device through the kernel's usbip_host driver.  Each accepted Bridge    *)
(* request is a task of its own and nothing serialises them; between two   *)
(* sysfs accesses of one task any step of another may come, so each access *)
(* is an action.  The sysfs side (the device's driver, the allow-list, the *)
(* socket in use) is the kernel's, modelled as the code uses it.           *)
(***************************************************************************)
CONSTANTS Tasks,    \* bridge tasks for the device; an ended one's slot is used again
          NoTask

ASSUME BridgeAssumption == NoTask \notin Tasks

VARIABLES quiet,    \* tasks whose client stays and sends no OP_REQ_IMPORT
          pc,       \* where the task is in run_bridge_inner
          resume,   \* where it goes on after unbind
          client,   \* the task's client keeps its end of the socket open
          present,  \* the device is plugged in
          driver,   \* the device-level driver it is bound to
          allowed,  \* the busid is in usbip-host's match_busid
          user      \* the task whose socket the kernel serves (usbip_status 2)

taskVars == <<pc, resume, client>>
sysfs == <<present, driver, allowed, user>>
vars == <<quiet, taskVars, sysfs>>

PCs == {"resolve", "check", "info", "allow", "release", "bind", "confirm",
        "import", "handoff", "serving", "unbind", "forget", "probe", "done"}

TypeOK == /\ quiet \subseteq Tasks
          /\ pc \in [Tasks -> PCs]
          /\ resume \in [Tasks -> {"info", "done"}]
          /\ client \in [Tasks -> BOOLEAN]
          /\ present \in BOOLEAN
          /\ driver \in {"usb", "usbip-host", "none"}
          /\ allowed \in BOOLEAN
          /\ user \in Tasks \cup {NoTask}

Init == /\ quiet = {}
        /\ pc = [b \in Tasks |-> "done"]
        /\ resume = [b \in Tasks |-> "done"]
        /\ client = [b \in Tasks |-> TRUE]
        /\ present = TRUE
        /\ driver = "usb"
        /\ allowed = FALSE
        /\ user = NoTask

is_bound == driver = "usbip-host"
Running(b) == pc[b] # "done"

At(b, here) == pc[b] = here
Go(b, there) == pc' = [pc EXCEPT ![b] = there]
KeepTask == UNCHANGED <<quiet, resume, client>>

\* The connection has sent BridgeAccepted and hands its socket over.
run_bridge(b) == /\ At(b, "done")
                 /\ Go(b, "resolve")
                 /\ resume' = [resume EXCEPT ![b] = "done"]
                 /\ client' = [client EXCEPT ![b] = TRUE]
                 /\ quiet' \in {quiet \cup {b}, quiet \ {b}}
                 /\ UNCHANGED sysfs

port_path_for_address(b) == /\ At(b, "resolve")
                            /\ Go(b, IF present THEN "check" ELSE "done")
                            /\ KeepTask /\ UNCHANGED sysfs

\* Mutants of CheckLeftover: a leftover is not released; after its release the
\* task checks again.
CheckLeftover_ignored(b) == /\ At(b, "check")
                            /\ Go(b, "info")
                            /\ KeepTask /\ UNCHANGED sysfs
CheckLeftover_again(b) == /\ At(b, "check")
                          /\ Go(b, IF is_bound THEN "unbind" ELSE "info")
                          /\ resume' = [resume EXCEPT ![b] = "check"]
                          /\ UNCHANGED <<quiet, client, sysfs>>

\* A device found on usbip-host is taken off it, whoever is using it.
CheckLeftover(b) == /\ At(b, "check")
                    /\ Go(b, IF is_bound THEN "unbind" ELSE "info")
                    /\ resume' = [resume EXCEPT ![b] = "info"]
                    /\ UNCHANGED <<quiet, client, sysfs>>

\* Only the usb driver exposes the attributes; without them the task ends.
from_sysfs(b) == /\ At(b, "info")
                 /\ Go(b, IF driver = "usb" THEN "allow" ELSE "done")
                 /\ KeepTask /\ UNCHANGED sysfs

(***************************************************************************)
(* kernel_usbip::bind                                                      *)
(***************************************************************************)
BindAllow(b) == /\ At(b, "allow")
                /\ IF is_bound THEN Go(b, "import") /\ UNCHANGED allowed
                               ELSE Go(b, "release") /\ allowed' = TRUE
                /\ KeepTask /\ UNCHANGED <<present, driver, user>>

BindRelease(b) == /\ At(b, "release")
                  /\ driver' = IF driver = "usb" THEN "none" ELSE driver
                  /\ Go(b, "bind")
                  /\ KeepTask /\ UNCHANGED <<present, allowed, user>>

\* The kernel refuses a device that is bound already or not on the allow-list;
\* the error leaves the device as it is, with no driver.
BindBind(b) == /\ At(b, "bind")
               /\ IF present /\ driver = "none" /\ allowed
                  THEN driver' = "usbip-host" /\ Go(b, "confirm")
                  ELSE UNCHANGED driver /\ Go(b, "done")
               /\ KeepTask /\ UNCHANGED <<present, allowed, user>>

BindConfirm(b) == /\ At(b, "confirm")
                  /\ Go(b, IF is_bound THEN "import" ELSE "done")
                  /\ KeepTask /\ UNCHANGED sysfs

(***************************************************************************)
(* The OP_REQ_IMPORT exchange and the hand-over to the kernel.  An error   *)
(* here ends the task and leaves the device on usbip-host.  The read has   *)
(* no timeout: a quiet client's task goes on only when the client leaves.  *)
(***************************************************************************)
ReadImport(b) == /\ At(b, "import")
                 /\ client[b] => b \notin quiet
                 /\ Go(b, IF client[b] THEN "handoff" ELSE "done")
                 /\ KeepTask /\ UNCHANGED sysfs

ReplyFails(b) == /\ At(b, "handoff") /\ ~client[b]
                 /\ Go(b, "done")
                 /\ KeepTask /\ UNCHANGED sysfs

\* The reply goes out and the socket to the kernel, which takes one only for a
\* device on usbip-host that has none.
attach_socket(b) ==
  /\ At(b, "handoff")
  /\ IF is_bound /\ user = NoTask
     THEN user' = b /\ Go(b, "serving") /\ UNCHANGED resume
     ELSE /\ resume' = [resume EXCEPT ![b] = "done"]
          /\ Go(b, "unbind") /\ UNCHANGED user
  /\ UNCHANGED <<quiet, client, present, driver, allowed>>

\* Mutants of wait_until_detached: it does not wait; it waits until the device
\* is off usbip-host.
wait_not_at_all(b) == /\ At(b, "serving")
                      /\ Go(b, "unbind")
                      /\ resume' = [resume EXCEPT ![b] = "done"]
                      /\ UNCHANGED <<quiet, client, sysfs>>
wait_until_unbound(b) == /\ At(b, "serving")
                         /\ ~is_bound
                         /\ Go(b, "unbind")
                         /\ resume' = [resume EXCEPT ![b] = "done"]
                         /\ UNCHANGED <<quiet, client, sysfs>>

\* The poll sees only whether some socket is in use, not whose.
wait_until_detached(b) == /\ At(b, "serving")
                          /\ user = NoTask
                          /\ Go(b, "unbind")
                          /\ resume' = [resume EXCEPT ![b] = "done"]
                          /\ UNCHANGED <<quiet, client, sysfs>>

(***************************************************************************)
(* kernel_usbip::unbind                                                    *)
(***************************************************************************)
UnbindDevice(b) == /\ At(b, "unbind")
                   /\ IF is_bound THEN driver' = "none" /\ user' = NoTask
                                  ELSE UNCHANGED <<driver, user>>
                   /\ Go(b, "forget")
                   /\ KeepTask /\ UNCHANGED <<present, allowed>>

UnbindForget(b) == /\ At(b, "forget")
                   /\ allowed' = FALSE
                   /\ Go(b, "probe")
                   /\ KeepTask /\ UNCHANGED <<present, driver, user>>

\* Mutant of UnbindProbe: nothing asks the kernel to probe again.
UnbindProbe_missing(b) == /\ At(b, "probe")
                          /\ Go(b, resume[b])
                          /\ KeepTask /\ UNCHANGED sysfs

UnbindProbe(b) == /\ At(b, "probe")
                  /\ driver' = IF present /\ driver = "none" THEN "usb" ELSE driver
                  /\ Go(b, resume[b])
                  /\ KeepTask /\ UNCHANGED <<present, allowed, user>>

(***************************************************************************)
(* The clients, the kernel and the device.                                 *)
(***************************************************************************)
ClientLeaves(b) == /\ Running(b) /\ client[b]
                   /\ client' = [client EXCEPT ![b] = FALSE]
                   /\ UNCHANGED <<quiet, pc, resume, sysfs>>

\* The socket is dead: the kernel lets go of it, the device stays bound.
KernelDrops == /\ user # NoTask /\ ~client[user]
               /\ user' = NoTask
               /\ UNCHANGED <<quiet, taskVars, present, driver, allowed>>

\* Plugged in again the device gets another address: it is another device.
Unplug == /\ present
          /\ present' = FALSE
          /\ driver' = "none"
          /\ user' = NoTask
          /\ UNCHANGED <<quiet, taskVars, allowed>>

Step(b) == \/ port_path_for_address(b) \/ CheckLeftover(b) \/ from_sysfs(b)
           \/ BindAllow(b) \/ BindRelease(b) \/ BindBind(b) \/ BindConfirm(b)
           \/ ReadImport(b) \/ ReplyFails(b) \/ attach_socket(b)
           \/ wait_until_detached(b)
           \/ UnbindDevice(b) \/ UnbindForget(b) \/ UnbindProbe(b)

Next == \/ \E b \in Tasks : run_bridge(b) \/ Step(b) \/ ClientLeaves(b)
        \/ KernelDrops \/ Unplug

Spec == Init /\ [][Next]_vars

\* A task's steps are plain code between bounded sleeps; a client that is
\* there and not quiet sends OP_REQ_IMPORT right after BridgeAccepted
\* (client/mount.rs); the kernel notices a dead socket.
FairSpec == Spec /\ WF_vars(KernelDrops) /\ \A b \in Tasks : WF_vars(Step(b))
-----------------------------------------------------------------------------
\* No other task for the device runs, but for those stuck with a quiet client.
Undisturbed(b) == \A other \in Tasks \ {b} :
   Running(other) => other \in quiet /\ client[other] /\ At(other, "import")

\* A socket the kernel serves always has its task waiting to unbind the device
\* when it is released (bridge.rs:144-157), also when bridges of one device
\* overlap: a task never stops watching while its own socket is in use.
SessionWatched == \A b \in Tasks : user = b => pc[b] = "serving"

\* "our process just keeps the fd alive until disconnect" (kernel_usbip.rs:21):
\* the kernel's service of a client that is still there, of a device that is
\* still there, is not ended by the server unless another task came meanwhile.
ServedUntilDisconnect ==
  [][(user # NoTask /\ client[user] /\ Undisturbed(user) /\ present') => user' = user]_vars

\* A Bridge request is served if its client asks and stays and the device does,
\* whatever earlier bridges left behind (the release at bridge.rs:51-74), one
\* that a silent client still holds included (bridge.rs:87).  The exceptions:
\* another task came meanwhile; or an earlier bind, refused because two tasks
\* met, has left the device with no driver (kernel_usbip.rs:175), which no
\* later bridge repairs.
BridgeServed == \A b \in Tasks :
  (At(b, "resolve") /\ driver # "none") ~> \/ user = b \/ ~client[b] \/ ~present
                                           \/ b \in quiet \/ ~Undisturbed(b)

\* When its client goes away a bridge ends: "Wait until the kernel releases the
\* socket (device detached / client gone)" (kernel_usbip.rs:326).
BridgeEnds == \A b \in Tasks : (Running(b) /\ ~client[b]) ~> pc[b] = "done"

\* The same, but for a task that polls while the kernel serves another's socket.
EndsUnlessOvertaken == \A b \in Tasks :
  (Running(b) /\ ~client[b]) ~> (pc[b] = "done" \/ user \notin {b, NoTask})

\* "let normal drivers (...) claim it again" (kernel_usbip.rs:193): after a
\* client that was served has gone, the device gets its usb driver back, or
\* another task has come for it.
DriverReturned == \A b \in Tasks :
  (user = b /\ ~client[b]) ~> (driver = "usb" \/ ~present \/ ~Undisturbed(b))
=============================================================================
