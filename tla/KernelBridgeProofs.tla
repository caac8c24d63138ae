------------------------- MODULE KernelBridgeProofs -------------------------
(***************************************************************************)
(* For any number of tasks that bridge one device: the type invariant of   *)
(* KernelBridge, and that a socket the kernel serves always has its own    *)
(* task watching it, whatever the order of the sysfs accesses.             *)
(***************************************************************************)
EXTENDS KernelBridge, TLAPS

\* Together they are inductive: a task leaves "serving" only when no socket is
\* in use, and comes there only with its own.
BridgeInv == TypeOK /\ SessionWatched

LEMMA InitBridgeInv == Init => BridgeInv
  BY BridgeAssumption DEF Init, BridgeInv, TypeOK, SessionWatched, PCs

\* A task's step from anywhere but "serving" and "handoff" gives the kernel no
\* socket, and takes no task off its watch.
LEMMA ElsewhereKeepsInv ==
  ASSUME BridgeInv, NEW b \in Tasks, NEW there \in PCs,
         pc[b] # "serving", Go(b, there),
         user' \in {user, NoTask},
         quiet' \subseteq Tasks,
         resume' \in [Tasks -> {"info", "done"}],
         client' \in [Tasks -> BOOLEAN],
         present' \in BOOLEAN, driver' \in {"usb", "usbip-host", "none"},
         allowed' \in BOOLEAN
  PROVE  BridgeInv'
<1>1. TypeOK'
  BY DEF BridgeInv, TypeOK, Go
<1>2. SessionWatched'
  BY BridgeAssumption DEF BridgeInv, TypeOK, SessionWatched, Go
<1>3. QED
  BY <1>1, <1>2 DEF BridgeInv

LEMMA NextBridgeInv == BridgeInv /\ [Next]_vars => BridgeInv'
<1>1. SUFFICES ASSUME BridgeInv, [Next]_vars PROVE BridgeInv'
  OBVIOUS
<1>2. ASSUME NEW b \in Tasks, run_bridge(b) PROVE BridgeInv'
  <2>1. pc[b] # "serving" /\ "resolve" \in PCs /\ Go(b, "resolve")
    BY <1>2 DEF run_bridge, At, PCs
  <2>2. /\ quiet' \subseteq Tasks
        /\ resume' \in [Tasks -> {"info", "done"}]
        /\ client' \in [Tasks -> BOOLEAN]
        /\ present' \in BOOLEAN /\ driver' \in {"usb", "usbip-host", "none"}
        /\ allowed' \in BOOLEAN /\ user' \in {user, NoTask}
    BY <1>1, <1>2 DEF BridgeInv, TypeOK, run_bridge, sysfs
  <2>3. QED
    BY <1>1, <2>1, <2>2, ElsewhereKeepsInv
<1>3. ASSUME NEW b \in Tasks, port_path_for_address(b) PROVE BridgeInv'
  <2>1. PICK there \in {"check", "done"} : Go(b, there)
    BY <1>3 DEF port_path_for_address
  <2>2. QED
    BY <1>1, <1>3, <2>1, ElsewhereKeepsInv
    DEF port_path_for_address, At, PCs, KeepTask, sysfs, BridgeInv, TypeOK
<1>4. ASSUME NEW b \in Tasks, CheckLeftover(b) PROVE BridgeInv'
  <2>1. PICK there \in {"unbind", "info"} : Go(b, there)
    BY <1>4 DEF CheckLeftover
  <2>2. QED
    BY <1>1, <1>4, <2>1, ElsewhereKeepsInv
    DEF CheckLeftover, At, PCs, sysfs, BridgeInv, TypeOK
<1>5. ASSUME NEW b \in Tasks, from_sysfs(b) PROVE BridgeInv'
  <2>1. PICK there \in {"allow", "done"} : Go(b, there)
    BY <1>5 DEF from_sysfs
  <2>2. QED
    BY <1>1, <1>5, <2>1, ElsewhereKeepsInv
    DEF from_sysfs, At, PCs, KeepTask, sysfs, BridgeInv, TypeOK
<1>6. ASSUME NEW b \in Tasks, BindAllow(b) PROVE BridgeInv'
  <2>1. PICK there \in {"import", "release"} : Go(b, there)
    BY <1>6 DEF BindAllow
  <2>2. QED
    BY <1>1, <1>6, <2>1, ElsewhereKeepsInv
    DEF BindAllow, At, PCs, KeepTask, BridgeInv, TypeOK
<1>7. ASSUME NEW b \in Tasks, BindRelease(b) PROVE BridgeInv'
  BY <1>1, <1>7, ElsewhereKeepsInv
  DEF BindRelease, At, PCs, KeepTask, BridgeInv, TypeOK
<1>8. ASSUME NEW b \in Tasks, BindBind(b) PROVE BridgeInv'
  <2>1. PICK there \in {"confirm", "done"} : Go(b, there)
    BY <1>8 DEF BindBind
  <2>2. QED
    BY <1>1, <1>8, <2>1, ElsewhereKeepsInv
    DEF BindBind, At, PCs, KeepTask, BridgeInv, TypeOK
<1>9. ASSUME NEW b \in Tasks, BindConfirm(b) PROVE BridgeInv'
  <2>1. PICK there \in {"import", "done"} : Go(b, there)
    BY <1>9 DEF BindConfirm
  <2>2. QED
    BY <1>1, <1>9, <2>1, ElsewhereKeepsInv
    DEF BindConfirm, At, PCs, KeepTask, sysfs, BridgeInv, TypeOK
<1>10. ASSUME NEW b \in Tasks, ReadImport(b) PROVE BridgeInv'
  <2>1. PICK there \in {"handoff", "done"} : Go(b, there)
    BY <1>10 DEF ReadImport
  <2>2. QED
    BY <1>1, <1>10, <2>1, ElsewhereKeepsInv
    DEF ReadImport, At, PCs, KeepTask, sysfs, BridgeInv, TypeOK
<1>11. ASSUME NEW b \in Tasks, ReplyFails(b) PROVE BridgeInv'
  BY <1>1, <1>11, ElsewhereKeepsInv
  DEF ReplyFails, At, PCs, KeepTask, sysfs, BridgeInv, TypeOK
<1>12. ASSUME NEW b \in Tasks, attach_socket(b) PROVE BridgeInv'
  <2>1. CASE is_bound /\ user = NoTask
    <3>1. user' = b /\ Go(b, "serving") /\ UNCHANGED <<quiet, client, resume, present, driver, allowed>>
      BY <1>12, <2>1 DEF attach_socket
    <3>2. QED
      BY <1>1, <2>1, <3>1, BridgeAssumption
      DEF BridgeInv, TypeOK, SessionWatched, Go, PCs
  <2>2. CASE ~(is_bound /\ user = NoTask)
    <3>1. /\ pc[b] # "serving" /\ Go(b, "unbind") /\ "unbind" \in PCs
          /\ resume' = [resume EXCEPT ![b] = "done"]
          /\ UNCHANGED <<user, quiet, client, present, driver, allowed>>
      BY <1>12, <2>2 DEF attach_socket, At, PCs
    <3>2. QED
      BY <1>1, <3>1, ElsewhereKeepsInv DEF BridgeInv, TypeOK
  <2>3. QED
    BY <2>1, <2>2
<1>13. ASSUME NEW b \in Tasks, wait_until_detached(b) PROVE BridgeInv'
  <2>1. user = NoTask /\ user' = NoTask /\ Go(b, "unbind")
    BY <1>13 DEF wait_until_detached, sysfs
  <2>2. TypeOK'
    BY <1>1, <1>13, <2>1 DEF wait_until_detached, BridgeInv, TypeOK, Go, PCs, sysfs
  <2>3. SessionWatched'
    BY <2>1, BridgeAssumption DEF SessionWatched
  <2>4. QED
    BY <2>2, <2>3 DEF BridgeInv
<1>14. ASSUME NEW b \in Tasks, UnbindDevice(b) PROVE BridgeInv'
  BY <1>1, <1>14, ElsewhereKeepsInv
  DEF UnbindDevice, At, PCs, KeepTask, BridgeInv, TypeOK
<1>15. ASSUME NEW b \in Tasks, UnbindForget(b) PROVE BridgeInv'
  BY <1>1, <1>15, ElsewhereKeepsInv
  DEF UnbindForget, At, PCs, KeepTask, BridgeInv, TypeOK
<1>16. ASSUME NEW b \in Tasks, UnbindProbe(b) PROVE BridgeInv'
  <2>1. resume[b] \in PCs /\ pc[b] # "serving" /\ Go(b, resume[b])
    BY <1>1, <1>16 DEF UnbindProbe, At, PCs, BridgeInv, TypeOK
  <2>2. QED
    BY <1>1, <1>16, <2>1, ElsewhereKeepsInv
    DEF UnbindProbe, KeepTask, BridgeInv, TypeOK
<1>17. ASSUME NEW b \in Tasks, ClientLeaves(b) PROVE BridgeInv'
  BY <1>1, <1>17 DEF ClientLeaves, sysfs, BridgeInv, TypeOK, SessionWatched
<1>18. CASE KernelDrops
  BY <1>1, <1>18, BridgeAssumption
  DEF KernelDrops, taskVars, BridgeInv, TypeOK, SessionWatched
<1>19. CASE Unplug
  BY <1>1, <1>19, BridgeAssumption
  DEF Unplug, taskVars, BridgeInv, TypeOK, SessionWatched
<1>20. CASE UNCHANGED vars
  BY <1>1, <1>20 DEF vars, taskVars, sysfs, BridgeInv, TypeOK, SessionWatched
<1>21. QED
  BY <1>1, <1>2, <1>3, <1>4, <1>5, <1>6, <1>7, <1>8, <1>9, <1>10, <1>11, <1>12,
     <1>13, <1>14, <1>15, <1>16, <1>17, <1>18, <1>19, <1>20 DEF Next, Step

LEMMA AlwaysBridgeInv == Spec => []BridgeInv
  BY InitBridgeInv, NextBridgeInv, PTL DEF Spec

\* run_bridge_inner keeps its place and the device's sysfs state within their
\* types, for any number of tasks.
THEOREM BridgeTypeCorrect == Spec => []TypeOK
<1>1. BridgeInv => TypeOK
  BY DEF BridgeInv
<1>2. QED
  BY <1>1, AlwaysBridgeInv, PTL

\* A socket that the kernel serves has its own task waiting for its end
\* (bridge.rs:144-157), whatever other bridges of the device do meanwhile.
THEOREM SessionWatchedCorrect == Spec => []SessionWatched
<1>1. BridgeInv => SessionWatched
  BY DEF BridgeInv
<1>2. QED
  BY <1>1, AlwaysBridgeInv, PTL

\* As long as no other task has come for the device, the server does not end
\* the kernel's service of a client that stays (kernel_usbip.rs:21): of the
\* steps that take the socket from the kernel, none is left to the tasks.
THEOREM ServedUntilDisconnectCorrect == Spec => ServedUntilDisconnect
<1> DEFINE Served == user # NoTask /\ client[user] /\ Undisturbed(user) /\ present'
<1>1. ASSUME BridgeInv, Next, Served PROVE user' = user
  <2>1. user \in Tasks /\ pc[user] = "serving" /\ user # NoTask
    BY <1>1 DEF BridgeInv, TypeOK, SessionWatched
  <2>2. ASSUME NEW b \in Tasks PROVE ~UnbindDevice(b) /\ ~attach_socket(b)
    BY <1>1, <2>1 DEF UnbindDevice, attach_socket, At, Undisturbed, Running
  <2>3. ASSUME NEW b \in Tasks, Step(b) PROVE user' = user
    BY <2>1, <2>2, <2>3
    DEF Step, port_path_for_address, CheckLeftover, from_sysfs, BindAllow, BindRelease,
        BindBind, BindConfirm, ReadImport, ReplyFails, wait_until_detached,
        UnbindForget, UnbindProbe, KeepTask, sysfs
  <2>4. ASSUME NEW b \in Tasks, run_bridge(b) \/ ClientLeaves(b) PROVE user' = user
    BY <2>4 DEF run_bridge, ClientLeaves, sysfs
  <2>5. ~KernelDrops BY <1>1 DEF KernelDrops
  <2>6. ~Unplug BY <1>1 DEF Unplug
  <2> QED BY <1>1, <2>3, <2>4, <2>5, <2>6 DEF Next
<1>2. BridgeInv /\ [Next]_vars => [Served => user' = user]_vars
  BY <1>1
<1> QED BY <1>2, AlwaysBridgeInv, PTL DEF Spec, ServedUntilDisconnect
=============================================================================
