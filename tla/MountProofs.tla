----------------------------- MODULE MountProofs -----------------------------
(***************************************************************************)
(* For any number of mounts and any vhci ports: the type invariant of      *)
(* Mount, that a port in use has its mount parked on it, that no mount     *)
(* gives up a port it has, and that a live mount keeps its port.           *)
(***************************************************************************)
EXTENDS Mount, WellFoundedInduction, TLAPS

\* A parked mount whose connection is alive has the port it is parked on.
ParkedOwns == \A m \in Mounts : Parked(m) /\ session[m] =>
                 /\ port[m] \in Ports \ left
                 /\ owner[port[m]] = m

LeftOwned == \A p \in left : owner[p] # NoMount

\* A mount that has come to attach has a port (port is 0 before).
PortChosen == \A m \in Mounts : pc[m] \in {"chosen", "parked"} => port[m] \in Ports

\* The free reads counted by a mount that has not given up are too few to.
CountBelow ==
  \A m \in Mounts : pc[m] \in {"imported", "chosen", "parked"} => free[m] < MaxFree

MountInv == TypeOK /\ PortWatched /\ ParkedOwns /\ LeftOwned /\ PortChosen /\ CountBelow

LEMMA MinInSet == ASSUME NEW S \in SUBSET Nat, S # {} PROVE Min(S) \in S
<1>1. PICK x \in S : \A y \in S : ~(<<y, x>> \in OpToRel(<, Nat))
  BY WFMin, NatLessThanWellFounded, Zenon
<1>2. \A y \in S : ~(y < x)
  BY <1>1, Zenon DEF OpToRel
<1>3. \A y \in S : x <= y
  BY <1>2
<1>4. QED
  BY <1>3 DEF Min

\* What a poll finds when it ends the park: MaxFree is more than one, so that a
\* failed read alone does not get there.
LEMMA LostOnlyWhenFree ==
  ASSUME TypeOK, NEW m \in Mounts, PollStatus(m) \/ PollBlip(m), pc'[m] = "lost"
  PROVE  owner[port[m]] # m
<1>1. CASE PollStatus(m)
  <2>1. CASE port_in_use(m)
    <3>1. free'[m] = 0 /\ pc'[m] = pc[m] /\ Parked(m)
      BY <1>1, <2>1, MountAssumption DEF PollStatus, Poll, Break, TypeOK
    <3>2. QED
      BY <3>1 DEF Parked
  <2>2. CASE ~port_in_use(m)
    BY <2>2, MountAssumption DEF port_in_use
  <2>3. QED
    BY <2>1, <2>2
<1>2. CASE PollBlip(m)
  <2>1. free'[m] = 1 /\ pc'[m] = pc[m] /\ Parked(m)
    BY <1>2, MountAssumption DEF PollBlip, Poll, Break, TypeOK
  <2>2. QED
    BY <2>1 DEF Parked
<1>3. QED
  BY <1>1, <1>2

LEMMA InitMountInv == Init => MountInv
  BY MountAssumption
  DEF Init, MountInv, TypeOK, PCs, PortWatched, ParkedOwns, LeftOwned, PortChosen, CountBelow,
      Parked

LEMMA NextMountInv == MountInv /\ [Next]_vars => MountInv'
<1> USE MountAssumption
<1>1. SUFFICES ASSUME MountInv, [Next]_vars PROVE MountInv'
  OBVIOUS
<1>2. TypeOK /\ PortWatched /\ ParkedOwns /\ LeftOwned /\ PortChosen /\ CountBelow
  BY <1>1 DEF MountInv
<1>3. ASSUME NEW m \in Mounts, cmd_mount(m) PROVE MountInv'
  <2>1. TypeOK'
    BY <1>2, <1>3 DEF cmd_mount, TypeOK, PCs
  <2>2. PortWatched'
    BY <1>2, <1>3 DEF cmd_mount, TypeOK, PortWatched, PortChosen, Parked
  <2>3. ParkedOwns' /\ LeftOwned' /\ PortChosen' /\ CountBelow'
    BY <1>2, <1>3 DEF cmd_mount, TypeOK, ParkedOwns, LeftOwned, PortChosen, CountBelow, Parked
  <2>4. QED
    BY <2>1, <2>2, <2>3 DEF MountInv
<1>4. ASSUME NEW m \in Mounts, find_free_port(m) PROVE MountInv'
  <2>0. FreePorts # {} => Min(FreePorts) \in Ports
    BY MinInSet DEF FreePorts
  <2>1. TypeOK'
    BY <1>2, <1>4, <2>0 DEF find_free_port, Fails, TypeOK, PCs
  <2>2. PortWatched'
    BY <1>2, <1>4 DEF find_free_port, Fails, TypeOK, PortWatched, PortChosen, Parked
  <2>3. ParkedOwns' /\ LeftOwned' /\ PortChosen' /\ CountBelow'
    BY <1>2, <1>4, <2>0
    DEF find_free_port, Fails, TypeOK, ParkedOwns, LeftOwned, PortChosen, CountBelow, Parked
  <2>4. QED
    BY <2>1, <2>2, <2>3 DEF MountInv
<1>5. ASSUME NEW m \in Mounts, attach(m) PROVE MountInv'
  <2>1. CASE owner[port[m]] = NoMount
    <3>1. TypeOK'
      BY <1>2, <1>5, <2>1 DEF attach, TypeOK, PCs
    <3>2. PortWatched'
      BY <1>2, <1>5, <2>1 DEF attach, TypeOK, PortWatched, PortChosen, Parked
    <3>3. ParkedOwns'
      <4>1. /\ port[m] \in Ports \ left
            /\ owner' = [owner EXCEPT ![port[m]] = m]
            /\ UNCHANGED <<port, left, session>>
            /\ pc' = [pc EXCEPT ![m] = "parked"]
        BY <1>2, <1>5, <2>1 DEF attach, LeftOwned, PortChosen
      <4>2. ASSUME NEW n \in Mounts, Parked(n)', session'[n]
            PROVE  port'[n] \in Ports \ left' /\ owner'[port'[n]] = n
        <5>1. CASE n = m
          BY <1>2, <4>1, <5>1 DEF TypeOK
        <5>2. CASE n # m
          <6>1. port[n] \in Ports \ left /\ owner[port[n]] = n
            BY <1>2, <4>1, <4>2, <5>2 DEF TypeOK, ParkedOwns, Parked
          <6>2. port[n] # port[m]
            BY <2>1, <6>1
          <6>3. QED
            BY <1>2, <4>1, <6>1, <6>2 DEF TypeOK
        <5>3. QED
          BY <5>1, <5>2
      <4>3. QED
        BY <4>2 DEF ParkedOwns, Parked
    <3>4. LeftOwned' /\ PortChosen' /\ CountBelow'
      BY <1>2, <1>5, <2>1 DEF attach, TypeOK, LeftOwned, PortChosen, CountBelow
    <3>5. QED
      BY <3>1, <3>2, <3>3, <3>4 DEF MountInv
  <2>2. CASE owner[port[m]] # NoMount
    <3>1. TypeOK'
      BY <1>2, <1>5, <2>2 DEF attach, Fails, TypeOK, PCs
    <3>2. PortWatched'
      BY <1>2, <1>5, <2>2 DEF attach, Fails, TypeOK, PortWatched, Parked
    <3>3. ParkedOwns' /\ LeftOwned' /\ PortChosen' /\ CountBelow'
      BY <1>2, <1>5, <2>2
      DEF attach, Fails, TypeOK, ParkedOwns, LeftOwned, PortChosen, CountBelow, Parked
    <3>4. QED
      BY <3>1, <3>2, <3>3 DEF MountInv
  <2>3. QED
    BY <2>1, <2>2
\* A poll ends the park only when it finds the port free: after one failed read
\* the count is below MaxFree.
<1>6. ASSUME NEW m \in Mounts, PollStatus(m) \/ PollBlip(m) PROVE MountInv'
  <2>1. PICK read \in BOOLEAN : Poll(m, read)
    BY <1>6 DEF PollStatus, PollBlip, port_in_use
  <2>2. pc'[m] = "lost" => owner[port[m]] # m
    BY <1>2, <1>6, LostOnlyWhenFree
  <2>3. UNCHANGED <<port, owner, left>>
    BY <2>1 DEF Poll
  <2>4. \/ UNCHANGED <<pc, session>> /\ ~(free'[m] >= MaxFree)
        \/ /\ pc' = [pc EXCEPT ![m] = "lost"]
           /\ session' = [session EXCEPT ![m] = FALSE]
    BY <2>1 DEF Poll, Break, Fails
  <2>5. free' \in [Mounts -> 0 .. MaxFree] /\ \A n \in Mounts : n # m => free'[n] = free[n]
    <3>1. free[m] \in Nat /\ free[m] < MaxFree
      BY <1>2, <2>1 DEF Poll, Parked, TypeOK, CountBelow
    <3>2. free' = [free EXCEPT ![m] = IF read THEN 0 ELSE free[m] + 1]
      BY <2>1 DEF Poll
    <3>3. (IF read THEN 0 ELSE free[m] + 1) \in 0 .. MaxFree
      BY <3>1
    <3>4. QED
      BY <1>2, <3>2, <3>3 DEF TypeOK
  <2>6. TypeOK'
    BY <1>2, <2>3, <2>4, <2>5 DEF TypeOK, PCs
  <2>7. PortWatched'
    BY <1>2, <2>2, <2>3, <2>4 DEF TypeOK, PortWatched, Parked
  <2>8. ParkedOwns' /\ LeftOwned' /\ PortChosen'
    BY <1>2, <2>3, <2>4 DEF TypeOK, ParkedOwns, LeftOwned, PortChosen, Parked
  <2>9. CountBelow'
    <3>1. free'[m] \in Nat /\ MaxFree \in Nat
      BY <2>5
    <3>2. QED
      BY <1>2, <2>4, <2>5, <3>1 DEF TypeOK, CountBelow
  <2>10. QED
    BY <2>7, <2>8, <2>9, <2>6 DEF MountInv
<1>7. ASSUME NEW m \in Mounts, CtrlC(m) PROVE MountInv'
  <2>1. TypeOK'
    BY <1>2, <1>7 DEF CtrlC, Release, TypeOK, PCs
  <2>2. PortWatched'
    BY <1>2, <1>7 DEF CtrlC, Release, TypeOK, PortWatched, PortChosen, Parked
  <2>3. ParkedOwns' /\ LeftOwned' /\ PortChosen' /\ CountBelow'
    BY <1>2, <1>7 DEF CtrlC, Release, TypeOK, ParkedOwns, LeftOwned, PortChosen, CountBelow, Parked
  <2>4. QED
    BY <2>1, <2>2, <2>3 DEF MountInv
<1>8. ASSUME NEW m \in Mounts, Killed(m) PROVE MountInv'
  <2>1. TypeOK'
    BY <1>2, <1>8 DEF Killed, TypeOK, PCs
  <2>2. PortWatched'
    BY <1>2, <1>8 DEF Killed, TypeOK, PortWatched, PortChosen, Parked
  <2>3. ParkedOwns' /\ LeftOwned' /\ PortChosen' /\ CountBelow'
    BY <1>2, <1>8 DEF Killed, TypeOK, ParkedOwns, LeftOwned, PortChosen, CountBelow, Parked
  <2>4. QED
    BY <2>1, <2>2, <2>3 DEF MountInv
<1>9. ASSUME NEW m \in Mounts, SourceGone(m) PROVE MountInv'
  <2>1. TypeOK'
    BY <1>2, <1>9 DEF SourceGone, TypeOK, PCs
  <2>2. PortWatched'
    BY <1>2, <1>9 DEF SourceGone, TypeOK, PortWatched, PortChosen, Parked
  <2>3. ParkedOwns' /\ LeftOwned' /\ PortChosen' /\ CountBelow'
    BY <1>2, <1>9 DEF SourceGone, TypeOK, ParkedOwns, LeftOwned, PortChosen, CountBelow, Parked
  <2>4. QED
    BY <2>1, <2>2, <2>3 DEF MountInv
<1>10. ASSUME NEW p \in Ports, KernelFrees(p) PROVE MountInv'
  <2>1. TypeOK'
    BY <1>2, <1>10 DEF KernelFrees, Release, TypeOK, PCs
  <2>2. PortWatched'
    BY <1>2, <1>10 DEF KernelFrees, Release, TypeOK, PortWatched, PortChosen, Parked
  <2>3. ParkedOwns' /\ LeftOwned' /\ PortChosen' /\ CountBelow'
    BY <1>2, <1>10
    DEF KernelFrees, Release, TypeOK, ParkedOwns, LeftOwned, PortChosen, CountBelow, Parked
  <2>4. QED
    BY <2>1, <2>2, <2>3 DEF MountInv
<1>11. ASSUME NEW p \in Ports, LeftFreed(p) PROVE MountInv'
  <2>1. TypeOK'
    BY <1>2, <1>11 DEF LeftFreed, Release, TypeOK, PCs
  <2>2. PortWatched'
    BY <1>2, <1>11 DEF LeftFreed, Release, TypeOK, PortWatched, PortChosen, Parked
  <2>3. ParkedOwns' /\ LeftOwned' /\ PortChosen' /\ CountBelow'
    BY <1>2, <1>11
    DEF LeftFreed, Release, TypeOK, ParkedOwns, LeftOwned, PortChosen, CountBelow, Parked
  <2>4. QED
    BY <2>1, <2>2, <2>3 DEF MountInv
<1>12. CASE UNCHANGED vars
  BY <1>2, <1>12
  DEF vars, MountInv, TypeOK, PortWatched, ParkedOwns, LeftOwned, PortChosen, CountBelow,
      Parked
<1>13. QED
  BY <1>1, <1>3, <1>4, <1>5, <1>6, <1>7, <1>8, <1>9, <1>10, <1>11, <1>12 DEF Next

LEMMA AlwaysMountInv == Spec => []MountInv
  BY InitMountInv, NextMountInv, PTL DEF Spec

\* cmd_mount and the port table keep their types.
THEOREM MountTypeCorrect == Spec => []TypeOK
<1>1. MountInv => TypeOK
  BY DEF MountInv
<1>2. QED
  BY <1>1, AlwaysMountInv, PTL

\* A port in use has its mount parked on it, unless that was killed
\* (vhci.rs:133), for any number of mounts and ports.
THEOREM PortWatchedCorrect == Spec => []PortWatched
<1>1. MountInv => PortWatched
  BY DEF MountInv
<1>2. QED
  BY <1>1, AlwaysMountInv, PTL

\* A mount gives its port up for lost only when it is (mount.rs:113-116): no
\* step but a poll that finds the port free ends a park that way.
THEOREM LostIsLostCorrect == Spec => LostIsLost
<1> DEFINE Lost == \A m \in Mounts : (Parked(m) /\ pc'[m] = "lost") => owner[port[m]] # m
<1>1. ASSUME MountInv, [Next]_vars PROVE [Lost]_vars
  <2>1. TypeOK
    BY <1>1 DEF MountInv
  <2>2. SUFFICES ASSUME Next, NEW m \in Mounts, Parked(m), pc'[m] = "lost"
                 PROVE  owner[port[m]] # m
    BY <1>1
  <2>3. CASE \E n \in Mounts : PollStatus(n) \/ PollBlip(n)
    <3>1. PICK n \in Mounts : PollStatus(n) \/ PollBlip(n)
      BY <2>3
    <3>2. n = m
      BY <2>1, <2>2, <3>1
      DEF PollStatus, PollBlip, Poll, Break, Fails, Parked, TypeOK
    <3>3. QED
      BY <2>1, <2>2, <3>1, <3>2, LostOnlyWhenFree
  <2>4. CASE \E n \in Mounts : \/ cmd_mount(n) \/ find_free_port(n) \/ attach(n)
                               \/ CtrlC(n) \/ SourceGone(n) \/ Killed(n)
    BY <2>1, <2>2, <2>4
    DEF cmd_mount, find_free_port, attach, Fails, CtrlC, SourceGone, Killed, Parked, TypeOK
  <2>5. CASE \E p \in Ports : KernelFrees(p) \/ LeftFreed(p)
    BY <2>2, <2>5 DEF KernelFrees, LeftFreed, Parked
  <2>6. QED
    BY <2>2, <2>3, <2>4, <2>5 DEF Next
<1>2. QED
  BY <1>1, AlwaysMountInv, PTL DEF Spec, LostIsLost

\* A live mount loses its port only to a Ctrl-C on a mount parked on the same
\* port number: its own, or a dead one's (mount.rs:137).
THEOREM LivePortKeptCorrect == Spec => LivePortKept
<1> DEFINE Kept == \A p \in Ports \ left :
       (owner[p] # NoMount /\ session[owner[p]] /\ owner'[p] # owner[p])
         => \E m \in Mounts : /\ port[m] = p /\ (m = owner[p] \/ ~session[m])
                              /\ Parked(m) /\ pc'[m] = "detached"
<1>1. ASSUME MountInv, [Next]_vars PROVE [Kept]_vars
  <2>1. TypeOK /\ ParkedOwns
    BY <1>1 DEF MountInv
  <2>2. SUFFICES ASSUME Next, NEW p \in Ports \ left, owner[p] # NoMount,
                        session[owner[p]], owner'[p] # owner[p]
                 PROVE  \E m \in Mounts : /\ port[m] = p /\ (m = owner[p] \/ ~session[m])
                                          /\ Parked(m) /\ pc'[m] = "detached"
    BY <1>1
  <2>3. CASE \E m \in Mounts : CtrlC(m)
    <3>1. PICK m \in Mounts : CtrlC(m)
      BY <2>3
    <3>2. port[m] = p /\ Parked(m) /\ pc'[m] = "detached"
      BY <2>1, <2>2, <3>1 DEF CtrlC, Release, TypeOK
    <3>3. m = owner[p] \/ ~session[m]
      BY <2>1, <3>2 DEF ParkedOwns
    <3>4. QED
      BY <3>2, <3>3
  <2>4. CASE \E m \in Mounts : attach(m)
    BY <2>1, <2>2, <2>4 DEF attach, TypeOK
  <2>5. CASE \E m \in Mounts : \/ cmd_mount(m) \/ find_free_port(m) \/ PollStatus(m)
                               \/ PollBlip(m) \/ SourceGone(m) \/ Killed(m)
    BY <2>2, <2>5
    DEF cmd_mount, find_free_port, PollStatus, PollBlip, Poll, SourceGone, Killed
  <2>6. CASE \E q \in Ports : KernelFrees(q) \/ LeftFreed(q)
    BY <2>1, <2>2, <2>6 DEF KernelFrees, LeftFreed, Release, TypeOK
  <2>7. QED
    BY <2>2, <2>3, <2>4, <2>5, <2>6 DEF Next
<1>2. QED
  BY <1>1, AlwaysMountInv, PTL DEF Spec, LivePortKept
=============================================================================
