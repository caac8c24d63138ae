----------------------------- MODULE LeaseProofs -----------------------------
(***************************************************************************)
(* The server implements DeviceLease, and no device is left attached to    *)
(* nobody, for clients that name with a session its own device and that do *)
(* not bridge on a connection that has devices attached.  Connection's     *)
(* runs v_mismatch and v_bridge show that neither proviso can be dropped.  *)
(***************************************************************************)
EXTENDS ConnectionProofs

NoBridges == "bridge" \notin ClientOps

\* No task is at a bridge or on its way to one.
Unbridged == \A c \in Conns : pc[c] # "bridge" /\ req[c].op # "bridge"

\* A task that has not ended.
Serving(c) == pc[c] \notin {"closed", "bridge"}

\* Every attached device is, in the map of a task whose cleanup is yet to come,
\* the device of the session it is attached under.
Kept == \A d \in Devices : Attached(d) =>
          \E c \in Conns : /\ attachments[d].handle \in SessionIds
                           /\ Settled(c)[attachments[d].handle] = d
                           /\ Serving(c)

KeptInv == MatchInv /\ Unbridged /\ Kept

LEMMA KeptTypes ==
  ASSUME MatchInv
  PROVE  TypeInv /\ DmTypeOK /\ Issued /\ SessionsDisjoint /\ 0 \notin SessionIds
         /\ NoDevice \notin Devices /\ nextSessionId \in Nat
BY DmAssumption, SMT DEF MatchInv, SessInv, TypeInv, TypeOK, DmTypeOK, SessionIds

\* Requests for a bridge are not heard, so no task comes near one.
LEMMA UnbridgedStep ==
  ASSUME NoBridges, TypeInv, Unbridged, [Next]_vars
  PROVE  Unbridged'
<1>1. ASSUME NEW c \in Conns, Client(c) \/ Server(c)
      PROVE  pc'[c] # "bridge" /\ req'[c].op # "bridge"
  <2> USE DEF TypeInv, TypeOK, Goto, Unbridged
  <2>1. CASE Accept(c) \/ Disconnect(c) \/ BridgeEnds(c)
    BY <2>1 DEF Accept, Disconnect, BridgeEnds, NoReq
  <2>8. CASE AnswerOther(c)
    BY <2>8 DEF AnswerOther, NoReq
  <2>9. ASSUME NEW proven \in BOOLEAN, handle_hello(c, proven)
        PROVE  pc'[c] # "bridge" /\ req'[c].op # "bridge"
    BY <2>9 DEF handle_hello, NoReq
  <2>2. ASSUME NEW op \in ClientOps, NEW d \in Devices, NEW t \in 0 .. MaxSessions,
               Start(c, op, d, t)
        PROVE  pc'[c] # "bridge" /\ req'[c].op # "bridge"
    BY <2>2 DEF Start, NoReq, NoBridges
  <2>3. ASSUME NEW ok \in BOOLEAN, Done(c, ok)
        PROVE  pc'[c] # "bridge" /\ req'[c].op # "bridge"
    BY <2>3, DoneFacts
  <2>4. CASE ExecAttach(c) \/ BeginTransfer(c)
    BY <2>4 DEF ExecAttach, BeginTransfer, Working, Request
  <2>5. CASE \/ ExecDetach(c) \/ ExecClaim(c) \/ ExecRelease(c) \/ ExecSetConfiguration(c)
             \/ ExecBridge(c) \/ ExecFails(c) \/ FinishTransfer(c)
    BY <2>3, <2>5 DEF ExecDetach, ExecClaim, ExecRelease, ExecSetConfiguration,
                      ExecBridge, ExecFails, FinishTransfer
  <2>6. CASE Replies(c) \/ Leave(c) \/ cleanup(c)
    BY <2>6 DEF Replies, Respond, SendFails, HandOff, Bridging, Leave, cleanup, NoReq
  <2>7. 0 \in 0 .. MaxSessions /\ SessionIds \subseteq 0 .. MaxSessions
    BY DmAssumption, SMT DEF SessionIds
  <2> QED BY <1>1, <2>1, <2>2, <2>4, <2>5, <2>6, <2>7, <2>8, <2>9
          DEF Client, Server, Exec, ReceiveDevice, ReceiveSession
<1>2. ASSUME NEW c \in Conns, Client(c) \/ Server(c) PROVE Unbridged'
  <2>1. \A b \in Conns : pc'[b] # "bridge" /\ req'[b].op # "bridge"
    BY <1>1, <1>2, OthersSame DEF Unbridged
  <2> QED BY <2>1 DEF Unbridged
<1>3. CASE (BusNext /\ UNCHANGED <<dmVars, connVars>>) \/ UNCHANGED vars
  BY <1>3 DEF Unbridged, vars, connVars
<1>4. CASE ServerRestart
  BY <1>4 DEF ServerRestart, Unbridged, NoReq
<1> QED BY <1>2, <1>3, <1>4 DEF Next

\* Only an attach, a detach and a cleanup open or close handles; of the others
\* only claim and release write the table of attachments at all.
LEMMA QuietStep ==
  ASSUME TypeInv, NEW c \in Conns, Client(c) \/ Server(c),
         ~ExecAttach(c), ~ExecDetach(c), ~cleanup(c), NEW d \in Devices
  PROVE  /\ attachments'[d].handle = attachments[d].handle
         /\ \/ attachments'[d] = attachments[d]
            \/ req[c].dev = d /\ (ExecClaim(c) \/ ExecRelease(c))
<1>1. CASE UNCHANGED attachments
  BY <1>1
<1>2. CASE Client(c)
  BY <1>1, <1>2 DEF Client, Accept, Disconnect, AnswerOther, BridgeEnds, handle_hello,
                    ReceiveDevice, ReceiveSession, Start, dmVars
<1>3. CASE ExecClaim(c) \/ ExecRelease(c) \/ ExecSetConfiguration(c)
  <2>1. DmTypeOK /\ req[c].dev \in Devices
    BY <1>3 DEF ExecClaim, ExecRelease, ExecSetConfiguration, Working, TypeInv, TypeOK,
                Pending, WellFormed, SessionOps
  <2>2. attachments'[d].handle = attachments[d].handle
    BY <1>3, <2>1, ClaimSame
    DEF ExecClaim, ExecRelease, ExecSetConfiguration, set_configuration
  <2>3. \/ attachments'[d] = attachments[d]
        \/ req[c].dev = d /\ (ExecClaim(c) \/ ExecRelease(c))
    BY <1>3, <2>1 DEF ExecClaim, ExecRelease, ExecSetConfiguration, set_configuration,
                      claim_interface, release_interface, DmTypeOK
  <2> QED BY <2>2, <2>3
<1>4. CASE \/ ExecBridge(c) \/ BeginTransfer(c) \/ ExecFails(c) \/ FinishTransfer(c)
           \/ Replies(c) \/ Leave(c)
  BY <1>1, <1>4 DEF ExecBridge, BeginTransfer, ExecFails, FinishTransfer, Replies,
                    Respond, SendFails, HandOff, Leave, dmVars
<1> QED BY <1>2, <1>3, <1>4 DEF Server, Exec

\* A detach closes the handle of its device, a cleanup those of the devices its
\* sessions are for; the others stay.
Targets(c) == {d \in Devices : Attached(d) /\ \E s \in SessionIds :
                                 Owns(c, s) /\ sessionToDevice[s] = d}

LEMMA RemovalStep ==
  ASSUME TypeInv, NEW c \in Conns, ExecDetach(c) \/ cleanup(c)
  PROVE  LET D == IF ExecDetach(c) THEN {req[c].dev} ELSE Targets(c)
         IN /\ \A d \in D : d \in Devices /\ attachments'[d] = NoAttachment
            /\ \A d \in Devices \ D : attachments'[d] = attachments[d]
<1> USE DEF TypeInv, TypeOK, DmTypeOK
<1>1. CASE ExecDetach(c)
  <2>1. req[c].dev \in Devices /\ TearDown({req[c].dev})
    BY <1>1 DEF ExecDetach, detach, Working, Pending, WellFormed, SessionOps
  <2> QED BY <1>1, <2>1 DEF TearDown
<1>2. CASE cleanup(c)
  <2> DEFINE held == {s \in SessionIds : Owns(c, s)}
             targets == {e \in Devices : Attached(e) /\ \E s \in held : sessionToDevice[s] = e}
  <2>0. targets = Targets(c) BY DEF Targets
  <2>1. ~ExecDetach(c) BY <1>2 DEF cleanup, ExecDetach, Working
  <2>2. CASE held = {}
    BY <1>2, <2>0, <2>1, <2>2 DEF cleanup, dmVars
  <2>3. CASE held # {}
    <3>1. detach_all_for_sessions(held) BY <1>2, <2>3 DEF cleanup
    <3>2. TearDown(Targets(c))
      <4>1. TearDown(targets) BY <3>1 DEF detach_all_for_sessions
      <4> QED BY <2>0, <4>1
    <3>3. Targets(c) \subseteq Devices BY DEF Targets
    <3> QED BY <2>1, <3>2, <3>3 DEF TearDown
  <2> QED BY <2>2, <2>3
<1> QED BY <1>1, <1>2

\* A handle that changes is either closed, or that of a device newly attached.
LEMMA HandleStep ==
  ASSUME TypeInv, [Next]_vars, NEW d \in Devices
  PROVE  \/ attachments'[d].handle = attachments[d].handle
         \/ attachments'[d].handle = 0
         \/ \E c \in Conns : /\ ExecAttach(c) /\ req[c].dev = d /\ ~Attached(d)
                             /\ attachments'[d].handle = nextSessionId
<1> DEFINE Handled == \/ attachments'[d].handle = attachments[d].handle
                      \/ attachments'[d].handle = 0
<1>1. ASSUME NEW c \in Conns, ExecAttach(c)
      PROVE  Handled \/ (req[c].dev = d /\ ~Attached(d)
                           /\ attachments'[d].handle = nextSessionId)
  <2>1. DmTypeOK /\ req[c].dev \in Devices /\ attach(req[c].dev)
    BY <1>1 DEF ExecAttach, Working, TypeInv, TypeOK, Pending, WellFormed, DeviceOps
  <2>2. CASE req[c].dev = d BY <2>1, <2>2, AttachFacts DEF attach
  <2>3. CASE req[c].dev # d BY <2>1, <2>3, AttachFacts
  <2> QED BY <2>2, <2>3
<1>2. ASSUME NEW c \in Conns, ExecDetach(c) \/ cleanup(c) PROVE Handled
  BY <1>2, RemovalStep DEF NoAttachment
<1>3. ASSUME NEW c \in Conns, Client(c) \/ Server(c), ~ExecAttach(c), ~ExecDetach(c),
             ~cleanup(c)
      PROVE  Handled
  BY <1>3, QuietStep
<1>4. CASE (BusNext /\ UNCHANGED <<dmVars, connVars>>) \/ UNCHANGED vars
  BY <1>4 DEF vars, dmVars
<1>5. CASE ServerRestart
  BY <1>5 DEF ServerRestart, Restart, NoAttachment
<1> QED BY <1>1, <1>2, <1>3, <1>4, <1>5 DEF Next

LEMMA SettledAfterDone ==
  ASSUME TypeInv, NEW c \in Conns, NEW ok \in BOOLEAN, Done(c, ok),
         pc[c] # "reply", req[c].op = "attach" => ~ok
  PROVE  /\ pc'[c] = "reply"
         /\ Settled(c)' = IF req[c].op = "detach"
                          THEN [Settled(c) EXCEPT ![req[c].sid] = NoDevice] ELSE Settled(c)
<1>1. /\ pc'[c] = "reply" /\ sessions'[c] = sessions[c]
      /\ req'[c].op = req[c].op /\ req'[c].sid = req[c].sid
      /\ req[c].op = "attach" => ~req'[c].ok
  BY DoneFacts
<1> QED BY <1>1 DEF Settled, SessionsAfter

\* The session that a task has for an attached device stays settled as long as
\* the device stays attached: only the task's own detach of the device, or its
\* cleanup, ends either, and they end both.
LEMMA SettledKept ==
  ASSUME MatchInv, MatchedRequests, Unbridged, NEW c \in Conns, Client(c) \/ Server(c),
         NEW s \in SessionIds, NEW d \in Devices,
         Settled(c)[s] = d, attachments[d].handle = s, Serving(c)
  PROVE  (Settled(c)'[s] = d /\ Serving(c)') \/ ~Attached(d)'
<1> DEFINE Goal == (Settled(c)'[s] = d /\ Serving(c)') \/ ~Attached(d)'
<1> USE DEF Serving
<1>0. /\ TypeInv /\ DmTypeOK /\ Issued /\ 0 \notin SessionIds /\ NoDevice \notin Devices
      /\ WellFormed(req[c]) /\ KindAt(pc[c], req[c].op)
      /\ pc \in [Conns -> PCs] /\ req \in [Conns -> Request]
      /\ sessions \in [Conns -> [SessionIds -> Devices \cup {NoDevice}]]
      /\ Attached(d) /\ sessionToDevice[s] = d
      /\ Settled(c) \in [SessionIds -> Devices \cup {NoDevice}]
  BY KeptTypes, SessionsAfterType DEF TypeInv, TypeOK, Pending, Attached, MatchInv, Agree, Settled
<1>1. CASE Accept(c) \/ BridgeEnds(c)
  BY <1>1 DEF Accept, BridgeEnds
<1>2. CASE Disconnect(c)
  BY <1>2, SettledSame DEF Disconnect
<1>3. CASE AnswerOther(c)
  BY <1>0, <1>3 DEF AnswerOther, Hears, NoReq, Settled, SessionsAfter, Goto
<1>4. ASSUME NEW proven \in BOOLEAN, handle_hello(c, proven) PROVE Goal
  BY <1>0, <1>4 DEF handle_hello, Hears, NoReq, Settled, SessionsAfter, Goto
<1>5. ASSUME NEW op \in ClientOps, NEW e \in Devices, NEW t, Start(c, op, e, t) PROVE Goal
  BY <1>0, <1>5 DEF Start, Hears, Settled, Goto
<1>6. CASE ExecAttach(c)
  <2>1. Settled(c)' = [Settled(c) EXCEPT ![nextSessionId] = req[c].dev]
    BY <1>0, <1>6, AttachSettles
  <2>2. s # nextSessionId
    <3>1. Holds(c, s) BY <1>0, SettledHolds
    <3>2. s < nextSessionId /\ s \in Nat BY <1>0, <3>1, SMT DEF Issued, SessionIds
    <3> QED BY <1>0, <3>2, SMT
  <2>3. pc'[c] = "reply" BY <1>0, <1>6 DEF ExecAttach, Goto
  <2> QED BY <1>0, <2>1, <2>2, <2>3
<1>7. ASSUME pc[c] \in {"work", "transfer"}, NEW ok \in BOOLEAN, Done(c, ok),
             req[c].op = "attach" => ~ok, req[c].op = "detach" => s # req[c].sid
      PROVE  Goal
  BY <1>0, <1>7, SettledAfterDone
<1>8. ASSUME pc[c] = "work", req[c].op = "detach", s = req[c].sid PROVE req[c].dev = d
  BY <1>0, <1>8 DEF MatchInv, Named, SessionOps, Settled
<1>9. CASE ExecDetach(c)
  <2>1. CASE s = req[c].sid
    <3>1. req[c].dev = d /\ TearDown({d})
      BY <1>8, <1>9, <2>1 DEF ExecDetach, Working, detach
    <3>2. attachments'[d] = NoAttachment BY <3>1 DEF TearDown
    <3> QED BY <3>2 DEF Attached, NoAttachment
  <2>2. CASE s # req[c].sid
    BY <1>7, <1>9, <2>2 DEF ExecDetach, Working
  <2> QED BY <2>1, <2>2
<1>10. CASE ExecFails(c)
  <2>1. ~(req[c].op = "detach" /\ s = req[c].sid)
    BY <1>0, <1>8, <1>10 DEF ExecFails
  <2> QED BY <1>7, <1>10, <2>1 DEF ExecFails
<1>11. CASE ExecClaim(c) \/ ExecRelease(c) \/ ExecSetConfiguration(c) \/ ExecBridge(c)
  BY <1>7, <1>11 DEF ExecClaim, ExecRelease, ExecSetConfiguration, ExecBridge, Working
<1>12. CASE FinishTransfer(c)
  BY <1>0, <1>7, <1>12 DEF FinishTransfer, KindAt
<1>13. CASE BeginTransfer(c)
  BY <1>0, <1>13 DEF BeginTransfer, Working, Settled, Goto
<1>14. CASE Respond(c) \/ SendFails(c)
  BY <1>0, <1>14 DEF Respond, SendFails, Settled, Goto
<1>15. ~HandOff(c)
  BY DEF HandOff, Bridging, Unbridged
<1>16. CASE Leave(c)
  BY <1>0, <1>16 DEF Leave, Settled, Goto
<1>17. CASE cleanup(c)
  <2> DEFINE held == {t \in SessionIds : Owns(c, t)}
             targets == {e \in Devices : Attached(e) /\ \E t \in held : sessionToDevice[t] = e}
  <2>1. s \in held /\ d \in targets
    BY <1>0, <1>17 DEF cleanup, Owns, Settled
  <2>2. detach_all_for_sessions(held) BY <1>17, <2>1 DEF cleanup
  <2>3. TearDown(targets) BY <2>2 DEF detach_all_for_sessions
  <2>4. attachments'[d] = NoAttachment BY <2>1, <2>3 DEF TearDown
  <2> QED BY <2>4 DEF Attached, NoAttachment
<1> QED BY <1>1, <1>2, <1>3, <1>4, <1>5, <1>6, <1>9, <1>10, <1>11, <1>12, <1>13,
           <1>14, <1>15, <1>16, <1>17
        DEF Client, Server, Exec, Replies, ReceiveDevice, ReceiveSession

LEMMA KeptStep == MatchedRequests /\ NoBridges /\ KeptInv /\ [Next]_vars => KeptInv'
<1> SUFFICES ASSUME MatchedRequests, NoBridges, KeptInv, [Next]_vars PROVE KeptInv'
  OBVIOUS
<1>0. /\ MatchInv /\ Unbridged /\ Kept
      /\ TypeInv /\ DmTypeOK /\ 0 \notin SessionIds /\ NoDevice \notin Devices
  BY KeptTypes DEF KeptInv
<1>1. MatchInv' /\ Unbridged'
  BY <1>0, MatchStep, UnbridgedStep
<1> DEFINE KeptBy(c, d) == /\ attachments[d].handle \in SessionIds
                           /\ Settled(c)[attachments[d].handle] = d
                           /\ Serving(c)
<1>2. ASSUME NEW d \in Devices, Attached(d)',
             attachments'[d].handle = attachments[d].handle
      PROVE  \E c \in Conns : KeptBy(c, d)'
  <2>1. PICK c \in Conns : KeptBy(c, d)
    BY <1>0, <1>2 DEF Kept, Attached
  <2>2. ASSUME NEW b \in Conns, Client(b) \/ Server(b) PROVE KeptBy(c, d)'
    <3>1. CASE b = c
      BY <1>0, <1>2, <2>1, <2>2, <3>1, SettledKept
    <3>2. CASE b # c
      <4>1. pc'[c] = pc[c] /\ Settled(c)' = Settled(c)
        BY <1>0, <2>2, <3>2, OthersSame, SettledSame
      <4> QED BY <1>2, <2>1, <4>1 DEF Serving
    <3> QED BY <3>1, <3>2
  <2>3. CASE (BusNext /\ UNCHANGED <<dmVars, connVars>>) \/ UNCHANGED vars
    <3>1. UNCHANGED <<pc, req, sessions>> BY <2>3 DEF vars, connVars
    <3>2. Settled(c)' = Settled(c) BY <3>1, SettledSame
    <3> QED BY <1>2, <2>1, <3>1, <3>2 DEF Serving
  <2>4. ~ServerRestart
    BY <1>2 DEF ServerRestart, Restart, Attached, NoAttachment
  <2> QED BY <2>2, <2>3, <2>4 DEF Next
<1>3. ASSUME NEW d \in Devices, NEW c \in Conns, ExecAttach(c), req[c].dev = d,
             attachments'[d].handle = nextSessionId
      PROVE  KeptBy(c, d)'
  <2>1. /\ nextSessionId \in SessionIds
        /\ Settled(c)' = [Settled(c) EXCEPT ![nextSessionId] = d]
    BY <1>0, <1>3, AttachSettles
  <2>2. Settled(c) \in [SessionIds -> Devices \cup {NoDevice}]
    BY <1>0, SessionsAfterType DEF Settled, TypeInv, TypeOK
  <2>3. Serving(c)' BY <1>0, <1>3 DEF ExecAttach, Goto, Serving, TypeInv, TypeOK
  <2> QED BY <1>3, <2>1, <2>2, <2>3
<1>4. ASSUME NEW d \in Devices, Attached(d)' PROVE \E c \in Conns : KeptBy(c, d)'
  <2>1. CASE attachments'[d].handle = attachments[d].handle
    BY <1>2, <1>4, <2>1
  <2>2. CASE \E c \in Conns : /\ ExecAttach(c) /\ req[c].dev = d
                              /\ attachments'[d].handle = nextSessionId
    BY <1>3, <2>2
  <2> QED BY <1>0, <1>4, <2>1, <2>2, HandleStep DEF Attached
<1>5. Kept' BY <1>4 DEF Kept
<1> QED BY <1>1, <1>5 DEF KeptInv

LEMMA KeptInvariant == MatchedRequests /\ NoBridges => (Spec => []KeptInv)
<1> SUFFICES ASSUME MatchedRequests, NoBridges PROVE Spec => []KeptInv
  OBVIOUS
<1>1. Init => KeptInv
  <2> SUFFICES ASSUME Init PROVE KeptInv
    OBVIOUS
  <2>1. Unbridged BY DEF Init, Unbridged, NoReq
  <2>2. Kept BY DEF Init, DmInit, Kept, Attached, NoAttachment
  <2> QED BY <2>1, <2>2, MatchInit DEF KeptInv
<1>2. KeptInv /\ [Next]_vars => KeptInv' BY KeptStep
<1> QED BY <1>1, <1>2, PTL DEF Spec

\* No device stays attached to nobody: however attaches, detaches, failed
\* replies, disconnects, replugs and restarts of the server interleave, the
\* session of an attached device is that of a task whose cleanup is yet to
\* come and will find it.
THEOREM NoOrphanCorrect == MatchedRequests /\ NoBridges => (Spec => []NoOrphan)
<1>1. KeptInv => NoOrphan
  <2> SUFFICES ASSUME KeptInv, NEW d \in Devices, Attached(d)
               PROVE  \E c \in Conns, s \in SessionIds :
                         /\ attachments[d].handle = s /\ sessionToDevice[s] = d
                         /\ Holds(c, s) /\ pc[c] \notin {"closed", "bridge"}
    BY DEF NoOrphan
  <2>0. MatchInv /\ TypeInv /\ NoDevice \notin Devices BY KeptTypes DEF KeptInv
  <2>1. PICK c \in Conns : /\ attachments[d].handle \in SessionIds
                           /\ Settled(c)[attachments[d].handle] = d
                           /\ Serving(c)
    BY DEF KeptInv, Kept
  <2>2. sessionToDevice[attachments[d].handle] = d
    BY <2>0, <2>1 DEF MatchInv, Agree
  <2>3. Holds(c, attachments[d].handle) BY <2>0, <2>1, SettledHolds
  <2> QED BY <2>1, <2>2, <2>3 DEF Serving
<1> SUFFICES ASSUME MatchedRequests, NoBridges PROVE Spec => []NoOrphan
  OBVIOUS
<1>2. Spec => []KeptInv BY KeptInvariant
<1> QED BY <1>1, <1>2, PTL
-----------------------------------------------------------------------------
(***************************************************************************)
(* The refinement.  Every step of the server is an Acquire, an Ask or a    *)
(* Release of DeviceLease, or changes neither holder nor leaving.          *)
(***************************************************************************)
\* The holder of an attached device is the one task that has its session, and a
\* device that is not attached has none.
HeldBy(d, c, h) == /\ attachments[d].handle = h
                   /\ Holds(c, h)
                   /\ Holder[d] = c
                   /\ \A b \in Conns : Holds(b, h) => b = c

HolderSound == \A d \in Devices :
                  IF Attached(d) THEN \E c \in Conns, h \in SessionIds : HeldBy(d, c, h)
                                 ELSE Holder[d] = NoConn

LEMMA HolderIs == KeptInv => HolderSound
<1> SUFFICES ASSUME KeptInv, NEW d \in Devices, Attached(d)
             PROVE  \E c \in Conns, h \in SessionIds : HeldBy(d, c, h)
  BY DEF HolderSound, Holder
<1>0. MatchInv /\ TypeInv /\ SessionsDisjoint /\ NoDevice \notin Devices
  BY KeptTypes DEF KeptInv
<1>1. PICK c \in Conns, h \in SessionIds : attachments[d].handle = h /\ Settled(c)[h] = d
  BY DEF KeptInv, Kept
<1>2. Holds(c, h) BY <1>0, <1>1, SettledHolds
<1>3. \A b \in Conns : Holds(b, h) => b = c
  BY <1>0, <1>2 DEF SessionsDisjoint
<1>4. Holder[d] = c
  <2>1. Holder[d] = CHOOSE b \in Conns : Holds(b, h)
    BY <1>1, <1>2 DEF Holder
  <2> QED BY <1>2, <1>3, <2>1
<1> QED BY <1>1, <1>2, <1>3, <1>4 DEF HeldBy

LEMMA HolderIsNext == KeptInv' => HolderSound'
  BY HolderIs, PTL

\* As long as a device stays attached under one session its holder stays too.
LEMMA HolderSame ==
  ASSUME KeptInv, KeptInv', [Next]_vars, NEW d \in Devices,
         attachments'[d].handle = attachments[d].handle
  PROVE  Holder'[d] = Holder[d]
<1>0. HolderSound /\ HolderSound'
  BY HolderIs, HolderIsNext
<1>1. CASE ~Attached(d)
  <2>1. ~Attached(d)' BY <1>1 DEF Attached
  <2> QED BY <1>0, <1>1, <2>1 DEF HolderSound
<1>2. CASE Attached(d)
  <2>1. Attached(d)' BY <1>2 DEF Attached
  <2>2. PICK c \in Conns, h \in SessionIds : HeldBy(d, c, h)
    BY <1>0, <1>2 DEF HolderSound
  <2>3. PICK b \in Conns, k \in SessionIds : HeldBy(d, b, k)'
    BY <1>0, <2>1 DEF HolderSound
  <2>4. k = h BY <2>2, <2>3 DEF HeldBy
  <2>5. TypeInv /\ Issued /\ nextSessionId \in Nat
    BY KeptTypes DEF KeptInv
  <2>6. h # nextSessionId
    <3>1. h < nextSessionId BY <2>2, <2>5 DEF HeldBy, Issued
    <3> QED BY <2>5, <3>1, SMT DEF SessionIds
  <2>7. Holds(b, h)
    <3>1. Holds(b, h)' BY <2>3, <2>4 DEF HeldBy
    <3> QED BY <2>5, <2>6, <3>1, HoldsStep
  <2> QED BY <2>2, <2>3, <2>7 DEF HeldBy
<1> QED BY <1>1, <1>2

\* Who has, or is about to have, an attached device's session holds the device.
LEMMA HolderIsOwner ==
  ASSUME KeptInv, NEW d \in Devices, Attached(d), NEW c \in Conns,
         Holds(c, attachments[d].handle)
  PROVE  Holder[d] = c
<1>1. PICK b \in Conns, h \in SessionIds : HeldBy(d, b, h)
  BY HolderIs DEF HolderSound
<1> QED BY <1>1 DEF HeldBy

\* The task whose leaving a step changes is the one whose step it is.
IsLeaving(c) == pc[c] = "cleanup" \/ Working(c, "detach")

LEMMA LeavingStep ==
  ASSUME TypeInv, NEW c \in Conns, Client(c) \/ Server(c)
  PROVE  Leaving' = [Leaving EXCEPT ![c] = IsLeaving(c)'] /\ Leaving[c] = IsLeaving(c)
<1>1. \A b \in Conns \ {c} : pc'[b] = pc[b] /\ req'[b] = req[b]
  BY OthersSame
<1> QED BY <1>1 DEF Leaving, IsLeaving, Working

LEMMA LeaseAttach ==
  ASSUME KeptInv, KeptInv', [Next]_vars, NEW c \in Conns, ExecAttach(c)
  PROVE  \E d \in Devices : Lease!Acquire(c, d)
<1>d. PICK d \in Devices : req[c].dev = d
  BY KeptTypes DEF KeptInv, ExecAttach, Working, TypeInv, Pending, WellFormed, DeviceOps
<1>0. /\ TypeInv /\ DmTypeOK /\ attach(d) /\ 0 \notin SessionIds
      /\ nextSessionId \in SessionIds /\ pc[c] = "work" /\ req[c] \in Request
      /\ req[c].op = "attach"
  BY <1>d, KeptTypes, AttachSettles DEF KeptInv, ExecAttach, Working, TypeInv, TypeOK
<1>1. Holder[d] = NoConn
  BY <1>0, HolderIs DEF HolderSound, attach
<1>2. Holder'[d] = c
  <2>1. attachments'[d].handle = nextSessionId BY <1>0, AttachFacts
  <2>2. Attached(d)' BY <1>0, <2>1 DEF Attached
  <2>3. PICK b \in Conns, h \in SessionIds : HeldBy(d, b, h)'
    BY <1>0, <2>2, HolderIsNext DEF HolderSound
  <2>4. req'[c].op = "attach" /\ req'[c].ok /\ req'[c].sid = nextSessionId
    BY <1>0 DEF ExecAttach, Request, TypeInv, TypeOK
  <2>5. pc'[c] = "reply" BY <1>0 DEF ExecAttach, Goto, TypeInv, TypeOK
  <2>6. Holds(c, h)'
    <3>1. h = nextSessionId BY <2>1, <2>3 DEF HeldBy
    <3> QED BY <2>4, <2>5, <3>1 DEF Holds
  <2> QED BY <2>3, <2>6 DEF HeldBy
<1>3. \A e \in Devices \ {d} : Holder'[e] = Holder[e]
  BY <1>0, AttachFacts, HolderSame
<1>4. Holder' = [Holder EXCEPT ![d] = c]
  BY <1>2, <1>3 DEF Holder
<1>5. ~Leaving[c] /\ Leaving' = Leaving
  <2>1. ~IsLeaving(c) /\ ~IsLeaving(c)'
    BY <1>0 DEF IsLeaving, Working, ExecAttach, Goto, TypeInv, TypeOK
  <2>2. Client(c) \/ Server(c) BY DEF Server, Exec
  <2>3. Leaving' = [Leaving EXCEPT ![c] = IsLeaving(c)'] /\ Leaving[c] = IsLeaving(c)
    BY <1>0, <2>2, LeavingStep
  <2>4. IsLeaving(c)' = IsLeaving(c) BY <2>1 DEF IsLeaving
  <2> QED BY <2>1, <2>3, <2>4 DEF Leaving
<1> QED BY <1>0, <1>1, <1>4, <1>5 DEF Lease!Acquire

\* What a detach or a cleanup closes was the task's own.
LEMMA OwnTargets ==
  ASSUME KeptInv, MatchedRequests, NEW c \in Conns, ExecDetach(c) \/ cleanup(c),
         NEW d \in Devices,
         d \in (IF ExecDetach(c) THEN {req[c].dev} ELSE Targets(c))
  PROVE  Holder[d] = c
<1>0. TypeInv /\ MatchInv /\ NoDevice \notin Devices
  BY KeptTypes DEF KeptInv
<1>1. PICK s \in SessionIds : Attached(d) /\ sessionToDevice[s] = d /\ Owns(c, s)
  <2>1. CASE ExecDetach(c)
    <3>1. /\ req[c].dev = d /\ req[c].sid \in SessionIds /\ Attached(d)
          /\ sessions[c][req[c].sid] = d /\ Settled(c) = sessions[c]
      BY <1>0, <2>1 DEF ExecDetach, detach, Working, MatchInv, Named, SessionOps, TypeInv,
                        Pending, WellFormed, Settled
    <3> QED BY <1>0, <3>1 DEF MatchInv, Agree, Owns
  <2>2. CASE ~ExecDetach(c) BY <2>2 DEF Targets
  <2> QED BY <2>1, <2>2
<1>2. attachments[d].handle = s
  BY <1>0, <1>1 DEF MatchInv, Backed
<1> QED BY <1>1, <1>2, HolderIsOwner DEF Holds

LEMMA LeaseRelease ==
  ASSUME KeptInv, KeptInv', [Next]_vars, MatchedRequests, NEW c \in Conns,
         ExecDetach(c) \/ cleanup(c)
  PROVE  \E D \in SUBSET Devices : Lease!Release(c, D)
<1> DEFINE D == IF ExecDetach(c) THEN {req[c].dev} ELSE Targets(c)
<1>0. TypeInv BY KeptTypes DEF KeptInv
<1>1. /\ \A d \in D : d \in Devices /\ attachments'[d] = NoAttachment
      /\ \A d \in Devices \ D : attachments'[d] = attachments[d]
  BY <1>0, RemovalStep
<1>2. \A d \in D : Holder[d] = c
  BY <1>1, OwnTargets
<1> HIDE DEF D
<1>3. Holder' = [d \in Devices |-> IF d \in D THEN NoConn ELSE Holder[d]]
  <2>1. \A d \in D : Holder'[d] = NoConn
    BY <1>1, HolderIsNext DEF HolderSound, Attached, NoAttachment
  <2>2. \A d \in Devices \ D : Holder'[d] = Holder[d]
    BY <1>1, HolderSame
  <2> QED BY <2>1, <2>2 DEF Holder
<1>4. Leaving[c] /\ Leaving' = [Leaving EXCEPT ![c] = FALSE]
  <2>1. IsLeaving(c) /\ ~IsLeaving(c)'
    BY <1>0 DEF IsLeaving, Working, ExecDetach, cleanup, Done, Goto, TypeInv, TypeOK
  <2>2. Leaving' = [Leaving EXCEPT ![c] = IsLeaving(c)'] /\ Leaving[c] = IsLeaving(c)
    BY <1>0, LeavingStep DEF Server, Exec
  <2>3. IsLeaving(c)' = FALSE BY <2>1 DEF IsLeaving
  <2> QED BY <2>1, <2>2, <2>3
<1>5. D \in SUBSET Devices BY <1>1
<1> QED BY <1>2, <1>3, <1>4, <1>5 DEF Lease!Release

\* With no handle opened or closed a step only asks, or gives nothing up.
LEMMA LeaseQuiet ==
  ASSUME KeptInv, KeptInv', [Next]_vars, NEW c \in Conns, Client(c) \/ Server(c),
         \A d \in Devices : attachments'[d].handle = attachments[d].handle
  PROVE  [Lease!LeaseNext]_<<Holder, Leaving>>
<1>0. TypeInv BY KeptTypes DEF KeptInv
<1>1. Holder' = Holder
  BY HolderSame DEF Holder
<1>2. Leaving' = [Leaving EXCEPT ![c] = IsLeaving(c)'] /\ Leaving[c] = IsLeaving(c)
  BY <1>0, LeavingStep
<1>3. IsLeaving(c) \in BOOLEAN /\ IsLeaving(c)' \in BOOLEAN
  BY DEF IsLeaving
<1>4. CASE IsLeaving(c)' = IsLeaving(c)
  BY <1>1, <1>2, <1>4 DEF Leaving
<1>5. CASE ~IsLeaving(c) /\ IsLeaving(c)'
  <2>1. IsLeaving(c)' = TRUE BY <1>3, <1>5
  <2>2. Lease!Ask(c) BY <1>1, <1>2, <2>1 DEF Lease!Ask
  <2> QED BY <2>2 DEF Lease!LeaseNext
<1>6. CASE IsLeaving(c) /\ ~IsLeaving(c)'
  <2>1. IsLeaving(c)' = FALSE BY <1>3, <1>6
  <2>2. Lease!Release(c, {})
    BY <1>1, <1>2, <1>6, <2>1 DEF Lease!Release, Holder
  <2>3. {} \in SUBSET Devices OBVIOUS
  <2> QED BY <2>2, <2>3 DEF Lease!LeaseNext
<1> QED BY <1>3, <1>4, <1>5, <1>6

LEMMA LeaseStep ==
  MatchedRequests /\ ~AllowRestart /\ KeptInv /\ KeptInv' /\ [Next]_vars
    => [Lease!LeaseNext]_<<Holder, Leaving>>
<1> SUFFICES ASSUME MatchedRequests, ~AllowRestart, KeptInv, KeptInv', [Next]_vars
             PROVE  [Lease!LeaseNext]_<<Holder, Leaving>>
  OBVIOUS
<1>0. TypeInv BY KeptTypes DEF KeptInv
<1>1. ASSUME NEW c \in Conns, ExecAttach(c) PROVE Lease!LeaseNext
  BY <1>1, LeaseAttach DEF Lease!LeaseNext
<1>2. ASSUME NEW c \in Conns, ExecDetach(c) \/ cleanup(c) PROVE Lease!LeaseNext
  BY <1>2, LeaseRelease DEF Lease!LeaseNext
<1>3. ASSUME NEW c \in Conns, Client(c) \/ Server(c),
             ~ExecAttach(c), ~ExecDetach(c), ~cleanup(c)
      PROVE  [Lease!LeaseNext]_<<Holder, Leaving>>
  <2>1. \A d \in Devices : attachments'[d].handle = attachments[d].handle
    BY <1>0, <1>3, QuietStep
  <2> QED BY <1>3, <2>1, LeaseQuiet
<1>4. CASE (BusNext /\ UNCHANGED <<dmVars, connVars>>) \/ UNCHANGED vars
  <2>1. UNCHANGED <<attachments, pc, req>> BY <1>4 DEF vars, dmVars, connVars
  <2>2. Holder' = Holder
    <3>1. \A d \in Devices : Holder'[d] = Holder[d] BY <2>1, HolderSame
    <3> QED BY <3>1 DEF Holder
  <2>3. Leaving' = Leaving BY <2>1 DEF Leaving, Working
  <2> QED BY <2>2, <2>3
<1>5. ~ServerRestart BY DEF ServerRestart, Restart
<1> QED BY <1>1, <1>2, <1>3, <1>4, <1>5 DEF Next

\* The server implements the lease, as long as its process lives: a device goes
\* only from nobody to a task that attached it and back to nobody, by its own
\* holder's detach or cleanup, whatever the interleaving.
THEOREM ImplementsLeaseCorrect ==
  MatchedRequests /\ NoBridges /\ ~AllowRestart => (Spec => ImplementsLease)
<1> SUFFICES ASSUME MatchedRequests, NoBridges, ~AllowRestart
             PROVE  Spec => ImplementsLease
  OBVIOUS
<1>1. Init => Lease!LeaseInit
  <2> SUFFICES ASSUME Init PROVE Lease!LeaseInit
    OBVIOUS
  <2>1. Holder = [d \in Devices |-> NoConn]
    <3>1. \A d \in Devices : ~Attached(d) BY DEF Init, DmInit, Attached, NoAttachment
    <3> QED BY <3>1 DEF Holder
  <2>2. Leaving = [c \in Conns |-> FALSE]
    <3>1. \A c \in Conns : ~(pc[c] = "cleanup" \/ Working(c, "detach"))
      BY DEF Init, Working
    <3> QED BY <3>1 DEF Leaving
  <2> QED BY <2>1, <2>2 DEF Lease!LeaseInit
<1>2. KeptInv /\ KeptInv' /\ [Next]_vars => [Lease!LeaseNext]_<<Holder, Leaving>>
  BY LeaseStep
<1>3. Spec => []KeptInv BY KeptInvariant
<1> QED BY <1>1, <1>2, <1>3, PTL DEF Spec, ImplementsLease, Lease!LeaseSpec

\* A claim goes on record, or off it, only by a request of the connection that
\* has the device attached, though claim and release look at the device alone.
THEOREM OnlyHolderClaimsCorrect == MatchedRequests => (Spec => OnlyHolderClaims)
<1> DEFINE Claims == \A d \in Devices :
       (Attached(d) /\ attachments'[d].handle = attachments[d].handle
                    /\ attachments'[d].claimed # attachments[d].claimed)
         => \E c \in Conns : MayUse(c, d) /\ pc[c] = "work" /\ pc'[c] = "reply"
<1> SUFFICES ASSUME MatchedRequests PROVE Spec => OnlyHolderClaims
  OBVIOUS
<1>1. ASSUME MatchInv, [Next]_vars, NEW d \in Devices, Attached(d),
             attachments'[d].handle = attachments[d].handle,
             attachments'[d].claimed # attachments[d].claimed
      PROVE  \E c \in Conns : MayUse(c, d) /\ pc[c] = "work" /\ pc'[c] = "reply"
  <2>0. TypeInv /\ DmTypeOK /\ NoDevice \notin Devices
    BY <1>1, KeptTypes
  <2>1. PICK c \in Conns : (ExecClaim(c) \/ ExecRelease(c)) /\ req[c].dev = d
    <3>1. attachments'[d] # attachments[d] BY <1>1
    <3>2. ASSUME NEW c \in Conns PROVE ~ExecDetach(c) /\ ~cleanup(c)
      BY <1>1, <2>0, <3>1, RemovalStep DEF Attached, NoAttachment
    <3>3. ASSUME NEW c \in Conns PROVE ~ExecAttach(c)
      <4> SUFFICES ASSUME ExecAttach(c) PROVE FALSE
        OBVIOUS
      <4>1. req[c].dev \in Devices /\ attach(req[c].dev)
        BY <2>0 DEF ExecAttach, Working, TypeInv, Pending, WellFormed, DeviceOps
      <4>2. req[c].dev # d BY <1>1, <4>1 DEF attach
      <4> QED BY <2>0, <3>1, <4>1, <4>2 DEF attach, Enter, DmTypeOK
    <3>4. ~ServerRestart
      BY <1>1 DEF ServerRestart, Restart, Attached, NoAttachment
    <3>5. ~((BusNext /\ UNCHANGED <<dmVars, connVars>>) \/ UNCHANGED vars)
      BY <3>1 DEF vars, dmVars
    <3> QED BY <1>1, <2>0, <3>1, <3>2, <3>3, <3>4, <3>5, QuietStep DEF Next
  <2>2. pc[c] = "work" /\ pc'[c] = "reply"
    BY <2>0, <2>1 DEF ExecClaim, ExecRelease, Working, Done, Goto, TypeInv, TypeOK
  <2>3. /\ req[c].sid \in SessionIds /\ sessions[c][req[c].sid] = d
        /\ Settled(c) = sessions[c]
    BY <1>1, <2>0, <2>1, <2>2
    DEF ExecClaim, ExecRelease, Working, MatchInv, Named, SessionOps, TypeInv, Pending,
        WellFormed, Settled
  <2>4. MayUse(c, d)
    BY <1>1, <2>0, <2>3 DEF MatchInv, Agree, MayUse, Owns, validate_session
  <2> QED BY <2>2, <2>4
<1>2. MatchInv /\ [Next]_vars => [Claims]_vars
  BY <1>1, Zenon
<1>3. Spec => []MatchInv BY MatchInvariant
<1> QED BY <1>2, <1>3, PTL DEF Spec, OnlyHolderClaims
=============================================================================
