-------------------------- MODULE ConnectionProofs --------------------------
(***************************************************************************)
(* Theorems about Connection: the type invariant; what holds of sessions   *)
(* for every client; and, for clients that name a session's own device,    *)
(* the exclusive use of a device.                                          *)
(***************************************************************************)
EXTENDS Connection, DeviceManagerProofs

DeviceOps == {"attach", "bridge"}

ConnTypeOK == /\ pc \in [Conns -> PCs]
              /\ up \in [Conns -> BOOLEAN]
              /\ authenticated \in [Conns -> BOOLEAN]
              /\ sessions \in [Conns -> [SessionIds -> Devices \cup {NoDevice}]]
              /\ req \in [Conns -> Request]

\* A request of r's kind has the arguments that its handler uses.
WellFormed(r) == /\ r.op \in DeviceOps \cup SessionOps => r.dev \in Devices
                 /\ r.op \in SessionOps => r.sid \in SessionIds
                 /\ r.op = "attach" /\ r.ok => r.sid \in SessionIds

\* The kind of request that a task can be busy with at l.
KindAt(l, op) == /\ l = "work" => op \in DeviceOps \cup SessionOps
                 /\ l = "transfer" => op = "transfer"

Pending == \A c \in Conns : WellFormed(req[c]) /\ KindAt(pc[c], req[c].op)

TypeInv == TypeOK /\ Pending

LEMMA TypeParts == TypeOK <=> DmTypeOK /\ ConnTypeOK
  BY DEF TypeOK, ConnTypeOK

\* A step of one connection that ends with request r at l.
LEMMA StepOfOne ==
  ASSUME TypeInv, NEW c \in Conns, NEW r \in Request, NEW l \in PCs,
         req' = [req EXCEPT ![c] = r], pc' = [pc EXCEPT ![c] = l],
         WellFormed(r), KindAt(l, r.op)
  PROVE  /\ req' \in [Conns -> Request] /\ pc' \in [Conns -> PCs]
         /\ Pending'
         /\ req'[c] = r /\ pc'[c] = l
         /\ \A b \in Conns \ {c} : req'[b] = req[b] /\ pc'[b] = pc[b]
<1>1. /\ req' \in [Conns -> Request] /\ pc' \in [Conns -> PCs]
      /\ req'[c] = r /\ pc'[c] = l
      /\ \A b \in Conns \ {c} : req'[b] = req[b] /\ pc'[b] = pc[b]
  BY DEF TypeInv, TypeOK
<1>2. \A b \in Conns : WellFormed(req'[b]) /\ KindAt(pc'[b], req'[b].op)
  BY <1>1 DEF TypeInv, Pending
<1> QED BY <1>1, <1>2, Zenon DEF Pending, WellFormed, KindAt

LEMMA NoReqType == NoReq \in Request /\ NoReq.op = "none" /\ ~NoReq.ok
  BY DmAssumption, SMT DEF NoReq, Request, Ops

LEMMA NoSessionsType == NoSessions \in [SessionIds -> Devices \cup {NoDevice}]
  BY DEF NoSessions

\* The map a handler leaves to its task is a map of sessions.
LEMMA SessionsAfterType ==
  ASSUME TypeInv, NEW c \in Conns
  PROVE  SessionsAfter(c) \in [SessionIds -> Devices \cup {NoDevice}]
<1>1. sessions[c] \in [SessionIds -> Devices \cup {NoDevice}]
  BY DEF TypeInv, TypeOK
<1>2. req[c].op = "attach" => req[c].dev \in Devices
  BY DEF TypeInv, Pending, WellFormed, DeviceOps
<1> QED BY <1>1, <1>2 DEF SessionsAfter

\* A step that leaves req and pc of every connection alone keeps Pending.
LEMMA SamePending == Pending /\ UNCHANGED <<req, pc>> => Pending'
  BY DEF Pending, WellFormed, KindAt

\* A request is built from NoReq.
Asking(op, d, s) == [NoReq EXCEPT !.op = op, !.dev = d, !.sid = s]

LEMMA RequestType ==
  ASSUME NEW op \in Ops, NEW d \in Devices, NEW s \in 0 .. MaxSessions
  PROVE  /\ Asking(op, d, s) \in Request
         /\ Asking(op, d, s).op = op /\ Asking(op, d, s).dev = d
         /\ Asking(op, d, s).sid = s /\ ~Asking(op, d, s).ok
BY DEF NoReq, Request, Asking

\* A request gets its outcome; nothing else of it changes.
LEMMA OutcomeType ==
  ASSUME NEW r \in Request, NEW ok \in BOOLEAN
  PROVE  LET q == [r EXCEPT !.ok = ok]
         IN q \in Request /\ q.op = r.op /\ q.dev = r.dev /\ q.sid = r.sid /\ q.ok = ok
BY DEF Request

LEMMA GrantType ==
  ASSUME NEW r \in Request, NEW s \in SessionIds
  PROVE  LET q == [r EXCEPT !.ok = TRUE, !.sid = s]
         IN q \in Request /\ q.op = r.op /\ q.dev = r.dev /\ q.sid = s
<1>1. s \in 0 .. MaxSessions BY DmAssumption, SMT DEF SessionIds
<1> QED BY <1>1 DEF Request

\* What Done(c, ok) does, for a task whose request is not an attach that
\* succeeds.
LEMMA DoneType ==
  ASSUME TypeInv, NEW c \in Conns, NEW ok \in BOOLEAN, Done(c, ok),
         req[c].op = "attach" => ~ok
  PROVE  ConnTypeOK' /\ Pending'
<1> DEFINE q == [req[c] EXCEPT !.ok = ok]
<1>1. req[c] \in Request /\ WellFormed(req[c])
  BY DEF TypeInv, TypeOK, Pending
<1>2. q \in Request /\ q.op = req[c].op /\ q.dev = req[c].dev /\ q.sid = req[c].sid /\ q.ok = ok
  BY <1>1, OutcomeType
<1>3. WellFormed(q) /\ KindAt("reply", q.op)
  <2> HIDE DEF q
  <2> QED BY <1>1, <1>2 DEF WellFormed, KindAt
<1>4. req' = [req EXCEPT ![c] = q] /\ pc' = [pc EXCEPT ![c] = "reply"]
  BY DEF Done, Goto
<1>5. req' \in [Conns -> Request] /\ pc' \in [Conns -> PCs] /\ Pending'
  <2> HIDE DEF q
  <2>1. "reply" \in PCs BY DEF PCs
  <2> QED BY <1>2, <1>3, <1>4, <2>1, StepOfOne
<1> QED BY <1>5 DEF Done, ConnTypeOK, TypeInv, TypeOK

LEMMA StartType ==
  ASSUME TypeInv, NEW c \in Conns, NEW op \in ClientOps, NEW d \in Devices,
         NEW s \in 0 .. MaxSessions, Start(c, op, d, s),
         op \in DeviceOps \cup SessionOps, op \in SessionOps => s \in SessionIds
  PROVE  ConnTypeOK' /\ Pending'
<1> DEFINE q == Asking(op, d, s)
<1>1. op \in Ops BY ConnAssumption
<1>2. q \in Request /\ q.op = op /\ q.dev = d /\ q.sid = s /\ ~q.ok
  BY <1>1, RequestType
<1>4. req' = [req EXCEPT ![c] = q] /\ pc' = [pc EXCEPT ![c] = "work"]
  BY DEF Start, Goto, Asking
<1>5. req' \in [Conns -> Request] /\ pc' \in [Conns -> PCs] /\ Pending'
  <2> HIDE DEF q
  <2>1. WellFormed(q) /\ KindAt("work", q.op)
    BY <1>2 DEF WellFormed, KindAt
  <2>2. "work" \in PCs BY DEF PCs
  <2> QED BY <1>2, <1>4, <2>1, <2>2, StepOfOne
<1> QED BY <1>5 DEF Start, ConnTypeOK, TypeInv, TypeOK

\* Everything that a task does without the DeviceManager, from idle to idle.
LEMMA ToNoReqType ==
  ASSUME TypeInv, NEW c \in Conns, NEW l \in PCs \ {"work", "transfer"},
         req' = [req EXCEPT ![c] = NoReq], Goto(c, l)
  PROVE  req' \in [Conns -> Request] /\ pc' \in [Conns -> PCs] /\ Pending'
<1>1. NoReq \in Request /\ WellFormed(NoReq) /\ KindAt(l, NoReq.op)
  BY NoReqType DEF WellFormed, KindAt, DeviceOps, SessionOps
<1>2. pc' = [pc EXCEPT ![c] = l] BY DEF Goto
<1> QED BY <1>1, <1>2, StepOfOne

LEMMA SameReqType ==
  ASSUME TypeInv, NEW c \in Conns, NEW l \in PCs \ {"work", "transfer"},
         UNCHANGED req, Goto(c, l)
  PROVE  req' \in [Conns -> Request] /\ pc' \in [Conns -> PCs] /\ Pending'
<1>1. req[c] \in Request /\ WellFormed(req[c]) /\ KindAt(l, req[c].op)
  BY DEF TypeInv, TypeOK, Pending, KindAt
<1>2. pc' = [pc EXCEPT ![c] = l] BY DEF Goto
<1>3. req' = [req EXCEPT ![c] = req[c]] BY DEF TypeInv, TypeOK
<1> QED BY <1>1, <1>2, <1>3, StepOfOne

(***************************************************************************)
(* Type correctness, action by action.                                     *)
(***************************************************************************)
LEMMA ExecType == ASSUME TypeInv, NEW c \in Conns, Exec(c) PROVE TypeInv'
<1> USE DEF Working
<1>0. DmTypeOK /\ WellFormed(req[c]) BY DEF TypeInv, TypeOK, Pending
<1>1. CASE ExecAttach(c)
  <2> DEFINE q == [req[c] EXCEPT !.ok = TRUE, !.sid = nextSessionId]
  <2>1. req[c].dev \in Devices /\ req[c].op = "attach" /\ req[c] \in Request
    BY <1>0, <1>1 DEF ExecAttach, WellFormed, DeviceOps, TypeInv, TypeOK
  <2>2. DmTypeOK' BY <1>0, <1>1, <2>1, AttachType DEF ExecAttach
  <2>3. nextSessionId \in SessionIds
    BY <1>0, <1>1, DmAssumption, SMT DEF ExecAttach, attach, Enter, DmTypeOK, SessionIds
  <2>4. q \in Request /\ q.op = "attach" /\ q.dev = req[c].dev /\ q.sid = nextSessionId
    BY <2>1, <2>3, GrantType
  <2>5. req' = [req EXCEPT ![c] = q] /\ pc' = [pc EXCEPT ![c] = "reply"]
    BY <1>1 DEF ExecAttach, Goto, TypeInv, TypeOK
  <2>6. req' \in [Conns -> Request] /\ pc' \in [Conns -> PCs] /\ Pending'
    <3> HIDE DEF q
    <3>1. WellFormed(q) /\ KindAt("reply", q.op) /\ "reply" \in PCs
      BY <2>1, <2>3, <2>4 DEF WellFormed, KindAt, SessionOps, PCs
    <3> QED BY <2>4, <2>5, <3>1, StepOfOne
  <2>7. ConnTypeOK' BY <1>1, <2>6 DEF ExecAttach, ConnTypeOK, TypeInv, TypeOK
  <2> QED BY <2>2, <2>6, <2>7, TypeParts DEF TypeInv, TypeOK, ConnTypeOK
<1>2. ASSUME DmTypeOK', NEW ok \in BOOLEAN, Done(c, ok), req[c].op = "attach" => ~ok
      PROVE  TypeInv'
  <2>1. ConnTypeOK' /\ Pending' BY <1>2, DoneType
  <2> QED BY <1>2, <2>1 DEF TypeInv, TypeOK, ConnTypeOK
<1>3. CASE ExecDetach(c)
  <2>1. req[c].dev \in Devices /\ req[c].sid \in SessionIds
    BY <1>0, <1>3 DEF ExecDetach, WellFormed, SessionOps
  <2> QED BY <1>0, <1>2, <1>3, <2>1, DetachType DEF ExecDetach
<1>4. CASE ExecClaim(c) \/ ExecRelease(c) \/ ExecSetConfiguration(c)
  <2>1. req[c].dev \in Devices
    BY <1>0, <1>4 DEF ExecClaim, ExecRelease, ExecSetConfiguration, WellFormed, SessionOps
  <2>2. DmTypeOK'
    BY <1>0, <1>4, <2>1, ClaimType, ReleaseType, SetConfigurationType
    DEF ExecClaim, ExecRelease, ExecSetConfiguration
  <2> QED BY <1>2, <1>4, <2>2 DEF ExecClaim, ExecRelease, ExecSetConfiguration
<1>5. CASE ExecBridge(c) \/ ExecFails(c)
  <2>1. DmTypeOK'
    BY <1>0, <1>5 DEF ExecBridge, ExecFails, DmTypeOK, BusTypeOK, busVars, dmVars
  <2> QED BY <1>2, <1>5, <2>1 DEF ExecBridge, ExecFails
<1>6. CASE BeginTransfer(c)
  <2> DEFINE q == [req[c] EXCEPT !.handle = attachments[req[c].dev].handle]
  <2>1. req[c].dev \in Devices /\ req[c].op = "transfer" /\ req[c] \in Request
    BY <1>0, <1>6 DEF BeginTransfer, WellFormed, SessionOps, TypeInv, TypeOK
  <2>2. attachments[req[c].dev].handle \in Nat
    BY <1>0, <2>1 DEF DmTypeOK, Attachment
  <2>3. q \in Request /\ q.op = "transfer" /\ q.dev = req[c].dev /\ q.sid = req[c].sid
    BY <2>1, <2>2 DEF Request
  <2>4. req' = [req EXCEPT ![c] = q] /\ pc' = [pc EXCEPT ![c] = "transfer"]
    BY <1>6 DEF BeginTransfer, Goto, TypeInv, TypeOK
  <2>5. req' \in [Conns -> Request] /\ pc' \in [Conns -> PCs] /\ Pending'
    <3> HIDE DEF q
    <3>1. WellFormed(q) /\ KindAt("transfer", q.op) /\ "transfer" \in PCs
      BY <1>0, <2>1, <2>3 DEF WellFormed, KindAt, SessionOps, PCs
    <3> QED BY <2>3, <2>4, <3>1, StepOfOne
  <2>6. DmTypeOK'
    BY <1>0, <1>6 DEF BeginTransfer, DmTypeOK, BusTypeOK, busVars, dmVars
  <2> QED BY <1>6, <2>5, <2>6 DEF BeginTransfer, TypeInv, TypeOK
<1> QED BY <1>1, <1>3, <1>4, <1>5, <1>6 DEF Exec

LEMMA ServerType ==
  ASSUME TypeInv, NEW c \in Conns,
         FinishTransfer(c) \/ Replies(c) \/ Leave(c) \/ cleanup(c)
  PROVE  TypeInv'
<1> USE DEF PCs
<1>0. DmTypeOK BY DEF TypeInv, TypeOK
<1>1. UNCHANGED <<busVars, dmVars>> => DmTypeOK'
  BY <1>0 DEF DmTypeOK, BusTypeOK, busVars, dmVars
<1>2. CASE FinishTransfer(c)
  <2>1. PICK ok \in BOOLEAN : Done(c, ok) BY <1>2 DEF FinishTransfer
  <2>2. req[c].op = "transfer" BY <1>2 DEF FinishTransfer, TypeInv, Pending, KindAt
  <2>3. ConnTypeOK' /\ Pending' BY <2>1, <2>2, DoneType
  <2> QED BY <1>1, <1>2, <2>3 DEF FinishTransfer, TypeInv, TypeOK, ConnTypeOK
<1>3. CASE Respond(c) \/ SendFails(c) \/ HandOff(c)
  <2>1. req' \in [Conns -> Request] /\ pc' \in [Conns -> PCs] /\ Pending'
    BY <1>3, ToNoReqType DEF Respond, SendFails, HandOff
  <2>2. sessions' \in [Conns -> [SessionIds -> Devices \cup {NoDevice}]]
    BY <1>3, SessionsAfterType, NoSessionsType
    DEF Respond, SendFails, HandOff, TypeInv, TypeOK
  <2>3. up' \in [Conns -> BOOLEAN]
    BY <1>3 DEF Respond, SendFails, HandOff, TypeInv, TypeOK
  <2> QED BY <1>1, <1>3, <2>1, <2>2, <2>3
          DEF Respond, SendFails, HandOff, TypeInv, TypeOK
<1>4. CASE Leave(c)
  <2>1. req' \in [Conns -> Request] /\ pc' \in [Conns -> PCs] /\ Pending'
    BY <1>4, SameReqType DEF Leave
  <2> QED BY <1>1, <1>4, <2>1 DEF Leave, TypeInv, TypeOK
<1>5. CASE cleanup(c)
  <2> DEFINE held == {s \in SessionIds : Owns(c, s)}
  <2>1. DmTypeOK'
    <3>1. CASE held = {} BY <1>1, <1>5, <3>1 DEF cleanup
    <3>2. CASE held # {}
      <4>1. detach_all_for_sessions(held) BY <1>5, <3>2 DEF cleanup
      <4> QED BY <1>0, <4>1, DetachAllType
    <3> QED BY <3>1, <3>2
  <2>2. req' \in [Conns -> Request] /\ pc' \in [Conns -> PCs] /\ Pending'
    BY <1>5, SameReqType DEF cleanup
  <2> QED BY <1>5, <2>1, <2>2, NoSessionsType DEF cleanup, TypeInv, TypeOK
<1> QED BY <1>2, <1>3, <1>4, <1>5 DEF Replies

LEMMA ClientType == ASSUME TypeInv, NEW c \in Conns, Client(c) PROVE TypeInv'
<1> USE DEF PCs
<1>1. Client(c) => UNCHANGED <<busVars, dmVars>>
  BY DEF Client, Accept, Disconnect, AnswerOther, BridgeEnds, handle_hello,
         ReceiveDevice, ReceiveSession, Start
<1>2. DmTypeOK'
  BY <1>1 DEF TypeInv, TypeOK, DmTypeOK, BusTypeOK, busVars, dmVars
<1>3. CASE Accept(c)
  <2>1. req' \in [Conns -> Request] /\ pc' \in [Conns -> PCs] /\ Pending'
    BY <1>3, ToNoReqType DEF Accept
  <2> QED BY <1>2, <1>3, <2>1, NoSessionsType DEF Accept, TypeInv, TypeOK
<1>4. CASE Disconnect(c)
  <2>1. Pending' BY <1>4, SamePending DEF Disconnect, TypeInv
  <2> QED BY <1>2, <1>4, <2>1 DEF Disconnect, TypeInv, TypeOK
<1>5. CASE BridgeEnds(c)
  <2>1. req' \in [Conns -> Request] /\ pc' \in [Conns -> PCs] /\ Pending'
    BY <1>5, SameReqType DEF BridgeEnds
  <2> QED BY <1>2, <1>5, <2>1 DEF BridgeEnds, TypeInv, TypeOK
<1>6. ASSUME NEW q \in Request, q.op \in {"hello", "other"}, Goto(c, "reply"),
             req' = [req EXCEPT ![c] = q]
      PROVE  req' \in [Conns -> Request] /\ pc' \in [Conns -> PCs] /\ Pending'
  <2>1. WellFormed(q) /\ KindAt("reply", q.op)
    BY <1>6 DEF WellFormed, KindAt, DeviceOps, SessionOps
  <2> QED BY <1>6, <2>1, StepOfOne DEF Goto
<1>7. CASE AnswerOther(c)
  <2> DEFINE q == [NoReq EXCEPT !.op = "other"]
  <2>1. q \in Request /\ q.op = "other" BY NoReqType DEF Request, Ops
  <2>2. req' \in [Conns -> Request] /\ pc' \in [Conns -> PCs] /\ Pending'
    BY <1>6, <1>7, <2>1 DEF AnswerOther
  <2> QED BY <1>2, <1>7, <2>2 DEF AnswerOther, TypeInv, TypeOK
<1>8. ASSUME NEW proven \in BOOLEAN, handle_hello(c, proven) PROVE TypeInv'
  <2> DEFINE q == [NoReq EXCEPT !.op = "hello", !.ok = proven]
  <2>1. q \in Request /\ q.op = "hello" BY NoReqType DEF Request, Ops
  <2>2. req' \in [Conns -> Request] /\ pc' \in [Conns -> PCs] /\ Pending'
    BY <1>6, <1>8, <2>1 DEF handle_hello
  <2>3. authenticated' \in [Conns -> BOOLEAN]
    BY <1>8 DEF handle_hello, TypeInv, TypeOK
  <2> QED BY <1>2, <1>8, <2>2, <2>3 DEF handle_hello, TypeInv, TypeOK
<1>9. ASSUME NEW op \in ClientOps, NEW d \in Devices,
             \/ ReceiveDevice(c, op, d)
             \/ \E s \in SessionIds : ReceiveSession(c, op, d, s)
      PROVE  TypeInv'
  <2>1. PICK s \in 0 .. MaxSessions :
           /\ Start(c, op, d, s)
           /\ op \in DeviceOps \cup SessionOps
           /\ op \in SessionOps => s \in SessionIds
    <3>1. CASE ReceiveDevice(c, op, d)
      <4>1. op \in DeviceOps \ SessionOps
        BY <3>1 DEF ReceiveDevice, DeviceOps, SessionOps
      <4> QED BY <3>1, <4>1, DmAssumption, SMT DEF ReceiveDevice
    <3>2. ASSUME NEW s \in SessionIds, ReceiveSession(c, op, d, s)
          PROVE  s \in 0 .. MaxSessions /\ Start(c, op, d, s) /\ op \in SessionOps
      BY <3>2, DmAssumption, SMT DEF ReceiveSession, SessionIds
    <3> QED BY <1>9, <3>1, <3>2
  <2>2. ConnTypeOK' /\ Pending' BY <2>1, StartType
  <2> QED BY <1>2, <2>2 DEF TypeInv, TypeOK, ConnTypeOK
<1> QED BY <1>3, <1>4, <1>5, <1>7, <1>8, <1>9 DEF Client

LEMMA ServerRestartType == TypeInv /\ ServerRestart => TypeInv'
<1> SUFFICES ASSUME TypeInv, ServerRestart PROVE TypeInv'
  OBVIOUS
<1>1. DmTypeOK' BY RestartType DEF ServerRestart, TypeInv, TypeOK
<1>2. ConnTypeOK'
  BY NoReqType, NoSessionsType DEF ServerRestart, ConnTypeOK, TypeInv, TypeOK, PCs
<1>3. \A c \in Conns : WellFormed(req'[c]) /\ KindAt(pc'[c], req'[c].op)
  BY NoReqType DEF ServerRestart, WellFormed, KindAt, DeviceOps, SessionOps
<1> QED BY <1>1, <1>2, <1>3, Zenon
        DEF TypeInv, TypeOK, ConnTypeOK, Pending, WellFormed, KindAt

LEMMA InitType == Init => TypeInv
<1> SUFFICES ASSUME Init PROVE TypeInv
  OBVIOUS
<1>1. DmTypeOK BY DmInitType DEF Init
<1>2. ConnTypeOK
  BY NoReqType, NoSessionsType DEF Init, ConnTypeOK, PCs
<1>3. Pending
  BY NoReqType DEF Init, Pending, WellFormed, KindAt, DeviceOps, SessionOps
<1> QED BY <1>1, <1>2, <1>3 DEF TypeInv, TypeOK, ConnTypeOK

LEMMA StepType == TypeInv /\ [Next]_vars => TypeInv'
<1> SUFFICES ASSUME TypeInv, [Next]_vars PROVE TypeInv'
  OBVIOUS
<1>1. ASSUME NEW c \in Conns, Client(c) \/ Server(c) PROVE TypeInv'
  BY <1>1, ClientType, ExecType, ServerType DEF Server
<1>2. CASE BusNext /\ UNCHANGED <<dmVars, connVars>>
  <2>1. DmTypeOK' BY <1>2, BusStepType DEF TypeInv, TypeOK
  <2>2. Pending' BY <1>2, SamePending DEF connVars, TypeInv
  <2> QED BY <1>2, <2>1, <2>2 DEF connVars, TypeInv, TypeOK
<1>3. CASE ServerRestart BY <1>3, ServerRestartType
<1>4. CASE UNCHANGED vars
  <2>1. Pending' BY <1>4, SamePending DEF vars, connVars, TypeInv
  <2> QED BY <1>4, <2>1 DEF vars, connVars, busVars, dmVars, TypeInv, TypeOK,
                            DmTypeOK, BusTypeOK
<1> QED BY <1>1, <1>2, <1>3, <1>4 DEF Next

\* Whatever the clients send, a task's private map and its request in progress
\* stay well typed; with Pending, every handler that runs does so on a device
\* of the bus and, if it needs one, a session id that was handed out.
THEOREM TypeCorrect == Spec => []TypeOK
<1>1. Spec => []TypeInv BY InitType, StepType, PTL DEF Spec
<1>2. TypeInv => TypeOK BY DEF TypeInv
<1> QED BY <1>1, <1>2, PTL

(***************************************************************************)
(* Sessions: whose they are, for all clients.                              *)
(***************************************************************************)
\* A session that a connection has was handed out.
Issued == \A c \in Conns, s \in SessionIds : Holds(c, s) => s < nextSessionId

\* A task writes its own entries only.
LEMMA OthersSame ==
  ASSUME TypeInv, NEW c \in Conns, Client(c) \/ Server(c), NEW b \in Conns \ {c}
  PROVE  /\ pc'[b] = pc[b] /\ req'[b] = req[b]
         /\ sessions'[b] = sessions[b] /\ authenticated'[b] = authenticated[b]
<1> USE DEF TypeInv, TypeOK, Goto, Done
<1>1. CASE Client(c)
  BY <1>1 DEF Client, Accept, Disconnect, AnswerOther, BridgeEnds, handle_hello,
              ReceiveDevice, ReceiveSession, Start
<1>2. CASE Exec(c)
  BY <1>2 DEF Exec, ExecAttach, ExecDetach, ExecClaim, ExecRelease,
              ExecSetConfiguration, ExecBridge, BeginTransfer, ExecFails
<1>3. CASE FinishTransfer(c) \/ Replies(c) \/ Leave(c) \/ cleanup(c)
  BY <1>3 DEF FinishTransfer, Replies, Respond, SendFails, HandOff, Leave, cleanup
<1> QED BY <1>1, <1>2, <1>3 DEF Server

LEMMA DoneFacts ==
  ASSUME TypeInv, NEW c \in Conns, NEW ok \in BOOLEAN, Done(c, ok)
  PROVE  /\ pc'[c] = "reply" /\ sessions'[c] = sessions[c]
         /\ req'[c].op = req[c].op /\ req'[c].dev = req[c].dev
         /\ req'[c].sid = req[c].sid /\ (req'[c].ok <=> ok)
<1>1. req[c] \in Request BY DEF TypeInv, TypeOK
<1>2. req'[c] = [req[c] EXCEPT !.ok = ok] /\ pc'[c] = "reply" /\ sessions' = sessions
  BY DEF Done, Goto, TypeInv, TypeOK
<1> QED BY <1>1, <1>2, OutcomeType

\* A task comes to a session only by an attach.
LEMMA OwnHolds ==
  ASSUME TypeInv, NEW c \in Conns, Client(c) \/ Server(c),
         NEW s \in SessionIds, Holds(c, s)'
  PROVE  Holds(c, s) \/ (ExecAttach(c) /\ s = nextSessionId)
<1> USE DEF TypeInv, TypeOK, Goto, Done, Holds, Owns
<1>1. CASE Accept(c) \/ Disconnect(c) \/ BridgeEnds(c) \/ Leave(c)
  BY <1>1 DEF Accept, Disconnect, BridgeEnds, Leave, NoSessions, NoReq
<1>2. CASE AnswerOther(c)
  BY <1>2 DEF AnswerOther, NoReq
<1>10. ASSUME NEW proven \in BOOLEAN, handle_hello(c, proven) PROVE Holds(c, s)
  BY <1>10 DEF handle_hello, NoReq
<1>3. ASSUME NEW op \in ClientOps, NEW d \in Devices, NEW t, Start(c, op, d, t)
      PROVE  Holds(c, s)
  BY <1>3 DEF Start
<1>4. CASE ExecAttach(c)
  BY <1>4 DEF ExecAttach
<1>5. ASSUME NEW ok \in BOOLEAN, Done(c, ok), req[c].op = "attach" => ~ok
      PROVE  Holds(c, s)
  BY <1>5, DoneFacts
<1>6. CASE ExecDetach(c) \/ ExecClaim(c) \/ ExecRelease(c) \/ ExecSetConfiguration(c)
           \/ ExecBridge(c) \/ ExecFails(c) \/ FinishTransfer(c)
  <2>1. PICK ok \in BOOLEAN : Done(c, ok) /\ (req[c].op = "attach" => ~ok)
    BY <1>6 DEF ExecDetach, ExecClaim, ExecRelease, ExecSetConfiguration, ExecBridge,
                ExecFails, FinishTransfer, Working, Pending, KindAt
  <2> QED BY <1>5, <2>1
<1>7. CASE BeginTransfer(c)
  BY <1>7 DEF BeginTransfer
<1>8. CASE Respond(c) \/ SendFails(c)
  BY <1>8 DEF Respond, SendFails, SessionsAfter, NoReq
<1>9. CASE HandOff(c) \/ cleanup(c)
  BY <1>9 DEF HandOff, cleanup, NoSessions
<1> QED BY <1>1, <1>2, <1>3, <1>4, <1>5, <1>6, <1>7, <1>8, <1>9, <1>10
        DEF Client, Server, Exec, Replies, ReceiveDevice, ReceiveSession

LEMMA HoldsStep ==
  ASSUME TypeInv, [Next]_vars, NEW b \in Conns, NEW s \in SessionIds, Holds(b, s)'
  PROVE  Holds(b, s) \/ (ExecAttach(b) /\ s = nextSessionId)
<1>1. ASSUME NEW c \in Conns, Client(c) \/ Server(c)
      PROVE  Holds(b, s) \/ (ExecAttach(b) /\ s = nextSessionId)
  <2>1. CASE b = c BY <1>1, <2>1, OwnHolds
  <2>2. CASE b # c
    BY <1>1, <2>2, OthersSame DEF Holds, Owns
  <2> QED BY <2>1, <2>2
<1>2. CASE (BusNext /\ UNCHANGED <<dmVars, connVars>>) \/ UNCHANGED vars
  BY <1>2 DEF Holds, Owns, connVars, vars
<1>3. CASE ServerRestart
  BY <1>3 DEF ServerRestart, Holds, Owns, NoSessions
<1> QED BY <1>1, <1>2, <1>3 DEF Next

\* The counter of sessions only grows, until the server is restarted.
LEMMA NextIdStep ==
  ASSUME TypeInv, [Next]_vars
  PROVE  \/ nextSessionId' = nextSessionId
         \/ \E c \in Conns : ExecAttach(c) /\ nextSessionId' = nextSessionId + 1
         \/ ServerRestart
<1>1. ASSUME NEW c \in Conns, Client(c) \/ Server(c)
      PROVE  \/ nextSessionId' = nextSessionId
             \/ ExecAttach(c) /\ nextSessionId' = nextSessionId + 1
  <2>1. CASE Client(c)
    BY <2>1 DEF Client, Accept, Disconnect, AnswerOther, BridgeEnds, handle_hello,
                ReceiveDevice, ReceiveSession, Start, dmVars
  <2>2. CASE Exec(c)
    BY <2>2 DEF Exec, ExecAttach, attach, ExecDetach, detach, ExecClaim, claim_interface,
                ExecRelease, release_interface, ExecSetConfiguration, set_configuration,
                ExecBridge, BeginTransfer, ExecFails, dmVars
  <2>3. CASE FinishTransfer(c) \/ Replies(c) \/ Leave(c) \/ cleanup(c)
    BY <2>3 DEF FinishTransfer, Replies, Respond, SendFails, HandOff, Leave, cleanup,
                detach_all_for_sessions, dmVars
  <2> QED BY <1>1, <2>1, <2>2, <2>3 DEF Server
<1>2. CASE (BusNext /\ UNCHANGED <<dmVars, connVars>>) \/ UNCHANGED vars
  BY <1>2 DEF vars, dmVars
<1> QED BY <1>1, <1>2 DEF Next

SessInv == TypeInv /\ Issued /\ SessionsDisjoint

LEMMA SessStep == SessInv /\ [Next]_vars => SessInv'
<1> SUFFICES ASSUME SessInv, [Next]_vars PROVE SessInv'
  OBVIOUS
<1>0. TypeInv /\ nextSessionId \in Nat
  BY DmAssumption, SMT DEF SessInv, TypeInv, TypeOK, DmTypeOK
<1>1. TypeInv' BY <1>0, StepType
<1>2. ASSUME NEW b \in Conns, NEW s \in SessionIds, Holds(b, s)'
      PROVE  (s < nextSessionId)'
  <2>1. CASE Holds(b, s)
    <3>1. s < nextSessionId BY <2>1 DEF SessInv, Issued
    <3>2. ~ServerRestart BY <1>2 DEF ServerRestart, Holds, Owns, NoSessions
    <3> QED BY <1>0, <3>1, <3>2, NextIdStep, SMT DEF SessionIds
  <2>2. CASE ExecAttach(b) /\ s = nextSessionId
    BY <1>0, <2>2, SMT DEF ExecAttach, attach
  <2> QED BY <1>0, <1>2, <2>1, <2>2, HoldsStep
<1>3. ASSUME NEW b \in Conns, NEW c \in Conns, NEW s \in SessionIds,
             Holds(b, s)', Holds(c, s)'
      PROVE  b = c
  <2>1. /\ Holds(b, s) \/ (ExecAttach(b) /\ s = nextSessionId)
        /\ Holds(c, s) \/ (ExecAttach(c) /\ s = nextSessionId)
    BY <1>0, <1>3, HoldsStep
  <2>2. CASE Holds(b, s) /\ Holds(c, s)
    BY <2>2 DEF SessInv, SessionsDisjoint
  <2>3. CASE (Holds(b, s) \/ Holds(c, s)) /\ s = nextSessionId
    <3>1. s < nextSessionId BY <2>3 DEF SessInv, Issued
    <3> QED BY <1>0, <2>3, <3>1, SMT
  <2>4. CASE ExecAttach(b) /\ ExecAttach(c)
    BY <1>0, <2>4 DEF ExecAttach, Working, Goto, TypeInv, TypeOK
  <2> QED BY <2>1, <2>2, <2>3, <2>4
<1>4. Issued' BY <1>2, Zenon DEF Issued
<1>5. SessionsDisjoint' BY <1>3, Zenon DEF SessionsDisjoint
<1> QED BY <1>1, <1>4, <1>5 DEF SessInv

LEMMA SessInit == Init => SessInv
<1> SUFFICES ASSUME Init PROVE SessInv
  OBVIOUS
<1>1. ASSUME NEW c \in Conns, NEW s \in SessionIds PROVE ~Holds(c, s)
  BY DEF Init, Holds, Owns, NoSessions
<1> QED BY <1>1, InitType DEF SessInv, Issued, SessionsDisjoint

LEMMA SessInvariant == Spec => []SessInv
  BY SessInit, SessStep, PTL DEF Spec

\* However attaches, detaches, cleanups and restarts interleave, and whatever
\* devices clients name with their sessions, no session belongs to two tasks,
\* nor is one handed out while another task is still to enter it in its map.
THEOREM SessionsDisjointCorrect == Spec => []SessionsDisjoint
<1>1. SessInv => SessionsDisjoint BY DEF SessInv
<1> QED BY <1>1, SessInvariant, PTL

\* A task that is at work, or has a session, was admitted.
AuthInv == \A c \in Conns :
             (pc[c] = "work" \/ \E s \in SessionIds : Holds(c, s)) => Admitted(c)

\* Only Accept and a restart take an admission back, or leave it as it was.
LEMMA AdmissionStep ==
  ASSUME TypeInv, [Next]_vars, NEW b \in Conns, Admitted(b)
  PROVE  Admitted(b)' \/ Accept(b)
<1>1. ASSUME NEW c \in Conns, Client(c) \/ Server(c), b # c PROVE Admitted(b)'
  BY <1>1, OthersSame DEF Admitted
<1>2. CASE Client(b)
  BY <1>2 DEF Client, Disconnect, AnswerOther, BridgeEnds, handle_hello,
              ReceiveDevice, ReceiveSession, Start, Admitted, TypeInv, TypeOK
<1>3. CASE Exec(b)
  BY <1>3 DEF Exec, ExecAttach, ExecDetach, ExecClaim, ExecRelease, ExecSetConfiguration,
              ExecBridge, BeginTransfer, ExecFails, Done, Admitted
<1>4. CASE FinishTransfer(b) \/ Replies(b) \/ Leave(b) \/ cleanup(b)
  BY <1>4 DEF FinishTransfer, Done, Replies, Respond, SendFails, HandOff, Leave,
              cleanup, Admitted
<1>5. CASE (BusNext /\ UNCHANGED <<dmVars, connVars>>) \/ ServerRestart \/ UNCHANGED vars
  BY <1>5 DEF ServerRestart, Admitted, connVars, vars
<1> QED BY <1>1, <1>2, <1>3, <1>4, <1>5 DEF Next, Server

\* A task comes to work by a Start, and only an admitted one does.
LEMMA WorkStep ==
  ASSUME TypeInv, [Next]_vars, NEW b \in Conns, pc'[b] = "work"
  PROVE  pc[b] = "work" \/ Admitted(b)
<1> USE DEF TypeInv, TypeOK, Goto
<1>1. ASSUME NEW c \in Conns, Client(c) \/ Server(c), b # c PROVE pc[b] = "work"
  BY <1>1, OthersSame
<1>2. CASE Client(b)
  BY <1>2 DEF Client, Accept, Disconnect, AnswerOther, BridgeEnds, handle_hello,
              ReceiveDevice, ReceiveSession, Start
<1>3. CASE Exec(b)
  BY <1>3 DEF Exec, ExecAttach, ExecDetach, ExecClaim, ExecRelease, ExecSetConfiguration,
              ExecBridge, BeginTransfer, ExecFails, Done
<1>4. CASE FinishTransfer(b) \/ Replies(b) \/ Leave(b) \/ cleanup(b)
  BY <1>4 DEF FinishTransfer, Done, Replies, Respond, SendFails, HandOff, Leave, cleanup
<1>5. CASE (BusNext /\ UNCHANGED <<dmVars, connVars>>) \/ ServerRestart \/ UNCHANGED vars
  BY <1>5 DEF ServerRestart, connVars, vars
<1> QED BY <1>1, <1>2, <1>3, <1>4, <1>5 DEF Next, Server

LEMMA AuthStep == SessInv /\ AuthInv /\ [Next]_vars => AuthInv'
<1> SUFFICES ASSUME SessInv, AuthInv, [Next]_vars,
                    NEW b \in Conns, (pc[b] = "work" \/ \E s \in SessionIds : Holds(b, s))'
             PROVE  Admitted(b)'
  BY Zenon DEF AuthInv
<1>0. TypeInv BY DEF SessInv
<1>1. Admitted(b)
  <2>1. ASSUME NEW s \in SessionIds, Holds(b, s)' PROVE Admitted(b)
    BY <1>0, <2>1, HoldsStep DEF AuthInv, ExecAttach, Working
  <2>2. CASE pc'[b] = "work" BY <1>0, <2>2, WorkStep DEF AuthInv
  <2> QED BY <2>1, <2>2
<1>2. ~Accept(b)
  BY <1>0 DEF Accept, Goto, Holds, Owns, NoSessions, TypeInv, TypeOK
<1> QED BY <1>0, <1>1, <1>2, AdmissionStep

\* With a key configured, no connection ever comes to a session, or stays at
\* one, without a Hello whose proof verified.
THEOREM SessionsAuthenticatedCorrect == Spec => []SessionsAuthenticated
<1>1. Init => AuthInv
  BY DEF Init, AuthInv, Holds, Owns, NoSessions
<1>2. Spec => []AuthInv BY <1>1, SessInvariant, AuthStep, PTL DEF Spec
<1>3. AuthInv => SessionsAuthenticated BY DEF AuthInv, SessionsAuthenticated
<1> QED BY <1>2, <1>3, PTL

(***************************************************************************)
(* Exclusive use, for clients that name a session's own device.  Without   *)
(* that the property is false: Connection's run v_mismatch.                *)
(***************************************************************************)
\* The task's map as the reply that is under way will leave it.
Settled(c) == IF pc[c] = "reply" THEN SessionsAfter(c) ELSE sessions[c]

\* The table of sessions names attachments, each by the session it was opened
\* under.
Backed == \A s \in SessionIds :
            sessionToDevice[s] # NoDevice => attachments[sessionToDevice[s]].handle = s

\* A task's settled map is part of the table.
Agree == \A c \in Conns, s \in SessionIds :
            Settled(c)[s] # NoDevice => sessionToDevice[s] = Settled(c)[s]

\* The request under way names, with its session, the session's own device.
Named == \A c \in Conns :
            pc[c] \in {"work", "transfer"} /\ req[c].op \in SessionOps
               => sessions[c][req[c].sid] = req[c].dev

\* A transfer runs on the handle of its session's attachment.
Current == \A c \in Conns : pc[c] = "transfer" => req[c].handle = req[c].sid

\* Backed through the DeviceManager's methods: an attach enters both tables
\* with one id, and what a detach takes out is one entry of each.
LEMMA BackedAttach ==
  ASSUME DmTypeOK, Backed, NEW d \in Devices, attach(d) PROVE Backed'
<1>1. nextSessionId \in SessionIds /\ 0 \notin SessionIds
  BY DmAssumption, SMT DEF attach, Enter, DmTypeOK, SessionIds
<1>2. /\ sessionToDevice' = [sessionToDevice EXCEPT ![nextSessionId] = d]
      /\ attachments'[d].handle = nextSessionId
      /\ \A e \in Devices \ {d} : attachments'[e] = attachments[e]
  BY DEF attach, Enter, DmTypeOK
<1>3. ASSUME NEW s \in SessionIds, sessionToDevice'[s] # NoDevice
      PROVE  attachments'[sessionToDevice'[s]].handle = s
  <2>1. CASE s = nextSessionId BY <1>1, <1>2, <2>1 DEF DmTypeOK
  <2>2. CASE s # nextSessionId
    <3>1. sessionToDevice'[s] = sessionToDevice[s] /\ sessionToDevice[s] \in Devices
      BY <1>2, <1>3, <2>2 DEF DmTypeOK
    <3>2. attachments[sessionToDevice[s]].handle = s BY <1>3, <3>1 DEF Backed
    <3>3. attachments[d].handle = 0 BY DEF attach, Attached
    <3> QED BY <1>1, <1>2, <3>1, <3>2, <3>3
  <2> QED BY <2>1, <2>2
<1> QED BY <1>3, Zenon DEF Backed

LEMMA BackedDetach ==
  ASSUME DmTypeOK, Backed, NEW d \in Devices, NEW s \in SessionIds,
         sessionToDevice[s] = d, detach(d, s)
  PROVE  Backed'
<1>1. /\ sessionToDevice' = [sessionToDevice EXCEPT ![s] = NoDevice]
      /\ \A e \in Devices \ {d} : attachments'[e] = attachments[e]
  BY DEF detach, TearDown
<1>2. attachments[d].handle = s BY DmAssumption DEF Backed
<1>3. ASSUME NEW t \in SessionIds, sessionToDevice'[t] # NoDevice
      PROVE  attachments'[sessionToDevice'[t]].handle = t
  <2>1. t # s /\ sessionToDevice'[t] = sessionToDevice[t] /\ sessionToDevice[t] \in Devices
    BY <1>1, <1>3 DEF DmTypeOK
  <2>2. attachments[sessionToDevice[t]].handle = t BY <1>3, <2>1 DEF Backed
  <2> QED BY <1>1, <1>2, <2>1, <2>2
<1> QED BY <1>3, Zenon DEF Backed

LEMMA BackedDetachAll ==
  ASSUME DmTypeOK, Backed, NEW S \in SUBSET SessionIds, detach_all_for_sessions(S)
  PROVE  /\ Backed'
         /\ \A s \in SessionIds \ S : sessionToDevice'[s] = sessionToDevice[s]
<1> DEFINE targets == {d \in Devices : Attached(d) /\ \E s \in S : sessionToDevice[s] = d}
<1>1. PICK first \in [targets -> S] :
        /\ \A d \in targets : sessionToDevice[first[d]] = d
        /\ TearDown(targets)
        /\ sessionToDevice' = [s \in SessionIds |->
              IF \E d \in targets : first[d] = s THEN NoDevice ELSE sessionToDevice[s]]
  BY DEF detach_all_for_sessions
<1>2. \A d \in targets : attachments[d].handle = first[d]
  BY <1>1, DmAssumption DEF Backed
<1>3. ASSUME NEW t \in SessionIds, sessionToDevice'[t] # NoDevice
      PROVE  attachments'[sessionToDevice'[t]].handle = t
  <2>1. /\ sessionToDevice'[t] = sessionToDevice[t] /\ sessionToDevice[t] \in Devices
        /\ \A d \in targets : first[d] # t
    BY <1>1, <1>3 DEF DmTypeOK
  <2>2. attachments[sessionToDevice[t]].handle = t BY <1>3, <2>1 DEF Backed
  <2>3. sessionToDevice[t] \notin targets BY <1>2, <2>1, <2>2
  <2>4. attachments'[sessionToDevice[t]] = attachments[sessionToDevice[t]]
    BY <1>1, <2>1, <2>3 DEF TearDown
  <2> QED BY <2>1, <2>2, <2>4
<1>4. \A s \in SessionIds \ S : sessionToDevice'[s] = sessionToDevice[s]
  BY <1>1
<1>5. Backed' BY <1>3, Zenon DEF Backed
<1> QED BY <1>4, <1>5

\* Claims, releases and configurations leave ids and sessions alone.
LEMMA BackedSame ==
  ASSUME DmTypeOK, Backed, UNCHANGED sessionToDevice,
         \A d \in Devices : attachments'[d].handle = attachments[d].handle
  PROVE  Backed'
<1>1. ASSUME NEW s \in SessionIds, sessionToDevice'[s] # NoDevice
      PROVE  attachments'[sessionToDevice'[s]].handle = s
  BY <1>1 DEF Backed, DmTypeOK
<1> QED BY <1>1, Zenon DEF Backed

\* What is settled is held.
LEMMA SettledHolds ==
  ASSUME TypeInv, NEW c \in Conns, NEW s \in SessionIds, Settled(c)[s] # NoDevice
  PROVE  Holds(c, s)
BY DEF Settled, SessionsAfter, Holds, Owns, TypeInv, TypeOK

LEMMA SettledSame ==
  ASSUME NEW c \in Conns, pc'[c] = pc[c], req'[c] = req[c], sessions'[c] = sessions[c]
  PROVE  Settled(c)' = Settled(c)
BY DEF Settled, SessionsAfter

LEMMA SettledDone ==
  ASSUME TypeInv, NEW c \in Conns, NEW ok \in BOOLEAN, Done(c, ok),
         pc[c] # "reply", req[c].op = "attach" => ~ok, NEW s \in SessionIds
  PROVE  /\ Settled(c)'[s] \in {Settled(c)[s], NoDevice}
         /\ req[c].op = "detach" /\ s = req[c].sid => Settled(c)'[s] = NoDevice
<1>1. /\ pc'[c] = "reply" /\ sessions'[c] = sessions[c]
      /\ req'[c].op = req[c].op /\ req'[c].sid = req[c].sid
      /\ req[c].op = "attach" => ~req'[c].ok
  BY DoneFacts
<1>2. sessions[c] \in [SessionIds -> Devices \cup {NoDevice}]
  BY DEF TypeInv, TypeOK
<1>3. Settled(c)' = IF req[c].op = "detach"
                    THEN [sessions[c] EXCEPT ![req[c].sid] = NoDevice] ELSE sessions[c]
  BY <1>1 DEF Settled, SessionsAfter
<1> QED BY <1>2, <1>3 DEF Settled

\* Only an attach adds to what is settled.
LEMMA SettledStep ==
  ASSUME TypeInv, NEW c \in Conns, Client(c) \/ Server(c), ~ExecAttach(c),
         NEW s \in SessionIds
  PROVE  Settled(c)'[s] \in {Settled(c)[s], NoDevice}
<1> USE DEF TypeInv, TypeOK, Goto
<1>1. CASE Accept(c) \/ HandOff(c) \/ cleanup(c)
  BY <1>1 DEF Accept, HandOff, cleanup, Settled, NoSessions
<1>2. CASE Disconnect(c)
  BY <1>2, SettledSame DEF Disconnect
<1>3. CASE BridgeEnds(c) \/ Leave(c)
  BY <1>3 DEF BridgeEnds, Leave, Settled
<1>4. CASE AnswerOther(c)
  BY <1>4 DEF AnswerOther, Hears, NoReq, Settled, SessionsAfter
<1>5. ASSUME NEW proven \in BOOLEAN, handle_hello(c, proven)
      PROVE  Settled(c)'[s] \in {Settled(c)[s], NoDevice}
  BY <1>5 DEF handle_hello, Hears, NoReq, Settled, SessionsAfter
<1>6. ASSUME NEW op \in ClientOps, NEW d \in Devices, NEW t, Start(c, op, d, t)
      PROVE  Settled(c)'[s] \in {Settled(c)[s], NoDevice}
  BY <1>6 DEF Start, Hears, Settled
<1>7. CASE ExecDetach(c) \/ ExecClaim(c) \/ ExecRelease(c) \/ ExecSetConfiguration(c)
           \/ ExecBridge(c) \/ ExecFails(c) \/ FinishTransfer(c)
  <2>1. PICK ok \in BOOLEAN :
          Done(c, ok) /\ (req[c].op = "attach" => ~ok) /\ pc[c] # "reply"
    BY <1>7 DEF ExecDetach, ExecClaim, ExecRelease, ExecSetConfiguration, ExecBridge,
                ExecFails, FinishTransfer, Working, Pending, KindAt
  <2> QED BY <2>1, SettledDone
<1>8. CASE BeginTransfer(c)
  BY <1>8 DEF BeginTransfer, Working, Settled
<1>9. CASE Respond(c) \/ SendFails(c)
  BY <1>9 DEF Respond, SendFails, Settled
<1> QED BY <1>1, <1>2, <1>3, <1>4, <1>5, <1>6, <1>7, <1>8, <1>9
        DEF Client, Server, Exec, Replies, ReceiveDevice, ReceiveSession

MatchInv == SessInv /\ Backed /\ Agree /\ Named /\ Current

\* What a step of a task does to the table of sessions: an attach adds its new
\* session, and an entry that goes belonged to the task itself.
LEMMA TableStep ==
  ASSUME MatchInv, NEW c \in Conns, Client(c) \/ Server(c)
  PROVE  /\ Backed'
         /\ \A s \in SessionIds :
              \/ sessionToDevice'[s] = sessionToDevice[s]
              \/ ExecAttach(c) /\ s = nextSessionId /\ sessionToDevice'[s] = req[c].dev
              \/ ExecDetach(c) /\ s = req[c].sid
              \/ cleanup(c) /\ Owns(c, s)
<1> USE DEF MatchInv, SessInv, TypeInv, TypeOK
<1>0. DmTypeOK /\ WellFormed(req[c]) BY DEF Pending
<1>1. UNCHANGED <<busVars, dmVars>> => Backed' /\ UNCHANGED sessionToDevice
  BY DEF Backed, dmVars
<1>2. CASE Client(c)
  BY <1>1, <1>2 DEF Client, Accept, Disconnect, AnswerOther, BridgeEnds, handle_hello,
                    ReceiveDevice, ReceiveSession, Start
<1>3. CASE ExecAttach(c)
  <2>1. req[c].dev \in Devices /\ attach(req[c].dev)
    BY <1>0, <1>3 DEF ExecAttach, Working, WellFormed, DeviceOps
  <2>2. sessionToDevice' = [sessionToDevice EXCEPT ![nextSessionId] = req[c].dev]
    BY <2>1 DEF attach, Enter
  <2> QED BY <1>0, <1>3, <2>1, <2>2, BackedAttach DEF DmTypeOK
<1>4. CASE ExecDetach(c)
  <2>1. req[c].dev \in Devices /\ req[c].sid \in SessionIds /\ detach(req[c].dev, req[c].sid)
    BY <1>0, <1>4 DEF ExecDetach, Working, WellFormed, SessionOps
  <2>2. Settled(c)[req[c].sid] = req[c].dev
    BY <1>4 DEF ExecDetach, Working, Named, Settled, SessionOps
  <2>3. sessionToDevice[req[c].sid] = req[c].dev
    BY <2>1, <2>2, DmAssumption DEF Agree
  <2> QED BY <1>0, <1>4, <2>1, <2>3, BackedDetach DEF detach, DmTypeOK
<1>5. CASE ExecClaim(c) \/ ExecRelease(c) \/ ExecSetConfiguration(c)
  <2>1. req[c].dev \in Devices
    BY <1>0, <1>5 DEF ExecClaim, ExecRelease, ExecSetConfiguration, Working,
                      WellFormed, SessionOps
  <2>2. /\ UNCHANGED sessionToDevice
        /\ \A d \in Devices : attachments'[d].handle = attachments[d].handle
    BY <1>0, <1>5, <2>1, ClaimSame
    DEF ExecClaim, ExecRelease, ExecSetConfiguration, set_configuration
  <2> QED BY <1>0, <2>2, BackedSame
<1>6. CASE ExecBridge(c) \/ BeginTransfer(c) \/ ExecFails(c) \/ FinishTransfer(c)
           \/ Replies(c) \/ Leave(c)
  BY <1>1, <1>6 DEF ExecBridge, BeginTransfer, ExecFails, FinishTransfer,
                    Replies, Respond, SendFails, HandOff, Leave
<1>7. CASE cleanup(c)
  <2> DEFINE held == {s \in SessionIds : Owns(c, s)}
  <2>1. CASE held = {} BY <1>1, <1>7, <2>1 DEF cleanup
  <2>2. CASE held # {}
    <3>1. detach_all_for_sessions(held) BY <1>7, <2>2 DEF cleanup
    <3> QED BY <1>0, <1>7, <3>1, BackedDetachAll
  <2> QED BY <2>1, <2>2
<1> QED BY <1>2, <1>3, <1>4, <1>5, <1>6, <1>7 DEF Server, Exec

\* A task that is at work or in a transfer keeps its map, its request's
\* arguments, and, in the transfer, its handle; it came to work by a request
\* that named a session of its map and that session's device.
LEMMA NamedStep ==
  ASSUME MatchInv, MatchedRequests, NEW c \in Conns, Client(c) \/ Server(c),
         pc'[c] \in {"work", "transfer"}
  PROVE  /\ req'[c].op \in SessionOps => sessions'[c][req'[c].sid] = req'[c].dev
         /\ pc'[c] = "transfer" => req'[c].handle = req'[c].sid
<1> USE DEF MatchInv, SessInv, TypeInv, TypeOK, Goto
<1>1. CASE Disconnect(c)
  BY <1>1 DEF Disconnect, Named, Current
<1>2. ASSUME NEW op \in ClientOps, NEW d \in Devices, NEW t \in 0 .. MaxSessions,
             Start(c, op, d, t), op \in SessionOps => sessions[c][t] = d
      PROVE  /\ req'[c].op \in SessionOps => sessions'[c][req'[c].sid] = req'[c].dev
             /\ pc'[c] # "transfer"
  <2>1. req'[c] = Asking(op, d, t) /\ pc'[c] = "work" /\ sessions' = sessions
    BY <1>2 DEF Start, Asking
  <2>2. op \in Ops BY ConnAssumption
  <2> QED BY <1>2, <2>1, <2>2, RequestType
<1>3. CASE \E op \in ClientOps, d \in Devices : ReceiveDevice(c, op, d)
  <2>1. PICK op \in ClientOps, d \in Devices : Start(c, op, d, 0) /\ op \notin SessionOps
    BY <1>3 DEF ReceiveDevice, SessionOps
  <2> QED BY <1>2, <2>1, DmAssumption, SMT
<1>4. CASE \E op \in ClientOps, d \in Devices, s \in SessionIds : ReceiveSession(c, op, d, s)
  <2>1. PICK op \in ClientOps, d \in Devices, s \in SessionIds :
          Start(c, op, d, s) /\ sessions[c][s] = d
    BY <1>4 DEF ReceiveSession
  <2>2. s \in 0 .. MaxSessions BY DmAssumption, SMT DEF SessionIds
  <2> QED BY <1>2, <2>1, <2>2
<1>5. CASE BeginTransfer(c)
  <2> DEFINE h == attachments[req[c].dev].handle
  <2>1. req[c] \in Request /\ req[c].op = "transfer" /\ WellFormed(req[c])
    BY <1>5 DEF BeginTransfer, Working, Pending
  <2>2. req[c].dev \in Devices /\ req[c].sid \in SessionIds
    BY <2>1 DEF WellFormed, SessionOps
  <2>3. h = req[c].sid
    BY <1>5, <2>2, DmAssumption DEF BeginTransfer, validate_session, Backed
  <2>4. req'[c] = [req[c] EXCEPT !.handle = h] /\ sessions' = sessions
    BY <1>5 DEF BeginTransfer
  <2>5. req'[c].handle = h /\ req'[c].op = req[c].op /\ req'[c].sid = req[c].sid
        /\ req'[c].dev = req[c].dev
    <3> HIDE DEF h
    <3> QED BY <2>1, <2>4 DEF Request
  <2>6. sessions[c][req[c].sid] = req[c].dev
    BY <1>5, <2>1 DEF BeginTransfer, Working, Named, SessionOps
  <2> QED BY <2>3, <2>4, <2>5, <2>6
<1>6. CASE \/ Accept(c) \/ AnswerOther(c) \/ BridgeEnds(c)
           \/ \E proven \in BOOLEAN : handle_hello(c, proven)
  BY <1>6 DEF Accept, AnswerOther, BridgeEnds, handle_hello
<1>7. CASE \/ ExecAttach(c) \/ ExecDetach(c) \/ ExecClaim(c) \/ ExecRelease(c)
           \/ ExecSetConfiguration(c) \/ ExecBridge(c) \/ ExecFails(c) \/ FinishTransfer(c)
  BY <1>7 DEF ExecAttach, ExecDetach, ExecClaim, ExecRelease, ExecSetConfiguration,
              ExecBridge, ExecFails, FinishTransfer, Done
<1>8. CASE Replies(c) \/ Leave(c) \/ cleanup(c)
  BY <1>8 DEF Replies, Respond, SendFails, HandOff, Leave, cleanup
<1> QED BY <1>1, <1>3, <1>4, <1>5, <1>6, <1>7, <1>8 DEF Client, Server, Exec

LEMMA AttachSettles ==
  ASSUME TypeInv, NEW c \in Conns, ExecAttach(c)
  PROVE  /\ nextSessionId \in SessionIds
         /\ Settled(c)' = [Settled(c) EXCEPT ![nextSessionId] = req[c].dev]
         /\ sessionToDevice'[nextSessionId] = req[c].dev
<1> USE DEF TypeInv, TypeOK
<1>1. nextSessionId \in SessionIds
  BY DmAssumption, SMT DEF ExecAttach, attach, Enter, DmTypeOK, SessionIds
<1>2. /\ sessionToDevice'[nextSessionId] = req[c].dev
      /\ pc[c] = "work" /\ pc'[c] = "reply" /\ sessions'[c] = sessions[c]
      /\ req'[c] = [req[c] EXCEPT !.ok = TRUE, !.sid = nextSessionId]
      /\ req[c].op = "attach" /\ req[c] \in Request
  BY <1>1 DEF ExecAttach, Working, Goto, attach, Enter, DmTypeOK
<1>3. /\ req'[c].op = "attach" /\ req'[c].ok
      /\ req'[c].sid = nextSessionId /\ req'[c].dev = req[c].dev
  BY <1>2 DEF Request
<1> QED BY <1>1, <1>2, <1>3 DEF Settled, SessionsAfter

LEMMA AgreeStep ==
  ASSUME MatchInv, NEW c \in Conns, Client(c) \/ Server(c),
         NEW b \in Conns, NEW s \in SessionIds, Settled(b)'[s] # NoDevice
  PROVE  sessionToDevice'[s] = Settled(b)'[s]
<1> USE DEF MatchInv, SessInv
<1>1. ASSUME Settled(b)'[s] = Settled(b)[s],
             ~(ExecAttach(c) /\ s = nextSessionId),
             ~(ExecDetach(c) /\ s = req[c].sid), ~(cleanup(c) /\ Owns(c, s))
      PROVE  sessionToDevice'[s] = Settled(b)'[s]
  BY <1>1, TableStep DEF Agree
<1>2. CASE b # c
  <2>1. Settled(b)'[s] = Settled(b)[s] BY <1>2, OthersSame, SettledSame
  <2>2. Holds(b, s) BY <2>1, SettledHolds
  <2>3. s # nextSessionId
    <3>1. s < nextSessionId BY <2>2 DEF Issued
    <3> QED BY <3>1, SMT DEF SessionIds
  <2>4. ~Owns(c, s) BY <1>2, <2>2 DEF SessionsDisjoint, Holds
  <2>5. ~(ExecDetach(c) /\ s = req[c].sid)
    <3>1. ExecDetach(c) => Owns(c, req[c].sid)
      BY DmAssumption DEF ExecDetach, Working, Named, SessionOps, Owns, TypeInv,
                          Pending, WellFormed
    <3> QED BY <2>4, <3>1
  <2> QED BY <1>1, <2>1, <2>3, <2>4, <2>5
<1>3. CASE b = c /\ ~ExecAttach(c)
  <2>1. Settled(c)'[s] = Settled(c)[s] BY <1>3, SettledStep
  <2>2. ~cleanup(c)
    BY <1>3 DEF cleanup, Goto, Settled, NoSessions, TypeInv, TypeOK
  <2>3. ~(ExecDetach(c) /\ s = req[c].sid)
    BY <1>3, SettledDone DEF ExecDetach, Working
  <2> QED BY <1>1, <1>3, <2>1, <2>2, <2>3
<1>4. CASE b = c /\ ExecAttach(c)
  <2>0. /\ Settled(c) \in [SessionIds -> Devices \cup {NoDevice}]
        /\ Settled(c)' = [Settled(c) EXCEPT ![nextSessionId] = req[c].dev]
        /\ sessionToDevice'[nextSessionId] = req[c].dev
    BY <1>4, SessionsAfterType, AttachSettles DEF Settled, TypeInv, TypeOK
  <2>1. CASE s = nextSessionId BY <1>4, <2>0, <2>1
  <2>2. CASE s # nextSessionId
    <3>1. Settled(c)'[s] = Settled(c)[s] BY <2>0, <2>2
    <3>2. ~ExecDetach(c) /\ ~cleanup(c) BY <1>4 DEF ExecAttach, ExecDetach, cleanup, Working
    <3> QED BY <1>1, <1>4, <2>2, <3>1, <3>2
  <2> QED BY <2>1, <2>2
<1> QED BY <1>2, <1>3, <1>4

LEMMA MatchStep == MatchedRequests /\ MatchInv /\ [Next]_vars => MatchInv'
<1> SUFFICES ASSUME MatchedRequests, MatchInv, [Next]_vars PROVE MatchInv'
  OBVIOUS
<1>0. SessInv' /\ TypeInv BY SessStep DEF MatchInv, SessInv
<1>1. ASSUME NEW c \in Conns, Client(c) \/ Server(c) PROVE MatchInv'
  <2>1. Backed' BY <1>1, TableStep
  <2>2. Agree' BY <1>1, AgreeStep, Zenon DEF Agree
  <2>3. ASSUME NEW b \in Conns, pc'[b] \in {"work", "transfer"}
        PROVE  /\ req'[b].op \in SessionOps => sessions'[b][req'[b].sid] = req'[b].dev
               /\ pc'[b] = "transfer" => req'[b].handle = req'[b].sid
    <3>1. CASE b = c BY <1>1, <2>3, <3>1, NamedStep
    <3>2. CASE b # c
      BY <1>0, <1>1, <2>3, <3>2, OthersSame DEF MatchInv, Named, Current
    <3> QED BY <3>1, <3>2
  <2>4. Named' /\ Current' BY <2>3 DEF Named, Current
  <2> QED BY <1>0, <2>1, <2>2, <2>4 DEF MatchInv
<1>2. CASE (BusNext /\ UNCHANGED <<dmVars, connVars>>) \/ UNCHANGED vars
  BY <1>0, <1>2 DEF MatchInv, Backed, Agree, Settled, SessionsAfter, Named, Current,
                    vars, connVars, dmVars
<1>3. CASE ServerRestart
  BY <1>0, <1>3 DEF ServerRestart, Restart, MatchInv, Backed, Agree, Settled, Named,
                    Current, NoSessions
<1> QED BY <1>1, <1>2, <1>3 DEF Next

LEMMA MatchInit == Init => MatchInv
<1> SUFFICES ASSUME Init PROVE MatchInv
  OBVIOUS
<1>1. SessInv BY SessInit
<1> QED BY <1>1 DEF Init, DmInit, MatchInv, Backed, Agree, Settled, Named, Current,
                    NoSessions

LEMMA MatchInvariant == MatchedRequests => (Spec => []MatchInv)
<1> SUFFICES ASSUME MatchedRequests PROVE Spec => []MatchInv
  OBVIOUS
<1>1. MatchInv /\ [Next]_vars => MatchInv' BY MatchStep
<1> QED BY <1>1, MatchInit, PTL DEF Spec

\* Two tasks are never both admitted to a device, provided that clients name
\* with a session its own device: the one entry of sessionToDevice for the
\* device is the session it is attached under (Backed), and a session has one
\* owner.  What detach does not check, the clients have to keep.
THEOREM ExclusiveUseCorrect == MatchedRequests => (Spec => []ExclusiveUse)
<1>1. MatchInv => ExclusiveUse
  <2> SUFFICES ASSUME MatchInv, NEW b \in Conns, NEW c \in Conns, NEW d \in Devices,
                      MayUse(b, d), MayUse(c, d)
               PROVE  b = c
    BY DEF ExclusiveUse
  <2>1. PICK s \in SessionIds, t \in SessionIds :
          /\ Owns(b, s) /\ sessionToDevice[s] = d
          /\ Owns(c, t) /\ sessionToDevice[t] = d
    BY DEF MayUse, validate_session
  <2>2. attachments[d].handle = s /\ attachments[d].handle = t
    BY <2>1, DmAssumption DEF MatchInv, Backed
  <2> QED BY <2>1, <2>2 DEF MatchInv, SessInv, SessionsDisjoint, Holds
<1> SUFFICES ASSUME MatchedRequests PROVE Spec => []ExclusiveUse
  OBVIOUS
<1>2. Spec => []MatchInv BY MatchInvariant
<1> QED BY <1>1, <1>2, PTL

\* While a transfer runs outside the Mutex, the device stays attached under the
\* handle it runs on: with the same proviso, only the task itself could detach
\* it, and the task is busy with the transfer.
THEOREM TransferCorrect == MatchedRequests => (Spec => []TransferOnCurrentAttachment)
<1>1. MatchInv => TransferOnCurrentAttachment
  <2> SUFFICES ASSUME MatchInv, NEW c \in Conns, pc[c] = "transfer"
               PROVE  attachments[req[c].dev].handle = req[c].handle
    BY DEF TransferOnCurrentAttachment
  <2>1. /\ req[c].op = "transfer"
        /\ req[c].dev \in Devices /\ req[c].sid \in SessionIds
    BY DEF MatchInv, SessInv, TypeInv, Pending, WellFormed, KindAt, SessionOps
  <2>2. sessions[c][req[c].sid] = req[c].dev BY <2>1 DEF MatchInv, Named, SessionOps
  <2>3. sessionToDevice[req[c].sid] = req[c].dev
    BY <2>1, <2>2, DmAssumption DEF MatchInv, Agree, Settled
  <2>4. attachments[req[c].dev].handle = req[c].sid
    BY <2>1, <2>3, DmAssumption DEF MatchInv, Backed
  <2> QED BY <2>4 DEF MatchInv, Current
<1> SUFFICES ASSUME MatchedRequests PROVE Spec => []TransferOnCurrentAttachment
  OBVIOUS
<1>2. Spec => []MatchInv BY MatchInvariant
<1> QED BY <1>1, <1>2, PTL
-----------------------------------------------------------------------------
(***************************************************************************)
(* The DeviceManager inside the server: what DeviceManagerProofs shows of  *)
(* any user of it, the server's tasks have.                                *)
(***************************************************************************)
LEMMA ExecManager ==
  ASSUME TypeInv, NEW c \in Conns, Exec(c)
  PROVE  DmNext \/ UNCHANGED <<busVars, dmVars>>
<1>1. pc[c] = "work" \/ UNCHANGED <<busVars, dmVars>>
  BY DEF Exec, ExecAttach, ExecDetach, ExecClaim, ExecRelease, ExecSetConfiguration,
         ExecBridge, BeginTransfer, ExecFails, Working
<1>2. /\ req[c].op \in DeviceOps \cup SessionOps => req[c].dev \in Devices
      /\ req[c].op \in SessionOps => req[c].sid \in SessionIds
  BY DEF TypeInv, Pending, WellFormed
<1>3. CASE ExecAttach(c)
  <2>1. req[c].dev \in Devices BY <1>2, <1>3 DEF ExecAttach, Working, DeviceOps
  <2> QED BY <1>3, <2>1 DEF ExecAttach, DmNext
<1>4. CASE ExecDetach(c)
  <2>1. req[c].dev \in Devices /\ req[c].sid \in SessionIds
    BY <1>2, <1>4 DEF ExecDetach, Working, SessionOps
  <2> QED BY <1>4, <2>1 DEF ExecDetach, DmNext
<1>5. CASE ExecClaim(c)
  <2>1. req[c].dev \in Devices BY <1>2, <1>5 DEF ExecClaim, Working, SessionOps
  <2> QED BY <1>5, <2>1 DEF ExecClaim, DmNext
<1>6. CASE ExecRelease(c)
  <2>1. req[c].dev \in Devices BY <1>2, <1>6 DEF ExecRelease, Working, SessionOps
  <2> QED BY <1>6, <2>1 DEF ExecRelease, DmNext
<1>7. CASE ExecSetConfiguration(c)
  <2>1. req[c].dev \in Devices BY <1>2, <1>7 DEF ExecSetConfiguration, Working, SessionOps
  <2> QED BY <1>7, <2>1 DEF ExecSetConfiguration, DmNext
<1>8. CASE ExecBridge(c) \/ BeginTransfer(c) \/ ExecFails(c)
  BY <1>8 DEF ExecBridge, BeginTransfer, ExecFails
<1> QED BY <1>3, <1>4, <1>5, <1>6, <1>7, <1>8 DEF Exec

LEMMA CleanupManager ==
  ASSUME NEW c \in Conns, cleanup(c)
  PROVE  DmNext \/ UNCHANGED <<busVars, dmVars>>
<1> DEFINE held == {s \in SessionIds : Owns(c, s)}
<1>1. held \in SUBSET SessionIds OBVIOUS
<1>2. IF held = {} THEN UNCHANGED <<busVars, dmVars>> ELSE detach_all_for_sessions(held)
  BY DEF cleanup
<1> HIDE DEF held
<1> QED BY <1>1, <1>2 DEF DmNext

\* Whatever the clients ask and in whatever order their connections end, the
\* server uses its DeviceManager by that one's methods alone, one at a time
\* (connection.rs takes the Mutex for each): the server implements DmSpec.
THEOREM ImplementsManager == Spec => DmSpec
<1>1. Init => DmInit BY DEF Init
<1>2. TypeInv /\ [Next]_vars => [DmNext]_<<busVars, dmVars>>
  <2> SUFFICES ASSUME TypeInv, [Next]_vars PROVE [DmNext]_<<busVars, dmVars>>
    OBVIOUS
  <2>1. ASSUME NEW c \in Conns, Client(c) PROVE UNCHANGED <<busVars, dmVars>>
    BY <2>1 DEF Client, Accept, Disconnect, AnswerOther, BridgeEnds, handle_hello,
                ReceiveDevice, ReceiveSession, Start
  <2>2. ASSUME NEW c \in Conns, Server(c) PROVE DmNext \/ UNCHANGED <<busVars, dmVars>>
    <3>1. CASE Exec(c) BY <3>1, ExecManager
    <3>2. CASE cleanup(c) BY <3>2, CleanupManager
    <3>3. CASE FinishTransfer(c) \/ Replies(c) \/ Leave(c)
      BY <3>3 DEF FinishTransfer, Replies, Respond, SendFails, HandOff, Leave
    <3> QED BY <2>2, <3>1, <3>2, <3>3 DEF Server
  <2>3. CASE BusNext /\ UNCHANGED <<dmVars, connVars>> BY <2>3 DEF DmNext
  <2>4. CASE ServerRestart BY <2>4 DEF ServerRestart, DmNext
  <2>5. CASE UNCHANGED vars BY <2>5 DEF vars, busVars, dmVars
  <2> QED BY <2>1, <2>2, <2>3, <2>4, <2>5 DEF Next
<1>3. Spec => []TypeInv BY InitType, StepType, PTL DEF Spec
<1> QED BY <1>1, <1>2, <1>3, PTL DEF Spec, DmSpec

\* In the server too, no session id is given out twice, claims are those on
\* record, and without a restart no kernel driver is lost (device_manager.rs).
THEOREM ServerManagerCorrect ==
  /\ Spec => [](SessionIdsUnique /\ ClaimsRecorded)
  /\ ~AllowRestart => (Spec => []DriversAccounted)
<1>1. Spec => [](SessionIdsUnique /\ ClaimsRecorded)
  BY ImplementsManager, SessionIdsCorrect, ClaimsCorrect, PTL
<1>2. ~AllowRestart => (Spec => []DriversAccounted)
  BY ImplementsManager, DriversCorrect
<1> QED BY <1>1, <1>2
=============================================================================
