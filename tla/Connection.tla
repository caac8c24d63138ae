----------------------------- MODULE Connection -----------------------------
(***************************************************************************)
(* server/connection.rs and the accept loop of server/listener.rs: one     *)
(* task per TCP connection, and the DeviceManager they share.  A task is   *)
(* sequential: it awaits a message, awaits the blocking call the message   *)
(* needs, awaits the reply's write, and starts again.  Tasks of different  *)
(* connections interleave at every await, which is where the model has     *)
(* its steps:                                                              *)
(*                                                                         *)
(*   idle --message--> work --Mutex held--> reply --send--> idle           *)
(*                       \--> transfer, no Mutex --/                       *)
(*                                                                         *)
(* A client has one request outstanding (client/session.rs send_and_recv); *)
(* it may go away at any point.                                            *)
(***************************************************************************)
EXTENDS DeviceManager

CONSTANTS Conns,           \* connection slots; a closed one is used again
          NoConn,
          ClientOps,       \* the requests that clients make
          Keyed,           \* is a shared key configured
          Tls,             \* does the listener speak TLS
          MatchedRequests  \* do clients name, with a session, its own device

Ops == {"none", "hello", "other", "attach", "detach", "transfer", "claim",
        "release", "set_configuration", "bridge"}

\* The requests that name a session.
SessionOps == {"detach", "transfer", "claim", "release", "set_configuration"}

ASSUME ConnAssumption == /\ NoConn \notin Conns
                         /\ ClientOps \subseteq Ops
                         /\ {Keyed, Tls, MatchedRequests} \subseteq BOOLEAN

VARIABLES pc,             \* where the connection's task awaits
          up,             \* the client has not closed its end
          authenticated,
          sessions,       \* HashMap<u64, DeviceId>, private to the task
          req             \* the request being handled, and its outcome

connVars == <<pc, up, authenticated, sessions, req>>
vars == <<busVars, dmVars, connVars>>

NoSessions == [s \in SessionIds |-> NoDevice]
NoReq == [op |-> "none", dev |-> NoDevice, sid |-> 0, handle |-> 0, ok |-> FALSE]

Request == [op : Ops, dev : Devices \cup {NoDevice}, sid : 0 .. MaxSessions,
            handle : Nat, ok : BOOLEAN]

PCs == {"closed", "idle", "work", "transfer", "reply", "cleanup", "bridge"}

TypeOK == /\ DmTypeOK
          /\ pc \in [Conns -> PCs]
          /\ up \in [Conns -> BOOLEAN]
          /\ authenticated \in [Conns -> BOOLEAN]
          /\ sessions \in [Conns -> [SessionIds -> Devices \cup {NoDevice}]]
          /\ req \in [Conns -> Request]

Init == /\ DmInit
        /\ pc = [c \in Conns |-> "closed"]
        /\ up = [c \in Conns |-> FALSE]
        /\ authenticated = [c \in Conns |-> FALSE]
        /\ sessions = [c \in Conns |-> NoSessions]
        /\ req = [c \in Conns |-> NoReq]

Goto(c, l) == pc' = [pc EXCEPT ![c] = l]
Owns(c, s) == sessions[c][s] # NoDevice
Admitted(c) == ~Keyed \/ authenticated[c]

(***************************************************************************)
(* The client and the wire.                                                *)
(***************************************************************************)
Accept(c) == /\ pc[c] = "closed"
             /\ Goto(c, "idle")
             /\ up' = [up EXCEPT ![c] = TRUE]
             /\ authenticated' = [authenticated EXCEPT ![c] = FALSE]
             /\ sessions' = [sessions EXCEPT ![c] = NoSessions]
             /\ req' = [req EXCEPT ![c] = NoReq]
             /\ UNCHANGED <<busVars, dmVars>>

Disconnect(c) == /\ pc[c] # "closed" /\ up[c]
                 /\ up' = [up EXCEPT ![c] = FALSE]
                 /\ UNCHANGED <<busVars, dmVars, pc, authenticated, sessions, req>>

(***************************************************************************)
(* handle_message up to the first blocking call of each handler.           *)
(***************************************************************************)
Hears(c, op) == pc[c] = "idle" /\ up[c] /\ op \in ClientOps

\* proven: the version matches and, with a key, the client's proof verifies.
\* A failed Hello takes nothing back from a connection that was admitted.
handle_hello(c, proven) ==
  /\ Hears(c, "hello")
  /\ authenticated' = [authenticated EXCEPT ![c] = @ \/ proven]
  /\ req' = [req EXCEPT ![c] = [NoReq EXCEPT !.op = "hello", !.ok = proven]]
  /\ Goto(c, "reply")
  /\ UNCHANGED <<busVars, dmVars, up, sessions>>

\* Answered with no change to any state: Ping, the device list, descriptors,
\* an unexpected message, a request before Hello, a session that is not the
\* connection's.
AnswerOther(c) == /\ Hears(c, "other")
                  /\ req' = [req EXCEPT ![c] = [NoReq EXCEPT !.op = "other"]]
                  /\ Goto(c, "reply")
                  /\ UNCHANGED <<busVars, dmVars, up, authenticated, sessions>>

\* Mutant of Start: the handlers do not ask for a Hello.
Start_unauthenticated(c, op, d, s) ==
  /\ Hears(c, op)
  /\ req' = [req EXCEPT ![c] = [NoReq EXCEPT !.op = op, !.dev = d, !.sid = s]]
  /\ Goto(c, "work")
  /\ UNCHANGED <<busVars, dmVars, up, authenticated, sessions>>

Start(c, op, d, s) ==
  /\ Hears(c, op)
  /\ Admitted(c)
  /\ req' = [req EXCEPT ![c] = [NoReq EXCEPT !.op = op, !.dev = d, !.sid = s]]
  /\ Goto(c, "work")
  /\ UNCHANGED <<busVars, dmVars, up, authenticated, sessions>>

ReceiveDevice(c, op, d) == op \in {"attach", "bridge"} /\ Start(c, op, d, 0)

\* sessions.contains_key is the handlers' only test here: that the session is
\* for the device the request names is left to the client.
ReceiveSession(c, op, d, s) == /\ op \in SessionOps
                               /\ Owns(c, s)
                               /\ MatchedRequests => sessions[c][s] = d
                               /\ Start(c, op, d, s)

(***************************************************************************)
(* The blocking calls, each with the DeviceManager's Mutex held.           *)
(***************************************************************************)
Working(c, op) == pc[c] = "work" /\ req[c].op = op

Done(c, ok) == /\ req' = [req EXCEPT ![c].ok = ok]
               /\ Goto(c, "reply")
               /\ UNCHANGED <<up, authenticated, sessions>>

ExecAttach(c) == /\ Working(c, "attach")
                 /\ attach(req[c].dev)
                 /\ req' = [req EXCEPT ![c].ok = TRUE, ![c].sid = nextSessionId]
                 /\ Goto(c, "reply")
                 /\ UNCHANGED <<up, authenticated, sessions>>

ExecDetach(c) == /\ Working(c, "detach")
                 /\ detach(req[c].dev, req[c].sid)
                 /\ Done(c, TRUE)

\* Mutant of ExecClaim: it claims on any device that is attached.
ExecClaim_any_device(c) ==
  /\ Working(c, "claim")
  /\ \E d \in Devices, i \in Interfaces : claim_interface(d, i)
  /\ Done(c, TRUE)

\* claim, release and set_configuration go by the device alone.
ExecClaim(c) == /\ Working(c, "claim")
                /\ \E i \in Interfaces : claim_interface(req[c].dev, i)
                /\ Done(c, TRUE)

ExecRelease(c) == /\ Working(c, "release")
                  /\ \E i \in Interfaces : release_interface(req[c].dev, i)
                  /\ Done(c, TRUE)

ExecSetConfiguration(c) == /\ Working(c, "set_configuration")
                           /\ set_configuration(req[c].dev)
                           /\ Done(c, TRUE)

\* handle_bridge only looks the device up.
ExecBridge(c) == /\ Working(c, "bridge")
                 /\ plugged[req[c].dev] # NoProduct
                 /\ Done(c, TRUE)
                 /\ UNCHANGED <<busVars, dmVars>>

\* The Mutex is held for the two tests and let go with an Arc of the handle.
BeginTransfer(c) == /\ Working(c, "transfer")
                    /\ validate_session(req[c].sid, req[c].dev)
                    /\ get_handle(req[c].dev)
                    /\ req' = [req EXCEPT ![c].handle = attachments[req[c].dev].handle]
                    /\ Goto(c, "transfer")
                    /\ UNCHANGED <<busVars, dmVars, up, authenticated, sessions>>

\* The transfer has run, or timed out, on the handle.
FinishTransfer(c) == /\ pc[c] = "transfer"
                     /\ \E ok \in BOOLEAN : Done(c, ok)
                     /\ UNCHANGED <<busVars, dmVars>>

\* The call returns Err.  libusb may refuse any of them; a detach fails only
\* if the device is not attached, a transfer's tests only if they are not met.
ExecFails(c) ==
  /\ pc[c] = "work"
  /\ req[c].op = "detach" => ~Attached(req[c].dev)
  /\ req[c].op = "transfer" => ~( /\ validate_session(req[c].sid, req[c].dev)
                                  /\ get_handle(req[c].dev) )
  /\ Done(c, FALSE)
  /\ UNCHANGED <<busVars, dmVars>>

(***************************************************************************)
(* The call has returned: the handler brings the connection's own session  *)
(* map up to date and run sends the reply.                                 *)
(***************************************************************************)
\* attach inserts the new session, detach removes its session, also on error.
SessionsAfter(c) ==
  CASE req[c].op = "attach" /\ req[c].ok -> [sessions[c] EXCEPT ![req[c].sid] = req[c].dev]
    [] req[c].op = "detach"              -> [sessions[c] EXCEPT ![req[c].sid] = NoDevice]
    [] OTHER                             -> sessions[c]

Bridging(c) == req[c].op = "bridge" /\ req[c].ok

Respond(c) == /\ pc[c] = "reply" /\ ~Bridging(c)
              /\ sessions' = [sessions EXCEPT ![c] = SessionsAfter(c)]
              /\ req' = [req EXCEPT ![c] = NoReq]
              /\ Goto(c, "idle")
              /\ UNCHANGED <<busVars, dmVars, up, authenticated>>

\* Mutants of SendFails: the loop breaks before the session is in the map; it
\* returns instead of going on to cleanup.
SendFails_forgets_session(c) ==
  /\ pc[c] = "reply"
  /\ ~up[c] \/ req[c].op = "transfer"
  /\ req' = [req EXCEPT ![c] = NoReq]
  /\ Goto(c, "cleanup")
  /\ UNCHANGED <<busVars, dmVars, up, authenticated, sessions>>
SendFails_returns(c) ==
  /\ pc[c] = "reply"
  /\ ~up[c] \/ req[c].op = "transfer"
  /\ sessions' = [sessions EXCEPT ![c] = NoSessions]
  /\ req' = [req EXCEPT ![c] = NoReq]
  /\ Goto(c, "closed")
  /\ UNCHANGED <<busVars, dmVars, up, authenticated>>

\* The send fails because the client is gone, or because a transfer's data
\* with its envelope is longer than a frame may be (codec.rs).
SendFails(c) == /\ pc[c] = "reply"
                /\ ~up[c] \/ req[c].op = "transfer"
                /\ sessions' = [sessions EXCEPT ![c] = SessionsAfter(c)]
                /\ req' = [req EXCEPT ![c] = NoReq]
                /\ Goto(c, "cleanup")
                /\ UNCHANGED <<busVars, dmVars, up, authenticated>>

\* BridgeAccepted is sent, then run gives the socket to the USB/IP bridge: the
\* task serves no more messages, and it returns without cleanup.  Over TLS the
\* connection is dropped at once.
HandOff(c) == /\ pc[c] = "reply" /\ Bridging(c)
              /\ Goto(c, IF Tls THEN "closed" ELSE "bridge")
              /\ up' = [up EXCEPT ![c] = @ /\ ~Tls]
              /\ sessions' = [sessions EXCEPT ![c] = NoSessions]
              /\ req' = [req EXCEPT ![c] = NoReq]
              /\ UNCHANGED <<busVars, dmVars, authenticated>>

BridgeEnds(c) == /\ pc[c] = "bridge"
                 /\ Goto(c, "closed")
                 /\ up' = [up EXCEPT ![c] = FALSE]
                 /\ UNCHANGED <<busVars, dmVars, authenticated, sessions, req>>

\* The stream ends, or a frame does not decode: the loop breaks.
Leave(c) == /\ pc[c] = "idle"
            /\ Goto(c, "cleanup")
            /\ UNCHANGED <<busVars, dmVars, up, authenticated, sessions, req>>

cleanup(c) ==
  LET held == {s \in SessionIds : Owns(c, s)}
  IN /\ pc[c] = "cleanup"
     /\ IF held = {} THEN UNCHANGED <<busVars, dmVars>>
                     ELSE detach_all_for_sessions(held)
     /\ Goto(c, "closed")
     /\ up' = [up EXCEPT ![c] = FALSE]
     /\ sessions' = [sessions EXCEPT ![c] = NoSessions]
     /\ UNCHANGED <<authenticated, req>>

ServerRestart == /\ Restart
                 /\ pc' = [c \in Conns |-> "closed"]
                 /\ up' = [c \in Conns |-> FALSE]
                 /\ sessions' = [c \in Conns |-> NoSessions]
                 /\ req' = [c \in Conns |-> NoReq]
                 /\ UNCHANGED authenticated

Exec(c) == \/ ExecAttach(c) \/ ExecDetach(c) \/ ExecClaim(c) \/ ExecRelease(c)
           \/ ExecSetConfiguration(c) \/ ExecBridge(c) \/ BeginTransfer(c)
           \/ ExecFails(c)

Replies(c) == Respond(c) \/ SendFails(c) \/ HandOff(c)

\* What the clients and the wire do to a connection.
Client(c) ==
  \/ Accept(c) \/ Disconnect(c) \/ AnswerOther(c) \/ BridgeEnds(c)
  \/ \E proven \in BOOLEAN : handle_hello(c, proven)
  \/ \E op \in ClientOps, d \in Devices : ReceiveDevice(c, op, d)
  \/ \E op \in ClientOps, d \in Devices, s \in SessionIds : ReceiveSession(c, op, d, s)

\* What the server's task does once it has something to do.
Server(c) == Exec(c) \/ FinishTransfer(c) \/ Replies(c) \/ Leave(c) \/ cleanup(c)

Next == \/ \E c \in Conns : Client(c) \/ Server(c)
        \/ BusNext /\ UNCHANGED <<dmVars, connVars>>
        \/ ServerRestart

Spec == Init /\ [][Next]_vars

\* The runtime polls a task that can go on, the Mutex is granted in the order
\* it is asked for and is held for finite calls, a transfer has a nonzero
\* timeout (safe_timeout), and the end of the stream is delivered.  Nothing
\* is assumed of clients, of the bus, or of frames that do not decode.
Progress(c) == \/ Exec(c) \/ FinishTransfer(c) \/ Replies(c) \/ cleanup(c)
               \/ ~up[c] /\ Leave(c)

FairSpec == Spec /\ \A c \in Conns : WF_vars(Progress(c))
-----------------------------------------------------------------------------
\* c has session s: it is in c's map, or the attach that got it is done and
\* its result on the way there.
Holds(c, s) == \/ Owns(c, s)
               \/ pc[c] = "reply" /\ req[c].op = "attach" /\ req[c].ok /\ req[c].sid = s

\* A request of c for d under one of its sessions passes the tests of the
\* transfer handlers (442-452).
MayUse(c, d) == /\ Attached(d)
                /\ \E s \in SessionIds : Owns(c, s) /\ validate_session(s, d)

\* "Only one client can attach to a device at a time" (README.md:194): two
\* connections are never both admitted to the same device.
ExclusiveUse == \A c1, c2 \in Conns, d \in Devices :
                   MayUse(c1, d) /\ MayUse(c2, d) => c1 = c2

\* Every attached device belongs to a connection that still has a session for
\* it and whose cleanup is yet to come, so that none stays attached to nobody
\* ("the server automatically cleans up", README.md:208; cleanup 611-625).
NoOrphan == \A d \in Devices : Attached(d) =>
              \E c \in Conns, s \in SessionIds :
                 /\ attachments[d].handle = s
                 /\ sessionToDevice[s] = d
                 /\ Holds(c, s)
                 /\ pc[c] \notin {"closed", "bridge"}

\* While a transfer runs outside the Mutex on its Arc of the handle (457-466)
\* no other connection's step takes the device away and gives it to someone
\* else: the handle is the one the device is attached under.
TransferOnCurrentAttachment ==
  \A c \in Conns : pc[c] = "transfer" =>
     attachments[req[c].dev].handle = req[c].handle

\* No two connections ever have the same session, also in the window between
\* the allocation of an id under the Mutex and its insertion into the task's
\* own map (373-379), and whatever devices clients name with it.
SessionsDisjoint == \A c1, c2 \in Conns, s \in SessionIds :
                       Holds(c1, s) /\ Holds(c2, s) => c1 = c2

\* With a key configured, a connection gets a session only after a Hello it
\* could prove (handle_message 165-170), whatever it tried before.
SessionsAuthenticated == \A c \in Conns, s \in SessionIds : Holds(c, s) => Admitted(c)

\* The lease that the tables and the connections' maps stand for together.
Holder == [d \in Devices |->
             IF Attached(d) /\ \E c \in Conns : Holds(c, attachments[d].handle)
             THEN CHOOSE c \in Conns : Holds(c, attachments[d].handle)
             ELSE NoConn]

Leaving == [c \in Conns |-> pc[c] = "cleanup" \/ Working(c, "detach")]

Lease == INSTANCE DeviceLease WITH holder <- Holder, leaving <- Leaving

\* The server implements the lease: no step of any task moves a device from one
\* holder to another, or takes it from a holder that is not itself detaching it
\* or cleaning up (handle_detach 402-439, cleanup 611-625).
ImplementsLease == Lease!LeaseSpec

\* "If a client disconnects without detaching, the server automatically cleans
\* up" (README.md:208): the devices of a client that has gone become free.
DisconnectFrees ==
  \A c \in Conns, s \in SessionIds :
     (Holds(c, s) /\ ~up[c]) ~> (\A d \in Devices : attachments[d].handle # s)

\* A claim on a device is made and released only by the connection that has it
\* attached ("Claim exclusive access to a remote USB device", README.md:194).
OnlyHolderClaims ==
  [][\A d \in Devices :
       (Attached(d) /\ attachments'[d].handle = attachments[d].handle
                    /\ attachments'[d].claimed # attachments[d].claimed)
         => \E c \in Conns : MayUse(c, d) /\ pc[c] = "work" /\ pc'[c] = "reply"]_vars
=============================================================================
