-------------------------------- MODULE Wire --------------------------------
(***************************************************************************)
(* One connection seen from both ends, at the grain of what a read of the  *)
(* socket may return: the frames of protocol/codec.rs, the handshake       *)
(* (session.rs connect, mount.rs do_hello, connection.rs handle_hello),    *)
(* one request at a time, the limits of transfer.rs, and the change from   *)
(* frames to raw USB/IP bytes when a bridge is accepted (mount.rs,         *)
(* bridge.rs).  What the requests do to devices is in Connection.tla.      *)
(*                                                                         *)
(*  client: connecting - hello - ready - waiting - accepted - importing -  *)
(*          kernel, or refused, broken, left                               *)
(*  server: accepting - serve - import - handoff - kernel, or closed, dead *)
(***************************************************************************)
EXTENDS Naturals, Sequences

CONSTANTS Keys, NoKey,   \* pre-shared keys
          Versions,      \* values of PROTOCOL_VERSION in the builds around
          MaxFrame,      \* MAX_FRAME_SIZE: the longest payload of a frame
          MaxTransfer,   \* MAX_TRANSFER_BUFFER
          MaxRequests,   \* bound: requests of the client
          MaxUrbs        \* bound: URBs the client's kernel submits

ASSUME WireAssumption == /\ NoKey \notin Keys
                         /\ Versions \subseteq Nat
                         /\ {MaxFrame, MaxTransfer, MaxRequests, MaxUrbs} \subseteq Nat \ {0}
                         /\ MaxFrame > 1

VARIABLES setup,          \* how the two ends were configured
          cpc, spc,       \* where the client and the server's task are
          creq,           \* the client's last request
          authenticated,  \* Connection.authenticated
          cbuf, sbuf,     \* the read buffers of the two Framed
          c2s, s2c,       \* bytes on their way, not read yet
          urbs, returned  \* URBs submitted and given back so far

client == <<cpc, creq, cbuf>>
server == <<spc, authenticated, sbuf>>
kernels == <<urbs, returned>>
vars == <<setup, client, server, c2s, s2c, kernels>>

\* A message, or a stretch of raw bytes.  len is what it takes up, beside the
\* length prefix, where 1 is the size of everything but a transfer's data;
\* id is the number of the request it belongs to; want is a transfer's length.
Blank == [type |-> "none", id |-> 0, len |-> 1, want |-> 0, ver |-> 0,
          mac |-> <<>>, ok |-> TRUE]

Msg(type, id, len) == [Blank EXCEPT !.type = type, !.id = id, !.len = len]

\* The bytes of a frame, in as many pieces as a read can tell apart: the
\* length prefix (at = 0), then the payload.
Frame(m) == [i \in 1 .. m.len + 1 |-> [msg |-> m, at |-> i - 1]]

\* Raw USB/IP bytes, n of them.
Raw(type, n) == [i \in 1 .. n |-> [msg |-> Msg(type, 0, n), at |-> i]]
OpReq == Raw("OP_REQ_IMPORT", 1)
OpRep == Raw("OP_REP_IMPORT", 2)    \* header and device

\* HMAC(key, nonce || role); the nonce is the connection's.
Mac(key, role) == IF key = NoKey THEN <<>> ELSE <<key, role>>

TlsAgrees == setup.ctls = setup.stls

Init == /\ setup \in [kind : {"cli", "mount"}, ckey : Keys \cup {NoKey},
                      skey : Keys \cup {NoKey}, cver : Versions, sver : Versions,
                      ctls : BOOLEAN, stls : BOOLEAN]
        /\ setup.kind = "mount" => ~setup.ctls
        /\ cpc = "connecting" /\ spc = "accepting"
        /\ creq = Blank
        /\ authenticated = FALSE
        /\ cbuf = <<>> /\ sbuf = <<>> /\ c2s = <<>> /\ s2c = <<>>
        /\ urbs = 0 /\ returned = 0

CStates == {"connecting", "hello", "ready", "waiting", "accepted", "importing",
            "kernel", "refused", "broken", "left"}
SStates == {"accepting", "serve", "import", "handoff", "kernel", "closed", "dead"}

ClientOver == cpc \in {"refused", "broken", "left"}
ServerOver == spc \in {"closed", "dead"}
Awaiting == cpc \in {"hello", "waiting"}

(***************************************************************************)
(* protocol/codec.rs                                                       *)
(***************************************************************************)
TooLarge(buf) == buf # <<>> /\ Head(buf).msg.len > MaxFrame
Complete(buf) == buf # <<>> /\ Len(buf) > Head(buf).msg.len
Decoded(buf) == Head(buf).msg

\* Mutant of AfterFrame: the prefix is left in the buffer.
AfterFrame_prefix_left(buf) == SubSeq(buf, Head(buf).msg.len + 1, Len(buf))
AfterFrame(buf) == SubSeq(buf, Head(buf).msg.len + 2, Len(buf))

\* Mutant of Encodes: no limit.
Encodes_any(m) == m.len >= 0
Encodes(m) == m.len <= MaxFrame

\* A Framed reads only while it has no whole frame; a read returns any part of
\* what has arrived.
Needs(buf) == ~Complete(buf) /\ ~TooLarge(buf)

ClientReads == /\ Awaiting /\ Needs(cbuf)
               /\ \E k \in 1 .. Len(s2c) :
                    /\ cbuf' = cbuf \o SubSeq(s2c, 1, k)
                    /\ s2c' = SubSeq(s2c, k + 1, Len(s2c))
               /\ UNCHANGED <<setup, cpc, creq, server, c2s, kernels>>

ServerReads == /\ spc = "serve" /\ Needs(sbuf)
               /\ \E k \in 1 .. Len(c2s) :
                    /\ sbuf' = sbuf \o SubSeq(c2s, 1, k)
                    /\ c2s' = SubSeq(c2s, k + 1, Len(c2s))
               /\ UNCHANGED <<setup, client, spc, authenticated, s2c, kernels>>

(***************************************************************************)
(* The client: session.rs, mount.rs.                                       *)
(***************************************************************************)
Hello == [Msg("Hello", 0, 1) EXCEPT !.ver = setup.cver, !.mac = Mac(setup.ckey, "client")]

\* A TLS client fails here with a server that does not answer in TLS.
connect == /\ cpc = "connecting"
           /\ IF setup.ctls => setup.stls
              THEN cpc' = "hello" /\ c2s' = Frame(Hello)
              ELSE cpc' = "broken" /\ UNCHANGED c2s
           /\ UNCHANGED <<setup, creq, cbuf, server, s2c, kernels>>

ClientHas(state) == cpc = state /\ Complete(cbuf) /\ ~TooLarge(cbuf)
TakeFrame == /\ cbuf' = AfterFrame(cbuf)
             /\ UNCHANGED <<setup, creq, server, c2s, s2c, kernels>>

\* What the client makes of the HelloResponse: accepted, the server's proof if
\* it has a key, and, in session.rs alone, the version.
Trusted(m) == /\ m.ok
              /\ setup.ckey # NoKey => m.mac = Mac(setup.ckey, "server")
              /\ setup.kind = "cli" => m.ver = setup.cver

FinishHello == /\ ClientHas("hello")
               /\ cpc' = CASE Decoded(cbuf).type # "HelloResponse" -> "broken"
                           [] ~Trusted(Decoded(cbuf))              -> "refused"
                           [] OTHER                                -> "ready"
               /\ TakeFrame

\* The requests of the client: any number of calls of a Session, with IN
\* transfers of any length and OUT transfers of any data; one Bridge.
\* ListDevices stands for every request whose frame and reply are short.
Requests(id) ==
  IF setup.kind = "mount" THEN {Msg("Bridge", id, 1)}
  ELSE {Msg("ListDevices", id, 1)}
       \cup {[Msg("Transfer", id, 1) EXCEPT !.want = n] : n \in 0 .. MaxTransfer + 1}
       \cup {Msg("Transfer", id, 1 + n) : n \in 1 .. MaxFrame}

\* Mutant of Request: the import request is sent along with the Bridge.
Request_import_at_once(m) ==
  /\ cpc = "ready"
  /\ IF Encodes(m) THEN /\ cpc' = "waiting"
                        /\ c2s' = c2s \o Frame(m) \o (IF m.type = "Bridge" THEN OpReq ELSE <<>>)
                   ELSE cpc' = "refused" /\ UNCHANGED c2s
  /\ creq' = m
  /\ UNCHANGED <<setup, cbuf, server, s2c, kernels>>

\* send_and_recv, send_bridge; a request the encoder refuses fails at once.
Request(m) == /\ cpc = "ready"
              /\ IF Encodes(m) THEN cpc' = "waiting" /\ c2s' = c2s \o Frame(m)
                               ELSE cpc' = "refused" /\ UNCHANGED c2s
              /\ creq' = m
              /\ UNCHANGED <<setup, cbuf, server, s2c, kernels>>

Send == creq.id < MaxRequests /\ \E m \in Requests(creq.id + 1) : Request(m)

Expected == CASE creq.type = "ListDevices" -> {"DeviceList", "Error"}
              [] creq.type = "Transfer"    -> {"TransferResult", "Error"}
              [] OTHER                     -> {"BridgeAccepted", "BridgeRejected"}

\* The client goes on with what it read, or gives the buffer and the Framed up:
\* into_inner keeps the socket alone.
ReceiveReply ==
  /\ ClientHas("waiting")
  /\ IF Decoded(cbuf).type = "BridgeAccepted" /\ creq.type = "Bridge"
     THEN cbuf' = <<>> ELSE cbuf' = AfterFrame(cbuf)
  /\ cpc' = CASE Decoded(cbuf).type \notin Expected       -> "broken"
              [] Decoded(cbuf).type = "BridgeAccepted" -> "accepted"
              [] Decoded(cbuf).type = "BridgeRejected" -> "refused"
              [] OTHER                                 -> "ready"
  /\ UNCHANGED <<setup, creq, server, c2s, s2c, kernels>>

SendImport == /\ cpc = "accepted"
              /\ cpc' = "importing"
              /\ c2s' = c2s \o OpReq
              /\ UNCHANGED <<setup, creq, cbuf, server, s2c, kernels>>

\* Mutant of op_req_import: the header alone is read.
op_req_import_header(n) == n = 1
op_req_import(n) == n = Len(OpRep)

\* Two read_exact on the socket, then the socket goes to vhci_hcd, which may
\* refuse it.
ReadImportReply ==
  /\ cpc = "importing"
  /\ \E n \in 1 .. Len(s2c) : op_req_import(n) /\ s2c' = SubSeq(s2c, n + 1, Len(s2c))
  /\ cpc' \in IF Head(s2c).msg.type = "OP_REP_IMPORT" THEN {"kernel", "refused"} ELSE {"broken"}
  /\ UNCHANGED <<setup, creq, cbuf, server, c2s, kernels>>

\* Mutant of ClientBreaks: the caller gives up waiting and keeps the session.
ClientBreaks_or_timeout ==
  /\ Awaiting
  /\ cpc' = IF cpc = "waiting" THEN "ready" ELSE "broken"
  /\ UNCHANGED <<setup, creq, cbuf, server, c2s, s2c, kernels>>

\* The stream ends, or a frame's prefix is beyond the limit.
ClientBreaks == /\ \/ Awaiting /\ TooLarge(cbuf)
                   \/ Awaiting /\ Needs(cbuf) /\ s2c = <<>> /\ ServerOver
                   \/ cpc = "importing" /\ Len(s2c) < Len(OpRep) /\ ServerOver
                /\ cpc' = "broken"
                /\ UNCHANGED <<setup, creq, cbuf, server, c2s, s2c, kernels>>

\* Ctrl-C, or the command is done.
ClientLeaves == /\ ~ClientOver /\ cpc # "kernel"
                /\ cpc' = "left"
                /\ UNCHANGED <<setup, creq, cbuf, server, c2s, s2c, kernels>>

(***************************************************************************)
(* The server: listener.rs, connection.rs, bridge.rs.                      *)
(***************************************************************************)
\* Mutant of TlsAccepted: a plain client is taken as it is.
TlsAccepted_optional == setup.ctls => setup.stls
TlsAccepted == TlsAgrees

\* With TLS on one side alone the handshake, or the first frame, fails.
accept == /\ spc = "accepting" /\ cpc # "connecting"
          /\ spc' = IF TlsAccepted THEN "serve" ELSE "closed"
          /\ UNCHANGED <<setup, client, authenticated, sbuf, c2s, s2c, kernels>>

\* Mutant of Proven: the version is left to the client.
Proven_any_version(m) == setup.skey = NoKey \/ m.mac = Mac(setup.skey, "client")
Proven(m) == /\ m.ver = setup.sver
             /\ setup.skey = NoKey \/ m.mac = Mac(setup.skey, "client")

handle_hello(m) ==
  [Msg("HelloResponse", 0, 1) EXCEPT !.ver = setup.sver, !.ok = Proven(m),
     !.mac = IF Proven(m) THEN Mac(setup.skey, "server") ELSE <<>>]

\* The answers of a transfer: refused or failed, or the data there was.
capped_length(m) == m.want <= MaxTransfer
TransferResults(m) ==
  {Msg("TransferResult", m.id, 1)}
  \cup {Msg("TransferResult", m.id, 1 + n) : n \in {k \in 1 .. m.want : capped_length(m)}}

handle_message(m) ==
  CASE m.type = "Hello" -> {handle_hello(m)}
    [] m.type # "Hello" /\ setup.skey # NoKey /\ ~authenticated -> {Msg("Error", m.id, 1)}
    [] OTHER -> CASE m.type = "ListDevices" -> {Msg("DeviceList", m.id, 1), Msg("Error", m.id, 1)}
                  [] m.type = "Transfer"    -> TransferResults(m)
                  [] m.type = "Bridge"      -> {Msg("BridgeAccepted", m.id, 1),
                                                Msg("BridgeRejected", m.id, 1)}

\* Where run goes with the reply: on, out of the loop when it cannot be sent,
\* or to the bridge, which a TLS stream does not reach.  Mutants: it goes on
\* without having sent; a request that failed ends the connection.
After_goes_on(reply) ==
  CASE reply.type = "BridgeAccepted" -> IF setup.stls THEN "closed" ELSE "import"
    [] OTHER                         -> "serve"
After_ends_on_error(reply) ==
  CASE ~Encodes(reply) \/ reply.type = "Error" -> "closed"
    [] reply.type = "BridgeAccepted"           -> IF setup.stls THEN "closed" ELSE "import"
    [] OTHER                                   -> "serve"
After(reply) ==
  CASE ~Encodes(reply)               -> "closed"
    [] reply.type = "BridgeAccepted" -> IF setup.stls THEN "closed" ELSE "import"
    [] OTHER                         -> "serve"

Answer == /\ spc = "serve" /\ Complete(sbuf) /\ ~TooLarge(sbuf)
          /\ \E reply \in handle_message(Decoded(sbuf)) :
               /\ s2c' = IF Encodes(reply) THEN s2c \o Frame(reply) ELSE s2c
               /\ spc' = After(reply)
               /\ sbuf' = IF After(reply) = "import" THEN <<>> ELSE AfterFrame(sbuf)
               /\ authenticated' = (authenticated \/ (reply.type = "HelloResponse" /\ reply.ok))
          /\ UNCHANGED <<setup, client, c2s, kernels>>

\* OP_REQ_IMPORT is read off the socket and answered.  The device may be gone,
\* not bindable, or the client gone: run_bridge_inner returns and the socket is
\* dropped.
BridgeImport == /\ spc = "import"
                /\ \/ /\ Len(c2s) >= Len(OpReq)
                      /\ Head(c2s).msg.type = "OP_REQ_IMPORT"
                      /\ c2s' = SubSeq(c2s, Len(OpReq) + 1, Len(c2s))
                      /\ s2c' = s2c \o OpRep
                      /\ spc' = "handoff"
                   \/ spc' = "closed" /\ UNCHANGED <<c2s, s2c>>
                /\ UNCHANGED <<setup, client, authenticated, sbuf, kernels>>

BridgeAttach == /\ spc = "handoff"
                /\ spc' \in {"kernel", "closed"}
                /\ UNCHANGED <<setup, client, authenticated, sbuf, c2s, s2c, kernels>>

ServerBreaks == /\ spc = "serve"
                /\ \/ TooLarge(sbuf)
                   \/ Needs(sbuf) /\ c2s = <<>> /\ ClientOver
                /\ spc' = "closed"
                /\ UNCHANGED <<setup, client, authenticated, sbuf, c2s, s2c, kernels>>

\* The server process is killed; a socket the kernel has is not its own.
ServerDies == /\ ~ServerOver /\ spc # "kernel"
              /\ spc' = "dead"
              /\ UNCHANGED <<setup, client, authenticated, sbuf, c2s, s2c, kernels>>

(***************************************************************************)
(* The kernels, once they have the socket: vhci_hcd submits, usbip_host    *)
(* answers; neither waits for the other end to have handed over.           *)
(***************************************************************************)
Submit == /\ cpc = "kernel" /\ urbs < MaxUrbs
          /\ urbs' = urbs + 1
          /\ c2s' = c2s \o Raw("SUBMIT", 1)
          /\ UNCHANGED <<setup, client, server, s2c, returned>>

Return == /\ spc = "kernel" /\ c2s # <<>>
          /\ c2s' = Tail(c2s)
          /\ s2c' = s2c \o Raw("RET", 1)
          /\ UNCHANGED <<setup, client, server, kernels>>

GiveBack == /\ cpc = "kernel" /\ s2c # <<>>
            /\ s2c' = Tail(s2c)
            /\ returned' = returned + 1
            /\ UNCHANGED <<setup, client, server, c2s, urbs>>

ClientStep == \/ connect \/ ClientReads \/ FinishHello \/ ReceiveReply \/ SendImport
              \/ ReadImportReply \/ ClientBreaks
ServerStep == \/ accept \/ ServerReads \/ Answer \/ BridgeImport \/ BridgeAttach
              \/ ServerBreaks

Next == ClientStep \/ ServerStep \/ Send \/ ClientLeaves \/ ServerDies
        \/ Submit \/ Return \/ GiveBack

Spec == Init /\ [][Next]_vars

\* Both processes go on when they can, and what is sent arrives.  Nothing is
\* assumed of when the client sends or leaves, or of the kernels.
FairSpec == Spec /\ WF_vars(ClientStep) /\ WF_vars(ServerStep)
-----------------------------------------------------------------------------
TypeOK == /\ cpc \in CStates /\ spc \in SStates
          /\ authenticated \in BOOLEAN
          /\ creq.id \in 0 .. MaxRequests
          /\ \A bytes \in {cbuf, sbuf, c2s, s2c} : \A i \in 1 .. Len(bytes) :
                /\ bytes[i].msg.id \in 0 .. MaxRequests
                /\ bytes[i].msg.len \in 1 .. MaxFrame
                /\ bytes[i].at \in 0 .. bytes[i].msg.len
          /\ urbs \in 0 .. MaxUrbs /\ returned \in 0 .. MaxUrbs

\* A client that goes on after the handshake is talking to a server that has
\* admitted it, that has its key (or none, if it has none), and that speaks its
\* version, whichever of the checks of session.rs:94-126, mount.rs:192-214 and
\* connection.rs:262-337 is the one that says so.
HandshakeAgreement ==
  cpc \in {"ready", "waiting", "accepted", "importing", "kernel"} =>
     authenticated /\ setup.ckey = setup.skey /\ setup.cver = setup.sver

\* The reply that send_and_recv takes is the one to its request: while a client
\* waits nothing else is on its way, and when it does not, nothing is left that
\* a later request would take for its reply (session.rs:138-144).
LockStep ==
  /\ cpc = "ready" => s2c = <<>> /\ cbuf = <<>>
  /\ cpc = "waiting" => \A bytes \in {cbuf, s2c} : \A i \in 1 .. Len(bytes) :
                           bytes[i].msg.id = creq.id

\* However reads cut the stream, each end's buffer begins with a length prefix,
\* and it is never one that the other end's encoder should have refused
\* (codec.rs:22-35, 59-68).
Framed == /\ Awaiting /\ cbuf # <<>> => Head(cbuf).at = 0 /\ ~TooLarge(cbuf)
          /\ spc = "serve" /\ sbuf # <<>> => Head(sbuf).at = 0 /\ ~TooLarge(sbuf)

\* into_inner throws the read buffer away: when an end leaves the framing for
\* USB/IP, nothing but the last frame is in it (connection.rs:137, mount.rs:55).
NothingLostAtHandOff ==
  [][ /\ spc = "serve" /\ spc' = "import" => AfterFrame(sbuf) = <<>>
      /\ cpc = "waiting" /\ cpc' = "accepted" => AfterFrame(cbuf) = <<>> ]_vars

\* From the hand-over on, each kernel finds on its socket what the other kernel
\* wrote and no byte of the exchange before it, and every URB is on its way or
\* given back, none read by user space or dropped, also when URBs arrive before
\* the server's hand-over (bridge.rs:86-140, mount.rs:60-84).
KernelsInStep ==
  /\ cpc = "kernel" => \A i \in 1 .. Len(s2c) : s2c[i].msg.type = "RET"
  /\ cpc = "kernel" => urbs = returned + Len(c2s) + Len(s2c)
  /\ spc = "kernel" => \A i \in 1 .. Len(c2s) : c2s[i].msg.type = "SUBMIT"

\* No client of this repository is told BridgeAccepted by a server that then
\* finds its stream to be TLS (connection.rs:147-153).
NoBridgeOverTls == cpc \in {"accepted", "importing", "kernel"} => ~setup.stls

\* A connection breaks under a client only if the server died, TLS is on one
\* side alone, the transfer asked for leaves no room for the reply's envelope
\* in a frame (transfer.rs:10, codec.rs:10), or the bridge failed after it was
\* accepted: every other request is answered.
BreaksExplained ==
  cpc = "broken" => \/ spc = "dead"
                    \/ setup.ctls # setup.stls
                    \/ creq.want + 1 > MaxFrame
                    \/ creq.type = "Bridge" /\ spc = "closed"

\* Whoever waits comes to an end of it: a reply, an end of the stream, or the
\* kernel (no wait of session.rs or mount.rs has a timeout of its own).
Settles == cpc \in {"hello", "waiting", "accepted", "importing"}
              ~> cpc \in {"ready", "kernel"} \/ ClientOver
=============================================================================
