----------------------------- MODULE WireProofs -----------------------------
(***************************************************************************)
(* The safety properties of Wire, for every frame size, transfer limit,    *)
(* number of requests and cut of the byte streams.                         *)
(***************************************************************************)
EXTENDS Wire, SequenceTheorems, TLAPS

\* The bytes from one end to the other, read or not.
ToServer == sbuf \o c2s
ToClient == cbuf \o s2c

Quiet == ToServer = <<>> /\ ToClient = <<>>
Asked(m) == ToServer = Frame(m) /\ ToClient = <<>>
Answered(r) == ToServer = <<>> /\ ToClient = Frame(r)

MsgTypes == {"none", "Hello", "HelloResponse", "ListDevices", "DeviceList", "Transfer",
             "TransferResult", "Bridge", "BridgeAccepted", "BridgeRejected", "Error",
             "OP_REQ_IMPORT", "OP_REP_IMPORT", "SUBMIT", "RET"}
Macs == {<<>>} \cup (Keys \X {"client", "server"})
Message == [type : MsgTypes, id : 0 .. MaxRequests, len : 1 .. MaxFrame, want : Nat,
            ver : Nat, mac : Macs, ok : BOOLEAN]
Piece == {p \in [msg : Message, at : Nat] : p.at <= p.msg.len}

SetupOK == /\ setup \in [kind : {"cli", "mount"}, ckey : Keys \cup {NoKey},
                         skey : Keys \cup {NoKey}, cver : Versions, sver : Versions,
                         ctls : BOOLEAN, stls : BOOLEAN]
           /\ setup.kind = "mount" => ~setup.ctls

\* What a client may have asked.
Asks == UNION {Requests(id) : id \in 1 .. MaxRequests}

Types == /\ SetupOK
         /\ cpc \in CStates /\ spc \in SStates
         /\ authenticated \in BOOLEAN
         /\ creq \in Asks \cup {Blank}
         /\ cbuf \in Seq(Piece) /\ sbuf \in Seq(Piece)
         /\ c2s \in Seq(Piece) /\ s2c \in Seq(Piece)
         /\ urbs \in 0 .. MaxUrbs /\ returned \in Nat

\* What a server can count on, whatever became of the client.
Sent == {Hello} \cup {m \in Asks : Encodes(m)}

ServerPhase ==
  /\ spc = "accepting" => sbuf = <<>> /\ ToServer \in {<<>>, Frame(Hello)}
  /\ spc = "serve" => TlsAgrees /\ (ToServer = <<>> \/ \E m \in Sent : ToServer = Frame(m))
  /\ spc \in {"import", "handoff", "kernel"} => sbuf = <<>>
  /\ spc = "import" => c2s \in {<<>>, OpReq}
  /\ spc \in {"handoff", "kernel"} => c2s = <<>> \/ cpc = "kernel"

Agreed == authenticated /\ setup.ckey = setup.skey /\ setup.cver = setup.sver
Bridged == creq.type = "Bridge" /\ ~setup.stls

\* One request, its one reply, or neither when the reply was too long to send.
Exchange ==
  \/ Asked(creq) /\ spc \in {"serve", "dead"}
  \/ \E r \in handle_message(creq) :
        /\ Answered(r) /\ Encodes(r)
        /\ IF r.type = "BridgeAccepted" THEN ~setup.stls /\ spc \in {"import", "closed", "dead"}
                                        ELSE spc \in {"serve", "dead"}
  \/ Quiet /\ spc = "closed" /\ creq.want + 1 > MaxFrame

HelloExchange ==
  \/ /\ Asked(Hello) /\ ~authenticated
     /\ spc \in {"accepting", "serve", "dead"} \/ (spc = "closed" /\ ~TlsAgrees)
  \/ Answered(handle_hello(Hello)) /\ authenticated = Proven(Hello) /\ spc \in {"serve", "dead"}

ImportExchange ==
  /\ cbuf = <<>> /\ sbuf = <<>>
  /\ \/ c2s = OpReq /\ s2c = <<>> /\ spc \in {"import", "closed", "dead"}
     \/ c2s = <<>> /\ s2c = OpRep /\ spc \in {"handoff", "kernel", "closed", "dead"}

KernelPhase ==
  /\ cbuf = <<>> /\ sbuf = <<>> /\ spc \in {"handoff", "kernel", "closed", "dead"}
  /\ \A i \in 1 .. Len(c2s) : c2s[i].msg.type = "SUBMIT"
  /\ \A i \in 1 .. Len(s2c) : s2c[i].msg.type = "RET"
  /\ urbs = returned + Len(c2s) + Len(s2c)

ClientPhase ==
  /\ cpc = "connecting" => Quiet /\ ~authenticated /\ spc \in {"accepting", "dead"}
  /\ cpc = "hello" => HelloExchange
  /\ cpc = "ready" => Agreed /\ Quiet /\ spc \in {"serve", "dead"}
  /\ cpc = "waiting" => Agreed /\ creq \in Sent /\ Exchange
  /\ cpc = "accepted" => Agreed /\ Bridged /\ Quiet /\ spc \in {"import", "closed", "dead"}
  /\ cpc = "importing" => Agreed /\ Bridged /\ ImportExchange
  /\ cpc = "kernel" => Agreed /\ Bridged /\ KernelPhase
  /\ cpc # "kernel" => urbs = 0 /\ returned = 0

WireInv == Types /\ ServerPhase /\ ClientPhase /\ BreaksExplained
-----------------------------------------------------------------------------
(***************************************************************************)
(* Bytes in a buffer and on their way: the framing of codec.rs as what     *)
(* holds of the two together, however reads cut them.                      *)
(***************************************************************************)
LEMMA Together ==
  ASSUME NEW T, NEW a \in Seq(T), NEW b \in Seq(T)
  PROVE  /\ a \o b \in Seq(T) /\ Len(a \o b) = Len(a) + Len(b)
         /\ a \o b = <<>> <=> a = <<>> /\ b = <<>>
         /\ a \o <<>> = a /\ <<>> \o b = b
  BY ConcatProperties, ConcatEqualIffEmpty, ConcatEmptySeq, EmptySeq

LEMMA Part ==
  ASSUME NEW T, NEW a \in Seq(T), NEW m \in Nat \ {0}, NEW n \in 0 .. Len(a)
  PROVE  SubSeq(a, m, n) \in Seq(T)
<1>1. /\ Len(a) \in Nat /\ m \in Int /\ n \in Int
      /\ \A i \in m .. n : a[i] \in T
  BY LenProperties, ElementOfSeq, SMT
<1> QED BY <1>1, SubSeqProperties

\* A read moves bytes from the one to the other.
LEMMA ReadKeeps ==
  ASSUME NEW T, NEW buf \in Seq(T), NEW str \in Seq(T), NEW k \in 1 .. Len(str)
  PROVE  /\ buf \o SubSeq(str, 1, k) \in Seq(T)
         /\ SubSeq(str, k + 1, Len(str)) \in Seq(T)
         /\ (buf \o SubSeq(str, 1, k)) \o SubSeq(str, k + 1, Len(str)) = buf \o str
<1> DEFINE a == SubSeq(str, 1, k)
           b == SubSeq(str, k + 1, Len(str))
<1>1. Len(str) \in Nat BY LenProperties
<1>2. a \in Seq(T) /\ b \in Seq(T)
  BY <1>1, Part, SMT
<1>3. a \o b = str
  <2>1. /\ 1 \in 1 .. Len(str) + 1 /\ k \in 0 .. Len(str) /\ Len(str) \in k .. Len(str)
        /\ 1 - 1 = 0
    BY <1>1, SMT
  <2>2. a \o b = SubSeq(str, 1, Len(str)) BY <2>1, ConcatAdjacentSubSeq
  <2> QED BY <2>2, SubSeqFull
<1> HIDE DEF a, b
<1>4. (buf \o a) \o b = buf \o (a \o b) BY <1>2, ConcatAssociative
<1> QED BY <1>2, <1>3, <1>4, Together DEF a, b

LEMMA FrameFacts ==
  ASSUME NEW m \in Message
  PROVE  /\ Frame(m) \in Seq(Piece) /\ Len(Frame(m)) = m.len + 1 /\ Frame(m) # <<>>
         /\ \A i \in 1 .. m.len + 1 : Frame(m)[i] = [msg |-> m, at |-> i - 1]
<1>1. m.len \in 1 .. MaxFrame /\ m.len \in Nat
  BY WireAssumption, SMT DEF Message
<1>2. \A i \in 1 .. m.len + 1 : [msg |-> m, at |-> i - 1] \in Piece
  BY <1>1, SMT DEF Piece
<1>3. Frame(m) \in [1 .. m.len + 1 -> Piece]
  BY <1>2, Zenon DEF Frame
<1>4. m.len + 1 \in Nat BY <1>1
<1>5. Frame(m) \in Seq(Piece) BY <1>3, <1>4, SeqDef
<1>6. Len(Frame(m)) = m.len + 1
  BY <1>3, <1>4, <1>5, LenProperties, SMT
<1>7. Frame(m) # <<>> BY <1>1, <1>5, <1>6, EmptySeq, SMT
<1>8. \A i \in 1 .. m.len + 1 : Frame(m)[i] = [msg |-> m, at |-> i - 1]
  BY DEF Frame
<1> QED BY <1>5, <1>6, <1>7, <1>8

LEMMA PieceMsg == \A m, n : [msg |-> m, at |-> n].msg = m
  OBVIOUS

\* When all that an end has received or will is one frame, its buffer begins
\* with the frame's prefix, and is whole only when it is the frame and nothing
\* is left behind.
LEMMA FrameOnly ==
  ASSUME NEW m \in Message, NEW buf \in Seq(Piece), NEW str \in Seq(Piece),
         buf \o str = Frame(m)
  PROVE  /\ buf # <<>> => Head(buf) = [msg |-> m, at |-> 0]
         /\ ~TooLarge(buf)
         /\ Complete(buf) => Decoded(buf) = m /\ AfterFrame(buf) = <<>> /\ str = <<>>
         /\ str = <<>> => ~Needs(buf)
         /\ \A i \in 1 .. Len(buf) : buf[i].msg = m
         /\ \A i \in 1 .. Len(str) : str[i].msg = m
<1>1. /\ m.len \in Nat /\ m.len <= MaxFrame /\ MaxFrame \in Nat
      /\ Len(buf) \in Nat /\ Len(str) \in Nat
  BY WireAssumption, LenProperties, SMT DEF Message
<1>2. /\ Len(buf) + Len(str) = m.len + 1
      /\ \A i \in 1 .. m.len + 1 : Frame(m)[i] = [msg |-> m, at |-> i - 1]
      /\ \A i \in 1 .. Len(buf) + Len(str) :
            Frame(m)[i] = IF i <= Len(buf) THEN buf[i] ELSE str[i - Len(buf)]
  <2>1. /\ Len(buf \o str) = Len(buf) + Len(str)
        /\ \A i \in 1 .. Len(buf) + Len(str) :
              (buf \o str)[i] = IF i <= Len(buf) THEN buf[i] ELSE str[i - Len(buf)]
    BY ConcatProperties
  <2>2. /\ Len(Frame(m)) = m.len + 1
        /\ \A i \in 1 .. m.len + 1 : Frame(m)[i] = [msg |-> m, at |-> i - 1]
    BY FrameFacts
  <2>3. buf \o str = Frame(m) OBVIOUS
  <2>4. Len(buf) + Len(str) = m.len + 1 BY <2>1, <2>2, <2>3
  <2>5. \A i \in 1 .. Len(buf) + Len(str) :
          Frame(m)[i] = IF i <= Len(buf) THEN buf[i] ELSE str[i - Len(buf)]
    BY <2>1, <2>3, Zenon
  <2> QED BY <2>2, <2>4, <2>5
<1>3. \A i \in 1 .. Len(buf) : buf[i] = [msg |-> m, at |-> i - 1]
  BY <1>1, <1>2, SMT
<1>4. ASSUME NEW i \in 1 .. Len(str) PROVE str[i].msg = m
  <2>1. Len(buf) + i \in 1 .. m.len + 1 /\ ~(Len(buf) + i <= Len(buf))
        /\ Len(buf) + i - Len(buf) = i
    BY <1>1, <1>2, SMT
  <2>2. str[i] = Frame(m)[Len(buf) + i] BY <1>2, <2>1
  <2>3. Frame(m)[Len(buf) + i] = [msg |-> m, at |-> Len(buf) + i - 1]
    BY <1>2, <2>1
  <2> QED BY <2>2, <2>3, PieceMsg
<1>5. buf # <<>> => Head(buf) = [msg |-> m, at |-> 0]
  <2> SUFFICES ASSUME buf # <<>> PROVE Head(buf) = [msg |-> m, at |-> 0]
    OBVIOUS
  <2>1. Len(buf) \in Nat \ {0} BY EmptySeq
  <2>2. Head(buf) = buf[1] OBVIOUS
  <2>3. buf[1] = [msg |-> m, at |-> 1 - 1] BY <1>3, <2>1, SMT
  <2> QED BY <2>2, <2>3
<1>6. ~TooLarge(buf) BY <1>1, <1>5, SMT DEF TooLarge
<1>7. ASSUME Complete(buf) PROVE Decoded(buf) = m /\ AfterFrame(buf) = <<>> /\ str = <<>>
  <2>1. Head(buf).msg = m /\ Len(buf) > m.len BY <1>5, <1>7 DEF Complete
  <2>2. Len(buf) = m.len + 1 /\ Len(str) = 0 BY <1>1, <1>2, <2>1, SMT
  <2>3. str = <<>> BY <2>2, EmptySeq, SMT
  <2>4. AfterFrame(buf) = <<>>
    <3>1. m.len + 2 \in Int /\ m.len + 1 \in Int /\ m.len + 1 < m.len + 2 BY <1>1, SMT
    <3>2. SubSeq(buf, m.len + 2, m.len + 1) = <<>> BY <3>1, SubSeqEmpty
    <3> QED BY <2>1, <2>2, <3>2 DEF AfterFrame
  <2> QED BY <2>1, <2>3, <2>4 DEF Decoded
<1>8. ASSUME str = <<>> PROVE ~Needs(buf)
  <2>1. Len(buf) = m.len + 1 BY <1>1, <1>2, <1>8, EmptySeq, SMT
  <2>2. buf # <<>> BY <1>1, <2>1, EmptySeq, SMT
  <2>3. Complete(buf) BY <1>1, <1>5, <2>1, <2>2, SMT DEF Complete
  <2> QED BY <2>3 DEF Needs
<1>9. ASSUME NEW i \in 1 .. Len(buf) PROVE buf[i].msg = m
  <2>1. buf[i] = [msg |-> m, at |-> i - 1] BY <1>3
  <2> QED BY <2>1, PieceMsg
<1> QED BY <1>4, <1>5, <1>6, <1>7, <1>8, <1>9, Zenon

-----------------------------------------------------------------------------
(***************************************************************************)
(* What is sent.                                                           *)
(***************************************************************************)
\* A message of any length; those that the encoder lets through are Messages.
AnyMessage == [type : MsgTypes, id : 0 .. MaxRequests, len : Nat \ {0}, want : Nat,
               ver : Nat, mac : Macs, ok : BOOLEAN]

LEMMA Encodable == \A m \in AnyMessage : Encodes(m) => m \in Message
  BY WireAssumption, SMT DEF AnyMessage, Message, Encodes

LEMMA MsgFacts ==
  ASSUME NEW type \in MsgTypes, NEW id \in 0 .. MaxRequests, NEW len \in Nat \ {0}
  PROVE  LET m == Msg(type, id, len)
         IN /\ m \in AnyMessage
            /\ m.type = type /\ m.id = id /\ m.len = len /\ m.want = 0 /\ m.ok
<1>1. Msg(type, id, len) \in AnyMessage
  <2>1. 0 \in 0 .. MaxRequests BY WireAssumption, SMT
  <2> QED BY <2>1 DEF Msg, Blank, AnyMessage, Macs
<1>2. LET m == Msg(type, id, len)
      IN m.type = type /\ m.id = id /\ m.len = len /\ m.want = 0 /\ m.ok
  BY DEF Msg, Blank
<1> QED BY <1>1, <1>2

LEMMA MacFacts ==
  ASSUME NEW key \in Keys \cup {NoKey}, NEW role \in {"client", "server"}
  PROVE  /\ Mac(key, role) \in Macs
         /\ \A k \in Keys \cup {NoKey} : Mac(k, role) = Mac(key, role) => k = key
<1>1. Mac(key, role) \in Macs BY DEF Mac, Macs
<1>2. ASSUME NEW k \in Keys \cup {NoKey}, Mac(k, role) = Mac(key, role) PROVE k = key
  BY <1>2 DEF Mac
<1> QED BY <1>1, <1>2

LEMMA ZeroRequest == 0 \in 0 .. MaxRequests /\ 1 \in Nat \ {0} /\ 1 <= MaxFrame
  BY WireAssumption, SMT

LEMMA HelloFacts ==
  ASSUME SetupOK
  PROVE  /\ Hello \in Message /\ Hello.type = "Hello"
         /\ Hello.ver = setup.cver /\ Hello.mac = Mac(setup.ckey, "client")
<1>1. setup.cver \in Nat /\ Mac(setup.ckey, "client") \in Macs
  BY WireAssumption, MacFacts DEF SetupOK
<1>2. /\ Msg("Hello", 0, 1) \in AnyMessage
      /\ Msg("Hello", 0, 1).type = "Hello" /\ Msg("Hello", 0, 1).len = 1
  BY ZeroRequest, MsgFacts DEF MsgTypes
<1>3. Hello \in AnyMessage BY <1>1, <1>2 DEF Hello, AnyMessage
<1>4. /\ Hello.type = "Hello" /\ Hello.len = 1
      /\ Hello.ver = setup.cver /\ Hello.mac = Mac(setup.ckey, "client")
  BY <1>1, <1>2 DEF Hello, AnyMessage
<1> QED BY <1>3, <1>4, ZeroRequest, Encodable DEF Encodes

LEMMA HelloResponseFacts ==
  ASSUME SetupOK
  PROVE  LET r == handle_hello(Hello)
         IN /\ r \in Message /\ r.type = "HelloResponse" /\ r.ver = setup.sver
            /\ r.ok = Proven(Hello) /\ Encodes(r)
            /\ r.mac = IF Proven(Hello) THEN Mac(setup.skey, "server") ELSE <<>>
<1> DEFINE mac == IF Proven(Hello) THEN Mac(setup.skey, "server") ELSE <<>>
           m == Msg("HelloResponse", 0, 1)
           r == handle_hello(Hello)
<1>1. setup.sver \in Nat /\ mac \in Macs /\ Proven(Hello) \in BOOLEAN
  BY WireAssumption, MacFacts DEF SetupOK, Macs, Proven
<1>2. m \in AnyMessage /\ m.type = "HelloResponse" /\ m.len = 1
  BY ZeroRequest, MsgFacts DEF MsgTypes
<1>3. r = [m EXCEPT !.ver = setup.sver, !.ok = Proven(Hello), !.mac = mac]
  BY DEF handle_hello
<1> HIDE DEF mac, m, r
<1>4. r \in AnyMessage BY <1>1, <1>2, <1>3 DEF AnyMessage
<1>5. /\ r.type = "HelloResponse" /\ r.len = 1 /\ r.ver = setup.sver
      /\ r.ok = Proven(Hello) /\ r.mac = mac
  BY <1>1, <1>2, <1>3 DEF AnyMessage
<1>6. Encodes(r) BY <1>5, ZeroRequest DEF Encodes
<1> QED BY <1>4, <1>5, <1>6, Encodable DEF mac, r

\* A server that proved itself, or was not asked to, has the client's key and
\* version: whichever side has a key refuses a peer that has none, or another.
LEMMA HelloAgrees ==
  ASSUME SetupOK, Trusted(handle_hello(Hello))
  PROVE  Proven(Hello) /\ setup.ckey = setup.skey /\ setup.cver = setup.sver
<1>1. Proven(Hello) BY HelloResponseFacts DEF Trusted
<1>2. setup.cver = setup.sver BY <1>1, HelloFacts DEF Proven
<1>3. setup.ckey \in Keys \cup {NoKey} /\ setup.skey \in Keys \cup {NoKey}
  BY DEF SetupOK
<1>4. CASE setup.ckey # NoKey
  <2>1. Mac(setup.skey, "server") = Mac(setup.ckey, "server")
    BY <1>1, <1>4, HelloResponseFacts DEF Trusted
  <2> QED BY <1>1, <1>2, <1>3, <2>1, MacFacts
<1>5. CASE setup.ckey = NoKey
  <2>1. setup.skey = NoKey \/ Mac(setup.ckey, "client") = Mac(setup.skey, "client")
    BY <1>1, HelloFacts DEF Proven
  <2> QED BY <1>1, <1>2, <1>3, <1>5, <2>1, MacFacts
<1> QED BY <1>4, <1>5

LEMMA AskFacts ==
  ASSUME NEW id \in 1 .. MaxRequests, NEW m \in Requests(id)
  PROVE  /\ m \in AnyMessage /\ m.id = id
         /\ m.type \in {"ListDevices", "Transfer", "Bridge"}
         /\ m.type = "Bridge" <=> setup.kind = "mount"
<1>1. id \in 0 .. MaxRequests /\ id \in Nat
  BY WireAssumption, SMT
<1>2. CASE \/ setup.kind = "mount" /\ m = Msg("Bridge", id, 1)
           \/ setup.kind # "mount" /\ m = Msg("ListDevices", id, 1)
  BY <1>1, <1>2, ZeroRequest, MsgFacts DEF Requests, MsgTypes
<1>3. CASE setup.kind # "mount" /\ \E n \in 0 .. MaxTransfer + 1 :
                 m = [Msg("Transfer", id, 1) EXCEPT !.want = n]
  <2>1. PICK n \in Nat : m = [Msg("Transfer", id, 1) EXCEPT !.want = n]
    BY <1>3, WireAssumption, SMT
  <2>2. /\ Msg("Transfer", id, 1) \in AnyMessage
        /\ Msg("Transfer", id, 1).type = "Transfer" /\ Msg("Transfer", id, 1).id = id
    BY <1>1, ZeroRequest, MsgFacts DEF MsgTypes
  <2>3. m \in AnyMessage BY <2>1, <2>2 DEF AnyMessage
  <2>4. m.type = "Transfer" /\ m.id = id BY <2>1, <2>2 DEF AnyMessage
  <2> QED BY <1>3, <2>3, <2>4
<1>4. CASE setup.kind # "mount" /\ \E n \in 1 .. MaxFrame : m = Msg("Transfer", id, 1 + n)
  BY <1>1, <1>4, WireAssumption, MsgFacts, SMT DEF MsgTypes
<1> QED BY <1>2, <1>3, <1>4 DEF Requests

LEMMA SentFacts ==
  ASSUME SetupOK
  PROVE  /\ \A m \in Sent : m \in Message
         /\ Asks \subseteq AnyMessage
         /\ \A m \in Asks : /\ m.type \in {"ListDevices", "Transfer", "Bridge"}
                            /\ m.type = "Bridge" <=> setup.kind = "mount"
<1>1. ASSUME NEW m \in Asks
      PROVE  /\ m \in AnyMessage
             /\ m.type \in {"ListDevices", "Transfer", "Bridge"}
             /\ m.type = "Bridge" <=> setup.kind = "mount"
  BY AskFacts DEF Asks
<1>2. ASSUME NEW m \in Sent PROVE m \in Message
  BY <1>1, HelloFacts, Encodable DEF Sent
<1> QED BY <1>1, <1>2

LEMMA TransferReply ==
  ASSUME NEW m \in AnyMessage, NEW r \in TransferResults(m)
  PROVE  /\ r \in AnyMessage /\ r.id = m.id /\ r.type = "TransferResult"
         /\ ~Encodes(r) => m.want + 1 > MaxFrame
<1>1. m.id \in 0 .. MaxRequests /\ m.want \in Nat /\ MaxFrame \in Nat /\ 1 <= MaxFrame
  BY WireAssumption, SMT DEF AnyMessage
<1>2. PICK n \in 0 .. m.want : r = Msg("TransferResult", m.id, 1 + n)
  BY <1>1, SMT DEF TransferResults
<1>3. 1 + n \in Nat \ {0} /\ n <= m.want BY <1>1, SMT
<1>4. r \in AnyMessage /\ r.id = m.id /\ r.type = "TransferResult" /\ r.len = 1 + n
  BY <1>1, <1>2, <1>3, MsgFacts DEF MsgTypes
<1> QED BY <1>1, <1>3, <1>4, SMT DEF Encodes

\* The reply to a request has its number; only a transfer's may be too long.
LEMMA ReplyFacts ==
  ASSUME SetupOK, NEW m \in Asks, NEW r \in handle_message(m)
  PROVE  /\ r \in AnyMessage /\ r.id = m.id /\ r.type # "HelloResponse"
         /\ ~Encodes(r) => m.want + 1 > MaxFrame
         /\ r.type = "BridgeAccepted" => m.type = "Bridge" /\ Encodes(r)
         /\ authenticated =>
              /\ m.type = "ListDevices" => r.type \in {"DeviceList", "Error"}
              /\ m.type = "Transfer" => r.type \in {"TransferResult", "Error"}
              /\ m.type = "Bridge" => r.type \in {"BridgeAccepted", "BridgeRejected"}
<1>1. /\ m \in AnyMessage /\ m.id \in 0 .. MaxRequests
      /\ m.type \in {"ListDevices", "Transfer", "Bridge"}
  BY SentFacts DEF AnyMessage
<1>2. ASSUME NEW t \in MsgTypes, r = Msg(t, m.id, 1)
      PROVE  r \in AnyMessage /\ r.id = m.id /\ r.type = t /\ Encodes(r)
  BY <1>1, <1>2, ZeroRequest, MsgFacts DEF Encodes
<1>3. CASE setup.skey # NoKey /\ ~authenticated
  <2>1. r = Msg("Error", m.id, 1) BY <1>1, <1>3 DEF handle_message
  <2> QED BY <1>2, <1>3, <2>1 DEF MsgTypes
<1>4. CASE ~(setup.skey # NoKey /\ ~authenticated)
  <2>1. CASE m.type = "ListDevices"
    <3>1. r = Msg("DeviceList", m.id, 1) \/ r = Msg("Error", m.id, 1)
      BY <1>4, <2>1 DEF handle_message
    <3> QED BY <1>2, <2>1, <3>1 DEF MsgTypes
  <2>2. CASE m.type = "Transfer"
    <3>1. r \in TransferResults(m) BY <1>4, <2>2 DEF handle_message
    <3> QED BY <1>1, <2>2, <3>1, TransferReply
  <2>3. CASE m.type = "Bridge"
    <3>1. r = Msg("BridgeAccepted", m.id, 1) \/ r = Msg("BridgeRejected", m.id, 1)
      BY <1>4, <2>3 DEF handle_message
    <3> QED BY <1>2, <2>3, <3>1 DEF MsgTypes
  <2> QED BY <1>1, <2>1, <2>2, <2>3
<1> QED BY <1>3, <1>4

\* The raw bytes of USB/IP.
LEMMA RawFacts ==
  /\ OpReq \in Seq(Piece) /\ Len(OpReq) = 1
  /\ OpRep \in Seq(Piece) /\ Len(OpRep) = 2
  /\ \A i \in 1 .. 1 : OpReq[i].msg.type = "OP_REQ_IMPORT"
  /\ \A i \in 1 .. 2 : OpRep[i].msg.type = "OP_REP_IMPORT"
  /\ \A t \in {"SUBMIT", "RET"} : /\ Raw(t, 1) \in Seq(Piece) /\ Len(Raw(t, 1)) = 1
                                  /\ Raw(t, 1)[1].msg.type = t
<1>1. ASSUME NEW t \in MsgTypes, NEW n \in {1, 2}
      PROVE  /\ Raw(t, n) \in Seq(Piece) /\ Len(Raw(t, n)) = n
             /\ \A i \in 1 .. n : Raw(t, n)[i].msg.type = t
  <2>0. n \in Nat /\ n \in Nat \ {0} BY SMT
  <2>1. PICK m \in Message : m = Msg(t, 0, n) /\ m.type = t /\ m.len = n
    <3>1. LET m == Msg(t, 0, n) IN m \in AnyMessage /\ m.type = t /\ m.len = n
      BY <2>0, ZeroRequest, MsgFacts
    <3>2. n <= MaxFrame BY WireAssumption, SMT
    <3> QED BY <3>1, <3>2, Encodable DEF Encodes
  <2>2. \A i \in 1 .. n : [msg |-> m, at |-> i] \in Piece
    BY <2>0, <2>1, SMT DEF Piece
  <2>3. Raw(t, n) = [i \in 1 .. n |-> [msg |-> m, at |-> i]] BY <2>1 DEF Raw
  <2>4. Raw(t, n) \in [1 .. n -> Piece] BY <2>2, <2>3, Zenon
  <2>5. Raw(t, n) \in Seq(Piece) BY <2>0, <2>4, SeqDef
  <2>6. Len(Raw(t, n)) = n BY <2>0, <2>4, <2>5, LenProperties, SMT
  <2>7. \A i \in 1 .. n : Raw(t, n)[i] = [msg |-> m, at |-> i] BY <2>3
  <2>8. ASSUME NEW i \in 1 .. n PROVE Raw(t, n)[i].msg = m
    <3>1. Raw(t, n)[i] = [msg |-> m, at |-> i] BY <2>7
    <3> QED BY <3>1
  <2> QED BY <2>1, <2>5, <2>6, <2>8
<1> QED BY <1>1, SMT DEF OpReq, OpRep, MsgTypes

-----------------------------------------------------------------------------
(***************************************************************************)
(* The invariant, action by action.                                        *)
(***************************************************************************)
LEMMA SetupSame ==
  ASSUME setup' = setup
  PROVE  /\ Hello' = Hello /\ Asks' = Asks /\ Sent' = Sent /\ TlsAgrees' = TlsAgrees
         /\ SetupOK' <=> SetupOK
         /\ handle_hello(Hello)' = handle_hello(Hello) /\ Proven(Hello)' = Proven(Hello)
<1>1. Hello' = Hello BY DEF Hello
<1>2. Asks' = Asks BY DEF Asks, Requests
<1>3. Sent' = Sent BY <1>1, <1>2 DEF Sent
<1>4. TlsAgrees' = TlsAgrees /\ (SetupOK' <=> SetupOK) BY DEF TlsAgrees, SetupOK
<1>5. Proven(Hello)' = Proven(Hello) BY <1>1 DEF Proven
<1>6. handle_hello(Hello)' = handle_hello(Hello) BY <1>5 DEF handle_hello
<1> QED BY <1>1, <1>2, <1>3, <1>4, <1>5, <1>6

LEMMA EmptyStreams ==
  Types => /\ ToServer = <<>> <=> sbuf = <<>> /\ c2s = <<>>
           /\ ToClient = <<>> <=> cbuf = <<>> /\ s2c = <<>>
           /\ sbuf = <<>> => ToServer = c2s
           /\ cbuf = <<>> => ToClient = s2c
<1> SUFFICES ASSUME Types
             PROVE  /\ ToServer = <<>> <=> sbuf = <<>> /\ c2s = <<>>
                    /\ ToClient = <<>> <=> cbuf = <<>> /\ s2c = <<>>
                    /\ sbuf = <<>> => ToServer = c2s
                    /\ cbuf = <<>> => ToClient = s2c
  OBVIOUS
<1>1. /\ cbuf \in Seq(Piece) /\ sbuf \in Seq(Piece)
      /\ c2s \in Seq(Piece) /\ s2c \in Seq(Piece)
  BY DEF Types
<1> QED BY <1>1, Together DEF ToServer, ToClient

LEMMA EmptyStreamsNext ==
  Types' => /\ ToServer' = <<>> <=> sbuf' = <<>> /\ c2s' = <<>>
            /\ ToClient' = <<>> <=> cbuf' = <<>> /\ s2c' = <<>>
            /\ sbuf' = <<>> => ToServer' = c2s'
            /\ cbuf' = <<>> => ToClient' = s2c'
<1> SUFFICES ASSUME Types'
             PROVE  /\ ToServer' = <<>> <=> sbuf' = <<>> /\ c2s' = <<>>
                    /\ ToClient' = <<>> <=> cbuf' = <<>> /\ s2c' = <<>>
                    /\ sbuf' = <<>> => ToServer' = c2s'
                    /\ cbuf' = <<>> => ToClient' = s2c'
  OBVIOUS
<1>1. /\ cbuf' \in Seq(Piece) /\ sbuf' \in Seq(Piece)
      /\ c2s' \in Seq(Piece) /\ s2c' \in Seq(Piece)
  BY DEF Types
<1> QED BY <1>1, Together DEF ToServer, ToClient

\* FrameOnly for the two ends.
LEMMA ClientFrame ==
  ASSUME Types, NEW m \in Message, ToClient = Frame(m)
  PROVE  /\ cbuf # <<>> => Head(cbuf) = [msg |-> m, at |-> 0]
         /\ ~TooLarge(cbuf)
         /\ Complete(cbuf) => Decoded(cbuf) = m /\ AfterFrame(cbuf) = <<>> /\ s2c = <<>>
         /\ s2c = <<>> => ~Needs(cbuf)
         /\ \A i \in 1 .. Len(cbuf) : cbuf[i].msg = m
         /\ \A i \in 1 .. Len(s2c) : s2c[i].msg = m
<1>1. cbuf \in Seq(Piece) /\ s2c \in Seq(Piece) /\ cbuf \o s2c = Frame(m)
  BY DEF Types, ToClient
<1> QED BY <1>1, FrameOnly

LEMMA ServerFrame ==
  ASSUME Types, NEW m \in Message, ToServer = Frame(m)
  PROVE  /\ sbuf # <<>> => Head(sbuf) = [msg |-> m, at |-> 0]
         /\ ~TooLarge(sbuf)
         /\ Complete(sbuf) => Decoded(sbuf) = m /\ AfterFrame(sbuf) = <<>> /\ c2s = <<>>
         /\ c2s = <<>> => ~Needs(sbuf)
<1>1. sbuf \in Seq(Piece) /\ c2s \in Seq(Piece) /\ sbuf \o c2s = Frame(m)
  BY DEF Types, ToServer
<1> QED BY <1>1, FrameOnly

LEMMA EmptyBuffer == ~Complete(<<>>) /\ ~TooLarge(<<>>)
  BY DEF Complete, TooLarge

\* A connection that has broken had its reason, and keeps it.
LEMMA ReasonKept ==
  ASSUME BreaksExplained, setup' = setup, creq' = creq,
         cpc' = "broken" => cpc = "broken",
         ServerOver => spc' = spc
  PROVE  BreaksExplained'
  BY DEF BreaksExplained, ServerOver

LEMMA ConnectKeeps == ASSUME WireInv, connect PROVE WireInv'
<1>0. /\ Types /\ SetupOK /\ setup' = setup /\ cpc = "connecting"
      /\ Quiet /\ ~authenticated /\ spc \in {"accepting", "dead"}
      /\ urbs = 0 /\ returned = 0
      /\ UNCHANGED <<spc, creq, authenticated, cbuf, sbuf, s2c, urbs, returned>>
      /\ sbuf = <<>> /\ c2s = <<>> /\ cbuf = <<>> /\ s2c = <<>>
  BY EmptyStreams DEF WireInv, connect, ClientPhase, Types, Quiet, client, server, kernels
<1>1. /\ Hello \in Message /\ Frame(Hello) \in Seq(Piece)
      /\ cpc' \in {"hello", "broken"}
      /\ cpc' = "hello" => c2s' = Frame(Hello)
      /\ cpc' = "broken" => c2s' = c2s /\ ~TlsAgrees
  BY <1>0, HelloFacts, FrameFacts DEF connect, TlsAgrees, SetupOK
<1>2. Types'
  BY <1>0, <1>1, SetupSame DEF Types, CStates
<1>3. ToServer' = c2s' /\ ToClient' = <<>>
  BY <1>0, <1>2, EmptyStreamsNext
<1>4. ServerPhase'
  BY <1>0, <1>1, <1>3, SetupSame DEF ServerPhase
<1>5. ClientPhase'
  BY <1>0, <1>1, <1>3, SetupSame DEF ClientPhase, HelloExchange, Asked
<1>6. BreaksExplained' BY <1>0, <1>1 DEF BreaksExplained, TlsAgrees
<1> QED BY <1>2, <1>4, <1>5, <1>6 DEF WireInv

LEMMA ClientReadsKeeps == ASSUME WireInv, ClientReads PROVE WireInv'
<1>0. /\ Types /\ setup' = setup /\ cpc \in {"hello", "waiting"}
      /\ UNCHANGED <<cpc, spc, creq, authenticated, sbuf, c2s, urbs, returned>>
  BY DEF WireInv, ClientReads, Awaiting, server, kernels
<1>1. cbuf' \in Seq(Piece) /\ s2c' \in Seq(Piece) /\ ToClient' = ToClient
  <2>1. PICK k \in 1 .. Len(s2c) : /\ cbuf' = cbuf \o SubSeq(s2c, 1, k)
                                   /\ s2c' = SubSeq(s2c, k + 1, Len(s2c))
    BY DEF ClientReads
  <2>2. cbuf \in Seq(Piece) /\ s2c \in Seq(Piece) BY <1>0 DEF Types
  <2> QED BY <2>1, <2>2, ReadKeeps DEF ToClient
<1>2. Types' BY <1>0, <1>1, SetupSame DEF Types
<1>3. ToServer' = ToServer BY <1>0 DEF ToServer
<1>4. ServerPhase'
  BY <1>0, <1>3, SetupSame DEF WireInv, ServerPhase
<1>5. CASE cpc = "hello"
  <2>1. HelloExchange' BY <1>0, <1>1, <1>3, <1>5, SetupSame
        DEF WireInv, ClientPhase, HelloExchange, Asked, Answered
  <2> QED BY <1>0, <1>2, <1>4, <1>5, <2>1, ReasonKept DEF WireInv, ClientPhase
<1>6. CASE cpc = "waiting"
  <2>1. handle_message(creq)' = handle_message(creq)
    BY <1>0 DEF handle_message, handle_hello, Proven
  <2>2. Exchange'
    BY <1>0, <1>1, <1>3, <1>6, <2>1
    DEF WireInv, ClientPhase, Exchange, Asked, Answered, Quiet
  <2>3. Agreed' BY <1>0, <1>6 DEF WireInv, ClientPhase, Agreed
  <2> QED BY <1>0, <1>2, <1>4, <1>6, <2>2, <2>3, SetupSame, ReasonKept DEF WireInv, ClientPhase
<1> QED BY <1>0, <1>5, <1>6

LEMMA FinishHelloKeeps == ASSUME WireInv, FinishHello PROVE WireInv'
<1>0. /\ Types /\ SetupOK /\ setup' = setup /\ cpc = "hello" /\ Complete(cbuf) /\ HelloExchange
      /\ UNCHANGED <<spc, creq, authenticated, sbuf, c2s, s2c, urbs, returned>>
      /\ cbuf' = AfterFrame(cbuf) /\ urbs = 0 /\ returned = 0
  BY DEF WireInv, ClientPhase, Types, FinishHello, ClientHas, TakeFrame, server, kernels
<1>1. /\ Answered(handle_hello(Hello)) /\ authenticated = Proven(Hello)
      /\ spc \in {"serve", "dead"}
  BY <1>0, EmptyStreams, EmptyBuffer DEF HelloExchange, Asked
<1>2. /\ Decoded(cbuf) = handle_hello(Hello) /\ cbuf' = <<>> /\ s2c = <<>>
      /\ handle_hello(Hello).type = "HelloResponse"
  <2>1. /\ handle_hello(Hello) \in Message /\ handle_hello(Hello).type = "HelloResponse"
        /\ ToClient = Frame(handle_hello(Hello))
    BY <1>0, <1>1, HelloResponseFacts DEF Answered
  <2> QED BY <1>0, <2>1, ClientFrame
<1>3. /\ cpc' \in {"refused", "ready"}
      /\ cpc' = "ready" => Trusted(handle_hello(Hello))
  BY <1>2 DEF FinishHello
<1>4. Types' BY <1>0, <1>2, <1>3, SetupSame, EmptySeq DEF Types, CStates
<1>5. Quiet' BY <1>0, <1>1, <1>2, <1>4, EmptyStreamsNext DEF Quiet, Answered, ToServer
<1>6. ServerPhase' BY <1>0, <1>1, <1>5, SetupSame DEF WireInv, ServerPhase, Quiet
<1>7. cpc' = "ready" => Agreed'
  BY <1>0, <1>1, <1>3, HelloAgrees DEF Agreed
<1>8. ClientPhase' BY <1>0, <1>1, <1>3, <1>5, <1>7 DEF ClientPhase
<1>9. BreaksExplained' BY <1>3 DEF BreaksExplained
<1> QED BY <1>4, <1>6, <1>8, <1>9 DEF WireInv

LEMMA SendKeeps == ASSUME WireInv, Send PROVE WireInv'
<1>0. /\ Types /\ SetupOK /\ setup' = setup /\ cpc = "ready"
      /\ Agreed /\ Quiet /\ spc \in {"serve", "dead"} /\ urbs = 0 /\ returned = 0
      /\ UNCHANGED <<spc, authenticated, cbuf, sbuf, s2c, urbs, returned>>
      /\ sbuf = <<>> /\ c2s = <<>> /\ cbuf = <<>> /\ s2c = <<>>
  BY EmptyStreams DEF WireInv, ClientPhase, Types, Quiet, Send, Request, server, kernels
<1>1. PICK m \in Asks : Request(m)
  <2>1. creq.id \in Nat
    BY <1>0, SentFacts, SMT DEF Types, AnyMessage, Blank
  <2>2. creq.id + 1 \in 1 .. MaxRequests
    BY <2>1, WireAssumption, SMT DEF Send
  <2> QED BY <2>2 DEF Send, Asks
<1>2. /\ creq' = m /\ cpc' \in {"waiting", "refused"}
      /\ cpc' = "waiting" => m \in Sent /\ c2s' = c2s \o Frame(m)
      /\ cpc' = "refused" => c2s' = <<>>
  BY <1>0, <1>1 DEF Request, Sent
<1>3. m \in Sent => Frame(m) \in Seq(Piece)
  BY <1>0, SentFacts, FrameFacts
<1>4. cpc' = "waiting" => c2s' = Frame(m)
  BY <1>0, <1>2, <1>3, Together
<1>5. Types'
  BY <1>0, <1>2, <1>3, <1>4, SetupSame DEF Types, CStates
<1>6. ToServer' = c2s' /\ ToClient' = <<>>
  BY <1>0, <1>5, EmptyStreamsNext
<1>7. ServerPhase'
  BY <1>0, <1>2, <1>4, <1>6, SetupSame DEF WireInv, ServerPhase
<1>8. Agreed' BY <1>0 DEF Agreed
<1>9. cpc' = "waiting" => Exchange'
  BY <1>0, <1>2, <1>4, <1>6 DEF Exchange, Asked
<1>10. ClientPhase'
  BY <1>0, <1>2, <1>8, <1>9, SetupSame DEF ClientPhase
<1>11. BreaksExplained' BY <1>2 DEF BreaksExplained
<1> QED BY <1>5, <1>7, <1>10, <1>11 DEF WireInv

\* The client's request, and what answers it.
LEMMA CurrentRequest ==
  ASSUME Types, creq \in Sent
  PROVE  /\ SetupOK /\ creq \in Asks
         /\ creq.type \in {"ListDevices", "Transfer", "Bridge"}
         /\ \A r \in handle_message(creq) : Encodes(r) => r \in Message /\ r.id = creq.id
<1>1. SetupOK /\ creq \in Asks
  BY HelloFacts DEF Types, Sent, Blank
<1> QED BY <1>1, SentFacts, ReplyFacts, Encodable

\* A client that waits takes one whole reply, its own, and nothing is left of
\* what it received.
LEMMA ReplyTakes ==
  ASSUME WireInv, ReceiveReply
  PROVE  /\ Types /\ SetupOK /\ cpc = "waiting" /\ Agreed /\ creq \in Sent
         /\ AfterFrame(cbuf) = <<>> /\ s2c = <<>>
         /\ \E r \in handle_message(creq) :
              /\ Answered(r) /\ Encodes(r) /\ r \in Message /\ Decoded(cbuf) = r
              /\ r.type = "BridgeAccepted" => creq.type = "Bridge"
              /\ r.type \in Expected
              /\ IF r.type = "BridgeAccepted"
                 THEN ~setup.stls /\ spc \in {"import", "closed", "dead"}
                 ELSE spc \in {"serve", "dead"}
<1>0. /\ Types /\ SetupOK /\ cpc = "waiting" /\ Complete(cbuf)
      /\ Agreed /\ creq \in Sent /\ Exchange /\ creq \in Asks \cup {Blank}
  BY DEF WireInv, ClientPhase, Types, ReceiveReply, ClientHas
<1>1. PICK r \in handle_message(creq) :
        /\ Answered(r) /\ Encodes(r)
        /\ IF r.type = "BridgeAccepted" THEN ~setup.stls /\ spc \in {"import", "closed", "dead"}
                                        ELSE spc \in {"serve", "dead"}
  BY <1>0, EmptyStreams, EmptyBuffer DEF Exchange, Asked, Quiet
<1>2. /\ r \in Message
      /\ r.type = "BridgeAccepted" => creq.type = "Bridge"
      /\ r.type \in Expected
  <2>1. /\ creq \in Asks /\ authenticated
        /\ creq.type \in {"ListDevices", "Transfer", "Bridge"}
    BY <1>0, CurrentRequest DEF Agreed
  <2> QED BY <1>0, <1>1, <2>1, ReplyFacts, Encodable DEF Expected
<1>3. Decoded(cbuf) = r /\ AfterFrame(cbuf) = <<>> /\ s2c = <<>>
  BY <1>0, <1>1, <1>2, ClientFrame DEF Answered
<1> QED BY <1>0, <1>1, <1>2, <1>3

LEMMA ReceiveReplyKeeps == ASSUME WireInv, ReceiveReply PROVE WireInv'
<1>0. /\ Types /\ SetupOK /\ setup' = setup /\ cpc = "waiting"
      /\ Agreed /\ creq \in Sent /\ s2c = <<>> /\ AfterFrame(cbuf) = <<>>
      /\ UNCHANGED <<spc, creq, authenticated, sbuf, c2s, s2c, urbs, returned>>
      /\ urbs = 0 /\ returned = 0
  BY ReplyTakes DEF WireInv, ClientPhase, ReceiveReply, server, kernels
<1>1. PICK r \in handle_message(creq) :
        /\ Answered(r) /\ Encodes(r) /\ r \in Message /\ Decoded(cbuf) = r
        /\ r.type = "BridgeAccepted" => creq.type = "Bridge"
        /\ r.type \in Expected
        /\ IF r.type = "BridgeAccepted" THEN ~setup.stls /\ spc \in {"import", "closed", "dead"}
                                        ELSE spc \in {"serve", "dead"}
  BY ReplyTakes
<1>2. /\ cbuf' = <<>> /\ cpc' \in {"accepted", "refused", "ready"}
      /\ cpc' = "accepted" <=> r.type = "BridgeAccepted"
  BY <1>0, <1>1 DEF ReceiveReply
<1>3. Types' BY <1>0, <1>2, SetupSame, EmptySeq DEF Types, CStates
<1>4. Quiet' BY <1>0, <1>1, <1>2, <1>3, EmptyStreamsNext DEF Quiet, Answered, ToServer
<1>5. ServerPhase' BY <1>0, <1>1, <1>4, SetupSame DEF WireInv, ServerPhase, Quiet
<1>6. Agreed' BY <1>0 DEF Agreed
<1>7. r.type = "BridgeAccepted" => Bridged'
  BY <1>0, <1>1 DEF Bridged
<1>8. ClientPhase' BY <1>0, <1>1, <1>2, <1>4, <1>6, <1>7 DEF ClientPhase
<1>9. BreaksExplained' BY <1>2 DEF BreaksExplained
<1> QED BY <1>3, <1>5, <1>8, <1>9 DEF WireInv

LEMMA SendImportKeeps == ASSUME WireInv, SendImport PROVE WireInv'
<1>0. /\ Types /\ SetupOK /\ setup' = setup /\ cpc = "accepted" /\ cpc' = "importing"
      /\ Agreed /\ Bridged /\ Quiet /\ spc \in {"import", "closed", "dead"}
      /\ UNCHANGED <<spc, creq, authenticated, cbuf, sbuf, s2c, urbs, returned>>
      /\ urbs = 0 /\ returned = 0 /\ c2s' = c2s \o OpReq
      /\ sbuf = <<>> /\ c2s = <<>> /\ cbuf = <<>> /\ s2c = <<>>
  BY EmptyStreams DEF WireInv, ClientPhase, Types, Quiet, SendImport, server, kernels
<1>1. c2s' = OpReq /\ OpReq \in Seq(Piece)
  BY <1>0, RawFacts, Together
<1>2. Types' BY <1>0, <1>1, SetupSame DEF Types, CStates
<1>3. ServerPhase' BY <1>0, <1>1, SetupSame DEF WireInv, ServerPhase, OpReq, Raw, Msg, Blank
<1>4. Agreed' /\ Bridged' BY <1>0 DEF Agreed, Bridged
<1>5. ImportExchange' BY <1>0, <1>1 DEF ImportExchange, OpReq, Raw, Msg, Blank
<1>6. ClientPhase' BY <1>0, <1>4, <1>5 DEF ClientPhase
<1>7. BreaksExplained' BY <1>0 DEF BreaksExplained
<1> QED BY <1>2, <1>3, <1>6, <1>7 DEF WireInv

LEMMA ReadImportReplyKeeps == ASSUME WireInv, ReadImportReply PROVE WireInv'
<1>0. /\ Types /\ SetupOK /\ setup' = setup /\ cpc = "importing"
      /\ Agreed /\ Bridged /\ ImportExchange
      /\ UNCHANGED <<spc, creq, authenticated, cbuf, sbuf, c2s, urbs, returned>>
      /\ urbs = 0 /\ returned = 0
  BY DEF WireInv, ClientPhase, Types, ReadImportReply, server, kernels
<1>1. PICK n \in 1 .. Len(s2c) : op_req_import(n) /\ s2c' = SubSeq(s2c, n + 1, Len(s2c))
  BY DEF ReadImportReply
<1>2. /\ c2s = <<>> /\ s2c = OpRep /\ spc \in {"handoff", "kernel", "closed", "dead"}
      /\ cbuf = <<>> /\ sbuf = <<>>
  BY <1>0, <1>1, EmptySeq, SMT DEF ImportExchange
<1>3. n = 2 /\ Len(s2c) = 2 BY <1>1, <1>2, RawFacts DEF op_req_import
<1>4. s2c' = <<>>
  <2>1. SubSeq(s2c, 3, 2) = <<>> BY SubSeqEmpty, SMT
  <2> QED BY <1>1, <1>3, <2>1
<1>5. cpc' \in {"kernel", "refused"}
  <2>1. Head(s2c) = s2c[1] /\ s2c[1].msg.type = "OP_REP_IMPORT"
    BY <1>2, RawFacts
  <2> QED BY <2>1 DEF ReadImportReply
<1>6. Types' BY <1>0, <1>4, <1>5, SetupSame, EmptySeq DEF Types, CStates
<1>7. ServerPhase' BY <1>0, <1>2, SetupSame DEF WireInv, ServerPhase
<1>8. Agreed' /\ Bridged' BY <1>0 DEF Agreed, Bridged
<1>9. KernelPhase' BY <1>0, <1>2, <1>4, EmptySeq, SMT DEF KernelPhase
<1>10. ClientPhase' BY <1>0, <1>5, <1>8, <1>9 DEF ClientPhase
<1>11. BreaksExplained' BY <1>5 DEF BreaksExplained
<1> QED BY <1>6, <1>7, <1>10, <1>11 DEF WireInv

\* A client that stops leaves the streams and the server as they are.
LEMMA ClientEndsKeeps ==
  ASSUME WireInv, ClientBreaks \/ ClientLeaves
  PROVE  WireInv'
<1>0. /\ Types /\ setup' = setup /\ cpc' \in {"broken", "left"} /\ cpc # "kernel"
      /\ UNCHANGED <<spc, creq, authenticated, cbuf, sbuf, c2s, s2c, urbs, returned>>
      /\ urbs = 0 /\ returned = 0
  BY DEF WireInv, ClientPhase, ClientBreaks, ClientLeaves, Awaiting, server, kernels
<1>1. Types' BY <1>0, SetupSame DEF Types, CStates
<1>2. ToServer' = ToServer BY <1>0 DEF ToServer
<1>3. ServerPhase' BY <1>0, <1>2, SetupSame DEF WireInv, ServerPhase
<1>4. ClientPhase' BY <1>0 DEF ClientPhase
<1>5. ASSUME ClientBreaks PROVE BreaksExplained'
  <2> SUFFICES \/ spc = "dead" \/ ~TlsAgrees \/ creq.want + 1 > MaxFrame
               \/ creq.type = "Bridge" /\ spc = "closed"
    BY <1>0 DEF BreaksExplained, TlsAgrees
  <2>1. ASSUME Awaiting, NEW m \in Message, Answered(m) PROVE FALSE
    BY <1>0, <1>5, <2>1, ClientFrame DEF Answered, ClientBreaks, Awaiting
  <2>2. ASSUME Awaiting, ToClient = <<>> PROVE ServerOver
    <3>1. cbuf = <<>> BY <1>0, <2>2, EmptyStreams
    <3> QED BY <1>5, <2>2, <3>1, EmptyBuffer DEF ClientBreaks, Awaiting
  <2>3. CASE cpc = "hello"
    <3>1. HelloExchange /\ handle_hello(Hello) \in Message
      BY <1>0, <2>3, HelloResponseFacts DEF WireInv, ClientPhase, Types
    <3> QED BY <2>1, <2>2, <2>3, <3>1 DEF HelloExchange, Asked, Awaiting, ServerOver
  <2>4. CASE cpc = "waiting"
    <3>1. Exchange /\ \A r \in handle_message(creq) : Encodes(r) => r \in Message
      BY <1>0, <2>4, CurrentRequest DEF WireInv, ClientPhase
    <3> QED BY <2>1, <2>2, <2>4, <3>1 DEF Exchange, Asked, Quiet, Awaiting, ServerOver
  <2>5. CASE cpc = "importing"
    BY <1>5, <2>5 DEF ClientBreaks, Awaiting, WireInv, ClientPhase, Bridged, ServerOver
  <2> QED BY <1>5, <2>3, <2>4, <2>5 DEF ClientBreaks, Awaiting
<1>6. BreaksExplained'
  <2>1. CASE cpc' = "left" BY <2>1 DEF BreaksExplained
  <2> QED BY <1>0, <1>5, <2>1 DEF ClientLeaves
<1> QED BY <1>1, <1>3, <1>4, <1>6 DEF WireInv

LEMMA AcceptKeeps == ASSUME WireInv, accept PROVE WireInv'
<1>0. /\ Types /\ SetupOK /\ setup' = setup /\ spc = "accepting" /\ cpc # "connecting"
      /\ spc' \in {"serve", "closed"}
      /\ UNCHANGED <<cpc, creq, authenticated, cbuf, sbuf, c2s, s2c, urbs, returned>>
  BY DEF WireInv, Types, accept, TlsAccepted, client, kernels
<1>1. spc' = "closed" => ~TlsAgrees
  BY DEF accept, TlsAccepted
<1>2. Types' BY <1>0, SetupSame DEF Types, SStates
<1>3. ToServer' = ToServer /\ ToClient' = ToClient BY <1>0 DEF ToServer, ToClient
<1>4. ServerPhase'
  <2>1. spc' = "serve" => TlsAgrees' BY <1>0, SetupSame DEF accept, TlsAccepted
  <2>2. ToServer' = <<>> \/ \E m \in Sent' : ToServer' = Frame(m)
    <3>1. Hello \in Sent' BY <1>0, SetupSame DEF Sent
    <3>2. ToServer \in {<<>>, Frame(Hello)} BY <1>0 DEF WireInv, ServerPhase
    <3> QED BY <1>3, <3>1, <3>2
  <2> QED BY <1>0, <2>1, <2>2 DEF ServerPhase
<1>5. cpc \in {"hello", "refused", "broken", "left"}
  BY <1>0 DEF WireInv, ClientPhase, Exchange, ImportExchange, KernelPhase, Types, CStates
<1>6. cpc = "hello" => HelloExchange'
  BY <1>0, <1>1, <1>3, SetupSame DEF WireInv, ClientPhase, HelloExchange, Asked, Answered
<1>7. ClientPhase' BY <1>0, <1>5, <1>6 DEF WireInv, ClientPhase
<1>8. BreaksExplained' BY <1>0, ReasonKept DEF WireInv, ServerOver
<1> QED BY <1>2, <1>4, <1>7, <1>8 DEF WireInv

LEMMA ServerReadsKeeps == ASSUME WireInv, ServerReads PROVE WireInv'
<1>0. /\ Types /\ setup' = setup /\ spc = "serve"
      /\ UNCHANGED <<cpc, spc, creq, authenticated, cbuf, s2c, urbs, returned>>
  BY DEF WireInv, ServerReads, client, kernels
<1>1. sbuf' \in Seq(Piece) /\ c2s' \in Seq(Piece) /\ ToServer' = ToServer
  <2>1. PICK k \in 1 .. Len(c2s) : /\ sbuf' = sbuf \o SubSeq(c2s, 1, k)
                                   /\ c2s' = SubSeq(c2s, k + 1, Len(c2s))
    BY DEF ServerReads
  <2>2. sbuf \in Seq(Piece) /\ c2s \in Seq(Piece) BY <1>0 DEF Types
  <2> QED BY <2>1, <2>2, ReadKeeps DEF ToServer
<1>2. Types' BY <1>0, <1>1, SetupSame DEF Types
<1>3. ToClient' = ToClient BY <1>0 DEF ToClient
<1>4. ServerPhase' BY <1>0, <1>1, SetupSame DEF WireInv, ServerPhase
<1>5. cpc = "hello" => HelloExchange'
  BY <1>0, <1>1, <1>3, SetupSame DEF WireInv, ClientPhase, HelloExchange, Asked, Answered
<1>6. cpc = "waiting" => Exchange'
  <2>1. handle_message(creq)' = handle_message(creq)
    BY <1>0 DEF handle_message, handle_hello, Proven
  <2> QED BY <1>0, <1>1, <1>3, <2>1
          DEF WireInv, ClientPhase, Exchange, Asked, Answered, Quiet
<1>7. Agreed' <=> Agreed BY <1>0 DEF Agreed
<1>8. Quiet' <=> Quiet BY <1>1, <1>3 DEF Quiet
<1>9. ClientPhase'
  BY <1>0, <1>5, <1>6, <1>7, <1>8, SetupSame
  DEF WireInv, ClientPhase, ImportExchange, KernelPhase
<1>10. BreaksExplained' BY <1>0, ReasonKept DEF WireInv, ServerOver
<1> QED BY <1>2, <1>4, <1>9, <1>10 DEF WireInv

\* A server that serves answers one whole frame, whatever became of the client,
\* and nothing is left of what it received.
LEMMA AnswerTakes ==
  ASSUME WireInv, Answer
  PROVE  /\ spc = "serve" /\ TlsAgrees /\ SetupOK /\ Types
         /\ \E m \in Sent : /\ ToServer = Frame(m) /\ Decoded(sbuf) = m
                            /\ AfterFrame(sbuf) = <<>> /\ c2s = <<>>
<1>1. /\ spc = "serve" /\ Complete(sbuf) /\ Types /\ SetupOK
      /\ TlsAgrees /\ (ToServer = <<>> \/ \E m \in Sent : ToServer = Frame(m))
  BY DEF WireInv, Types, Answer, ServerPhase
<1>2. PICK m \in Sent : ToServer = Frame(m)
  BY <1>1, EmptyStreams, EmptyBuffer
<1>3. m \in Message BY <1>1, SentFacts
<1> QED BY <1>1, <1>2, <1>3, ServerFrame

\* The reply to the handshake.
LEMMA AnswerHello ==
  ASSUME WireInv, Answer, ToServer = Frame(Hello), Decoded(sbuf) = Hello
  PROVE  /\ spc' = "serve"
         /\ s2c' = s2c \o Frame(handle_hello(Hello))
         /\ authenticated' = (authenticated \/ Proven(Hello))
<1>0. SetupOK BY DEF WireInv, Types
<1>1. PICK reply \in handle_message(Hello) :
        /\ s2c' = IF Encodes(reply) THEN s2c \o Frame(reply) ELSE s2c
        /\ spc' = After(reply)
        /\ authenticated' = (authenticated \/ (reply.type = "HelloResponse" /\ reply.ok))
  BY DEF Answer
<1>2. reply = handle_hello(Hello)
  BY <1>0, <1>1, HelloFacts DEF handle_message
<1>3. After(reply) = "serve"
  BY <1>0, <1>2, HelloResponseFacts DEF After
<1> QED BY <1>0, <1>1, <1>2, <1>3, HelloResponseFacts

\* The reply to a request.
LEMMA AnswerAsk ==
  ASSUME WireInv, Answer, NEW m \in Asks, Decoded(sbuf) = m
  PROVE  /\ authenticated' = authenticated
         /\ \E reply \in handle_message(m) :
              \/ /\ Encodes(reply) /\ s2c' = s2c \o Frame(reply)
                 /\ IF reply.type = "BridgeAccepted" THEN ~setup.stls /\ spc' = "import"
                                                     ELSE spc' = "serve"
              \/ s2c' = s2c /\ spc' = "closed" /\ m.want + 1 > MaxFrame
<1>0. SetupOK /\ TlsAgrees BY AnswerTakes
<1>1. PICK reply \in handle_message(m) :
        /\ s2c' = IF Encodes(reply) THEN s2c \o Frame(reply) ELSE s2c
        /\ spc' = After(reply)
        /\ authenticated' = (authenticated \/ (reply.type = "HelloResponse" /\ reply.ok))
  BY DEF Answer
<1>2. /\ reply.type # "HelloResponse"
      /\ ~Encodes(reply) => m.want + 1 > MaxFrame
      /\ reply.type = "BridgeAccepted" => m.type = "Bridge" /\ Encodes(reply)
      /\ m.type = "Bridge" <=> setup.kind = "mount"
  BY <1>0, ReplyFacts, SentFacts
<1>3. reply.type = "BridgeAccepted" => ~setup.stls
  BY <1>0, <1>2 DEF SetupOK, TlsAgrees
<1>4. authenticated' = authenticated
  BY <1>0, <1>1, <1>2 DEF WireInv, Types
<1>5. CASE ~Encodes(reply) BY <1>1, <1>2, <1>4, <1>5 DEF After
<1>6. CASE Encodes(reply) BY <1>1, <1>3, <1>4, <1>6 DEF After
<1> QED BY <1>5, <1>6

LEMMA AnswerKeeps == ASSUME WireInv, Answer PROVE WireInv'
<1>0. /\ Types /\ SetupOK /\ setup' = setup /\ spc = "serve" /\ TlsAgrees
      /\ UNCHANGED <<cpc, creq, cbuf, c2s, urbs, returned>>
  BY AnswerTakes DEF Answer, client, kernels
<1>1. PICK m \in Sent : /\ ToServer = Frame(m) /\ Decoded(sbuf) = m
                        /\ AfterFrame(sbuf) = <<>> /\ c2s = <<>>
  BY AnswerTakes
<1>2. m \in Message /\ Frame(m) # <<>> /\ sbuf' = <<>> /\ c2s' = <<>>
  BY <1>0, <1>1, SentFacts, FrameFacts DEF Answer
<1>3. BreaksExplained' BY <1>0, ReasonKept DEF WireInv, ServerOver
<1>4. \/ cpc \in {"refused", "broken", "left"}
      \/ cpc = "hello" /\ Asked(Hello) /\ ~authenticated /\ m = Hello
      \/ cpc = "waiting" /\ Agreed /\ Asked(creq) /\ creq \in Sent /\ m = creq
  <2>1. ASSUME NEW q \in Sent, Asked(q) PROVE m = q
    <3>1. q \in Message BY <1>0, SentFacts
    <3> QED BY <1>0, <1>1, <2>1, <3>1, ServerFrame DEF Asked, Answer
  <2>2. ToServer # <<>> BY <1>1, <1>2
  <2>3. cpc = "hello" => Asked(Hello) /\ ~authenticated /\ Hello \in Sent
    BY <1>0, <2>2 DEF WireInv, ClientPhase, HelloExchange, Answered, Sent
  <2>4. cpc = "waiting" => Agreed /\ Asked(creq) /\ creq \in Sent
    BY <1>0, <2>2 DEF WireInv, ClientPhase, Exchange, Answered, Quiet
  <2>5. cpc \notin {"connecting", "ready", "accepted", "importing", "kernel"}
    BY <1>0, <2>2 DEF WireInv, ClientPhase, ImportExchange, KernelPhase, Quiet
  <2> QED BY <1>0, <2>1, <2>3, <2>4, <2>5 DEF Types, CStates
<1>5. CASE m = Hello
  <2>1. /\ spc' = "serve" /\ s2c' = s2c \o Frame(handle_hello(Hello))
        /\ authenticated' = (authenticated \/ Proven(Hello))
    BY <1>1, <1>5, AnswerHello
  <2>2. handle_hello(Hello) \in Message BY <1>0, HelloResponseFacts
  <2>3. Frame(handle_hello(Hello)) \in Seq(Piece) BY <2>2, FrameFacts
  <2>4. s2c' \in Seq(Piece) BY <1>0, <2>1, <2>3, Together DEF Types
  <2>5. authenticated' \in BOOLEAN BY <2>1
  <2>6. Types' BY <1>0, <1>2, <2>1, <2>4, <2>5, SetupSame, EmptySeq DEF Types, SStates
  <2>7. ToServer' = <<>> BY <1>2, <2>6, EmptyStreamsNext
  <2>8. ServerPhase' BY <1>0, <2>1, <2>7, SetupSame DEF ServerPhase
  <2>9. cpc = "hello" => HelloExchange'
    <3> SUFFICES ASSUME cpc = "hello" PROVE HelloExchange'
      OBVIOUS
    <3>1. cbuf = <<>> /\ s2c = <<>> /\ ~authenticated
      BY <1>0, <1>4, EmptyStreams DEF Asked
    <3>2. s2c' = Frame(handle_hello(Hello)) BY <2>1, <2>3, <3>1, Together
    <3>3. ToClient' = Frame(handle_hello(Hello))
      BY <1>0, <2>6, <3>1, <3>2, EmptyStreamsNext
    <3>4. authenticated' = Proven(Hello) BY <2>1, <3>1 DEF Proven
    <3> QED BY <1>0, <2>1, <2>7, <3>3, <3>4, SetupSame DEF HelloExchange, Answered
  <2>10. cpc # "waiting"
    BY <1>0, <1>4, <1>5, HelloFacts, CurrentRequest
  <2>11. cpc \in {"hello", "refused", "broken", "left"} BY <1>4, <2>10
  <2>12. ClientPhase'
    BY <1>0, <2>9, <2>11 DEF WireInv, ClientPhase
  <2> QED BY <1>3, <2>6, <2>8, <2>12 DEF WireInv
<1>6. CASE m \in Asks
  <2>1. authenticated' = authenticated BY <1>1, <1>6, AnswerAsk
  <2>2. PICK reply \in handle_message(m) :
          \/ /\ Encodes(reply) /\ s2c' = s2c \o Frame(reply)
             /\ IF reply.type = "BridgeAccepted" THEN ~setup.stls /\ spc' = "import"
                                                 ELSE spc' = "serve"
          \/ s2c' = s2c /\ spc' = "closed" /\ m.want + 1 > MaxFrame
    BY <1>1, <1>6, AnswerAsk
  <2>3. Encodes(reply) => Frame(reply) \in Seq(Piece)
    BY <1>0, <1>6, ReplyFacts, Encodable, FrameFacts
  <2>4. s2c' \in Seq(Piece)
    <3>1. s2c \in Seq(Piece) BY <1>0 DEF Types
    <3>2. ASSUME Encodes(reply) PROVE s2c \o Frame(reply) \in Seq(Piece)
      BY <2>3, <3>1, <3>2, Together
    <3> QED BY <2>2, <3>1, <3>2
  <2>5. Types' BY <1>0, <1>2, <2>1, <2>2, <2>4, SetupSame, EmptySeq DEF Types, SStates
  <2>6. ToServer' = <<>> BY <1>2, <2>5, EmptyStreamsNext
  <2>7. ServerPhase' BY <1>0, <1>2, <2>2, <2>6, SetupSame DEF ServerPhase
  <2>8. cpc # "hello"
    BY <1>0, <1>4, <1>6, HelloFacts, SentFacts
  <2>9. cpc = "waiting" => Exchange' /\ Agreed' /\ creq' \in Sent'
    <3> SUFFICES ASSUME cpc = "waiting" PROVE Exchange' /\ Agreed' /\ creq' \in Sent'
      OBVIOUS
    <3>1. /\ cbuf = <<>> /\ s2c = <<>> /\ Agreed /\ m = creq /\ creq \in Sent
      BY <1>0, <1>4, EmptyStreams DEF Asked
    <3>2. Agreed' /\ creq' \in Sent' BY <1>0, <2>1, <3>1, SetupSame DEF Agreed
    <3>3. handle_message(creq)' = handle_message(creq)
      BY <1>0, <2>1 DEF handle_message, handle_hello, Proven
    <3>4. ToClient' = s2c' BY <1>0, <2>5, <3>1, EmptyStreamsNext
    <3>5. CASE s2c' = s2c /\ spc' = "closed" /\ m.want + 1 > MaxFrame
      BY <1>0, <2>6, <3>1, <3>2, <3>4, <3>5 DEF Exchange, Quiet
    <3>6. CASE /\ Encodes(reply) /\ s2c' = s2c \o Frame(reply)
               /\ IF reply.type = "BridgeAccepted" THEN ~setup.stls /\ spc' = "import"
                                                   ELSE spc' = "serve"
      <4>1. s2c' = Frame(reply) BY <2>3, <3>1, <3>6, Together
      <4>2. Answered(reply)' BY <2>6, <3>4, <4>1 DEF Answered
      <4>3. reply \in handle_message(creq)' BY <3>1, <3>3
      <4>4. /\ Encodes(reply)
            /\ IF reply.type = "BridgeAccepted"
               THEN ~setup'.stls /\ spc' \in {"import", "closed", "dead"}
               ELSE spc' \in {"serve", "dead"}
        BY <1>0, <3>6
      <4> QED BY <3>2, <4>2, <4>3, <4>4 DEF Exchange
    <3> QED BY <2>2, <3>5, <3>6
  <2>10. cpc \in {"waiting", "refused", "broken", "left"} BY <1>4, <2>8
  <2>11. ClientPhase' BY <1>0, <2>9, <2>10 DEF WireInv, ClientPhase
  <2> QED BY <1>3, <2>5, <2>7, <2>11 DEF WireInv
<1> QED BY <1>1, <1>5, <1>6 DEF Sent

LEMMA BridgeImportKeeps == ASSUME WireInv, BridgeImport PROVE WireInv'
<1>0. /\ Types /\ SetupOK /\ setup' = setup /\ spc = "import" /\ sbuf = <<>> /\ c2s \in {<<>>, OpReq}
      /\ UNCHANGED <<cpc, creq, authenticated, cbuf, sbuf, urbs, returned>>
  BY DEF WireInv, Types, BridgeImport, ServerPhase, client, kernels
<1>1. \/ c2s = OpReq /\ c2s' = <<>> /\ s2c' = s2c \o OpRep /\ spc' = "handoff"
      \/ spc' = "closed" /\ UNCHANGED <<c2s, s2c>>
  <2>1. Len(<<>>) = 0 /\ ~(0 >= 1) BY EmptySeq, SMT
  <2>2. SubSeq(OpReq, 2, 1) = <<>> /\ 1 + 1 = 2 BY SubSeqEmpty, SMT
  <2> QED BY <1>0, <2>1, <2>2, RawFacts DEF BridgeImport
<1>2. OpRep \in Seq(Piece) /\ <<>> \in Seq(Piece) /\ c2s \in Seq(Piece) /\ s2c \in Seq(Piece)
  BY <1>0, RawFacts, EmptySeq DEF Types
<1>3. Types'
  <2>1. s2c \o OpRep \in Seq(Piece) BY <1>2, Together
  <2>2. s2c' \in Seq(Piece) /\ c2s' \in Seq(Piece) BY <1>1, <1>2, <2>1
  <2> QED BY <1>0, <1>1, <2>2, SetupSame DEF Types, SStates
<1>4. ServerPhase' BY <1>0, <1>1 DEF ServerPhase
<1>5. cpc \in {"waiting", "accepted", "importing", "refused", "broken", "left"}
  BY <1>0 DEF WireInv, ClientPhase, HelloExchange, KernelPhase, Types, CStates
<1>6. ToServer = c2s /\ ToServer' = c2s' /\ OpReq # <<>>
  BY <1>0, <1>3, EmptyStreams, EmptyStreamsNext, RawFacts, EmptySeq, SMT
<1>7. Agreed' <=> Agreed BY <1>0 DEF Agreed
<1>8. Bridged' <=> Bridged BY <1>0 DEF Bridged
<1>9. ASSUME spc' = "closed" /\ UNCHANGED <<c2s, s2c>> PROVE ClientPhase'
  <2>1. ToServer' = ToServer /\ ToClient' = ToClient BY <1>0, <1>9 DEF ToServer, ToClient
  <2>2. cpc = "waiting" => Exchange'
    <3>1. handle_message(creq)' = handle_message(creq)
      BY <1>0 DEF handle_message, handle_hello, Proven
    <3> QED BY <1>0, <1>9, <2>1, <3>1
            DEF WireInv, ClientPhase, Exchange, Asked, Answered, Quiet
  <2>3. cpc = "importing" => ImportExchange'
    BY <1>0, <1>9 DEF WireInv, ClientPhase, ImportExchange, OpReq, OpRep, Raw, Msg, Blank
  <2>4. cpc = "accepted" => Quiet' BY <2>1 DEF WireInv, ClientPhase, Quiet
  <2>5. cpc = "waiting" => Agreed /\ creq' \in Sent'
    BY <1>0, SetupSame DEF WireInv, ClientPhase
  <2>6. cpc \in {"accepted", "importing"} => Agreed /\ Bridged
    BY DEF WireInv, ClientPhase
  <2>7. urbs = 0 /\ returned = 0 BY <1>5 DEF WireInv, ClientPhase
  <2> QED BY <1>0, <1>5, <1>7, <1>8, <1>9, <2>2, <2>3, <2>4, <2>5, <2>6, <2>7 DEF ClientPhase
<1>10. ASSUME c2s = OpReq /\ c2s' = <<>> /\ s2c' = s2c \o OpRep /\ spc' = "handoff"
       PROVE  ClientPhase'
  <2>1. cpc \notin {"waiting", "accepted"}
    BY <1>0, <1>6, <1>10 DEF WireInv, ClientPhase, Exchange, Quiet, Asked, Answered
  <2>2. cpc = "importing" => ImportExchange'
    <3>1. cpc = "importing" => s2c = <<>> /\ cbuf = <<>>
      BY <1>0, <1>6, <1>10 DEF WireInv, ClientPhase, ImportExchange
    <3>2. cpc = "importing" => s2c' = OpRep BY <1>2, <1>10, <3>1, Together
    <3> QED BY <1>0, <1>10, <3>1, <3>2 DEF ImportExchange, OpRep, Raw, Msg, Blank
  <2>3. cpc = "importing" => Agreed /\ Bridged BY DEF WireInv, ClientPhase
  <2>4. urbs = 0 /\ returned = 0 BY <1>5 DEF WireInv, ClientPhase
  <2> QED BY <1>0, <1>5, <1>7, <1>8, <2>1, <2>2, <2>3, <2>4 DEF ClientPhase
<1>11. ClientPhase' BY <1>1, <1>9, <1>10
<1>12. BreaksExplained' BY <1>0, ReasonKept DEF WireInv, ServerOver
<1> QED BY <1>3, <1>4, <1>11, <1>12 DEF WireInv

\* The bridge's end, the server's, or its kernel's taking over change no byte.
LEMMA ServerGoesKeeps ==
  ASSUME WireInv, BridgeAttach \/ ServerBreaks \/ ServerDies
  PROVE  WireInv'
<1>0. /\ Types /\ SetupOK /\ setup' = setup /\ ~ServerOver
      /\ UNCHANGED <<cpc, creq, authenticated, cbuf, sbuf, c2s, s2c, urbs, returned>>
      /\ \/ spc = "handoff" /\ spc' \in {"kernel", "closed"}
         \/ spc = "serve" /\ ClientOver /\ spc' = "closed"
         \/ spc # "kernel" /\ spc' = "dead"
  <2>1. SetupOK /\ Types BY DEF WireInv, Types
  <2>2. spc = "serve" => ~TooLarge(sbuf)
    <3>1. \A m \in Sent : m \in Message BY <2>1, SentFacts
    <3>2. spc = "serve" => ToServer = <<>> \/ \E m \in Sent : ToServer = Frame(m)
      BY DEF WireInv, ServerPhase
    <3>3. ToServer = <<>> => ~TooLarge(sbuf) BY <2>1, EmptyStreams, EmptyBuffer
    <3> QED BY <2>1, <3>1, <3>2, <3>3, ServerFrame
  <2> QED BY <2>1, <2>2 DEF BridgeAttach, ServerBreaks, ServerDies, ServerOver, client, kernels
<1>1. Types' BY <1>0, SetupSame DEF Types, SStates
<1>2. ToServer' = ToServer /\ ToClient' = ToClient BY <1>0 DEF ToServer, ToClient
<1>3. ServerPhase' BY <1>0, <1>2, SetupSame DEF WireInv, ServerPhase
<1>4. cpc = "hello" => HelloExchange'
  BY <1>0, <1>2, SetupSame DEF WireInv, ClientPhase, HelloExchange, Asked, Answered, ClientOver
<1>5. cpc = "waiting" => Exchange'
  <2>1. handle_message(creq)' = handle_message(creq)
    BY <1>0 DEF handle_message, handle_hello, Proven
  <2> QED BY <1>0, <1>2, <2>1
          DEF WireInv, ClientPhase, Exchange, Asked, Answered, Quiet, ClientOver, ServerOver
<1>6. cpc = "importing" => ImportExchange'
  BY <1>0 DEF WireInv, ClientPhase, ImportExchange, ClientOver, OpReq, OpRep, Raw, Msg, Blank
<1>7. cpc = "kernel" => KernelPhase'
  BY <1>0 DEF WireInv, ClientPhase, KernelPhase, ClientOver
<1>8. (Agreed' <=> Agreed) /\ (Bridged' <=> Bridged) /\ (Quiet' <=> Quiet)
  BY <1>0, <1>2 DEF Agreed, Bridged, Quiet
<1>9. ClientPhase'
  BY <1>0, <1>4, <1>5, <1>6, <1>7, <1>8, SetupSame DEF WireInv, ClientPhase, ClientOver
<1>10. BreaksExplained' BY <1>0, ReasonKept DEF WireInv
<1> QED BY <1>1, <1>3, <1>9, <1>10 DEF WireInv

\* The kernels write whole URBs at one end of a stream, and take them at the other.
LEMMA Written ==
  ASSUME NEW str \in Seq(Piece), NEW t \in {"SUBMIT", "RET"}
  PROVE  LET new == str \o Raw(t, 1)
         IN /\ new \in Seq(Piece) /\ Len(new) = Len(str) + 1
            /\ (\A i \in 1 .. Len(str) : str[i].msg.type = t)
                  => \A i \in 1 .. Len(new) : new[i].msg.type = t
<1> DEFINE raw == Raw(t, 1)
           new == str \o raw
<1>1. raw \in Seq(Piece) /\ Len(raw) = 1 /\ raw[1].msg.type = t
  BY RawFacts
<1> HIDE DEF raw
<1>2. new \in Seq(Piece) /\ Len(new) = Len(str) + 1 /\ Len(str) \in Nat
  <2>1. new \in Seq(Piece) /\ Len(new) = Len(str) + Len(raw) BY <1>1, Together
  <2>2. Len(str) \in Nat BY LenProperties
  <2> QED BY <1>1, <2>1, <2>2
<1>3. \A i \in 1 .. Len(str) + 1 :
         new[i] = IF i <= Len(str) THEN str[i] ELSE raw[i - Len(str)]
  <2>1. \A i \in 1 .. Len(str) + Len(raw) :
           new[i] = IF i <= Len(str) THEN str[i] ELSE raw[i - Len(str)]
    BY <1>1, ConcatProperties
  <2> QED BY <1>1, <2>1
<1> HIDE DEF new
<1>4. ASSUME \A i \in 1 .. Len(str) : str[i].msg.type = t, NEW i \in 1 .. Len(new)
      PROVE  new[i].msg.type = t
  <2>1. i \in 1 .. Len(str) + 1 BY <1>2
  <2>2. CASE i <= Len(str)
    <3>1. i \in 1 .. Len(str) BY <1>2, <2>1, <2>2, SMT
    <3> QED BY <1>3, <1>4, <2>1, <2>2, <3>1
  <2>3. CASE ~(i <= Len(str))
    <3>1. i - Len(str) = 1 BY <1>2, <2>1, <2>3, SMT
    <3> QED BY <1>1, <1>3, <2>1, <2>3, <3>1
  <2> QED BY <2>2, <2>3
<1> QED BY <1>2, <1>4 DEF new, raw

LEMMA Taken ==
  ASSUME NEW str \in Seq(Piece), str # <<>>
  PROVE  /\ Tail(str) \in Seq(Piece) /\ Len(str) = Len(Tail(str)) + 1
         /\ \A t : (\A i \in 1 .. Len(str) : str[i].msg.type = t)
                      => \A i \in 1 .. Len(Tail(str)) : Tail(str)[i].msg.type = t
<1>1. /\ Tail(str) \in Seq(Piece) /\ Len(Tail(str)) = Len(str) - 1
      /\ \A i \in 1 .. Len(Tail(str)) : Tail(str)[i] = str[i + 1]
  BY HeadTailProperties
<1>2. Len(str) \in Nat /\ Len(Tail(str)) \in Nat BY <1>1, LenProperties
<1>3. \A i \in 1 .. Len(Tail(str)) : i + 1 \in 1 .. Len(str) BY <1>1, <1>2, SMT
<1>4. Len(str) = Len(Tail(str)) + 1 BY <1>1, <1>2, SMT
<1> QED BY <1>1, <1>3, <1>4

LEMMA SubmitKeeps == ASSUME WireInv, Submit PROVE WireInv'
<1>0. /\ Types /\ setup' = setup /\ cpc = "kernel" /\ Agreed /\ Bridged /\ KernelPhase
      /\ UNCHANGED <<cpc, spc, creq, authenticated, cbuf, sbuf, s2c, returned>>
      /\ urbs < MaxUrbs /\ urbs' = urbs + 1 /\ c2s' = c2s \o Raw("SUBMIT", 1)
  BY DEF WireInv, ClientPhase, Submit, client, server
<1>1. c2s \in Seq(Piece) /\ s2c \in Seq(Piece) BY <1>0 DEF Types
<1>2. /\ c2s' \in Seq(Piece) /\ Len(c2s') = Len(c2s) + 1
      /\ \A i \in 1 .. Len(c2s') : c2s'[i].msg.type = "SUBMIT"
  BY <1>0, <1>1, Written DEF KernelPhase
<1>3. /\ urbs' \in 0 .. MaxUrbs
      /\ urbs' = returned + Len(c2s') + Len(s2c)
  <2>1. urbs \in 0 .. MaxUrbs /\ returned \in Nat BY <1>0 DEF Types
  <2>2. Len(c2s) \in Nat /\ Len(s2c) \in Nat BY <1>1, LenProperties
  <2>3. urbs = returned + Len(c2s) + Len(s2c) BY <1>0 DEF KernelPhase
  <2> QED BY <1>0, <1>2, <2>1, <2>2, <2>3, WireAssumption, SMT
<1>4. Types' BY <1>0, <1>2, <1>3, SetupSame DEF Types
<1>5. KernelPhase' BY <1>0, <1>2, <1>3 DEF KernelPhase
<1>6. ServerPhase' BY <1>0 DEF KernelPhase, ServerPhase
<1>7. Agreed' /\ Bridged' BY <1>0 DEF Agreed, Bridged
<1>8. ClientPhase' BY <1>0, <1>5, <1>7 DEF ClientPhase
<1>9. BreaksExplained' BY <1>0 DEF BreaksExplained
<1> QED BY <1>4, <1>6, <1>8, <1>9 DEF WireInv

\* The server's kernel has something to answer only when the client's has asked.
LEMMA ReturnKeeps == ASSUME WireInv, Return PROVE WireInv'
<1>0. /\ Types /\ setup' = setup /\ cpc = "kernel" /\ Agreed /\ Bridged /\ KernelPhase
      /\ UNCHANGED <<cpc, spc, creq, authenticated, cbuf, sbuf, urbs, returned>>
      /\ c2s # <<>> /\ c2s' = Tail(c2s) /\ s2c' = s2c \o Raw("RET", 1)
  BY DEF WireInv, ServerPhase, ClientPhase, Return, client, server, kernels
<1>1. c2s \in Seq(Piece) /\ s2c \in Seq(Piece) BY <1>0 DEF Types
<1>2. /\ c2s' \in Seq(Piece) /\ Len(c2s) = Len(c2s') + 1
      /\ \A i \in 1 .. Len(c2s') : c2s'[i].msg.type = "SUBMIT"
  BY <1>0, <1>1, Taken DEF KernelPhase
<1>3. /\ s2c' \in Seq(Piece) /\ Len(s2c') = Len(s2c) + 1
      /\ \A i \in 1 .. Len(s2c') : s2c'[i].msg.type = "RET"
  BY <1>0, <1>1, Written DEF KernelPhase
<1>4. urbs = returned + Len(c2s') + Len(s2c')
  <2>1. returned \in Nat BY <1>0 DEF Types
  <2>2. Len(c2s') \in Nat /\ Len(s2c) \in Nat BY <1>1, <1>2, LenProperties
  <2>3. urbs = returned + Len(c2s) + Len(s2c) BY <1>0 DEF KernelPhase
  <2> QED BY <1>2, <1>3, <2>1, <2>2, <2>3, SMT
<1>5. Types' BY <1>0, <1>2, <1>3, SetupSame DEF Types
<1>6. KernelPhase' BY <1>0, <1>2, <1>3, <1>4 DEF KernelPhase
<1>7. ServerPhase' BY <1>0 DEF KernelPhase, ServerPhase
<1>8. Agreed' /\ Bridged' BY <1>0 DEF Agreed, Bridged
<1>9. ClientPhase' BY <1>0, <1>6, <1>8 DEF ClientPhase
<1>10. BreaksExplained' BY <1>0 DEF BreaksExplained
<1> QED BY <1>5, <1>7, <1>9, <1>10 DEF WireInv

LEMMA GiveBackKeeps == ASSUME WireInv, GiveBack PROVE WireInv'
<1>0. /\ Types /\ setup' = setup /\ cpc = "kernel" /\ Agreed /\ Bridged /\ KernelPhase
      /\ UNCHANGED <<cpc, spc, creq, authenticated, cbuf, sbuf, c2s, urbs>>
      /\ s2c # <<>> /\ s2c' = Tail(s2c) /\ returned' = returned + 1
  BY DEF WireInv, ClientPhase, GiveBack, client, server
<1>1. c2s \in Seq(Piece) /\ s2c \in Seq(Piece) BY <1>0 DEF Types
<1>2. /\ s2c' \in Seq(Piece) /\ Len(s2c) = Len(s2c') + 1
      /\ \A i \in 1 .. Len(s2c') : s2c'[i].msg.type = "RET"
  BY <1>0, <1>1, Taken DEF KernelPhase
<1>3. returned' \in Nat /\ urbs = returned' + Len(c2s) + Len(s2c')
  <2>1. returned \in Nat BY <1>0 DEF Types
  <2>2. Len(c2s) \in Nat /\ Len(s2c') \in Nat BY <1>1, <1>2, LenProperties
  <2>3. urbs = returned + Len(c2s) + Len(s2c) BY <1>0 DEF KernelPhase
  <2> QED BY <1>0, <1>2, <2>1, <2>2, <2>3, SMT
<1>4. Types' BY <1>0, <1>2, <1>3, SetupSame DEF Types
<1>5. KernelPhase' BY <1>0, <1>2, <1>3 DEF KernelPhase
<1>6. ServerPhase' BY <1>0 DEF KernelPhase, ServerPhase
<1>7. Agreed' /\ Bridged' BY <1>0 DEF Agreed, Bridged
<1>8. ClientPhase' BY <1>0, <1>5, <1>7 DEF ClientPhase
<1>9. BreaksExplained' BY <1>0 DEF BreaksExplained
<1> QED BY <1>4, <1>6, <1>8, <1>9 DEF WireInv

LEMMA StutterKeeps == ASSUME WireInv, UNCHANGED vars PROVE WireInv'
<1>0. /\ Types /\ setup' = setup
      /\ UNCHANGED <<cpc, spc, creq, authenticated, cbuf, sbuf, c2s, s2c, urbs, returned>>
  BY DEF WireInv, vars, client, server, kernels
<1>1. Types' BY <1>0, SetupSame DEF Types
<1>2. ToServer' = ToServer /\ ToClient' = ToClient BY <1>0 DEF ToServer, ToClient
<1>3. ServerPhase' BY <1>0, <1>2, SetupSame DEF WireInv, ServerPhase, OpReq, Raw, Msg, Blank
<1>4. cpc = "hello" => HelloExchange'
  BY <1>0, <1>2, SetupSame DEF WireInv, ClientPhase, HelloExchange, Asked, Answered
<1>5. cpc = "waiting" => Exchange'
  <2>1. handle_message(creq)' = handle_message(creq)
    BY <1>0 DEF handle_message, handle_hello, Proven
  <2> QED BY <1>0, <1>2, <2>1 DEF WireInv, ClientPhase, Exchange, Asked, Answered, Quiet
<1>6. cpc = "importing" => ImportExchange'
  BY <1>0 DEF WireInv, ClientPhase, ImportExchange, OpReq, OpRep, Raw, Msg, Blank
<1>7. cpc = "kernel" => KernelPhase' BY <1>0 DEF WireInv, ClientPhase, KernelPhase
<1>8. (Agreed' <=> Agreed) /\ (Bridged' <=> Bridged) /\ (Quiet' <=> Quiet)
  BY <1>0, <1>2 DEF Agreed, Bridged, Quiet
<1>9. ClientPhase'
  BY <1>0, <1>4, <1>5, <1>6, <1>7, <1>8, SetupSame DEF WireInv, ClientPhase
<1>10. BreaksExplained' BY <1>0 DEF WireInv, BreaksExplained
<1> QED BY <1>1, <1>3, <1>9, <1>10 DEF WireInv

-----------------------------------------------------------------------------
LEMMA InitWire == Init => WireInv
<1> SUFFICES ASSUME Init PROVE WireInv
  OBVIOUS
<1>1. Types
  <2>1. SetupOK BY DEF Init, SetupOK
  <2>2. 0 \in 0 .. MaxUrbs /\ 0 \in Nat BY WireAssumption, SMT
  <2>3. <<>> \in Seq(Piece) BY EmptySeq
  <2> QED BY <2>1, <2>2, <2>3 DEF Init, Types, CStates, SStates
<1>2. ToServer = <<>> /\ ToClient = <<>> BY <1>1, EmptyStreams DEF Init
<1>3. ServerPhase BY <1>2 DEF Init, ServerPhase
<1>4. ClientPhase BY <1>2 DEF Init, ClientPhase, Quiet
<1> QED BY <1>1, <1>3, <1>4 DEF Init, WireInv, BreaksExplained

LEMMA WireStep == WireInv /\ [Next]_vars => WireInv'
<1> SUFFICES ASSUME WireInv, [Next]_vars PROVE WireInv'
  OBVIOUS
<1>1. CASE ClientStep
  BY <1>1, ConnectKeeps, ClientReadsKeeps, FinishHelloKeeps, ReceiveReplyKeeps,
     SendImportKeeps, ReadImportReplyKeeps, ClientEndsKeeps
  DEF ClientStep
<1>2. CASE ServerStep
  BY <1>2, AcceptKeeps, ServerReadsKeeps, AnswerKeeps, BridgeImportKeeps, ServerGoesKeeps
  DEF ServerStep
<1>3. CASE Send BY <1>3, SendKeeps
<1>4. CASE ClientLeaves BY <1>4, ClientEndsKeeps
<1>5. CASE ServerDies BY <1>5, ServerGoesKeeps
<1>6. CASE Submit BY <1>6, SubmitKeeps
<1>7. CASE Return BY <1>7, ReturnKeeps
<1>8. CASE GiveBack BY <1>8, GiveBackKeeps
<1>9. CASE UNCHANGED vars BY <1>9, StutterKeeps
<1> QED BY <1>1, <1>2, <1>3, <1>4, <1>5, <1>6, <1>7, <1>8, <1>9 DEF Next

LEMMA WireInvariant == Spec => []WireInv
  BY InitWire, WireStep, PTL DEF Spec

-----------------------------------------------------------------------------
(***************************************************************************)
(* What the invariant says of a connection.                                *)
(***************************************************************************)
LEMMA PieceFacts ==
  ASSUME NEW bytes \in Seq(Piece), NEW i \in 1 .. Len(bytes)
  PROVE  /\ bytes[i].msg.id \in 0 .. MaxRequests
         /\ bytes[i].msg.len \in 1 .. MaxFrame
         /\ bytes[i].at \in 0 .. bytes[i].msg.len
<1>1. bytes[i] \in Piece BY ElementOfSeq
<1>2. PICK p : p = bytes[i] OBVIOUS
<1>3. p.msg \in Message /\ p.at \in Nat /\ p.at <= p.msg.len
  BY <1>1, <1>2 DEF Piece
<1>4. p.msg.id \in 0 .. MaxRequests /\ p.msg.len \in 1 .. MaxFrame
  BY <1>3 DEF Message
<1>5. p.at \in 0 .. p.msg.len BY <1>3, <1>4, WireAssumption, SMT
<1> QED BY <1>2, <1>4, <1>5

\* Every frame on the wire has a length that the encoder lets through, and no
\* more URBs come back than were submitted (codec.rs, bridge.rs).
THEOREM WireTypeCorrect == Spec => []TypeOK
<1>1. ASSUME WireInv PROVE TypeOK
  <2>1. Types BY <1>1 DEF WireInv
  <2>2. creq.id \in 0 .. MaxRequests
    <3>1. creq \in Asks => creq \in AnyMessage BY <2>1, SentFacts DEF Types
    <3>2. Blank.id \in 0 .. MaxRequests BY ZeroRequest DEF Blank
    <3> QED BY <2>1, <3>1, <3>2 DEF Types, AnyMessage
  <2>3. \A bytes \in {cbuf, sbuf, c2s, s2c} : bytes \in Seq(Piece)
    BY <2>1 DEF Types
  <2>4. returned \in 0 .. MaxUrbs
    <3>1. urbs \in 0 .. MaxUrbs /\ returned \in Nat BY <2>1 DEF Types
    <3>2. Len(c2s) \in Nat /\ Len(s2c) \in Nat BY <2>3, LenProperties
    <3>3. returned = 0 \/ urbs = returned + Len(c2s) + Len(s2c)
      BY <1>1 DEF WireInv, ClientPhase, KernelPhase
    <3> QED BY <3>1, <3>2, <3>3, WireAssumption, SMT
  <2> QED BY <2>1, <2>2, <2>3, <2>4, PieceFacts DEF Types, TypeOK
<1> QED BY <1>1, WireInvariant, PTL

\* A client past the handshake has been admitted by a server with its key and
\* its version, whichever side's check said so (session.rs, mount.rs,
\* connection.rs handle_hello).
THEOREM HandshakeAgreementCorrect == Spec => []HandshakeAgreement
<1>1. WireInv => HandshakeAgreement
  BY DEF WireInv, ClientPhase, Agreed, HandshakeAgreement
<1> QED BY <1>1, WireInvariant, PTL

\* A reply belongs to the request that waits for it, and none is left over for
\* the next one (session.rs send_and_recv).
THEOREM LockStepCorrect == Spec => []LockStep
<1>1. ASSUME WireInv PROVE LockStep
  <2>1. Types BY <1>1 DEF WireInv
  <2>2. cpc = "ready" => s2c = <<>> /\ cbuf = <<>>
    BY <1>1, <2>1, EmptyStreams DEF WireInv, ClientPhase, Quiet
  <2>3. ASSUME cpc = "waiting", NEW bytes \in {cbuf, s2c}, NEW i \in 1 .. Len(bytes)
        PROVE  bytes[i].msg.id = creq.id
    <3>1. creq \in Sent /\ Exchange BY <1>1, <2>3 DEF WireInv, ClientPhase
    <3>2. bytes # <<>> BY <2>3, EmptySeq, SMT
    <3>3. ToClient # <<>> BY <2>1, <2>3, <3>2, EmptyStreams
    <3>4. PICK r \in handle_message(creq) : Answered(r) /\ Encodes(r)
      BY <3>1, <3>3 DEF Exchange, Asked, Quiet
    <3>5. r \in Message /\ r.id = creq.id BY <2>1, <3>1, <3>4, CurrentRequest
    <3>6. ToClient = Frame(r) BY <3>4 DEF Answered
    <3>7. bytes[i].msg = r BY <2>1, <2>3, <3>5, <3>6, ClientFrame
    <3> QED BY <3>5, <3>7
  <2> QED BY <2>2, <2>3 DEF LockStep
<1> QED BY <1>1, WireInvariant, PTL

\* However reads cut the stream, a read buffer begins with a length prefix, of
\* a frame that the other end was allowed to send (codec.rs decode).
THEOREM FramedCorrect == Spec => []Framed
<1>1. ASSUME WireInv PROVE Framed
  <2>1. Types /\ SetupOK BY <1>1 DEF WireInv, Types
  <2>2. \A m : [msg |-> m, at |-> 0].at = 0 OBVIOUS
  <2>3. ASSUME NEW m \in Message, ToClient = Frame(m), cbuf # <<>>
        PROVE  Head(cbuf).at = 0 /\ ~TooLarge(cbuf)
    BY <2>1, <2>2, <2>3, ClientFrame
  <2>4. ASSUME NEW m \in Message, ToServer = Frame(m), sbuf # <<>>
        PROVE  Head(sbuf).at = 0 /\ ~TooLarge(sbuf)
    BY <2>1, <2>2, <2>4, ServerFrame
  <2>5. ASSUME Awaiting, cbuf # <<>> PROVE \E m \in Message : ToClient = Frame(m)
    <3>1. ToClient # <<>> BY <2>1, <2>5, EmptyStreams
    <3>2. CASE cpc = "hello"
      BY <1>1, <2>1, <3>1, <3>2, HelloResponseFacts
      DEF WireInv, ClientPhase, HelloExchange, Asked, Answered
    <3>3. CASE cpc = "waiting"
      BY <1>1, <2>1, <3>1, <3>3, CurrentRequest
      DEF WireInv, ClientPhase, Exchange, Asked, Answered, Quiet
    <3> QED BY <2>5, <3>2, <3>3 DEF Awaiting
  <2>6. ASSUME spc = "serve", sbuf # <<>> PROVE \E m \in Message : ToServer = Frame(m)
    <3>1. ToServer # <<>> BY <2>1, <2>6, EmptyStreams
    <3> QED BY <1>1, <2>1, <2>6, <3>1, SentFacts DEF WireInv, ServerPhase
  <2> QED BY <2>3, <2>4, <2>5, <2>6 DEF Framed
<1> QED BY <1>1, WireInvariant, PTL

\* When an end gives up its Framed for the bare socket, its read buffer holds
\* nothing but the last frame, so into_inner drops no byte of USB/IP
\* (connection.rs run, mount.rs).
THEOREM NothingLostAtHandOffCorrect == Spec => NothingLostAtHandOff
<1>1. ASSUME WireInv, [Next]_vars, spc = "serve", spc' = "import"
      PROVE  AfterFrame(sbuf) = <<>>
  <2>1. Answer
    BY <1>1 DEF Next, ClientStep, ServerStep, connect, ClientReads, FinishHello, TakeFrame,
       ReceiveReply, SendImport, ReadImportReply, ClientBreaks, accept, ServerReads,
       BridgeImport, BridgeAttach, ServerBreaks, Send, Request, ClientLeaves, ServerDies,
       Submit, Return, GiveBack, vars, server
  <2> QED BY <1>1, <2>1, AnswerTakes
<1>2. ASSUME WireInv, [Next]_vars, cpc = "waiting", cpc' = "accepted"
      PROVE  AfterFrame(cbuf) = <<>>
  <2>1. ReceiveReply
    BY <1>2 DEF Next, ClientStep, ServerStep, connect, ClientReads, FinishHello, ClientHas,
       SendImport, ReadImportReply, ClientBreaks, accept, ServerReads, Answer,
       BridgeImport, BridgeAttach, ServerBreaks, Send, Request, ClientLeaves, ServerDies,
       Submit, Return, GiveBack, vars, client
  <2> QED BY <1>2, <2>1, ReplyTakes
<1>3. WireInv /\ [Next]_vars =>
        [ /\ spc = "serve" /\ spc' = "import" => AfterFrame(sbuf) = <<>>
          /\ cpc = "waiting" /\ cpc' = "accepted" => AfterFrame(cbuf) = <<>> ]_vars
  BY <1>1, <1>2
<1> QED BY <1>3, WireInvariant, PTL DEF Spec, NothingLostAtHandOff

\* Each kernel finds on its socket only what the other kernel wrote, and every
\* URB submitted is on its way or given back (bridge.rs, mount.rs).
THEOREM KernelsInStepCorrect == Spec => []KernelsInStep
<1>1. ASSUME WireInv PROVE KernelsInStep
  <2>1. cpc = "kernel" => KernelPhase BY <1>1 DEF WireInv, ClientPhase
  <2>2. spc = "kernel" => c2s = <<>> \/ cpc = "kernel" BY <1>1 DEF WireInv, ServerPhase
  <2>3. c2s = <<>> => \A i \in 1 .. Len(c2s) : c2s[i].msg.type = "SUBMIT"
    BY EmptySeq, SMT
  <2> QED BY <2>1, <2>2, <2>3 DEF KernelPhase, KernelsInStep
<1> QED BY <1>1, WireInvariant, PTL

\* A client of this repository is never told BridgeAccepted over TLS
\* (connection.rs run).
THEOREM NoBridgeOverTlsCorrect == Spec => []NoBridgeOverTls
<1>1. WireInv => NoBridgeOverTls
  BY DEF WireInv, ClientPhase, Bridged, NoBridgeOverTls
<1> QED BY <1>1, WireInvariant, PTL

\* A connection breaks under a client for one of four reasons, and for no other:
\* every other request is answered (connection.rs run, codec.rs encode).
THEOREM BreaksExplainedCorrect == Spec => []BreaksExplained
<1>1. WireInv => BreaksExplained BY DEF WireInv
<1> QED BY <1>1, WireInvariant, PTL

=============================================================================
