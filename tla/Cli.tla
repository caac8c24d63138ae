--------------------------------- MODULE Cli ---------------------------------
(***************************************************************************)
(* src/main.rs and client/commands.rs: the commands an operator runs one   *)
(* after the other against the server.  Each is a process of its own: it   *)
(* connects, says Hello, makes its one request, prints the result and      *)
(* exits.  The operator carries the session numbers from one command's     *)
(* output to the next one's --session-id (README.md, Quick start).         *)
(***************************************************************************)
EXTENDS Connection

VARIABLES stage,   \* where the process on connection c is
          cmd,     \* the command it runs
          printed  \* sessions the operator has read and not yet detached

cliVars == <<stage, cmd, printed>>

Stages == {"none", "connecting", "connected", "asked", "over"}

NoCmd == [op |-> "none", dev |-> NoDevice, sid |-> 0]

CliInit == /\ Init
           /\ stage = [c \in Conns |-> "none"]
           /\ cmd = [c \in Conns |-> NoCmd]
           /\ printed = {}

\* list and info; attach; detach, control, bulk and interrupt of a session the
\* operator has been told.
Commands == {[op |-> "other", dev |-> d, sid |-> 0] : d \in Devices}
              \cup {[op |-> "attach", dev |-> d, sid |-> 0] : d \in Devices}
              \cup {[op |-> o, dev |-> p[2], sid |-> p[1]] :
                      o \in {"detach", "transfer"}, p \in printed}

Stage(c, from, to) == stage[c] = from /\ stage' = [stage EXCEPT ![c] = to]

client_session(c, k) == /\ Stage(c, "none", "connecting")
                        /\ cmd' = [cmd EXCEPT ![c] = k]
                        /\ Accept(c)
                        /\ UNCHANGED printed

Hello(c) == /\ stage[c] = "connecting"
            /\ handle_hello(c, TRUE)
            /\ UNCHANGED cliVars

\* An argument that does not parse ends the process once it is connected.
BadArgument(c) == /\ cmd[c].op = "transfer"
                  /\ Stage(c, "connected", "over")
                  /\ UNCHANGED <<vars, cmd, printed>>

\* The handler of a request with a session looks for it among its connection's.
Ask(c) == /\ Stage(c, "connected", "asked")
          /\ LET k == cmd[c]
             IN \/ k.op = "attach" /\ ReceiveDevice(c, "attach", k.dev)
                \/ k.op \in SessionOps /\ ReceiveSession(c, k.op, k.dev, k.sid)
                \/ /\ k.op \in SessionOps => ~Owns(c, k.sid)
                   /\ k.op # "attach"
                   /\ AnswerOther(c)
          /\ UNCHANGED <<cmd, printed>>

\* The process has the reply to its Hello, or to its request, and prints it.
ShowResult(c) ==
  /\ Respond(c)
  /\ IF req[c].op = "hello"
     THEN Stage(c, "connecting", "connected") /\ UNCHANGED printed
     ELSE /\ Stage(c, "asked", "over")
          /\ printed' = CASE req[c].op = "attach" /\ req[c].ok ->
                                printed \cup {<<req[c].sid, req[c].dev>>}
                          [] req[c].op = "detach" /\ req[c].ok ->
                                printed \ {<<req[c].sid, req[c].dev>>}
                          [] OTHER -> printed
  /\ UNCHANGED cmd

\* The process ends, and with it the connection; nothing is sent before.
Exit(c) == /\ Stage(c, "over", "none")
           /\ cmd' = [cmd EXCEPT ![c] = NoCmd]
           /\ Disconnect(c)
           /\ UNCHANGED printed

ServerTask(c) == \/ Exec(c) \/ FinishTransfer(c) \/ cleanup(c)
                 \/ ~up[c] /\ (SendFails(c) \/ Leave(c))

CliNext == \E c \in Conns :
             \/ \E k \in Commands : client_session(c, k)
             \/ Hello(c) \/ BadArgument(c) \/ Ask(c) \/ ShowResult(c) \/ Exit(c)
             \/ ServerTask(c) /\ UNCHANGED cliVars

CliSpec == CliInit /\ [][CliNext]_<<vars, cliVars>>
-----------------------------------------------------------------------------
\* "5. Perform USB transfers using the session ID" (README.md:143), the one
\* that `wolfusb attach` printed: the command that names it gets as far as the
\* device's session (connection.rs:442).
PrintedSessionUsable ==
  [][\A c \in Conns : (stage[c] = "connected" /\ stage'[c] = "asked"
                         /\ <<cmd[c].sid, cmd[c].dev>> \in printed)
                       => req'[c].op = cmd[c].op]_<<vars, cliVars>>
=============================================================================
