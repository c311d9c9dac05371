------------------------------ MODULE WebProxy ------------------------------
(***************************************************************************)
(* ThriftCommunicator: how the web site's views call the server.  Each     *)
(* module of views has one communicator for all its calls; a call makes a  *)
(* transport, opens it, sends, waits and closes, and keeps what it made in *)
(* the communicator.  Django serves requests on several threads, so calls  *)
(* meet between any two assignments.                                       *)
(*                                                                         *)
(* A call stands for the transport it makes, and for the connection it     *)
(* opens: each makes one of either.  A protocol and a client are known by  *)
(* the transport they write to.  What two calls write to one transport at  *)
(* a time does not mingle here.  The server is the one of AtomicCommands,  *)
(* each connection a caller of it.                                         *)
(***************************************************************************)
EXTENDS AtomicCommands, Naturals, Sequences

CONSTANT NoTransport   \* None, and a closed transport

\* What stands for nothing is none of the things it stands beside.
ASSUME ProxyAssumption ==
    /\ NoTransport \notin Caller
    /\ NoSession \notin [call : Caller, session : Session]

VARIABLES
    transport, protocol, client,   \* the communicator's fields
    line,      \* the next line of a call's _perform_in_connection
    request,   \* the command it is to send
    mine,      \* the client it was returned
    got,       \* the answer it received
    opened,    \* the connection a transport has open
    inbox,     \* requests on their way to the server, by connection
    outbox,    \* answers on their way back
    asking,    \* the call whose request the server works on, by connection
    done,      \* history: how often the server has performed a call
    alone      \* history: calls that met no other call, no server's end and no
               \* refused connection

Call == Caller

fields == <<transport, protocol, client>>
serverVars == <<atomicVars, inbox, outbox, asking, done>>
proxyVars == <<serverVars, fields, line, request, mine, got, opened, alone>>

ProxyInit ==
    /\ AtomicInit
    /\ transport = NoTransport /\ protocol = NoTransport /\ client = NoTransport
    /\ line = [c \in Call |-> "call"]
    /\ request = [c \in Call |-> NoCommand]
    /\ mine = [c \in Call |-> NoTransport]
    /\ got = [c \in Call |-> NoSession]
    /\ opened = [c \in Call |-> NoTransport]
    /\ inbox = [c \in Call |-> <<>>]
    /\ outbox = [c \in Call |-> <<>>]
    /\ asking = [c \in Call |-> NoTransport]
    /\ done = [c \in Call |-> 0]
    /\ alone = Call

Goto(c, next) == line' = [line EXCEPT ![c] = next]

\* Its locals go with the call, whether it returns or raises.
End(c) ==
    /\ Goto(c, "ended")
    /\ mine' = [mine EXCEPT ![c] = NoTransport]
    /\ request' = [request EXCEPT ![c] = NoCommand]

\* Transport t has connection k open from here on, or none; answers on the
\* one it had are dropped with it.
Connect(t, k) ==
    /\ opened' = [opened EXCEPT ![t] = k]
    /\ outbox' = IF opened[t] = NoTransport THEN outbox ELSE [outbox EXCEPT ![opened[t]] = <<>>]

UnderWay == {c \in Call : line[c] \notin {"call", "ended"}}

-----------------------------------------------------------------------------
(* A call, assignment by assignment *)

Begin(c, cmd) ==
    /\ line[c] = "call"
    /\ Goto(c, "transport")
    /\ request' = [request EXCEPT ![c] = cmd]
    /\ alone' = IF UnderWay = {} THEN alone ELSE alone \ (UnderWay \union {c})
    /\ UNCHANGED <<serverVars, fields, mine, got, opened>>

MakeTransport(c) ==
    /\ line[c] = "transport"
    /\ transport' = c
    /\ Goto(c, "protocol")
    /\ UNCHANGED <<serverVars, protocol, client, request, mine, got, opened, alone>>

\* Mutant of MakeProtocol: the protocol is made once, like host and port.
KeepProtocol(c) ==
    /\ line[c] = "protocol"
    /\ protocol' = IF protocol = NoTransport THEN transport ELSE protocol
    /\ Goto(c, "open")
    /\ UNCHANGED <<serverVars, transport, client, request, mine, got, opened, alone>>

MakeProtocol(c) ==
    /\ line[c] = "protocol"
    /\ protocol' = transport
    /\ Goto(c, "open")
    /\ UNCHANGED <<serverVars, transport, client, request, mine, got, opened, alone>>

\* The transport in the field, which may be another call's by now; one that
\* is open already loses the connection it had.
Open(c) ==
    /\ line[c] = "open"
    /\ Connect(transport, c)
    /\ Goto(c, "client")
    /\ UNCHANGED <<atomicVars, inbox, asking, done, fields, request, mine, got, alone>>

\* The connection is refused, or not made in time: the transport in the field
\* is left closed, and the call raises the exception.
OpenFails(c) ==
    /\ line[c] = "open"
    /\ Connect(transport, NoTransport)
    /\ End(c)
    /\ alone' = alone \ {c}
    /\ UNCHANGED <<atomicVars, inbox, asking, done, fields, got>>

MakeClient(c) ==
    /\ line[c] = "client"
    /\ client' = protocol
    /\ Goto(c, "return")
    /\ UNCHANGED <<serverVars, transport, protocol, request, mine, got, opened, alone>>

ReturnClient(c) ==
    /\ line[c] = "return"
    /\ mine' = [mine EXCEPT ![c] = client]
    /\ Goto(c, "send")
    /\ UNCHANGED <<serverVars, fields, request, got, opened, alone>>

Connection(c) == opened[mine[c]]

Send(c) ==
    /\ line[c] = "send"
    /\ Connection(c) # NoTransport
    /\ inbox' = [inbox EXCEPT ![Connection(c)] = Append(@, [call |-> c, request |-> request[c]])]
    /\ request' = [request EXCEPT ![c] = NoCommand]
    /\ Goto(c, "receive")
    /\ UNCHANGED <<atomicVars, outbox, asking, done, fields, mine, got, opened, alone>>

\* The next answer on the connection, whosesoever it is: the generated client
\* compares no sequence numbers.  An exception leaves the transport open.
Receive(c) ==
    /\ line[c] = "receive"
    /\ Connection(c) # NoTransport
    /\ outbox[Connection(c)] # <<>>
    /\ LET answer == Head(outbox[Connection(c)])
       IN  /\ got' = [got EXCEPT ![c] = answer]
           /\ IF Threw(answer.session) THEN End(c)
              ELSE Goto(c, "close") /\ UNCHANGED <<mine, request>>
    /\ outbox' = [outbox EXCEPT ![Connection(c)] = Tail(@)]
    /\ UNCHANGED <<atomicVars, inbox, asking, done, fields, opened, alone>>

\* The connection was closed by another call, or lost.
Raise(c) ==
    /\ line[c] \in {"send", "receive"}
    /\ Connection(c) = NoTransport
    /\ End(c)
    /\ UNCHANGED <<serverVars, fields, got, opened, alone>>

\* The transport in the field again.
Close(c) ==
    /\ line[c] = "close"
    /\ Connect(transport, NoTransport)
    /\ End(c)
    /\ UNCHANGED <<atomicVars, inbox, asking, done, fields, got, alone>>

CallStep(c) ==
    \/ MakeTransport(c) \/ MakeProtocol(c) \/ Open(c) \/ OpenFails(c)
    \/ MakeClient(c) \/ ReturnClient(c) \/ Send(c) \/ Receive(c) \/ Raise(c) \/ Close(c)

-----------------------------------------------------------------------------
(* The server and the network *)

\* TNonblockingServer takes one request of a connection at a time.
Take(k) ==
    /\ inbox[k] # <<>>
    /\ Ask(k, Head(inbox[k]).request)
    /\ asking' = [asking EXCEPT ![k] = Head(inbox[k]).call]
    /\ inbox' = [inbox EXCEPT ![k] = Tail(@)]
    /\ UNCHANGED <<outbox, done, fields, line, request, mine, got, opened, alone>>

Serve(k) ==
    /\ \/ Perform(k) /\ done' = [done EXCEPT ![asking[k]] = @ + 1]
       \/ Fail(k) /\ UNCHANGED done
    /\ UNCHANGED <<inbox, outbox, asking, fields, line, request, mine, got, opened, alone>>

Reply(k) ==
    /\ Answer(k)
    /\ outbox' = IF \A t \in Call : opened[t] # k THEN outbox
                  ELSE [outbox EXCEPT ![k] =
                          Append(@, [call |-> asking[k], session |-> told[k]])]
    /\ asking' = [asking EXCEPT ![k] = NoTransport]
    /\ UNCHANGED <<inbox, done, fields, line, request, mine, got, opened, alone>>

ServerStep(k) == Take(k) \/ Serve(k) \/ Reply(k)

\* The server ends, and every connection with it.
ServerEnds ==
    /\ Restart
    /\ opened' = [c \in Call |-> NoTransport]
    /\ inbox' = [c \in Call |-> <<>>]
    /\ outbox' = [c \in Call |-> <<>>]
    /\ asking' = [c \in Call |-> NoTransport]
    /\ alone' = alone \ UnderWay
    /\ UNCHANGED <<done, fields, line, request, mine, got>>

ProxyNext ==
    \/ \E c \in Call :
          \/ \E cmd \in Command : Begin(c, cmd)
          \/ CallStep(c)
          \/ ServerStep(c)
    \/ ServerEnds

ProxySpec == ProxyInit /\ [][ProxyNext]_proxyVars

-----------------------------------------------------------------------------
(* Properties *)

\* A call that is not refused a connection and meets no other call of its
\* module and no end of the server on its way gets the answer to its own
\* request, and what it is told is done was done once, whatever the calls
\* before it have left in the communicator: those that met, raised exceptions,
\* could not connect or lost the server.
OwnAnswerIfAlone ==
    \A c \in alone : line[c] = "ended" =>
        /\ got[c] # NoSession
        /\ got[c].call = c
        /\ Returned(got[c].session) => done[c] = 1
=============================================================================
