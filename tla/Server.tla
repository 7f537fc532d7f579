------------------------------- MODULE Server -------------------------------
(***************************************************************************)
(* The server process: main of server.cc, WebSocketServer::Start with its  *)
(* loop of accept, launch and detach, and the sessions it leaves behind,   *)
(* each of them a SessionLife.  They share the process, the detector that  *)
(* main created and the io_context of the server object.                   *)
(***************************************************************************)
EXTENDS Integers, Sequences, FiniteSets, Functions

CONSTANTS
  Clients,
  MaxOpen,  \* descriptors the process may have open
  MayFail   \* listening, accepting and creating a thread may fail for other reasons

ASSUME ServerAssumption ==
  /\ MaxOpen \in Nat \ {0}
  /\ MayFail \in BOOLEAN

VARIABLES
  main,     \* the main thread
  detector, \* *pvad_inst
  context,  \* ioc_
  queue,    \* clients that have connected and wait for an accept
  socket,   \* the client accepted last, until its thread has started, as a sequence
  lives,    \* the sessions launched
  arrived,  \* history: the clients that connected
  proc      \* the process

vars == <<main, detector, context, queue, socket, lives, arrived, proc>>

Life == INSTANCE SessionLife WITH life <- lives
-----------------------------------------------------------------------------
Init ==
  /\ main = "create"
  /\ detector = "none" /\ context = "none"
  /\ queue = <<>> /\ socket = <<>> /\ lives = <<>> /\ arrived = {}
  /\ proc = "up"

MainGoes(here, there) == proc = "up" /\ main = here /\ main' = there

Running == {c \in DOMAIN lives : lives[c].reader = "running"}

\* The listening socket, the one just accepted and the sessions' own.
Open == 1 + Len(socket) + Cardinality(Running)

\* main: WebRtcVad_Create, and the server object.
Create ==
  /\ MainGoes("create", "listen")
  /\ detector' = "alive" /\ context' = "alive"
  /\ UNCHANGED <<queue, socket, lives, arrived, proc>>

\* Start: the acceptor is opened, bound and listens, or throws.
Listen ==
  /\ \/ MainGoes("listen", "accept")
     \/ MayFail /\ MainGoes("listen", "leave")
  /\ UNCHANGED <<detector, context, queue, socket, lives, arrived, proc>>

\* acceptor.accept returns the client that has waited longest.
Accept ==
  /\ MainGoes("accept", "launch")
  /\ Open < MaxOpen
  /\ queue # <<>>
  /\ socket' = <<Head(queue)>>
  /\ queue' = Tail(queue)
  /\ UNCHANGED <<detector, context, lives, arrived, proc>>

\* It throws, and the exception leaves the loop.
AcceptLeaves ==
  /\ MainGoes("accept", "leave")
  /\ UNCHANGED <<detector, context, queue, socket, lives, arrived, proc>>

\* There is no descriptor for a client, even for one that is still to come.
AcceptThrows == Open = MaxOpen /\ AcceptLeaves

\* Another error.
AcceptFails == MayFail /\ AcceptLeaves

Launches ==
  /\ lives' = [c \in DOMAIN lives \cup {Head(socket)} |->
                 IF c = Head(socket) THEN Life!Born ELSE lives[c]]
  /\ socket' = <<>>
  /\ UNCHANGED <<detector, context, queue, arrived>>

\* A plausible bug: the thread is joined.
LaunchJoins ==
  /\ MainGoes("launch", "accept")
  /\ Running = {}
  /\ Launches
  /\ UNCHANGED proc

\* std::thread t(std::move(handler)); t.detach()
Launch ==
  /\ MainGoes("launch", "accept")
  /\ Launches
  /\ UNCHANGED proc

\* A plausible bug: the exception is caught in the loop, which goes on without the client.
LaunchThrowsCaught ==
  /\ MainGoes("launch", "accept")
  /\ MayFail
  /\ socket' = <<>>
  /\ UNCHANGED <<detector, context, queue, lives, arrived, proc>>

\* The thread is not created: the handler and its socket are destroyed.
LaunchThrows ==
  /\ MainGoes("launch", "leave")
  /\ MayFail
  /\ socket' = <<>>
  /\ UNCHANGED <<detector, context, queue, lives, arrived, proc>>

\* The exception leaves the loop, the acceptor is closed with what waits for it,
\* and Start returns.
Leave ==
  /\ MainGoes("leave", "delete")
  /\ queue' = <<>>
  /\ UNCHANGED <<detector, context, socket, lives, arrived, proc>>

\* delete pvad_inst
Delete ==
  /\ MainGoes("delete", "destroy")
  /\ detector' = "gone"
  /\ UNCHANGED <<context, queue, socket, lives, arrived, proc>>

\* The server object goes out of scope.
Destroy ==
  /\ MainGoes("destroy", "exit")
  /\ context' = "gone"
  /\ UNCHANGED <<detector, queue, socket, lives, arrived, proc>>

\* main returns, and ends the process with all its threads.
Exit ==
  /\ MainGoes("exit", "over")
  /\ proc' = "exited"
  /\ UNCHANGED <<detector, context, queue, socket, lives, arrived>>

\* A client connects; it may come to a server that listens, and comes once.
Connect(c) ==
  /\ proc = "up" /\ main \in {"accept", "launch"}
  /\ c \notin arrived
  /\ arrived' = arrived \cup {c}
  /\ queue' = Append(queue, c)
  /\ UNCHANGED <<main, detector, context, socket, lives, proc>>

\* A step of the threads of a session.
SessionStep(c) ==
  /\ proc = "up"
  /\ proc' \in {"up", "terminated", "killed", "fault"}
  /\ \E new \in Life!Lives :
       /\ Life!StepsTo(lives[c], new, proc')
       /\ lives' = [lives EXCEPT ![c] = new]
  /\ UNCHANGED <<main, detector, context, queue, socket, arrived>>

\* A session uses the detector or the io_context after its end.
Uses(c) ==
  /\ proc = "up"
  /\ \/ lives[c].decoder = "running" /\ detector = "gone"
     \/ lives[c].reader = "running" /\ context = "gone"
  /\ proc' = "fault"
  /\ UNCHANGED <<main, detector, context, queue, socket, lives, arrived>>

Over == proc # "up" /\ UNCHANGED vars

Main ==
  \/ Create \/ Listen \/ Accept \/ AcceptThrows \/ Launch
  \/ Leave \/ Delete \/ Destroy \/ Exit

Next ==
  \/ Main \/ AcceptFails \/ LaunchThrows
  \/ \E c \in Clients : Connect(c)
  \/ \E c \in DOMAIN lives : SessionStep(c) \/ Uses(c)
  \/ Over

\* The main thread is scheduled, and what may fail need not.  A session owes
\* nothing: its client may keep it for ever.
FairSpec == Init /\ [][Next]_vars /\ WF_vars(Main)
-----------------------------------------------------------------------------
(***************************************************************************)
(* Properties                                                              *)
(***************************************************************************)
\* The variables keep their types.
TypeOK ==
  /\ main \in {"create", "listen", "accept", "launch", "leave", "delete", "destroy", "exit", "over"}
  /\ {detector, context} \subseteq {"none", "alive", "gone"}
  /\ queue \in Seq(Clients)
  /\ socket \in Seq(Clients) /\ Len(socket) = IF main = "launch" THEN 1 ELSE 0
  /\ arrived \subseteq Clients
  /\ DOMAIN lives \subseteq arrived
  /\ lives \in [DOMAIN lives -> Life!Lives]
  /\ proc \in {"up", "exited", "terminated", "killed", "fault"}

\* The clients that wait, the one whose thread is being launched before the others.
Waiting == socket \o queue

\* As long as Start is in its loop no client is lost or served twice: whoever
\* connected has a session or waits for one, not both, and waits in one place only.
\* An exception that leaves the loop, of accept or of a launch, drops them all.
NoConnectionLost ==
  main \in {"accept", "launch"} =>
    IsInjective(Waiting) /\ Range(Waiting) = arrived \ DOMAIN lives

\* A client that connects has its session launched, though the sessions before it
\* never end, or the process ends: it does not stay up without serving, since
\* whatever leaves the loop of Start ends main too, and with it every session.
ClientServed ==
  \A c \in Clients : c \in arrived ~> c \in DOMAIN lives \/ proc # "up"
=============================================================================
