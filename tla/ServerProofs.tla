---------------------------- MODULE ServerProofs ----------------------------
(***************************************************************************)
(* Proofs about module Server, for any set of clients and any number of    *)
(* descriptors.                                                            *)
(***************************************************************************)
EXTENDS Server, SequenceTheorems, TLAPS

Mains == {"create", "listen", "accept", "launch", "leave", "delete", "destroy", "exit", "over"}

\* Before the loop of Start is left.
Serving == main \in {"create", "listen", "accept", "launch"}

\* Who waits, and who was accepted last, has connected.
WaitingArrived == queue \in Seq(arrived) /\ socket \in Seq(arrived)

\* Until the loop of Start is left, who connected waits in one place or has a session.
NoneLost == Serving => IsInjective(Waiting) /\ Range(Waiting) = arrived \ DOMAIN lives

ServerInv == TypeOK /\ WaitingArrived /\ NoneLost

\* Sequences of clients.
LEMMA SeqFacts ==
  ASSUME NEW S, NEW s \in Seq(S)
  PROVE  /\ s # <<>> => Head(s) \in S /\ Tail(s) \in Seq(S)
         /\ Len(s) = 1 => s # <<>>
         /\ \A e \in S : Append(s, e) \in Seq(S) /\ <<e>> \in Seq(S) /\ Len(<<e>>) = 1
         /\ <<>> \in Seq(S) /\ Len(<<>>) = 0
         /\ \A T : S \subseteq T => s \in Seq(T)
<1>1. s # <<>> => Head(s) \in S /\ Tail(s) \in Seq(S)
  OBVIOUS
<1>2. Len(s) = 1 => s # <<>>
  OBVIOUS
<1>3. \A e \in S : Append(s, e) \in Seq(S) /\ <<e>> \in Seq(S) /\ Len(<<e>>) = 1
  OBVIOUS
<1>4. <<>> \in Seq(S) /\ Len(<<>>) = 0
  OBVIOUS
<1>5. \A T : S \subseteq T => s \in Seq(T)
  OBVIOUS
<1> QED
  BY <1>1, <1>2, <1>3, <1>4, <1>5

\* What is in a sequence, and whether twice, when it gets or loses an element.
LEMMA OneMoreWaits ==
  ASSUME NEW S, NEW s \in Seq(S), NEW e \in S, IsInjective(s), e \notin Range(s)
  PROVE  IsInjective(Append(s, e)) /\ Range(Append(s, e)) = Range(s) \cup {e}
<1> DEFINE t == Append(s, e)
<1>1. /\ Len(s) \in Nat /\ DOMAIN s = 1..Len(s) /\ DOMAIN t = 1..(Len(s) + 1)
      /\ t[Len(s) + 1] = e /\ \A k \in 1..Len(s) : t[k] = s[k]
  OBVIOUS
<1>2. \A k \in DOMAIN t : k \in DOMAIN s \/ k = Len(s) + 1
  BY <1>1
<1> HIDE DEF t
<1>3. \A k \in DOMAIN s : s[k] # e
  BY DEF Range
<1>4. IsInjective(t)
  BY <1>1, <1>2, <1>3 DEF IsInjective
<1>5. Range(t) = Range(s) \cup {e}
  BY <1>1, <1>2 DEF Range
<1> QED
  BY <1>4, <1>5 DEF t

LEMMA FirstLeaves ==
  ASSUME NEW S, NEW s \in Seq(S), s # <<>>, IsInjective(s)
  PROVE  IsInjective(Tail(s)) /\ Range(Tail(s)) = Range(s) \ {Head(s)}
<1> DEFINE t == Tail(s)
           n == Len(s)
<1>1. /\ n \in Nat /\ n > 0 /\ DOMAIN s = 1..n /\ DOMAIN t = 1..(n - 1)
      /\ \A k \in 1..(n - 1) : t[k] = s[k + 1]
      /\ Head(s) = s[1]
  OBVIOUS
<1> HIDE DEF t, n
<1>2. IsInjective(t)
  BY <1>1 DEF IsInjective
<1>3. ASSUME NEW k \in DOMAIN t
      PROVE  t[k] \in Range(s) /\ t[k] # Head(s)
  BY <1>1, <1>3 DEF Range, IsInjective
<1>4. ASSUME NEW k \in DOMAIN s, s[k] # Head(s)
      PROVE  s[k] \in Range(t)
  <2>1. k - 1 \in DOMAIN t /\ t[k - 1] = s[k]
    BY <1>1, <1>4
  <2> QED
    BY <2>1 DEF Range
<1>5. Range(t) = Range(s) \ {Head(s)}
  BY <1>3, <1>4 DEF Range
<1> QED
  BY <1>2, <1>5 DEF t

\* A launched session adds a life and changes no other.
LEMMA LaunchedLives ==
  ASSUME Launches, lives \in [DOMAIN lives -> Life!Lives]
  PROVE  /\ DOMAIN lives' = DOMAIN lives \cup {Head(socket)}
         /\ lives' \in [DOMAIN lives' -> Life!Lives]
<1>1. lives' = [c \in DOMAIN lives \cup {Head(socket)} |->
                  IF c = Head(socket) THEN Life!Born ELSE lives[c]]
  BY DEF Launches
<1>2. Life!Born \in Life!Lives
  BY DEF Life!Born, Life!Lives
<1> QED
  BY <1>1, <1>2

LEMMA InitServer == Init => ServerInv
<1> SUFFICES ASSUME Init PROVE ServerInv
  OBVIOUS
<1>1. \A S : <<>> \in Seq(S) /\ Len(<<>>) = 0
  OBVIOUS
<1>2. lives = <<>> /\ DOMAIN <<>> = {} /\ <<>> \in [{} -> Life!Lives]
  BY DEF Init
<1>3. TypeOK
  BY <1>1, <1>2 DEF Init, TypeOK
<1>4. WaitingArrived
  BY <1>1 DEF Init, WaitingArrived
<1>5. NoneLost
  <2>1. Waiting = <<>> /\ arrived = {}
    BY DEF Init, Waiting
  <2>2. IsInjective(<<>>) /\ Range(<<>>) = {}
    BY DEF IsInjective, Range
  <2> QED
    BY <2>1, <2>2 DEF NoneLost
<1> QED
  BY <1>3, <1>4, <1>5 DEF ServerInv

\* The steps of the main thread move a client from one place to the next, or leave
\* the loop.
LEMMA MainLosesNone ==
  ASSUME ServerInv, Main \/ AcceptFails \/ LaunchThrows
  PROVE  NoneLost'
<1> USE DEF MainGoes
<1>1. /\ queue \in Seq(Clients) /\ socket \in Seq(Clients)
      /\ Len(socket) = IF main = "launch" THEN 1 ELSE 0
      /\ NoneLost
  BY DEF ServerInv, TypeOK
<1>2. CASE ~ Serving'
  BY <1>2 DEF NoneLost
<1>3. CASE Create \/ Listen
  BY <1>1, <1>3 DEF Create, Listen, Serving, NoneLost, Waiting
<1>4. CASE Accept
  <2>1. /\ queue # <<>> /\ socket' = <<Head(queue)>> /\ queue' = Tail(queue)
        /\ main = "accept" /\ UNCHANGED <<arrived, lives>>
    BY <1>4 DEF Accept
  <2>2. socket = <<>>
    BY <1>1, <2>1
  <2>3. queue = <<Head(queue)>> \o Tail(queue) /\ queue = <<>> \o queue
    BY <1>1, <2>1
  <2>4. Waiting' = Waiting
    BY <2>1, <2>2, <2>3 DEF Waiting
  <2> QED
    BY <1>1, <2>1, <2>4 DEF NoneLost, Serving
<1>5. CASE Launch
  <2>1. /\ main = "launch" /\ socket' = <<>> /\ UNCHANGED <<queue, arrived>>
        /\ DOMAIN lives' = DOMAIN lives \cup {Head(socket)}
    BY <1>5 DEF Launch, Launches
  <2>2. IsInjective(Waiting) /\ Range(Waiting) = arrived \ DOMAIN lives
    BY <1>1, <2>1 DEF NoneLost, Serving
  <2>3. /\ Waiting \in Seq(Clients) /\ Waiting # <<>>
        /\ Head(Waiting) = Head(socket) /\ Tail(Waiting) = queue
    <3>1. Len(socket) = 1 /\ socket = <<Head(socket)>> /\ Head(socket) \in Clients
      <4>1. Len(socket) = 1
        BY <1>1, <2>1
      <4> DEFINE s == socket
                 t == <<Head(socket)>>
      <4>2. s \in Seq(Clients) /\ Len(s) = 1
        BY <1>1, <4>1
      <4>3. Head(socket) = s[1] /\ s[1] \in Clients
        <5> HIDE DEF s
        <5>1. Head(s) = s[1] /\ s[1] \in Clients
          BY <4>2
        <5> QED
          BY <5>1 DEF s
      <4>4. t \in Seq(Clients) /\ Len(t) = 1 /\ t[1] = s[1]
        BY <4>3
      <4> HIDE DEF s, t
      <4>5. \A k \in 1..Len(s) : s[k] = t[k]
        BY <4>2, <4>4
      <4>6. s = t
        BY <4>2, <4>4, <4>5, SeqEqual
      <4> QED
        BY <4>1, <4>3, <4>6 DEF s, t
    <3> DEFINE h == Head(socket)
    <3>2. /\ <<h>> \o queue \in Seq(Clients) /\ Len(<<h>> \o queue) = Len(queue) + 1
          /\ Head(<<h>> \o queue) = h /\ Tail(<<h>> \o queue) = queue
      BY <1>1, <3>1
    <3>3. Waiting = <<h>> \o queue
      BY <3>1 DEF Waiting
    <3> HIDE DEF h
    <3>4. Len(queue) + 1 # 0
      BY <1>1
    <3> QED
      BY <3>2, <3>3, <3>4 DEF h
  <2>4. IsInjective(queue) /\ Range(queue) = Range(Waiting) \ {Head(socket)}
    BY <2>2, <2>3, FirstLeaves
  <2>5. Waiting' = queue
    BY <1>1, <2>1 DEF Waiting
  <2> QED
    BY <2>1, <2>2, <2>4, <2>5 DEF NoneLost
<1>6. CASE AcceptThrows \/ AcceptFails \/ LaunchThrows
  BY <1>2, <1>6 DEF AcceptThrows, AcceptFails, AcceptLeaves, LaunchThrows, Serving
<1>7. CASE Leave \/ Delete \/ Destroy \/ Exit
  BY <1>2, <1>7 DEF Leave, Delete, Destroy, Exit, Serving
<1> QED
  BY <1>3, <1>4, <1>5, <1>6, <1>7 DEF Main

\* The steps of the main thread keep the types, and what waits has connected.
LEMMA MainStep ==
  ASSUME ServerInv, Main \/ AcceptFails \/ LaunchThrows
  PROVE  ServerInv'
<1> USE DEF Mains
<1>1. /\ main \in Mains /\ detector \in {"none", "alive", "gone"}
      /\ context \in {"none", "alive", "gone"}
      /\ queue \in Seq(arrived) /\ socket \in Seq(arrived)
      /\ Len(socket) = IF main = "launch" THEN 1 ELSE 0
      /\ arrived \subseteq Clients /\ DOMAIN lives \subseteq arrived
      /\ lives \in [DOMAIN lives -> Life!Lives]
      /\ proc = "up"
  BY DEF ServerInv, TypeOK, WaitingArrived, Main, Create, Listen, Accept, AcceptThrows, AcceptFails,
         AcceptLeaves, Launch, LaunchThrows, Leave, Delete, Destroy, Exit, MainGoes
<1>2. /\ main' \in Mains /\ detector' \in {"none", "alive", "gone"}
      /\ context' \in {"none", "alive", "gone"}
      /\ arrived' = arrived
      /\ proc' \in {"up", "exited"}
  <2>1. CASE Create \/ Listen \/ Accept
    BY <1>1, <2>1 DEF Create, Listen, Accept, MainGoes
  <2>2. CASE AcceptThrows \/ AcceptFails
    BY <1>1, <2>2 DEF AcceptThrows, AcceptFails, AcceptLeaves, MainGoes
  <2>3. CASE Launch \/ LaunchThrows
    BY <1>1, <2>3 DEF Launch, LaunchThrows, Launches, MainGoes
  <2>4. CASE Leave \/ Delete \/ Destroy \/ Exit
    BY <1>1, <2>4 DEF Leave, Delete, Destroy, Exit, MainGoes
  <2> QED
    BY <2>1, <2>2, <2>3, <2>4 DEF Main
<1>3. /\ queue' \in Seq(arrived) /\ socket' \in Seq(arrived)
      /\ Len(socket') = IF main' = "launch" THEN 1 ELSE 0
      /\ DOMAIN lives' \subseteq arrived /\ DOMAIN lives \subseteq DOMAIN lives'
      /\ lives' \in [DOMAIN lives' -> Life!Lives]
  <2>1. CASE Accept
    <3>1. /\ queue # <<>> /\ socket' = <<Head(queue)>> /\ queue' = Tail(queue)
          /\ main' = "launch" /\ lives' = lives
      BY <2>1 DEF Accept, MainGoes
    <3>2. Head(queue) \in arrived /\ Tail(queue) \in Seq(arrived)
      BY <1>1, <3>1, SeqFacts
    <3>3. <<Head(queue)>> \in Seq(arrived) /\ Len(<<Head(queue)>>) = 1
      BY <1>1, <3>2, SeqFacts
    <3> QED
      BY <1>1, <3>1, <3>2, <3>3
  <2>2. CASE Launch
    <3>1. Launches /\ main = "launch" /\ main' = "accept" /\ socket' = <<>> /\ queue' = queue
      BY <2>2 DEF Launch, Launches, MainGoes
    <3>2. Head(socket) \in arrived
      BY <1>1, <3>1, SeqFacts
    <3>3. /\ DOMAIN lives' = DOMAIN lives \cup {Head(socket)}
          /\ lives' \in [DOMAIN lives' -> Life!Lives]
      BY <1>1, <3>1, LaunchedLives
    <3>4. <<>> \in Seq(arrived) /\ Len(<<>>) = 0
      BY <1>1, SeqFacts
    <3> QED
      BY <1>1, <3>1, <3>2, <3>3, <3>4
  <2>3. CASE LaunchThrows \/ Leave
    <3>1. <<>> \in Seq(arrived) /\ Len(<<>>) = 0
      BY <1>1, SeqFacts
    <3>2. /\ main' # "launch" /\ lives' = lives
          /\ \/ socket' = <<>> /\ queue' = queue
             \/ main # "launch" /\ socket' = socket /\ queue' = <<>>
      BY <2>3 DEF LaunchThrows, Leave, MainGoes
    <3>3. /\ queue' \in Seq(arrived) /\ socket' \in Seq(arrived)
          /\ Len(socket') = 0
      BY <1>1, <3>1, <3>2
    <3> QED
      BY <1>1, <3>2, <3>3
  <2>4. CASE Create \/ Listen \/ AcceptThrows \/ AcceptFails \/ Delete \/ Destroy \/ Exit
    BY <1>1, <2>4
    DEF Create, Listen, AcceptThrows, AcceptFails, AcceptLeaves, Delete, Destroy, Exit, MainGoes
  <2> QED
    BY <2>1, <2>2, <2>3, <2>4 DEF Main
<1>4. queue' \in Seq(Clients) /\ socket' \in Seq(Clients)
  BY <1>1, <1>3, SeqFacts
<1>5. TypeOK' /\ WaitingArrived'
  BY <1>1, <1>2, <1>3, <1>4 DEF TypeOK, WaitingArrived
<1> QED
  BY <1>5, MainLosesNone DEF ServerInv

\* The steps of a session, which may end the process, leave the others alone.
LEMMA SessionsStep ==
  ASSUME ServerInv, NEW c \in DOMAIN lives, SessionStep(c) \/ Uses(c)
  PROVE  ServerInv'
<1>1. /\ UNCHANGED <<main, detector, context, queue, socket, arrived>>
      /\ proc = "up" /\ proc' \in {"up", "terminated", "killed", "fault"}
  BY DEF SessionStep, Uses
<1>2. DOMAIN lives' = DOMAIN lives /\ lives' \in [DOMAIN lives -> Life!Lives]
  <2>1. lives \in [DOMAIN lives -> Life!Lives]
    BY DEF ServerInv, TypeOK
  <2>2. CASE SessionStep(c)
    <3>1. PICK new \in Life!Lives : lives' = [lives EXCEPT ![c] = new]
      BY <2>2 DEF SessionStep
    <3> QED
      BY <2>1, <3>1
  <2>3. CASE Uses(c)
    BY <2>1, <2>3 DEF Uses
  <2> QED
    BY <2>2, <2>3
<1>3. TypeOK' /\ WaitingArrived'
  BY <1>1, <1>2 DEF ServerInv, TypeOK, WaitingArrived
<1>4. NoneLost'
  BY <1>1, <1>2 DEF ServerInv, NoneLost, Serving, Waiting
<1> QED
  BY <1>3, <1>4 DEF ServerInv

\* A client comes.
LEMMA ConnectStep ==
  ASSUME ServerInv, NEW c \in Clients, Connect(c)
  PROVE  ServerInv'
<1>1. /\ UNCHANGED <<main, detector, context, socket, lives, proc>>
      /\ arrived' = arrived \cup {c} /\ queue' = Append(queue, c)
  BY DEF Connect
<1>2. queue \in Seq(arrived) /\ socket \in Seq(arrived)
  BY DEF ServerInv, WaitingArrived
<1>3. queue \in Seq(arrived \cup {c}) /\ socket' \in Seq(arrived \cup {c})
  BY <1>1, <1>2, SeqFacts
<1>4. queue' \in Seq(arrived')
  BY <1>1, <1>3, SeqFacts
<1>5. arrived' \subseteq Clients /\ DOMAIN lives' \subseteq arrived'
  BY <1>1 DEF ServerInv, TypeOK
<1>6. queue' \in Seq(Clients)
  BY <1>4, <1>5, SeqFacts
<1>7. TypeOK' /\ WaitingArrived'
  BY <1>1, <1>3, <1>4, <1>5, <1>6 DEF ServerInv, TypeOK, WaitingArrived
<1>8. NoneLost'
  <2> SUFFICES ASSUME Serving'
               PROVE  IsInjective(Waiting') /\ Range(Waiting') = arrived' \ DOMAIN lives'
    BY DEF NoneLost
  <2>1. IsInjective(Waiting) /\ Range(Waiting) = arrived \ DOMAIN lives
    BY <1>1 DEF ServerInv, NoneLost, Serving
  <2>2. c \notin arrived /\ DOMAIN lives \subseteq arrived
    BY DEF Connect, ServerInv, TypeOK
  <2>3. Waiting \in Seq(arrived') /\ Waiting' = Append(Waiting, c)
    <3> DEFINE S == arrived'
    <3>1. queue \in Seq(S) /\ socket \in Seq(S) /\ c \in S
      BY <1>1, <1>3
    <3> HIDE DEF S
    <3>2. socket \o queue \in Seq(S) /\ socket \o Append(queue, c) = Append(socket \o queue, c)
      BY <3>1
    <3> QED
      BY <1>1, <3>2 DEF Waiting, S
  <2>4. /\ IsInjective(Append(Waiting, c))
        /\ Range(Append(Waiting, c)) = Range(Waiting) \cup {c}
    BY <1>1, <2>1, <2>2, <2>3, OneMoreWaits
  <2> QED
    BY <1>1, <2>1, <2>2, <2>3, <2>4
<1> QED
  BY <1>7, <1>8 DEF ServerInv

LEMMA ServerInvariance == FairSpec => []ServerInv
<1>1. ServerInv /\ [Next]_vars => ServerInv'
  <2> SUFFICES ASSUME ServerInv, [Next]_vars PROVE ServerInv'
    OBVIOUS
  <2>1. CASE Over \/ UNCHANGED vars
    BY <2>1
    DEF Over, vars, ServerInv, TypeOK, WaitingArrived, NoneLost, Serving, Waiting
  <2>2. CASE \E c \in Clients : Connect(c)
    BY <2>2, ConnectStep
  <2>3. CASE \E c \in DOMAIN lives : SessionStep(c) \/ Uses(c)
    BY <2>3, SessionsStep
  <2> QED
    BY <2>1, <2>2, <2>3, MainStep DEF Next
<1> QED
  BY <1>1, InitServer, PTL DEF FairSpec

\* The variables keep their types: who has a session has connected, and a socket is
\* held exactly while its thread is launched.
THEOREM TypeCorrect == FairSpec => []TypeOK
<1>1. ServerInv => TypeOK
  BY DEF ServerInv
<1> QED
  BY <1>1, ServerInvariance, PTL

\* For any clients and any number of descriptors, in whatever order connections come,
\* are accepted and launched: until its loop is left Start loses none of them.
THEOREM NoneIsLost == FairSpec => []NoConnectionLost
<1>1. ServerInv => NoConnectionLost
  BY DEF ServerInv, NoneLost, Serving, NoConnectionLost
<1> QED
  BY <1>1, ServerInvariance, PTL
=============================================================================
