-------------------------- MODULE HttpaudioProofs --------------------------
(***************************************************************************)
(* Proofs about module Httpaudio, for every value of its constants: any    *)
(* responses, well-formed or not, any audio and any text to decode.        *)
(***************************************************************************)
EXTENDS Httpaudio, FiniteSetTheorems, TLAPS

\* The constants' types.
LEMMA ConstantTypes == Responses \subseteq Seq(Unit) /\ Sends \in Nat
BY HttpClientAssumption DEF HttpClientAssumption

Pcs == {"off", "connect", "write", "done", "finish", "answer", "destroy", "over"} \cup Reading

\* What the post reads and how far it is; there is content to count while it counts.
ReadInv ==
  /\ c_pc \in Pcs
  /\ unsent \in 0..Sends
  /\ status \in Nat /\ headers \subseteq Unit /\ body \in Seq(Unit) /\ length \in Nat
  /\ peer \in {"open", "closed", "gone", "reset"}
  /\ script \in Seq(Unit) /\ wire \in Seq(Unit) /\ response \in Responses
  /\ c_pc = "counted" => length > 0

\* The client has a descriptor exactly if its number is the client's; it has none
\* before it connects and after send.
SocketInv ==
  /\ socket_ \in {"invalid", "valid"} /\ number \in {"free", "client", "others"}
  /\ socket_ = "valid" <=> number = "client"
  /\ c_pc \in {"off", "connect"} => number = "free"
  /\ c_pc \in {"answer", "destroy", "over"} => socket_ = "invalid"

Flags == ret \in BOOLEAN /\ failed \in BOOLEAN /\ killed \in BOOLEAN

PostInv == ReadInv /\ SocketInv /\ Flags

\* It holds at first.
LEMMA InitPost == Init => PostInv
<1> SUFFICES ASSUME Init PROVE PostInv
  OBVIOUS
<1>1. \A S : <<>> \in Seq(S)
  OBVIOUS
<1>2. ReadInv
  <2>1. /\ script \in Seq(Unit) /\ response \in Responses /\ wire = <<>> /\ body = <<>>
        /\ c_pc = "off" /\ unsent = Sends /\ status = 0 /\ headers = {} /\ length = 0
        /\ peer = "open"
    BY ConstantTypes DEF Init, InitAt
  <2>2. wire \in Seq(Unit) /\ body \in Seq(Unit)
    BY <1>1, <2>1
  <2> QED
    BY <2>1, <2>2, ConstantTypes DEF ReadInv, Pcs
<1>3. SocketInv
  BY DEF Init, InitAt, SocketInv
<1>4. Flags
  BY DEF Init, InitAt, Flags
<1> QED
  BY <1>2, <1>3, <1>4 DEF PostInv

\* A unit that is read has its types.
LEMMA UnitTypes ==
  ASSUME wire \in Seq(Unit), NEW unit \in {wire[k] : k \in DOMAIN wire \cap {1}}
  PROVE  unit \in Unit /\ unit[2] \in Nat /\ Tail(wire) \in Seq(Unit)
<1>1. unit \in Unit /\ Tail(wire) \in Seq(Unit)
  OBVIOUS
<1> QED
  BY <1>1 DEF Unit

\* The content is read in one of five ways, and counted only if there is some.
LEMMA ContentKnown ==
  ASSUME headers \subseteq Unit
  PROVE  /\ ContentBy \in {"done", "finish", "size", "rest", "counted"}
         /\ ContentBy = "counted" => ContentLength \in Nat /\ ContentLength > 0
<1>1. HasHeader("length") => ContentLength \in Nat
  BY DEF HasHeader, ContentLength, Unit
<1> QED
  BY <1>1 DEF ContentBy

\* What is read keeps its types.
LEMMA UnitStep ==
  ASSUME PostInv, NEW unit \in {wire[k] : k \in DOMAIN wire \cap {1}},
         \/ read_response_line(unit) \/ SkipLine(unit) \/ ReadHeader(unit) \/ EndHeaders(unit)
         \/ ReadCounted(unit) \/ ReadRest(unit)
         \/ ReadSize(unit) \/ EndChunk(unit) \/ ReadTrailer(unit)
  PROVE  PostInv' /\ UNCHANGED number
<1>1. unit \in Unit /\ unit[2] \in Nat /\ Tail(wire) \in Seq(Unit)
  BY UnitTypes DEF PostInv, ReadInv
<1>2. /\ wire' = Tail(wire)
      /\ UNCHANGED <<unsent, socket_, number, peer, script, response, failed, killed>>
  BY DEF read_response_line, SkipLine, ReadHeader, EndHeaders, ReadCounted, ReadRest, ReadSize,
         EndChunk, ReadTrailer, Reads
<1>3. UNCHANGED ret
  BY DEF read_response_line, SkipLine, ReadHeader, EndHeaders, ReadCounted, ReadRest, ReadSize,
         EndChunk, ReadTrailer, res
<1>4. /\ c_pc \in Reading
      /\ c_pc' \in {"finish", "done"} \cup Reading
      /\ status' \in Nat /\ headers' \subseteq Unit /\ body' \in Seq(Unit) /\ length' \in Nat
      /\ c_pc' = "counted" => length' > 0
  <2>0. /\ status \in Nat /\ headers \subseteq Unit /\ body \in Seq(Unit) /\ length \in Nat
        /\ c_pc = "counted" => length > 0
    BY DEF PostInv, ReadInv
  <2>1. CASE read_response_line(unit) \/ SkipLine(unit) \/ EndChunk(unit) \/ ReadTrailer(unit)
    BY <1>1, <2>0, <2>1 DEF read_response_line, SkipLine, EndChunk, ReadTrailer, res, Reading
  <2>2. CASE ReadHeader(unit)
    BY <1>1, <2>0, <2>2 DEF ReadHeader, Reading
  <2>3. CASE EndHeaders(unit)
    BY <2>0, <2>3, ContentKnown DEF EndHeaders, Reading
  <2>4. CASE ReadCounted(unit)
    BY <1>1, <2>0, <2>4 DEF ReadCounted, Reading
  <2>5. CASE ReadRest(unit)
    BY <1>1, <2>0, <2>5 DEF ReadRest, Reading
  <2>6. CASE ReadSize(unit)
    BY <1>1, <2>0, <2>6 DEF ReadSize, Reading
  <2> QED
    BY <2>1, <2>2, <2>3, <2>4, <2>5, <2>6
<1>5. ReadInv'
  BY <1>1, <1>2, <1>4 DEF PostInv, ReadInv, Pcs
<1>6. SocketInv'
  BY <1>2, <1>4 DEF PostInv, SocketInv, Reading
<1>7. Flags'
  BY <1>2, <1>3 DEF PostInv, Flags
<1> QED
  BY <1>2, <1>5, <1>6, <1>7 DEF PostInv

\* The other steps of the client: only those that close may give up the number.
Quiet == UNCHANGED <<status, headers, body, length, script, wire, response>>

\* The client keeps the invariant, and leaves a number that is another's.
LEMMA ClientStep ==
  ASSUME PostInv, Client
  PROVE  PostInv' /\ (number = "others" => number' = "others")
<1>1. ASSUME NEW unit \in {wire[k] : k \in DOMAIN wire \cap {1}},
             \/ read_response_line(unit) \/ SkipLine(unit) \/ ReadHeader(unit) \/ EndHeaders(unit)
             \/ ReadCounted(unit) \/ ReadRest(unit)
             \/ ReadSize(unit) \/ EndChunk(unit) \/ ReadTrailer(unit)
      PROVE  PostInv' /\ (number = "others" => number' = "others")
  BY <1>1, UnitStep
<1>2. CASE Connect
  <2>1. /\ Quiet /\ UNCHANGED <<unsent, peer>> /\ c_pc = "connect"
        /\ c_pc' \in {"write", "answer"}
        /\ \/ c_pc' = "write" /\ socket_' = "valid" /\ number' = "client"
           \/ c_pc' = "answer" /\ UNCHANGED <<socket_, number>>
    BY <1>2 DEF Connect, At, Quiet, res, remote
  <2>2. ReadInv'
    BY <2>1 DEF Quiet, PostInv, ReadInv, Pcs
  <2>3. SocketInv' /\ (number = "others" => number' = "others")
    BY <2>1 DEF PostInv, SocketInv
  <2>4. Flags'
    BY <1>2 DEF Connect, At, PostInv, Flags
  <2> QED
    BY <2>2, <2>3, <2>4 DEF PostInv
<1>3. CASE Write \/ WriteFails \/ WriteSignals \/ Written
  <2>1. /\ Quiet /\ UNCHANGED <<socket_, number>>
        /\ c_pc = "write" /\ c_pc' \in {"write", "finish", "line"}
        /\ unsent' \in 0..Sends /\ peer' \in {"open", "closed", "gone", "reset"}
    BY <1>3, ConstantTypes
    DEF Write, WriteFails, WriteSignals, Written, At, Quiet, res, remote, PostInv, ReadInv
  <2>2. ReadInv'
    BY <2>1 DEF Quiet, PostInv, ReadInv, Pcs, Reading
  <2>3. SocketInv'
    BY <2>1 DEF PostInv, SocketInv
  <2>4. Flags'
    BY <1>3 DEF Write, WriteFails, WriteSignals, Written, PostInv, Flags
  <2> QED
    BY <2>1, <2>2, <2>3, <2>4 DEF PostInv
<1>4. CASE ReadFails \/ ReadsTooLittle \/ EndRest
  <2>1. /\ Quiet /\ UNCHANGED <<unsent, peer, socket_, number>>
        /\ c_pc \in Reading /\ c_pc' \in {"finish", "done"}
    BY <1>4 DEF ReadFails, ReadsTooLittle, EndRest, Quiet, res, remote, Reading
  <2>2. ReadInv'
    BY <2>1 DEF Quiet, PostInv, ReadInv, Pcs
  <2>3. SocketInv'
    BY <2>1 DEF PostInv, SocketInv, Reading
  <2>4. Flags'
    BY <1>4 DEF ReadFails, ReadsTooLittle, EndRest, PostInv, Flags
  <2> QED
    BY <2>1, <2>2, <2>3, <2>4 DEF PostInv
<1>5. CASE Respond \/ Finish \/ Destroy
  <2>1. /\ Quiet /\ UNCHANGED <<unsent, peer>>
        /\ \/ /\ c_pc' = "finish" /\ c_pc = "done"
              /\ close_socket \/ UNCHANGED <<socket_, number>>
           \/ c_pc' \in {"answer", "over"} /\ close_socket
    BY <1>5 DEF Respond, Finish, Destroy, At, Quiet, res, remote
  <2>2. ReadInv'
    BY <2>1 DEF Quiet, PostInv, ReadInv, Pcs
  <2>3. SocketInv' /\ (number = "others" => number' = "others")
    BY <2>1 DEF PostInv, SocketInv, close_socket
  <2>4. Flags'
    BY <1>5 DEF Respond, Finish, Destroy, PostInv, Flags
  <2> QED
    BY <2>2, <2>3, <2>4 DEF PostInv
<1> QED
  BY <1>1, <1>2, <1>3, <1>4, <1>5 DEF Client

\* The recogniser and the other threads: what is sent are units of the response.
LEMMA WorldStep ==
  ASSUME PostInv, Recogniser \/ Others
  PROVE  PostInv'
<1>1. CASE Recogniser
  <2>1. UNCHANGED <<c_pc, unsent, socket_, number, status, headers, body, length, response>>
    BY <1>1 DEF Recogniser, Send, Drip, Close, res
  <2>2. /\ peer' \in {"open", "closed", "gone", "reset"}
        /\ script' \in Seq(Unit) /\ wire' \in Seq(Unit)
    <3>1. CASE Send
      BY <3>1 DEF Send, PostInv, ReadInv
    <3>2. CASE Drip
      BY <3>2 DEF Drip, PostInv, ReadInv
    <3>3. CASE Close
      BY <3>3 DEF Close, PostInv, ReadInv
    <3> QED
      BY <1>1, <3>1, <3>2, <3>3 DEF Recogniser
  <2>3. ReadInv' /\ SocketInv'
    BY <2>1, <2>2 DEF PostInv, ReadInv, SocketInv
  <2>4. Flags'
    BY <1>1 DEF Recogniser, Send, Drip, Close, PostInv, Flags
  <2> QED
    BY <2>3, <2>4 DEF PostInv
<1>2. CASE Others
  <2>1. /\ Quiet /\ UNCHANGED <<c_pc, unsent, socket_, peer>>
        /\ \/ number = "free" /\ number' = "others" /\ c_pc \notin {"off", "connect"}
           \/ number = "others" /\ number' = "free"
    BY <1>2 DEF Others, OthersOpen, OthersClose, Quiet, res, remote
  <2>2. ReadInv'
    BY <2>1 DEF Quiet, PostInv, ReadInv
  <2>3. SocketInv'
    BY <2>1 DEF PostInv, SocketInv
  <2>4. Flags'
    BY <1>2 DEF Others, OthersOpen, OthersClose, PostInv, Flags
  <2> QED
    BY <2>2, <2>3, <2>4 DEF PostInv
<1> QED
  BY <1>1, <1>2

\* Every step of the call keeps what is known of the post.
LEMMA PostStep == PostInv /\ [Next]_all => PostInv'
<1> SUFFICES ASSUME PostInv, [Next]_all PROVE PostInv'
  OBVIOUS
<1>1. CASE Client \/ Recogniser \/ Others
  BY <1>1, ClientStep, WorldStep
<1>2. CASE Encode \/ Answer
  <2>1. /\ Quiet /\ UNCHANGED <<unsent, socket_, number, peer>>
        /\ \/ c_pc = "off" /\ c_pc' = "connect"
           \/ c_pc = "answer" /\ c_pc' = "destroy"
    BY <1>2 DEF Encode, Answer, At, Quiet, res, remote
  <2>2. ReadInv'
    BY <2>1 DEF Quiet, PostInv, ReadInv, Pcs
  <2>3. SocketInv'
    BY <2>1 DEF PostInv, SocketInv
  <2>4. Flags'
    BY <1>2 DEF Encode, Answer, PostInv, Flags
  <2> QED
    BY <2>2, <2>3, <2>4 DEF PostInv
<1>3. CASE UNCHANGED vars
  BY <1>3 DEF vars, res, remote, PostInv, ReadInv, SocketInv, Flags
<1>4. \/ Client \/ Recogniser \/ Others \/ Encode \/ Answer \/ UNCHANGED vars
  BY DEF Next, DecodeStep, ReadSymbol, ReadStop, ReadEnd, ReadPadding, DecodeTail, Over, all
<1> QED
  BY <1>1, <1>2, <1>3, <1>4

\* So it holds always.
LEMMA PostInvariance == FairSpec => []PostInv
BY InitPost, PostStep, PTL DEF FairSpec

\* A post that is over has closed its socket, for all responses and failures.
THEOREM SocketsClosed == FairSpec => []LeavesNoSocket
<1>1. PostInv => LeavesNoSocket
  BY DEF PostInv, SocketInv, LeavesNoSocket, Ended
<1> QED
  BY <1>1, PostInvariance, PTL

\* And it never closes the socket of another thread, though the client closes in
\* three places and numbers of descriptors are used again.
THEOREM OthersUntouched == FairSpec => ClosesItsOwn
<1>1. PostInv /\ [Next]_all => [Client /\ number = "others" => number' = "others"]_vars
  BY ClientStep
<1> QED
  BY <1>1, PostInvariance, PTL DEF FairSpec, ClosesItsOwn
-----------------------------------------------------------------------------
(***************************************************************************)
(* What is returned of a response                                          *)
(***************************************************************************)
\* How much of the response was sent, and that a unit is in that part.
SentCount == Len(response) - Len(script)
Sent(unit) == \E k \in 1..SentCount : response[k] = unit

\* It was sent, or is a needless header, which may be sent before its turn.
Known(unit) == Sent(unit) \/ unit[1] = "plain"

\* What is still to be sent is the rest of the response; what is under way, or was
\* read into the body or as the status, is from the part sent.
OriginInv ==
  /\ SentCount \in Nat
  /\ \A k \in 1..Len(script) : script[k] = response[SentCount + k]
  /\ \A k \in 1..Len(wire) : Known(wire[k])
  /\ \A k \in 1..Len(body) : Known(body[k])
  /\ status # 0 => Sent(<<"status", status>>)

\* A text that is returned was read with status 200, and whole.
TextInv == rt = "text" => answer = "text" /\ status = 200 /\ Parses /\ c_pc \in {"destroy", "over"}

WholeInv == OriginInv /\ TextInv

\* Nothing is sent at first.
LEMMA InitWhole == Init => WholeInv
<1> SUFFICES ASSUME Init PROVE WholeInv
  OBVIOUS
<1>1. response \in Seq(Unit) /\ script = response /\ wire = <<>> /\ body = <<>> /\ status = 0
  BY ConstantTypes DEF Init, InitAt
<1>2. SentCount = 0
  BY <1>1 DEF SentCount
<1>3. OriginInv
  BY <1>1, <1>2 DEF OriginInv
<1> QED
  BY <1>3 DEF WholeInv, TextInv, Init

\* A unit that is read goes to the body, to the status, or nowhere.
LEMMA UnitOrigin ==
  ASSUME PostInv, OriginInv, NEW unit \in {wire[k] : k \in DOMAIN wire \cap {1}},
         \/ read_response_line(unit) \/ SkipLine(unit) \/ ReadHeader(unit) \/ EndHeaders(unit)
         \/ ReadCounted(unit) \/ ReadRest(unit)
         \/ ReadSize(unit) \/ EndChunk(unit) \/ ReadTrailer(unit)
  PROVE  OriginInv'
<1>1. wire \in Seq(Unit) /\ body \in Seq(Unit) /\ unit \in Unit
  BY UnitTypes DEF PostInv, ReadInv
<1>2. wire' = Tail(wire) /\ UNCHANGED <<script, response>>
  BY DEF read_response_line, SkipLine, ReadHeader, EndHeaders, ReadCounted, ReadRest, ReadSize,
         EndChunk, ReadTrailer, Reads
<1>3. \A u : (Known(u)' <=> Known(u)) /\ (Sent(u)' <=> Sent(u))
  BY <1>2 DEF Sent, SentCount, Known
<1>4. wire # <<>> /\ unit = wire[1] /\ Known(unit)
  BY <1>1 DEF OriginInv
<1>5. \A k \in 1..Len(wire') : Known(wire'[k])
  <2>1. \A k \in 1..Len(wire') : k + 1 \in 1..Len(wire) /\ wire'[k] = wire[k + 1]
    BY <1>1, <1>2, <1>4
  <2> QED
    BY <2>1 DEF OriginInv
<1>6. (\A k \in 1..Len(body') : Known(body'[k])) /\ (status' # 0 => Sent(<<"status", status'>>))
  <2>1. CASE UNCHANGED <<body, status>>
    BY <2>1 DEF OriginInv
  <2>2. CASE read_response_line(unit)
    <3>1. body' = body
      BY <2>2 DEF read_response_line
    <3>2. CASE unit[1] = "status"
      <4>1. status' = unit[2] /\ unit = <<"status", unit[2]>>
        BY <1>1, <2>2, <3>2 DEF read_response_line, Unit
      <4> QED
        BY <1>4, <3>1, <4>1 DEF OriginInv, Known
    <3>3. CASE unit[1] # "status"
      BY <2>2, <3>1, <3>3 DEF read_response_line, OriginInv
    <3> QED
      BY <3>2, <3>3
  <2>3. CASE ReadCounted(unit) \/ ReadRest(unit)
    <3>1. body' = Append(body, unit) /\ status' = status
      BY <2>3 DEF ReadCounted, ReadRest
    <3>2. \A k \in 1..Len(body') :
            (k \in 1..Len(body) /\ body'[k] = body[k]) \/ body'[k] = unit
      BY <1>1, <3>1
    <3> QED
      BY <1>4, <3>1, <3>2 DEF OriginInv
  <2>4. \/ UNCHANGED <<body, status>> \/ read_response_line(unit)
        \/ ReadCounted(unit) \/ ReadRest(unit)
    BY DEF SkipLine, ReadHeader, EndHeaders, ReadSize, EndChunk, ReadTrailer, res
  <2> QED
    BY <2>1, <2>2, <2>3, <2>4
<1> QED
  BY <1>2, <1>3, <1>5, <1>6 DEF OriginInv, SentCount

\* The recogniser sends the first unit that is left, or a header once more.
LEMMA RecogniserOrigin ==
  ASSUME PostInv, OriginInv, Recogniser
  PROVE  OriginInv'
<1>1. /\ wire \in Seq(Unit) /\ script \in Seq(Unit) /\ response \in Seq(Unit)
      /\ UNCHANGED <<body, status, response>>
  BY ConstantTypes DEF PostInv, ReadInv, Recogniser, Send, Drip, Close, res
<1>2. SentCount \in Nat /\ \A k \in 1..Len(script) : script[k] = response[SentCount + k]
  BY DEF OriginInv
<1>3. CASE Send
  <2>1. /\ script # <<>> /\ wire' = Append(wire, Head(script)) /\ script' = Tail(script)
    BY <1>3 DEF Send
  <2>2. /\ Len(script) \in Nat /\ Len(script) > 0 /\ Len(script') = Len(script) - 1
        /\ \A k \in 1..Len(script') : script'[k] = script[k + 1]
        /\ Head(script) = script[1]
    BY <1>1, <2>1
  <2>3. SentCount' = SentCount + 1
    BY <1>1, <2>2 DEF SentCount
  <2>4. \A u : Sent(u) => Sent(u)'
    <3> SUFFICES ASSUME NEW u, Sent(u) PROVE Sent(u)'
      OBVIOUS
    <3>1. PICK k \in 1..SentCount : response[k] = u
      BY DEF Sent
    <3>2. k \in 1..SentCount'
      BY <1>2, <2>3
    <3> QED
      BY <1>1, <3>1, <3>2 DEF Sent
  <2> PICK u : u = Head(script)
    OBVIOUS
  <2>5. Sent(u)'
    <3>1. u = response[SentCount + 1]
      BY <1>2, <2>2
    <3>2. SentCount + 1 \in 1..SentCount'
      BY <1>2, <2>3
    <3>3. response'[SentCount + 1] = u
      BY <1>1, <3>1
    <3> QED
      BY <3>2, <3>3 DEF Sent
  <2>6. \A k \in 1..Len(wire') :
          (k \in 1..Len(wire) /\ wire'[k] = wire[k]) \/ wire'[k] = u
    BY <1>1, <2>1, <2>2
  <2>7. \A k \in 1..Len(wire') : Known(wire[k])'
    <3> SUFFICES ASSUME NEW k \in 1..Len(wire')
                 PROVE  Known(wire[k])'
      OBVIOUS
    <3>1. CASE k \in 1..Len(wire) /\ wire'[k] = wire[k]
      <4>1. Known(wire[k])
        BY <3>1 DEF OriginInv
      <4>2. CASE Sent(wire[k])
        BY <2>4, <3>1, <4>2 DEF Known, Sent
      <4>3. CASE wire[k][1] = "plain"
        BY <3>1, <4>3 DEF Known
      <4> QED
        BY <4>1, <4>2, <4>3 DEF Known
    <3>2. CASE wire'[k] = u
      BY <2>5, <3>2 DEF Known, Sent
    <3> QED
      BY <2>6, <3>1, <3>2
  <2>8. \A k \in 1..Len(script') : script'[k] = response'[SentCount' + k]
    <3> SUFFICES ASSUME NEW k \in 1..Len(script')
                 PROVE  script'[k] = response'[SentCount' + k]
      OBVIOUS
    <3>1. script'[k] = script[k + 1] /\ k + 1 \in 1..Len(script)
      BY <2>2
    <3>2. SentCount + (k + 1) = SentCount' + k
      BY <1>2, <2>3
    <3> QED
      BY <1>1, <1>2, <3>1, <3>2
  <2>9. \A k \in 1..Len(body') : Known(body[k])'
    BY <1>1, <2>4 DEF OriginInv, Known
  <2>10. status' # 0 => Sent(<<"status", status>>)'
    BY <1>1, <2>4 DEF OriginInv
  <2>11. SentCount' \in Nat
    BY <1>2, <2>3
  <2> QED
    BY <2>7, <2>8, <2>9, <2>10, <2>11 DEF OriginInv
<1>4. CASE Drip
  <2>1. /\ script # <<>> /\ wire' = Append(wire, Head(script)) /\ UNCHANGED script
        /\ Head(script)[1] = "plain"
    BY <1>4 DEF Drip
  <2>2. SentCount' = SentCount /\ \A u : (Known(u)' <=> Known(u)) /\ (Sent(u)' <=> Sent(u))
    BY <1>1, <2>1 DEF Sent, SentCount, Known
  <2>3. \A k \in 1..Len(wire') :
          (k \in 1..Len(wire) /\ wire'[k] = wire[k]) \/ wire'[k] = Head(script)
    BY <1>1, <2>1
  <2>4. \A k \in 1..Len(wire') : Known(wire[k])'
    BY <2>1, <2>2, <2>3 DEF OriginInv, Known
  <2> QED
    BY <1>1, <2>1, <2>2, <2>4 DEF OriginInv, Known
<1>5. CASE Close
  <2>1. UNCHANGED <<wire, script>>
    BY <1>5 DEF Close
  <2> QED
    BY <1>1, <2>1 DEF OriginInv, Sent, SentCount, Known
<1> QED
  BY <1>3, <1>4, <1>5 DEF Recogniser

\* Every step of the call keeps where the units are from.
LEMMA OriginStep == PostInv /\ OriginInv /\ [Next]_all => OriginInv'
<1> SUFFICES ASSUME PostInv, OriginInv, [Next]_all PROVE OriginInv'
  OBVIOUS
<1>1. ASSUME NEW unit \in {wire[k] : k \in DOMAIN wire \cap {1}},
             \/ read_response_line(unit) \/ SkipLine(unit) \/ ReadHeader(unit) \/ EndHeaders(unit)
             \/ ReadCounted(unit) \/ ReadRest(unit)
             \/ ReadSize(unit) \/ EndChunk(unit) \/ ReadTrailer(unit)
      PROVE  OriginInv'
  BY <1>1, UnitOrigin
<1>2. CASE Recogniser
  BY <1>2, RecogniserOrigin
<1>3. CASE Quiet
  BY <1>3 DEF Quiet, OriginInv, Known, Sent, SentCount
<1>4. Connect \/ Write \/ WriteFails \/ WriteSignals \/ Written => Quiet
  BY DEF Connect, Write, WriteFails, WriteSignals, Written, Quiet, res, remote
<1>5. ReadFails \/ ReadsTooLittle \/ EndRest \/ Respond \/ Finish \/ Destroy => Quiet
  BY DEF ReadFails, ReadsTooLittle, EndRest, Respond, Finish, Destroy, Quiet, res, remote
<1>6. Encode \/ Answer \/ Others => Quiet
  BY DEF Encode, Answer, Others, OthersOpen, OthersClose, Quiet, res, remote
<1>7. CASE Client
  BY <1>1, <1>3, <1>4, <1>5, <1>7 DEF Client
<1>8. UNCHANGED vars => Quiet
  BY DEF vars, res, remote, Quiet
<1>9. \/ Client \/ Recogniser \/ Others \/ Encode \/ Answer \/ UNCHANGED vars
  BY DEF Next, DecodeStep, ReadSymbol, ReadStop, ReadEnd, ReadPadding, DecodeTail, Over, all
<1> QED
  BY <1>2, <1>3, <1>6, <1>7, <1>8, <1>9

\* What the answer was found in does not change after it.
LEMMA TextStep == TextInv /\ [Next]_all => TextInv'
<1> SUFFICES ASSUME TextInv, [Next]_all, rt' = "text"
             PROVE  answer' = "text" /\ status' = 200 /\ Parses' /\ c_pc' \in {"destroy", "over"}
  BY DEF TextInv
<1>1. CASE Answer
  <2>1. ret /\ status = 200 /\ Parses /\ answer = "text"
    BY <1>1 DEF Answer, Parsed
  <2>2. UNCHANGED <<status, body, answer>> /\ c_pc' = "destroy"
    BY <1>1 DEF Answer, res
  <2> QED
    BY <2>1, <2>2 DEF Parses
<1>2. ~ Answer => UNCHANGED <<rt, answer>>
  BY DEF Next, Encode, OfCall, DecodeStep, ReadSymbol, ReadStop, ReadPadding, ReadEnd, DecodeTail,
         Over, all, recognised
<1>3. CASE ~ Answer
  <2>1. rt = "text" /\ answer = "text" /\ status = 200 /\ Parses /\ c_pc \in {"destroy", "over"}
        /\ answer' = answer
    BY <1>2, <1>3 DEF TextInv
  <2>2. UNCHANGED <<status, body>> /\ c_pc' \in {"destroy", "over"}
    <3>1. CASE Client
      BY <2>1, <3>1
      DEF Client, Connect, Write, WriteFails, WriteSignals, Written, ReadFails, ReadsTooLittle,
          EndRest, read_response_line, SkipLine, ReadHeader, EndHeaders, ReadCounted, ReadRest,
          ReadSize, EndChunk, ReadTrailer, Respond, Finish, Destroy, At, Reading, res
    <3>2. CASE Recogniser \/ Others
      BY <2>1, <3>2 DEF Recogniser, Send, Drip, Close, Others, OthersOpen, OthersClose, res
    <3>3. CASE UNCHANGED vars
      BY <2>1, <3>3 DEF vars, res
    <3>4. \/ Client \/ Recogniser \/ Others \/ Encode \/ UNCHANGED vars
      BY <1>3
      DEF Next, DecodeStep, ReadSymbol, ReadStop, ReadEnd, ReadPadding, DecodeTail, Over, all
    <3>5. ~ Encode
      BY <2>1 DEF Encode, At
    <3> QED
      BY <3>1, <3>2, <3>3, <3>4, <3>5
  <2> QED
    BY <2>1, <2>2 DEF Parses
<1> QED
  BY <1>1, <1>3

\* So both hold throughout.
LEMMA WholeInvariance == FairSpec => []WholeInv
<1>1. PostInv /\ WholeInv /\ [Next]_all => WholeInv'
  BY OriginStep, TextStep DEF WholeInv
<1> QED
  BY <1>1, InitWhole, PostInvariance, PTL DEF FairSpec

\* A unit of the part sent that is there once is not in the rest.
LEMMA OnceIsSent ==
  ASSUME PostInv, OriginInv, OneAnswer(response), Parses
  PROVE  \A u \in Units(script) : u[1] # "piece"
<1> SUFFICES ASSUME NEW i \in DOMAIN script, script[i][1] = "piece"
             PROVE  FALSE
  BY DEF Units
<1>1. script \in Seq(Unit) /\ response \in Seq(Unit) /\ body \in Seq(Unit)
  BY ConstantTypes DEF PostInv, ReadInv
<1>2. SentCount \in Nat /\ i \in 1..Len(script) /\ script[i] = response[SentCount + i]
      /\ SentCount + i \in DOMAIN response
  BY <1>1 DEF OriginInv, SentCount
<1>3. PICK p \in 1..Pieces : script[i] = <<"piece", p>>
  <2>1. script[i] \in Unit
    BY <1>1
  <2>2. script[i] = <<"piece", script[i][2]>>
    BY <2>1 DEF Unit
  <2>3. script[i][2] \in 1..Pieces
    BY <1>2 DEF OneAnswer
  <2> QED
    BY <2>2, <2>3
<1>4. body[p] = <<"piece", p>> /\ p \in 1..Len(body)
  BY <1>1, HttpaudioAssumption DEF Parses
<1>5. Sent(<<"piece", p>>)
  BY <1>4 DEF OriginInv, Known
<1>6. PICK k \in 1..SentCount : response[k] = <<"piece", p>>
  BY <1>5 DEF Sent
<1>7. k \in DOMAIN response /\ k # SentCount + i
  BY <1>1, <1>2
<1> QED
  BY <1>2, <1>3, <1>6, <1>7 DEF OneAnswer

\* The status line that was read is the one that counts.
LEMMA StatusRead ==
  ASSUME PostInv, OriginInv, OneAnswer(response), status = 200
  PROVE  StatusOf(response) = 200
<1>1. response \in Seq(Unit) /\ SentCount \in Nat /\ script \in Seq(Unit)
  BY ConstantTypes DEF PostInv, ReadInv, OriginInv
<1>2. Sent(<<"status", 200>>)
  BY DEF OriginInv
<1>3. PICK k \in 1..SentCount : response[k] = <<"status", 200>>
  BY <1>2 DEF Sent
<1>4. k \in DOMAIN response
  BY <1>1 DEF SentCount
<1> DEFINE lines == {l \in DOMAIN response : response[l][1] = "status"}
           last  == CHOOSE m \in lines : \A l \in lines : l <= m
<1>5. k \in lines /\ \A l \in lines : l <= k
  <2>1. \A l \in DOMAIN response : k < l => response[l][1] # "status"
    BY <1>3, <1>4 DEF OneAnswer
  <2> QED
    BY <1>1, <1>3, <1>4, <2>1
<1>6. \A m \in lines : (\A l \in lines : l <= m) => m = k
  BY <1>1, <1>5
<1>7. last = k
  <2> HIDE DEF lines
  <2> QED
    BY <1>5, <1>6
<1>8. lines # {}
  BY <1>5
<1>9. StatusOf(response) = IF lines = {} THEN 0
                           ELSE response[last][2]
  BY DEF StatusOf
<1> HIDE DEF lines, last
<1> QED
  BY <1>3, <1>7, <1>8, <1>9

\* No part of an answer is ever returned as one, though the client takes the end of
\* the stream, a timeout and a chunk of no size each for an end of the content: of a
\* recogniser that answers once, in whatever form, the text is returned only when all
\* of its object has been read.
THEOREM TextIsWhole ==
  ASSUME \A r \in Responses : OneAnswer(r)
  PROVE  FairSpec => []OnlyWholeAnswers
<1>1. PostInv /\ WholeInv => OnlyWholeAnswers
  <2> SUFFICES ASSUME PostInv, WholeInv, rt = "text"
               PROVE  /\ answer = "text"
                      /\ StatusOf(response) = 200
                      /\ \A u \in Units(script) : u[1] # "piece"
    BY DEF OnlyWholeAnswers
  <2>1. OneAnswer(response)
    BY DEF PostInv, ReadInv
  <2>2. OriginInv /\ answer = "text" /\ status = 200 /\ Parses
    BY DEF WholeInv, TextInv
  <2> QED
    BY <2>1, <2>2, OnceIsSent, StatusRead
<1> QED
  BY <1>1, PostInvariance, WholeInvariance, PTL
-----------------------------------------------------------------------------
(***************************************************************************)
(* base64                                                                  *)
(***************************************************************************)
\* Elements of sequences, whatever they are.
LEMMA ElementType ==
  ASSUME NEW S, NEW s \in Seq(S), NEW k \in 1..Len(s)
  PROVE  s[k] \in S
OBVIOUS

\* Parts of a sequence, and sequences put together.
LEMMA SubSeqType ==
  ASSUME NEW S, NEW s \in Seq(S), NEW m \in Int, NEW n \in Int, 1 <= m, m <= n, n <= Len(s)
  PROVE  SubSeq(s, m, n) \in Seq(S) /\ Len(SubSeq(s, m, n)) = n - m + 1
OBVIOUS

LEMMA TupleTypes ==
  ASSUME NEW S, NEW a \in S, NEW b \in S, NEW c \in S
  PROVE  /\ <<a, b, c>> \in Seq(S) /\ Len(<<a, b, c>>) = 3
         /\ <<a, b>> \in Seq(S) /\ Len(<<a, b>>) = 2
         /\ <<a>> \in Seq(S) /\ Len(<<a>>) = 1
OBVIOUS

LEMMA ConcatType ==
  ASSUME NEW S, NEW s \in Seq(S), NEW t \in Seq(S)
  PROVE  s \o t \in Seq(S) /\ Len(s \o t) = Len(s) + Len(t)
OBVIOUS

\* Numbers that are bytes, or characters of a text.
LEMMA ByteFacts ==
  /\ \A x \in Byte : x \in Nat /\ x < 256
  /\ \A x \in Nat : x < 256 => x \in Byte
BY DEF Byte

Character == 0..eof_idx

LEMMA CharacterFacts ==
  /\ \A x \in Character : x \in Nat
  /\ \A x \in Nat : x < 64 => x \in Character
  /\ padding_idx \in Character
<1>1. eof_idx \in Nat /\ eof_idx > 64 /\ padding_idx \in Nat /\ padding_idx <= eof_idx
  BY DEF eof_idx, padding_idx
<1> QED
  BY <1>1 DEF Character

\* A block of the audio has one to three bytes, if it is one of its text.
LEMMA BlockType ==
  ASSUME NEW bytes \in Seq(Byte), NEW k \in 1..encoded_size(Len(bytes)),
         NEW j, j = (k - 1) \div 4, NEW b, b = BlockOf(bytes, j)
  PROVE  b \in Seq(Byte) /\ Len(b) \in 1..3
<1> DEFINE n == Len(bytes)
<1>1. n \in Nat /\ k \in Nat /\ k >= 1 /\ j \in Nat
  BY DEF encoded_size
<1>2. 3 * j + 1 <= n
  <2>1. PICK m \in Nat : m = (n + 2) \div 3
    BY <1>1
  <2>2. n + 2 - ((n + 2) % 3) = 3 * m
    BY <1>1, <2>1
  <2>3. encoded_size(n) = 4 * m
    BY <2>1, <2>2 DEF encoded_size
  <2>4. j < m
    BY <1>1, <2>1, <2>3
  <2> QED
    BY <1>1, <2>1, <2>4
<1>3. PICK e \in Nat : e = IF 3 * j + 3 > n THEN n ELSE 3 * j + 3
  BY <1>1
<1>4. PICK m \in Nat : m = 3 * j + 1
  BY <1>1
<1>5. 1 <= m /\ m <= e /\ e <= n /\ e - m + 1 \in 1..3
  BY <1>1, <1>2, <1>3, <1>4
<1>6. b = SubSeq(bytes, m, e)
  BY <1>3, <1>4 DEF BlockOf
<1> HIDE DEF n
<1>7. b \in Seq(Byte) /\ Len(b) = e - m + 1
  <2>1. m \in Int /\ e \in Int /\ 1 <= m /\ m <= e /\ e <= Len(bytes)
    BY <1>1, <1>3, <1>4, <1>5 DEF n
  <2> QED
    BY <2>1, <1>6, SubSeqType
<1> QED
  BY <1>5, <1>7

\* The symbols and padding of a block are characters.
LEMMA IndexValues ==
  ASSUME NEW b
  PROVE  /\ index(0, b) = b[1] \div 4
         /\ index(1, b) = (b[1] % 4) * 16 + (b[2] \div 16)
         /\ index(2, b) = (b[2] % 16) * 4 + (b[3] \div 64)
         /\ index(3, b) = b[3] % 64
         /\ index_last(1, b) = (b[1] % 4) * 16
         /\ index_last(2, b) = (b[2] % 16) * 4
BY DEF index, index_last

\* What is cut of a byte, or of two, is a symbol.
LEMMA SymbolRange ==
  ASSUME NEW x \in Byte, NEW y \in Byte
  PROVE  /\ x \div 4 \in Character /\ x % 64 \in Character
         /\ (x % 4) * 16 \in Character /\ (x % 16) * 4 \in Character
         /\ (x % 4) * 16 + (y \div 16) \in Character
         /\ (x % 16) * 4 + (y \div 64) \in Character
<1>1. x \in Nat /\ y \in Nat /\ x < 256 /\ y < 256
  BY ByteFacts
<1>2. /\ x \div 4 \in Nat /\ x \div 4 < 64
      /\ x % 64 \in Nat /\ x % 64 < 64
      /\ (x % 4) * 16 \in Nat /\ (x % 4) * 16 < 64
      /\ (x % 16) * 4 \in Nat /\ (x % 16) * 4 < 64
      /\ (x % 4) * 16 + (y \div 16) \in Nat /\ (x % 4) * 16 + (y \div 16) < 64
      /\ (x % 16) * 4 + (y \div 64) \in Nat /\ (x % 16) * 4 + (y \div 64) < 64
  BY <1>1
<1> QED
  BY <1>2, CharacterFacts

LEMMA SymbolType ==
  ASSUME NEW b \in Seq(Byte), Len(b) \in 1..3, NEW I \in 0..3
  PROVE  (IF Len(b) = 3 THEN index(I, b) ELSE tail(I, b)) \in Character
<1>1. CASE Len(b) = 3
  <2>1. 1 \in 1..Len(b) /\ 2 \in 1..Len(b) /\ 3 \in 1..Len(b)
    BY <1>1
  <2>2. b[1] \in Byte /\ b[2] \in Byte /\ b[3] \in Byte
    BY <2>1, ElementType
  <2>3. /\ index(0, b) \in Character /\ index(1, b) \in Character
        /\ index(2, b) \in Character /\ index(3, b) \in Character
    BY <2>2, IndexValues, SymbolRange
  <2> QED
    BY <1>1, <2>3
<1>2. CASE Len(b) = 2
  <2>1. 1 \in 1..Len(b) /\ 2 \in 1..Len(b)
    BY <1>2
  <2>2. b[1] \in Byte /\ b[2] \in Byte
    BY <2>1, ElementType
  <2>3. index(0, b) \in Character /\ index(1, b) \in Character /\ index_last(2, b) \in Character
    BY <2>2, IndexValues, SymbolRange
  <2>4. /\ tail(0, b) = index(0, b) /\ tail(1, b) = index(1, b)
        /\ tail(2, b) = index_last(2, b) /\ tail(3, b) = padding_idx
    BY <1>2 DEF tail
  <2>5. I = 0 \/ I = 1 \/ I = 2 \/ I = 3
    OBVIOUS
  <2>6. Len(b) # 3
    BY <1>2
  <2>7. /\ tail(0, b) \in Character /\ tail(1, b) \in Character
        /\ tail(2, b) \in Character /\ tail(3, b) \in Character
    BY <2>3, <2>4, CharacterFacts
  <2> QED
    BY <2>5, <2>6, <2>7, Zenon
<1>3. CASE Len(b) = 1
  <2>1. 1 \in 1..Len(b)
    BY <1>3
  <2>2. b[1] \in Byte
    BY <2>1, ElementType
  <2>3. index(0, b) \in Character /\ index_last(1, b) \in Character
    BY <2>2, IndexValues, SymbolRange
  <2>4. /\ tail(0, b) = index(0, b) /\ tail(1, b) = index_last(1, b)
        /\ tail(2, b) = padding_idx /\ tail(3, b) = padding_idx
    BY <1>3 DEF tail
  <2>5. I = 0 \/ I = 1 \/ I = 2 \/ I = 3
    OBVIOUS
  <2>6. Len(b) # 3
    BY <1>3
  <2>7. /\ tail(0, b) \in Character /\ tail(1, b) \in Character
        /\ tail(2, b) \in Character /\ tail(3, b) \in Character
    BY <2>3, <2>4, CharacterFacts
  <2> QED
    BY <2>5, <2>6, <2>7, Zenon
<1> QED
  BY <1>1, <1>2, <1>3

\* The text of any audio.
LEMMA EncodeType ==
  ASSUME NEW bytes \in Seq(Byte)
  PROVE  encode(bytes) \in Seq(Character)
<1> DEFINE b(k) == BlockOf(bytes, (k - 1) \div 4)
           symbol(k) == IF Len(b(k)) = 3 THEN index((k - 1) % 4, b(k)) ELSE tail((k - 1) % 4, b(k))
<1>1. encoded_size(Len(bytes)) \in Nat
  BY DEF encoded_size
<1>2. ASSUME NEW k \in 1..encoded_size(Len(bytes))
      PROVE  symbol(k) \in Character
  <2>1. b(k) \in Seq(Byte) /\ Len(b(k)) \in 1..3
    BY BlockType
  <2>2. (k - 1) % 4 \in 0..3
    BY <1>1
  <2> HIDE DEF b
  <2> QED
    BY <2>1, <2>2, SymbolType
<1>3. encode(bytes) = [k \in 1..encoded_size(Len(bytes)) |-> symbol(k)]
  BY DEF encode
<1> HIDE DEF symbol
<1> QED
  BY <1>1, <1>2, <1>3

\* A full block of symbols is three bytes, and a tail one or two, whatever follows it.
LEMMA BlockDecoded ==
  ASSUME NEW idx, \A k \in 0..3 : idx[k] \in Nat /\ idx[k] < 64
  PROVE  decode_block(idx) \in Seq(Byte) /\ Len(decode_block(idx)) = 3
<1> DEFINE dec == ((idx[0] * 64 + idx[1]) * 64 + idx[2]) * 64 + idx[3]
<1>1. /\ idx[0] \in Nat /\ idx[1] \in Nat /\ idx[2] \in Nat /\ idx[3] \in Nat
      /\ idx[0] < 64 /\ idx[1] < 64 /\ idx[2] < 64 /\ idx[3] < 64
  BY 0 \in 0..3, 1 \in 0..3, 2 \in 0..3, 3 \in 0..3
<1>2. dec \in Nat /\ dec < 16777216
  BY <1>1, SMT
<1>3. decode_block(idx) = <<dec \div 65536, (dec \div 256) % 256, dec % 256>>
  BY DEF decode_block
<1> HIDE DEF dec
<1>4. dec \div 65536 \in Byte
  <2>1. dec \div 65536 \in Nat /\ dec \div 65536 < 256
    BY <1>2, SMT
  <2> QED
    BY <2>1, ByteFacts
<1>5. (dec \div 256) % 256 \in Byte /\ dec % 256 \in Byte
  <2>1. /\ (dec \div 256) % 256 \in Nat /\ (dec \div 256) % 256 < 256
        /\ dec % 256 \in Nat /\ dec % 256 < 256
    BY <1>2, SMT
  <2> QED
    BY <2>1, ByteFacts
<1> QED
  BY <1>3, <1>4, <1>5, TupleTypes

\* And the last one is one byte or two.
LEMMA TailDecoded ==
  ASSUME NEW idx, \A k \in 0..3 : idx[k] \in Nat, NEW n
  PROVE  decode_tail(idx, n) \in Seq(Byte) /\ Len(decode_tail(idx, n)) \in 1..2
<1>1. idx[0] \in Nat /\ idx[1] \in Nat /\ idx[2] \in Nat
  BY 0 \in 0..3, 1 \in 0..3, 2 \in 0..3
<1>2. PICK first : first = (idx[0] * 4 + ((idx[1] \div 16) % 4)) % 256
  OBVIOUS
<1>3. PICK second : second = ((idx[1] % 16) * 16 + ((idx[2] \div 4) % 16)) % 256
  OBVIOUS
<1>4. first \in Nat /\ first < 256 /\ second \in Nat /\ second < 256
  BY <1>1, <1>2, <1>3
<1>5. first \in Byte /\ second \in Byte
  BY <1>4, ByteFacts
<1>6. decode_tail(idx, n) = IF n = 2 THEN <<first>> ELSE <<first, second>>
  BY <1>2, <1>3 DEF decode_tail
<1>7. /\ <<first>> \in Seq(Byte) /\ Len(<<first>>) = 1
      /\ <<first, second>> \in Seq(Byte) /\ Len(<<first, second>>) = 2
  BY <1>5, TupleTypes
<1> QED
  BY <1>6, <1>7
-----------------------------------------------------------------------------
(***************************************************************************)
(* decode                                                                  *)
(***************************************************************************)
LEMMA AppendType ==
  ASSUME NEW S, NEW s \in Seq(S), NEW e \in S
  PROVE  Append(s, e) \in Seq(S) /\ Len(Append(s, e)) = Len(s) + 1
OBVIOUS

\* A character is a symbol or one of the three that stop.
LEMMA CharacterKinds ==
  ASSUME NEW idx \in Characters
  PROVE  /\ idx \in Character /\ idx \in Nat
         /\ ~ is_stop_character(idx) => idx < 64
         /\ is_stop_character(idx) => idx \in {padding_idx, invalid_idx, eof_idx}
<1>1. /\ padding_idx \in Nat /\ padding_idx <= eof_idx /\ padding_idx \div 256 # 0
      /\ invalid_idx \in Nat /\ invalid_idx <= eof_idx /\ invalid_idx \div 256 # 0
      /\ eof_idx \in Nat /\ eof_idx > 64 /\ eof_idx \div 256 # 0
  BY DEF padding_idx, invalid_idx, eof_idx
<1>2. CASE idx \in Symbols
  <2>1. idx \in Nat /\ idx < 64
    BY <1>2, HttpaudioAssumption DEF HttpaudioAssumption
  <2>2. idx \div 256 = 0
    BY <2>1
  <2> QED
    BY <2>1, <2>2, CharacterFacts DEF is_stop_character
<1>3. CASE idx \in {padding_idx, invalid_idx, eof_idx}
  BY <1>1, <1>3 DEF Character, is_stop_character
<1> QED
  BY <1>2, <1>3 DEF Characters

DecodeErrors == {"symbol_error", "padding_error", "length_error"}

DecodeTypes ==
  /\ d_pc \in {"off", "data", "padding", "tail", "returned"} \cup DecodeErrors
  /\ op = "post" => d_pc = "off"
  /\ content \in Seq(Byte)
  /\ text \in Seq(Character) /\ binary \in Seq(Byte)
  /\ alphabet_indexes \in [0..3 -> Nat] /\ index_ptr \in 0..3 /\ last_ptr \in 0..5

\* The block that is read has symbols only, and one padding past its room at most.
BlockInv ==
  /\ d_pc = "data" => \A k \in 0..3 : k < index_ptr => alphabet_indexes[k] < 64
  /\ d_pc = "padding" => last_ptr <= 4

\* There are three bytes for every four characters before the ptr of this block.
BlocksOfThree(ptr) == \E q \in Nat : Len(binary) = 3 * q /\ Len(text) >= 4 * q + ptr

RoomInv ==
  /\ d_pc = "off" => binary = <<>>
  /\ d_pc = "data" => BlocksOfThree(index_ptr)
  /\ d_pc \in {"padding", "tail"} => BlocksOfThree(last_ptr)
  /\ d_pc \in {"returned"} \cup DecodeErrors => BinaryInBounds

DecodeInv == DecodeTypes /\ BlockInv /\ RoomInv

\* A block that has begun was given its room.
LEMMA RoomFits ==
  ASSUME NEW n \in Nat, NEW q \in Nat, NEW r \in 0..3, NEW l, l = 3 * q + r,
         n >= 4 * q + (IF r = 0 THEN 0 ELSE 4)
  PROVE  l <= decoded_max_size(n)
<1>1. r = 0 => n \div 4 >= q
  OBVIOUS
<1>2. r # 0 => n \div 4 >= q + 1
  OBVIOUS
<1> QED
  BY <1>1, <1>2 DEF decoded_max_size

\* It holds at first.
LEMMA InitDecode == Init => DecodeInv
<1> SUFFICES ASSUME Init PROVE DecodeInv
  OBVIOUS
<1>1. \A S : <<>> \in Seq(S) /\ Len(<<>>) = 0
  OBVIOUS
<1>2. /\ text = <<>> /\ binary = <<>> /\ index_ptr = 0 /\ last_ptr = 0
      /\ d_pc = IF op = "decode" THEN "data" ELSE "off"
  BY DEF Init
<1>3. text \in Seq(Character) /\ binary \in Seq(Byte) /\ Len(text) = 0 /\ Len(binary) = 0
  BY <1>1, <1>2, Zenon
<1>0. content \in Seq(Byte)
  <2>1. content \in Contents \/ content = <<>>
    BY DEF Init
  <2> QED
    BY <1>1, <2>1, HttpaudioAssumption DEF HttpaudioAssumption
<1>4. alphabet_indexes \in [0..3 -> Nat]
  <2>1. alphabet_indexes = [k \in 0..3 |-> IF k = 0 THEN eof_idx ELSE 0]
    BY DEF Init
  <2>2. eof_idx \in Nat
    BY DEF eof_idx
  <2> QED
    BY <2>1, <2>2
<1>5. DecodeTypes
  BY <1>0, <1>2, <1>3, <1>4 DEF DecodeTypes
<1>6. BlockInv
  BY <1>2 DEF BlockInv
<1>7. RoomInv
  <2>1. BlocksOfThree(index_ptr)
    <3>1. Len(binary) = 3 * 0 /\ Len(text) >= 4 * 0 + index_ptr
      BY <1>2, <1>3
    <3> QED
      BY <3>1, 0 \in Nat DEF BlocksOfThree
  <2>2. d_pc \in {"off", "data"}
    BY <1>2
  <2> QED
    BY <1>2, <2>1, <2>2 DEF RoomInv, DecodeErrors
<1> QED
  BY <1>5, <1>6, <1>7 DEF DecodeInv

\* A character keeps it: a full block is decoded, a padding counted.
LEMMA SymbolStep ==
  ASSUME DecodeInv, NEW idx \in Characters, ReadSymbol(idx)
  PROVE  DecodeInv'
<1>1. /\ text \in Seq(Character) /\ binary \in Seq(Byte)
      /\ alphabet_indexes \in [0..3 -> Nat] /\ index_ptr \in 0..3 /\ last_ptr \in 0..5
      /\ d_pc = "data" /\ \A k \in 0..3 : k < index_ptr => alphabet_indexes[k] < 64
      /\ BlocksOfThree(index_ptr) /\ content \in Seq(Byte)
  BY DEF DecodeInv, DecodeTypes, BlockInv, RoomInv, ReadSymbol
<1>2. idx \in Character /\ idx \in Nat /\ idx < 64
  BY CharacterKinds DEF ReadSymbol
<1>3. /\ text' = Append(text, idx)
      /\ alphabet_indexes' = [alphabet_indexes EXCEPT ![index_ptr] = idx]
      /\ index_ptr' = (index_ptr + 1) % 4
      /\ d_pc' = "data" /\ last_ptr' = last_ptr /\ UNCHANGED <<op, content>>
      /\ binary' = IF index_ptr = 3 THEN binary \o decode_block(alphabet_indexes') ELSE binary
  BY <1>1 DEF ReadSymbol, DecodeStep, recognised
<1>4. text' \in Seq(Character) /\ Len(text') = Len(text) + 1 /\ Len(text) \in Nat
  BY <1>1, <1>2, <1>3, AppendType
<1>5. /\ alphabet_indexes' \in [0..3 -> Nat] /\ index_ptr' \in 0..3
      /\ \A k \in 0..3 : k <= index_ptr => alphabet_indexes'[k] < 64
      /\ index_ptr' = IF index_ptr = 3 THEN 0 ELSE index_ptr + 1
  <2>1. alphabet_indexes' \in [0..3 -> Nat]
    BY <1>1, <1>2, <1>3
  <2>2. index_ptr' = IF index_ptr = 3 THEN 0 ELSE index_ptr + 1
    <3>1. index_ptr \in 0..3 /\ index_ptr' = (index_ptr + 1) % 4
      BY <1>1, <1>3
    <3> QED
      BY <3>1, SMT
  <2>3. ASSUME NEW k \in 0..3, k <= index_ptr
        PROVE  alphabet_indexes'[k] < 64
    <3>1. CASE k = index_ptr
      BY <1>1, <1>2, <1>3, <3>1
    <3>2. CASE k # index_ptr
      BY <1>1, <1>3, <2>3, <3>2
    <3> QED
      BY <3>1, <3>2
  <2> QED
    BY <1>1, <2>1, <2>2, <2>3
<1>6. CASE index_ptr = 3
  <2>1. /\ decode_block(alphabet_indexes') \in Seq(Byte)
        /\ Len(decode_block(alphabet_indexes')) = 3
    BY <1>5, <1>6, BlockDecoded
  <2>2. binary' \in Seq(Byte) /\ Len(binary') = Len(binary) + 3
    <3>1. PICK bytes : bytes = decode_block(alphabet_indexes')
      OBVIOUS
    <3>2. bytes \in Seq(Byte) /\ Len(bytes) = 3 /\ binary' = binary \o bytes
      BY <1>3, <1>6, <2>1, <3>1
    <3> QED
      BY <1>1, <3>2, ConcatType
  <2>3. BlocksOfThree(index_ptr)'
    <3>1. PICK q \in Nat : Len(binary) = 3 * q /\ Len(text) >= 4 * q + index_ptr
      BY <1>1 DEF BlocksOfThree
    <3>2. q + 1 \in Nat /\ Len(binary') = 3 * (q + 1) /\ Len(text') >= 4 * (q + 1) + index_ptr'
      BY <1>4, <1>5, <1>6, <2>2, <3>1
    <3> QED
      BY <3>2 DEF BlocksOfThree
  <2> QED
    BY <1>1, <1>3, <1>4, <1>5, <1>6, <2>2, <2>3
    DEF DecodeInv, DecodeTypes, BlockInv, RoomInv, DecodeErrors
<1>7. CASE index_ptr # 3
  <2>1. binary' = binary
    BY <1>3, <1>7
  <2>2. BlocksOfThree(index_ptr)'
    <3>1. PICK q \in Nat : Len(binary) = 3 * q /\ Len(text) >= 4 * q + index_ptr
      BY <1>1 DEF BlocksOfThree
    <3>2. Len(binary') = 3 * q /\ Len(text') >= 4 * q + index_ptr'
      BY <1>1, <1>4, <1>5, <1>7, <2>1, <3>1
    <3> QED
      BY <3>2 DEF BlocksOfThree
  <2> QED
    BY <1>1, <1>3, <1>4, <1>5, <1>7, <2>1, <2>2
    DEF DecodeInv, DecodeTypes, BlockInv, RoomInv, DecodeErrors
<1> QED
  BY <1>6, <1>7

\* What has been decoded so far fits, wherever the text is.
LEMMA SoFarFits ==
  ASSUME text \in Seq(Character), NEW ptr \in Nat, BlocksOfThree(ptr)
  PROVE  BinaryInBounds
<1>1. PICK q \in Nat : Len(binary) = 3 * q /\ Len(text) >= 4 * q + ptr
  BY DEF BlocksOfThree
<1>2. Len(text) \in Nat /\ Len(text) >= 4 * q + 0 /\ 0 \in 0..3 /\ Len(binary) = 3 * q + 0
  BY <1>1
<1> QED
  BY <1>2, RoomFits DEF BinaryInBounds

\* A block is left with a padding or at the end, and an error leaves all that is.
LEMMA StopStep ==
  ASSUME DecodeInv, NEW idx \in Characters, ReadStop(idx)
  PROVE  DecodeInv'
<1>1. /\ text \in Seq(Character) /\ binary \in Seq(Byte)
      /\ alphabet_indexes \in [0..3 -> Nat] /\ index_ptr \in 0..3 /\ last_ptr \in 0..5
      /\ d_pc = "data" /\ BlocksOfThree(index_ptr) /\ op # "post" /\ content \in Seq(Byte)
  BY DEF DecodeInv, DecodeTypes, RoomInv, ReadStop
<1>2. idx \in Character /\ idx \in Nat /\ idx \in {padding_idx, invalid_idx, eof_idx}
  BY CharacterKinds DEF ReadStop
<1>3. /\ text' = Append(text, idx) /\ binary' = binary /\ index_ptr' = index_ptr
      /\ UNCHANGED <<op, content>>
      /\ alphabet_indexes' = [alphabet_indexes EXCEPT ![index_ptr] = idx]
      /\ last_ptr' = IF Pads(idx) THEN index_ptr + 1 ELSE index_ptr
  BY DEF ReadStop, DecodeStep, recognised
<1>4. d_pc' \in {"symbol_error", "padding_error", "padding", "tail"}
      /\ (Pads(idx) <=> d_pc' = "padding")
  <2>1. /\ padding_idx # invalid_idx
        /\ padding_idx # eof_idx
        /\ invalid_idx # eof_idx
    BY DEF padding_idx, invalid_idx, eof_idx
  <2>2. d_pc' = Leaves(idx)
    BY DEF ReadStop
  <2>3. CASE idx = padding_idx
    <3>1. Leaves(idx) = IF Pads(idx) THEN "padding" ELSE "padding_error"
      BY <2>1, <2>3 DEF Leaves
    <3> QED
      BY <2>2, <3>1
  <2>4. CASE idx # padding_idx
    <3>1. ~ Pads(idx)
      BY <2>4 DEF Pads
    <3>2. Leaves(idx) \in {"symbol_error", "tail"}
      BY <1>2, <2>1, <2>4, <3>1 DEF Leaves
    <3> QED
      BY <2>2, <3>1, <3>2
  <2> QED
    BY <2>3, <2>4
<1>5. text' \in Seq(Character) /\ Len(text') = Len(text) + 1 /\ Len(text) \in Nat
  BY <1>1, <1>2, <1>3, AppendType
<1>6. alphabet_indexes' \in [0..3 -> Nat] /\ last_ptr' \in 0..4
  BY <1>1, <1>2, <1>3
<1>7. BlocksOfThree(last_ptr)'
  <2>1. PICK q \in Nat : Len(binary) = 3 * q /\ Len(text) >= 4 * q + index_ptr
    BY <1>1 DEF BlocksOfThree
  <2>2. Len(binary') = 3 * q /\ Len(text') >= 4 * q + last_ptr'
    BY <1>1, <1>3, <1>5, <2>1
  <2> QED
    BY <2>2 DEF BlocksOfThree
<1>8. BinaryInBounds'
  <2>1. PICK q \in Nat : Len(binary') = 3 * q /\ Len(text') >= 4 * q + last_ptr'
    BY <1>7 DEF BlocksOfThree
  <2>2. Len(text') \in Nat /\ Len(text') >= 4 * q + 0 /\ 0 \in 0..3 /\ Len(binary') = 3 * q + 0
    BY <1>5, <1>6, <2>1
  <2> QED
    BY <2>2, RoomFits DEF BinaryInBounds
<1>9. DecodeTypes' /\ BlockInv'
  BY <1>1, <1>3, <1>4, <1>5, <1>6 DEF DecodeTypes, BlockInv, DecodeErrors
<1>10. RoomInv'
  BY <1>4, <1>7, <1>8 DEF RoomInv, DecodeErrors
<1> QED
  BY <1>9, <1>10 DEF DecodeInv

\* More padding.
LEMMA PaddingStep ==
  ASSUME DecodeInv, NEW idx \in Characters, ReadPadding(idx)
  PROVE  DecodeInv'
<1>1. /\ text \in Seq(Character) /\ binary \in Seq(Byte)
      /\ alphabet_indexes \in [0..3 -> Nat] /\ index_ptr \in 0..3 /\ last_ptr \in 0..4
      /\ d_pc = "padding" /\ BlocksOfThree(last_ptr) /\ op # "post" /\ content \in Seq(Byte)
  BY DEF DecodeInv, DecodeTypes, BlockInv, RoomInv, ReadPadding
<1>2. idx \in Character /\ idx \in Nat /\ padding_idx \in Nat /\ padding_idx # eof_idx
  BY CharacterKinds DEF padding_idx, eof_idx
<1>3. /\ text' = Append(text, idx) /\ binary' = binary /\ index_ptr' = index_ptr
      /\ UNCHANGED <<op, content>>
      /\ alphabet_indexes' =
           [alphabet_indexes EXCEPT ![index_ptr] = IF idx = eof_idx THEN padding_idx ELSE idx]
      /\ last_ptr' = IF idx = padding_idx THEN last_ptr + 1 ELSE last_ptr
  BY DEF ReadPadding, DecodeStep, recognised
<1>4. /\ d_pc' \in {"padding_error", "padding", "tail"}
      /\ d_pc' = "padding" => last_ptr < 4
  BY <1>2 DEF ReadPadding
<1>5. text' \in Seq(Character) /\ Len(text') = Len(text) + 1 /\ Len(text) \in Nat
  BY <1>1, <1>2, <1>3, AppendType
<1>6. /\ alphabet_indexes' \in [0..3 -> Nat] /\ last_ptr' \in 0..5
      /\ last_ptr < 4 => last_ptr' <= 4
  BY <1>1, <1>2, <1>3
<1>7. BlocksOfThree(last_ptr)'
  <2>1. PICK q \in Nat : Len(binary) = 3 * q /\ Len(text) >= 4 * q + last_ptr
    BY <1>1 DEF BlocksOfThree
  <2>2. Len(binary') = 3 * q /\ Len(text') >= 4 * q + last_ptr'
    BY <1>1, <1>3, <1>5, <2>1
  <2> QED
    BY <2>2 DEF BlocksOfThree
<1>8. BinaryInBounds'
  <2>1. PICK q \in Nat : Len(binary') = 3 * q /\ Len(text') >= 4 * q + last_ptr'
    BY <1>7 DEF BlocksOfThree
  <2>2. Len(text') \in Nat /\ Len(text') >= 4 * q + 0 /\ 0 \in 0..3 /\ Len(binary') = 3 * q + 0
    BY <1>5, <1>6, <2>1
  <2> QED
    BY <2>2, RoomFits DEF BinaryInBounds
<1>9. DecodeTypes' /\ BlockInv'
  BY <1>1, <1>3, <1>4, <1>5, <1>6 DEF DecodeTypes, BlockInv, DecodeErrors
<1>10. RoomInv'
  BY <1>4, <1>7, <1>8 DEF RoomInv, DecodeErrors
<1> QED
  BY <1>9, <1>10 DEF DecodeInv

\* A tail is decoded only after four characters that no block has.
LEMMA TailStep ==
  ASSUME DecodeInv, DecodeTail
  PROVE  DecodeInv'
<1>1. /\ text \in Seq(Character) /\ binary \in Seq(Byte)
      /\ alphabet_indexes \in [0..3 -> Nat] /\ index_ptr \in 0..3 /\ last_ptr \in 0..5
      /\ d_pc = "tail" /\ BlocksOfThree(last_ptr) /\ op # "post" /\ content \in Seq(Byte)
  BY DEF DecodeInv, DecodeTypes, RoomInv, DecodeTail
<1>2. UNCHANGED <<text, alphabet_indexes, index_ptr, last_ptr, op, content>>
  BY DEF DecodeTail, DecodeStep, recognised
<1>3. d_pc' \in {"returned", "padding_error", "length_error"}
  <2>1. \/ last_ptr = 0
        \/ last_ptr \notin {0, 4}
        \/ (last_ptr = 4 /\ index_ptr = 1)
        \/ (last_ptr = 4 /\ index_ptr # 1)
    OBVIOUS
  <2> QED
    BY <2>1 DEF DecodeTail
<1>4. PICK q \in Nat : Len(binary) = 3 * q /\ Len(text) >= 4 * q + last_ptr
  BY <1>1 DEF BlocksOfThree
<1>5. Len(text') \in Nat /\ Len(text') = Len(text)
  BY <1>1, <1>2
<1>6. PICK bytes : bytes = decode_tail(alphabet_indexes, index_ptr)
  OBVIOUS
<1>7. bytes \in Seq(Byte) /\ Len(bytes) \in 1..2
  BY <1>1, <1>6, TailDecoded
<1>8. binary' \in Seq(Byte) /\ BinaryInBounds'
  <2>1. CASE d_pc' = "returned" /\ last_ptr = 4
    <3>1. binary' = binary \o bytes
      BY <1>6, <2>1 DEF DecodeTail
    <3>2. binary' \in Seq(Byte) /\ Len(binary') = 3 * q + Len(bytes)
      BY <1>1, <1>4, <1>7, <3>1, ConcatType
    <3>3. /\ Len(text') >= 4 * q + (IF Len(bytes) = 0 THEN 0 ELSE 4)
          /\ Len(bytes) \in 0..3
      BY <1>4, <1>5, <1>7, <2>1
    <3> QED
      BY <1>5, <3>2, <3>3, RoomFits DEF BinaryInBounds
  <2>2. CASE ~ (d_pc' = "returned" /\ last_ptr = 4)
    <3>1. binary' = binary
      BY <2>2 DEF DecodeTail
    <3>2. /\ Len(text') >= 4 * q + 0 /\ 0 \in 0..3 /\ Len(binary') = 3 * q + 0
      BY <1>1, <1>4, <1>5, <3>1
    <3> QED
      BY <1>1, <1>5, <3>1, <3>2, RoomFits DEF BinaryInBounds
  <2> QED
    BY <2>1, <2>2
<1>9. DecodeTypes' /\ BlockInv' /\ RoomInv'
  BY <1>1, <1>2, <1>3, <1>8 DEF DecodeTypes, BlockInv, RoomInv, DecodeErrors
<1> QED
  BY <1>9 DEF DecodeInv

\* The end of the text, at any length.
LEMMA EndStep ==
  ASSUME DecodeInv, ReadEnd
  PROVE  DecodeInv'
<1>1. /\ UNCHANGED <<text, alphabet_indexes, index_ptr, binary, op, content>> /\ d_pc' = "tail"
      /\ last_ptr' = IF d_pc = "data" THEN index_ptr ELSE last_ptr
      /\ d_pc \in {"data", "padding"}
  BY DEF ReadEnd, DecodeStep, recognised
<1>2. BlocksOfThree(last_ptr)'
  BY <1>1 DEF DecodeInv, RoomInv, BlocksOfThree
<1>3. DecodeTypes' /\ BlockInv'
  BY <1>1 DEF DecodeInv, DecodeTypes, BlockInv
<1>4. RoomInv'
  BY <1>1, <1>2 DEF RoomInv, DecodeErrors
<1> QED
  BY <1>3, <1>4 DEF DecodeInv

\* Every step of the call keeps what is known of the decoding.
LEMMA DecodeKept == DecodeInv /\ [Next]_all => DecodeInv'
<1> SUFFICES ASSUME DecodeInv, [Next]_all PROVE DecodeInv'
  OBVIOUS
<1>1. CASE Encode
  <2>1. /\ UNCHANGED <<alphabet_indexes, index_ptr, last_ptr, binary, d_pc, op, content>>
        /\ op = "post"
    BY <1>1 DEF Encode, decoder, recognised
  <2>2. d_pc = "off" /\ binary = <<>>
    BY <2>1 DEF DecodeInv, DecodeTypes, RoomInv
  <2>3. text' \in Seq(Character)
    <3>1. content \in Seq(Byte)
      BY DEF DecodeInv, DecodeTypes
    <3> QED
      BY <1>1, <3>1, EncodeType DEF Encode
  <2> QED
    BY <2>1, <2>2, <2>3 DEF DecodeInv, DecodeTypes, BlockInv, RoomInv, DecodeErrors
<1>2. CASE UNCHANGED <<text, op, content, decoder>>
  BY <1>2 DEF decoder, DecodeInv, DecodeTypes, BlockInv, RoomInv, BlocksOfThree, BinaryInBounds
<1>3. CASE \E idx \in Characters : ReadSymbol(idx) \/ ReadStop(idx) \/ ReadPadding(idx)
  BY <1>3, SymbolStep, StopStep, PaddingStep
<1>4. CASE ReadEnd \/ DecodeTail
  BY <1>4, EndStep, TailStep
<1>5. (Client \/ Recogniser \/ Others) /\ OfCall => UNCHANGED <<text, op, content, decoder>>
  BY DEF OfCall, recognised
<1>6. Answer \/ Over \/ UNCHANGED all => UNCHANGED <<text, op, content, decoder>>
  BY DEF Answer, Over, all, recognised
<1> QED
  BY <1>1, <1>2, <1>3, <1>4, <1>5, <1>6 DEF Next

\* It holds always.
LEMMA DecodeInvariance == FairSpec => []DecodeInv
BY InitDecode, DecodeKept, PTL DEF FairSpec

\* What post returns, and whether it throws.
ResultInv == rt \in {"", "text"} /\ thrown \in BOOLEAN

\* It does.
LEMMA ResultInvariance == FairSpec => []ResultInv
<1>1. Init => ResultInv
  BY DEF Init, ResultInv
<1>2. ResultInv /\ [Next]_all => ResultInv'
  <2> SUFFICES ASSUME ResultInv, [Next]_all PROVE ResultInv'
    OBVIOUS
  <2>1. CASE Answer
    BY <2>1 DEF Answer, Parsed, ResultInv
  <2>2. CASE UNCHANGED <<rt, thrown>>
    BY <2>2 DEF ResultInv
  <2>3. Answer \/ UNCHANGED <<rt, thrown>>
    BY DEF Next, Encode, OfCall, DecodeStep, ReadSymbol, ReadStop, ReadPadding, ReadEnd, DecodeTail,
           Over, all, recognised
  <2> QED
    BY <2>1, <2>2, <2>3
<1> QED
  BY <1>1, <1>2, PTL DEF FairSpec

\* The variables keep their types, whatever the recogniser sends.
THEOREM TypeCorrect == FairSpec => []TypeOK
<1>1. PostInv /\ DecodeInv /\ ResultInv => TypeOK
  <2> SUFFICES ASSUME PostInv, DecodeInv, ResultInv PROVE TypeOK
    OBVIOUS
  <2>1. {ret, failed, killed, thrown} \subseteq BOOLEAN
    BY DEF PostInv, Flags, ResultInv
  <2>2. text \in Seq(0..eof_idx)
    BY DEF DecodeInv, DecodeTypes, Character
  <2> QED
    BY <2>1, <2>2
    DEF TypeOK, PostInv, ReadInv, Pcs, SocketInv, DecodeInv, DecodeTypes, ResultInv
<1> QED
  BY <1>1, PostInvariance, DecodeInvariance, ResultInvariance, PTL

\* decode stores no byte outside what it allocated, whatever the text.
THEOREM BinaryFits == FairSpec => []BinaryInBounds
<1>1. DecodeInv => BinaryInBounds
  <2> SUFFICES ASSUME DecodeInv PROVE BinaryInBounds
    OBVIOUS
  <2>1. CASE d_pc = "off"
    <3>1. binary = <<>> /\ text \in Seq(Character)
      BY <2>1 DEF DecodeInv, DecodeTypes, RoomInv
    <3>2. Len(binary) = 3 * 0 + 0 /\ Len(text) \in Nat /\ Len(text) >= 4 * 0 + 0 /\ 0 \in 0..3
      BY <3>1
    <3> QED
      BY <3>2, RoomFits DEF BinaryInBounds
  <2>2. CASE d_pc = "data"
    BY <2>2, SoFarFits DEF DecodeInv, DecodeTypes, RoomInv
  <2>3. CASE d_pc \in {"padding", "tail"}
    BY <2>3, SoFarFits DEF DecodeInv, DecodeTypes, RoomInv
  <2>4. CASE d_pc \in {"returned"} \cup DecodeErrors
    BY <2>4 DEF DecodeInv, RoomInv
  <2> QED
    BY <2>1, <2>2, <2>3, <2>4 DEF DecodeInv, DecodeTypes
<1> QED
  BY <1>1, DecodeInvariance, PTL
-----------------------------------------------------------------------------
(***************************************************************************)
(* Texts and the bytes they stand for.  The definition compares bit by bit; *)
(* the proofs go by bytes, each of which two symbols make.                 *)
(***************************************************************************)
\* What the symbols s and u, one after the other, make of byte c of a block.
Joined(c, s, u) ==
  CASE c = 0 -> s * 4 + (u \div 16)
    [] c = 1 -> (s % 16) * 16 + (u \div 4)
    [] c = 2 -> (s % 4) * 64 + u

\* Byte c of block j is what two symbols of that block of the text make.
Listed(t, bytes, j, c) ==
  /\ t[4 * j + c + 1] \in 0..63 /\ t[4 * j + c + 2] \in 0..63
  /\ bytes[3 * j + c + 1] = Joined(c, t[4 * j + c + 1], t[4 * j + c + 2])

\* So are the first n bytes.
AllListed(t, bytes, n) ==
  \A j \in Nat : \A c \in 0..2 : 3 * j + c < n => Listed(t, bytes, j, c)

\* Where the bits of a byte are.
LEMMA ByteBit ==
  ASSUME NEW s, NEW k \in Nat, NEW e \in 1..8
  PROVE  Bit(s, 8, 8 * k + 8 - e) = (s[k + 1] \div Weights[e]) % 2
<1>1. (8 * k + 8 - e) \div 8 = k /\ 8 - ((8 * k + 8 - e) % 8) = e
  BY SMT
<1> QED
  BY <1>1 DEF Bit

\* And of a symbol, of which there are six bits.
LEMMA SymbolBit ==
  ASSUME NEW s, NEW k \in Nat, NEW e \in 1..6
  PROVE  Bit(s, 6, 6 * k + 6 - e) = (s[k + 1] \div Weights[e]) % 2
<1>1. (6 * k + 6 - e) \div 6 = k /\ 6 - ((6 * k + 6 - e) % 6) = e
  BY SMT
<1> QED
  BY <1>1 DEF Bit

\* The bits of a byte are those of the two symbols that make it.
LEMMA JoinedBits ==
  ASSUME NEW s \in 0..63, NEW u \in 0..63
  PROVE  /\ \A e \in 3..8 : (Joined(0, s, u) \div Weights[e]) % 2 = (s \div Weights[e - 2]) % 2
         /\ \A e \in 1..2 : (Joined(0, s, u) \div Weights[e]) % 2 = (u \div Weights[e + 4]) % 2
         /\ \A e \in 5..8 : (Joined(1, s, u) \div Weights[e]) % 2 = (s \div Weights[e - 4]) % 2
         /\ \A e \in 1..4 : (Joined(1, s, u) \div Weights[e]) % 2 = (u \div Weights[e + 2]) % 2
         /\ \A e \in 7..8 : (Joined(2, s, u) \div Weights[e]) % 2 = (s \div Weights[e - 6]) % 2
         /\ \A e \in 1..6 : (Joined(2, s, u) \div Weights[e]) % 2 = (u \div Weights[e]) % 2
<1>0. /\ Weights[1] = 1 /\ Weights[2] = 2 /\ Weights[3] = 4 /\ Weights[4] = 8
      /\ Weights[5] = 16 /\ Weights[6] = 32 /\ Weights[7] = 64 /\ Weights[8] = 128
  BY DEF Weights
<1>1. ASSUME NEW x, x = s * 4 + (u \div 16)
      PROVE  /\ (x \div 4) % 2 = (s \div 1) % 2
             /\ (x \div 8) % 2 = (s \div 2) % 2
             /\ (x \div 16) % 2 = (s \div 4) % 2
             /\ (x \div 32) % 2 = (s \div 8) % 2
             /\ (x \div 64) % 2 = (s \div 16) % 2
             /\ (x \div 128) % 2 = (s \div 32) % 2
             /\ (x \div 1) % 2 = (u \div 16) % 2
             /\ (x \div 2) % 2 = (u \div 32) % 2
  <2>1. PICK v \in 0..3 : v = u \div 16
    BY SMT
  <2>2. x = s * 4 + v
    BY <1>1, <2>1
  <2>3. x \div 4 = s
    BY <2>2, SMT
  <2>4. /\ x \div 8 = s \div 2
        /\ x \div 16 = s \div 4
        /\ x \div 32 = s \div 8
        /\ x \div 64 = s \div 16
        /\ x \div 128 = s \div 32
    BY <2>2, SMT
  <2>5. (x \div 1) % 2 = v % 2
    BY <2>2, SMT
  <2>6. (x \div 2) % 2 = v \div 2 /\ v \div 2 = (u \div 32) % 2
    BY <2>1, <2>2, SMT
  <2> QED
    BY <2>1, <2>3, <2>4, <2>5, <2>6, SMT
<1>2. ASSUME NEW x, x = (s % 16) * 16 + (u \div 4)
      PROVE  /\ (x \div 16) % 2 = (s \div 1) % 2
             /\ (x \div 32) % 2 = (s \div 2) % 2
             /\ (x \div 64) % 2 = (s \div 4) % 2
             /\ (x \div 128) % 2 = (s \div 8) % 2
             /\ (x \div 1) % 2 = (u \div 4) % 2
             /\ (x \div 2) % 2 = (u \div 8) % 2
             /\ (x \div 4) % 2 = (u \div 16) % 2
             /\ (x \div 8) % 2 = (u \div 32) % 2
  <2>1. PICK v \in 0..15 : v = u \div 4
    BY SMT
  <2>2. PICK w \in 0..15 : w = s % 16
    BY SMT
  <2>3. x = w * 16 + v
    BY <1>2, <2>1, <2>2
  <2>4. x \div 16 = w /\ x \div 32 = w \div 2 /\ x \div 64 = w \div 4 /\ x \div 128 = w \div 8
    BY <2>3, SMT
  <2>5. /\ w % 2 = s % 2 /\ (w \div 2) % 2 = (s \div 2) % 2
        /\ (w \div 4) % 2 = (s \div 4) % 2 /\ (w \div 8) % 2 = (s \div 8) % 2
    BY <2>2, SMT
  <2>6. /\ x % 2 = v % 2 /\ (x \div 2) % 2 = (v \div 2) % 2
        /\ (x \div 4) % 2 = (v \div 4) % 2 /\ (x \div 8) % 2 = (v \div 8) % 2
    BY <2>3, SMT
  <2>7. v \div 2 = u \div 8 /\ v \div 4 = u \div 16 /\ v \div 8 = u \div 32
    BY <2>1, SMT
  <2>8. x \div 1 = x /\ s \div 1 = s
    BY <2>3, SMT
  <2> QED
    BY <2>1, <2>4, <2>5, <2>6, <2>7, <2>8
<1>3. ASSUME NEW x, x = (s % 4) * 64 + u
      PROVE  /\ (x \div 64) % 2 = (s \div 1) % 2
             /\ (x \div 128) % 2 = (s \div 2) % 2
             /\ (x \div 1) % 2 = (u \div 1) % 2
             /\ (x \div 2) % 2 = (u \div 2) % 2
             /\ (x \div 4) % 2 = (u \div 4) % 2
             /\ (x \div 8) % 2 = (u \div 8) % 2
             /\ (x \div 16) % 2 = (u \div 16) % 2
             /\ (x \div 32) % 2 = (u \div 32) % 2
  <2>2. PICK w \in 0..3 : w = s % 4
    BY SMT
  <2>3. x = w * 64 + u
    BY <1>3, <2>2
  <2>4. x \div 64 = w /\ x \div 128 = w \div 2
    BY <2>3, SMT
  <2>5. w % 2 = s % 2 /\ (w \div 2) % 2 = (s \div 2) % 2
    BY <2>2, SMT
  <2>6. /\ x % 2 = u % 2 /\ (x \div 2) % 2 = (u \div 2) % 2
        /\ (x \div 4) % 2 = (u \div 4) % 2 /\ (x \div 8) % 2 = (u \div 8) % 2
    BY <2>3, SMT
  <2>7. (x \div 16) % 2 = (u \div 16) % 2 /\ (x \div 32) % 2 = (u \div 32) % 2
    BY <2>3, SMT
  <2>8. x \div 1 = x /\ s \div 1 = s /\ u \div 1 = u
    BY <2>3, SMT
  <2> QED
    BY <2>4, <2>5, <2>6, <2>7, <2>8
<1>4. /\ Joined(0, s, u) = s * 4 + (u \div 16)
      /\ Joined(1, s, u) = (s % 16) * 16 + (u \div 4)
      /\ Joined(2, s, u) = (s % 4) * 64 + u
  BY DEF Joined
<1>5. /\ \A e \in 3..8 : e \in {3, 4, 5, 6, 7, 8}
      /\ \A e \in 1..2 : e \in {1, 2}
      /\ \A e \in 5..8 : e \in {5, 6, 7, 8}
      /\ \A e \in 1..4 : e \in {1, 2, 3, 4}
      /\ \A e \in 7..8 : e \in {7, 8}
      /\ \A e \in 1..6 : e \in {1, 2, 3, 4, 5, 6}
  OBVIOUS
<1>6. PICK x : x = Joined(0, s, u)
  OBVIOUS
<1>7. PICK y : y = Joined(1, s, u)
  OBVIOUS
<1>8. PICK z : z = Joined(2, s, u)
  OBVIOUS
<1>9. ASSUME NEW e \in 3..8 PROVE (x \div Weights[e]) % 2 = (s \div Weights[e - 2]) % 2
  <2>1. e \in {3, 4, 5} \/ e \in {6, 7, 8}
    OBVIOUS
  <2>2. CASE e \in {3, 4, 5}
    BY <1>0, <1>1, <1>4, <1>6, <2>2
  <2>3. CASE e \in {6, 7, 8}
    BY <1>0, <1>1, <1>4, <1>6, <2>3
  <2> QED
    BY <2>1, <2>2, <2>3
<1>10. ASSUME NEW e \in 1..2 PROVE (x \div Weights[e]) % 2 = (u \div Weights[e + 4]) % 2
  BY <1>0, <1>1, <1>4, <1>5, <1>6
<1>11. ASSUME NEW e \in 5..8 PROVE (y \div Weights[e]) % 2 = (s \div Weights[e - 4]) % 2
  <2>1. /\ (y \div Weights[5]) % 2 = (s \div Weights[1]) % 2
        /\ (y \div Weights[6]) % 2 = (s \div Weights[2]) % 2
        /\ (y \div Weights[7]) % 2 = (s \div Weights[3]) % 2
        /\ (y \div Weights[8]) % 2 = (s \div Weights[4]) % 2
    BY <1>0, <1>2, <1>4, <1>7
  <2>2. e \in {5, 6, 7, 8} /\ 5 - 4 = 1 /\ 6 - 4 = 2 /\ 7 - 4 = 3 /\ 8 - 4 = 4
    OBVIOUS
  <2> QED
    BY <2>1, <2>2, SMT
<1>12. ASSUME NEW e \in 1..4 PROVE (y \div Weights[e]) % 2 = (u \div Weights[e + 2]) % 2
  BY <1>0, <1>2, <1>4, <1>5, <1>7
<1>13. ASSUME NEW e \in 7..8 PROVE (z \div Weights[e]) % 2 = (s \div Weights[e - 6]) % 2
  BY <1>0, <1>3, <1>4, <1>5, <1>8
<1>14. ASSUME NEW e \in 1..6 PROVE (z \div Weights[e]) % 2 = (u \div Weights[e]) % 2
  <2>1. /\ (z \div Weights[1]) % 2 = (u \div Weights[1]) % 2
        /\ (z \div Weights[2]) % 2 = (u \div Weights[2]) % 2
        /\ (z \div Weights[3]) % 2 = (u \div Weights[3]) % 2
        /\ (z \div Weights[4]) % 2 = (u \div Weights[4]) % 2
        /\ (z \div Weights[5]) % 2 = (u \div Weights[5]) % 2
        /\ (z \div Weights[6]) % 2 = (u \div Weights[6]) % 2
    BY <1>0, <1>3, <1>4, <1>8
  <2>2. \/ e = 1 \/ e = 2 \/ e = 3 \/ e = 4 \/ e = 5 \/ e = 6
    OBVIOUS
  <2> QED
    BY <2>1, <2>2, Zenon
<1> QED
  BY <1>6, <1>7, <1>8, <1>9, <1>10, <1>11, <1>12, <1>13, <1>14

\* So a byte that is listed has the bits that the text has in its place.
LEMMA ListedBits ==
  ASSUME NEW t, NEW bytes, NEW j \in Nat, NEW c \in 0..2, Listed(t, bytes, j, c),
         NEW e \in 1..8, NEW m, m = 8 * (3 * j + c) + 8 - e
  PROVE  Bit(bytes, 8, m) = Bit(t, 6, m)
<1> DEFINE s == t[4 * j + c + 1]
           u == t[4 * j + c + 2]
<1>1. s \in 0..63 /\ u \in 0..63 /\ bytes[3 * j + c + 1] = Joined(c, s, u)
  BY DEF Listed
<1>2. Bit(bytes, 8, m) = (Joined(c, s, u) \div Weights[e]) % 2
  <2>1. 3 * j + c \in Nat
    OBVIOUS
  <2> HIDE DEF s, u
  <2> QED
    BY <1>1, <2>1, ByteBit
<1>3. \A f \in 1..6 : Bit(t, 6, 6 * (4 * j + c) + 6 - f) = (s \div Weights[f]) % 2
  BY SymbolBit, 4 * j + c \in Nat
<1>4. \A f \in 1..6 : Bit(t, 6, 6 * (4 * j + c + 1) + 6 - f) = (u \div Weights[f]) % 2
  <2>1. 4 * j + c + 1 \in Nat /\ 4 * j + c + 1 + 1 = 4 * j + c + 2
    OBVIOUS
  <2> QED
    BY <2>1, SymbolBit
<1>5. \/ c = 0 \/ c = 1 \/ c = 2
  OBVIOUS
<1> HIDE DEF s, u
<1>6. CASE c = 0
  <2>1. CASE e \in 3..8
    <3>1. e - 2 \in 1..6 /\ m = 6 * (4 * j + c) + 6 - (e - 2)
      BY <1>6, <2>1
    <3> QED
      BY <1>1, <1>2, <1>3, <1>6, <2>1, <3>1, JoinedBits
  <2>2. CASE e \in 1..2
    <3>1. e + 4 \in 1..6 /\ m = 6 * (4 * j + c + 1) + 6 - (e + 4)
      BY <1>6, <2>2
    <3> QED
      BY <1>1, <1>2, <1>4, <1>6, <2>2, <3>1, JoinedBits
  <2> QED
    BY <2>1, <2>2
<1>7. CASE c = 1
  <2>1. CASE e \in 5..8
    <3>1. e - 4 \in 1..6 /\ m = 6 * (4 * j + c) + 6 - (e - 4)
      BY <1>7, <2>1
    <3> QED
      BY <1>1, <1>2, <1>3, <1>7, <2>1, <3>1, JoinedBits
  <2>2. CASE e \in 1..4
    <3>1. e + 2 \in 1..6 /\ m = 6 * (4 * j + c + 1) + 6 - (e + 2)
      BY <1>7, <2>2
    <3> QED
      BY <1>1, <1>2, <1>4, <1>7, <2>2, <3>1, JoinedBits
  <2> QED
    BY <2>1, <2>2
<1>8. CASE c = 2
  <2>1. CASE e \in 7..8
    <3>1. e - 6 \in 1..6 /\ m = 6 * (4 * j + c) + 6 - (e - 6)
      BY <1>8, <2>1
    <3> QED
      BY <1>1, <1>2, <1>3, <1>8, <2>1, <3>1, JoinedBits
  <2>2. CASE e \in 1..6
    <3>1. m = 6 * (4 * j + c + 1) + 6 - e
      BY <1>8, <2>2
    <3> QED
      BY <1>1, <1>2, <1>4, <1>8, <2>2, <3>1, JoinedBits
  <2> QED
    BY <2>1, <2>2
<1> QED
  BY <1>5, <1>6, <1>7, <1>8

\* And a text of the right length stands for the bytes it lists.
LEMMA ListedStands ==
  ASSUME NEW t, NEW bytes \in Seq(Byte), Len(bytes) = (Len(t) \div 4) * 3 - Paddings(t),
         AllListed(t, bytes, Len(bytes))
  PROVE  Stands(t, bytes)
<1>0. PICK n \in Nat : n = Len(bytes)
  OBVIOUS
<1>1. ASSUME NEW m \in 0..8 * n - 1
      PROVE  Bit(bytes, 8, m) = Bit(t, 6, m)
  <2>1. PICK k \in Nat : k = m \div 8
    BY <1>0, SMT
  <2>2. PICK j \in Nat : j = k \div 3
    BY SMT
  <2>3. PICK c \in 0..2 : k = 3 * j + c
    BY <2>2, SMT
  <2>4. PICK e \in 1..8 : m = 8 * k + 8 - e
    <3>1. m % 8 \in 0..7 /\ m = 8 * k + (m % 8)
      BY <1>0, <2>1, SMT
    <3>2. 8 - (m % 8) \in 1..8 /\ m = 8 * k + 8 - (8 - (m % 8))
      BY <3>1
    <3> QED
      BY <3>2
  <2>5. 3 * j + c < n
    <3>1. m \in Nat /\ m < 8 * n
      BY <1>0
    <3> QED
      BY <1>0, <2>3, <2>4, <3>1
  <2>6. Listed(t, bytes, j, c)
    BY <1>0, <2>5 DEF AllListed
  <2>7. m = 8 * (3 * j + c) + 8 - e
    BY <2>3, <2>4
  <2> QED
    <3>1. j \in Nat /\ c \in 0..2 /\ e \in 1..8
      BY <2>2, <2>3, <2>4
    <3>2. \A x : x = 8 * (3 * j + c) + 8 - e => Bit(bytes, 8, x) = Bit(t, 6, x)
      BY <2>6, <3>1, ListedBits
    <3> QED
      BY <2>7, <3>2
<1> QED
  BY <1>0, <1>1 DEF Stands

\* How many numbers follow p, up to n.
LEMMA IntervalSize ==
  ASSUME NEW p \in Nat, NEW n \in Nat, p <= n
  PROVE  Cardinality(p + 1..n) = n - p
<1>1. p + 1 \in Int /\ n \in Int
  OBVIOUS
<1>2. Cardinality(p + 1..n) = IF p + 1 > n THEN 0 ELSE n - (p + 1) + 1
  BY <1>1, FS_Interval
<1> QED
  BY <1>2

\* The paddings of a text that ends with them are what follows its symbols.
LEMMA PaddingsAfter ==
  ASSUME NEW t \in Seq(Character), NEW p \in 0..Len(t),
         \A k \in 1..p : t[k] \in 0..63,
         \A k \in p + 1..Len(t) : t[k] = padding_idx
  PROVE  Paddings(t) = Len(t) - p
<1>1. DOMAIN t = 1..Len(t) /\ Len(t) \in Nat /\ p \in Nat /\ p <= Len(t)
  OBVIOUS
<1>2. {k \in DOMAIN t : t[k] = padding_idx} = p + 1..Len(t)
  <2>0. padding_idx \notin 0..63
    BY DEF padding_idx
  <2>1. \A k \in 1..p : t[k] # padding_idx
    BY <2>0
  <2>2. \A k \in 1..Len(t) : k \in 1..p \/ k \in p + 1..Len(t)
    BY <1>1
  <2>3. \A k \in p + 1..Len(t) : k \in 1..Len(t)
    BY <1>1
  <2> QED
    BY <1>1, <2>1, <2>2, <2>3
<1>3. Cardinality(p + 1..Len(t)) = Len(t) - p
  BY <1>1, IntervalSize, Zenon
<1> QED
  BY <1>2, <1>3, Zenon DEF Paddings

\* And with up to two of them, after whole groups of four, it is well-formed.
LEMMA PaddedIsWellFormed ==
  ASSUME NEW t \in Seq(Character), NEW p \in 0..Len(t),
         \A k \in 1..p : t[k] \in 0..63,
         \A k \in p + 1..Len(t) : t[k] = padding_idx,
         Len(t) % 4 = 0, Len(t) - p <= 2
  PROVE  WellFormed(t) /\ Paddings(t) = Len(t) - p
<1>1. Paddings(t) = Len(t) - p
  BY PaddingsAfter
<1>2. DOMAIN t = 1..Len(t) /\ Len(t) \in Nat /\ p \in Nat
  OBVIOUS
<1>3. Len(t) - Paddings(t) = p
  BY <1>1, <1>2
<1>4. ASSUME NEW k \in 1..Len(t)
      PROVE  IF k > p THEN t[k] = padding_idx ELSE t[k] \in 0..63
  <2>1. k \in 1..p \/ (k \in p + 1..Len(t) /\ k > p)
    BY <1>2
  <2>2. k \in 1..p => ~ (k > p)
    OBVIOUS
  <2> QED
    BY <2>1, <2>2
<1> QED
  BY <1>1, <1>2, <1>3, <1>4 DEF WellFormed

\* A text that is well-formed has symbols, and paddings after the last of them only.
LEMMA WellFormedEnds ==
  ASSUME NEW t \in Seq(Character), WellFormed(t)
  PROVE  /\ Len(t) % 4 = 0
         /\ \A k \in 1..Len(t) : t[k] = padding_idx \/ t[k] \in 0..63
         /\ \A k \in 1..Len(t) : \A l \in 1..Len(t) :
              k <= l /\ t[k] = padding_idx => t[l] = padding_idx
         /\ \A k \in 1..Len(t) : t[k] = padding_idx => k > Len(t) - 2
<1>1. DOMAIN t = 1..Len(t) /\ Len(t) \in Nat
  OBVIOUS
<1>2. IsFiniteSet({k \in DOMAIN t : t[k] = padding_idx})
  <2>1. IsFiniteSet(1..Len(t))
    BY <1>1, FS_Interval
  <2> QED
    BY <1>1, <2>1, FS_Subset, {k \in DOMAIN t : t[k] = padding_idx} \subseteq 1..Len(t)
<1>3. Paddings(t) \in Nat
  BY <1>2, FS_CardinalityType DEF Paddings
<1>4. PICK p : p = Paddings(t)
  OBVIOUS
<1>5. /\ p \in Nat /\ p <= 2 /\ Len(t) % 4 = 0
      /\ \A k \in 1..Len(t) : IF k > Len(t) - p THEN t[k] = padding_idx ELSE t[k] \in 0..63
  BY <1>1, <1>3, <1>4 DEF WellFormed
<1>6. padding_idx \notin 0..63
  BY DEF padding_idx
<1>7. \A k \in 1..Len(t) : t[k] = padding_idx <=> k > Len(t) - p
  BY <1>5, <1>6
<1>8. \A k \in 1..Len(t) : k > Len(t) - p => k > Len(t) - 2
  BY <1>1, <1>5
<1>9. \A k \in 1..Len(t) : \A l \in 1..Len(t) : k <= l /\ k > Len(t) - p => l > Len(t) - p
  BY <1>1, <1>5
<1> QED
  BY <1>5, <1>7, <1>8, <1>9

\* The size of the text of whole blocks, and of r bytes more.
LEMMA EncodedSize ==
  ASSUME NEW q \in Nat, NEW r \in 0..2
  PROVE  encoded_size(3 * q + r) = 4 * q + (IF r = 0 THEN 0 ELSE 4)
<1>1. PICK n \in Nat : n = 3 * q + r + 2
  OBVIOUS
<1>2. CASE r = 0
  <2>1. n % 3 = 2
    BY <1>1, <1>2
  <2> QED
    BY <1>1, <1>2, <2>1 DEF encoded_size
<1>3. CASE r # 0
  <2>1. n % 3 = r - 1
    BY <1>1, <1>3
  <2> QED
    BY <1>1, <1>3, <2>1 DEF encoded_size
<1> QED
  BY <1>2, <1>3

\* A block of the audio, whole or not.
LEMMA BlockValues ==
  ASSUME NEW bytes \in Seq(Byte), NEW j \in Nat, 3 * j < Len(bytes),
         NEW b, b = BlockOf(bytes, j)
  PROVE  /\ Len(b) = IF 3 * j + 3 > Len(bytes) THEN Len(bytes) - 3 * j ELSE 3
         /\ \A i \in 1..3 : 3 * j + i <= Len(bytes) => b[i] = bytes[3 * j + i]
<1>1. Len(bytes) \in Nat
  OBVIOUS
<1>2. PICK m \in Nat : m = 3 * j + 1
  OBVIOUS
<1>3. PICK e \in Nat : e = IF 3 * j + 3 > Len(bytes) THEN Len(bytes) ELSE 3 * j + 3
  BY <1>1
<1>4. b = SubSeq(bytes, m, e)
  BY <1>2, <1>3 DEF BlockOf
<1>5. 1 <= m /\ m <= e /\ e <= Len(bytes)
  BY <1>1, <1>2, <1>3
<1>6. Len(b) = e - m + 1 /\ \A i \in 1..(e - m + 1) : b[i] = bytes[m + i - 1]
  BY <1>1, <1>4, <1>5
<1>7. ASSUME NEW i \in 1..3, 3 * j + i <= Len(bytes)
      PROVE  b[i] = bytes[3 * j + i]
  <2>1. i \in 1..(e - m + 1) /\ m + i - 1 = 3 * j + i
    BY <1>1, <1>2, <1>3, <1>7
  <2> QED
    BY <1>6, <2>1
<1>8. Len(b) = IF 3 * j + 3 > Len(bytes) THEN Len(bytes) - 3 * j ELSE 3
  <2>1. CASE 3 * j + 3 > Len(bytes)
    <3>1. e - m + 1 = Len(bytes) - 3 * j
      BY <1>1, <1>2, <1>3, <2>1
    <3> QED
      BY <1>6, <2>1, <3>1
  <2>2. CASE ~ (3 * j + 3 > Len(bytes))
    <3>1. e - m + 1 = 3
      BY <1>1, <1>2, <1>3, <2>2
    <3> QED
      BY <1>6, <2>2, <3>1
  <2> QED
    BY <2>1, <2>2
<1> QED
  BY <1>7, <1>8

\* What is written of a block.
LEMMA EncodedAt ==
  ASSUME NEW bytes, NEW j \in Nat, NEW I \in 0..3, NEW b, b = BlockOf(bytes, j),
         4 * j + I + 1 \in 1..encoded_size(Len(bytes))
  PROVE  encode(bytes)[4 * j + I + 1] = IF Len(b) = 3 THEN index(I, b) ELSE tail(I, b)
<1>1. (4 * j + I + 1 - 1) \div 4 = j /\ (4 * j + I + 1 - 1) % 4 = I
  BY SMT
<1>2. PICK k \in 1..encoded_size(Len(bytes)) : k = 4 * j + I + 1
  OBVIOUS
<1>3. (k - 1) \div 4 = j /\ (k - 1) % 4 = I
  BY <1>1, <1>2
<1>4. encode(bytes)[k] = IF Len(BlockOf(bytes, (k - 1) \div 4)) = 3
                         THEN index((k - 1) % 4, BlockOf(bytes, (k - 1) \div 4))
                         ELSE tail((k - 1) % 4, BlockOf(bytes, (k - 1) \div 4))
  BY DEF encode
<1> QED
  BY <1>2, <1>3, <1>4

\* Three bytes cut into symbols are joined again; the symbols of a tail end with zeros.
LEMMA CutAndJoined ==
  ASSUME NEW x \in Byte, NEW y \in Byte, NEW z \in Byte
  PROVE  /\ x \div 4 \in 0..63 /\ (x % 4) * 16 + (y \div 16) \in 0..63
         /\ (y % 16) * 4 + (z \div 64) \in 0..63 /\ z % 64 \in 0..63
         /\ (x % 4) * 16 \in 0..63 /\ (y % 16) * 4 \in 0..63
         /\ Joined(0, x \div 4, (x % 4) * 16 + (y \div 16)) = x
         /\ Joined(0, x \div 4, (x % 4) * 16) = x
         /\ Joined(1, (x % 4) * 16 + (y \div 16), (y % 16) * 4 + (z \div 64)) = y
         /\ Joined(1, (x % 4) * 16 + (y \div 16), (y % 16) * 4) = y
         /\ Joined(2, (y % 16) * 4 + (z \div 64), z % 64) = z
<1>1. x \in 0..255 /\ y \in 0..255 /\ z \in 0..255
  BY DEF Byte
<1>2. PICK a \in 0..63 : a = x \div 4
  BY <1>1, SMT
<1>3. PICK b \in 0..3 : b = x % 4
  BY <1>1, SMT
<1>4. PICK c \in 0..15 : c = y \div 16
  BY <1>1, SMT
<1>5. PICK d \in 0..15 : d = y % 16
  BY <1>1, SMT
<1>6. PICK e \in 0..3 : e = z \div 64
  BY <1>1, SMT
<1>7. PICK f \in 0..63 : f = z % 64
  BY <1>1, SMT
<1>8. x = a * 4 + b /\ y = c * 16 + d /\ z = e * 64 + f
  BY <1>1, <1>2, <1>3, <1>4, <1>5, <1>6, <1>7, SMT
<1>9. b * 16 + c \in 0..63 /\ d * 4 + e \in 0..63 /\ b * 16 \in 0..63 /\ d * 4 \in 0..63
  BY <1>3, <1>4, <1>5, <1>6
<1>10. (b * 16 + c) \div 16 = b /\ (b * 16) \div 16 = b /\ (b * 16 + c) % 16 = c
  BY <1>3, <1>4, SMT
<1>11. (d * 4 + e) \div 4 = d /\ (d * 4) \div 4 = d /\ (d * 4 + e) % 4 = e
  BY <1>5, <1>6, SMT
<1>12. /\ Joined(0, a, b * 16 + c) = x /\ Joined(0, a, b * 16) = x
       /\ Joined(1, b * 16 + c, d * 4 + e) = y /\ Joined(1, b * 16 + c, d * 4) = y
       /\ Joined(2, d * 4 + e, f) = z
  BY <1>8, <1>10, <1>11 DEF Joined
<1> QED
  BY <1>2, <1>3, <1>4, <1>5, <1>6, <1>7, <1>9, <1>12

\* A whole block of audio is listed by four symbols.
LEMMA BlockListed ==
  ASSUME NEW bytes \in Seq(Byte), NEW j \in Nat, 3 * j + 3 <= Len(bytes),
         NEW t, t = encode(bytes), NEW n, n = encoded_size(Len(bytes)), 4 * j + 4 <= n, n \in Nat
  PROVE  /\ \A i \in 1..4 : t[4 * j + i] \in 0..63
         /\ \A c \in 0..2 : Listed(t, bytes, j, c)
<1>1. PICK b : b = BlockOf(bytes, j)
  OBVIOUS
<1>2. Len(bytes) \in Nat
  OBVIOUS
<1>3. Len(b) = 3 /\ b[1] = bytes[3 * j + 1] /\ b[2] = bytes[3 * j + 2] /\ b[3] = bytes[3 * j + 3]
  BY <1>1, <1>2, BlockValues
<1>4. b[1] \in Byte /\ b[2] \in Byte /\ b[3] \in Byte
  <2>1. 3 * j + 1 \in 1..Len(bytes) /\ 3 * j + 2 \in 1..Len(bytes) /\ 3 * j + 3 \in 1..Len(bytes)
    BY <1>2
  <2> QED
    BY <1>3, <2>1, ElementType
<1>5. \A I \in 0..3 : t[4 * j + I + 1] = index(I, b)
  <2>1. \A I \in 0..3 : 4 * j + I + 1 \in 1..n
    OBVIOUS
  <2> QED
    BY <1>1, <1>3, <2>1, EncodedAt
<1>6. /\ t[4 * j + 1] = index(0, b) /\ t[4 * j + 2] = index(1, b)
      /\ t[4 * j + 3] = index(2, b) /\ t[4 * j + 4] = index(3, b)
  <2>1. /\ 4 * j + 0 + 1 = 4 * j + 1 /\ 4 * j + 1 + 1 = 4 * j + 2
        /\ 4 * j + 2 + 1 = 4 * j + 3 /\ 4 * j + 3 + 1 = 4 * j + 4
    OBVIOUS
  <2>2. /\ t[4 * j + 0 + 1] = index(0, b) /\ t[4 * j + 1 + 1] = index(1, b)
        /\ t[4 * j + 2 + 1] = index(2, b) /\ t[4 * j + 3 + 1] = index(3, b)
    BY <1>5
  <2> QED
    BY <2>1, <2>2
<1>7. /\ t[4 * j + 1] = b[1] \div 4 /\ t[4 * j + 2] = (b[1] % 4) * 16 + (b[2] \div 16)
      /\ t[4 * j + 3] = (b[2] % 16) * 4 + (b[3] \div 64) /\ t[4 * j + 4] = b[3] % 64
  BY <1>6, IndexValues
<1>8. /\ t[4 * j + 1] \in 0..63 /\ t[4 * j + 2] \in 0..63
      /\ t[4 * j + 3] \in 0..63 /\ t[4 * j + 4] \in 0..63
      /\ Joined(0, t[4 * j + 1], t[4 * j + 2]) = b[1]
      /\ Joined(1, t[4 * j + 2], t[4 * j + 3]) = b[2]
      /\ Joined(2, t[4 * j + 3], t[4 * j + 4]) = b[3]
  <2>1. PICK x \in Byte : x = b[1]
    BY <1>4
  <2>2. PICK y \in Byte : y = b[2]
    BY <1>4
  <2>3. PICK z \in Byte : z = b[3]
    BY <1>4
  <2>4. /\ x \div 4 \in 0..63 /\ (x % 4) * 16 + (y \div 16) \in 0..63
        /\ Joined(0, x \div 4, (x % 4) * 16 + (y \div 16)) = x
    BY <2>1, <2>2, CutAndJoined
  <2>5. /\ (y % 16) * 4 + (z \div 64) \in 0..63
        /\ Joined(1, (x % 4) * 16 + (y \div 16), (y % 16) * 4 + (z \div 64)) = y
    BY <2>1, <2>2, <2>3, CutAndJoined
  <2>6. z % 64 \in 0..63 /\ Joined(2, (y % 16) * 4 + (z \div 64), z % 64) = z
    BY <2>2, <2>3, CutAndJoined
  <2> QED
    BY <1>7, <2>1, <2>2, <2>3, <2>4, <2>5, <2>6
<1>9. \A i \in 1..4 : t[4 * j + i] \in 0..63
  <2>1. \A i \in 1..4 : i \in {1, 2, 3, 4}
    OBVIOUS
  <2> QED
    BY <1>8, <2>1
<1>10. Listed(t, bytes, j, 0) /\ Listed(t, bytes, j, 1) /\ Listed(t, bytes, j, 2)
  <2>1. /\ 4 * j + 0 + 1 = 4 * j + 1 /\ 4 * j + 0 + 2 = 4 * j + 2 /\ 3 * j + 0 + 1 = 3 * j + 1
        /\ 4 * j + 1 + 1 = 4 * j + 2 /\ 4 * j + 1 + 2 = 4 * j + 3 /\ 3 * j + 1 + 1 = 3 * j + 2
        /\ 4 * j + 2 + 1 = 4 * j + 3 /\ 4 * j + 2 + 2 = 4 * j + 4 /\ 3 * j + 2 + 1 = 3 * j + 3
    OBVIOUS
  <2>2. Listed(t, bytes, j, 0)
    BY <1>3, <1>8, <2>1 DEF Listed
  <2>3. Listed(t, bytes, j, 1)
    BY <1>3, <1>8, <2>1 DEF Listed
  <2>4. Listed(t, bytes, j, 2)
    BY <1>3, <1>8, <2>1 DEF Listed
  <2> QED
    BY <2>2, <2>3, <2>4
<1>11. \A c \in 0..2 : c \in {0, 1, 2}
  OBVIOUS
<1>12. \A c \in 0..2 : Listed(t, bytes, j, c)
  BY <1>10, <1>11, Zenon
<1> QED
  BY <1>9, <1>12, Zenon

\* A tail of one byte is two symbols, of which the second ends with zeros, and padding.
LEMMA OneByteListed ==
  ASSUME NEW bytes \in Seq(Byte), NEW j \in Nat, Len(bytes) = 3 * j + 1,
         NEW t, t = encode(bytes), 4 * j + 4 = encoded_size(Len(bytes))
  PROVE  /\ t[4 * j + 1] \in 0..63 /\ t[4 * j + 2] \in 0..63
         /\ t[4 * j + 3] = padding_idx /\ t[4 * j + 4] = padding_idx
         /\ Listed(t, bytes, j, 0)
         /\ \A e \in 1..4 : (t[4 * j + 2] \div Weights[e]) % 2 = 0
<1>1. PICK b : b = BlockOf(bytes, j)
  OBVIOUS
<1>2. Len(b) = 1 /\ b[1] = bytes[3 * j + 1]
  <2>1. /\ Len(b) = IF 3 * j + 3 > Len(bytes) THEN Len(bytes) - 3 * j ELSE 3
        /\ \A i \in 1..3 : 3 * j + i <= Len(bytes) => b[i] = bytes[3 * j + i]
    BY <1>1, BlockValues, 3 * j < Len(bytes)
  <2>2. 3 * j + 3 > Len(bytes) /\ Len(bytes) - 3 * j = 1
    OBVIOUS
  <2> QED
    BY <2>1, <2>2
<1>3. b[1] \in Byte
  <2>1. 3 * j + 1 \in 1..Len(bytes)
    OBVIOUS
  <2> QED
    BY <1>2, <2>1, ElementType
<1>4. \A I \in 0..3 : t[4 * j + I + 1] = tail(I, b)
  <2>1. \A I \in 0..3 : 4 * j + I + 1 \in 1..encoded_size(Len(bytes))
    OBVIOUS
  <2>2. Len(b) # 3
    BY <1>2
  <2> QED
    BY <1>1, <2>1, <2>2, EncodedAt
<1>5. /\ tail(0, b) = index(0, b) /\ tail(1, b) = index_last(1, b)
      /\ tail(2, b) = padding_idx /\ tail(3, b) = padding_idx
  BY <1>2 DEF tail
<1>6. /\ t[4 * j + 1] = b[1] \div 4 /\ t[4 * j + 2] = (b[1] % 4) * 16
      /\ t[4 * j + 3] = padding_idx /\ t[4 * j + 4] = padding_idx
  <2>1. /\ 4 * j + 0 + 1 = 4 * j + 1 /\ 4 * j + 1 + 1 = 4 * j + 2
        /\ 4 * j + 2 + 1 = 4 * j + 3 /\ 4 * j + 3 + 1 = 4 * j + 4
    OBVIOUS
  <2>2. /\ t[4 * j + 0 + 1] = tail(0, b) /\ t[4 * j + 1 + 1] = tail(1, b)
        /\ t[4 * j + 2 + 1] = tail(2, b) /\ t[4 * j + 3 + 1] = tail(3, b)
    BY <1>4
  <2>3. /\ t[4 * j + 1] = tail(0, b) /\ t[4 * j + 2] = tail(1, b)
        /\ t[4 * j + 3] = tail(2, b) /\ t[4 * j + 4] = tail(3, b)
    BY <2>1, <2>2
  <2> QED
    BY <1>5, <2>3, IndexValues
<1>7. /\ t[4 * j + 1] \in 0..63 /\ t[4 * j + 2] \in 0..63
      /\ Joined(0, t[4 * j + 1], t[4 * j + 2]) = b[1]
  BY <1>3, <1>6, CutAndJoined
<1>8. Listed(t, bytes, j, 0)
  <2>1. 4 * j + 0 + 1 = 4 * j + 1 /\ 4 * j + 0 + 2 = 4 * j + 2 /\ 3 * j + 0 + 1 = 3 * j + 1
    OBVIOUS
  <2> QED
    BY <1>2, <1>7, <2>1 DEF Listed
<1>9. \A e \in 1..4 : (t[4 * j + 2] \div Weights[e]) % 2 = 0
  <2>1. PICK x \in 0..3 : x = b[1] % 4
    <3>1. b[1] \in Nat
      BY <1>3, ByteFacts
    <3> QED
      BY <3>1, SMT
  <2>2. /\ ((x * 16) \div 1) % 2 = 0 /\ ((x * 16) \div 2) % 2 = 0
        /\ ((x * 16) \div 4) % 2 = 0 /\ ((x * 16) \div 8) % 2 = 0
    BY <2>1, SMT
  <2>3. Weights[1] = 1 /\ Weights[2] = 2 /\ Weights[3] = 4 /\ Weights[4] = 8
    BY DEF Weights
  <2>4. \A e \in 1..4 : e \in {1, 2, 3, 4}
    OBVIOUS
  <2> QED
    BY <1>6, <2>1, <2>2, <2>3, <2>4
<1> QED
  BY <1>6, <1>7, <1>8, <1>9

\* A tail of two bytes is three, of which the third ends with zeros, and padding.
LEMMA TwoBytesListed ==
  ASSUME NEW bytes \in Seq(Byte), NEW j \in Nat, Len(bytes) = 3 * j + 2,
         NEW t, t = encode(bytes), 4 * j + 4 = encoded_size(Len(bytes))
  PROVE  /\ t[4 * j + 1] \in 0..63 /\ t[4 * j + 2] \in 0..63 /\ t[4 * j + 3] \in 0..63
         /\ t[4 * j + 4] = padding_idx
         /\ Listed(t, bytes, j, 0) /\ Listed(t, bytes, j, 1)
         /\ \A e \in 1..2 : (t[4 * j + 3] \div Weights[e]) % 2 = 0
<1>1. PICK b : b = BlockOf(bytes, j)
  OBVIOUS
<1>2. Len(b) = 2 /\ b[1] = bytes[3 * j + 1] /\ b[2] = bytes[3 * j + 2]
  <2>1. /\ Len(b) = IF 3 * j + 3 > Len(bytes) THEN Len(bytes) - 3 * j ELSE 3
        /\ \A i \in 1..3 : 3 * j + i <= Len(bytes) => b[i] = bytes[3 * j + i]
    BY <1>1, BlockValues, 3 * j < Len(bytes)
  <2>2. 3 * j + 3 > Len(bytes) /\ Len(bytes) - 3 * j = 2
    OBVIOUS
  <2> QED
    BY <2>1, <2>2
<1>3. b[1] \in Byte /\ b[2] \in Byte
  <2>1. 3 * j + 1 \in 1..Len(bytes) /\ 3 * j + 2 \in 1..Len(bytes)
    OBVIOUS
  <2> QED
    BY <1>2, <2>1, ElementType
<1>4. \A I \in 0..3 : t[4 * j + I + 1] = tail(I, b)
  <2>1. \A I \in 0..3 : 4 * j + I + 1 \in 1..encoded_size(Len(bytes))
    OBVIOUS
  <2>2. Len(b) # 3
    BY <1>2
  <2> QED
    BY <1>1, <2>1, <2>2, EncodedAt
<1>5. /\ tail(0, b) = index(0, b) /\ tail(1, b) = index(1, b)
      /\ tail(2, b) = index_last(2, b) /\ tail(3, b) = padding_idx
  BY <1>2 DEF tail
<1>6. /\ t[4 * j + 1] = b[1] \div 4 /\ t[4 * j + 2] = (b[1] % 4) * 16 + (b[2] \div 16)
      /\ t[4 * j + 3] = (b[2] % 16) * 4 /\ t[4 * j + 4] = padding_idx
  <2>1. /\ 4 * j + 0 + 1 = 4 * j + 1 /\ 4 * j + 1 + 1 = 4 * j + 2
        /\ 4 * j + 2 + 1 = 4 * j + 3 /\ 4 * j + 3 + 1 = 4 * j + 4
    OBVIOUS
  <2>2. /\ t[4 * j + 0 + 1] = tail(0, b) /\ t[4 * j + 1 + 1] = tail(1, b)
        /\ t[4 * j + 2 + 1] = tail(2, b) /\ t[4 * j + 3 + 1] = tail(3, b)
    BY <1>4
  <2>3. /\ t[4 * j + 1] = tail(0, b) /\ t[4 * j + 2] = tail(1, b)
        /\ t[4 * j + 3] = tail(2, b) /\ t[4 * j + 4] = tail(3, b)
    BY <2>1, <2>2
  <2> QED
    BY <1>5, <2>3, IndexValues
<1>7. /\ t[4 * j + 1] \in 0..63 /\ t[4 * j + 2] \in 0..63 /\ t[4 * j + 3] \in 0..63
      /\ Joined(0, t[4 * j + 1], t[4 * j + 2]) = b[1]
      /\ Joined(1, t[4 * j + 2], t[4 * j + 3]) = b[2]
  BY <1>3, <1>6, CutAndJoined
<1>8. Listed(t, bytes, j, 0) /\ Listed(t, bytes, j, 1)
  <2>1. /\ 4 * j + 0 + 1 = 4 * j + 1 /\ 4 * j + 0 + 2 = 4 * j + 2 /\ 3 * j + 0 + 1 = 3 * j + 1
        /\ 4 * j + 1 + 1 = 4 * j + 2 /\ 4 * j + 1 + 2 = 4 * j + 3 /\ 3 * j + 1 + 1 = 3 * j + 2
    OBVIOUS
  <2>2. Listed(t, bytes, j, 0)
    BY <1>2, <1>7, <2>1 DEF Listed
  <2>3. Listed(t, bytes, j, 1)
    BY <1>2, <1>7, <2>1 DEF Listed
  <2> QED
    BY <2>2, <2>3
<1>9. \A e \in 1..2 : (t[4 * j + 3] \div Weights[e]) % 2 = 0
  <2>1. PICK x \in 0..15 : x = b[2] % 16
    <3>1. b[2] \in Nat
      BY <1>3, ByteFacts
    <3> QED
      BY <3>1, SMT
  <2>2. ((x * 4) \div 1) % 2 = 0 /\ ((x * 4) \div 2) % 2 = 0
    BY <2>1, SMT
  <2>3. Weights[1] = 1 /\ Weights[2] = 2
    BY DEF Weights
  <2>4. \A e \in 1..2 : e \in {1, 2}
    OBVIOUS
  <2> QED
    BY <1>6, <2>1, <2>2, <2>3, <2>4
<1> QED
  BY <1>6, <1>7, <1>8, <1>9

\* The bits after the last byte are those of no byte: they weigh up to the symbol's rest.
LEMMA UnusedBits ==
  ASSUME NEW t, NEW k \in Nat, NEW d \in 0..4,
         \A e \in 1..d : (t[k + 1] \div Weights[e]) % 2 = 0,
         NEW m \in Int, 6 * k + 6 - d <= m, m <= 6 * k + 5
  PROVE  Bit(t, 6, m) = 0
<1>1. PICK e \in 1..d : m = 6 * k + 6 - e
  <2>1. 6 * k + 6 - m \in 1..d /\ m = 6 * k + 6 - (6 * k + 6 - m)
    OBVIOUS
  <2> QED
    BY <2>1
<1>2. e \in 1..6
  BY <1>1
<1>3. Bit(t, 6, 6 * k + 6 - e) = (t[k + 1] \div Weights[e]) % 2
  BY <1>2, SymbolBit
<1> QED
  BY <1>1, <1>3

\* The text of any audio is well-formed, and its bits are those of the audio.
LEMMA EncodedStands ==
  ASSUME NEW bytes \in Seq(Byte), NEW t, t = encode(bytes)
  PROVE  WellFormed(t) /\ Stands(t, bytes) /\ UnusedAreZero(t, bytes)
<1>1. PICK n \in Nat : n = Len(bytes)
  OBVIOUS
<1>2. PICK q \in Nat : q = n \div 3
  BY <1>1, SMT
<1>3. PICK r \in 0..2 : n = 3 * q + r
  <2>1. n % 3 \in 0..2 /\ n = 3 * q + (n % 3)
    BY <1>1, <1>2, SMT
  <2> QED
    BY <2>1
<1>4. encoded_size(Len(bytes)) = 4 * q + (IF r = 0 THEN 0 ELSE 4)
  BY <1>1, <1>2, <1>3, EncodedSize
<1>5. t \in Seq(Character) /\ Len(t) = 4 * q + (IF r = 0 THEN 0 ELSE 4)
  <2>1. t \in Seq(Character)
    BY EncodeType
  <2>2. DOMAIN t = 1..encoded_size(Len(bytes))
    BY DEF encode
  <2>3. PICK l \in Nat : l = 4 * q + (IF r = 0 THEN 0 ELSE 4)
    BY <1>2, <1>3
  <2>4. DOMAIN t = 1..l /\ DOMAIN t = 1..Len(t) /\ Len(t) \in Nat
    BY <1>4, <2>1, <2>2, <2>3
  <2> QED
    BY <2>1, <2>3, <2>4
<1>6. ASSUME NEW j \in Nat, j < q
      PROVE  /\ \A i \in 1..4 : t[4 * j + i] \in 0..63
             /\ \A c \in 0..2 : Listed(t, bytes, j, c)
  <2>1. 3 * j + 3 <= Len(bytes)
    BY <1>1, <1>2, <1>3, <1>6
  <2>2. PICK l \in Nat : l = encoded_size(Len(bytes))
    BY <1>2, <1>3, <1>4
  <2>3. 4 * j + 4 <= l
    BY <1>2, <1>3, <1>4, <1>6, <2>2
  <2> QED
    BY <2>1, <2>2, <2>3, BlockListed
<1>7. \A k \in 1..4 * q : t[k] \in 0..63
  <2> TAKE k \in 1..4 * q
  <2>0. k \in Nat /\ k >= 1 /\ k <= 4 * q
    BY <1>2
  <2>1. PICK j \in Nat : j = (k - 1) \div 4
    BY <2>0, SMT
  <2>2. PICK i \in 1..4 : k = 4 * j + i
    <3>1. k - 4 * j \in 1..4 /\ k = 4 * j + (k - 4 * j)
      BY <2>0, <2>1, SMT
    <3> QED
      BY <3>1
  <2>3. j < q
    BY <1>2, <2>0, <2>1, <2>2
  <2> QED
    BY <1>6, <2>2, <2>3
<1>8. CASE r = 0
  <2>1. Len(t) = 4 * q /\ n = 3 * q
    BY <1>2, <1>3, <1>5, <1>8
  <2>2. WellFormed(t) /\ Paddings(t) = 0
    <3>1. PICK p \in 0..Len(t) : p = 4 * q
      BY <1>2, <2>1
    <3>2. Len(t) % 4 = 0 /\ Len(t) - p = 0 /\ Len(t) - p <= 2
      BY <1>2, <2>1, <3>1
    <3>3. (\A k \in 1..p : t[k] \in 0..63) /\ \A k \in p + 1..Len(t) : t[k] = padding_idx
      BY <1>2, <1>7, <2>1, <3>1
    <3> QED
      BY <1>5, <3>1, <3>2, <3>3, PaddedIsWellFormed
  <2>3. Stands(t, bytes)
    <3>1. Len(bytes) = (Len(t) \div 4) * 3 - Paddings(t)
      BY <1>1, <1>2, <2>1, <2>2
    <3>2. AllListed(t, bytes, Len(bytes))
      <4>1. \A j \in Nat : \A c \in 0..2 : 3 * j + c < n => j < q
        BY <1>2, <2>1
      <4> QED
        BY <1>6, <1>1, <4>1 DEF AllListed
    <3> QED
      BY <3>1, <3>2, ListedStands
  <2>4. UnusedAreZero(t, bytes)
    <3>1. 8 * Len(bytes) > 6 * (Len(t) - Paddings(t)) - 1
      BY <1>1, <1>2, <2>1, <2>2
    <3>2. 8 * Len(bytes)..6 * (Len(t) - Paddings(t)) - 1 = {}
      BY <1>1, <1>2, <2>1, <2>2, <3>1
    <3> QED
      BY <3>2 DEF UnusedAreZero
  <2> QED
    BY <2>2, <2>3, <2>4
<1>9. CASE r = 1
  <2>1. Len(t) = 4 * q + 4 /\ n = 3 * q + 1 /\ encoded_size(Len(bytes)) = 4 * q + 4
    BY <1>2, <1>3, <1>4, <1>5, <1>9
  <2>2. /\ t[4 * q + 1] \in 0..63 /\ t[4 * q + 2] \in 0..63
        /\ t[4 * q + 3] = padding_idx /\ t[4 * q + 4] = padding_idx
        /\ Listed(t, bytes, q, 0)
        /\ \A e \in 1..4 : (t[4 * q + 2] \div Weights[e]) % 2 = 0
    BY <1>1, <1>2, <2>1, OneByteListed
  <2>3. WellFormed(t) /\ Paddings(t) = 2
    <3>1. PICK p \in 0..Len(t) : p = 4 * q + 2
      BY <1>2, <2>1
    <3>2. \A k \in 1..4 * q + 2 : k \in 1..4 * q \/ k = 4 * q + 1 \/ k = 4 * q + 2
      BY <1>2
    <3>3. \A k \in (4 * q + 2) + 1..Len(t) : k = 4 * q + 3 \/ k = 4 * q + 4
      BY <1>2, <2>1
    <3>4. Len(t) % 4 = 0 /\ Len(t) - p = 2 /\ Len(t) - p <= 2
      BY <1>2, <2>1, <3>1
    <3>5. \A k \in 1..p : t[k] \in 0..63
      BY <1>7, <2>2, <3>1, <3>2
    <3>6. \A k \in p + 1..Len(t) : t[k] = padding_idx
      BY <2>2, <3>1, <3>3
    <3> QED
      BY <1>5, <3>1, <3>4, <3>5, <3>6, PaddedIsWellFormed
  <2>4. Stands(t, bytes)
    <3>1. Len(bytes) = (Len(t) \div 4) * 3 - Paddings(t)
      BY <1>1, <1>2, <2>1, <2>3
    <3>2. AllListed(t, bytes, Len(bytes))
      <4>1. \A j \in Nat : \A c \in 0..2 : 3 * j + c < n => j < q \/ (j = q /\ c = 0)
        BY <1>2, <2>1
      <4> QED
        BY <1>6, <2>2, <1>1, <4>1 DEF AllListed
    <3> QED
      BY <3>1, <3>2, ListedStands
  <2>5. UnusedAreZero(t, bytes)
    <3>1. /\ 8 * Len(bytes) = 6 * (4 * q + 1) + 6 - 4
          /\ 6 * (Len(t) - Paddings(t)) - 1 = 6 * (4 * q + 1) + 5
      BY <1>1, <1>2, <2>1, <2>3
    <3>2. \A e \in 1..4 : (t[(4 * q + 1) + 1] \div Weights[e]) % 2 = 0
      <4>1. (4 * q + 1) + 1 = 4 * q + 2
        BY <1>2
      <4> QED
        BY <2>2, <4>1
    <3>3. ASSUME NEW m \in 6 * (4 * q + 1) + 6 - 4..6 * (4 * q + 1) + 5
          PROVE  Bit(t, 6, m) = 0
      <4>1. /\ m \in Int /\ 6 * (4 * q + 1) + 6 - 4 <= m /\ m <= 6 * (4 * q + 1) + 5
            /\ 4 * q + 1 \in Nat /\ 4 \in 0..4
        BY <1>2
      <4> QED
        BY <3>2, <4>1, UnusedBits
    <3> QED
      BY <3>1, <3>3 DEF UnusedAreZero
  <2> QED
    BY <2>3, <2>4, <2>5
<1>10. CASE r = 2
  <2>1. Len(t) = 4 * q + 4 /\ n = 3 * q + 2 /\ encoded_size(Len(bytes)) = 4 * q + 4
    BY <1>2, <1>3, <1>4, <1>5, <1>10
  <2>2. /\ t[4 * q + 1] \in 0..63 /\ t[4 * q + 2] \in 0..63 /\ t[4 * q + 3] \in 0..63
        /\ t[4 * q + 4] = padding_idx
        /\ Listed(t, bytes, q, 0) /\ Listed(t, bytes, q, 1)
        /\ \A e \in 1..2 : (t[4 * q + 3] \div Weights[e]) % 2 = 0
    BY <1>1, <1>2, <2>1, TwoBytesListed
  <2>3. WellFormed(t) /\ Paddings(t) = 1
    <3>1. PICK p \in 0..Len(t) : p = 4 * q + 3
      BY <1>2, <2>1
    <3>2. \A k \in 1..4 * q + 3 :
            k \in 1..4 * q \/ k = 4 * q + 1 \/ k = 4 * q + 2 \/ k = 4 * q + 3
      BY <1>2
    <3>3. \A k \in (4 * q + 3) + 1..Len(t) : k = 4 * q + 4
      BY <1>2, <2>1
    <3>4. Len(t) % 4 = 0 /\ Len(t) - p = 1 /\ Len(t) - p <= 2
      BY <1>2, <2>1, <3>1
    <3>5. \A k \in 1..p : t[k] \in 0..63
      BY <1>7, <2>2, <3>1, <3>2
    <3>6. \A k \in p + 1..Len(t) : t[k] = padding_idx
      BY <2>2, <3>1, <3>3
    <3> QED
      BY <1>5, <3>1, <3>4, <3>5, <3>6, PaddedIsWellFormed
  <2>4. Stands(t, bytes)
    <3>1. Len(bytes) = (Len(t) \div 4) * 3 - Paddings(t)
      BY <1>1, <1>2, <2>1, <2>3
    <3>2. AllListed(t, bytes, Len(bytes))
      <4>1. \A j \in Nat : \A c \in 0..2 :
              3 * j + c < n => j < q \/ (j = q /\ c = 0) \/ (j = q /\ c = 1)
        BY <1>2, <2>1
      <4> QED
        BY <1>6, <2>2, <1>1, <4>1 DEF AllListed
    <3> QED
      BY <3>1, <3>2, ListedStands
  <2>5. UnusedAreZero(t, bytes)
    <3>1. /\ 8 * Len(bytes) = 6 * (4 * q + 2) + 6 - 2
          /\ 6 * (Len(t) - Paddings(t)) - 1 = 6 * (4 * q + 2) + 5
      BY <1>1, <1>2, <2>1, <2>3
    <3>2. \A e \in 1..2 : (t[(4 * q + 2) + 1] \div Weights[e]) % 2 = 0
      <4>1. (4 * q + 2) + 1 = 4 * q + 3
        BY <1>2
      <4> QED
        BY <2>2, <4>1
    <3>3. ASSUME NEW m \in 6 * (4 * q + 2) + 6 - 2..6 * (4 * q + 2) + 5
          PROVE  Bit(t, 6, m) = 0
      <4>1. /\ m \in Int /\ 6 * (4 * q + 2) + 6 - 2 <= m /\ m <= 6 * (4 * q + 2) + 5
            /\ 4 * q + 2 \in Nat /\ 2 \in 0..4
        BY <1>2
      <4> QED
        BY <3>2, <4>1, UnusedBits
    <3> QED
      BY <3>1, <3>3 DEF UnusedAreZero
  <2> QED
    BY <2>3, <2>4, <2>5
<1>11. r = 0 \/ r = 1 \/ r = 2
  BY <1>3
<1> QED
  BY <1>8, <1>9, <1>10, <1>11

\* What was sent is the text of the audio.
TextSent == op = "post" /\ c_pc # "off" => text = encode(content)

\* It stays so until the call is over.
LEMMA SentInvariance == FairSpec => []TextSent
<1>1. Init => TextSent
  BY DEF Init, InitAt, TextSent
<1>2. DecodeInv /\ TextSent /\ [Next]_all => TextSent'
  <2> SUFFICES ASSUME DecodeInv, TextSent, [Next]_all PROVE TextSent'
    OBVIOUS
  <2>1. CASE Encode
    BY <2>1 DEF Encode, recognised, TextSent
  <2>2. CASE Client /\ OfCall
    <3>1. c_pc # "off"
      BY <2>2 DEF Client, Connect, Write, WriteFails, WriteSignals, Written, read_response_line,
         SkipLine, ReadHeader, EndHeaders, ReadCounted, ReadRest, ReadSize, EndChunk, ReadTrailer,
         ReadFails, ReadsTooLittle, EndRest, Respond, Finish, Destroy, At, Reads, Reading
    <3> QED
      BY <2>2, <3>1 DEF OfCall, recognised, TextSent
  <2>3. CASE (Recogniser \/ Others) /\ OfCall
    <3>1. c_pc' = c_pc
      BY <2>3 DEF Recogniser, Send, Drip, Close, Others, OthersOpen, OthersClose, res
    <3> QED
      BY <2>3, <3>1 DEF OfCall, recognised, TextSent
  <2>4. CASE Answer
    BY <2>4 DEF Answer, At, TextSent
  <2>5. CASE (\E idx \in Characters : ReadSymbol(idx) \/ ReadStop(idx) \/ ReadPadding(idx))
             \/ ReadEnd \/ DecodeTail
    <3>1. d_pc # "off" /\ UNCHANGED op
      BY <2>5 DEF ReadSymbol, ReadStop, ReadPadding, ReadEnd, DecodeTail, DecodeStep, recognised
    <3> QED
      BY <3>1 DEF DecodeInv, DecodeTypes, TextSent
  <2>6. CASE Over \/ UNCHANGED all
    BY <2>6 DEF Over, all, vars, recognised, TextSent
  <2> QED
    BY <2>1, <2>2, <2>3, <2>4, <2>5, <2>6 DEF Next
<1> QED
  BY <1>1, <1>2, DecodeInvariance, PTL DEF FairSpec

\* The text sent stands for the audio, of any length: no byte is lost or added at the
\* end of it, and none of the bits that fill up its last symbol is set.
THEOREM TextHasAudio == FairSpec => []AudioArrives
<1>1. DecodeInv /\ TextSent => AudioArrives
  BY EncodedStands DEF DecodeInv, DecodeTypes, TextSent, AudioArrives
<1> QED
  BY <1>1, DecodeInvariance, SentInvariance, PTL
-----------------------------------------------------------------------------
(***************************************************************************)
(* Which texts decode returns the bytes of.  The invariant says what of the *)
(* text is read at each place in the loop: whole blocks, and a part of one. *)
(***************************************************************************)
\* Two sequences begin with the same n elements.
Agree(s, t, n) == \A k \in 1..n : s[k] = t[k]

\* A text begins with n symbols, and after m characters it is padding.
SymbolsTo(t, n) == \A k \in 1..n : t[k] \in 0..63
PaddedFrom(t, m) == \A k \in m + 1..Len(t) : t[k] = padding_idx

\* The first n symbols of block q are at hand.
AtHand(idx, t, q, n) == \A k \in 0..n - 1 : idx[k] = t[4 * q + k + 1]

\* The first m bytes of block q are listed.
BlockLists(t, bytes, q, m) == \A c \in 0..2 : c < m => Listed(t, bytes, q, c)

\* A text that is read up to here: q blocks that are decoded, n symbols more, which are
\* at hand, and paddings, l characters of this block in all.
Blocks(t, bytes, idx, q, n, l) ==
  /\ Len(t) = 4 * q + l /\ Len(bytes) = 3 * q
  /\ SymbolsTo(t, 4 * q + n) /\ PaddedFrom(t, 4 * q + n)
  /\ AtHand(idx, t, q, n)
  /\ AllListed(t, bytes, 3 * q)

\* The text t up to the first NUL.
UpTo(t) ==
  SubSeq(t, 1, CHOOSE n \in 0..Len(t) :
    (\A k \in 1..n : t[k] # eof_idx) /\ (n < Len(t) => t[n + 1] = eof_idx))

\* What the text read so far is, and what was made of it.
RfcInv ==
  /\ d_pc = "data" =>
       \E q \in Nat : Blocks(text, binary, alphabet_indexes, q, index_ptr, index_ptr)
  /\ d_pc = "padding" =>
       /\ 0 < index_ptr /\ index_ptr < last_ptr
       /\ \E q \in Nat : Blocks(text, binary, alphabet_indexes, q, index_ptr, last_ptr)
  /\ d_pc = "tail" =>
       /\ last_ptr = index_ptr \/ (0 < index_ptr /\ index_ptr < last_ptr)
       /\ \E t \in Seq(Character) : \E q \in Nat :
            t = UpTo(text) /\ Blocks(t, binary, alphabet_indexes, q, index_ptr, last_ptr)
  /\ d_pc = "returned" => WellFormed(UpTo(text)) /\ Stands(UpTo(text), binary)
  /\ d_pc \in DecodeErrors => ~ WellFormed(UpTo(text))

\* A text without a NUL is read to its end.
LEMMA UpToAll ==
  ASSUME NEW t \in Seq(Character), \A k \in 1..Len(t) : t[k] # eof_idx
  PROVE  UpTo(t) = t
<1> DEFINE Ends(n) == (\A k \in 1..n : t[k] # eof_idx) /\ (n < Len(t) => t[n + 1] = eof_idx)
<1>1. Len(t) \in 0..Len(t) /\ Ends(Len(t))
  OBVIOUS
<1>2. ASSUME NEW n \in 0..Len(t), Ends(n) PROVE n = Len(t)
  <2>1. n < Len(t) => n + 1 \in 1..Len(t) /\ t[n + 1] = eof_idx
    BY <1>2
  <2> QED
    BY <2>1
<1> HIDE DEF Ends
<1>3. (CHOOSE n \in 0..Len(t) : Ends(n)) = Len(t)
  BY <1>1, <1>2, Zenon
<1>4. UpTo(t) = SubSeq(t, 1, Len(t))
  BY <1>3, Zenon DEF UpTo, Ends
<1>5. SubSeq(t, 1, Len(t)) = t
  OBVIOUS
<1> QED
  BY <1>4, <1>5

\* A NUL behind a text without one is not part of it.
LEMMA UpToEof ==
  ASSUME NEW s \in Seq(Character), \A k \in 1..Len(s) : s[k] # eof_idx,
         NEW t, t = Append(s, eof_idx)
  PROVE  UpTo(t) = s
<1> DEFINE Ends(n) == (\A k \in 1..n : t[k] # eof_idx) /\ (n < Len(t) => t[n + 1] = eof_idx)
<1>1. /\ Len(s) \in Nat /\ Len(t) = Len(s) + 1 /\ t[Len(s) + 1] = eof_idx
      /\ \A k \in 1..Len(s) : t[k] = s[k]
  OBVIOUS
<1>2. Len(s) \in 0..Len(t) /\ Ends(Len(s))
  BY <1>1
<1>3. ASSUME NEW n \in 0..Len(t), Ends(n) PROVE n = Len(s)
  <2>1. CASE n < Len(s)
    <3>1. n + 1 \in 1..Len(s) /\ n < Len(t) /\ t[n + 1] = eof_idx
      BY <1>1, <1>3, <2>1
    <3> QED
      BY <1>1, <3>1
  <2>2. CASE n > Len(s)
    <3>1. Len(s) + 1 \in 1..n
      BY <1>1, <2>2
    <3> QED
      BY <1>1, <1>3, <3>1
  <2> QED
    BY <1>1, <2>1, <2>2
<1> HIDE DEF Ends
<1>4. (CHOOSE n \in 0..Len(t) : Ends(n)) = Len(s)
  BY <1>2, <1>3, Zenon
<1>5. UpTo(t) = SubSeq(t, 1, Len(s))
  BY <1>4, Zenon DEF UpTo, Ends
<1>6. SubSeq(t, 1, Len(s)) = s
  OBVIOUS
<1> QED
  BY <1>5, <1>6

\* The four symbols of a block make three bytes.
LEMMA BlockJoined ==
  ASSUME NEW idx, \A k \in 0..3 : idx[k] \in 0..63
  PROVE  decode_block(idx) = <<Joined(0, idx[0], idx[1]), Joined(1, idx[1], idx[2]),
                               Joined(2, idx[2], idx[3])>>
<1>1. PICK a \in 0..63 : a = idx[0]
  OBVIOUS
<1>2. PICK b \in 0..63 : b = idx[1]
  OBVIOUS
<1>3. PICK c \in 0..63 : c = idx[2]
  OBVIOUS
<1>4. PICK d \in 0..63 : d = idx[3]
  OBVIOUS
<1>5. PICK v \in 0..3 : v = b \div 16
  BY <1>2, SMT
<1>6. PICK w \in 0..15 : w = b % 16 /\ b = v * 16 + w
  <2>1. b % 16 \in 0..15 /\ b = (b \div 16) * 16 + (b % 16)
    BY <1>2, SMT
  <2> QED
    BY <1>5, <2>1
<1>7. PICK x \in 0..15 : x = c \div 4
  BY <1>3, SMT
<1>8. PICK y \in 0..3 : y = c % 4 /\ c = x * 4 + y
  <2>1. c % 4 \in 0..3 /\ c = (c \div 4) * 4 + (c % 4)
    BY <1>3, SMT
  <2> QED
    BY <1>7, <2>1
<1>9. b \div 16 = v /\ b % 16 = w /\ c \div 4 = x /\ c % 4 = y
  BY <1>5, <1>6, <1>7, <1>8
<1>10. PICK e : e = ((a * 64 + b) * 64 + c) * 64 + d
  OBVIOUS
<1>11. PICK f \in 0..255 : f = a * 4 + v
  BY <1>1, <1>5
<1>12. PICK g \in 0..255 : g = w * 16 + x
  BY <1>6, <1>7
<1>13. PICK h \in 0..255 : h = y * 64 + d
  BY <1>4, <1>8
<1>14. e = f * 65536 + g * 256 + h
  <2>1. e = a * 262144 + b * 4096 + c * 64 + d
    BY <1>1, <1>2, <1>3, <1>4, <1>10
  <2>2. f * 65536 = a * 262144 + v * 65536
    BY <1>1, <1>5, <1>11
  <2>3. g * 256 = w * 4096 + x * 256
    BY <1>6, <1>7, <1>12
  <2>4. b * 4096 = v * 65536 + w * 4096 /\ c * 64 = x * 256 + y * 64
    BY <1>5, <1>6, <1>7, <1>8
  <2> QED
    BY <1>1, <1>4, <1>5, <1>6, <1>7, <1>8, <1>11, <1>12, <1>13, <2>1, <2>2, <2>3, <2>4
<1>15. e \div 65536 = f /\ (e \div 256) % 256 = g /\ e % 256 = h
  <2>1. e \div 65536 = f
    BY <1>11, <1>12, <1>13, <1>14, SMT
  <2>2. e \div 256 = f * 256 + g
    BY <1>11, <1>12, <1>13, <1>14, SMT
  <2>3. (f * 256 + g) % 256 = g
    BY <1>11, <1>12, SMT
  <2>4. e % 256 = h
    BY <1>11, <1>12, <1>13, <1>14, SMT
  <2> QED
    BY <2>1, <2>2, <2>3, <2>4
<1>16. decode_block(idx) = <<e \div 65536, (e \div 256) % 256, e % 256>>
  BY <1>1, <1>2, <1>3, <1>4, <1>10 DEF decode_block
<1>17. Joined(0, a, b) = f /\ Joined(1, b, c) = g /\ Joined(2, c, d) = h
  BY <1>9, <1>11, <1>12, <1>13 DEF Joined
<1> QED
  BY <1>1, <1>2, <1>3, <1>4, <1>15, <1>16, <1>17

\* A tail is joined in the same way, up to its last symbol.
LEMMA TailJoined ==
  ASSUME NEW idx, idx[0] \in 0..63, idx[1] \in 0..63
  PROVE  /\ decode_tail(idx, 2) = <<Joined(0, idx[0], idx[1])>>
         /\ idx[2] \in 0..63 =>
              decode_tail(idx, 3) = <<Joined(0, idx[0], idx[1]), Joined(1, idx[1], idx[2])>>
<1>1. PICK a \in 0..63 : a = idx[0]
  OBVIOUS
<1>2. PICK b \in 0..63 : b = idx[1]
  OBVIOUS
<1>3. (a * 4 + ((b \div 16) % 4)) % 256 = a * 4 + (b \div 16)
  <2>1. b \div 16 \in 0..3
    BY <1>2, SMT
  <2>2. (b \div 16) % 4 = b \div 16
    BY <2>1, SMT
  <2> QED
    BY <1>1, <2>1, <2>2, SMT
<1>4. ASSUME idx[2] \in 0..63
      PROVE  ((b % 16) * 16 + ((idx[2] \div 4) % 16)) % 256 = (b % 16) * 16 + (idx[2] \div 4)
  <2>1. PICK c \in 0..63 : c = idx[2]
    BY <1>4
  <2>2. c \div 4 \in 0..15 /\ b % 16 \in 0..15
    BY <1>2, <2>1, SMT
  <2>3. (c \div 4) % 16 = c \div 4
    BY <2>2, SMT
  <2>4. PICK x \in 0..15 : x = c \div 4
    BY <2>2
  <2>5. PICK y \in 0..15 : y = b % 16
    BY <2>2
  <2>6. (y * 16 + x) % 256 = y * 16 + x
    BY <2>4, <2>5, SMT
  <2> QED
    BY <2>1, <2>3, <2>4, <2>5, <2>6
<1>5. /\ Joined(0, a, b) = a * 4 + (b \div 16)
      /\ Joined(1, b, idx[2]) = (b % 16) * 16 + (idx[2] \div 4)
  BY DEF Joined
<1>6. PICK first : first = (a * 4 + ((b \div 16) % 4)) % 256
  OBVIOUS
<1>7. PICK second : second = ((b % 16) * 16 + ((idx[2] \div 4) % 16)) % 256
  OBVIOUS
<1>8. decode_tail(idx, 2) = <<first>> /\ decode_tail(idx, 3) = <<first, second>>
  BY <1>1, <1>2, <1>6, <1>7 DEF decode_tail
<1> QED
  BY <1>1, <1>2, <1>3, <1>4, <1>5, <1>6, <1>7, <1>8

\* What is listed stays so as the text and the bytes grow.
LEMMA ListedOn ==
  ASSUME NEW t, NEW bytes, NEW q \in Nat, AllListed(t, bytes, 3 * q),
         NEW t2, Agree(t2, t, 4 * q), NEW bytes2, Agree(bytes2, bytes, 3 * q),
         NEW m \in 0..3, BlockLists(t2, bytes2, q, m)
  PROVE  AllListed(t2, bytes2, 3 * q + m)
<1> SUFFICES ASSUME NEW j \in Nat, NEW c \in 0..2, 3 * j + c < 3 * q + m
             PROVE  Listed(t2, bytes2, j, c)
  BY DEF AllListed
<1>1. CASE j < q
  <2>1. 3 * j + c < 3 * q
    BY <1>1
  <2>2. Listed(t, bytes, j, c)
    BY <2>1 DEF AllListed
  <2>3. 4 * j + c + 1 \in 1..4 * q /\ 4 * j + c + 2 \in 1..4 * q /\ 3 * j + c + 1 \in 1..3 * q
    BY <1>1
  <2>4. /\ t2[4 * j + c + 1] = t[4 * j + c + 1] /\ t2[4 * j + c + 2] = t[4 * j + c + 2]
        /\ bytes2[3 * j + c + 1] = bytes[3 * j + c + 1]
    BY <2>3 DEF Agree
  <2> QED
    BY <2>2, <2>4 DEF Listed
<1>2. CASE j >= q
  <2>1. j = q /\ c < m
    BY <1>2
  <2> QED
    BY <2>1 DEF BlockLists
<1> QED
  BY <1>1, <1>2

\* What was listed is listed by a text that goes on.
LEMMA ListedAsBefore ==
  ASSUME NEW t, NEW bytes, NEW q \in Nat, AllListed(t, bytes, 3 * q),
         NEW t2, Agree(t2, t, 4 * q)
  PROVE  AllListed(t2, bytes, 3 * q)
<1>1. BlockLists(t2, bytes, q, 0)
  BY DEF BlockLists
<1>2. Agree(bytes, bytes, 3 * q)
  BY DEF Agree
<1>3. AllListed(t2, bytes, 3 * q + 0)
  BY <1>1, <1>2, 0 \in 0..3, ListedOn
<1> QED
  BY <1>3

\* A text with one character more.
LEMMA AppendFacts ==
  ASSUME NEW t \in Seq(Character), NEW x \in Character, NEW t2, t2 = Append(t, x)
  PROVE  /\ t2 \in Seq(Character) /\ Len(t2) = Len(t) + 1 /\ t2[Len(t) + 1] = x /\ Len(t) \in Nat
         /\ Agree(t2, t, Len(t))
<1>1. \A k \in 1..Len(t) : t2[k] = t[k]
  OBVIOUS
<1> QED
  BY <1>1 DEF Agree

\* Two sequences of bytes, one after the other.
LEMMA ConcatFacts ==
  ASSUME NEW s \in Seq(Byte), NEW t \in Seq(Byte), NEW u, u = s \o t
  PROVE  /\ u \in Seq(Byte) /\ Len(u) = Len(s) + Len(t)
         /\ Agree(u, s, Len(s))
         /\ \A k \in 1..Len(t) : u[Len(s) + k] = t[k]
<1>1. \A k \in 1..Len(s) : u[k] = s[k]
  OBVIOUS
<1> QED
  BY <1>1 DEF Agree

\* Three symbols or four of a block, joined to one byte, two or three.
LEMMA BytesListed ==
  ASSUME NEW t, NEW q \in Nat, NEW bytes \in Seq(Byte), Len(bytes) = 3 * q,
         AllListed(t, bytes, 3 * q),
         NEW new \in Seq(Byte), NEW m \in 1..3, Len(new) = m, SymbolsTo(t, 4 * q + m + 1),
         \A c \in 0..m - 1 : new[c + 1] = Joined(c, t[4 * q + c + 1], t[4 * q + c + 2]),
         NEW bytes2, bytes2 = bytes \o new
  PROVE  /\ bytes2 \in Seq(Byte) /\ Len(bytes2) = 3 * q + m
         /\ AllListed(t, bytes2, 3 * q + m)
<1>1. /\ bytes2 \in Seq(Byte) /\ Len(bytes2) = 3 * q + m /\ Agree(bytes2, bytes, 3 * q)
      /\ \A k \in 1..m : bytes2[3 * q + k] = new[k]
  <2>1. /\ bytes2 \in Seq(Byte) /\ Len(bytes2) = Len(bytes) + Len(new)
        /\ Agree(bytes2, bytes, Len(bytes))
        /\ \A k \in 1..Len(new) : bytes2[Len(bytes) + k] = new[k]
    <3>1. bytes2 \in Seq(Byte)
      BY ConcatFacts
    <3>2. Len(bytes2) = Len(bytes) + Len(new)
      BY ConcatFacts
    <3>3. Agree(bytes2, bytes, Len(bytes))
      BY ConcatFacts
    <3>4. \A k \in 1..Len(new) : bytes2[Len(bytes) + k] = new[k]
      BY ConcatFacts
    <3> QED
      BY <3>1, <3>2, <3>3, <3>4
  <2>2. Len(bytes) = 3 * q /\ Len(new) = m
    OBVIOUS
  <2> QED
    BY <2>1, <2>2, Zenon
<1>2. BlockLists(t, bytes2, q, m)
  <2>1. SUFFICES ASSUME NEW c \in 0..2, c < m PROVE Listed(t, bytes2, q, c)
    BY DEF BlockLists
  <2>2. c + 1 \in 1..m /\ c \in 0..m - 1
    BY <2>1
  <2>3. bytes2[3 * q + (c + 1)] = Joined(c, t[4 * q + c + 1], t[4 * q + c + 2])
    BY <1>1, <2>2
  <2>4. 3 * q + (c + 1) = 3 * q + c + 1
    OBVIOUS
  <2>5. 4 * q + c + 1 \in 1..4 * q + m + 1 /\ 4 * q + c + 2 \in 1..4 * q + m + 1
    BY <2>1
  <2>6. t[4 * q + c + 1] \in 0..63 /\ t[4 * q + c + 2] \in 0..63
    BY <2>5 DEF SymbolsTo
  <2> QED
    BY <2>3, <2>4, <2>6 DEF Listed
<1>3. Agree(t, t, 4 * q)
  BY DEF Agree
<1>4. m \in 0..3
  OBVIOUS
<1>5. AllListed(t, bytes2, 3 * q + m)
  BY <1>1, <1>2, <1>3, <1>4, ListedOn
<1> QED
  BY <1>1, <1>5

\* What is at hand of a block.
LEMMA HandFacts ==
  ASSUME NEW idx, NEW t, NEW q \in Nat, NEW n \in 0..4, AtHand(idx, t, q, n),
         SymbolsTo(t, 4 * q + n)
  PROVE  /\ n >= 1 => idx[0] = t[4 * q + 1] /\ idx[0] \in 0..63
         /\ n >= 2 => idx[1] = t[4 * q + 2] /\ idx[1] \in 0..63
         /\ n >= 3 => idx[2] = t[4 * q + 3] /\ idx[2] \in 0..63
         /\ n >= 4 => idx[3] = t[4 * q + 4] /\ idx[3] \in 0..63
<1>1. ASSUME NEW k \in 0..n - 1 PROVE idx[k] = t[4 * q + k + 1] /\ idx[k] \in 0..63
  <2>1. 4 * q + k + 1 \in 1..4 * q + n
    OBVIOUS
  <2> QED
    BY <2>1 DEF AtHand, SymbolsTo
<1>2. /\ 4 * q + 0 + 1 = 4 * q + 1 /\ 4 * q + 1 + 1 = 4 * q + 2
      /\ 4 * q + 2 + 1 = 4 * q + 3 /\ 4 * q + 3 + 1 = 4 * q + 4
  OBVIOUS
<1>3. n >= 1 => 0 \in 0..n - 1
  OBVIOUS
<1>4. n >= 2 => 1 \in 0..n - 1
  OBVIOUS
<1>5. n >= 3 => 2 \in 0..n - 1
  OBVIOUS
<1>6. n >= 4 => 3 \in 0..n - 1
  OBVIOUS
<1> QED
  BY <1>1, <1>2, <1>3, <1>4, <1>5, <1>6

\* Four symbols of a block make its bytes.
LEMMA BlockMade ==
  ASSUME NEW t, NEW q \in Nat, Len(t) = 4 * q + 4, SymbolsTo(t, 4 * q + 4),
         NEW idx, AtHand(idx, t, q, 4),
         NEW bytes \in Seq(Byte), Len(bytes) = 3 * q, AllListed(t, bytes, 3 * q),
         NEW bytes2, bytes2 = bytes \o decode_block(idx)
  PROVE  Blocks(t, bytes2, idx, q + 1, 0, 0)
<1>1. /\ idx[0] = t[4 * q + 1] /\ idx[1] = t[4 * q + 2]
      /\ idx[2] = t[4 * q + 3] /\ idx[3] = t[4 * q + 4]
      /\ \A k \in 0..3 : idx[k] \in 0..63
  <2>1. /\ idx[0] = t[4 * q + 1] /\ idx[0] \in 0..63
        /\ idx[1] = t[4 * q + 2] /\ idx[1] \in 0..63
        /\ idx[2] = t[4 * q + 3] /\ idx[2] \in 0..63
        /\ idx[3] = t[4 * q + 4] /\ idx[3] \in 0..63
    BY HandFacts
  <2>2. \A k \in 0..3 : k = 0 \/ k = 1 \/ k = 2 \/ k = 3
    OBVIOUS
  <2> QED
    BY <2>1, <2>2, Zenon
<1>2. PICK new : new = decode_block(idx)
  OBVIOUS
<1>3. new = <<Joined(0, idx[0], idx[1]), Joined(1, idx[1], idx[2]), Joined(2, idx[2], idx[3])>>
  BY <1>1, <1>2, BlockJoined
<1>4. new \in Seq(Byte) /\ Len(new) = 3
  <2>0. \A x \in 0..63 : x \in Nat /\ x < 64
    OBVIOUS
  <2>1. \A k \in 0..3 : idx[k] \in Nat /\ idx[k] < 64
    BY <1>1, <2>0, Zenon
  <2> QED
    BY <1>2, <2>1, BlockDecoded
<1>5. \A c \in 0..2 : new[c + 1] = Joined(c, t[4 * q + c + 1], t[4 * q + c + 2])
  <2>1. /\ 4 * q + 0 + 1 = 4 * q + 1 /\ 4 * q + 0 + 2 = 4 * q + 2
        /\ 4 * q + 1 + 1 = 4 * q + 2 /\ 4 * q + 1 + 2 = 4 * q + 3
        /\ 4 * q + 2 + 1 = 4 * q + 3 /\ 4 * q + 2 + 2 = 4 * q + 4
        /\ 0 + 1 = 1 /\ 1 + 1 = 2 /\ 2 + 1 = 3
    OBVIOUS
  <2>2. new[1] = Joined(0, t[4 * q + 1], t[4 * q + 2])
    BY <1>1, <1>3
  <2>3. new[2] = Joined(1, t[4 * q + 2], t[4 * q + 3])
    BY <1>1, <1>3
  <2>4. new[3] = Joined(2, t[4 * q + 3], t[4 * q + 4])
    BY <1>1, <1>3
  <2>5. \A c \in 0..2 : c = 0 \/ c = 1 \/ c = 2
    OBVIOUS
  <2> QED
    BY <2>1, <2>2, <2>3, <2>4, <2>5
<1>6. bytes2 \in Seq(Byte) /\ Len(bytes2) = 3 * q + 3 /\ AllListed(t, bytes2, 3 * q + 3)
  <2>1. 3 \in 1..3 /\ 4 * q + 3 + 1 = 4 * q + 4 /\ 3 - 1 = 2
    OBVIOUS
  <2>2. SymbolsTo(t, 4 * q + 3 + 1) /\ bytes2 = bytes \o new
    BY <1>2, <2>1
  <2>3. \A c \in 0..3 - 1 : new[c + 1] = Joined(c, t[4 * q + c + 1], t[4 * q + c + 2])
    BY <1>5, <2>1
  <2> QED
    BY <1>4, <2>1, <2>2, <2>3, BytesListed
<1>7. /\ 3 * q + 3 = 3 * (q + 1) /\ 4 * q + 4 = 4 * (q + 1) + 0
      /\ q + 1 \in Nat
  OBVIOUS
<1>8. AtHand(idx, t, q + 1, 0) /\ PaddedFrom(t, 4 * (q + 1) + 0)
  BY <1>7 DEF AtHand, PaddedFrom
<1> QED
  BY <1>6, <1>7, <1>8 DEF Blocks

\* A symbol goes to the block, and the fourth one makes bytes of it.
LEMMA SymbolBlocks ==
  ASSUME NEW t \in Seq(Character), NEW bytes \in Seq(Byte), NEW idx \in [0..3 -> Nat],
         NEW q \in Nat, NEW n \in 0..3, Blocks(t, bytes, idx, q, n, n),
         NEW x \in 0..63, x \in Character, NEW t2, t2 = Append(t, x),
         NEW idx2, idx2 = [idx EXCEPT ![n] = x]
  PROVE  /\ n < 3 => Blocks(t2, bytes, idx2, q, n + 1, n + 1)
         /\ n = 3 => Blocks(t2, bytes \o decode_block(idx2), idx2, q + 1, 0, 0)
<1>1. /\ Len(t) = 4 * q + n /\ Len(bytes) = 3 * q
      /\ SymbolsTo(t, 4 * q + n) /\ AtHand(idx, t, q, n) /\ AllListed(t, bytes, 3 * q)
  BY DEF Blocks
<1>2. /\ Len(t2) = 4 * q + n + 1 /\ t2[4 * q + n + 1] = x
      /\ \A k \in 1..4 * q + n : t2[k] = t[k]
  <2>1. /\ Len(t2) = Len(t) + 1 /\ t2[Len(t) + 1] = x /\ Agree(t2, t, Len(t))
    BY AppendFacts
  <2> QED
    BY <1>1, <2>1 DEF Agree
<1>3. SymbolsTo(t2, 4 * q + n + 1)
  <2>1. \A k \in 1..4 * q + n + 1 : k \in 1..4 * q + n \/ k = 4 * q + n + 1
    OBVIOUS
  <2> QED
    BY <1>1, <1>2, <2>1 DEF SymbolsTo
<1>4. AtHand(idx2, t2, q, n + 1)
  <2>0. (n + 1) - 1 = n
    OBVIOUS
  <2>1. SUFFICES ASSUME NEW k \in 0..n PROVE idx2[k] = t2[4 * q + k + 1]
    BY <2>0, Zenon DEF AtHand
  <2>2. CASE k = n
    BY <1>2, <2>2
  <2>3. CASE k # n
    <3>1. k \in 0..n - 1 /\ k \in 0..3 /\ 4 * q + k + 1 \in 1..4 * q + n
      BY <2>3
    <3>2. idx2[k] = idx[k]
      BY <2>3, <3>1
    <3> QED
      BY <1>1, <1>2, <3>1, <3>2 DEF AtHand
  <2> QED
    BY <2>2, <2>3
<1>5. AllListed(t2, bytes, 3 * q)
  <2>1. Agree(t2, t, 4 * q)
    BY <1>2 DEF Agree
  <2> QED
    BY <1>1, <2>1, ListedAsBefore
<1>6. CASE n < 3
  <2>1. 4 * q + n + 1 = 4 * q + (n + 1)
    OBVIOUS
  <2>2. PaddedFrom(t2, 4 * q + (n + 1))
    BY <1>2, <2>1 DEF PaddedFrom
  <2>3. Blocks(t2, bytes, idx2, q, n + 1, n + 1)
    BY <1>1, <1>2, <1>3, <1>4, <1>5, <2>1, <2>2 DEF Blocks
  <2> QED
    BY <1>6, <2>3
<1>7. CASE n = 3
  <2>1. 4 * q + n + 1 = 4 * q + 4 /\ n + 1 = 4
    BY <1>7
  <2>2. PICK bytes2 : bytes2 = bytes \o decode_block(idx2)
    OBVIOUS
  <2>3. Len(t2) = 4 * q + 4 /\ SymbolsTo(t2, 4 * q + 4) /\ AtHand(idx2, t2, q, 4)
    BY <1>2, <1>3, <1>4, <2>1, Zenon
  <2>4. Blocks(t2, bytes2, idx2, q + 1, 0, 0)
    BY <1>1, <1>5, <2>2, <2>3, BlockMade
  <2>5. Blocks(t2, bytes \o decode_block(idx2), idx2, q + 1, 0, 0)
    BY <2>2, <2>4, Zenon
  <2>6. ~ (n < 3)
    BY <1>7
  <2> QED
    BY <2>5, <2>6, Zenon
<1> QED
  BY <1>6, <1>7

\* A padding is one character more.
LEMMA PaddingBlocks ==
  ASSUME NEW t \in Seq(Character), NEW bytes, NEW idx, NEW q \in Nat, NEW n \in 0..3, NEW l \in n..4,
         Blocks(t, bytes, idx, q, n, l), NEW t2, t2 = Append(t, padding_idx),
         NEW idx2, \A k \in 0..n - 1 : idx2[k] = idx[k]
  PROVE  Blocks(t2, bytes, idx2, q, n, l + 1)
<1>1. /\ Len(t) = 4 * q + l /\ Len(bytes) = 3 * q
      /\ SymbolsTo(t, 4 * q + n) /\ PaddedFrom(t, 4 * q + n) /\ AtHand(idx, t, q, n)
      /\ AllListed(t, bytes, 3 * q)
  BY DEF Blocks
<1>2. /\ Len(t2) = 4 * q + l + 1 /\ t2[4 * q + l + 1] = padding_idx
      /\ \A k \in 1..4 * q + l : t2[k] = t[k]
  <2>1. Len(t2) = Len(t) + 1 /\ t2[Len(t) + 1] = padding_idx /\ Agree(t2, t, Len(t))
    <3>1. padding_idx \in Character
      BY CharacterFacts
    <3> QED
      BY <3>1, AppendFacts
  <2>2. 4 * q + l = Len(t)
    BY <1>1
  <2> QED
    BY <2>1, <2>2 DEF Agree
<1>3. SymbolsTo(t2, 4 * q + n)
  <2>1. \A k \in 1..4 * q + n : k \in 1..4 * q + l
    OBVIOUS
  <2> QED
    BY <1>1, <1>2, <2>1 DEF SymbolsTo
<1>4. PaddedFrom(t2, 4 * q + n)
  <2>1. \A k \in 4 * q + n + 1..4 * q + l + 1 :
          k = 4 * q + l + 1 \/ (k \in 4 * q + n + 1..4 * q + l /\ k \in 1..4 * q + l)
    <3>1. PICK a \in Nat : a = 4 * q + n
      OBVIOUS
    <3>2. PICK b \in Nat : b = 4 * q + l
      OBVIOUS
    <3>3. \A k \in a + 1..b + 1 : k = b + 1 \/ (k \in a + 1..b /\ k \in 1..b)
      BY <3>1, <3>2
    <3> QED
      BY <3>1, <3>2, <3>3, Zenon
  <2> QED
    BY <1>1, <1>2, <2>1 DEF PaddedFrom
<1>5. AtHand(idx2, t2, q, n)
  <2>1. \A k \in 0..n - 1 : 4 * q + k + 1 \in 1..4 * q + l
    OBVIOUS
  <2> QED
    BY <1>1, <1>2, <2>1 DEF AtHand
<1>6. AllListed(t2, bytes, 3 * q)
  <2>1. Agree(t2, t, 4 * q)
    BY <1>2 DEF Agree
  <2> QED
    BY <1>1, <2>1, ListedAsBefore
<1>7. Len(t2) = 4 * q + (l + 1)
  BY <1>2
<1> QED
  BY <1>1, <1>3, <1>4, <1>5, <1>6, <1>7 DEF Blocks

\* Whole blocks are well-formed and stand for their bytes.
LEMMA WholeStands ==
  ASSUME NEW t \in Seq(Character), NEW bytes \in Seq(Byte), NEW idx, NEW q \in Nat,
         Blocks(t, bytes, idx, q, 0, 0)
  PROVE  WellFormed(t) /\ Stands(t, bytes)
<1>1. /\ Len(t) = 4 * q /\ Len(bytes) = 3 * q /\ SymbolsTo(t, 4 * q)
      /\ PaddedFrom(t, 4 * q) /\ AllListed(t, bytes, 3 * q)
  <2>1. 4 * q + 0 = 4 * q
    OBVIOUS
  <2> QED
    BY <2>1 DEF Blocks
<1>2. PICK p \in 0..Len(t) : p = 4 * q
  BY <1>1
<1>3. Len(t) % 4 = 0 /\ Len(t) - p = 0 /\ Len(t) - p <= 2
  BY <1>1, <1>2
<1>4. (\A k \in 1..p : t[k] \in 0..63) /\ \A k \in p + 1..Len(t) : t[k] = padding_idx
  BY <1>1, <1>2 DEF SymbolsTo, PaddedFrom
<1>5. WellFormed(t) /\ Paddings(t) = 0
  BY <1>2, <1>3, <1>4, PaddedIsWellFormed
<1>6. Len(bytes) = (Len(t) \div 4) * 3 - Paddings(t)
  BY <1>1, <1>5
<1>7. AllListed(t, bytes, Len(bytes))
  BY <1>1, Zenon
<1>8. Stands(t, bytes)
  BY <1>6, <1>7, ListedStands
<1> QED
  BY <1>5, <1>8

\* So are blocks with a tail that is padded to a block.
LEMMA TailStands ==
  ASSUME NEW t \in Seq(Character), NEW bytes \in Seq(Byte), NEW idx, NEW q \in Nat, NEW n \in 2..3,
         Blocks(t, bytes, idx, q, n, 4), \A k \in 0..3 : idx[k] \in Nat,
         NEW bytes2, bytes2 = bytes \o decode_tail(idx, n)
  PROVE  WellFormed(t) /\ Stands(t, bytes2)
<1>1. /\ Len(t) = 4 * q + 4 /\ Len(bytes) = 3 * q /\ SymbolsTo(t, 4 * q + n)
      /\ PaddedFrom(t, 4 * q + n) /\ AtHand(idx, t, q, n) /\ AllListed(t, bytes, 3 * q)
  BY DEF Blocks
<1>2. /\ idx[0] = t[4 * q + 1] /\ idx[0] \in 0..63
      /\ idx[1] = t[4 * q + 2] /\ idx[1] \in 0..63
      /\ n = 3 => idx[2] = t[4 * q + 3] /\ idx[2] \in 0..63
  <2>1. n \in 0..4 /\ n >= 1 /\ n >= 2 /\ (n = 3 => n >= 3)
    OBVIOUS
  <2> QED
    BY <1>1, <2>1, HandFacts
<1>3. PICK new : new = decode_tail(idx, n)
  OBVIOUS
<1>4. new = IF n = 2 THEN <<Joined(0, idx[0], idx[1])>>
            ELSE <<Joined(0, idx[0], idx[1]), Joined(1, idx[1], idx[2])>>
  <2>1. CASE n = 2
    BY <1>2, <1>3, <2>1, TailJoined
  <2>2. CASE n = 3
    BY <1>2, <1>3, <2>2, TailJoined
  <2> QED
    BY <2>1, <2>2
<1>5. PICK m \in 1..3 : m = n - 1
  OBVIOUS
<1>6. new \in Seq(Byte) /\ Len(new) = m
  <2>1. new \in Seq(Byte)
    BY <1>3, TailDecoded
  <2>2. Len(new) = IF n = 2 THEN 1 ELSE 2
    BY <1>4
  <2> QED
    BY <1>5, <2>1, <2>2
<1>7. \A c \in 0..m - 1 : new[c + 1] = Joined(c, t[4 * q + c + 1], t[4 * q + c + 2])
  <2>1. /\ 4 * q + 0 + 1 = 4 * q + 1 /\ 4 * q + 0 + 2 = 4 * q + 2
        /\ 4 * q + 1 + 1 = 4 * q + 2 /\ 4 * q + 1 + 2 = 4 * q + 3 /\ 0 + 1 = 1 /\ 1 + 1 = 2
    OBVIOUS
  <2>2. new[1] = Joined(0, t[4 * q + 1], t[4 * q + 2])
    BY <1>2, <1>4
  <2>3. n = 3 => new[2] = Joined(1, t[4 * q + 2], t[4 * q + 3])
    BY <1>2, <1>4
  <2>4. \A c \in 0..m - 1 : c = 0 \/ (c = 1 /\ n = 3)
    BY <1>5
  <2> QED
    BY <2>1, <2>2, <2>3, <2>4
<1>8. bytes2 \in Seq(Byte) /\ Len(bytes2) = 3 * q + m /\ AllListed(t, bytes2, 3 * q + m)
  <2>1. 4 * q + m + 1 = 4 * q + n
    BY <1>5
  <2>2. SymbolsTo(t, 4 * q + m + 1) /\ bytes2 = bytes \o new
    BY <1>1, <1>3, <2>1
  <2> QED
    BY <1>1, <1>5, <1>6, <1>7, <2>2, BytesListed
<1>9. PICK p \in 0..Len(t) : p = 4 * q + n
  BY <1>1
<1>10. Len(t) % 4 = 0 /\ Len(t) - p = 4 - n /\ Len(t) - p <= 2
  BY <1>1, <1>9
<1>11. (\A k \in 1..p : t[k] \in 0..63) /\ \A k \in p + 1..Len(t) : t[k] = padding_idx
  BY <1>1, <1>9 DEF SymbolsTo, PaddedFrom
<1>12. WellFormed(t) /\ Paddings(t) = 4 - n
  BY <1>9, <1>10, <1>11, PaddedIsWellFormed
<1>13. Len(bytes2) = (Len(t) \div 4) * 3 - Paddings(t)
  <2>1. Len(t) \div 4 = q + 1
    BY <1>1
  <2>2. 3 * q + m = (q + 1) * 3 - (4 - n)
    BY <1>5
  <2>3. Len(bytes2) = 3 * q + m
    BY <1>8, Zenon
  <2>4. Paddings(t) = 4 - n
    BY <1>12, Zenon
  <2> QED
    BY <2>1, <2>2, <2>3, <2>4, Zenon
<1>14. AllListed(t, bytes2, Len(bytes2))
  BY <1>8, Zenon
<1>15. Stands(t, bytes2)
  BY <1>8, <1>13, <1>14, ListedStands
<1> QED
  BY <1>12, <1>15

\* Two characters are neither symbols nor padding.
LEMMA OtherKinds ==
  /\ \A x \in {invalid_idx, eof_idx} : x # padding_idx /\ x \notin 0..63
  /\ padding_idx \notin 0..63 /\ invalid_idx # eof_idx
BY DEF invalid_idx, eof_idx, padding_idx

\* A text that ends with another character is not well-formed.
LEMMA BadCharacter ==
  ASSUME NEW t \in Seq(Character), Len(t) > 0, t[Len(t)] \in {invalid_idx, eof_idx}
  PROVE  ~ WellFormed(t)
<1>1. Len(t) \in 1..Len(t)
  OBVIOUS
<1>2. t[Len(t)] # padding_idx /\ t[Len(t)] \notin 0..63
  BY OtherKinds, Zenon
<1>3. ASSUME WellFormed(t) PROVE FALSE
  <2>1. t[Len(t)] = padding_idx \/ t[Len(t)] \in 0..63
    BY <1>1, <1>3, WellFormedEnds, Zenon
  <2> QED
    BY <1>2, <2>1, Zenon
<1> QED
  BY <1>3

\* Nor is one that goes on behind a padding.
LEMMA BadOrder ==
  ASSUME NEW t \in Seq(Character), Len(t) > 1,
         t[Len(t) - 1] = padding_idx, t[Len(t)] # padding_idx
  PROVE  ~ WellFormed(t)
<1>1. Len(t) \in 1..Len(t) /\ Len(t) - 1 \in 1..Len(t) /\ Len(t) - 1 <= Len(t)
  OBVIOUS
<1> QED
  BY <1>1, WellFormedEnds

\* Nor one of another length.
LEMMA BadLength ==
  ASSUME NEW t \in Seq(Character), Len(t) % 4 # 0
  PROVE  ~ WellFormed(t)
BY WellFormedEnds

\* Nor one with a third padding.
LEMMA BadPadding ==
  ASSUME NEW t \in Seq(Character), Len(t) > 2, t[Len(t) - 2] = padding_idx
  PROVE  ~ WellFormed(t)
<1>1. Len(t) - 2 \in 1..Len(t) /\ ~ (Len(t) - 2 > Len(t) - 2)
  OBVIOUS
<1> QED
  BY <1>1, WellFormedEnds

\* There is no NUL in a text that is being read.
LEMMA NoEof ==
  ASSUME NEW t \in Seq(Character), NEW bytes, NEW idx, NEW q \in Nat, NEW n \in 0..4, NEW l \in n..5,
         Blocks(t, bytes, idx, q, n, l)
  PROVE  \A k \in 1..Len(t) : t[k] # eof_idx
<1>1. eof_idx # padding_idx /\ eof_idx \notin 0..63
  BY DEF eof_idx, padding_idx
<1>2. SymbolsTo(t, 4 * q + n) /\ PaddedFrom(t, 4 * q + n)
  BY DEF Blocks
<1>3. \A k \in 1..Len(t) : k \in 1..4 * q + n \/ k \in 4 * q + n + 1..Len(t)
  OBVIOUS
<1> QED
  BY <1>1, <1>2, <1>3 DEF SymbolsTo, PaddedFrom

\* A call begins with an empty text.
LEMMA InitRfc == Init => RfcInv
<1> SUFFICES ASSUME Init PROVE RfcInv
  OBVIOUS
<1>1. text = <<>> /\ binary = <<>> /\ index_ptr = 0 /\ d_pc \in {"off", "data"}
  BY DEF Init
<1>2. /\ Len(<<>>) = 4 * 0 + 0 /\ Len(<<>>) = 3 * 0 /\ 4 * 0 + 0 = 0 /\ 3 * 0 = 0
      /\ 1..0 = {} /\ 0 + 1..0 = {} /\ 0..0 - 1 = {}
  OBVIOUS
<1>3. SymbolsTo(<<>>, 0) /\ PaddedFrom(<<>>, 0) /\ AtHand(alphabet_indexes, <<>>, 0, 0)
  BY <1>2 DEF SymbolsTo, PaddedFrom, AtHand
<1>4. AllListed(<<>>, <<>>, 0)
  <2>1. ASSUME NEW j \in Nat, NEW c \in 0..2 PROVE ~ (3 * j + c < 0)
    OBVIOUS
  <2> QED
    BY <2>1 DEF AllListed
<1>5. Blocks(<<>>, <<>>, alphabet_indexes, 0, 0, 0)
  BY <1>2, <1>3, <1>4, Zenon DEF Blocks
<1>6. \E q \in Nat : Blocks(text, binary, alphabet_indexes, q, index_ptr, index_ptr)
  BY <1>1, <1>5, 0 \in Nat, Zenon
<1> QED
  BY <1>1, <1>6 DEF RfcInv, DecodeErrors

\* A symbol, the last of its block or not.
LEMMA RfcSymbol ==
  ASSUME DecodeInv, RfcInv, NEW x \in Characters, ReadSymbol(x)
  PROVE  RfcInv'
<1>1. /\ text \in Seq(Character) /\ binary \in Seq(Byte)
      /\ alphabet_indexes \in [0..3 -> Nat] /\ index_ptr \in 0..3 /\ d_pc = "data"
  BY DEF DecodeInv, DecodeTypes, ReadSymbol
<1>2. x \in Character /\ x \in 0..63
  <2>1. x \in Character /\ x \in Nat /\ x < 64
    BY CharacterKinds, Zenon DEF ReadSymbol
  <2> QED
    BY <2>1
<1>3. /\ text' = Append(text, x) /\ d_pc' = "data"
      /\ alphabet_indexes' = [alphabet_indexes EXCEPT ![index_ptr] = x]
      /\ index_ptr' = (index_ptr + 1) % 4
      /\ binary' = IF index_ptr = 3 THEN binary \o decode_block(alphabet_indexes') ELSE binary
  BY <1>1 DEF ReadSymbol
<1>4. PICK q \in Nat : Blocks(text, binary, alphabet_indexes, q, index_ptr, index_ptr)
  BY <1>1 DEF RfcInv
<1>5. PICK t2, idx2 : t2 = text' /\ idx2 = alphabet_indexes'
  OBVIOUS
<1>6. /\ index_ptr < 3 => Blocks(t2, binary, idx2, q, index_ptr + 1, index_ptr + 1)
      /\ index_ptr = 3 => Blocks(t2, binary \o decode_block(idx2), idx2, q + 1, 0, 0)
  BY <1>1, <1>2, <1>3, <1>4, <1>5, SymbolBlocks, Zenon
<1>7. \E q2 \in Nat : Blocks(text', binary', alphabet_indexes', q2, index_ptr', index_ptr')
  <2>1. CASE index_ptr = 3
    <3>1. index_ptr' = 0 /\ q + 1 \in Nat
      BY <1>3, <2>1
    <3> QED
      BY <1>3, <1>5, <1>6, <2>1, <3>1, Zenon
  <2>2. CASE index_ptr < 3
    <3>1. index_ptr' = index_ptr + 1 /\ index_ptr # 3
      <4>1. index_ptr \in 0..2
        BY <1>1, <2>2
      <4> QED
        BY <1>3, <4>1, SMT
    <3> QED
      BY <1>3, <1>5, <1>6, <2>2, <3>1, Zenon
  <2> QED
    BY <1>1, <2>1, <2>2
<1> QED
  BY <1>3, <1>7 DEF RfcInv, DecodeErrors

\* Only the symbols at hand matter.
LEMMA SameHand ==
  ASSUME NEW t, NEW bytes, NEW idx, NEW q, NEW n, NEW l, Blocks(t, bytes, idx, q, n, l),
         NEW idx2, \A k \in 0..n - 1 : idx2[k] = idx[k]
  PROVE  Blocks(t, bytes, idx2, q, n, l)
<1>1. AtHand(idx, t, q, n)
  BY DEF Blocks
<1>2. AtHand(idx2, t, q, n)
  BY <1>1 DEF AtHand
<1> QED
  BY <1>2 DEF Blocks

\* A text of q blocks and l characters, of which n are symbols, with one more, x.
OneMore(t, q, n, l, x) ==
  /\ UpTo(t) = t /\ t \in Seq(Character)
  /\ Len(t) = 4 * q + l + 1 /\ Len(t) > 0 /\ t[Len(t)] = x
  /\ n < l => Len(t) > 1 /\ t[Len(t) - 1] = padding_idx

\* It is one if x is no NUL.
LEMMA ReadOn ==
  ASSUME NEW t \in Seq(Character), NEW bytes, NEW idx, NEW q \in Nat, NEW n \in 0..4, NEW l \in n..5,
         Blocks(t, bytes, idx, q, n, l),
         NEW x \in Character, x # eof_idx, NEW t2, t2 = Append(t, x)
  PROVE  OneMore(t2, q, n, l, x)
<1>1. /\ t2 \in Seq(Character) /\ Len(t2) = Len(t) + 1 /\ t2[Len(t) + 1] = x
      /\ Agree(t2, t, Len(t))
  BY AppendFacts, Zenon
<1>2. Len(t) = 4 * q + l /\ PaddedFrom(t, 4 * q + n)
  BY DEF Blocks
<1>3. \A k \in 1..Len(t) : t[k] # eof_idx
  BY NoEof, Zenon
<1>4. \A k \in 1..Len(t2) : t2[k] # eof_idx
  <2>1. \A k \in 1..Len(t2) : k \in 1..Len(t) \/ k = Len(t) + 1
    BY <1>1
  <2> QED
    BY <1>1, <1>3, <2>1, Zenon DEF Agree
<1>5. UpTo(t2) = t2
  BY <1>1, <1>4, UpToAll, Zenon
<1>6. Len(t2) = 4 * q + l + 1 /\ Len(t2) > 0 /\ Len(t2) - 1 = Len(t)
  BY <1>1, <1>2
<1>7. t2[Len(t2)] = x
  <2>1. Len(t2) = Len(t) + 1
    BY <1>1
  <2> QED
    BY <1>1, <2>1, Zenon
<1>8. ASSUME n < l PROVE Len(t2) > 1 /\ t2[Len(t2) - 1] = padding_idx
  <2>1. Len(t2) > 1 /\ Len(t) \in 1..Len(t) /\ Len(t) \in 4 * q + n + 1..Len(t)
    BY <1>2, <1>6, <1>8
  <2>2. t[Len(t)] = padding_idx /\ t2[Len(t)] = t[Len(t)]
    BY <1>1, <1>2, <2>1, Zenon DEF Agree, PaddedFrom
  <2> QED
    BY <1>6, <2>1, <2>2, Zenon
<1> QED
  BY <1>1, <1>5, <1>6, <1>7, <1>8, Zenon DEF OneMore

\* A stop character: one that the text may not have there, its first padding or its end.
LEMMA RfcStop ==
  ASSUME DecodeInv, RfcInv, NEW x \in Characters, ReadStop(x)
  PROVE  RfcInv'
<1>1. /\ text \in Seq(Character) /\ binary \in Seq(Byte)
      /\ alphabet_indexes \in [0..3 -> Nat] /\ index_ptr \in 0..3 /\ d_pc = "data"
  BY DEF DecodeInv, DecodeTypes, ReadStop
<1>2. x \in Character /\ x \in {padding_idx, invalid_idx, eof_idx}
  BY CharacterKinds, Zenon DEF ReadStop
<1>3. /\ text' = Append(text, x) /\ binary' = binary /\ index_ptr' = index_ptr
      /\ alphabet_indexes' = [alphabet_indexes EXCEPT ![index_ptr] = x]
      /\ d_pc' = Leaves(x)
      /\ last_ptr' = IF Pads(x) THEN index_ptr + 1 ELSE index_ptr
  BY DEF ReadStop
<1>4. PICK q \in Nat : Blocks(text, binary, alphabet_indexes, q, index_ptr, index_ptr)
  BY <1>1 DEF RfcInv
<1>a. PICK n \in 0..3 : n = index_ptr
  BY <1>1
<1>b. PICK t, t2, idx2 : t = text /\ t2 = text' /\ idx2 = alphabet_indexes'
  OBVIOUS
<1>5. t = text /\ t2 = text' /\ idx2 = alphabet_indexes' /\ n = index_ptr
  BY <1>a, <1>b
<1>6. /\ n \in 0..4 /\ n \in n..5 /\ n \in n..4
      /\ \A k \in 0..n - 1 : idx2[k] = alphabet_indexes[k]
  <2>1. \A k \in 0..n - 1 : k # n /\ k \in 0..3
    OBVIOUS
  <2> QED
    BY <1>1, <1>3, <1>5, <2>1
<1>7. t \in Seq(Character) /\ t2 = Append(t, x) /\ Blocks(t, binary, alphabet_indexes, q, n, n)
  BY <1>1, <1>3, <1>4, <1>5
<1>8. /\ padding_idx # invalid_idx /\ padding_idx # eof_idx /\ invalid_idx # eof_idx
  BY DEF padding_idx, invalid_idx, eof_idx
<1>9. ASSUME x # eof_idx
      PROVE  /\ UpTo(t2) = t2 /\ t2 \in Seq(Character)
             /\ Len(t2) = 4 * q + n + 1 /\ Len(t2) > 0 /\ t2[Len(t2)] = x
  <2>1. OneMore(t2, q, n, n, x)
    BY <1>2, <1>6, <1>7, <1>9, ReadOn, Zenon
  <2> QED
    BY <2>1, Zenon DEF OneMore
<1>10. CASE x = invalid_idx
  <2>1. d_pc' = "symbol_error"
    BY <1>3, <1>8, <1>10 DEF Leaves, Pads
  <2>2. ~ WellFormed(UpTo(t2))
    BY <1>8, <1>9, <1>10, BadCharacter, Zenon
  <2> QED
    BY <1>5, <2>1, <2>2 DEF RfcInv
<1>11. CASE x = padding_idx /\ n = 0
  <2>1. ~ Pads(x) /\ d_pc' = "padding_error"
    BY <1>3, <1>5, <1>8, <1>11 DEF Leaves, Pads
  <2>2. Len(t2) % 4 # 0
    <3>1. Len(t2) = 4 * q + 1
      BY <1>8, <1>9, <1>11
    <3> QED
      BY <3>1, SMT
  <2>3. ~ WellFormed(UpTo(t2))
    BY <1>8, <1>9, <1>11, <2>2, BadLength, Zenon
  <2> QED
    BY <1>5, <2>1, <2>3 DEF RfcInv
<1>12. CASE x = padding_idx /\ n > 0
  <2>1. Pads(x)
    BY <1>5, <1>12 DEF Pads
  <2>2. d_pc' = "padding" /\ last_ptr' = n + 1
    BY <1>3, <1>5, <1>8, <1>12, <2>1 DEF Leaves
  <2>3. Blocks(t2, binary, idx2, q, n, n + 1)
    BY <1>6, <1>7, <1>12, PaddingBlocks, Zenon
  <2>4. 0 < n /\ n < n + 1
    BY <1>12
  <2>5. \E q2 \in Nat : Blocks(text', binary', alphabet_indexes', q2, index_ptr', last_ptr')
    BY <1>3, <1>5, <2>2, <2>3, Zenon
  <2> QED
    BY <1>3, <1>5, <2>2, <2>4, <2>5 DEF RfcInv, DecodeErrors
<1>13. CASE x = eof_idx
  <2>1. ~ Pads(x)
    BY <1>8, <1>13 DEF Pads
  <2>2. d_pc' = "tail" /\ last_ptr' = n
    BY <1>3, <1>5, <1>8, <1>13, <2>1 DEF Leaves
  <2>3. Blocks(t, binary, idx2, q, n, n)
    BY <1>6, <1>7, SameHand, Zenon
  <2>4. t = UpTo(t2)
    <3>1. \A k \in 1..Len(t) : t[k] # eof_idx
      BY <1>6, <1>7, NoEof, Zenon
    <3> QED
      BY <1>7, <1>13, <3>1, UpToEof, Zenon
  <2>5. \E s \in Seq(Character) : \E q2 \in Nat :
          s = UpTo(text') /\ Blocks(s, binary', alphabet_indexes', q2, index_ptr', last_ptr')
    BY <1>3, <1>5, <1>7, <2>2, <2>3, <2>4, Zenon
  <2> QED
    BY <1>3, <1>5, <2>2, <2>5 DEF RfcInv, DecodeErrors
<1> QED
  BY <1>2, <1>10, <1>11, <1>12, <1>13

\* A block that ends with padding, the character behind it, and the text's end.
LEMMA RfcPadding ==
  ASSUME DecodeInv, RfcInv, NEW x \in Characters, ReadPadding(x)
  PROVE  RfcInv'
<1>1. /\ text \in Seq(Character) /\ binary \in Seq(Byte) /\ d_pc = "padding"
      /\ alphabet_indexes \in [0..3 -> Nat] /\ index_ptr \in 0..3 /\ last_ptr \in 0..4
  BY DEF DecodeInv, DecodeTypes, BlockInv, ReadPadding
<1>2. x \in Character
  BY CharacterKinds, Zenon
<1>3. /\ text' = Append(text, x) /\ binary' = binary /\ index_ptr' = index_ptr
      /\ alphabet_indexes' =
           [alphabet_indexes EXCEPT ![index_ptr] = IF x = eof_idx THEN padding_idx ELSE x]
      /\ last_ptr' = IF x = padding_idx THEN last_ptr + 1 ELSE last_ptr
  BY DEF ReadPadding
<1>4. 0 < index_ptr /\ index_ptr < last_ptr
  BY <1>1 DEF RfcInv
<1>5. PICK q \in Nat : Blocks(text, binary, alphabet_indexes, q, index_ptr, last_ptr)
  BY <1>1 DEF RfcInv
<1>a. PICK n \in 1..3, l \in 2..4 : n = index_ptr /\ l = last_ptr
  BY <1>1, <1>4
<1>b. PICK t, t2, idx2 : t = text /\ t2 = text' /\ idx2 = alphabet_indexes'
  OBVIOUS
<1>6. /\ t = text /\ t2 = text' /\ idx2 = alphabet_indexes' /\ n = index_ptr /\ l = last_ptr
  BY <1>a, <1>b
<1>7. /\ n \in 0..4 /\ l \in n..5 /\ n \in 0..3 /\ l \in n..4 /\ 0 < n /\ n < l
      /\ \A k \in 0..n - 1 : idx2[k] = alphabet_indexes[k]
  <2>1. \A k \in 0..n - 1 : k # n /\ k \in 0..3
    OBVIOUS
  <2>2. n < l
    BY <1>4, <1>6
  <2> QED
    BY <1>1, <1>3, <1>6, <2>1, <2>2
<1>8. t \in Seq(Character) /\ t2 = Append(t, x) /\ Blocks(t, binary, alphabet_indexes, q, n, l)
  BY <1>1, <1>3, <1>5, <1>6
<1>9. padding_idx # eof_idx
  BY DEF padding_idx, eof_idx
<1>10. ASSUME x # eof_idx
       PROVE  /\ UpTo(t2) = t2 /\ t2 \in Seq(Character)
              /\ Len(t2) = 4 * q + l + 1 /\ t2[Len(t2)] = x
              /\ Len(t2) > 1 /\ t2[Len(t2) - 1] = padding_idx
  <2>1. OneMore(t2, q, n, l, x)
    BY <1>2, <1>7, <1>8, <1>10, ReadOn, Zenon
  <2> QED
    BY <1>7, <2>1, Zenon DEF OneMore
<1>11. CASE x = eof_idx
  <2>1. d_pc' = "tail" /\ last_ptr' = l
    BY <1>3, <1>6, <1>9, <1>11 DEF ReadPadding
  <2>2. Blocks(t, binary, idx2, q, n, l)
    BY <1>7, <1>8, SameHand, Zenon
  <2>3. t = UpTo(t2)
    <3>1. \A k \in 1..Len(t) : t[k] # eof_idx
      BY <1>7, <1>8, NoEof, Zenon
    <3> QED
      BY <1>8, <1>11, <3>1, UpToEof, Zenon
  <2>4. \E s \in Seq(Character) : \E q2 \in Nat :
          s = UpTo(text') /\ Blocks(s, binary', alphabet_indexes', q2, index_ptr', last_ptr')
    BY <1>3, <1>6, <1>8, <2>1, <2>2, <2>3, Zenon
  <2> QED
    BY <1>3, <1>6, <1>7, <2>1, <2>4 DEF RfcInv, DecodeErrors
<1>12. CASE x = padding_idx /\ l < 4
  <2>1. d_pc' = "padding" /\ last_ptr' = l + 1
    BY <1>3, <1>6, <1>9, <1>12 DEF ReadPadding
  <2>2. Blocks(t2, binary, idx2, q, n, l + 1)
    BY <1>7, <1>8, <1>12, PaddingBlocks, Zenon
  <2>3. 0 < n /\ n < l + 1
    BY <1>7
  <2>4. \E q2 \in Nat : Blocks(text', binary', alphabet_indexes', q2, index_ptr', last_ptr')
    BY <1>3, <1>6, <2>1, <2>2, Zenon
  <2> QED
    BY <1>3, <1>6, <2>1, <2>3, <2>4 DEF RfcInv, DecodeErrors
<1>13. CASE x # eof_idx /\ ~ (x = padding_idx /\ l < 4)
  <2>1. d_pc' = "padding_error"
    BY <1>6, <1>13 DEF ReadPadding
  <2>2. ~ WellFormed(UpTo(t2))
    <3>1. CASE x = padding_idx
      <4>1. Len(t2) = 4 * q + 5
        BY <1>10, <1>13, <3>1
      <4>2. Len(t2) % 4 # 0
        BY <4>1, SMT
      <4> QED
        BY <1>10, <1>13, <4>2, BadLength, Zenon
    <3>2. CASE x # padding_idx
      BY <1>10, <1>13, <3>2, BadOrder, Zenon
    <3> QED
      BY <3>1, <3>2
  <2> QED
    BY <1>6, <2>1, <2>2 DEF RfcInv
<1> QED
  BY <1>11, <1>12, <1>13

\* The end of the text, at any length.
LEMMA RfcEnd ==
  ASSUME DecodeInv, RfcInv, ReadEnd
  PROVE  RfcInv'
<1>1. /\ text \in Seq(Character) /\ index_ptr \in 0..3
      /\ d_pc = "padding" => last_ptr \in 0..4
      /\ d_pc \in {"data", "padding"}
  BY DEF DecodeInv, DecodeTypes, BlockInv, ReadEnd
<1>2. /\ UNCHANGED <<text, alphabet_indexes, index_ptr, binary>> /\ d_pc' = "tail"
      /\ last_ptr' = IF d_pc = "data" THEN index_ptr ELSE last_ptr
  BY DEF ReadEnd
<1>3. PICK l : l = IF d_pc = "data" THEN index_ptr ELSE last_ptr
  OBVIOUS
<1>4. l = index_ptr \/ (0 < index_ptr /\ index_ptr < l)
  BY <1>1, <1>3 DEF RfcInv
<1>5. PICK q \in Nat : Blocks(text, binary, alphabet_indexes, q, index_ptr, l)
  BY <1>1, <1>3 DEF RfcInv
<1>6. index_ptr \in 0..4 /\ l \in index_ptr..5
  BY <1>1, <1>3, <1>4
<1>7. text = UpTo(text)
  <2>1. \A k \in 1..Len(text) : text[k] # eof_idx
    BY <1>1, <1>5, <1>6, NoEof, Zenon
  <2> QED
    BY <1>1, <2>1, UpToAll, Zenon
<1>8. \E s \in Seq(Character) : \E q2 \in Nat :
        s = UpTo(text') /\ Blocks(s, binary', alphabet_indexes', q2, index_ptr', last_ptr')
  BY <1>1, <1>2, <1>3, <1>5, <1>7, Zenon
<1> QED
  BY <1>2, <1>3, <1>4, <1>8 DEF RfcInv, DecodeErrors

\* What is left behind the last block decides.
LEMMA RfcTail ==
  ASSUME DecodeInv, RfcInv, DecodeTail
  PROVE  RfcInv'
<1>1. /\ text \in Seq(Character) /\ binary \in Seq(Byte) /\ d_pc = "tail"
      /\ alphabet_indexes \in [0..3 -> Nat] /\ index_ptr \in 0..3 /\ last_ptr \in 0..5
  BY DEF DecodeInv, DecodeTypes, DecodeTail
<1>2. UNCHANGED <<text, alphabet_indexes, index_ptr, last_ptr>>
  BY DEF DecodeTail
<1>3. /\ last_ptr = index_ptr \/ (0 < index_ptr /\ index_ptr < last_ptr)
      /\ \E t \in Seq(Character) : \E q \in Nat :
           t = UpTo(text) /\ Blocks(t, binary, alphabet_indexes, q, index_ptr, last_ptr)
  BY <1>1 DEF RfcInv
<1>4. PICK t \in Seq(Character), q \in Nat :
        t = UpTo(text) /\ Blocks(t, binary, alphabet_indexes, q, index_ptr, last_ptr)
  BY <1>3
<1>5. Len(t) = 4 * q + last_ptr /\ PaddedFrom(t, 4 * q + index_ptr)
  BY <1>4 DEF Blocks
<1>6. CASE last_ptr = 0
  <2>1. d_pc' = "returned" /\ binary' = binary
    BY <1>6 DEF DecodeTail
  <2>2. index_ptr = 0
    BY <1>1, <1>3, <1>6
  <2>3. Blocks(t, binary, alphabet_indexes, q, 0, 0)
    BY <1>4, <1>6, <2>2, Zenon
  <2>4. WellFormed(t) /\ Stands(t, binary)
    BY <1>1, <2>3, WholeStands, Zenon
  <2> QED
    BY <1>2, <1>4, <2>1, <2>4 DEF RfcInv, DecodeErrors
<1>7. CASE last_ptr \notin {0, 4}
  <2>1. d_pc' = "padding_error"
    BY <1>7 DEF DecodeTail
  <2>2. Len(t) % 4 # 0
    <3>1. PICK l \in 0..5 : l = last_ptr /\ l # 0 /\ l # 4
      BY <1>1, <1>7
    <3>2. Len(t) = 4 * q + l
      BY <1>5, <3>1
    <3>3. l = 1 \/ l = 2 \/ l = 3 \/ l = 5
      BY <3>1
    <3> QED
      BY <3>2, <3>3, SMT
  <2>3. ~ WellFormed(t)
    BY <2>2, BadLength, Zenon
  <2> QED
    BY <1>2, <1>4, <2>1, <2>3 DEF RfcInv
<1>8. CASE last_ptr = 4 /\ index_ptr = 1
  <2>1. d_pc' = "length_error"
    BY <1>8 DEF DecodeTail
  <2>2. Len(t) = 4 * q + 4 /\ Len(t) > 2 /\ Len(t) - 2 \in 4 * q + 1 + 1..Len(t)
    BY <1>5, <1>8
  <2>3. t[Len(t) - 2] = padding_idx
    BY <1>5, <1>8, <2>2, Zenon DEF PaddedFrom
  <2>4. ~ WellFormed(t)
    BY <2>2, <2>3, BadPadding, Zenon
  <2> QED
    BY <1>2, <1>4, <2>1, <2>4 DEF RfcInv
<1>9. CASE last_ptr = 4 /\ index_ptr # 1
  <2>1. d_pc' = "returned" /\ binary' = binary \o decode_tail(alphabet_indexes, index_ptr)
    <3>1. d_pc' = "returned"
      BY <1>9 DEF DecodeTail
    <3> QED
      BY <1>9, <3>1 DEF DecodeTail
  <2>2. index_ptr \in 2..3
    BY <1>1, <1>3, <1>9
  <2>3. Blocks(t, binary, alphabet_indexes, q, index_ptr, 4)
    BY <1>4, <1>9, Zenon
  <2>4. \A k \in 0..3 : alphabet_indexes[k] \in Nat
    BY <1>1
  <2>5. PICK bytes2 : bytes2 = binary \o decode_tail(alphabet_indexes, index_ptr)
    OBVIOUS
  <2>6. WellFormed(t) /\ Stands(t, bytes2)
    BY <1>1, <2>2, <2>3, <2>4, <2>5, TailStands, Zenon
  <2> QED
    BY <1>2, <1>4, <2>1, <2>5, <2>6 DEF RfcInv, DecodeErrors
<1> QED
  BY <1>6, <1>7, <1>8, <1>9

\* Every step of the call keeps it.
LEMMA RfcKept == DecodeInv /\ RfcInv /\ [Next]_all => RfcInv'
<1> SUFFICES ASSUME DecodeInv, RfcInv, [Next]_all PROVE RfcInv'
  OBVIOUS
<1>1. CASE Encode
  <2>1. d_pc' = "off"
    BY <1>1 DEF Encode, decoder, DecodeInv, DecodeTypes
  <2> QED
    BY <2>1 DEF RfcInv, DecodeErrors
<1>2. CASE UNCHANGED <<text, decoder>>
  BY <1>2 DEF decoder, RfcInv
<1>3. CASE \E idx \in Characters : ReadSymbol(idx) \/ ReadStop(idx) \/ ReadPadding(idx)
  BY <1>3, RfcSymbol, RfcStop, RfcPadding
<1>4. CASE ReadEnd \/ DecodeTail
  BY <1>4, RfcEnd, RfcTail
<1>5. (Client \/ Recogniser \/ Others) /\ OfCall => UNCHANGED <<text, decoder>>
  BY DEF OfCall
<1>6. Answer \/ Over \/ UNCHANGED all => UNCHANGED <<text, decoder>>
  BY DEF Answer, Over, all
<1> QED
  BY <1>1, <1>2, <1>3, <1>4, <1>5, <1>6 DEF Next

\* decode returns the bytes of a text of any length and any symbols that RFC 4648
\* allows, and for no other.
THEOREM DecodesWhatIsAllowed == FairSpec => []DecodesAsRfc
<1>1. Text = UpTo(text)
  BY Zenon DEF Text, EndsAt, UpTo
<1>2. RfcInv => DecodesAsRfc
  BY <1>1 DEF RfcInv, DecodesAsRfc, DecodeErrors
<1>3. FairSpec => []RfcInv
  BY InitRfc, RfcKept, DecodeInvariance, PTL DEF FairSpec
<1> QED
  BY <1>2, <1>3, PTL
-----------------------------------------------------------------------------
(***************************************************************************)
(* A response that keeps to the protocol is returned.  The invariant says  *)
(* which unit of it the client reads next, at each place in the code.      *)
(***************************************************************************)
\* Unit j of those on the way is one of the response, and so is the one behind it.
Linked(w, r, next, j) ==
  /\ next[j] \in 1..Len(r) /\ w[j] = r[next[j]]
  /\ next[j + 1] = next[j] + 1 \/ (next[j + 1] = next[j] /\ w[j][1] = "plain")

\* The units on the way are those from q up to e, with a needless header again and again.
WireOf(w, r, q, e) ==
  \E next \in [1..Len(w) + 1 -> Nat] :
    /\ next[1] = q /\ next[Len(w) + 1] = e
    /\ \A j \in 1..Len(w) : Linked(w, r, next, j)

\* Nothing is on its way.
LEMMA WireEmpty ==
  ASSUME NEW r, NEW q, NEW e, WireOf(<<>>, r, q, e)
  PROVE  q = e
<1>1. Len(<<>>) + 1 = 1
  OBVIOUS
<1> QED
  BY <1>1 DEF WireOf

\* The first is read.
LEMMA WireRead ==
  ASSUME NEW w \in Seq(Unit), w # <<>>, NEW r, NEW q, NEW e, WireOf(w, r, q, e)
  PROVE  /\ q \in 1..Len(r) /\ Head(w) = r[q]
         /\ \/ WireOf(Tail(w), r, q + 1, e)
            \/ r[q][1] = "plain" /\ WireOf(Tail(w), r, q, e)
<1>1. PICK next \in [1..Len(w) + 1 -> Nat] :
        /\ next[1] = q /\ next[Len(w) + 1] = e
        /\ \A j \in 1..Len(w) : Linked(w, r, next, j)
  BY DEF WireOf
<1>2. PICK n \in Nat : Len(w) = n + 1
  <2>1. Len(w) \in Nat /\ Len(w) # 0
    OBVIOUS
  <2>2. Len(w) - 1 \in Nat /\ Len(w) = (Len(w) - 1) + 1
    BY <2>1
  <2> QED
    BY <2>2
<1>3. /\ Head(w) = w[1] /\ Len(Tail(w)) = n
      /\ \A j \in 1..n : Tail(w)[j] = w[j + 1]
  BY <1>2
<1>4. 1 \in 1..Len(w) /\ 1 + 1 = 2
  BY <1>2
<1>5. /\ q \in 1..Len(r) /\ Head(w) = r[q]
      /\ next[2] = q + 1 \/ (next[2] = q /\ r[q][1] = "plain")
  BY <1>1, <1>3, <1>4, Zenon DEF Linked
<1>6. PICK rest : rest = [j \in 1..n + 1 |-> next[j + 1]]
  OBVIOUS
<1>7. /\ rest \in [1..n + 1 -> Nat] /\ rest[1] = next[2] /\ rest[n + 1] = e
      /\ \A j \in 1..n : rest[j] = next[j + 1] /\ rest[j + 1] = next[j + 1 + 1]
  <2>1. /\ \A j \in 1..n + 1 : j + 1 \in 1..Len(w) + 1
        /\ 1 \in 1..n + 1 /\ n + 1 \in 1..n + 1 /\ n + 1 + 1 = Len(w) + 1
        /\ \A j \in 1..n : j \in 1..n + 1 /\ j + 1 \in 1..n + 1
    BY <1>2
  <2> QED
    BY <1>1, <1>4, <1>6, <2>1
<1>8. ASSUME NEW j \in 1..n
      PROVE  Linked(Tail(w), r, rest, j)
  <2>1. j + 1 \in 1..Len(w)
    BY <1>2
  <2>2. Linked(w, r, next, j + 1)
    BY <1>1, <2>1
  <2> QED
    BY <1>3, <1>7, <2>2, Zenon DEF Linked
<1>9. WireOf(Tail(w), r, next[2], e)
  <2>1. /\ rest \in [1..Len(Tail(w)) + 1 -> Nat] /\ rest[1] = next[2]
        /\ rest[Len(Tail(w)) + 1] = e /\ \A j \in 1..Len(Tail(w)) : Linked(Tail(w), r, rest, j)
    BY <1>3, <1>7, <1>8
  <2> QED
    BY <2>1, Zenon DEF WireOf
<1> QED
  BY <1>5, <1>9, Zenon

\* One more is sent, the next or a needless one.
LEMMA WireSent ==
  ASSUME NEW w \in Seq(Unit), NEW r, NEW q, NEW e \in Nat, WireOf(w, r, q, e),
         e \in 1..Len(r), r[e] \in Unit, NEW f, f = e + 1 \/ (f = e /\ r[e][1] = "plain")
  PROVE  WireOf(Append(w, r[e]), r, q, f)
<1>1. PICK next \in [1..Len(w) + 1 -> Nat] :
        /\ next[1] = q /\ next[Len(w) + 1] = e
        /\ \A j \in 1..Len(w) : Linked(w, r, next, j)
  BY DEF WireOf
<1>2. PICK n \in Nat : n = Len(w)
  OBVIOUS
<1>3. PICK v : v = Append(w, r[e])
  OBVIOUS
<1>4. Len(v) = n + 1 /\ v[n + 1] = r[e] /\ \A j \in 1..n : v[j] = w[j]
  BY <1>2, <1>3
<1>5. PICK more : more = [j \in 1..n + 2 |-> IF j = n + 2 THEN f ELSE next[j]]
  OBVIOUS
<1>6. /\ more \in [1..n + 2 -> Nat] /\ more[1] = q /\ more[n + 2] = f /\ more[n + 1] = e
      /\ \A j \in 1..n + 1 : more[j] = next[j]
  <2>1. /\ \A j \in 1..n + 2 : j # n + 2 => j \in 1..n + 1
        /\ \A j \in 1..n + 1 : j \in 1..n + 2 /\ j # n + 2
        /\ 1 \in 1..n + 1 /\ n + 1 \in 1..n + 1 /\ n + 2 \in 1..n + 2
    OBVIOUS
  <2>2. f \in Nat
    OBVIOUS
  <2>3. more \in [1..n + 2 -> Nat]
    BY <1>1, <1>2, <1>5, <2>1, <2>2
  <2>4. more[n + 2] = f /\ \A j \in 1..n + 1 : more[j] = next[j]
    BY <1>5, <2>1
  <2> QED
    BY <1>1, <1>2, <2>1, <2>3, <2>4
<1>7. ASSUME NEW j \in 1..n + 1
      PROVE  Linked(v, r, more, j)
  <2>1. CASE j = n + 1
    <3>1. j + 1 = n + 2
      BY <2>1
    <3> QED
      BY <1>4, <1>6, <2>1, <3>1, Zenon DEF Linked
  <2>2. CASE j # n + 1
    <3>1. j \in 1..n /\ j + 1 \in 1..n + 1
      BY <2>2
    <3> QED
      BY <1>1, <1>2, <1>4, <1>6, <3>1, Zenon DEF Linked
  <2> QED
    BY <2>1, <2>2
<1>8. Len(v) + 1 = n + 2
  BY <1>4
<1>9. WireOf(v, r, q, f)
  <2>1. /\ more \in [1..Len(v) + 1 -> Nat] /\ more[1] = q /\ more[Len(v) + 1] = f
        /\ \A j \in 1..Len(v) : Linked(v, r, more, j)
    BY <1>4, <1>6, <1>7, <1>8
  <2> QED
    BY <2>1, Zenon DEF WireOf
<1> QED
  BY <1>3, <1>9

\* The headers before q.
HeadersTo(r, s, q) == {r[k] : k \in s + 1..q - 1}

\* From q there are l more pieces of a chunk, the end of the line and another chunk.
ChunkLeft(r, b, q, l) ==
  /\ \A k \in q..q + l - 1 : r[k][1] = "piece"
  /\ r[q + l] = <<"crlf", 0>>
  /\ q + l + 1 \in ChunksAfter(r, b)

\* The body w has the pieces before q, in order.
BodyOf(w, r, q) ==
  /\ \A j \in 1..Len(w) : w[j] = <<"piece", j>>
  /\ \A k \in 1..Len(r) : r[k][1] = "piece" => (k < q <=> r[k][2] <= Len(w))

\* Before the head is read.
InHead(s, b, q) ==
  /\ c_pc \in {"off", "connect", "write"} => q = 1
  /\ c_pc = "line" => q \in 1..s /\ q % 2 = 1
  /\ c_pc = "skip" => q \in 1..s - 1 /\ q % 2 = 0
  /\ headers = {}

\* In the headers: each that was read is of the response, and none is lost.
InHeaders(r, s, b, q) ==
  /\ status = 200 /\ q \in s + 1..b
  /\ HeadersTo(r, s, q) \subseteq headers /\ headers \subseteq HeadersTo(r, s, b)

\* In the content.
InContent(r, s, b, q) ==
  /\ status = 200 /\ headers = HeadersTo(r, s, b) /\ q \in b + 1..Len(r) + 1
  /\ c_pc = "counted" =>
       /\ length > 0
       /\ IF Chunked(r, s, b) THEN ChunkLeft(r, b, q, length) ELSE q + length = Len(r) + 1
  /\ c_pc = "rest" => ~ Chunked(r, s, b)
  /\ c_pc = "size" => Chunked(r, s, b) /\ q \in ChunksAfter(r, b)
  /\ c_pc = "crlf" => Chunked(r, s, b) /\ r[q] = <<"crlf", 0>> /\ q + 1 \in ChunksAfter(r, b)
  /\ c_pc = "trailer" => q = Len(r) /\ r[q] = <<"crlf", 0>>
  /\ c_pc = "done" => q = Len(r) + 1

HeadPcs    == {"off", "connect", "write", "line", "skip"}
ContentPcs == {"counted", "rest", "size", "crlf", "trailer", "done"}

\* The client reads the unit q of r next.
Reader(r, s, b, q) ==
  /\ c_pc \in HeadPcs => InHead(s, b, q)
  /\ c_pc = "headers" => InHeaders(r, s, b, q)
  /\ c_pc \in ContentPcs => InContent(r, s, b, q)

Place(r, s, b, q) ==
  Framed(r, s, b) /\ Reader(r, s, b, q) /\ BodyOf(body, r, q) /\ WireOf(wire, r, q, SentCount + 1)

Placed == \E s, b \in DOMAIN response, q \in Nat : Place(response, s, b, q)

\* Nothing has failed, and no part of the response is lost.
Going == Proper(response) /\ ~ failed /\ ~ killed /\ (script = <<>> \/ peer = "open")

Returns == IF answer = "value" THEN thrown ELSE rt = IF answer = "text" THEN "text" ELSE ""

PlaceInv  == Going /\ c_pc \in HeadPcs \cup {"headers"} \cup ContentPcs => Placed
AnswerInv == Going /\ c_pc \in {"finish", "answer"} => ret /\ status = 200 /\ Parses
EndInv    == Going /\ c_pc \in {"destroy", "over"} => Returns

ReturnInv == PlaceInv /\ AnswerInv /\ EndInv

\* The body is empty at first.
LEMMA BodyStart ==
  ASSUME NEW r \in Seq(Unit), HoldsObject(r)
  PROVE  BodyOf(<<>>, r, 1)
<1>1. ASSUME NEW k \in 1..Len(r), r[k][1] = "piece"
      PROVE  k < 1 <=> r[k][2] <= 0
  <2>1. r[k][2] \in 1..Pieces /\ Pieces \in Nat
    BY <1>1, HttpaudioAssumption DEF HoldsObject, HttpaudioAssumption
  <2> QED
    BY <2>1
<1>2. Len(<<>>) = 0 /\ \A j \in 1..0 : <<>>[j] = <<"piece", j>>
  OBVIOUS
<1> QED
  BY <1>1, <1>2 DEF BodyOf

\* A unit that is no piece leaves it alone.
LEMMA BodyOther ==
  ASSUME NEW w, NEW r \in Seq(Unit), NEW q \in Nat, BodyOf(w, r, q), r[q][1] # "piece"
  PROVE  BodyOf(w, r, q + 1)
<1>1. \A k \in 1..Len(r) : r[k][1] = "piece" => (k < q <=> k < q + 1)
  <2>1. \A k \in 1..Len(r) : k # q => (k < q <=> k < q + 1)
    OBVIOUS
  <2> QED
    BY <2>1
<1> QED
  BY <1>1, Zenon DEF BodyOf

\* The next piece is the one after those that were read.
LEMMA BodyPiece ==
  ASSUME NEW w \in Seq(Unit), NEW r \in Seq(Unit), HoldsObject(r), NEW q \in 1..Len(r),
         BodyOf(w, r, q), r[q][1] = "piece"
  PROVE  BodyOf(Append(w, r[q]), r, q + 1)
<1>1. PICK n \in Nat : n = Len(w) + 1
  OBVIOUS
<1>2. /\ \A j \in 1..Len(w) : w[j] = <<"piece", j>>
      /\ \A k \in 1..Len(r) : r[k][1] = "piece" => (k < q <=> r[k][2] <= Len(w))
  BY DEF BodyOf
<1>3. /\ Pieces \in Nat /\ r[q][2] \in 1..Pieces /\ r[q] \in Unit /\ DOMAIN r = 1..Len(r)
      /\ \A k \in 1..Len(r) : r[k] \in Unit
  BY HttpaudioAssumption DEF HoldsObject, HttpaudioAssumption
<1>4. \A j, k \in 1..Len(r) :
        j < k /\ r[j][1] = "piece" /\ r[k][1] = "piece" => r[j][2] < r[k][2]
  BY <1>3 DEF HoldsObject
<1>5. r[q][2] \in Nat /\ r[q][2] >= n
  <2>1. ~ r[q][2] <= Len(w)
    BY <1>2
  <2> QED
    BY <1>1, <1>3, <2>1
<1>6. r[q][2] = n
  <2>1. SUFFICES ASSUME r[q][2] > n
                 PROVE  FALSE
    BY <1>1, <1>5
  <2>2. n \in 1..Pieces
    BY <1>1, <1>3, <2>1
  <2>3. PICK k \in 1..Len(r) : <<"piece", n>> = r[k]
    BY <1>3, <2>2 DEF HoldsObject, Units
  <2>4. r[k][1] = "piece" /\ r[k][2] = n
    BY <2>3
  <2>5. ~ k < q
    BY <1>1, <1>2, <2>4
  <2>6. q < k
    <3>1. k # q
      BY <2>1, <2>4
    <3> QED
      BY <2>5, <3>1
  <2>7. r[q][2] < n
    BY <1>4, <2>4, <2>6
  <2> QED
    BY <1>1, <1>5, <2>7
<1>7. r[q] = <<"piece", n>>
  BY <1>3, <1>6 DEF Unit
<1>8. PICK v : v = Append(w, r[q])
  OBVIOUS
<1>9. Len(v) = n /\ v[n] = r[q] /\ \A j \in 1..Len(w) : v[j] = w[j]
  BY <1>1, <1>8
<1>10. \A j \in 1..Len(v) : v[j] = <<"piece", j>>
  <2>1. \A j \in 1..Len(v) : j \in 1..Len(w) \/ j = n
    BY <1>1, <1>9
  <2> QED
    BY <1>2, <1>7, <1>9, <2>1
<1>11. ASSUME NEW k \in 1..Len(r), r[k][1] = "piece"
       PROVE  k < q + 1 <=> r[k][2] <= Len(v)
  <2>1. r[k][2] \in Nat
    BY <1>3 DEF Unit
  <2>2. CASE k < q
    <3>1. r[k][2] <= Len(w)
      BY <1>2, <1>11, <2>2
    <3> QED
      BY <1>1, <1>9, <2>1, <2>2, <3>1
  <2>3. CASE k = q
    BY <1>1, <1>6, <1>9, <2>3
  <2>4. CASE k > q
    <3>1. r[q][2] < r[k][2]
      BY <1>4, <1>11, <2>4
    <3> QED
      BY <1>1, <1>6, <1>9, <2>1, <2>4, <3>1
  <2> QED
    BY <2>2, <2>3, <2>4
<1>12. BodyOf(v, r, q + 1)
  BY <1>10, <1>11 DEF BodyOf
<1> QED
  BY <1>8, <1>12

\* At the end of the response the reader finds the object.
LEMMA BodyWhole ==
  ASSUME NEW w \in Seq(Unit), NEW r \in Seq(Unit), HoldsObject(r), BodyOf(w, r, Len(r) + 1)
  PROVE  Len(w) >= Pieces /\ \A k \in 1..Pieces : w[k] = <<"piece", k>>
<1>1. /\ \A j \in 1..Len(w) : w[j] = <<"piece", j>>
      /\ \A k \in 1..Len(r) : r[k][1] = "piece" => (k < Len(r) + 1 <=> r[k][2] <= Len(w))
  BY DEF BodyOf
<1>2. ASSUME NEW k \in 1..Pieces
      PROVE  k \in 1..Len(w)
  <2>1. PICK j \in 1..Len(r) : <<"piece", k>> = r[j]
    BY DEF HoldsObject, Units
  <2>2. r[j][1] = "piece" /\ r[j][2] = k /\ j < Len(r) + 1
    BY <2>1
  <2>3. k <= Len(w)
    BY <1>1, <2>2
  <2> QED
    BY <2>3
<1>3. Pieces \in 1..Pieces
  BY HttpaudioAssumption DEF HttpaudioAssumption
<1>4. Len(w) >= Pieces
  <2>1. Pieces \in 1..Len(w)
    BY <1>2, <1>3
  <2> QED
    BY <2>1
<1> QED
  BY <1>1, <1>2, <1>4

\* There is content, which begins after the head.
LEMMA PieceAfter ==
  ASSUME NEW r \in Seq(Unit), NEW s \in 1..Len(r), NEW b \in 1..Len(r), HasHead(r, s, b),
         NEW k \in 1..Len(r), r[k][1] = "piece"
  PROVE  k > b
<1>1. s < b /\ r[s][1] # "piece" /\ r[b][1] # "piece"
  BY DEF HasHead
<1>2. \A j \in 1..s - 1 : r[j][1] # "piece"
  BY DEF HasHead
<1>3. \A j \in s + 1..b - 1 : r[j][1] # "piece"
  BY DEF HasHead, HeaderKinds
<1>4. k \notin 1..s - 1 /\ k \notin s + 1..b - 1 /\ k # s /\ k # b
  BY <1>1, <1>2, <1>3
<1> QED
  BY <1>1, <1>4

\* So it is not empty.
LEMMA ContentBegins ==
  ASSUME NEW r \in Seq(Unit), NEW s \in 1..Len(r), NEW b \in 1..Len(r), HasHead(r, s, b),
         HoldsObject(r)
  PROVE  b < Len(r)
<1>1. 1 \in 1..Pieces
  BY HttpaudioAssumption DEF HttpaudioAssumption
<1>2. PICK j \in 1..Len(r) : <<"piece", 1>> = r[j]
  BY <1>1 DEF HoldsObject, Units
<1>3. r[j][1] = "piece"
  BY <1>2
<1> QED
  BY <1>2, <1>3, PieceAfter

\* A call that reads gets the unit q, and leaves what is behind it, or again a header
\* that nobody needs.
LEMMA ReadNext ==
  ASSUME PostInv, OriginInv, NEW r, NEW s, NEW b, NEW q, Place(r, s, b, q), r \in Seq(Unit),
         NEW unit \in {wire[k] : k \in DOMAIN wire \cap {1}}, Reads(unit)
  PROVE  /\ q \in 1..Len(r) /\ unit = r[q] /\ unit \in Unit /\ SentCount' = SentCount
         /\ \/ WireOf(wire', r, q + 1, SentCount' + 1)
            \/ unit[1] = "plain" /\ WireOf(wire', r, q, SentCount' + 1)
<1>1. /\ wire \in Seq(Unit) /\ wire # <<>> /\ unit = Head(wire) /\ wire' = Tail(wire)
      /\ UNCHANGED <<script, response>>
  BY DEF PostInv, ReadInv, Reads
<1>2. unit \in Unit /\ SentCount' = SentCount
  BY <1>1, UnitTypes DEF SentCount
<1>3. WireOf(wire, r, q, SentCount + 1)
  BY DEF Place
<1>4. PICK e : e = SentCount + 1
  OBVIOUS
<1>5. /\ q \in 1..Len(r) /\ Head(wire) = r[q]
      /\ \/ WireOf(Tail(wire), r, q + 1, e)
         \/ r[q][1] = "plain" /\ WireOf(Tail(wire), r, q, e)
  BY <1>1, <1>3, <1>4, WireRead
<1> QED
  BY <1>1, <1>2, <1>4, <1>5

\* A status line, or the line after one, in the head.
LEMMA HeadUnit ==
  ASSUME NEW r \in Seq(Unit), NEW s \in 1..Len(r), NEW b \in 1..Len(r), HasHead(r, s, b),
         NEW q \in 1..s
  PROVE  /\ q % 2 = 1 => r[q] = <<"status", IF q = s THEN 200 ELSE 100>>
         /\ q % 2 = 0 => r[q] = <<"crlf", 0>> /\ q < s
<1>1. s % 2 = 1 /\ r[s] = <<"status", 200>>
  BY DEF HasHead
<1>2. \A k \in 1..s - 1 : r[k] = IF k % 2 = 1 THEN <<"status", 100>> ELSE <<"crlf", 0>>
  BY DEF HasHead
<1>3. CASE q = s
  BY <1>1, <1>3
<1>4. CASE q # s
  <2>1. q \in 1..s - 1
    BY <1>4
  <2> QED
    BY <1>2, <1>4, <2>1
<1> QED
  BY <1>3, <1>4

\* read_response_line finds a status line, 100 or 200.
LEMMA LineReturns ==
  ASSUME PostInv, OriginInv, NEW r \in Seq(Unit), NEW s \in 1..Len(r), NEW b \in 1..Len(r),
         NEW q \in Nat, Place(r, s, b, q),
         NEW unit \in {wire[k] : k \in DOMAIN wire \cap {1}},
         read_response_line(unit)
  PROVE  Place(r, s, b, q + 1)' /\ c_pc' \in {"skip", "headers"}
<1>1. c_pc = "line" /\ Reads(unit) /\ UNCHANGED <<headers, body>>
  BY DEF read_response_line
<1>2. /\ q \in 1..Len(r) /\ unit = r[q] /\ SentCount' = SentCount
      /\ \/ WireOf(wire', r, q + 1, SentCount' + 1)
         \/ unit[1] = "plain" /\ WireOf(wire', r, q, SentCount' + 1)
  BY <1>1, ReadNext
<1>3. Framed(r, s, b) /\ HasHead(r, s, b) /\ BodyOf(body, r, q)
  BY DEF Place, Framed
<1>4. q \in 1..s /\ q % 2 = 1 /\ headers = {}
  BY <1>1 DEF Place, Reader, HeadPcs, InHead
<1>5. unit = <<"status", IF q = s THEN 200 ELSE 100>>
  BY <1>2, <1>3, <1>4, HeadUnit
<1>6. unit[1] = "status" /\ unit[1] # "plain" /\ unit[1] # "piece"
      /\ unit[2] = (IF q = s THEN 200 ELSE 100)
  BY <1>5
<1>7. status' = unit[2] /\ c_pc' = IF unit[2] = 100 THEN "skip" ELSE "headers"
  BY <1>6 DEF read_response_line
<1>8. BodyOf(body', r, q + 1) /\ WireOf(wire', r, q + 1, SentCount' + 1)
  <2>1. BodyOf(body, r, q + 1)
    BY <1>2, <1>3, <1>6, BodyOther
  <2> QED
    BY <1>1, <1>2, <1>6, <2>1
<1>9. Reader(r, s, b, q + 1)'
  <2>1. CASE q = s
    <3>1. c_pc' = "headers" /\ status' = 200 /\ headers' = {}
      BY <1>1, <1>4, <1>6, <1>7, <2>1
    <3>2. q + 1 \in s + 1..b /\ s < b
      BY <1>3, <2>1 DEF HasHead
    <3>3. HeadersTo(r, s, q + 1) = {}
      BY <2>1 DEF HeadersTo
    <3> QED
      BY <3>1, <3>2, <3>3 DEF Reader, HeadPcs, ContentPcs, InHeaders
  <2>2. CASE q # s
    <3>1. c_pc' = "skip" /\ headers' = {}
      BY <1>1, <1>4, <1>6, <1>7, <2>2
    <3>2. q + 1 \in 1..s - 1 /\ (q + 1) % 2 = 0
      <4>1. s % 2 = 1
        BY <1>3 DEF HasHead
      <4>2. q < s /\ q + 1 # s
        BY <1>4, <2>2, <4>1
      <4> QED
        BY <1>4, <4>2
    <3> QED
      BY <3>1, <3>2 DEF Reader, HeadPcs, ContentPcs, InHead
  <2> QED
    BY <2>1, <2>2
<1> QED
  BY <1>3, <1>6, <1>7, <1>8, <1>9 DEF Place

\* And skips the line after a 100.
LEMMA SkipReturns ==
  ASSUME PostInv, OriginInv, NEW r \in Seq(Unit), NEW s \in 1..Len(r), NEW b \in 1..Len(r),
         NEW q \in Nat, Place(r, s, b, q),
         NEW unit \in {wire[k] : k \in DOMAIN wire \cap {1}},
         SkipLine(unit)
  PROVE  Place(r, s, b, q + 1)' /\ c_pc' = "line"
<1>1. c_pc = "skip" /\ Reads(unit) /\ c_pc' = "line" /\ UNCHANGED <<headers, body>>
  BY DEF SkipLine, res
<1>2. /\ q \in 1..Len(r) /\ unit = r[q] /\ SentCount' = SentCount
      /\ \/ WireOf(wire', r, q + 1, SentCount' + 1)
         \/ unit[1] = "plain" /\ WireOf(wire', r, q, SentCount' + 1)
  BY <1>1, ReadNext
<1>3. Framed(r, s, b) /\ HasHead(r, s, b) /\ BodyOf(body, r, q)
  BY DEF Place, Framed
<1>4. q \in 1..s - 1 /\ q % 2 = 0 /\ headers = {}
  BY <1>1 DEF Place, Reader, HeadPcs, InHead
<1>5. unit[1] = "crlf"
  <2>1. q \in 1..s
    BY <1>4
  <2>2. unit = <<"crlf", 0>>
    BY <1>2, <1>3, <1>4, <2>1, HeadUnit
  <2> QED
    BY <2>2
<1>6. BodyOf(body', r, q + 1) /\ WireOf(wire', r, q + 1, SentCount' + 1)
  <2>1. BodyOf(body, r, q + 1)
    BY <1>2, <1>3, <1>5, BodyOther
  <2> QED
    BY <1>1, <1>2, <1>5, <2>1
<1>7. Reader(r, s, b, q + 1)'
  <2>1. q + 1 \in 1..s /\ (q + 1) % 2 = 1 /\ headers' = {}
    BY <1>1, <1>4
  <2> QED
    BY <1>1, <2>1 DEF Reader, HeadPcs, ContentPcs, InHead
<1> QED
  BY <1>1, <1>3, <1>6, <1>7 DEF Place

\* read_headers keeps each header, and reads a needless one as often as it comes.
LEMMA HeaderReturns ==
  ASSUME PostInv, OriginInv, NEW r \in Seq(Unit), NEW s \in 1..Len(r), NEW b \in 1..Len(r),
         NEW q \in Nat, Place(r, s, b, q),
         NEW unit \in {wire[k] : k \in DOMAIN wire \cap {1}},
         ReadHeader(unit)
  PROVE  (Place(r, s, b, q)' \/ Place(r, s, b, q + 1)') /\ c_pc' = "headers"
<1>1. /\ c_pc = "headers" /\ Reads(unit) /\ c_pc' = "headers" /\ UNCHANGED <<status, body>>
      /\ unit \notin {<<"blank", 0>>, <<"crlf", 0>>}
      /\ headers' = IF unit[1] \in HeaderKinds THEN headers \cup {unit} ELSE headers
  BY DEF ReadHeader
<1>2. /\ q \in 1..Len(r) /\ unit = r[q] /\ SentCount' = SentCount
      /\ \/ WireOf(wire', r, q + 1, SentCount' + 1)
         \/ unit[1] = "plain" /\ WireOf(wire', r, q, SentCount' + 1)
  BY <1>1, ReadNext
<1>3. Framed(r, s, b) /\ HasHead(r, s, b) /\ BodyOf(body, r, q)
  BY DEF Place, Framed
<1>4. /\ status = 200 /\ q \in s + 1..b
      /\ HeadersTo(r, s, q) \subseteq headers /\ headers \subseteq HeadersTo(r, s, b)
  BY <1>1 DEF Place, Reader, InHeaders
<1>5. q \in s + 1..b - 1 /\ unit[1] \in HeaderKinds
  <2>1. r[b] \in {<<"blank", 0>>, <<"crlf", 0>>}
    BY <1>3 DEF HasHead
  <2>2. q # b
    BY <1>1, <1>2, <2>1
  <2>3. q \in s + 1..b - 1
    BY <1>4, <2>2
  <2>4. r[q][1] \in HeaderKinds
    BY <1>3, <2>3 DEF HasHead
  <2> QED
    BY <1>2, <2>3, <2>4
<1>6. headers' = headers \cup {unit}
  BY <1>1, <1>5
<1>7. unit \in HeadersTo(r, s, b)
  BY <1>2, <1>5 DEF HeadersTo
<1>8. unit[1] # "piece"
  BY <1>5 DEF HeaderKinds
<1>9. CASE unit[1] = "plain" /\ WireOf(wire', r, q, SentCount' + 1)
  <2>1. Reader(r, s, b, q)'
    BY <1>1, <1>4, <1>6, <1>7 DEF Reader, HeadPcs, ContentPcs, InHeaders
  <2>2. BodyOf(body', r, q)
    BY <1>1, <1>3
  <2> QED
    BY <1>1, <1>3, <1>9, <2>1, <2>2 DEF Place
<1>10. CASE WireOf(wire', r, q + 1, SentCount' + 1)
  <2>1. BodyOf(body', r, q + 1)
    <3>1. BodyOf(body, r, q + 1)
      BY <1>2, <1>3, <1>8, BodyOther
    <3> QED
      BY <1>1, <3>1
  <2>2. HeadersTo(r, s, q + 1) \subseteq headers'
    <3>1. \A k \in s + 1..(q + 1) - 1 : k \in s + 1..q - 1 \/ k = q
      BY <1>2
    <3>2. HeadersTo(r, s, q + 1) \subseteq HeadersTo(r, s, q) \cup {unit}
      BY <1>2, <3>1 DEF HeadersTo
    <3> QED
      BY <1>4, <1>6, <3>2
  <2>3. q + 1 \in s + 1..b
    BY <1>5
  <2>4. Reader(r, s, b, q + 1)'
    BY <1>1, <1>4, <1>6, <1>7, <2>2, <2>3 DEF Reader, HeadPcs, ContentPcs, InHeaders
  <2> QED
    BY <1>1, <1>3, <1>10, <2>1, <2>4 DEF Place
<1> QED
  BY <1>2, <1>9, <1>10

\* What the headers of the response say is what the client finds in those it keeps.
LEMMA HeadersSay ==
  ASSUME NEW r \in Seq(Unit), NEW s \in 1..Len(r), NEW b \in 1..Len(r), Framed(r, s, b),
         headers = HeadersTo(r, s, b)
  PROVE  /\ HasHeader("chunked") <=> Chunked(r, s, b)
         /\ ~ HasHeader("gzip")
         /\ ~ Chunked(r, s, b) /\ HasHeader("length") => ContentLength = Len(r) - b
<1>1. HasHead(r, s, b)
  BY DEF Framed
<1>2. HasHeader("chunked") <=> Chunked(r, s, b)
  BY DEF HasHeader, Chunked, HeadersTo
<1>3. ~ HasHeader("gzip")
  <2>1. \A k \in s + 1..b - 1 : r[k][1] # "gzip"
    BY <1>1 DEF HasHead
  <2> QED
    BY <2>1 DEF HasHeader, HeadersTo
<1>4. ASSUME ~ Chunked(r, s, b), HasHeader("length")
      PROVE  ContentLength = Len(r) - b
  <2>1. InOne(r, s, b)
    BY <1>4 DEF Framed
  <2>2. \A h \in headers : h[1] = "length" => h[2] = Len(r) - b
    BY <2>1 DEF InOne, HeadersTo
  <2>3. PICK h \in headers : h = CHOOSE x \in headers : x[1] = "length"
    BY <1>4 DEF HasHeader
  <2>4. h[1] = "length" /\ ContentLength = h[2]
    BY <1>4, <2>3 DEF HasHeader, ContentLength
  <2> QED
    BY <2>2, <2>4
<1> QED
  BY <1>2, <1>3, <1>4

\* What a step in the content is to show.
LEMMA ContentStep ==
  ASSUME NEW r, NEW s, NEW b, NEW p, Framed(r, s, b),
         BodyOf(body', r, p), WireOf(wire', r, p, SentCount' + 1),
         c_pc' \in ContentPcs, InContent(r, s, b, p)'
  PROVE  Place(r, s, b, p)'
<1>1. Reader(r, s, b, p)'
  BY DEF Reader, ContentPcs, HeadPcs
<1> QED
  BY <1>1 DEF Place

\* At the blank line read_content chooses the way in which the content comes.
LEMMA BlankReturns ==
  ASSUME PostInv, OriginInv, NEW r \in Seq(Unit), NEW s \in 1..Len(r), NEW b \in 1..Len(r),
         NEW q \in Nat, Place(r, s, b, q), HoldsObject(r),
         NEW unit \in {wire[k] : k \in DOMAIN wire \cap {1}},
         EndHeaders(unit)
  PROVE  Place(r, s, b, q + 1)' /\ c_pc' \in ContentPcs
<1>1. /\ c_pc = "headers" /\ Reads(unit) /\ UNCHANGED <<status, headers, body>>
      /\ unit \in {<<"blank", 0>>, <<"crlf", 0>>}
      /\ c_pc' = ContentBy /\ length' = IF ContentBy = "counted" THEN ContentLength ELSE 0
  BY DEF EndHeaders
<1>2. /\ q \in 1..Len(r) /\ unit = r[q] /\ SentCount' = SentCount
      /\ \/ WireOf(wire', r, q + 1, SentCount' + 1)
         \/ unit[1] = "plain" /\ WireOf(wire', r, q, SentCount' + 1)
  BY <1>1, ReadNext
<1>3. Framed(r, s, b) /\ HasHead(r, s, b) /\ BodyOf(body, r, q)
  BY DEF Place, Framed
<1>4. /\ status = 200 /\ q \in s + 1..b
      /\ HeadersTo(r, s, q) \subseteq headers /\ headers \subseteq HeadersTo(r, s, b)
  BY <1>1 DEF Place, Reader, InHeaders
<1>5. unit[1] \in {"blank", "crlf"}
  BY <1>1
<1>6. q = b
  <2>1. SUFFICES ASSUME q # b
                 PROVE  FALSE
    OBVIOUS
  <2>2. q \in s + 1..b - 1
    BY <1>4, <2>1
  <2>3. r[q][1] \in HeaderKinds
    BY <1>3, <2>2 DEF HasHead
  <2> QED
    BY <1>2, <1>5, <2>3 DEF HeaderKinds
<1>7. headers = HeadersTo(r, s, b)
  BY <1>4, <1>6
<1>8. BodyOf(body', r, b + 1) /\ WireOf(wire', r, b + 1, SentCount' + 1)
  <2>1. BodyOf(body, r, q + 1)
    BY <1>2, <1>3, <1>5, BodyOther
  <2>2. WireOf(wire', r, q + 1, SentCount' + 1)
    BY <1>2, <1>5
  <2>3. BodyOf(body', r, q + 1)
    BY <1>1, <2>1
  <2> QED
    BY <1>6, <2>2, <2>3
<1>9. /\ HasHeader("chunked") <=> Chunked(r, s, b)
      /\ ~ HasHeader("gzip")
      /\ ~ Chunked(r, s, b) /\ HasHeader("length") => ContentLength = Len(r) - b
  BY <1>3, <1>7, HeadersSay
<1>10. b < Len(r)
  BY <1>3, ContentBegins
<1>11. /\ Chunked(r, s, b) => ContentBy = "size"
       /\ ~ Chunked(r, s, b) => ContentBy \in {"rest", "counted"}
       /\ ContentBy = "counted" => ContentLength = Len(r) - b
  BY <1>4, <1>9, <1>10 DEF ContentBy
<1>12. status' = 200 /\ headers' = HeadersTo(r, s, b) /\ b + 1 \in b + 1..Len(r) + 1
  BY <1>1, <1>4, <1>7, <1>10
<1>13. c_pc' \in ContentPcs /\ InContent(r, s, b, b + 1)'
  <2>1. CASE Chunked(r, s, b)
    <3>1. b + 1 \in ChunksAfter(r, b)
      BY <1>3, <2>1 DEF Framed, InChunks
    <3> QED
      BY <1>1, <1>11, <1>12, <2>1, <3>1 DEF InContent, ContentPcs
  <2>2. CASE ~ Chunked(r, s, b)
    <3>1. c_pc' = "counted" => length' > 0 /\ b + 1 + length' = Len(r) + 1
      BY <1>1, <1>10, <1>11
    <3> QED
      BY <1>1, <1>11, <1>12, <2>2, <3>1 DEF InContent, ContentPcs
  <2> QED
    BY <2>1, <2>2
<1>14. Place(r, s, b, b + 1)'
  BY <1>3, <1>8, <1>13, ContentStep
<1> QED
  BY <1>6, <1>13, <1>14

\* A piece of the content is read: the next of the object.
LEMMA PieceRead ==
  ASSUME PostInv, OriginInv, NEW r \in Seq(Unit), NEW s \in 1..Len(r), NEW b \in 1..Len(r),
         NEW q \in Nat, Place(r, s, b, q), HoldsObject(r),
         NEW unit \in {wire[k] : k \in DOMAIN wire \cap {1}},
         Reads(unit), r[q][1] = "piece", body' = Append(body, unit)
  PROVE  q \in 1..Len(r) /\ BodyOf(body', r, q + 1) /\ WireOf(wire', r, q + 1, SentCount' + 1)
<1>1. /\ q \in 1..Len(r) /\ unit = r[q] /\ SentCount' = SentCount
      /\ \/ WireOf(wire', r, q + 1, SentCount' + 1)
         \/ unit[1] = "plain" /\ WireOf(wire', r, q, SentCount' + 1)
  BY ReadNext
<1>2. BodyOf(body, r, q) /\ body \in Seq(Unit)
  BY DEF Place, PostInv, ReadInv
<1>3. BodyOf(Append(body, r[q]), r, q + 1)
  BY <1>1, <1>2, BodyPiece
<1> QED
  BY <1>1, <1>3

\* Another unit of the content.
LEMMA LineRead ==
  ASSUME PostInv, OriginInv, NEW r \in Seq(Unit), NEW s \in 1..Len(r), NEW b \in 1..Len(r),
         NEW q \in Nat, Place(r, s, b, q),
         NEW unit \in {wire[k] : k \in DOMAIN wire \cap {1}},
         Reads(unit), r[q][1] \in {"size", "crlf"}, UNCHANGED body
  PROVE  /\ q \in 1..Len(r) /\ unit = r[q]
         /\ BodyOf(body', r, q + 1) /\ WireOf(wire', r, q + 1, SentCount' + 1)
<1>1. /\ q \in 1..Len(r) /\ unit = r[q] /\ SentCount' = SentCount
      /\ \/ WireOf(wire', r, q + 1, SentCount' + 1)
         \/ unit[1] = "plain" /\ WireOf(wire', r, q, SentCount' + 1)
  BY ReadNext
<1>2. BodyOf(body, r, q)
  BY DEF Place
<1>3. BodyOf(body, r, q + 1)
  BY <1>2, BodyOther
<1> QED
  BY <1>1, <1>3

\* The pieces of a chunk, or of all the content, are counted as they come.
LEMMA CountedReturns ==
  ASSUME PostInv, OriginInv, NEW r \in Seq(Unit), NEW s \in 1..Len(r), NEW b \in 1..Len(r),
         NEW q \in Nat, Place(r, s, b, q), HoldsObject(r),
         NEW unit \in {wire[k] : k \in DOMAIN wire \cap {1}},
         ReadCounted(unit)
  PROVE  Place(r, s, b, q + 1)' /\ c_pc' \in ContentPcs
<1>1. /\ c_pc = "counted" /\ Reads(unit) /\ UNCHANGED <<status, headers>>
      /\ body' = Append(body, unit) /\ length' = length - 1
      /\ c_pc' = CASE length > 1                            -> "counted"
                   [] length = 1 /\ HasHeader("chunked")   -> "crlf"
                   [] length = 1 /\ ~ HasHeader("chunked") -> "done"
  BY DEF ReadCounted
<1>2. Framed(r, s, b) /\ InContent(r, s, b, q)
  BY <1>1 DEF Place, Reader, ContentPcs
<1>3. /\ status = 200 /\ headers = HeadersTo(r, s, b) /\ q \in b + 1..Len(r) + 1
      /\ length \in Nat /\ length > 0
      /\ Chunked(r, s, b) => ChunkLeft(r, b, q, length)
      /\ ~ Chunked(r, s, b) => q + length = Len(r) + 1
  BY <1>1, <1>2 DEF InContent, PostInv, ReadInv
<1>4. HasHeader("chunked") <=> Chunked(r, s, b)
  BY <1>2, <1>3, HeadersSay
<1>5. r[q][1] = "piece"
  <2>1. CASE Chunked(r, s, b)
    <3>1. q \in q..q + length - 1
      BY <1>3
    <3> QED
      BY <1>3, <2>1, <3>1 DEF ChunkLeft
  <2>2. CASE ~ Chunked(r, s, b)
    <3>1. InOne(r, s, b)
      BY <1>2, <2>2 DEF Framed
    <3>2. q \in b + 1..Len(r)
      BY <1>3, <2>2
    <3> QED
      BY <3>1, <3>2 DEF InOne
  <2> QED
    BY <2>1, <2>2
<1>6. q \in 1..Len(r) /\ BodyOf(body', r, q + 1) /\ WireOf(wire', r, q + 1, SentCount' + 1)
  BY <1>1, <1>5, PieceRead
<1>7. status' = 200 /\ headers' = HeadersTo(r, s, b) /\ q + 1 \in b + 1..Len(r) + 1
  <2>1. q + 1 \in b + 1..Len(r) + 1
    BY <1>3, <1>6
  <2> QED
    BY <1>1, <1>3, <2>1
<1>8. c_pc' \in ContentPcs /\ InContent(r, s, b, q + 1)'
  <2>1. CASE Chunked(r, s, b)
    <3>1. /\ \A k \in q..q + length - 1 : r[k][1] = "piece"
          /\ r[q + length] = <<"crlf", 0>> /\ q + length + 1 \in ChunksAfter(r, b)
      BY <1>3, <2>1 DEF ChunkLeft
    <3>2. CASE length > 1
      <4>1. q + length = (q + 1) + length' /\ \A k \in q + 1..(q + 1) + length' - 1 :
              k \in q..q + length - 1
        BY <1>1, <1>3
      <4>2. ChunkLeft(r, b, q + 1, length')
        <5>1. r[(q + 1) + length'] = <<"crlf", 0>>
          BY <3>1, <4>1
        <5>2. (q + 1) + length' + 1 \in ChunksAfter(r, b)
          BY <3>1, <4>1
        <5> QED
          BY <3>1, <4>1, <5>1, <5>2 DEF ChunkLeft
      <4>3. c_pc' = "counted" /\ length' > 0
        BY <1>1, <1>3, <3>2
      <4> QED
        BY <1>7, <2>1, <4>2, <4>3 DEF InContent, ContentPcs
    <3>3. CASE ~ length > 1
      <4>1. length = 1
        BY <1>3, <3>3
      <4>2. c_pc' = "crlf"
        BY <1>1, <1>4, <2>1, <4>1
      <4>3. r[q + 1] = <<"crlf", 0>> /\ q + 1 + 1 \in ChunksAfter(r, b)
        BY <3>1, <4>1
      <4> QED
        BY <1>7, <2>1, <4>2, <4>3 DEF InContent, ContentPcs
    <3> QED
      BY <3>2, <3>3
  <2>2. CASE ~ Chunked(r, s, b)
    <3>1. CASE length > 1
      <4>1. c_pc' = "counted" /\ length' > 0
        BY <1>1, <1>3, <3>1
      <4>2. q + 1 + length' = Len(r) + 1
        BY <1>1, <1>3, <2>2
      <4> QED
        BY <1>7, <2>2, <4>1, <4>2 DEF InContent, ContentPcs
    <3>2. CASE ~ length > 1
      <4>1. length = 1
        BY <1>3, <3>2
      <4>2. c_pc' = "done" /\ q + 1 = Len(r) + 1
        BY <1>1, <1>3, <1>4, <2>2, <4>1
      <4> QED
        BY <1>7, <4>2 DEF InContent, ContentPcs
    <3> QED
      BY <3>1, <3>2
  <2> QED
    BY <2>1, <2>2
<1> QED
  BY <1>2, <1>6, <1>8, ContentStep

\* Without a length all is content until the recogniser closes.
LEMMA RestReturns ==
  ASSUME PostInv, OriginInv, NEW r \in Seq(Unit), NEW s \in 1..Len(r), NEW b \in 1..Len(r),
         NEW q \in Nat, Place(r, s, b, q), HoldsObject(r),
         NEW unit \in {wire[k] : k \in DOMAIN wire \cap {1}},
         ReadRest(unit)
  PROVE  Place(r, s, b, q + 1)' /\ c_pc' \in ContentPcs
<1>1. /\ c_pc = "rest" /\ Reads(unit) /\ UNCHANGED <<c_pc, status, headers>>
      /\ body' = Append(body, unit)
  BY DEF ReadRest
<1>2. Framed(r, s, b) /\ InContent(r, s, b, q)
  BY <1>1 DEF Place, Reader, ContentPcs
<1>3. /\ status = 200 /\ headers = HeadersTo(r, s, b) /\ q \in b + 1..Len(r) + 1
      /\ ~ Chunked(r, s, b)
  BY <1>1, <1>2 DEF InContent
<1>4. q \in 1..Len(r)
  BY <1>1, ReadNext
<1>5. q \in b + 1..Len(r)
  BY <1>3, <1>4
<1>6. r[q][1] = "piece"
  BY <1>2, <1>3, <1>5 DEF Framed, InOne
<1>7. BodyOf(body', r, q + 1) /\ WireOf(wire', r, q + 1, SentCount' + 1)
  BY <1>1, <1>6, PieceRead
<1>8. c_pc' \in ContentPcs /\ InContent(r, s, b, q + 1)'
  <2>1. q + 1 \in b + 1..Len(r) + 1
    BY <1>5
  <2> QED
    BY <1>1, <1>3, <2>1 DEF InContent, ContentPcs
<1> QED
  BY <1>2, <1>7, <1>8, ContentStep

\* The size of a chunk is that of the pieces after it.
LEMMA SizeReturns ==
  ASSUME PostInv, OriginInv, NEW r \in Seq(Unit), NEW s \in 1..Len(r), NEW b \in 1..Len(r),
         NEW q \in Nat, Place(r, s, b, q),
         NEW unit \in {wire[k] : k \in DOMAIN wire \cap {1}},
         ReadSize(unit)
  PROVE  Place(r, s, b, q + 1)' /\ c_pc' \in ContentPcs
<1>1. /\ c_pc = "size" /\ Reads(unit) /\ UNCHANGED <<status, headers, body>>
      /\ length' = IF unit[1] = "size" THEN unit[2] ELSE 0
      /\ c_pc' = CASE unit[1] # "size"                  -> "finish"
                   [] unit[1] = "size" /\ unit[2] = 0   -> "trailer"
                   [] unit[1] = "size" /\ unit[2] > 0   -> "counted"
  BY DEF ReadSize
<1>2. Framed(r, s, b) /\ InContent(r, s, b, q)
  BY <1>1 DEF Place, Reader, ContentPcs
<1>3. /\ status = 200 /\ headers = HeadersTo(r, s, b) /\ q \in b + 1..Len(r) + 1
      /\ Chunked(r, s, b) /\ q \in ChunksAfter(r, b)
  BY <1>1, <1>2 DEF InContent
<1>4. q \in b + 1..Len(r) /\ r[q][1] = "size"
  BY <1>3 DEF ChunksAfter
<1>5. /\ q \in 1..Len(r) /\ unit = r[q]
      /\ BodyOf(body', r, q + 1) /\ WireOf(wire', r, q + 1, SentCount' + 1)
  BY <1>1, <1>4, LineRead
<1>6. PICK n \in Nat : n = r[q][2]
  BY <1>5, UnitTypes DEF PostInv, ReadInv
<1>7. /\ IF n = 0 THEN q + n + 2 = Len(r) + 1 ELSE q + n + 2 \in ChunksAfter(r, b)
      /\ r[(q + n + 2) - 1] = <<"crlf", 0>>
      /\ \A l \in q + 1..(q + n + 2) - 2 : r[l][1] = "piece"
  <2>1. InChunks(r, b)
    BY <1>2, <1>3 DEF Framed
  <2>2. /\ IF r[q][2] = 0 THEN q + r[q][2] + 2 = Len(r) + 1
                          ELSE q + r[q][2] + 2 \in ChunksAfter(r, b)
        /\ r[(q + r[q][2] + 2) - 1] = <<"crlf", 0>>
        /\ \A l \in q + 1..(q + r[q][2] + 2) - 2 : r[l][1] = "piece"
    BY <1>3, <2>1, Zenon DEF InChunks
  <2> QED
    BY <1>6, <2>2, Zenon
<1>8. length' = n /\ (n = 0 => c_pc' = "trailer") /\ (n > 0 => c_pc' = "counted")
  BY <1>1, <1>4, <1>5, <1>6
<1>9. q + 1 \in b + 1..Len(r) + 1
  BY <1>4
<1>10. c_pc' \in ContentPcs /\ InContent(r, s, b, q + 1)'
  <2>1. CASE n = 0
    <3>1. (q + n + 2) - 1 = q + 1
      BY <2>1
    <3>2. r[q + 1] = <<"crlf", 0>>
      BY <1>7, <3>1
    <3>3. q + 1 = Len(r)
      BY <1>7, <2>1
    <3> QED
      BY <1>1, <1>3, <1>8, <1>9, <2>1, <3>2, <3>3 DEF InContent, ContentPcs
  <2>2. CASE n > 0
    <3>1. q + n + 2 = (q + 1) + n + 1 /\ (q + n + 2) - 1 = (q + 1) + n
          /\ (q + n + 2) - 2 = (q + 1) + n - 1
      OBVIOUS
    <3>2. q + n + 2 \in ChunksAfter(r, b)
      BY <1>7, <2>2
    <3>3. ChunkLeft(r, b, q + 1, n)
      <4>1. (q + 1) + n + 1 \in ChunksAfter(r, b)
        BY <3>1, <3>2
      <4>2. r[(q + 1) + n] = <<"crlf", 0>>
        BY <1>7, <3>1
      <4>3. \A k \in q + 1..(q + 1) + n - 1 : r[k][1] = "piece"
        BY <1>7, <3>1
      <4> QED
        BY <4>1, <4>2, <4>3 DEF ChunkLeft
    <3> QED
      BY <1>1, <1>3, <1>8, <1>9, <2>2, <3>3 DEF InContent, ContentPcs
  <2> QED
    BY <2>1, <2>2
<1> QED
  BY <1>2, <1>5, <1>10, ContentStep

\* Another chunk comes behind the line that ends one, and nothing behind the last.
LEMMA LineEndReturns ==
  ASSUME PostInv, OriginInv, NEW r \in Seq(Unit), NEW s \in 1..Len(r), NEW b \in 1..Len(r),
         NEW q \in Nat, Place(r, s, b, q),
         NEW unit \in {wire[k] : k \in DOMAIN wire \cap {1}},
         EndChunk(unit) \/ ReadTrailer(unit)
  PROVE  Place(r, s, b, q + 1)' /\ c_pc' \in ContentPcs
<1>1. /\ Reads(unit) /\ UNCHANGED <<status, headers, body, length>>
      /\ \/ c_pc = "crlf" /\ c_pc' = IF unit = <<"crlf", 0>> THEN "size" ELSE "done"
         \/ c_pc = "trailer" /\ c_pc' = IF unit = <<"crlf", 0>> THEN "done" ELSE "finish"
  BY DEF EndChunk, ReadTrailer, res
<1>2. Framed(r, s, b) /\ InContent(r, s, b, q)
  BY <1>1 DEF Place, Reader, ContentPcs
<1>3. /\ status = 200 /\ headers = HeadersTo(r, s, b) /\ q \in b + 1..Len(r) + 1
      /\ r[q] = <<"crlf", 0>>
      /\ c_pc = "crlf" => Chunked(r, s, b) /\ q + 1 \in ChunksAfter(r, b)
      /\ c_pc = "trailer" => q = Len(r)
  BY <1>1, <1>2 DEF InContent
<1>4. r[q][1] = "crlf"
  BY <1>3
<1>5. /\ q \in 1..Len(r) /\ unit = r[q]
      /\ BodyOf(body', r, q + 1) /\ WireOf(wire', r, q + 1, SentCount' + 1)
  BY <1>1, <1>4, LineRead
<1>6. q + 1 \in b + 1..Len(r) + 1
  BY <1>3, <1>5
<1>7. \/ c_pc' = "size" /\ Chunked(r, s, b) /\ q + 1 \in ChunksAfter(r, b)
      \/ c_pc' = "done" /\ q + 1 = Len(r) + 1
  BY <1>1, <1>3, <1>5
<1>8. c_pc' \in ContentPcs /\ InContent(r, s, b, q + 1)'
  BY <1>1, <1>3, <1>6, <1>7 DEF InContent, ContentPcs
<1> QED
  BY <1>2, <1>5, <1>8, ContentStep

Progress == Placed' /\ c_pc' \in HeadPcs \cup {"headers"} \cup ContentPcs

ReturnKept == PlaceInv' /\ AnswerInv' /\ EndInv'

\* Still reading, at a place.
LEMMA ProgressKeeps == Progress => ReturnKept
BY DEF Progress, ReturnKept, PlaceInv, AnswerInv, EndInv, HeadPcs, ContentPcs

\* The response and its places have their types.
LEMMA PlaceTypes ==
  ASSUME PostInv
  PROVE  response \in Seq(Unit) /\ DOMAIN response = 1..Len(response)
<1>1. response \in Seq(Unit)
  BY ConstantTypes DEF PostInv, ReadInv
<1> QED
  BY <1>1

\* A place at p is one for the invariant.
LEMMA Proceeds ==
  ASSUME NEW r, r = response, UNCHANGED response, NEW s \in DOMAIN r, NEW b \in DOMAIN r,
         NEW p \in Nat, Place(r, s, b, p)'
  PROVE  Placed'
<1>1. response' = r
  OBVIOUS
<1> QED
  BY <1>1, Zenon DEF Placed

\* A unit that is read brings the client on to the next place.
LEMMA UnitReturns ==
  ASSUME PostInv, OriginInv, PlaceInv, Going,
         NEW unit \in {wire[k] : k \in DOMAIN wire \cap {1}},
         \/ read_response_line(unit) \/ SkipLine(unit) \/ ReadHeader(unit) \/ EndHeaders(unit)
         \/ ReadCounted(unit) \/ ReadRest(unit)
         \/ ReadSize(unit) \/ EndChunk(unit) \/ ReadTrailer(unit)
  PROVE  Progress
<1>1. PICK r : r = response
  OBVIOUS
<1>2. r \in Seq(Unit) /\ DOMAIN r = 1..Len(r) /\ HoldsObject(r)
  BY <1>1, PlaceTypes DEF Going, Proper
<1>3. /\ UNCHANGED response
      /\ c_pc \in {"line", "skip", "headers", "counted", "rest", "size", "crlf", "trailer"}
  BY DEF read_response_line, SkipLine, ReadHeader, EndHeaders, ReadCounted, ReadRest, ReadSize,
         EndChunk, ReadTrailer, Reads
<1>4. PICK s, b \in DOMAIN r, q \in Nat : Place(r, s, b, q)
  BY <1>1, <1>3 DEF PlaceInv, Placed, HeadPcs, ContentPcs
<1>5. s \in 1..Len(r) /\ b \in 1..Len(r) /\ q \in Nat /\ q + 1 \in Nat
  BY <1>2, <1>4
<1>6. /\ \E p \in Nat : Place(r, s, b, p)'
      /\ c_pc' \in {"line", "skip", "headers"} \cup ContentPcs
  <2>1. CASE read_response_line(unit)
    BY <1>2, <1>4, <1>5, <2>1, LineReturns
  <2>2. CASE SkipLine(unit)
    BY <1>2, <1>4, <1>5, <2>2, SkipReturns
  <2>3. CASE ReadHeader(unit)
    BY <1>2, <1>4, <1>5, <2>3, HeaderReturns
  <2>4. CASE EndHeaders(unit)
    BY <1>2, <1>4, <1>5, <2>4, BlankReturns
  <2>5. CASE ReadCounted(unit)
    BY <1>2, <1>4, <1>5, <2>5, CountedReturns
  <2>6. CASE ReadRest(unit)
    BY <1>2, <1>4, <1>5, <2>6, RestReturns
  <2>7. CASE ReadSize(unit)
    BY <1>2, <1>4, <1>5, <2>7, SizeReturns
  <2>8. CASE EndChunk(unit) \/ ReadTrailer(unit)
    BY <1>2, <1>4, <1>5, <2>8, LineEndReturns
  <2> QED
    BY <2>1, <2>2, <2>3, <2>4, <2>5, <2>6, <2>7, <2>8
<1>7. Placed'
  BY <1>1, <1>3, <1>4, <1>6, Proceeds
<1> QED
  BY <1>6, <1>7 DEF Progress, HeadPcs

\* Where the client reads nothing, its place stays.
LEMMA PlaceStays ==
  ASSUME Placed, UNCHANGED <<c_pc, status, headers, body, length, script, wire, response>>
  PROVE  Placed'
<1>1. PICK r : r = response
  OBVIOUS
<1>2. PICK s, b \in DOMAIN r, q \in Nat : Place(r, s, b, q)
  BY <1>1 DEF Placed
<1>3. SentCount' = SentCount
  BY DEF SentCount
<1>4. Reader(r, s, b, q)'
  BY <1>2 DEF Place, Reader, InHead, InHeaders, InContent
<1>5. Place(r, s, b, q)'
  BY <1>2, <1>3, <1>4 DEF Place
<1> QED
  BY <1>1, <1>2, <1>5, Proceeds

\* So it does before it reads.
LEMMA HeadStays ==
  ASSUME PostInv, Placed, Quiet, c_pc \in {"off", "connect", "write"},
         c_pc' \in {"connect", "write", "line"}
  PROVE  Progress
<1>1. PICK r : r = response
  OBVIOUS
<1>2. PICK s, b \in DOMAIN r, q \in Nat : Place(r, s, b, q)
  BY <1>1 DEF Placed
<1>3. /\ SentCount' = SentCount
      /\ UNCHANGED <<status, headers, body, length, script, wire, response>>
  BY DEF SentCount, Quiet
<1>4. q = 1 /\ headers' = {} /\ HasHead(r, s, b)
  BY <1>2, <1>3 DEF Place, Reader, InHead, HeadPcs, Framed
<1>5. s \in 1..Len(r)
  BY <1>1, <1>2, PlaceTypes
<1>6. 1 \in 1..s
  BY <1>5
<1>7. Reader(r, s, b, q)'
  BY <1>4, <1>6 DEF Reader, HeadPcs, ContentPcs, InHead
<1>8. Place(r, s, b, q)'
  BY <1>2, <1>3, <1>7 DEF Place
<1>9. Placed'
  BY <1>1, <1>2, <1>3, <1>8, Proceeds
<1> QED
  BY <1>9 DEF Progress, HeadPcs

\* All of the response was read if nothing is on its way and nothing to be sent.
LEMMA NothingLeft ==
  ASSUME PostInv, OriginInv, NEW r, r = response, NEW s, NEW b, NEW q, Place(r, s, b, q),
         wire = <<>>, script = <<>>
  PROVE  q = Len(r) + 1
<1>1. SentCount = Len(r)
  <2>1. Len(response) \in Nat /\ Len(script) = 0
    BY PlaceTypes
  <2> QED
    BY <2>1 DEF SentCount
<1>2. WireOf(<<>>, r, q, SentCount + 1)
  BY DEF Place
<1> QED
  BY <1>1, <1>2, WireEmpty

\* The recogniser cannot have closed too early for a read, but it can for the last.
LEMMA NeverTooLittle ==
  ASSUME PostInv, OriginInv, PlaceInv, Going, ReadsTooLittle
  PROVE  FALSE
<1>1. /\ c_pc \in {"line", "skip", "headers", "counted", "size", "crlf", "trailer"}
      /\ wire = <<>> /\ peer = "closed"
  BY DEF ReadsTooLittle, ReadsEnd, Reading
<1>2. script = <<>>
  BY <1>1 DEF Going
<1>3. PICK r : r = response
  OBVIOUS
<1>4. PICK s, b \in DOMAIN r, q \in Nat : Place(r, s, b, q)
  BY <1>1, <1>3 DEF PlaceInv, Placed, HeadPcs, ContentPcs
<1>5. /\ q = Len(r) + 1 /\ Len(r) \in Nat
      /\ s \in 1..Len(r) /\ b \in 1..Len(r)
  <2>1. r \in Seq(Unit) /\ DOMAIN r = 1..Len(r)
    BY <1>3, PlaceTypes
  <2>2. Len(r) \in Nat
    BY <2>1
  <2> QED
    BY <1>1, <1>2, <1>3, <1>4, <2>1, <2>2, NothingLeft
<1>6. CASE c_pc \in {"line", "skip"}
  <2>1. q \in 1..s
    BY <1>4, <1>5, <1>6 DEF Place, Reader, HeadPcs, InHead
  <2> QED
    BY <1>5, <2>1
<1>7. CASE c_pc = "headers"
  <2>1. q \in s + 1..b
    BY <1>4, <1>7 DEF Place, Reader, InHeaders
  <2> QED
    BY <1>5, <2>1
<1>8. CASE c_pc \in {"counted", "size", "crlf", "trailer"}
  <2>1. InContent(r, s, b, q) /\ length \in Nat
    BY <1>4, <1>8 DEF Place, Reader, ContentPcs, PostInv, ReadInv
  <2>2. \A k \in ChunksAfter(r, b) : k \in Nat /\ k <= Len(r)
    BY <1>5 DEF ChunksAfter
  <2>3. CASE c_pc = "counted"
    <3>1. length > 0
      BY <2>1, <2>3 DEF InContent
    <3>2. CASE Chunked(r, s, b)
      <4>1. q + length + 1 \in ChunksAfter(r, b)
        BY <2>1, <2>3, <3>2 DEF InContent, ChunkLeft
      <4>2. q + length + 1 <= Len(r)
        BY <2>2, <4>1
      <4> QED
        BY <1>5, <2>1, <4>2
    <3>3. CASE ~ Chunked(r, s, b)
      <4>1. q + length = Len(r) + 1
        BY <2>1, <2>3, <3>3 DEF InContent
      <4> QED
        BY <1>5, <2>1, <3>1, <4>1
    <3> QED
      BY <3>2, <3>3
  <2>4. CASE c_pc = "size"
    <3>1. q <= Len(r)
      BY <2>1, <2>2, <2>4 DEF InContent
    <3> QED
      BY <1>5, <3>1
  <2>5. CASE c_pc = "crlf"
    <3>1. q + 1 <= Len(r)
      BY <2>1, <2>2, <2>5 DEF InContent
    <3> QED
      BY <1>5, <3>1
  <2>6. CASE c_pc = "trailer"
    <3>1. q = Len(r)
      BY <2>1, <2>6 DEF InContent
    <3> QED
      BY <1>5, <3>1
  <2> QED
    BY <1>8, <2>3, <2>4, <2>5, <2>6
<1> QED
  BY <1>1, <1>6, <1>7, <1>8

\* Where it can, it closes when the content is read.
LEMMA RestEnds ==
  ASSUME PostInv, OriginInv, PlaceInv, Going, EndRest
  PROVE  Progress
<1>1. /\ c_pc = "rest" /\ wire = <<>> /\ peer = "closed" /\ c_pc' = "done"
      /\ UNCHANGED <<status, headers, body, length, script, wire, response>>
  BY DEF EndRest, ReadsEnd, res, remote
<1>2. script = <<>>
  BY <1>1 DEF Going
<1>3. PICK r : r = response
  OBVIOUS
<1>4. PICK s, b \in DOMAIN r, q \in Nat : Place(r, s, b, q)
  BY <1>1, <1>3 DEF PlaceInv, Placed, HeadPcs, ContentPcs
<1>5. q = Len(r) + 1 /\ SentCount' = SentCount
  BY <1>1, <1>2, <1>3, <1>4, NothingLeft DEF SentCount
<1>6. /\ status = 200 /\ headers = HeadersTo(r, s, b) /\ q \in b + 1..Len(r) + 1
      /\ Framed(r, s, b) /\ BodyOf(body, r, q) /\ WireOf(wire, r, q, SentCount + 1)
  BY <1>1, <1>4 DEF Place, Reader, ContentPcs, InContent
<1>7. c_pc' \in ContentPcs /\ InContent(r, s, b, q)'
  BY <1>1, <1>5, <1>6 DEF InContent, ContentPcs
<1>8. Place(r, s, b, q)'
  BY <1>1, <1>5, <1>6, <1>7, ContentStep
<1>9. Placed'
  BY <1>1, <1>3, <1>4, <1>8, Proceeds
<1> QED
  BY <1>7, <1>9 DEF Progress

\* What the recogniser sends is the next unit of the response.
LEMMA SendReturns ==
  ASSUME PostInv, OriginInv, Placed, Send \/ Drip
  PROVE  Placed'
<1>1. PICK r : r = response
  OBVIOUS
<1>2. PICK s, b \in DOMAIN r, q \in Nat : Place(r, s, b, q)
  BY <1>1 DEF Placed
<1>3. /\ script # <<>> /\ wire' = Append(wire, Head(script))
      /\ UNCHANGED <<c_pc, status, headers, body, length, response>>
  BY DEF Send, Drip, res
<1>4. r \in Seq(Unit) /\ script \in Seq(Unit) /\ wire \in Seq(Unit) /\ SentCount \in Nat
  BY <1>1, PlaceTypes DEF PostInv, ReadInv, OriginInv
<1>5. PICK e : e = SentCount + 1
  OBVIOUS
<1>6. e \in 1..Len(r) /\ Head(script) = r[e] /\ e \in Nat
  <2>1. Len(script) > 0 /\ Len(script) \in Nat /\ Head(script) = script[1] /\ 1 \in 1..Len(script)
    BY <1>3, <1>4
  <2>2. script[1] = response[SentCount + 1]
    BY <2>1 DEF OriginInv
  <2>3. Len(r) \in Nat /\ SentCount = Len(r) - Len(script)
    BY <1>1, <1>4 DEF SentCount
  <2> QED
    BY <1>1, <1>4, <1>5, <2>1, <2>2, <2>3
<1>7. r[e] \in Unit
  BY <1>4, <1>6, ElementType
<1>8. WireOf(wire, r, q, e) /\ Framed(r, s, b) /\ BodyOf(body, r, q)
  BY <1>2, <1>5 DEF Place
<1>9. PICK f \in Nat : f = SentCount' + 1 /\ (f = e + 1 \/ (f = e /\ r[e][1] = "plain"))
  <2>1. CASE Send
    <3>1. script' = Tail(script) /\ Len(script') = Len(script) - 1
      BY <1>3, <1>4, <2>1 DEF Send
    <3>2. SentCount' = SentCount + 1
      BY <1>1, <1>3, <1>4, <3>1 DEF SentCount
    <3> QED
      BY <1>4, <1>5, <3>2
  <2>2. CASE Drip
    <3>1. script' = script /\ Head(script)[1] = "plain"
      BY <2>2 DEF Drip
    <3>2. SentCount' = SentCount
      BY <1>3, <3>1 DEF SentCount
    <3> QED
      BY <1>4, <1>5, <1>6, <3>1, <3>2
  <2> QED
    BY <2>1, <2>2
<1>10. WireOf(wire', r, q, f)
  <2>1. WireOf(Append(wire, r[e]), r, q, f)
    BY <1>4, <1>6, <1>7, <1>8, <1>9, WireSent
  <2> QED
    BY <1>3, <1>6, <2>1
<1>11. Reader(r, s, b, q)'
  BY <1>2, <1>3 DEF Place, Reader, InHead, InHeaders, InContent
<1>12. Place(r, s, b, q)'
  <2>1. WireOf(wire', r, q, SentCount' + 1)
    BY <1>9, <1>10
  <2>2. BodyOf(body', r, q)
    BY <1>3, <1>8
  <2> QED
    BY <1>8, <1>11, <2>1, <2>2 DEF Place
<1> QED
  BY <1>1, <1>2, <1>3, <1>12, Proceeds

\* At the end of the content the reader finds the object.
LEMMA DoneReturns ==
  ASSUME PostInv, OriginInv, PlaceInv, Going, c_pc = "done"
  PROVE  status = 200 /\ Parses
<1>1. PICK r : r = response
  OBVIOUS
<1>2. PICK s, b \in DOMAIN r, q \in Nat : Place(r, s, b, q)
  BY <1>1 DEF PlaceInv, Placed, ContentPcs
<1>3. status = 200 /\ q = Len(r) + 1 /\ BodyOf(body, r, q)
  BY <1>2 DEF Place, Reader, ContentPcs, InContent
<1>4. r \in Seq(Unit) /\ HoldsObject(r) /\ body \in Seq(Unit)
  BY <1>1, PlaceTypes DEF Going, Proper, PostInv, ReadInv
<1>5. Len(body) >= Pieces /\ \A k \in 1..Pieces : body[k] = <<"piece", k>>
  BY <1>3, <1>4, BodyWhole
<1> QED
  BY <1>3, <1>5 DEF Parses

\* A failure is not forgotten, and a response that was cut off stays so.
LEMMA GoingBefore ==
  ASSUME [Next]_all, Going'
  PROVE  Going
<1>1. /\ UNCHANGED response
      /\ failed' = failed \/ failed' = TRUE
      /\ killed' = killed \/ killed' = TRUE
      /\ \/ UNCHANGED <<script, peer>>
         \/ UNCHANGED script /\ peer = "closed" /\ peer' = "gone"
         \/ peer = "open"
  <2>1. CASE Client /\ OfCall
    <3>1. CASE Write
      BY <3>1 DEF Write
    <3>2. CASE \E unit \in {wire[k] : k \in DOMAIN wire \cap {1}} :
                 \/ read_response_line(unit) \/ SkipLine(unit) \/ ReadHeader(unit)
                 \/ EndHeaders(unit) \/ ReadCounted(unit) \/ ReadRest(unit)
                 \/ ReadSize(unit) \/ EndChunk(unit) \/ ReadTrailer(unit)
      BY <3>2 DEF read_response_line, SkipLine, ReadHeader, EndHeaders, ReadCounted, ReadRest,
                  ReadSize, EndChunk, ReadTrailer, Reads
    <3>3. CASE \/ Connect \/ WriteFails \/ WriteSignals \/ Written
               \/ ReadFails \/ ReadsTooLittle \/ EndRest \/ Respond \/ Finish \/ Destroy
      BY <3>3 DEF Connect, WriteFails, WriteSignals, Written, ReadFails, ReadsTooLittle, EndRest,
                  Respond, Finish, Destroy, remote
    <3> QED
      BY <2>1, <3>1, <3>2, <3>3 DEF Client
  <2>2. CASE (Recogniser \/ Others) /\ OfCall
    BY <2>2 DEF Recogniser, Others, Send, Drip, Close, OthersOpen, OthersClose, remote
  <2>3. CASE Encode \/ Answer
    BY <2>3 DEF Encode, Answer, remote
  <2>4. CASE UNCHANGED vars
    BY <2>4 DEF vars, remote
  <2>5. ASSUME NEW idx \in Characters,
               ReadSymbol(idx) \/ ReadStop(idx) \/ ReadPadding(idx)
        PROVE  UNCHANGED vars
    BY <2>5 DEF ReadSymbol, ReadStop, ReadPadding, DecodeStep
  <2>6. CASE ReadEnd \/ DecodeTail \/ Over \/ UNCHANGED all
    <3>1. UNCHANGED vars
      BY <2>6 DEF ReadEnd, DecodeTail, DecodeStep, Over, all
    <3> QED
      BY <2>4, <3>1
  <2> QED
    BY <2>1, <2>2, <2>3, <2>4, <2>5, <2>6 DEF Next
<1> QED
  BY <1>1 DEF Going

\* A step of the client that reads no unit.
LEMMA ClientReturns ==
  ASSUME PostInv, OriginInv, ReturnInv, Going, Going', UNCHANGED <<answer, rt, thrown>>,
         \/ Connect \/ Write \/ WriteFails \/ WriteSignals \/ Written
         \/ ReadFails \/ ReadsTooLittle \/ EndRest \/ Respond \/ Finish \/ Destroy
  PROVE  ReturnKept
<1>1. PlaceInv /\ AnswerInv /\ EndInv
  BY DEF ReturnInv
<1>2. CASE Connect \/ Write \/ Written
  <2>1. /\ Quiet /\ c_pc \in {"connect", "write"}
        /\ c_pc' \in {"write", "line"} \/ failed'
    BY <1>2 DEF Connect, Write, Written, At, Quiet, res, remote
  <2>2. c_pc' \in {"connect", "write", "line"}
    BY <2>1 DEF Going
  <2>3. Placed
    BY <1>1, <2>1 DEF PlaceInv, HeadPcs
  <2> QED
    BY <2>1, <2>2, <2>3, HeadStays, ProgressKeeps
<1>3. CASE WriteFails \/ WriteSignals \/ ReadFails
  BY <1>3 DEF WriteFails, WriteSignals, ReadFails, Going
<1>4. CASE ReadsTooLittle
  BY <1>1, <1>4, NeverTooLittle
<1>5. CASE EndRest
  BY <1>1, <1>5, RestEnds, ProgressKeeps
<1>6. CASE Respond
  <2>1. c_pc = "done" /\ c_pc' = "finish" /\ ret' = TRUE /\ UNCHANGED <<status, body>>
    BY <1>6 DEF Respond, At, res
  <2>2. status = 200 /\ Parses
    BY <1>1, <2>1, DoneReturns
  <2>3. status' = 200 /\ Parses'
    BY <2>1, <2>2 DEF Parses
  <2> QED
    BY <2>1, <2>3 DEF ReturnKept, PlaceInv, AnswerInv, EndInv, HeadPcs, ContentPcs
<1>7. CASE Finish
  <2>1. c_pc = "finish" /\ c_pc' = "answer" /\ UNCHANGED <<ret, status, body>>
    BY <1>7 DEF Finish, At, res
  <2>2. ret /\ status = 200 /\ Parses
    BY <1>1, <2>1 DEF AnswerInv
  <2>3. ret' /\ status' = 200 /\ Parses'
    BY <2>1, <2>2 DEF Parses
  <2> QED
    BY <2>1, <2>3 DEF ReturnKept, PlaceInv, AnswerInv, EndInv, HeadPcs, ContentPcs
<1>8. CASE Destroy
  <2>1. c_pc = "destroy" /\ c_pc' = "over"
    BY <1>8 DEF Destroy, At
  <2>2. Returns'
    BY <1>1, <2>1 DEF EndInv, Returns
  <2> QED
    BY <2>1, <2>2 DEF ReturnKept, PlaceInv, AnswerInv, EndInv, HeadPcs, ContentPcs
<1> QED
  BY <1>2, <1>3, <1>4, <1>5, <1>6, <1>7, <1>8

\* Where the client does nothing, or its thread is elsewhere, what holds stays.
LEMMA ElsewhereReturns ==
  ASSUME PostInv, OriginInv, ReturnInv, Going, UNCHANGED <<c_pc, ret, answer, rt, thrown>>,
         UNCHANGED <<status, headers, body, length, response>>,
         Send \/ Drip \/ UNCHANGED <<script, wire>>
  PROVE  ReturnKept
<1>1. PlaceInv /\ AnswerInv /\ EndInv
  BY DEF ReturnInv
<1>2. CASE c_pc \in HeadPcs \cup {"headers"} \cup ContentPcs
  <2>1. Placed
    BY <1>1, <1>2 DEF PlaceInv
  <2>2. Placed'
    BY <2>1, SendReturns, PlaceStays
  <2> QED
    BY <1>2, <2>2, ProgressKeeps DEF Progress
<1>3. CASE c_pc \notin HeadPcs \cup {"headers"} \cup ContentPcs
  <2>1. PlaceInv'
    BY <1>3 DEF PlaceInv
  <2>2. AnswerInv'
    BY <1>1 DEF AnswerInv, Parses
  <2>3. EndInv'
    BY <1>1 DEF EndInv, Returns
  <2> QED
    BY <2>1, <2>2, <2>3 DEF ReturnKept
<1> QED
  BY <1>2, <1>3

\* The request is made, or the answer is used.
LEMMA CallReturns ==
  ASSUME PostInv, ReturnInv, Going, Encode \/ Answer
  PROVE  ReturnKept
<1>1. PlaceInv /\ AnswerInv
  BY DEF ReturnInv
<1>2. CASE Encode
  <2>1. Quiet /\ c_pc = "off" /\ c_pc' = "connect"
    BY <1>2 DEF Encode, At, Quiet, res, remote
  <2>2. Placed
    BY <1>1, <2>1 DEF PlaceInv, HeadPcs
  <2> QED
    BY <2>1, <2>2, HeadStays, ProgressKeeps
<1>3. CASE Answer
  <2>1. /\ c_pc = "answer" /\ c_pc' = "destroy" /\ answer' = answer
        /\ rt' = IF ret /\ status = 200 THEN Parsed ELSE ""
        /\ thrown' = (ret /\ status = 200 /\ Parses /\ answer = "value")
    BY <1>3 DEF Answer, At
  <2>2. ret /\ status = 200 /\ Parses
    BY <1>1, <2>1 DEF AnswerInv
  <2>3. rt' = (IF answer = "text" THEN "text" ELSE "") /\ (answer = "value" => thrown')
    <3>1. rt' = Parsed /\ (answer = "value" => thrown')
      BY <2>1, <2>2
    <3> QED
      BY <2>2, <3>1 DEF Parsed
  <2>4. Returns'
    BY <2>1, <2>3 DEF Returns
  <2> QED
    BY <2>1, <2>4 DEF ReturnKept, PlaceInv, AnswerInv, EndInv, HeadPcs, ContentPcs
<1> QED
  BY <1>2, <1>3

\* Every step keeps the place of the client in the response.
LEMMA ReturnStep == PostInv /\ OriginInv /\ ReturnInv /\ [Next]_all => ReturnInv'
<1> SUFFICES ASSUME PostInv, OriginInv, ReturnInv, [Next]_all
             PROVE  ReturnInv'
  OBVIOUS
<1>1. CASE ~ Going'
  BY <1>1 DEF ReturnInv, PlaceInv, AnswerInv, EndInv
<1>2. CASE Going'
  <2> SUFFICES ReturnKept
    BY DEF ReturnKept, ReturnInv
  <2>1. Going
    BY <1>2, GoingBefore
  <2>2. ASSUME NEW unit \in {wire[k] : k \in DOMAIN wire \cap {1}},
               \/ read_response_line(unit) \/ SkipLine(unit) \/ ReadHeader(unit)
               \/ EndHeaders(unit) \/ ReadCounted(unit) \/ ReadRest(unit)
               \/ ReadSize(unit) \/ EndChunk(unit) \/ ReadTrailer(unit)
        PROVE  ReturnKept
    <3>1. PlaceInv
      BY DEF ReturnInv
    <3> QED
      BY <2>1, <2>2, <3>1, UnitReturns, ProgressKeeps
  <2>3. CASE Client /\ OfCall
    <3>1. UNCHANGED <<answer, rt, thrown>>
      BY <2>3 DEF OfCall, recognised
    <3> QED
      BY <1>2, <2>1, <2>2, <2>3, <3>1, ClientReturns DEF Client
  <2>4. CASE (Recogniser \/ Others) /\ OfCall
    <3>1. /\ UNCHANGED <<c_pc, ret, answer, rt, thrown>>
          /\ UNCHANGED <<status, headers, body, length, response>>
          /\ Send \/ Drip \/ UNCHANGED <<script, wire>>
      BY <2>4 DEF Recogniser, Others, Send, Drip, Close, OthersOpen, OthersClose, remote, res,
                  OfCall, recognised
    <3> QED
      BY <2>1, <3>1, ElsewhereReturns
  <2>5. CASE Encode \/ Answer
    BY <2>1, <2>5, CallReturns
  <2>6. CASE UNCHANGED <<vars, recognised>>
    <3>1. /\ UNCHANGED <<c_pc, ret, answer, rt, thrown>>
          /\ UNCHANGED <<status, headers, body, length, response>>
          /\ UNCHANGED <<script, wire>>
      BY <2>6 DEF vars, remote, res, recognised
    <3> QED
      BY <2>1, <3>1, ElsewhereReturns
  <2>7. ASSUME NEW idx \in Characters,
               ReadSymbol(idx) \/ ReadStop(idx) \/ ReadPadding(idx)
        PROVE  UNCHANGED <<vars, recognised>>
    BY <2>7 DEF ReadSymbol, ReadStop, ReadPadding, DecodeStep
  <2>8. CASE ReadEnd \/ DecodeTail \/ Over \/ UNCHANGED all
    <3>1. UNCHANGED <<vars, recognised>>
      BY <2>8 DEF ReadEnd, DecodeTail, DecodeStep, Over, all
    <3> QED
      BY <2>6, <3>1
  <2> QED
    BY <2>3, <2>4, <2>5, <2>6, <2>7, <2>8 DEF Next
<1> QED
  BY <1>1, <1>2

\* At first the client is before the head, and nothing is sent.
LEMMA InitReturns == Init => ReturnInv
<1> SUFFICES ASSUME Init
             PROVE  ReturnInv
  OBVIOUS
<1>1. /\ c_pc = "off" /\ headers = {} /\ body = <<>> /\ wire = <<>> /\ script = response
      /\ response \in Responses
  BY DEF Init, InitAt
<1>2. response \in Seq(Unit) /\ DOMAIN response = 1..Len(response)
  BY <1>1, ConstantTypes
<1>3. ASSUME Going
      PROVE  Placed
  <2>1. PICK r : r = response
    OBVIOUS
  <2>2. PICK s, b \in DOMAIN r : Framed(r, s, b)
    BY <1>3, <2>1 DEF Going, Proper
  <2>3. BodyOf(body, r, 1)
    BY <1>1, <1>2, <1>3, <2>1, BodyStart DEF Going, Proper
  <2>4. SentCount + 1 = 1
    BY <1>1, <1>2 DEF SentCount
  <2>5. WireOf(wire, r, 1, SentCount + 1)
    <3>1. PICK w : w = wire
      OBVIOUS
    <3>2. Len(w) + 1 = 1 /\ 1..Len(w) = {}
      BY <1>1, <3>1
    <3>3. PICK next : next = [j \in 1..1 |-> 1]
      OBVIOUS
    <3>4. next \in [1..1 -> Nat] /\ next[1] = 1
      BY <3>3
    <3>5. /\ next \in [1..Len(w) + 1 -> Nat] /\ next[1] = 1 /\ next[Len(w) + 1] = SentCount + 1
          /\ \A j \in 1..Len(w) : Linked(w, r, next, j)
      BY <2>4, <3>2, <3>4
    <3>6. WireOf(w, r, 1, SentCount + 1)
      BY <3>5, Zenon DEF WireOf
    <3> QED
      BY <3>1, <3>6
  <2>6. Reader(r, s, b, 1)
    BY <1>1 DEF Reader, InHead, ContentPcs
  <2>7. Place(r, s, b, 1) /\ 1 \in Nat
    BY <2>2, <2>3, <2>5, <2>6 DEF Place
  <2> QED
    BY <2>1, <2>2, <2>7, Zenon DEF Placed
<1> QED
  BY <1>1, <1>3 DEF ReturnInv, PlaceInv, AnswerInv, EndInv

\* A response that keeps to the protocol, in any of its forms and with as many interim
\* responses, headers and chunks as it likes, is returned, unless a call fails or the
\* recogniser closes before it has sent all of it: no unit is lost, read twice or taken
\* for another, wherever the client is when it comes.
THEOREM WholeIsReturned == FairSpec => []WholeAnswersReturned
<1>1. PostInv /\ ReturnInv => WholeAnswersReturned
  <2> SUFFICES ASSUME PostInv, ReturnInv, Ended, Proper(response), ~ failed,
                      script = <<>> \/ peer = "open"
               PROVE  Returns
    BY DEF WholeAnswersReturned, Returns
  <2>1. Going /\ c_pc = "over"
    BY DEF Going, Ended
  <2> QED
    BY <2>1 DEF ReturnInv, EndInv
<1>2. PostInv /\ WholeInv /\ ReturnInv /\ [Next]_all => ReturnInv'
  BY ReturnStep DEF WholeInv
<1> QED
  BY <1>1, <1>2, InitReturns, PostInvariance, WholeInvariance, PTL DEF FairSpec
=============================================================================
