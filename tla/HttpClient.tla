----------------------------- MODULE HttpClient -----------------------------
(***************************************************************************)
(* One POST of class ClientImpl of httplib.h, as Httpaudio::post makes it: *)
(* a fresh client connects, writes the request, reads the response and is  *)
(* destroyed.  The recogniser at the other end of the connection, and the  *)
(* other threads of the process, which open sockets too, are around it.    *)
(*                                                                         *)
(* A response is a sequence of units: lines, and pieces of content.  A     *)
(* socket call that waits for nothing may time out, at any time.           *)
(***************************************************************************)
EXTENDS Integers, Sequences, FiniteSets

CONSTANTS
  Responses, \* what the recogniser may mean to send
  Sends,     \* calls of send that the request takes
  WireSize   \* bound: units that are on their way

\* A unit is a kind with a number: a status, a length, a chunk's size, the piece's place.
Unit == {"status", "continue", "length", "chunked", "bye", "gzip", "plain", "blank",
         "size", "crlf", "piece"} \X Nat

ASSUME HttpClientAssumption ==
  /\ Responses \subseteq Seq(Unit)
  /\ Sends \in Nat \ {0}
  /\ WireSize \in Nat \ {0}

VARIABLES
  c_pc,     \* where the thread of the post is
  unsent,   \* calls of send still to make
  socket_,  \* the client's descriptor, or INVALID_SOCKET
  number,   \* whose the descriptor's number is
  status, headers, body, \* *res
  length,   \* pieces of content still to read
  ret,      \* what process_request returned
  peer,     \* the recogniser's end of the connection
  script,   \* what it has still to send
  wire,     \* what it has sent and nobody has read
  response, \* history: what it meant to send
  failed,   \* history: a call of the client on its socket failed
  killed    \* the process got SIGPIPE

res    == <<status, headers, body, length>>
remote == <<peer, script, wire, response>>
vars   == <<c_pc, unsent, socket_, number, res, ret, remote, failed, killed>>
-----------------------------------------------------------------------------
InitAt(pc) ==
  /\ c_pc = pc /\ unsent = Sends
  /\ socket_ = "invalid" /\ number = "free"
  /\ status = 0 /\ headers = {} /\ body = <<>> /\ length = 0 /\ ret = FALSE
  /\ peer = "open" /\ response \in Responses /\ script = response /\ wire = <<>>
  /\ failed = FALSE /\ killed = FALSE

At(pc) == c_pc = pc /\ ~ killed

\* create_and_connect_socket.  A socket that cannot be connected is closed, and
\* is never the client's.
Connect ==
  /\ At("connect")
  /\ \/ /\ socket_' = "valid" /\ number' = "client"
        /\ c_pc' = "write"
        /\ UNCHANGED failed
     \/ /\ c_pc' = "answer"
        /\ failed' = TRUE
        /\ UNCHANGED <<socket_, number>>
  /\ UNCHANGED <<unsent, res, ret, remote, killed>>

\* write_data.  A send to a peer that has closed returns, and makes it reset the
\* connection; the next raises SIGPIPE, for CPPHTTPLIB_SEND_FLAGS is 0 and the
\* signal has its default action.
Write ==
  /\ At("write")
  /\ unsent > 0
  /\ peer \in {"open", "closed"}
  /\ unsent' = unsent - 1
  /\ peer' = IF peer = "closed" THEN "gone" ELSE peer
  /\ UNCHANGED <<c_pc, socket_, number, res, ret, script, wire, response, failed, killed>>

WriteFails ==
  /\ At("write")
  /\ unsent > 0
  /\ peer \in {"open", "reset"}
  /\ c_pc' = "finish" /\ failed' = TRUE
  /\ UNCHANGED <<unsent, socket_, number, res, ret, remote, killed>>

WriteSignals ==
  /\ At("write")
  /\ unsent > 0
  /\ peer = "gone"
  /\ killed' = TRUE
  /\ UNCHANGED <<c_pc, unsent, socket_, number, res, ret, remote, failed>>

Written ==
  /\ At("write")
  /\ unsent = 0
  /\ c_pc' = "line"
  /\ UNCHANGED <<unsent, socket_, number, res, ret, remote, failed, killed>>
-----------------------------------------------------------------------------
\* Where the thread reads.
Reading == {"line", "skip", "headers", "counted", "rest", "size", "crlf", "trailer"}

\* SocketStream::read returns a unit, 0 or -1.
Reads(unit) ==
  /\ ~ killed
  /\ wire # <<>> /\ unit = Head(wire)
  /\ wire' = Tail(wire)
  /\ UNCHANGED <<unsent, socket_, number, peer, script, response, failed, killed>>

ReadsEnd == ~ killed /\ wire = <<>> /\ peer = "closed"

\* A plausible bug: a call that timed out is made again.
ReadFailsAgain ==
  /\ c_pc \in Reading
  /\ ~ killed
  /\ wire = <<>> /\ peer # "closed"
  /\ failed' = TRUE
  /\ UNCHANGED <<c_pc, unsent, socket_, number, res, ret, remote, killed>>

\* The calls that read return FALSE.
ReadFails ==
  /\ c_pc \in Reading
  /\ ~ killed
  /\ wire = <<>> /\ peer # "closed"
  /\ c_pc' = "finish"
  /\ failed' = TRUE
  /\ UNCHANGED <<unsent, socket_, number, res, ret, remote, killed>>

\* The end of the stream fails all reads but one.
ReadsTooLittle ==
  /\ c_pc \in Reading \ {"rest"}
  /\ ReadsEnd
  /\ c_pc' = "finish"
  /\ UNCHANGED <<unsent, socket_, number, res, ret, remote, failed, killed>>

\* read_response_line: a 100 is skipped with the line after it.
read_response_line(unit) ==
  /\ c_pc = "line"
  /\ Reads(unit)
  /\ IF unit[1] = "status"
     THEN status' = unit[2] /\ c_pc' = IF unit[2] = 100 THEN "skip" ELSE "headers"
     ELSE c_pc' = "finish" /\ UNCHANGED status
  /\ UNCHANGED <<headers, body, length, ret>>

SkipLine(unit) ==
  /\ c_pc = "skip"
  /\ Reads(unit)
  /\ c_pc' = "line"
  /\ UNCHANGED <<res, ret>>

HeaderKinds == {"length", "chunked", "bye", "gzip", "plain"}

HasHeader(kind) == \E h \in headers : h[1] = kind

\* The Content-Length, of which there is one.
ContentLength == (CHOOSE h \in headers : h[1] = "length")[2]

\* read_headers, up to the blank line.
ReadHeader(unit) ==
  /\ c_pc = "headers"
  /\ unit \notin {<<"blank", 0>>, <<"crlf", 0>>}
  /\ Reads(unit)
  /\ headers' = IF unit[1] \in HeaderKinds THEN headers \cup {unit} ELSE headers
  /\ UNCHANGED <<c_pc, status, body, length, ret>>

\* read_content, with prepare_content_receiver: content without a compression is
\* read in the way its headers tell, none at a status 204.
ContentBy ==
  IF status = 204 THEN "done"
  ELSE IF HasHeader("gzip") THEN "finish"
  ELSE IF HasHeader("chunked") THEN "size"
  ELSE IF ~ HasHeader("length") THEN "rest"
  ELSE IF ContentLength > 0 THEN "counted" ELSE "done"

EndHeaders(unit) ==
  /\ c_pc = "headers"
  /\ unit \in {<<"blank", 0>>, <<"crlf", 0>>}
  /\ Reads(unit)
  /\ c_pc' = ContentBy
  /\ length' = IF ContentBy = "counted" THEN ContentLength ELSE 0
  /\ UNCHANGED <<status, headers, body, ret>>

\* A plausible bug: the line after a chunk is not read.
ReadCountedOnly(unit) ==
  /\ c_pc = "counted"
  /\ Reads(unit)
  /\ body' = Append(body, unit)
  /\ length' = length - 1
  /\ c_pc' = CASE length > 1                            -> "counted"
               [] length = 1 /\ HasHeader("chunked")   -> "size"
               [] length = 1 /\ ~ HasHeader("chunked") -> "done"
  /\ UNCHANGED <<status, headers, ret>>

\* read_content_with_length, for all of the content or for a chunk.
ReadCounted(unit) ==
  /\ c_pc = "counted"
  /\ Reads(unit)
  /\ body' = Append(body, unit)
  /\ length' = length - 1
  /\ c_pc' = CASE length > 1                            -> "counted"
               [] length = 1 /\ HasHeader("chunked")   -> "crlf"
               [] length = 1 /\ ~ HasHeader("chunked") -> "done"
  /\ UNCHANGED <<status, headers, ret>>

\* read_content_without_length
ReadRest(unit) ==
  /\ c_pc = "rest"
  /\ Reads(unit)
  /\ body' = Append(body, unit)
  /\ UNCHANGED <<c_pc, status, headers, length, ret>>

EndRest ==
  /\ c_pc = "rest"
  /\ ReadsEnd
  /\ c_pc' = "done"
  /\ UNCHANGED <<unsent, socket_, number, res, ret, remote, failed, killed>>

\* read_content_chunked: the size of a chunk, the line that ends it, and the one
\* after the last.  A line in the wrong place ends the content.
ReadSize(unit) ==
  /\ c_pc = "size"
  /\ Reads(unit)
  /\ length' = IF unit[1] = "size" THEN unit[2] ELSE 0
  /\ c_pc' = CASE unit[1] # "size"                  -> "finish"
               [] unit[1] = "size" /\ unit[2] = 0   -> "trailer"
               [] unit[1] = "size" /\ unit[2] > 0   -> "counted"
  /\ UNCHANGED <<status, headers, body, ret>>

EndChunk(unit) ==
  /\ c_pc = "crlf"
  /\ Reads(unit)
  /\ c_pc' = IF unit = <<"crlf", 0>> THEN "size" ELSE "done"
  /\ UNCHANGED <<res, ret>>

ReadTrailer(unit) ==
  /\ c_pc = "trailer"
  /\ Reads(unit)
  /\ c_pc' = IF unit = <<"crlf", 0>> THEN "done" ELSE "finish"
  /\ UNCHANGED <<res, ret>>
-----------------------------------------------------------------------------
\* Plausible bugs: the client keeps the number of the socket, or the socket.
close_socketKeeps ==
  /\ number' = IF socket_ = "valid" THEN "free" ELSE number
  /\ UNCHANGED socket_

close_socketForgets ==
  /\ socket_' = "invalid"
  /\ UNCHANGED number

\* shutdown_socket and close_socket
close_socket ==
  /\ number' = IF socket_ = "valid" THEN "free" ELSE number
  /\ socket_' = "invalid"

\* The end of process_request: "Connection: close" closes.
Respond ==
  /\ At("done")
  /\ ret' = TRUE
  /\ IF HasHeader("bye") THEN close_socket ELSE UNCHANGED <<socket_, number>>
  /\ c_pc' = "finish"
  /\ UNCHANGED <<unsent, res, remote, failed, killed>>

\* The end of send, which closes for want of keep_alive_.
Finish ==
  /\ At("finish")
  /\ close_socket
  /\ c_pc' = "answer"
  /\ UNCHANGED <<unsent, res, ret, remote, failed, killed>>

\* ~ClientImpl
Destroy ==
  /\ At("destroy")
  /\ close_socket
  /\ c_pc' = "over"
  /\ UNCHANGED <<unsent, res, ret, remote, failed, killed>>
-----------------------------------------------------------------------------
\* The recogniser sends the next unit of its response.
Send ==
  /\ peer = "open" /\ number = "client"
  /\ script # <<>> /\ Len(wire) < WireSize
  /\ wire' = Append(wire, Head(script))
  /\ script' = Tail(script)
  /\ UNCHANGED <<c_pc, unsent, socket_, number, res, ret, peer, response, failed, killed>>

\* It sends one more header before the next.
Drip ==
  /\ peer = "open" /\ number = "client"
  /\ script # <<>> /\ Head(script)[1] = "plain" /\ Len(wire) < WireSize
  /\ wire' = Append(wire, Head(script))
  /\ UNCHANGED <<c_pc, unsent, socket_, number, res, ret, peer, script, response, failed, killed>>

\* It closes the connection, or resets it, at any time: it may be restarted.
Close ==
  /\ peer = "open" /\ number = "client"
  /\ peer' \in {"closed", "reset"}
  /\ UNCHANGED <<c_pc, unsent, socket_, number, res, ret, script, wire, response, failed, killed>>

\* Another thread gets the number for a socket of its own, and closes that.
OthersOpen ==
  /\ number = "free" /\ c_pc \notin {"off", "connect"}
  /\ number' = "others"
  /\ UNCHANGED <<c_pc, unsent, socket_, res, ret, remote, failed, killed>>

OthersClose ==
  /\ number = "others"
  /\ number' = "free"
  /\ UNCHANGED <<c_pc, unsent, socket_, res, ret, remote, failed, killed>>

Recogniser == ~ killed /\ (Send \/ Drip \/ Close)

Others == ~ killed /\ (OthersOpen \/ OthersClose)

Client ==
  \/ Connect \/ Write \/ WriteFails \/ WriteSignals \/ Written
  \/ ReadFails \/ ReadsTooLittle \/ EndRest
  \/ \E unit \in {wire[k] : k \in DOMAIN wire \cap {1}} :
       \/ read_response_line(unit) \/ SkipLine(unit) \/ ReadHeader(unit) \/ EndHeaders(unit)
       \/ ReadCounted(unit) \/ ReadRest(unit)
       \/ ReadSize(unit) \/ EndChunk(unit) \/ ReadTrailer(unit)
  \/ Respond \/ Finish \/ Destroy
=============================================================================
