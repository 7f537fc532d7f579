----------------------------- MODULE SessionLife -----------------------------
(***************************************************************************)
(* The life of a session as the server sees it: the thread that Start      *)
(* launched and detached, the decoding thread it may start, and what the   *)
(* two may do to the process.  Session implements it, and Server is made   *)
(* of as many of them as there are clients.                                *)
(***************************************************************************)
VARIABLES
  life, \* the two threads
  proc  \* the server process

\* "over" is a decoding thread that has returned.
Lives == [reader : {"running", "done"}, decoder : {"off", "running", "over"}]

Born == [reader |-> "running", decoder |-> "off"]

\* The steps of a session's threads, from a life to the next.
\* OnSpeechStart starts the decoding thread.
Starts(old, new) == old = Born /\ new = [Born EXCEPT !.decoder = "running"]

\* DecodeThreadFunc returns.
Returns(old, new) == old.decoder = "running" /\ new = [old EXCEPT !.decoder = "over"]

\* operator() returns and destroys the handler: there is no decoding thread, or
\* it has joined it.
Ends(old, new) ==
  /\ old.reader = "running"
  /\ old.decoder \in {"off", "over"}
  /\ new = [old EXCEPT !.reader = "done"]

\* A thread object that was not joined is destroyed, with the handler or when a
\* second start signal replaces it.
Terminates(old, new) ==
  /\ old.reader = "running" /\ old.decoder # "off"
  /\ new \in {old, [old EXCEPT !.reader = "done"]}

\* The decoding thread reads memory that moved, or its post raises SIGPIPE.
Dies(old, new) ==
  /\ old.reader = "running" /\ old.decoder = "running"
  /\ new \in {old, [old EXCEPT !.decoder = "over"]}

\* A step of the session's threads, with what becomes of the process.
StepsTo(old, new, fate) ==
  \/ fate = "up" /\ (Starts(old, new) \/ Returns(old, new) \/ Ends(old, new))
  \/ fate = "terminated" /\ Terminates(old, new)
  \/ fate \in {"fault", "killed"} /\ Dies(old, new)

Init == life = Born /\ proc = "up"

Next == proc = "up" /\ StepsTo(life, life', proc')

Spec == Init /\ [][Next]_<<life, proc>>
=============================================================================
