-------------------------------- MODULE Httptest -------------------------------
(***************************************************************************)
(* The HTTP test of src/src/httptest.rs, which main does not spawn for     *)
(* now: it fetches a page over and over.                                   *)
(*                                                                         *)
(* The executor is cooperative: while the task is polled nothing else      *)
(* runs, and the network stack makes no progress.  As the code uses the    *)
(* socket (external), a call that cannot go on waits, except that connect  *)
(* fails at once while the stack has no address.                           *)
(***************************************************************************)
EXTENDS Naturals

CONSTANT MaxChunks  \* bound: reads' worth of data in the socket

ASSUME HttptestAssumption == MaxChunks \in Nat \ {0}

VARIABLES
  task,     \* where http_stuff is
  polled,   \* whether it is being polled
  address,  \* whether the stack has an address
  peer,     \* the socket: "none", "open", "closed" by the server, "failed"
  chunks,   \* what of the answer has arrived and is not read
  room      \* whether tx_buffer has room for the request

socket == <<peer, chunks, room>>
vars == <<task, polled, address, socket>>

Init ==
  /\ task = "new" /\ polled = FALSE
  /\ address \in BOOLEAN
  /\ peer = "none" /\ chunks = 0 /\ room = TRUE

-----------------------------------------------------------------------------
(* The other tasks, and through net_task the network (external)            *)

AddressChanges ==
  /\ ~polled /\ address' = ~address
  /\ UNCHANGED <<task, polled, socket>>

ServerAnswers ==
  /\ ~polled
  /\ \/ /\ task = "connecting" /\ peer = "none" /\ peer' \in {"open", "failed"}
        /\ UNCHANGED <<chunks, room>>
     \/ /\ peer = "open" /\ task \notin {"new", "connecting"} /\ chunks < MaxChunks
        /\ chunks' = chunks + 1 /\ UNCHANGED <<peer, room>>
     \/ peer = "open" /\ peer' = "closed" /\ UNCHANGED <<chunks, room>>
     \/ peer \in {"open", "closed"} /\ peer' = "failed" /\ UNCHANGED <<chunks, room>>
     \/ ~room /\ room' = TRUE /\ UNCHANGED <<peer, chunks>>
  /\ UNCHANGED <<task, polled, address>>

\* set_timeout(10 s): no server keeps the task waiting.  Without it, the
\* mutant waits for a server that never answers.
WithoutTimeout == FALSE /\ UNCHANGED vars
Timeout ==
  /\ ~polled /\ chunks = 0
  /\ \/ task = "connecting" /\ peer = "none"
     \/ task = "read" /\ peer = "open"
  /\ peer' = "failed"
  /\ UNCHANGED <<task, polled, address, chunks, room>>

\* The task is polled when what it awaits is there.
Poll ==
  /\ ~polled /\ polled' = TRUE
  /\ (task = "connecting" => peer # "none")
  /\ (task = "write" => room \/ peer = "failed")
  /\ (task = "read" => chunks > 0 \/ peer # "open")
  /\ UNCHANGED <<task, address, socket>>

Others == AddressChanges \/ ServerAnswers \/ Timeout \/ Poll

-----------------------------------------------------------------------------
(* http_stuff                                                              *)

\* A new socket; connect waits for the server, or fails at once.
Connect ==
  /\ polled /\ task = "new"
  /\ peer' = "none" /\ chunks' = 0 /\ room' = TRUE
  /\ task' = IF address THEN "connecting" ELSE "continue"
  /\ polled' = ~address
  /\ UNCHANGED address

ConnectReturns ==
  /\ polled /\ task = "connecting"
  /\ task' = IF peer = "failed" THEN "continue" ELSE "write"
  /\ UNCHANGED <<polled, address, socket>>

\* The loop goes on without a pause; the socket is dropped.
ConnectFailed ==
  /\ polled /\ task = "continue"
  /\ task' = "new" /\ peer' = "none"
  /\ UNCHANGED <<polled, address, chunks, room>>

\* An error ends the inner loop; the task sleeps for 200 ms.  Many requests
\* that the server does not take fill tx_buffer.
Write ==
  /\ polled /\ task = "write" /\ (room \/ peer = "failed")
  /\ task' = IF peer = "failed" THEN "sleep" ELSE "read"
  /\ polled' = (task' = "read")
  /\ room' \in IF peer = "failed" THEN {room} ELSE BOOLEAN
  /\ UNCHANGED <<address, peer, chunks>>

WriteWaits ==
  /\ polled /\ task = "write" /\ ~room /\ peer # "failed"
  /\ polled' = FALSE
  /\ UNCHANGED <<task, address, socket>>

\* Data are printed, and panic if a character is cut in two; then the request
\* is sent again.
ReadData ==
  /\ polled /\ task = "read" /\ chunks > 0
  /\ task' \in {"write", "panicked"}
  /\ chunks' = chunks - 1
  /\ UNCHANGED <<polled, address, peer, room>>

\* The end of the answer, or an error; the mutant takes an end for data.
ReadEndless ==
  /\ polled /\ task = "read" /\ chunks = 0 /\ peer # "open"
  /\ task' = IF peer = "closed" THEN "write" ELSE "sleep"
  /\ polled' = (task' = "write")
  /\ UNCHANGED <<address, socket>>
ReadEnd ==
  /\ polled /\ task = "read" /\ chunks = 0 /\ peer # "open"
  /\ task' = "sleep" /\ polled' = FALSE
  /\ UNCHANGED <<address, socket>>

ReadWaits ==
  /\ polled /\ task = "read" /\ chunks = 0 /\ peer = "open"
  /\ polled' = FALSE
  /\ UNCHANGED <<task, address, socket>>

\* The sleep is over, and the socket is dropped with the round.
Again ==
  /\ polled /\ task = "sleep"
  /\ task' = "new" /\ peer' = "none" /\ chunks' = 0 /\ room' = TRUE
  /\ UNCHANGED <<polled, address>>

http_stuff ==
  \/ Connect \/ ConnectReturns \/ ConnectFailed \/ Write \/ WriteWaits
  \/ ReadData \/ ReadEnd \/ ReadWaits \/ Again

Next == Others \/ http_stuff

\* The executor polls the task, which runs till it waits; timers expire.
Fairness == WF_vars(http_stuff) /\ WF_vars(Poll) /\ WF_vars(Timeout)

Spec == Init /\ [][Next]_vars /\ Fairness

-----------------------------------------------------------------------------
(* Properties                                                              *)

\* The task keeps the executor for itself for ever only if it cannot connect
\* for want of an address: no answer of a server makes it spin.
Spinning == task \in {"new", "continue"} /\ ~address
LetsOthersRun == <>[](polled /\ task # "panicked") => <>[]Spinning

\* No silent server keeps it from the next try: it comes round again and
\* again, unless data keep coming, it panics on them, or the server keeps the
\* connection and takes no more requests.
Full == task = "write" /\ ~room
TriesAgain == []<>(task = "new" \/ chunks > 0 \/ Full) \/ <>(task = "panicked")
================================================================================
