------------------------------- MODULE Ntptime -------------------------------
(***************************************************************************)
(* The NTP client of src/src/ntptime.rs: a DNS lookup, a loop that gets a  *)
(* first coarse measurement, four refinements, and a loop that only        *)
(* watches.  Each get_time call sends one request and reads one datagram   *)
(* from the socket, whichever request it answers; with_timeout drops a     *)
(* call that takes too long, but not the answer that is still under way.   *)
(*                                                                         *)
(* Time is counted in ticks from the latest request on.  Only the error of *)
(* the offset matters (offset minus true distance of the two clocks); it   *)
(* is kept in half ticks, since NTP halves a difference.  Neither clock    *)
(* drifts.                                                                 *)
(***************************************************************************)
EXTENDS Integers, Sequences

CONSTANTS
  TIMEOUT,      \* with_timeout(3 s), in ticks
  PROMPT,       \* how soon an answer is there and read while all is calm
  REFINEMENTS,  \* rounds of the second loop
  RX_SLOTS,     \* length of rx_meta
  MaxLate,      \* bound: late datagrams under way at a time
  None          \* Option::None; also a datagram that get_time refuses

ASSUME NtptimeAssumption ==
  /\ TIMEOUT \in Nat /\ PROMPT \in Nat /\ PROMPT < TIMEOUT
  /\ REFINEMENTS \in Nat \ {0}
  /\ RX_SLOTS \in Nat \ {0} /\ MaxLate \in Nat \ {0}
  /\ None \notin Int

VARIABLES
  phase,    \* which of the loops of time_stuff runs
  task,     \* "call", "answer" (inside get_time) or "sleep"
  round,    \* refinements tried
  error,    \* of ntp_context.timestamp_gen.offset; None before it is set
  public,   \* the same of PUBLIC_TIME; None while that is None
  elapsed,  \* ticks since the latest request
  rx,       \* the datagrams in the socket
  request,  \* the latest request is on its way to the server
  answer,   \* when the server saw it, while its answer is under way
  late,     \* datagrams under way that no call waits for any more
  calm      \* from here on the network is reliable, the task polled, in time

client  == <<phase, task, round, error, public>>
network == <<request, answer, late>>
vars    == <<client, elapsed, rx, network, calm>>

Init ==
  /\ phase = "dns" /\ task = "call" /\ round = 0
  /\ error = None /\ public = None
  /\ elapsed = 0 /\ rx = <<>>
  /\ request = FALSE /\ answer = None /\ late = 0
  /\ calm \in BOOLEAN

-----------------------------------------------------------------------------
(* time_stuff                                                              *)

\* dns_query finds the server, and the socket is bound.
Lookup ==
  /\ phase = "dns" /\ task = "call"
  /\ phase' = "coarse"
  /\ UNCHANGED <<task, round, error, public, elapsed, rx, network, calm>>

LookupFails ==
  /\ phase = "dns" /\ task = "call" /\ ~calm
  /\ task' = "sleep"
  /\ UNCHANGED <<phase, round, error, public, elapsed, rx, network, calm>>

\* Loop control of the refinements.
AllRounds == round = REFINEMENTS

\* Timer::after expires.
Wake ==
  /\ task = "sleep"
  /\ task' = "call"
  /\ phase' = IF phase = "refine" /\ AllRounds THEN "supervise" ELSE phase
  /\ UNCHANGED <<round, error, public, elapsed, rx, network, calm>>

\* The number of datagrams that nobody waits for once a request is sent.
Overtaken ==
  LET n == late + (IF request THEN 1 ELSE 0) + (IF answer # None THEN 1 ELSE 0)
  IN IF n < MaxLate THEN n ELSE MaxLate

\* get_time sends a request with a new originate timestamp: answers to older
\* ones no longer match it, also those in the socket already.
GetTime ==
  /\ task = "call" /\ phase # "dns"
  /\ task' = "answer"
  /\ elapsed' = 0
  /\ rx' = [i \in DOMAIN rx |-> None]
  /\ request' = TRUE /\ answer' = None /\ late' = Overtaken
  /\ UNCHANGED <<phase, round, error, public, calm>>

\* What a get_time call in phase p comes to.
Awaiting(p) == phase = p /\ task = "answer"
Measured(p) == Awaiting(p) /\ rx # <<>> /\ Head(rx) # None
Refused(p)  == Awaiting(p) /\ rx # <<>> /\ Head(rx) = None
TimedOut(p) == Awaiting(p) /\ rx = <<>> /\ elapsed = TIMEOUT

\* Mutant of CoarseOk: without the break.
CoarseOkNoBreak ==
  /\ Measured("coarse")
  /\ error' = 2 * (Head(rx) - elapsed)
  /\ task' = "call"
  /\ rx' = Tail(rx)
  /\ UNCHANGED <<phase, round, public, elapsed, network, calm>>

\* The server's time is taken for the present, though it is as old as the
\* way back was long.
CoarseOk ==
  /\ Measured("coarse")
  /\ error' = 2 * (Head(rx) - elapsed)
  /\ phase' = "refine" /\ task' = "sleep"
  /\ rx' = Tail(rx)
  /\ UNCHANGED <<round, public, elapsed, network, calm>>

\* Tried again without a pause.
CoarseFails ==
  /\ \/ Refused("coarse") /\ rx' = Tail(rx)
     \/ TimedOut("coarse") /\ UNCHANGED rx
  /\ task' = "call"
  /\ UNCHANGED <<phase, round, error, public, elapsed, network, calm>>

\* res.offset: half of what the way there was longer than the way back, less
\* the error that the local timestamps have already.
ResOffset == 2 * Head(rx) - elapsed - error

\* offset += or -= res.offset; the mutants lose the sign, or mix it up.
SignLost == error + (IF ResOffset > 0 THEN ResOffset ELSE -ResOffset)
SignMixed == IF ResOffset > 0 THEN error - ResOffset ELSE error + (-ResOffset)
Corrected == IF ResOffset > 0 THEN error + ResOffset ELSE error - (-ResOffset)

RefineOk ==
  /\ Measured("refine")
  /\ error' = Corrected /\ public' = error'
  /\ round' = round + 1 /\ task' = "sleep"
  /\ rx' = Tail(rx)
  /\ UNCHANGED <<phase, elapsed, network, calm>>

\* The offset is published all the same.
RefineFails ==
  /\ \/ Refused("refine") /\ rx' = Tail(rx)
     \/ TimedOut("refine") /\ UNCHANGED rx
  /\ public' = error
  /\ round' = round + 1 /\ task' = "sleep"
  /\ UNCHANGED <<phase, error, elapsed, network, calm>>

\* The result is only printed.
SuperviseOk ==
  /\ Measured("supervise")
  /\ task' = "sleep"
  /\ rx' = Tail(rx)
  /\ UNCHANGED <<phase, round, error, public, elapsed, network, calm>>

SuperviseTimeout ==
  /\ TimedOut("supervise")
  /\ task' = "sleep"
  /\ UNCHANGED <<phase, round, error, public, elapsed, rx, network, calm>>

\* Mutant of SuperviseError: keeps the socket, as the other loops do.
KeepSocket ==
  /\ Refused("supervise")
  /\ task' = "sleep"
  /\ rx' = Tail(rx)
  /\ UNCHANGED <<phase, round, error, public, elapsed, network, calm>>

\* The socket is replaced by one with another local port: nothing that is
\* under way to the old one arrives.
SuperviseError ==
  /\ Refused("supervise")
  /\ task' = "sleep"
  /\ rx' = <<>>
  /\ request' = FALSE /\ answer' = None /\ late' = 0
  /\ UNCHANGED <<phase, round, error, public, elapsed, calm>>

TimeStuff ==
  \/ Lookup \/ LookupFails \/ Wake \/ GetTime
  \/ CoarseOk \/ CoarseFails \/ RefineOk \/ RefineFails
  \/ SuperviseOk \/ SuperviseTimeout \/ SuperviseError

-----------------------------------------------------------------------------
(* The network, the server and the socket's buffer (external)              *)

\* A datagram that finds no free slot is dropped.
Received(d) == IF Len(rx) < RX_SLOTS THEN Append(rx, d) ELSE rx

Serve ==
  /\ request
  /\ request' = FALSE /\ answer' = elapsed
  /\ UNCHANGED <<client, elapsed, rx, late, calm>>

\* The server's answer is one that get_time refuses.
ServeBadly ==
  /\ ~calm /\ request /\ late < MaxLate
  /\ request' = FALSE /\ late' = late + 1
  /\ UNCHANGED <<client, elapsed, rx, answer, calm>>

Deliver ==
  /\ answer # None
  /\ rx' = Received(answer)
  /\ answer' = None
  /\ UNCHANGED <<client, elapsed, request, late, calm>>

\* The network duplicates the answer.  The second copy is not the first one
\* to be read, so it meets a later request.
DeliverTwice ==
  /\ ~calm /\ answer # None /\ late < MaxLate
  /\ rx' = Received(answer)
  /\ answer' = None /\ late' = late + 1
  /\ UNCHANGED <<client, elapsed, request, calm>>

DeliverLate ==
  /\ late > 0
  /\ rx' = Received(None)
  /\ late' = late - 1
  /\ UNCHANGED <<client, elapsed, request, answer, calm>>

Lose ==
  /\ ~calm
  /\ \/ request /\ request' = FALSE /\ UNCHANGED <<answer, late>>
     \/ answer # None /\ answer' = None /\ UNCHANGED <<request, late>>
     \/ late > 0 /\ late' = late - 1 /\ UNCHANGED <<request, answer>>
  /\ UNCHANGED <<client, elapsed, rx, calm>>

Calm ==
  /\ ~calm
  /\ calm' = TRUE
  /\ UNCHANGED <<client, elapsed, rx, network>>

\* Time passes while the task waits; it is polled by the end of its timeout.
Tick ==
  /\ task = "answer" /\ elapsed < TIMEOUT
  /\ calm /\ (request \/ answer # None \/ rx # <<>>) => elapsed < PROMPT
  /\ elapsed' = elapsed + 1
  /\ UNCHANGED <<client, rx, network, calm>>

Network ==
  \/ Serve \/ ServeBadly \/ Deliver \/ DeliverTwice \/ DeliverLate
  \/ Lose \/ Calm \/ Tick

Next == TimeStuff \/ Network

(***************************************************************************)
(* The executor polls the task, time passes, and what is not lost arrives. *)
(***************************************************************************)
Fairness ==
  /\ WF_vars(TimeStuff) /\ WF_vars(Tick)
  /\ WF_vars(Serve) /\ WF_vars(Deliver) /\ WF_vars(DeliverLate)

Spec == Init /\ [][Next]_vars /\ Fairness

-----------------------------------------------------------------------------
(* Properties                                                              *)

Datagram == (0..TIMEOUT) \union {None}

TypeOK ==
  /\ phase \in {"dns", "coarse", "refine", "supervise"}
  /\ task \in {"call", "answer", "sleep"}
  /\ round \in 0..REFINEMENTS
  /\ error \in Int \union {None} /\ public \in Int \union {None}
  /\ elapsed \in 0..TIMEOUT
  /\ rx \in Seq(Datagram) /\ Len(rx) <= RX_SLOTS
  /\ request \in BOOLEAN /\ answer \in Datagram /\ late \in 0..MaxLate
  /\ calm \in BOOLEAN

\* However late, lost, duplicated or out of order the answers are, the time
\* that the clock shows is never wrong by more than one timeout: an answer is
\* only used with the timestamps of the request that it belongs to.
TimeAccurate ==
  public # None => public \in -(2 * TIMEOUT)..TIMEOUT

\* Every refinement that gets an answer makes up for the error of the coarse
\* measurement and of all refinements before it: what is left is at most half
\* of that call's round trip.
RefinementCorrects ==
  [][phase = "refine" /\ error' # error => error' \in -elapsed..elapsed]_vars

\* PUBLIC_TIME is set once the first refinement is over, has never been
\* anything else than the measured offset, and follows each correction.
PublicFollows ==
  IF round = 0 THEN public = None ELSE error # None /\ public = error

\* If every answer comes within its timeout, the clock is set, and corrected
\* by every refinement.
PromptNetworkSyncs ==
  []calm => <>(phase = "supervise" /\ error \in -PROMPT..PROMPT)

\* A late answer left in the socket would make every later call read the
\* answer to the call before: once the network is calm, the last loop gets
\* rid of it.
LateAnswersCleared ==
  <>calm => <>[](phase = "supervise" =>
                   late = 0 /\ (task # "answer" => rx = <<>>))

\* "get first coarse measurement": once the network is calm, the first loop
\* ends.
CoarseMeasured == <>calm => <>(error # None)
=============================================================================
