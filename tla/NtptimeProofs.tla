---------------------------- MODULE NtptimeProofs ----------------------------
(***************************************************************************)
(* Proofs about Ntptime, for every timeout, number of refinements and size *)
(* of the socket's buffer, and however the network treats the datagrams.   *)
(***************************************************************************)
EXTENDS Ntptime, TLAPS

(***************************************************************************)
(* The inductive invariant.                                                *)
(***************************************************************************)

\* No answer to the latest request was given before the request was made or
\* after now.
FreshInv ==
  /\ answer # None => answer <= elapsed
  /\ \A i \in 1..Len(rx) : rx[i] # None => rx[i] <= elapsed

\* How far time_stuff has got, and what it knows by then.
LoopInv ==
  /\ phase \in {"dns", "coarse"} => error = None
  /\ phase \in {"refine", "supervise"} => error \in -(2 * TIMEOUT)..TIMEOUT
  /\ phase \in {"dns", "coarse"} => round = 0
  /\ phase = "refine" /\ task # "sleep" => round < REFINEMENTS

IInv == TypeOK /\ FreshInv /\ LoopInv /\ PublicFollows

(***************************************************************************)
(* Lemmas about the constants and the socket's buffer.                     *)
(***************************************************************************)

\* The constants as the arithmetic below needs them.
LEMMA ConstantFacts ==
  /\ None \notin Int
  /\ TIMEOUT \in Nat /\ REFINEMENTS \in Nat \ {0}
  /\ RX_SLOTS \in Nat /\ MaxLate \in Nat
  BY NtptimeAssumption

\* The datagram at the head of the socket's buffer, and the others.
LEMMA ReadFacts ==
  ASSUME IInv, rx # <<>>
  PROVE  /\ Tail(rx) \in Seq(Datagram) /\ Len(Tail(rx)) = Len(rx) - 1
         /\ \A i \in 1..Len(rx) - 1 : Tail(rx)[i] = rx[i + 1]
         /\ Head(rx) # None => Head(rx) \in 0..elapsed
         /\ Len(rx) \in Nat \ {0}
  <1>1. rx \in Seq(Datagram) /\ Len(rx) \in Nat \ {0}
    BY DEF IInv, TypeOK
  <1>2. rx[1] \in Datagram /\ Head(rx) = rx[1]
    BY <1>1
  <1>3. rx[1] # None => rx[1] \in 0..elapsed
    BY <1>1, <1>2, ConstantFacts DEF IInv, TypeOK, FreshInv, Datagram
  <1> QED
    BY <1>1, <1>2, <1>3

\* Reading it leaves a buffer of the same kind.
LEMMA TailKeeps ==
  ASSUME IInv, rx # <<>>, rx' = Tail(rx), elapsed' = elapsed, UNCHANGED network
  PROVE  /\ rx' \in Seq(Datagram) /\ Len(rx') <= RX_SLOTS
         /\ FreshInv'
  <1>1. rx' \in Seq(Datagram) /\ Len(rx') = Len(rx) - 1 /\ Len(rx) \in Nat \ {0}
    BY ReadFacts
  <1>2. Len(rx') <= RX_SLOTS
    BY <1>1, ConstantFacts DEF IInv, TypeOK
  <1>3. ASSUME NEW i \in 1..Len(rx'), rx'[i] # None
        PROVE  rx'[i] <= elapsed'
    <2>1. i \in 1..Len(rx) - 1 /\ i + 1 \in 1..Len(rx)
      BY <1>1
    <2>2. rx'[i] = rx[i + 1]
      BY <2>1, ReadFacts
    <2> QED
      BY <1>3, <2>1, <2>2 DEF IInv, FreshInv
  <1> QED
    BY <1>1, <1>2, <1>3 DEF FreshInv, network, IInv

\* So does another datagram, if it is not from the future.
LEMMA ReceivedFacts ==
  ASSUME IInv, NEW d \in Datagram, d # None => d <= elapsed
  PROVE  /\ Received(d) \in Seq(Datagram) /\ Len(Received(d)) <= RX_SLOTS
         /\ \A i \in 1..Len(Received(d)) : Received(d)[i] # None => Received(d)[i] <= elapsed
  <1>1. rx \in Seq(Datagram) /\ Len(rx) \in Nat
    BY DEF IInv, TypeOK
  <1>2. CASE Len(rx) < RX_SLOTS
    <2>1. Received(d) = Append(rx, d)
      BY <1>2 DEF Received
    <2>2. /\ Append(rx, d) \in Seq(Datagram) /\ Len(Append(rx, d)) = Len(rx) + 1
          /\ \A i \in 1..Len(rx) : Append(rx, d)[i] = rx[i]
          /\ Append(rx, d)[Len(rx) + 1] = d
      BY <1>1
    <2>3. ASSUME NEW i \in 1..Len(rx) + 1, Append(rx, d)[i] # None
          PROVE  Append(rx, d)[i] <= elapsed
      <3>1. CASE i = Len(rx) + 1
        BY <2>2, <2>3, <3>1
      <3>2. CASE i \in 1..Len(rx)
        BY <2>2, <2>3, <3>2 DEF IInv, FreshInv
      <3> QED
        BY <1>1, <3>1, <3>2
    <2> QED
      BY <1>1, <1>2, <2>1, <2>2, <2>3, ConstantFacts
  <1>3. CASE ~(Len(rx) < RX_SLOTS)
    BY <1>3 DEF Received, IInv, TypeOK, FreshInv
  <1> QED
    BY <1>2, <1>3

\* The new error is the asymmetry of this round trip alone.
LEMMA CorrectedFacts ==
  ASSUME IInv, Measured("refine")
  PROVE  Corrected \in -elapsed..elapsed /\ elapsed \in 0..TIMEOUT /\ error \in Int
  <1>1. Head(rx) \in 0..elapsed /\ elapsed \in 0..TIMEOUT
    BY ReadFacts DEF Measured, IInv, TypeOK
  <1>2. error \in Int
    BY ConstantFacts DEF Measured, Awaiting, IInv, LoopInv
  <1>3. Corrected = 2 * Head(rx) - elapsed
    BY <1>1, <1>2, ConstantFacts DEF Corrected, ResOffset
  <1> QED
    BY <1>1, <1>2, <1>3, ConstantFacts

\* At the start of time_stuff nothing is measured and nothing under way.
LEMMA InitIInv == Init => IInv
  <1> SUFFICES ASSUME Init PROVE IInv
    OBVIOUS
  <1>1. request \in BOOLEAN /\ calm \in BOOLEAN
    BY DEF Init
  <1>2. rx \in Seq(Datagram) /\ Len(rx) = 0
    BY DEF Init
  <1> QED
    BY <1>1, <1>2, ConstantFacts
    DEF Init, IInv, TypeOK, FreshInv, LoopInv, PublicFollows, Datagram

(***************************************************************************)
(* Every step of time_stuff, the network and the clock keeps the           *)
(* invariant: one step of the proof per action.                            *)
(***************************************************************************)
LEMMA StepIInv == IInv /\ [Next]_vars => IInv'
  <1> SUFFICES ASSUME IInv, [Next]_vars
               PROVE  IInv'
    OBVIOUS
  <1> USE ConstantFacts DEF client, network
  <1>1. CASE Lookup
    BY <1>1 DEF Lookup, IInv, TypeOK, FreshInv, LoopInv, PublicFollows
  <1>2. CASE LookupFails
    BY <1>2 DEF LookupFails, IInv, TypeOK, FreshInv, LoopInv, PublicFollows
  <1>3. CASE Wake
    <2>1. /\ UNCHANGED <<round, error, public, elapsed, rx, network, calm>>
          /\ task' = "call"
          /\ phase' = IF phase = "refine" /\ AllRounds THEN "supervise" ELSE phase
      BY <1>3 DEF Wake
    <2>2. TypeOK' /\ FreshInv'
      BY <2>1 DEF IInv, TypeOK, FreshInv
    <2>3. LoopInv' /\ PublicFollows'
      BY <2>1 DEF IInv, TypeOK, LoopInv, PublicFollows, AllRounds
    <2> QED
      BY <2>2, <2>3 DEF IInv
  <1>4. CASE GetTime
    <2>1. /\ UNCHANGED <<phase, round, error, public, calm>>
          /\ task' = "answer" /\ elapsed' = 0
          /\ rx' = [i \in DOMAIN rx |-> None]
          /\ request' = TRUE /\ answer' = None /\ late' = Overtaken
          /\ phase # "dns" /\ task = "call"
      BY <1>4 DEF GetTime
    <2>2. late' \in 0..MaxLate
      BY <2>1 DEF Overtaken, IInv, TypeOK
    <2>3. rx' \in Seq(Datagram) /\ Len(rx') = Len(rx) /\ \A i \in 1..Len(rx') : rx'[i] = None
      <3>1. rx \in Seq(Datagram) /\ DOMAIN rx = 1..Len(rx) /\ Len(rx) \in Nat
        BY DEF IInv, TypeOK
      <3>2. None \in Datagram
        BY DEF Datagram
      <3> QED
        BY <2>1, <3>1, <3>2
    <2>4. request' \in BOOLEAN
      BY <2>1
    <2>5. TypeOK'
      BY <2>1, <2>2, <2>3, <2>4 DEF IInv, TypeOK, Datagram
    <2>6. FreshInv' /\ LoopInv' /\ PublicFollows'
      BY <2>1, <2>3 DEF IInv, FreshInv, LoopInv, PublicFollows
    <2> QED
      BY <2>5, <2>6 DEF IInv
  <1>5. CASE CoarseOk
    <2>1. /\ UNCHANGED <<round, public, elapsed, network, calm>>
          /\ phase = "coarse" /\ rx # <<>> /\ Head(rx) # None
          /\ error' = 2 * (Head(rx) - elapsed)
          /\ phase' = "refine" /\ task' = "sleep" /\ rx' = Tail(rx)
      BY <1>5 DEF CoarseOk, Measured, Awaiting
    <2>2. Head(rx) \in 0..elapsed /\ elapsed \in 0..TIMEOUT
      BY <2>1, ReadFacts DEF IInv, TypeOK
    <2>3. error' \in -(2 * TIMEOUT)..TIMEOUT /\ error' \in Int
      BY <2>1, <2>2
    <2>4. rx' \in Seq(Datagram) /\ Len(rx') <= RX_SLOTS /\ FreshInv'
      BY <2>1, TailKeeps
    <2>5. TypeOK'
      BY <2>1, <2>3, <2>4 DEF IInv, TypeOK
    <2>6. LoopInv' /\ PublicFollows'
      BY <2>1, <2>3 DEF IInv, LoopInv, PublicFollows
    <2> QED
      BY <2>4, <2>5, <2>6 DEF IInv
  <1>6. CASE CoarseFails
    <2>1. /\ UNCHANGED <<phase, round, error, public, elapsed, network, calm>>
          /\ phase = "coarse" /\ task' = "call"
          /\ rx' = rx \/ (rx # <<>> /\ rx' = Tail(rx))
      BY <1>6 DEF CoarseFails, Refused, TimedOut, Awaiting
    <2>2. rx' \in Seq(Datagram) /\ Len(rx') <= RX_SLOTS /\ FreshInv'
      BY <2>1, TailKeeps DEF IInv, TypeOK, FreshInv
    <2>3. TypeOK'
      BY <2>1, <2>2 DEF IInv, TypeOK
    <2>4. LoopInv' /\ PublicFollows'
      BY <2>1 DEF IInv, LoopInv, PublicFollows
    <2> QED
      BY <2>2, <2>3, <2>4 DEF IInv
  <1>7. CASE RefineOk
    <2>1. /\ UNCHANGED <<phase, elapsed, network, calm>>
          /\ phase = "refine" /\ task = "answer" /\ rx # <<>> /\ Head(rx) # None
          /\ error' = Corrected /\ public' = error'
          /\ round' = round + 1 /\ task' = "sleep" /\ rx' = Tail(rx)
      BY <1>7 DEF RefineOk, Measured, Awaiting
    <2>2. error' \in -(2 * TIMEOUT)..TIMEOUT /\ error' \in Int
      BY <1>7, <2>1, CorrectedFacts DEF RefineOk
    <2>3. rx' \in Seq(Datagram) /\ Len(rx') <= RX_SLOTS /\ FreshInv'
      BY <2>1, TailKeeps
    <2>4. round \in 0..REFINEMENTS /\ round < REFINEMENTS
      BY <2>1 DEF IInv, TypeOK, LoopInv
    <2>5. TypeOK'
      BY <2>1, <2>2, <2>3, <2>4 DEF IInv, TypeOK
    <2>6. LoopInv' /\ PublicFollows'
      BY <2>1, <2>2, <2>4 DEF LoopInv, PublicFollows
    <2> QED
      BY <2>3, <2>5, <2>6 DEF IInv
  <1>8. CASE RefineFails
    <2>1. /\ UNCHANGED <<phase, error, elapsed, network, calm>>
          /\ phase = "refine" /\ task = "answer" /\ public' = error
          /\ round' = round + 1 /\ task' = "sleep"
          /\ rx' = rx \/ (rx # <<>> /\ rx' = Tail(rx))
      BY <1>8 DEF RefineFails, Refused, TimedOut, Awaiting
    <2>2. rx' \in Seq(Datagram) /\ Len(rx') <= RX_SLOTS /\ FreshInv'
      BY <2>1, TailKeeps DEF IInv, TypeOK, FreshInv
    <2>3. round \in 0..REFINEMENTS /\ round < REFINEMENTS
      BY <2>1 DEF IInv, TypeOK, LoopInv
    <2>4. TypeOK'
      BY <2>1, <2>2, <2>3 DEF IInv, TypeOK
    <2>5. LoopInv' /\ PublicFollows'
      BY <2>1, <2>3 DEF IInv, LoopInv, PublicFollows
    <2> QED
      BY <2>2, <2>4, <2>5 DEF IInv
  <1>9. CASE SuperviseOk \/ SuperviseTimeout
    <2>1. /\ UNCHANGED <<phase, round, error, public, elapsed, network, calm>>
          /\ task' = "sleep"
          /\ rx' = rx \/ (rx # <<>> /\ rx' = Tail(rx))
      <3>1. CASE SuperviseOk
        BY <3>1 DEF SuperviseOk, Measured
      <3>2. CASE SuperviseTimeout
        BY <3>2 DEF SuperviseTimeout, TimedOut, Awaiting
      <3> QED
        BY <1>9, <3>1, <3>2
    <2>2. rx' \in Seq(Datagram) /\ Len(rx') <= RX_SLOTS /\ FreshInv'
      BY <2>1, TailKeeps DEF IInv, TypeOK, FreshInv
    <2>3. TypeOK'
      BY <2>1, <2>2 DEF IInv, TypeOK
    <2>4. LoopInv' /\ PublicFollows'
      BY <2>1 DEF IInv, LoopInv, PublicFollows
    <2> QED
      BY <2>2, <2>3, <2>4 DEF IInv
  <1>10. CASE SuperviseError
    <2>1. /\ UNCHANGED <<phase, round, error, public, elapsed, calm>>
          /\ task' = "sleep" /\ rx' = <<>>
          /\ request' = FALSE /\ answer' = None /\ late' = 0
      BY <1>10 DEF SuperviseError
    <2>2. rx' \in Seq(Datagram) /\ Len(rx') = 0
      BY <2>1
    <2>3. request' \in BOOLEAN
      BY <2>1
    <2>4. TypeOK' /\ FreshInv'
      BY <2>1, <2>2, <2>3 DEF IInv, TypeOK, FreshInv, Datagram
    <2>5. LoopInv' /\ PublicFollows'
      BY <2>1 DEF IInv, LoopInv, PublicFollows
    <2> QED
      BY <2>4, <2>5 DEF IInv
  <1>11. CASE Serve
    <2>1. /\ UNCHANGED <<client, elapsed, rx, late, calm>>
          /\ request' = FALSE /\ answer' = elapsed
      BY <1>11 DEF Serve
    <2>2. request' \in BOOLEAN
      BY <2>1
    <2>3. TypeOK' /\ FreshInv'
      BY <2>1, <2>2 DEF IInv, TypeOK, FreshInv, Datagram
    <2>4. LoopInv' /\ PublicFollows'
      BY <2>1 DEF IInv, LoopInv, PublicFollows
    <2> QED
      BY <2>3, <2>4 DEF IInv
  <1>12. CASE ServeBadly \/ Lose
    <2>1. /\ UNCHANGED <<client, elapsed, rx, calm>>
          /\ answer' \in {answer, None}
      BY <1>12 DEF ServeBadly, Lose
    <2>2. request' \in BOOLEAN
      BY <1>12 DEF ServeBadly, Lose, IInv, TypeOK
    <2>3. late' \in 0..MaxLate
      BY <1>12 DEF ServeBadly, Lose, IInv, TypeOK
    <2>4. TypeOK' /\ FreshInv'
      BY <2>1, <2>2, <2>3 DEF IInv, TypeOK, FreshInv, Datagram
    <2>5. LoopInv' /\ PublicFollows'
      BY <2>1 DEF IInv, LoopInv, PublicFollows
    <2> QED
      BY <2>4, <2>5 DEF IInv
  <1>13. CASE Deliver \/ DeliverTwice
    <2>1. /\ UNCHANGED <<client, elapsed, request, calm>>
          /\ rx' = Received(answer) /\ answer' = None
      BY <1>13 DEF Deliver, DeliverTwice
    <2>2. late' \in 0..MaxLate
      BY <1>13 DEF Deliver, DeliverTwice, IInv, TypeOK
    <2>3. /\ rx' \in Seq(Datagram) /\ Len(rx') <= RX_SLOTS
          /\ \A i \in 1..Len(rx') : rx'[i] # None => rx'[i] <= elapsed
      BY <2>1, ReceivedFacts DEF IInv, TypeOK, FreshInv
    <2>4. TypeOK' /\ FreshInv'
      BY <2>1, <2>2, <2>3 DEF IInv, TypeOK, FreshInv, Datagram
    <2>5. LoopInv' /\ PublicFollows'
      BY <2>1 DEF IInv, LoopInv, PublicFollows
    <2> QED
      BY <2>4, <2>5 DEF IInv
  <1>14. CASE DeliverLate
    <2>1. /\ UNCHANGED <<client, elapsed, request, answer, calm>>
          /\ rx' = Received(None) /\ late' = late - 1 /\ late > 0
      BY <1>14 DEF DeliverLate
    <2>2. late' \in 0..MaxLate
      BY <2>1 DEF IInv, TypeOK
    <2>3. /\ rx' \in Seq(Datagram) /\ Len(rx') <= RX_SLOTS
          /\ \A i \in 1..Len(rx') : rx'[i] # None => rx'[i] <= elapsed
      BY <2>1, ReceivedFacts DEF Datagram
    <2>4. TypeOK' /\ FreshInv'
      BY <2>1, <2>2, <2>3 DEF IInv, TypeOK, FreshInv
    <2>5. LoopInv' /\ PublicFollows'
      BY <2>1 DEF IInv, LoopInv, PublicFollows
    <2> QED
      BY <2>4, <2>5 DEF IInv
  <1>15. CASE Calm
    <2>1. UNCHANGED <<client, elapsed, rx, network>> /\ calm' \in BOOLEAN
      BY <1>15 DEF Calm
    <2> QED
      BY <2>1 DEF IInv, TypeOK, FreshInv, LoopInv, PublicFollows
  <1>16. CASE Tick
    <2>1. /\ UNCHANGED <<client, rx, network, calm>>
          /\ elapsed' = elapsed + 1 /\ elapsed < TIMEOUT
      BY <1>16 DEF Tick
    <2>2. TypeOK'
      BY <2>1 DEF IInv, TypeOK
    <2>3. FreshInv'
      <3>1. ASSUME NEW i \in 1..Len(rx), rx[i] # None
            PROVE  rx[i] <= elapsed + 1
        <4>1. rx[i] \in 0..TIMEOUT /\ rx[i] <= elapsed /\ elapsed \in Nat
          BY <3>1 DEF IInv, TypeOK, FreshInv, Datagram
        <4> QED
          BY <4>1
      <3>2. answer # None => answer <= elapsed + 1
        BY DEF IInv, TypeOK, FreshInv, Datagram
      <3> QED
        BY <2>1, <3>1, <3>2 DEF FreshInv
    <2>4. LoopInv' /\ PublicFollows'
      BY <2>1 DEF IInv, LoopInv, PublicFollows
    <2> QED
      BY <2>2, <2>3, <2>4 DEF IInv
  <1>17. CASE UNCHANGED vars
    BY <1>17 DEF vars, IInv, TypeOK, FreshInv, LoopInv, PublicFollows
  <1> QED
    BY <1>1, <1>2, <1>3, <1>4, <1>5, <1>6, <1>7, <1>8, <1>9, <1>10, <1>11,
       <1>12, <1>13, <1>14, <1>15, <1>16, <1>17
    DEF Next, TimeStuff, Network

\* Every reachable state satisfies the inductive invariant.
THEOREM InvariantHolds == Spec => []IInv
  BY InitIInv, StepIInv, PTL DEF Spec

(***************************************************************************)
(* What follows from it.                                                   *)
(***************************************************************************)

\* Types; the second loop makes at most REFINEMENTS rounds.
THEOREM TypeCorrect == Spec => []TypeOK
  BY InvariantHolds, PTL DEF IInv

\* PUBLIC_TIME is never wrong by more than the timeout of one call.
THEOREM AccurateTime == Spec => []TimeAccurate
  <1>1. IInv => TimeAccurate
    <2> SUFFICES ASSUME IInv, public # None
                 PROVE  public \in -(2 * TIMEOUT)..TIMEOUT
      BY DEF TimeAccurate
    <2>1. round # 0 /\ public = error /\ error # None
      BY DEF IInv, PublicFollows
    <2>2. phase \in {"refine", "supervise"}
      BY <2>1 DEF IInv, TypeOK, LoopInv
    <2> QED
      BY <2>1, <2>2 DEF IInv, LoopInv
  <1> QED
    BY <1>1, InvariantHolds, PTL

\* PUBLIC_TIME is the measured offset from the first refinement on.
THEOREM PublicFollowsOffset == Spec => []PublicFollows
  BY InvariantHolds, PTL DEF IInv

\* A refinement leaves half of its own round trip at most.
THEOREM RefinementsCorrect == Spec => RefinementCorrects
  <1>1. IInv /\ [Next]_vars =>
          [phase = "refine" /\ error' # error => error' \in -elapsed..elapsed]_vars
    <2> SUFFICES ASSUME IInv, Next, phase = "refine", error' # error
                 PROVE  error' \in -elapsed..elapsed
      OBVIOUS
    <2>1. RefineOk
      BY DEF Next, TimeStuff, Network, client, Lookup, LookupFails, Wake,
             GetTime, CoarseOk, CoarseFails, RefineFails, SuperviseOk,
             SuperviseTimeout, SuperviseError, Serve, ServeBadly, Deliver,
             DeliverTwice, DeliverLate, Lose, Calm, Tick, Measured, Awaiting
    <2> QED
      BY <2>1, CorrectedFacts DEF RefineOk
  <1> QED
    BY <1>1, InvariantHolds, PTL DEF Spec, RefinementCorrects
=============================================================================
