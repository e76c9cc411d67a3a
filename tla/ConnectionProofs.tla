---------------------------- MODULE ConnectionProofs ---------------------------
(***************************************************************************)
(* The connection task calls connect() only while it is apart, and there   *)
(* is just one way for it to get stranded.                                 *)
(***************************************************************************)
EXTENDS Connection, TLAPS

\* The types; that a flag for the disconnect means one as soon as the task
\* waits for it; and that whoever is about to wait without a connection has
\* missed its end.
IInv ==
  /\ TypeOK
  /\ ConnectsWhenApart
  /\ StrandedByMiss
  /\ task = "waiting" /\ "StaDisconnected" \in events => wifi # "StaConnected"
  /\ task = "to wait" /\ wifi # "StaConnected" => missed

LEMMA InitIInv == Init => IInv
  BY DEF Init, IInv, TypeOK, ConnectsWhenApart, StrandedByMiss, Stranded

\* Every step keeps the invariant, first those outside of the task.
LEMMA DriverIInv ==
  IInv /\ (AccessPointChanges \/ Associate \/ FailToAssociate \/ LoseConnection) => IInv'
  <1> SUFFICES ASSUME IInv,
                      AccessPointChanges \/ Associate \/ FailToAssociate \/ LoseConnection
               PROVE  IInv'
    OBVIOUS
  <1> USE DEF IInv, TypeOK, ConnectsWhenApart, StrandedByMiss, Stranded, driver, stack
  <1>1. CASE AccessPointChanges
    BY <1>1 DEF AccessPointChanges
  <1>2. CASE Associate
    BY <1>2 DEF Associate, Associating
  <1>3. CASE FailToAssociate
    BY <1>3 DEF FailToAssociate, Associating
  <1>4. CASE LoseConnection
    BY <1>4 DEF LoseConnection
  <1> QED
    BY <1>1, <1>2, <1>3, <1>4

LEMMA TaskIInv == IInv /\ connection => IInv'
  <1> SUFFICES ASSUME IInv, connection PROVE IInv'
    OBVIOUS
  <1> USE DEF IInv, TypeOK, ConnectsWhenApart, StrandedByMiss, Stranded, driver, stack
  <1>1. CASE LookAtState
    BY <1>1 DEF LookAtState
  <1>2. CASE WaitForDisconnect
    BY <1>2 DEF WaitForDisconnect
  <1>3. CASE Disconnected
    BY <1>3 DEF Disconnected
  <1>4. CASE Start
    BY <1>4 DEF Start
  <1>5. CASE Connect
    BY <1>5 DEF Connect
  <1>6. CASE ConnectReturns
    BY <1>6 DEF ConnectReturns, Returned
  <1>7. CASE PauseEnds
    BY <1>7 DEF PauseEnds
  <1> QED
    BY <1>1, <1>2, <1>3, <1>4, <1>5, <1>6, <1>7 DEF connection

LEMMA StackIInv == IInv /\ (net_task \/ main) => IInv'
  <1> SUFFICES ASSUME IInv, net_task \/ main PROVE IInv'
    OBVIOUS
  <1> USE DEF IInv, TypeOK, ConnectsWhenApart, StrandedByMiss, Stranded, driver, stack
  <1>1. CASE PollLink
    <2>1. link' \in BOOLEAN /\ address' \in BOOLEAN
      BY <1>1 DEF PollLink
    <2> QED
      BY <1>1, <2>1 DEF PollLink
  <1>2. CASE GetAddress
    BY <1>2 DEF GetAddress
  <1>3. CASE LinkIsUp
    BY <1>3 DEF LinkIsUp
  <1>4. CASE GotAddress
    BY <1>4 DEF GotAddress
  <1> QED
    BY <1>1, <1>2, <1>3, <1>4 DEF net_task, main

\* Together.
THEOREM InvariantHolds == Spec => []IInv
  <1>1. IInv /\ [Next]_vars => IInv'
    <2>1. IInv /\ Next => IInv'
      BY DriverIInv, TaskIInv, StackIInv DEF Next
    <2>2. IInv /\ UNCHANGED vars => IInv'
      <3> SUFFICES ASSUME IInv, UNCHANGED vars PROVE IInv'
        OBVIOUS
      <3>1. /\ UNCHANGED <<access_point, wifi, events, task>>
            /\ UNCHANGED <<link, address, boot, missed>>
        BY DEF vars, driver, stack
      <3>2. TypeOK'
        BY <3>1 DEF IInv, TypeOK
      <3> QED
        BY <3>1, <3>2 DEF IInv, ConnectsWhenApart, StrandedByMiss, Stranded
    <2> QED
      BY <2>1, <2>2
  <1> QED
    BY InitIInv, <1>1, PTL DEF Spec

\* The types of the task, the driver, the stack and main.
THEOREM TypeCorrect == Spec => []TypeOK
  <1>1. IInv => TypeOK
    BY DEF IInv
  <1> QED
    BY <1>1, InvariantHolds, PTL

\* connect() is never called for a station that is connected.
THEOREM ConnectsApart == Spec => []ConnectsWhenApart
  <1>1. IInv => ConnectsWhenApart
    BY DEF IInv
  <1> QED
    BY <1>1, InvariantHolds, PTL

\* The disconnect that comes between reading the state and waiting for the
\* event is the only one the task can miss.
THEOREM OnlyOneMiss == Spec => []StrandedByMiss
  <1>1. IInv => StrandedByMiss
    BY DEF IInv
  <1> QED
    BY <1>1, InvariantHolds, PTL
================================================================================
