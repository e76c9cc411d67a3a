------------------------------- MODULE Connection ------------------------------
(***************************************************************************)
(* Bringing up the network in src/src/main.rs: the task connection() keeps *)
(* the station connected, net_task runs the stack, which gets an address   *)
(* by DHCP, and main waits for link and address and spawns the time        *)
(* client.                                                                 *)
(*                                                                         *)
(* The WiFi driver preempts the tasks: its state and events change between *)
(* any two steps of them.  esp-wifi (external) remembers events in flags;  *)
(* to wait for one, wait_for_event and connect first clear its flag.       *)
(*                                                                         *)
(* A panic of connection() stops the whole firmware, net_task and main     *)
(* too.                                                                    *)
(***************************************************************************)

VARIABLES
  access_point,  \* whether the access point is in reach
  wifi,          \* esp_wifi::wifi::get_wifi_state()
  events,        \* the flags of events that happened
  task,          \* where connection() is
  link, address, \* what the network stack has
  boot,          \* where main is
  missed         \* history: a disconnect came between reading the state
                 \* and waiting for the event

driver == <<wifi, events>>
stack == <<link, address>>
vars == <<access_point, wifi, events, task, link, address, boot, missed>>

Init ==
  /\ access_point \in BOOLEAN
  /\ wifi = "Invalid" /\ events = {}
  /\ task = "look" /\ boot = "link"
  /\ link = FALSE /\ address = FALSE
  /\ missed = FALSE

-----------------------------------------------------------------------------
(* The access point and the driver (external)                              *)

AccessPointChanges ==
  /\ access_point' = ~access_point
  /\ UNCHANGED <<driver, task, stack, boot, missed>>

\* What connect() asked for and has no answer yet.
Associating == task = "connecting" /\ events = {}

Associate ==
  /\ Associating /\ access_point
  /\ wifi' = "StaConnected" /\ events' = events \union {"StaConnected"}
  /\ UNCHANGED <<access_point, task, stack, boot, missed>>

FailToAssociate ==
  /\ Associating
  /\ wifi' = "StaDisconnected" /\ events' = events \union {"StaDisconnected"}
  /\ UNCHANGED <<access_point, task, stack, boot, missed>>

LoseConnection ==
  /\ wifi = "StaConnected" /\ ~access_point
  /\ wifi' = "StaDisconnected" /\ events' = events \union {"StaDisconnected"}
  /\ missed' = (missed \/ task = "to wait")
  /\ UNCHANGED <<access_point, task, stack, boot>>

-----------------------------------------------------------------------------
(* connection()                                                            *)

LookAtState ==
  /\ task = "look"
  /\ task' = IF wifi = "StaConnected" THEN "to wait" ELSE "to start"
  /\ UNCHANGED <<access_point, driver, stack, boot, missed>>

WaitForDisconnect ==
  /\ task = "to wait" /\ task' = "waiting"
  /\ events' = events \ {"StaDisconnected"}
  /\ UNCHANGED <<access_point, wifi, stack, boot, missed>>

Disconnected ==
  /\ task = "waiting" /\ "StaDisconnected" \in events
  /\ task' = "pausing" /\ events' = events \ {"StaDisconnected"}
  /\ UNCHANGED <<access_point, wifi, stack, boot, missed>>

\* set_configuration and start(), if the driver is not started; an error of
\* one of them is unwrapped.
Start ==
  /\ task = "to start"
  /\ \/ task' = "to connect" /\ wifi' = IF wifi = "Invalid" THEN "StaStarted" ELSE wifi
     \/ wifi = "Invalid" /\ task' = "panicked" /\ UNCHANGED wifi
  /\ UNCHANGED <<access_point, events, stack, boot, missed>>

Connect ==
  /\ task = "to connect" /\ task' = "connecting"
  /\ events' = events \ {"StaConnected", "StaDisconnected"}
  /\ UNCHANGED <<access_point, wifi, stack, boot, missed>>

\* connect() is Ok, unless it was disconnected (meanwhile again).  The
\* mutants take every answer for Ok and do not look at the state again, or
\* do not try again.
Returned(next) ==
  /\ task = "connecting" /\ events # {}
  /\ task' = next /\ events' = {}
  /\ UNCHANGED <<access_point, wifi, stack, boot, missed>>
TrustAnswer == Returned("to wait")
GiveUp == Returned(IF "StaDisconnected" \in events THEN "waiting" ELSE "look")
ConnectReturns == Returned(IF "StaDisconnected" \in events THEN "backing off" ELSE "look")

\* The two pauses of 5 s end.
PauseEnds ==
  /\ \/ task = "pausing" /\ task' = "to start"
     \/ task = "backing off" /\ task' = "look"
  /\ UNCHANGED <<access_point, driver, stack, boot, missed>>

connection ==
  LookAtState \/ WaitForDisconnect \/ Disconnected \/ Start \/ Connect \/ ConnectReturns \/ PauseEnds

-----------------------------------------------------------------------------
(* net_task and main                                                       *)

Alive == task # "panicked"

\* The stack sees the link of the driver; without it the lease is dropped.
PollLink ==
  /\ Alive /\ link' = (wifi = "StaConnected") /\ address' = (address /\ link')
  /\ UNCHANGED <<access_point, driver, task, boot, missed>>

GetAddress ==
  /\ Alive /\ link /\ wifi = "StaConnected" /\ access_point /\ ~address
  /\ address' = TRUE
  /\ UNCHANGED <<access_point, driver, task, link, boot, missed>>

net_task == PollLink \/ GetAddress

LinkIsUp ==
  /\ Alive /\ boot = "link" /\ link /\ boot' = "address"
  /\ UNCHANGED <<access_point, driver, task, stack, missed>>

\* The address is there: time_stuff is spawned.  The mutant looks once.
LookOnceForAddress ==
  /\ Alive /\ boot = "address" /\ boot' = IF address THEN "running" ELSE "offline"
  /\ UNCHANGED <<access_point, driver, task, stack, missed>>
GotAddress ==
  /\ Alive /\ boot = "address" /\ address /\ boot' = "running"
  /\ UNCHANGED <<access_point, driver, task, stack, missed>>

main == LinkIsUp \/ GotAddress

Next ==
  \/ AccessPointChanges \/ Associate \/ FailToAssociate \/ LoseConnection
  \/ connection \/ net_task \/ main

\* The executor polls every task, timers expire, the driver answers and sees
\* that the access point is gone; one that stays in reach answers some try.
Fairness ==
  /\ WF_vars(connection) /\ WF_vars(PollLink) /\ WF_vars(GetAddress) /\ WF_vars(main)
  /\ WF_vars(Associate \/ FailToAssociate) /\ SF_vars(Associate)
  /\ WF_vars(LoseConnection)

Spec == Init /\ [][Next]_vars
FairSpec == Spec /\ Fairness

-----------------------------------------------------------------------------
(* Properties                                                              *)

TypeOK ==
  /\ access_point \in BOOLEAN /\ link \in BOOLEAN /\ address \in BOOLEAN /\ missed \in BOOLEAN
  /\ wifi \in {"Invalid", "StaStarted", "StaConnected", "StaDisconnected"}
  /\ events \subseteq {"StaConnected", "StaDisconnected"}
  /\ task \in {"look", "to wait", "waiting", "pausing", "to start", "to connect",
               "connecting", "backing off", "panicked"}
  /\ boot \in {"link", "address", "running"}

\* connect() is never called for a station that is connected.
ConnectsWhenApart ==
  task \in {"pausing", "to start", "to connect"} => wifi # "StaConnected"

\* The task waits for a disconnect that has been before only if that came
\* between its reading the state and its waiting for the event.
Stranded == task = "waiting" /\ wifi # "StaConnected" /\ "StaDisconnected" \notin events
StrandedByMiss == Stranded => missed

\* If the access point stays, the station gets connected and stays so, unless
\* a disconnect is missed, or the driver cannot be started.
Reconnects == <>[]access_point => (<>[](wifi = "StaConnected") \/ <>(missed \/ ~Alive))

\* Then the time client runs, however often link and lease were lost before.
TimeClientStarts == <>[]access_point => <>(boot = "running" \/ missed \/ ~Alive)

\* "wait until we're no longer connected": that wait ends when it is so.
WaitEnds == (task = "waiting" /\ wifi # "StaConnected") ~> (task # "waiting")
================================================================================
