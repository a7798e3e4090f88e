------------------------------ MODULE WifiConnect ------------------------------
(***************************************************************************)
(* modules/WifiConnect: one thread calls WifiConnect_connect, perhaps      *)
(* again after a timeout; the monitor thread asks the driver to join the   *)
(* network; the network management thread delivers the driver's events to  *)
(* event_handler, in order but later.  They share the event flags          *)
(* wifi_flags, which are read and cleared in separate steps, and the       *)
(* binary semaphore connect_sem.                                           *)
(***************************************************************************)
EXTENDS Integers, Sequences, FiniteSets

CONSTANTS MaxCalls,   \* calls of WifiConnect_connect, at most (bound)
          MaxJoins,   \* times the station joins the network, at most (bound)
          MaxEvents   \* events the driver has waiting, at most (bound)

ASSUME WifiAssumption == MaxCalls \in Nat /\ MaxJoins \in Nat /\ MaxEvents \in Nat

VARIABLES wifi_flags,            \* the flags set
          connect_sem,           \* the count of the semaphore, limit 1
          initialized,
          give_sem_on_connect,   \* monitor_thread's local variable
          monitor,               \* where the monitor thread is
          flags,                 \* the flags it saw when it last woke up
          caller,                \* the calling thread: "idle", "called" or "waiting"
          link,                  \* the driver: "down", "joining" or "up"
          events,                \* events raised and not yet handled
          joins,                 \* times the station joined (history)
          calls,                 \* calls of WifiConnect_connect (history)
          successes,             \* calls that returned 0 (history)
          wanted                 \* a call or a lost link not yet followed by a
                                 \* request to the driver (history)

vars == <<wifi_flags, connect_sem, initialized, give_sem_on_connect, monitor, flags,
          caller, link, events, joins, calls, successes, wanted>>
driverVars == <<link, events, joins>>
callerVars == <<caller, calls, successes>>

Flags == {"DO_CONNECT", "CONNECTED", "IP_OBTAINED", "DISCONNECTED"}
Events == {"connected", "failed", "disconnected", "addr"}

Init == /\ wifi_flags = {}
        /\ connect_sem = 0
        /\ initialized = FALSE
        /\ give_sem_on_connect = FALSE
        /\ monitor = "none"
        /\ flags = {}
        /\ caller = "idle"
        /\ link = "down"
        /\ events = << >>
        /\ joins = 0
        /\ calls = 0
        /\ successes = 0
        /\ wanted = FALSE

-----------------------------------------------------------------------------
(* The driver. *)

Raise(e) == /\ Len(events) < MaxEvents
            /\ events' = Append(events, e)

\* net_mgmt(NET_REQUEST_WIFI_CONNECT): joins when down, else it is refused.
connect == /\ link' = IF link = "down" THEN "joining" ELSE link
           /\ wanted' = FALSE
           /\ UNCHANGED <<events, joins>>

Joined == /\ link = "joining"
          /\ joins < MaxJoins
          /\ joins' = joins + 1
          /\ link' = "up"
          /\ Raise("connected")
          /\ UNCHANGED wanted

JoinFailed == /\ link = "joining"
              /\ link' = "down"
              /\ Raise("failed")
              /\ UNCHANGED <<joins, wanted>>

GotAddress == /\ link = "up"
              /\ Raise("addr")
              /\ UNCHANGED <<link, joins, wanted>>

LinkLost == /\ link = "up"
            /\ link' = "down"
            /\ Raise("disconnected")
            /\ wanted' = TRUE
            /\ UNCHANGED joins

Driver == /\ Joined \/ JoinFailed \/ GotAddress \/ LinkLost
          /\ UNCHANGED <<wifi_flags, connect_sem, initialized, give_sem_on_connect,
                         monitor, flags, callerVars>>

\* event_handler.  A failed join is logged and sets no flag.
FlagOf(e) == CASE e = "connected"    -> {"CONNECTED"}
               [] e = "disconnected" -> {"DISCONNECTED"}
               [] e = "addr"         -> {"IP_OBTAINED"}
               [] OTHER              -> {}

event_handler ==
  /\ events # << >>
  /\ events' = Tail(events)
  /\ wifi_flags' = wifi_flags \cup FlagOf(Head(events))
  /\ UNCHANGED <<connect_sem, initialized, give_sem_on_connect, monitor, flags,
                 callerVars, link, joins, wanted>>

-----------------------------------------------------------------------------
(* The caller. *)

\* Creates the monitor thread and waits until it has started.  When the thread
\* cannot be created it returns the error, and a later call may try again.
WifiConnect_init ==
  \/ initialized' = TRUE /\ monitor' = "pend"
  \/ UNCHANGED <<initialized, monitor>>

\* WifiConnect_connect up to its flag, with no look at what WifiConnect_init returns.
Call ==
  /\ caller = "idle"
  /\ calls < MaxCalls
  /\ calls' = calls + 1
  /\ caller' = "called"
  /\ IF initialized THEN UNCHANGED <<initialized, monitor>> ELSE WifiConnect_init
  /\ UNCHANGED <<wifi_flags, connect_sem, give_sem_on_connect, flags, driverVars,
                 successes, wanted>>

\* RTOS_FLAGS_SET(&wifi_flags, FLAG_DO_CONNECT)
SetDoConnect ==
  /\ caller = "called"
  /\ caller' = "waiting"
  /\ wifi_flags' = wifi_flags \cup {"DO_CONNECT"}
  /\ wanted' = TRUE
  /\ UNCHANGED <<connect_sem, initialized, give_sem_on_connect, monitor, flags,
                 driverVars, calls, successes>>

\* k_sem_take with a timeout of 30 s: returns 0 when the semaphore has a count,
\* now or in time, and -1 otherwise.
TakeSem ==
  /\ caller = "waiting"
  /\ caller' = "idle"
  /\ \/ /\ connect_sem > 0
        /\ connect_sem' = connect_sem - 1
        /\ successes' = successes + 1
     \/ /\ connect_sem = 0
        /\ UNCHANGED <<connect_sem, successes>>
  /\ UNCHANGED <<wifi_flags, initialized, give_sem_on_connect, monitor, flags,
                 driverVars, calls, wanted>>

-----------------------------------------------------------------------------
(* monitor_thread.  Each block looks at the flags seen, and clears its flag in *)
(* wifi_flags, where it may have been set again since.                         *)

\* RTOS_PEND_ANY_FLAGS_MS; its timeout changes nothing.
Pend ==
  /\ monitor = "pend"
  /\ wifi_flags # {}
  /\ flags' = wifi_flags
  /\ monitor' = "DO_CONNECT"
  /\ UNCHANGED <<wifi_flags, connect_sem, initialized, give_sem_on_connect,
                 driverVars, callerVars, wanted>>

DoConnect ==
  /\ monitor = "DO_CONNECT"
  /\ monitor' = "CONNECTED"
  /\ IF "DO_CONNECT" \in flags
     THEN /\ wifi_flags' = wifi_flags \ {"DO_CONNECT"}
          /\ give_sem_on_connect' = TRUE
          /\ connect
     ELSE UNCHANGED <<wifi_flags, give_sem_on_connect, driverVars, wanted>>
  /\ UNCHANGED <<connect_sem, initialized, flags, callerVars>>

\* MUTANT: a semaphore without its limit of 1.
GivenTwice == connect_sem + 1

\* k_sem_give
Given == 1

\* MUTANT: the flag stays set.
ConnectedKeepsFlag ==
  /\ monitor = "CONNECTED"
  /\ monitor' = "IP_OBTAINED"
  /\ connect_sem' = IF "CONNECTED" \in flags /\ give_sem_on_connect
                    THEN Given ELSE connect_sem
  /\ give_sem_on_connect' = (give_sem_on_connect /\ "CONNECTED" \notin flags)
  /\ UNCHANGED <<wifi_flags, initialized, flags, driverVars, callerVars, wanted>>

\* MUTANT: give_sem_on_connect is not reset.
ConnectedGivesAgain ==
  /\ monitor = "CONNECTED"
  /\ monitor' = "IP_OBTAINED"
  /\ wifi_flags' = IF "CONNECTED" \in flags THEN wifi_flags \ {"CONNECTED"}
                                            ELSE wifi_flags
  /\ connect_sem' = IF "CONNECTED" \in flags /\ give_sem_on_connect
                    THEN Given ELSE connect_sem
  /\ UNCHANGED <<initialized, give_sem_on_connect, flags, driverVars, callerVars, wanted>>

Connected ==
  /\ monitor = "CONNECTED"
  /\ monitor' = "IP_OBTAINED"
  /\ IF "CONNECTED" \in flags
     THEN /\ wifi_flags' = wifi_flags \ {"CONNECTED"}
          /\ connect_sem' = IF give_sem_on_connect THEN Given ELSE connect_sem
          /\ give_sem_on_connect' = FALSE
     ELSE UNCHANGED <<wifi_flags, connect_sem, give_sem_on_connect>>
  /\ UNCHANGED <<initialized, flags, driverVars, callerVars, wanted>>

\* MUTANT: clears every flag, those set since the thread woke up included.
IpObtainedClearsAll ==
  /\ monitor = "IP_OBTAINED"
  /\ monitor' = "DISCONNECTED"
  /\ wifi_flags' = IF "IP_OBTAINED" \in flags THEN {} ELSE wifi_flags
  /\ UNCHANGED <<connect_sem, initialized, give_sem_on_connect, flags, driverVars,
                 callerVars, wanted>>

IpObtained ==
  /\ monitor = "IP_OBTAINED"
  /\ monitor' = "DISCONNECTED"
  /\ wifi_flags' = IF "IP_OBTAINED" \in flags THEN wifi_flags \ {"IP_OBTAINED"}
                                              ELSE wifi_flags
  /\ UNCHANGED <<connect_sem, initialized, give_sem_on_connect, flags, driverVars,
                 callerVars, wanted>>

Disconnected ==
  /\ monitor = "DISCONNECTED"
  /\ IF "DISCONNECTED" \in flags
     THEN /\ wifi_flags' = wifi_flags \ {"DISCONNECTED"}
          /\ monitor' = "down"
     ELSE /\ monitor' = "pend"
          /\ UNCHANGED wifi_flags
  /\ UNCHANGED <<connect_sem, initialized, give_sem_on_connect, flags,
                 driverVars, callerVars, wanted>>

\* After 3 s, net_if_down.  It takes the link down; the driver may say so.
IfDown ==
  /\ monitor = "down"
  /\ monitor' = "up"
  /\ link' = "down"
  /\ \/ UNCHANGED events
     \/ link # "down" /\ Raise("disconnected")
  /\ UNCHANGED <<wifi_flags, connect_sem, initialized, give_sem_on_connect, flags,
                 callerVars, joins, wanted>>

\* net_if_up and, after the last sleep, the reconnection.
Reconnect ==
  /\ monitor = "up"
  /\ monitor' = "pend"
  /\ connect
  /\ UNCHANGED <<wifi_flags, connect_sem, initialized, give_sem_on_connect, flags,
                 callerVars>>

Monitor == Pend \/ DoConnect \/ Connected \/ IpObtained \/ Disconnected
             \/ IfDown \/ Reconnect

Next == \/ Driver
        \/ event_handler
        \/ Call \/ SetDoConnect \/ TakeSem
        \/ Monitor

\* The monitor and the event thread are scheduled, and the caller's wait ends.
\* Nothing makes the driver join, lose or answer anything.
Spec == Init /\ [][Next]_vars /\ WF_vars(Monitor) /\ WF_vars(event_handler)
             /\ WF_vars(SetDoConnect) /\ WF_vars(TakeSem)

-----------------------------------------------------------------------------
(* Properties. *)

TypeOK ==
  /\ wifi_flags \subseteq Flags
  /\ connect_sem \in {0, 1}
  /\ initialized \in BOOLEAN
  /\ initialized <=> monitor # "none"
  /\ give_sem_on_connect \in BOOLEAN
  /\ monitor \in Flags \cup {"none", "pend", "down", "up"}
  /\ flags \subseteq Flags
  /\ caller \in {"idle", "called", "waiting"}
  /\ link \in {"down", "joining", "up"}
  /\ events \in Seq(Events)
  /\ joins \in 0 .. MaxJoins
  /\ calls \in 0 .. MaxCalls
  /\ successes \in 0 .. MaxCalls
  /\ wanted \in BOOLEAN

Bool(b) == IF b THEN 1 ELSE 0

\* A return of 0 was called for: those there were, and those that can come without
\* one call more, a semaphore left over or a join that is still to be answered, are
\* never more than the calls.  The reconnections after a lost link add none, though
\* the join of one may answer a call that timed out, and the next call then.
SuccessesCalledFor ==
  successes + connect_sem + Bool(give_sem_on_connect) =< calls

\* Each return of 0 has a join of its own: a connection that was reported once
\* never answers two calls.
OneSuccessPerJoin == successes + connect_sem =< joins

\* Once there is a monitor thread, every call and every lost link is followed by a
\* request to the driver, even when flags are set again between the monitor's
\* reading and clearing them, and for calls whose WifiConnect_init failed before.
RequestFollows == wanted /\ initialized ~> ~wanted

-----------------------------------------------------------------------------
(* The inductive invariant behind SuccessesCalledFor. *)

\* Where the success a call is good for is: with the caller until it sets the flag, in the
\* flag until the monitor takes it, in give_sem_on_connect until the station
\* joins, in the semaphore until a call takes it.
SuccessInv ==
  successes + connect_sem + Bool(give_sem_on_connect)
    + Bool("DO_CONNECT" \in wifi_flags) + Bool(caller = "called") =< calls

\* Only the monitor clears flags, so a flag it saw is set until it clears it.
SeenInv == monitor = "DO_CONNECT" => flags \subseteq wifi_flags

WifiInv == /\ successes \in Nat
           /\ calls \in Nat
           /\ connect_sem \in {0, 1}
           /\ give_sem_on_connect \in BOOLEAN
           /\ SuccessInv
           /\ SeenInv

-----------------------------------------------------------------------------
(* The inductive invariant behind TypeOK and OneSuccessPerJoin. *)

\* The joins whose events are not yet handled.
Reported(s) == {i \in 1 .. Len(s) : s[i] = "connected"}

\* A join is in its event until that is handled, in the flag until the monitor
\* takes it, in the semaphore until a call takes it, or in a call's return.
JoinedInv ==
  successes + connect_sem + Bool("CONNECTED" \in wifi_flags)
    + Cardinality(Reported(events)) =< joins

ConnectedSeenInv ==
  monitor \in {"DO_CONNECT", "CONNECTED"} /\ "CONNECTED" \in flags
    => "CONNECTED" \in wifi_flags

JoinInv == TypeOK /\ JoinedInv /\ ConnectedSeenInv
=============================================================================
