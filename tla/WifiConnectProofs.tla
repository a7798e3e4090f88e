-------------------------- MODULE WifiConnectProofs --------------------------
(***************************************************************************)
(* Proofs that there are no more returns of 0, nor any to come, than calls *)
(* of WifiConnect_connect, and no more than joins, for any number of       *)
(* calls, joins, lost links and pending events.  The invariants follow     *)
(* what a call is good for from the caller through the flag, the monitor's *)
(* variable and the semaphore, and a join from its event through its flag  *)
(* to the semaphore.                                                       *)
(***************************************************************************)
EXTENDS WifiConnect, FiniteSetTheorems, SequenceTheorems, TLAPS

LEMMA BoolRange == \A b \in BOOLEAN : Bool(b) \in {0, 1}
BY DEF Bool

\* The variables that the invariant is about.
successVars == <<successes, calls, connect_sem, give_sem_on_connect, wifi_flags,
                 caller, monitor, flags>>

LEMMA WifiStutter == WifiInv /\ UNCHANGED successVars => WifiInv'
BY DEF WifiInv, SuccessInv, SeenInv, successVars

\* event_handler only sets flags, and never the caller's.
LEMMA EventStep == ASSUME WifiInv, event_handler PROVE WifiInv'
<1>1. "DO_CONNECT" \notin FlagOf(Head(events))
  BY DEF FlagOf
<1>2. ("DO_CONNECT" \in wifi_flags') = ("DO_CONNECT" \in wifi_flags)
  BY <1>1 DEF event_handler
<1>3. SuccessInv'
  BY <1>2 DEF event_handler, callerVars, WifiInv, SuccessInv
<1>4. SeenInv'
  BY DEF event_handler, WifiInv, SeenInv
<1> QED
  BY <1>3, <1>4 DEF event_handler, callerVars, WifiInv

LEMMA CallStep == ASSUME WifiInv, Call PROVE WifiInv'
<1> USE DEF Call, WifiConnect_init, WifiInv
<1>1. SuccessInv'
  BY BoolRange DEF SuccessInv, Bool
<1>2. SeenInv'
  BY DEF SeenInv
<1> QED
  BY <1>1, <1>2

LEMMA SetDoConnectStep == ASSUME WifiInv, SetDoConnect PROVE WifiInv'
<1> USE DEF SetDoConnect, WifiInv
<1>1. SuccessInv'
  BY BoolRange DEF SuccessInv, Bool
<1>2. SeenInv'
  BY DEF SeenInv
<1> QED
  BY <1>1, <1>2

LEMMA TakeSemStep == ASSUME WifiInv, TakeSem PROVE WifiInv'
<1> USE DEF TakeSem, WifiInv
<1>1. SuccessInv'
  BY BoolRange DEF SuccessInv, Bool
<1>2. SeenInv'
  BY DEF SeenInv
<1> QED
  BY <1>1, <1>2

\* The monitor takes the flag, which the flag it saw guarantees is still set.
LEMMA DoConnectStep == ASSUME WifiInv, DoConnect PROVE WifiInv'
<1> USE DEF WifiInv
<1>1. CASE "DO_CONNECT" \in flags
  <2>1. "DO_CONNECT" \in wifi_flags /\ "DO_CONNECT" \notin wifi_flags'
    BY <1>1 DEF DoConnect, SeenInv
  <2>2. SuccessInv'
    BY <1>1, <2>1, BoolRange DEF DoConnect, callerVars, SuccessInv, Bool
  <2> QED
    BY <1>1, <2>2 DEF DoConnect, callerVars, SeenInv
<1>2. CASE "DO_CONNECT" \notin flags
  BY <1>2 DEF DoConnect, callerVars, SuccessInv, SeenInv
<1> QED
  BY <1>1, <1>2

LEMMA ConnectedStep == ASSUME WifiInv, Connected PROVE WifiInv'
<1> USE DEF WifiInv
<1>1. SuccessInv'
  <2>1. CASE "CONNECTED" \in flags
    <3>1. ("DO_CONNECT" \in wifi_flags') = ("DO_CONNECT" \in wifi_flags)
      BY <2>1 DEF Connected
    <3> QED
      BY <2>1, <3>1, BoolRange DEF Connected, callerVars, SuccessInv, Bool, Given
  <2>2. CASE "CONNECTED" \notin flags
    BY <2>2 DEF Connected, callerVars, SuccessInv
  <2> QED
    BY <2>1, <2>2
<1>2. connect_sem' \in {0, 1} /\ give_sem_on_connect' \in BOOLEAN
  BY DEF Connected, Given
<1>3. SeenInv'
  BY DEF Connected, SeenInv
<1> QED
  BY <1>1, <1>2, <1>3 DEF Connected, callerVars

\* The blocks of the other two flags leave the caller's flag alone.
LEMMA ClearStep == ASSUME WifiInv, IpObtained \/ Disconnected PROVE WifiInv'
<1>1. ("DO_CONNECT" \in wifi_flags') = ("DO_CONNECT" \in wifi_flags)
  BY DEF IpObtained, Disconnected
<1>2. SuccessInv'
  BY <1>1 DEF IpObtained, Disconnected, callerVars, WifiInv, SuccessInv
<1>3. SeenInv'
  BY DEF IpObtained, Disconnected, SeenInv
<1> QED
  BY <1>2, <1>3 DEF IpObtained, Disconnected, callerVars, WifiInv

LEMMA PendStep == ASSUME WifiInv, Pend PROVE WifiInv'
BY DEF Pend, callerVars, WifiInv, SuccessInv, SeenInv

\* Nothing else but where the monitor is changes.
LEMMA InterfaceStep == ASSUME WifiInv, IfDown \/ Reconnect PROVE WifiInv'
BY DEF IfDown, Reconnect, callerVars, WifiInv, SuccessInv, SeenInv

LEMMA WifiInvStep == WifiInv /\ [Next]_vars => WifiInv'
<1> SUFFICES ASSUME WifiInv, [Next]_vars PROVE WifiInv'
  OBVIOUS
<1>1. CASE Driver
  BY <1>1, WifiStutter DEF Driver, callerVars, successVars
<1>2. CASE event_handler
  BY <1>2, EventStep
<1>3. CASE Call \/ SetDoConnect \/ TakeSem
  BY <1>3, CallStep, SetDoConnectStep, TakeSemStep
<1>4. CASE Monitor
  BY <1>4, PendStep, DoConnectStep, ConnectedStep, ClearStep, InterfaceStep DEF Monitor
<1>5. CASE UNCHANGED vars
  BY <1>5, WifiStutter DEF vars, callerVars, successVars
<1> QED
  BY <1>1, <1>2, <1>3, <1>4, <1>5 DEF Next

LEMMA WifiInit == Init => WifiInv
<1> SUFFICES ASSUME Init PROVE WifiInv
  OBVIOUS
<1>1. /\ "DO_CONNECT" \notin wifi_flags
      /\ caller # "called"
      /\ give_sem_on_connect = FALSE
  BY DEF Init
<1>2. SuccessInv
  BY <1>1 DEF Init, SuccessInv, Bool
<1>3. SeenInv
  BY DEF Init, SeenInv
<1> QED
  BY <1>2, <1>3 DEF Init, WifiInv

LEMMA WifiInductive == Spec => []WifiInv
BY WifiInit, WifiInvStep, PTL DEF Spec

\* However often the link is lost and found again, the joins of the reconnections
\* add nothing to what the calls of WifiConnect_connect are good for: the returns of
\* 0, with what the semaphore and give_sem_on_connect still hold, are no more than
\* the calls.
THEOREM EverySuccessCalledFor == Spec => []SuccessesCalledFor
<1>1. WifiInv => SuccessesCalledFor
  <2> SUFFICES ASSUME WifiInv PROVE SuccessesCalledFor
    OBVIOUS
  <2>1. /\ Bool(give_sem_on_connect) \in {0, 1}
        /\ Bool("DO_CONNECT" \in wifi_flags) \in {0, 1}
        /\ Bool(caller = "called") \in {0, 1}
    BY DEF Bool
  <2> QED
    BY <2>1 DEF WifiInv, SuccessInv, SuccessesCalledFor
<1> QED
  BY <1>1, WifiInductive, PTL

-----------------------------------------------------------------------------
(* The joins that wait in the driver's events. *)

LEMMA ReportedFinite ==
  ASSUME NEW s \in Seq(Events)
  PROVE  IsFiniteSet(Reported(s)) /\ Cardinality(Reported(s)) \in Nat
<1>1. IsFiniteSet(1 .. Len(s)) /\ Reported(s) \in SUBSET (1 .. Len(s))
  BY FS_Interval DEF Reported
<1>2. IsFiniteSet(Reported(s))
  BY <1>1, FS_Subset
<1> QED
  BY <1>2, FS_CardinalityType

LEMMA ReportedAppend ==
  ASSUME NEW s \in Seq(Events), NEW e \in Events
  PROVE  Cardinality(Reported(Append(s, e))) =
           Cardinality(Reported(s)) + Bool(e = "connected")
<1> DEFINE n == Len(s) + 1
<1>1. /\ Len(Append(s, e)) = n /\ Append(s, e)[n] = e
      /\ \A i \in 1 .. Len(s) : Append(s, e)[i] = s[i]
      /\ Len(s) \in Nat
  BY AppendProperties
<1>2. n \notin Reported(s)
  BY <1>1 DEF Reported
<1>3. CASE e = "connected"
  <2>1. Reported(Append(s, e)) = Reported(s) \cup {n}
    BY <1>1, <1>3 DEF Reported
  <2> QED
    BY <1>2, <1>3, <2>1, ReportedFinite, FS_AddElement DEF Bool
<1>4. CASE e # "connected"
  <2>1. Reported(Append(s, e)) = Reported(s)
    BY <1>1, <1>4 DEF Reported
  <2> QED
    BY <1>4, <2>1, ReportedFinite DEF Bool
<1> QED
  BY <1>3, <1>4

LEMMA ReportedTail ==
  ASSUME NEW s \in Seq(Events), s # << >>
  PROVE  Cardinality(Reported(Tail(s))) + Bool(Head(s) = "connected")
           =< Cardinality(Reported(s))
<1> DEFINE rest == Reported(s) \ {1}
           f == [i \in Reported(Tail(s)) |-> i + 1]
<1>1. /\ Len(s) \in Nat \ {0} /\ Len(Tail(s)) = Len(s) - 1 /\ Head(s) = s[1]
      /\ \A i \in 1 .. Len(Tail(s)) : Tail(s)[i] = s[i + 1]
  BY HeadTailProperties, EmptySeq
<1>2. f \in Injection(Reported(Tail(s)), rest)
  BY <1>1 DEF Reported, Injection, IsInjective
<1>3. /\ IsFiniteSet(rest)
      /\ Cardinality(rest) = IF 1 \in Reported(s) THEN Cardinality(Reported(s)) - 1
                                                  ELSE Cardinality(Reported(s))
  BY ReportedFinite, FS_RemoveElement
<1>4. Cardinality(Reported(Tail(s))) =< Cardinality(rest)
  BY <1>2, <1>3, FS_Injection
<1>5. 1 \in Reported(s) <=> Head(s) = "connected"
  BY <1>1 DEF Reported
<1>6. Tail(s) \in Seq(Events)
  BY HeadTailProperties
<1>7. /\ Cardinality(Reported(s)) \in Nat /\ Cardinality(Reported(Tail(s))) \in Nat
      /\ Cardinality(rest) \in Nat
  BY <1>3, <1>6, ReportedFinite, FS_CardinalityType
<1>8. Cardinality(Reported(s)) = Cardinality(rest) + Bool(Head(s) = "connected")
  BY <1>3, <1>5, <1>7 DEF Bool
<1>9. Bool(Head(s) = "connected") \in Nat
  BY DEF Bool
<1> QED
  BY <1>4, <1>7, <1>8, <1>9

-----------------------------------------------------------------------------
(* Type correctness. *)

TypeInv == TypeOK /\ WifiInv

LEMMA Raised ==
  ASSUME events \in Seq(Events), NEW e \in Events, Raise(e)
  PROVE  /\ events' \in Seq(Events)
         /\ Cardinality(Reported(events')) =
              Cardinality(Reported(events)) + Bool(e = "connected")
BY AppendProperties, ReportedAppend DEF Raise

LEMMA DriverTypes == ASSUME TypeOK, Driver PROVE TypeOK'
<1> USE DEF TypeOK
<1>1. events' \in Seq(Events)
  <2>1. "connected" \in Events /\ "failed" \in Events /\ "addr" \in Events
        /\ "disconnected" \in Events
    BY DEF Events
  <2> QED
    BY <2>1, Raised DEF Driver, Joined, JoinFailed, GotAddress, LinkLost
<1>2. /\ link' \in {"down", "joining", "up"} /\ joins' \in 0 .. MaxJoins
  BY WifiAssumption DEF Driver, Joined, JoinFailed, GotAddress, LinkLost
<1>3. wanted' \in BOOLEAN
  BY Zenon DEF Driver, Joined, JoinFailed, GotAddress, LinkLost
<1> QED
  BY <1>1, <1>2, <1>3 DEF Driver, callerVars

\* event_handler and the monitor, which change no counter.
LEMMA ThreadTypes == ASSUME TypeOK, event_handler \/ Monitor PROVE TypeOK'
<1> USE DEF TypeOK
<1>1. CASE event_handler
  <2>1. events' \in Seq(Events) /\ FlagOf(Head(events)) \subseteq Flags
    BY <1>1, HeadTailProperties DEF event_handler, FlagOf, Flags
  <2> QED
    BY <1>1, <2>1 DEF event_handler, callerVars
<1>2. CASE Pend
  BY <1>2 DEF Pend, driverVars, callerVars, Flags
<1>3. CASE DoConnect
  BY <1>3 DEF DoConnect, connect, driverVars, callerVars, Flags
<1>4. CASE Connected
  BY <1>4 DEF Connected, Given, driverVars, callerVars, Flags
<1>5. CASE IpObtained
  BY <1>5 DEF IpObtained, driverVars, callerVars, Flags
<1>6. CASE Disconnected
  BY <1>6 DEF Disconnected, driverVars, callerVars, Flags
<1>7. CASE IfDown
  <2>1. events' \in Seq(Events)
    BY <1>7, Raised DEF IfDown, Events
  <2> QED
    BY <1>7, <2>1 DEF IfDown, callerVars
<1>8. CASE Reconnect
  BY <1>8 DEF Reconnect, connect, callerVars
<1> QED
  BY <1>1, <1>2, <1>3, <1>4, <1>5, <1>6, <1>7, <1>8 DEF Monitor

\* The caller, whose returns of 0 are bounded by its calls.
LEMMA CallerTypes == ASSUME TypeInv, Call \/ SetDoConnect \/ TakeSem PROVE TypeOK'
<1> USE DEF TypeInv, TypeOK
<1>1. CASE Call
  <2>1. UNCHANGED <<initialized, monitor>> \/ (initialized' = TRUE /\ monitor' = "pend")
    BY <1>1 DEF Call, WifiConnect_init
  <2>2. calls' \in 0 .. MaxCalls /\ calls =< calls'
    BY <1>1, WifiAssumption DEF Call
  <2>3. /\ UNCHANGED <<wifi_flags, connect_sem, give_sem_on_connect, flags, link, events,
                       joins, successes, wanted>>
        /\ caller' = "called"
    BY <1>1 DEF Call, driverVars
  <2>4. CASE UNCHANGED <<initialized, monitor>>
    BY <2>2, <2>3, <2>4, WifiAssumption DEF Flags
  <2>5. CASE initialized' = TRUE /\ monitor' = "pend"
    BY <2>2, <2>3, <2>5, WifiAssumption DEF Flags
  <2> QED
    BY <2>1, <2>4, <2>5
<1>2. CASE SetDoConnect
  BY <1>2 DEF SetDoConnect, driverVars, Flags
<1>3. CASE TakeSem
  <2>1. successes + connect_sem =< calls
    BY BoolRange DEF WifiInv, SuccessInv, Bool
  <2>2. successes' \in 0 .. MaxCalls /\ connect_sem' \in {0, 1}
    BY <1>3, <2>1, WifiAssumption DEF TakeSem
  <2> QED
    BY <1>3, <2>2 DEF TakeSem, driverVars
<1> QED
  BY <1>1, <1>2, <1>3

LEMMA TypeInductive == Spec => []TypeInv
<1>1. Init => TypeOK
  <2> SUFFICES ASSUME Init PROVE TypeOK
    OBVIOUS
  <2>1. initialized \in BOOLEAN /\ wanted \in BOOLEAN /\ give_sem_on_connect \in BOOLEAN
    BY DEF Init
  <2>2. initialized <=> monitor # "none"
    BY DEF Init
  <2>3. /\ wifi_flags = {} /\ connect_sem = 0 /\ monitor = "none" /\ flags = {}
        /\ caller = "idle" /\ link = "down" /\ joins = 0 /\ calls = 0 /\ successes = 0
    BY DEF Init
  <2>4. events \in Seq(Events)
    BY EmptySeq DEF Init
  <2> QED
    BY <2>1, <2>2, <2>3, <2>4, WifiAssumption DEF TypeOK
<1>2. TypeInv /\ [Next]_vars => TypeOK'
  <2> SUFFICES ASSUME TypeInv, [Next]_vars PROVE TypeOK'
    OBVIOUS
  <2>1. CASE UNCHANGED vars
    BY <2>1 DEF TypeInv, TypeOK, vars, driverVars, callerVars
  <2> QED
    BY <2>1, DriverTypes, ThreadTypes, CallerTypes DEF TypeInv, Next
<1> QED
  BY <1>1, <1>2, WifiInductive, WifiInvStep, PTL DEF Spec, TypeInv

\* The counters, flags and positions stay in their ranges.
THEOREM WifiTypeCorrect == Spec => []TypeOK
BY TypeInductive, PTL DEF TypeInv

-----------------------------------------------------------------------------
(* A join answers one call. *)

LEMMA FlagRange == Bool("CONNECTED" \in wifi_flags) \in {0, 1}
BY DEF Bool

LEMMA DriverJoins == ASSUME JoinInv, Driver PROVE JoinedInv'
<1> DEFINE c == Cardinality(Reported(events))
<1>1. /\ events \in Seq(Events) /\ c \in Nat /\ joins \in Nat
      /\ successes \in Nat /\ connect_sem \in Nat
  BY ReportedFinite DEF JoinInv, TypeOK
<1>2. UNCHANGED <<successes, connect_sem, wifi_flags>>
  BY DEF Driver, callerVars
<1>3. CASE Joined
  <2>1. c' = c + 1 /\ joins' = joins + 1
    BY <1>1, <1>3, Raised DEF Joined, Events, Bool
  <2> HIDE DEF c
  <2> QED
    BY <1>1, <1>2, <2>1, FlagRange DEF JoinInv, JoinedInv, c
<1>4. CASE JoinFailed \/ GotAddress \/ LinkLost
  <2>1. c' = c /\ joins' = joins
    BY <1>1, <1>4, Raised DEF JoinFailed, GotAddress, LinkLost, Events, Bool
  <2> QED
    BY <1>2, <2>1 DEF JoinInv, JoinedInv
<1> QED
  BY <1>3, <1>4 DEF Driver

LEMMA EventJoins == ASSUME JoinInv, event_handler PROVE JoinedInv'
<1> DEFINE c == Cardinality(Reported(events))
           d == Cardinality(Reported(Tail(events)))
           e == Bool(Head(events) = "connected")
<1>1. /\ events \in Seq(Events) /\ events # << >> /\ events' = Tail(events)
      /\ c \in Nat /\ joins \in Nat /\ successes \in Nat /\ connect_sem \in Nat
      /\ UNCHANGED <<successes, connect_sem, joins>>
  BY ReportedFinite DEF JoinInv, TypeOK, event_handler, callerVars
<1>2. d \in Nat /\ e \in {0, 1} /\ d + e =< c
  BY <1>1, HeadTailProperties, ReportedFinite, ReportedTail DEF Bool
<1>3. Bool("CONNECTED" \in wifi_flags') =< Bool("CONNECTED" \in wifi_flags) + e
  BY DEF event_handler, FlagOf, Bool
<1>4. Bool("CONNECTED" \in wifi_flags') \in {0, 1}
  BY DEF Bool
<1>5. successes + connect_sem + Bool("CONNECTED" \in wifi_flags) + c =< joins
  BY DEF JoinInv, JoinedInv
<1>6. c' = d
  BY <1>1
<1> HIDE DEF c, d, e
<1>7. successes + connect_sem + Bool("CONNECTED" \in wifi_flags') + d =< joins
  BY <1>1, <1>2, <1>3, <1>4, <1>5, FlagRange
<1> QED
  BY <1>1, <1>6, <1>7 DEF JoinedInv, c

LEMMA MonitorJoins == ASSUME JoinInv, Monitor PROVE JoinedInv'
<1> DEFINE c == Cardinality(Reported(events))
<1>1. /\ events \in Seq(Events) /\ c \in Nat /\ joins \in Nat
      /\ successes \in Nat /\ connect_sem \in {0, 1}
  BY ReportedFinite DEF JoinInv, TypeOK
<1>2. c' = c
  <2>1. CASE IfDown
    BY <1>1, <2>1, Raised DEF IfDown, Events, Bool
  <2> QED
    BY <2>1 DEF Monitor, Pend, DoConnect, connect, Connected, IpObtained, Disconnected,
       Reconnect, driverVars
<1>3. UNCHANGED <<successes, joins>>
  BY DEF Monitor, Pend, DoConnect, connect, Connected, IpObtained, Disconnected,
     IfDown, Reconnect, driverVars, callerVars
<1> HIDE DEF c
<1>4. CASE Connected /\ "CONNECTED" \in flags
  <2>1. "CONNECTED" \in wifi_flags /\ "CONNECTED" \notin wifi_flags' /\ connect_sem' \in {0, 1}
    BY <1>1, <1>4 DEF Connected, Given, JoinInv, ConnectedSeenInv
  <2> QED
    BY <1>1, <1>2, <1>3, <2>1 DEF JoinInv, JoinedInv, Bool, c
<1>5. CASE ~(Connected /\ "CONNECTED" \in flags)
  <2>1. UNCHANGED connect_sem /\ ("CONNECTED" \in wifi_flags' <=> "CONNECTED" \in wifi_flags)
    BY <1>5 DEF Monitor, Pend, DoConnect, Connected, IpObtained, Disconnected, IfDown, Reconnect
  <2> QED
    BY <1>2, <1>3, <2>1 DEF JoinInv, JoinedInv, Bool, c
<1> QED
  BY <1>4, <1>5

LEMMA CallerJoins == ASSUME JoinInv, Call \/ SetDoConnect \/ TakeSem PROVE JoinedInv'
<1> DEFINE c == Cardinality(Reported(events))
<1>1. /\ c \in Nat /\ joins \in Nat /\ successes \in Nat /\ connect_sem \in {0, 1}
  BY ReportedFinite DEF JoinInv, TypeOK
<1>2. UNCHANGED <<c, joins>> /\ successes' + connect_sem' = successes + connect_sem
  BY <1>1 DEF Call, SetDoConnect, TakeSem, driverVars
<1>3. "CONNECTED" \in wifi_flags' <=> "CONNECTED" \in wifi_flags
  BY DEF Call, SetDoConnect, TakeSem
<1> HIDE DEF c
<1> QED
  BY <1>1, <1>2, <1>3 DEF JoinInv, JoinedInv, Bool, c

\* Only the monitor clears flags, so what it saw is set until it clears it.
LEMMA StepSeen == ASSUME JoinInv, [Next]_vars PROVE ConnectedSeenInv'
<1> USE DEF JoinInv, ConnectedSeenInv
<1>1. CASE Monitor
  BY <1>1 DEF Monitor, Pend, DoConnect, Connected, IpObtained, Disconnected, IfDown, Reconnect
<1>2. CASE Call
  BY <1>2 DEF Call, WifiConnect_init, TypeOK, Flags
<1> QED
  BY <1>1, <1>2 DEF Next, Driver, event_handler, SetDoConnect, TakeSem, vars

LEMMA JoinStep == ASSUME JoinInv, TypeOK', [Next]_vars PROVE JoinInv'
<1>1. CASE UNCHANGED vars
  <2>1. JoinedInv'
    BY <1>1 DEF vars, JoinInv, JoinedInv, Bool, Reported
  <2> QED
    BY <2>1, StepSeen DEF JoinInv
<1>2. CASE Next
  <2>1. JoinedInv'
    BY <1>2, DriverJoins, EventJoins, MonitorJoins, CallerJoins DEF Next
  <2> QED
    BY <2>1, StepSeen DEF JoinInv
<1> QED
  BY <1>1, <1>2

\* However late its event is, and whatever calls timed out before it, a join is
\* good for one return of 0.
THEOREM EveryJoinAnswersOnce == Spec => []OneSuccessPerJoin
<1>1. Init /\ TypeOK => JoinInv
  <2> SUFFICES ASSUME Init, TypeOK PROVE JoinInv
    OBVIOUS
  <2>1. Reported(events) = {}
    BY DEF Init, Reported
  <2>2. Cardinality(Reported(events)) = 0
    BY <2>1, FS_EmptySet
  <2> QED
    BY <2>2 DEF Init, JoinInv, JoinedInv, ConnectedSeenInv, Bool
<1>2. TypeOK /\ TypeOK' /\ JoinInv /\ [Next]_vars => JoinInv'
  BY JoinStep
<1>3. JoinInv => OneSuccessPerJoin
  <2> SUFFICES ASSUME JoinInv PROVE OneSuccessPerJoin
    OBVIOUS
  <2>1. /\ Cardinality(Reported(events)) \in Nat /\ joins \in Nat
        /\ successes \in Nat /\ connect_sem \in Nat
    BY ReportedFinite DEF JoinInv, TypeOK
  <2> QED
    BY <2>1, FlagRange DEF JoinInv, JoinedInv, OneSuccessPerJoin
<1> QED
  BY <1>1, <1>2, <1>3, WifiTypeCorrect, PTL DEF Spec
=============================================================================
