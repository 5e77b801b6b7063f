-------------------------- MODULE ProvisionProofs --------------------------
(***************************************************************************)
(* Theorems about the main loop of the system client and the credentials   *)
(* it connects with, for any timeouts.                                     *)
(***************************************************************************)
EXTENDS Provision, TLAPS

\* The least of three numbers is one of them and below all.
LEMMA LeastOfThree ==
  ASSUME NEW a \in Int, NEW b \in Int, NEW c \in Int
  PROVE  /\ Least({a, b, c}) \in {a, b, c}
         /\ \A n \in {a, b, c} : Least({a, b, c}) <= n
<1>1. \E m \in {a, b, c} : \A n \in {a, b, c} : m <= n
  <2>1. CASE a <= b /\ a <= c
    BY <2>1
  <2>2. CASE b <= a /\ b <= c
    BY <2>2
  <2>3. CASE c <= a /\ c <= b
    BY <2>3
  <2> QED  BY <2>1, <2>2, <2>3
<1> QED  BY <1>1, Zenon DEF Least

-----------------------------------------------------------------------------
(* The main loop.                                                          *)

\* Types of the timers and of what the poll looks at.
Timers ==
  /\ recv \in Int /\ ping \in Int /\ due \in Int
  /\ timer \in Nat \union {None}

\* PollCovered without the minimum: the armed timer is no later than any of the three.
Covered ==
  pc = "poll" =>
    \/ event \/ queued
    \/ /\ timer # None
       /\ \/ timer <= 0
          \/ timer <= recv /\ timer <= ping /\ timer <= due

LoopInv == Timers /\ Covered /\ WorkEndsWithSession

LEMMA LoopInit == Init => LoopInv
BY DEF Init, LoopInv, Timers, Covered, WorkEndsWithSession

\* One step of the client thread.
LEMMA ClientStep == LoopInv /\ Client => LoopInv'
<1> SUFFICES ASSUME LoopInv, Client  PROVE LoopInv'
  OBVIOUS
<1> USE TimeAssumption DEF LoopInv, Timers, Covered, WorkEndsWithSession,
        expiries, work, flags, callers
<1>1. CASE WaitStart
  BY <1>1 DEF WaitStart
<1>2. CASE Flush
  BY <1>2 DEF Flush
<1>3. CASE Connected
  BY <1>3 DEF Connected
<1>4. CASE NotConnected
  BY <1>4 DEF NotConnected
<1>5. CASE Prepare
  <2> DEFINE l == Least({recv, ping, due'})
  <2>1. due' \in Int /\ recv \in Int /\ ping \in Int
    BY <1>5 DEF Prepare
  <2>2. l \in Int /\ l <= recv /\ l <= ping /\ l <= due'
    BY <2>1, LeastOfThree
  <2>3. timer' = Floor(l) /\ recv' = recv /\ ping' = ping /\ pc' = "poll"
    BY <1>5 DEF Prepare, Arm
  <2>4. timer' \in Nat /\ (timer' <= 0 \/ timer' = l)
    BY <2>2, <2>3 DEF Floor
  <2>5. timer' # None
    BY <2>4
  <2> QED  BY <2>1, <2>2, <2>3, <2>4, <2>5
<1>6. CASE Poll
  BY <1>6 DEF Poll
<1>7. CASE FlagsClose
  BY <1>7 DEF FlagsClose
<1>8. CASE FlagsPing
  BY <1>8 DEF FlagsPing
<1>9. CASE Receive
  BY <1>9 DEF Receive, ProcessRx
<1>10. CASE Disconnect
  BY <1>10 DEF Disconnect
<1>11. CASE CancelWork
  BY <1>11 DEF CancelWork, WorkCancelled
<1> QED
  BY <1>1, <1>2, <1>3, <1>4, <1>5, <1>6, <1>7, <1>8, <1>9, <1>10, <1>11 DEF Client

\* One step of the timer or its work item.
LEMMA WorkStep == LoopInv /\ (Expire \/ RunWork) => LoopInv'
BY TimeAssumption
   DEF LoopInv, Timers, Covered, WorkEndsWithSession, Expire, RunWork, expiries, flags,
       callers

\* Time takes the armed timer and what it is armed for down together.
LEMMA TickStep == LoopInv /\ Tick => LoopInv'
<1> SUFFICES ASSUME LoopInv, Tick  PROVE LoopInv'
  OBVIOUS
<1> USE TimeAssumption DEF LoopInv, Timers, Tick, Passed, flags, callers
<1>1. Timers'
  OBVIOUS
<1>2. Covered'
  BY DEF Covered
<1>3. WorkEndsWithSession'
  BY DEF WorkEndsWithSession
<1> QED  BY <1>1, <1>2, <1>3

\* No other thread arms the timer or clears the eventfd.
LEMMA OtherStep ==
  ASSUME LoopInv,
         \/ PollError \/ Start \/ Stop \/ StopFlag \/ StopWrite \/ AskFlag \/ AskWrite
         \/ Wakeup \/ Arrive \/ UNCHANGED vars
  PROVE  LoopInv'
<1> USE DEF LoopInv, Timers, Covered, WorkEndsWithSession, expiries, work, flags, callers
<1>1. CASE PollError
  BY <1>1 DEF PollError
<1>2. CASE Start \/ Stop \/ StopFlag \/ StopWrite
  BY <1>2 DEF Start, Stop, StopFlag, StopWrite
<1>3. CASE AskFlag \/ AskWrite \/ Wakeup \/ Arrive
  BY <1>3 DEF AskFlag, AskWrite, Wakeup, Arrive
<1>4. CASE UNCHANGED vars
  BY <1>4 DEF vars
<1> QED  BY <1>1, <1>2, <1>3, <1>4

LEMMA LoopStep == LoopInv /\ [Next]_vars => LoopInv'
BY ClientStep, WorkStep, TickStep, OtherStep DEF Next, Others

\* The invariant behind the next two: besides types, the armed timer is no later
\* than any of the three deadlines of the main loop.
THEOREM LoopInvariant == Spec => []LoopInv
<1> QED  BY LoopInit, LoopStep, PTL DEF Spec

\* system_client.c:349: whatever the timeouts, the poll without one is never left
\* without anything that ends it in time.
THEOREM PollAlwaysCovered == Spec => []PollCovered
<1>1. LoopInv => PollCovered
  <2> SUFFICES ASSUME LoopInv, pc = "poll", ~event, ~queued, ~(timer <= 0)
               PROVE  timer # None /\ timer <= Least({recv, ping, due})
    BY DEF PollCovered, LoopInv, Covered
  <2>1. timer # None /\ timer <= recv /\ timer <= ping /\ timer <= due
    BY DEF LoopInv, Covered
  <2>2. recv \in Int /\ ping \in Int /\ due \in Int
    BY DEF LoopInv, Timers
  <2>3. Least({recv, ping, due}) \in {recv, ping, due}
    BY <2>2, LeastOfThree
  <2> QED  BY <2>1, <2>3
<1> QED  BY <1>1, LoopInvariant, PTL

\* client_disconnect, for any timeouts: no timer is armed and no work item queued
\* while the client is not connected.
THEOREM NoWorkBetweenSessions == Spec => []WorkEndsWithSession
<1>1. LoopInv => WorkEndsWithSession
  BY DEF LoopInv
<1> QED  BY <1>1, LoopInvariant, PTL

-----------------------------------------------------------------------------
(* The credentials.                                                        *)

\* golioth_settings_set does nothing to the main loop that a thread which asks for
\* reconnection does not do, and a refused start does nothing at all.
LEMMA ProvisionStep == [ProvisionNext]_allVars => [Next]_vars
<1> SUFFICES ASSUME [ProvisionNext]_allVars  PROVE [Next]_vars
  OBVIOUS
<1>1. CASE Delete \/ SetFails \/ Store \/ TakeCredentials \/ UNCHANGED allVars
  BY <1>1 DEF Delete, SetFails, Store, TakeCredentials, allVars
<1>2. CASE AskReconnect \/ StartChecked
  BY <1>2, Zenon DEF AskReconnect, StartChecked, Next, Others
<1>3. CASE ConnectWith \/ EndSession \/ ServeSession
  BY <1>3, Zenon DEF ConnectWith, EndSession, ServeSession, Next, Client
<1>4. CASE OtherSteps
  BY <1>4, Zenon DEF OtherSteps, Next, Others
<1> QED  BY <1>1, <1>2, <1>3, <1>4, Zenon DEF ProvisionNext

\* The system client with its credentials is the system client: what is proved of
\* the main loop holds with them.
THEOREM ProvisionImplementsClient == ProvisionSpec => Spec
<1>1. ProvisionInit => Init
  BY DEF ProvisionInit
<1> QED  BY <1>1, ProvisionStep, PTL DEF ProvisionSpec, Spec

\* A session that was opened with credentials since replaced is about to be closed:
\* its end has been asked for, or the thread that replaced them is about to ask.
OldIsFlagged == session = "old" => setter = "stored" \/ reconnect \/ pc = "disconnect"

\* Only a client that connects or is connected has credentials in use.
SessionInv ==
  /\ OldIsFlagged
  /\ session # "none" => pc \notin {"wait", "flush", "cancel"}

LEMMA SessionStep == SessionInv /\ [ProvisionNext]_allVars => SessionInv'
<1> SUFFICES ASSUME SessionInv, [ProvisionNext]_allVars  PROVE SessionInv'
  OBVIOUS
<1> USE DEF SessionInv, OldIsFlagged, provided, flags, callers
<1>1. CASE Delete \/ SetFails \/ Store \/ TakeCredentials \/ UNCHANGED allVars
  BY <1>1 DEF Delete, SetFails, Store, TakeCredentials, allVars, vars
<1>2. CASE AskReconnect
  BY <1>2 DEF AskReconnect, AskFlag
<1>3. CASE StartChecked
  BY <1>3 DEF StartChecked, Start
<1>4. CASE ConnectWith
  BY <1>4 DEF ConnectWith, Connected
<1>5. CASE EndSession
  BY <1>5 DEF EndSession, NotConnected, Disconnect
<1>6. CASE ServeSession
  <2>1. CASE WaitStart \/ Flush
    BY <1>6, <2>1 DEF ServeSession, WaitStart, Flush
  <2>2. CASE Prepare \/ Poll \/ FlagsPing \/ CancelWork
    BY <1>6, <2>2 DEF ServeSession, Prepare, Poll, FlagsPing, CancelWork
  <2>3. CASE FlagsClose
    BY <1>6, <2>3 DEF ServeSession, FlagsClose
  <2>4. CASE Receive
    BY <1>6, <2>4 DEF ServeSession, Receive, ProcessRx
  <2> QED  BY <1>6, <2>1, <2>2, <2>3, <2>4 DEF ServeSession
<1>7. CASE OtherSteps
  <2>1. CASE PollError \/ Expire \/ RunWork \/ Wakeup \/ Arrive \/ Tick
    BY <1>7, <2>1 DEF OtherSteps, PollError, Expire, RunWork, Wakeup, Arrive, Tick
  <2>2. CASE Stop \/ StopFlag \/ StopWrite \/ AskWrite
    BY <1>7, <2>2 DEF OtherSteps, Stop, StopFlag, StopWrite, AskWrite
  <2> QED  BY <1>7, <2>1, <2>2 DEF OtherSteps
<1> QED  BY <1>1, <1>2, <1>3, <1>4, <1>5, <1>6, <1>7 DEF ProvisionNext

\* settings_golioth.c:110: the request to reconnect is never lost while a session
\* lasts that was opened with other credentials, whatever start, stop or the flush
\* of the eventfd do in between; what is left to CredentialsApplied is that the
\* main loop then acts on it.
THEOREM ReconnectNotLost == ProvisionSpec => []OldIsFlagged
<1>1. ProvisionInit => SessionInv
  BY DEF ProvisionInit, SessionInv, OldIsFlagged
<1>2. SessionInv => OldIsFlagged
  BY DEF SessionInv
<1> QED  BY <1>1, <1>2, SessionStep, PTL DEF ProvisionSpec

\* The poll of the client with its credentials is covered.
THEOREM ProvisionPollCovered == ProvisionSpec => [](PollCovered /\ WorkEndsWithSession)
BY ProvisionImplementsClient, PollAlwaysCovered, NoWorkBetweenSessions, PTL
=============================================================================
