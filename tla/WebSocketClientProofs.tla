------------------------ MODULE WebSocketClientProofs ------------------------
(***************************************************************************)
(* What WebSocketClient promises for every set of tokens and every         *)
(* staleness limit: which subscriptions a live connection can miss, that   *)
(* the watchdog sees every connection, and that neither the replacement of *)
(* a half-open one nor stop() can be held up or undone.                    *)
(***************************************************************************)
EXTENDS WebSocketClient, TLAPS

\* What subscribe() has recorded and may still send.
Pending == IF sub_pc = "idle" THEN {} ELSE new_tokens

\* After the Open callback's message the server has every recorded id, but those
\* that the callback missed and, once subscribe() sends by itself, those that it
\* is about to send.
SubscriptionInv ==
  /\ io = "opened" /\ link = "good" => full_subscription \ overlapped \subseteq server_tokens
  /\ io = "live" /\ link = "good" /\ connected =>
       full_subscription \ overlapped \subseteq server_tokens \union Pending

LEMMA SubscriptionInvStep ==
  ASSUME SubscriptionInv, [Next]_vars
  PROVE  SubscriptionInv'
<1> USE DEF SubscriptionInv
<1>1. CASE OpenSends
  <2>1. link = "good" => server_tokens' = server_tokens \union full_subscription
    BY <1>1 DEF OpenSends, Send, IsOpen
  <2>2. io' = "opened" /\ UNCHANGED <<link, full_subscription>>
    BY <1>1 DEF OpenSends, subVars
  <2> QED BY <2>1, <2>2
<1>2. CASE OpenPublishes
  BY <1>2 DEF OpenPublishes, subVars
<1>3. CASE SubscribeRecords
  <2>1. PICK batch :
          /\ new_tokens' = batch
          /\ full_subscription' = full_subscription \union batch
          /\ overlapped' = IF io = "opened" THEN overlapped \union batch ELSE overlapped
    BY <1>3 DEF SubscribeRecords
  <2>2. /\ Pending' = batch /\ Pending = {}
        /\ UNCHANGED <<io, link, server_tokens, connected>>
    BY <1>3, <2>1 DEF SubscribeRecords, Pending, netVars
  <2> QED BY <2>1, <2>2
<1>4. CASE SubscribeChecks
  <2>1. connected => Pending' = Pending
    BY <1>4 DEF SubscribeChecks, Pending
  <2> QED BY <1>4, <2>1 DEF SubscribeChecks, netVars
<1>5. CASE SubscribeSends
  <2>1. IsOpen => server_tokens' = server_tokens \union Pending
    BY <1>5 DEF SubscribeSends, Send, Pending
  <2>2. UNCHANGED <<io, link, full_subscription, overlapped, connected>>
    BY <1>5 DEF SubscribeSends
  <2>3. server_tokens \subseteq server_tokens'
    BY <1>5 DEF SubscribeSends, Send
  <2> QED BY <2>1, <2>2, <2>3 DEF IsOpen
<1>6. CASE Connect \/ Close \/ LinkFails \/ RunThread
  <2>1. \/ io' \notin {"opened", "live"}
        \/ link' # "good"
        \/ /\ UNCHANGED <<io, link, full_subscription, overlapped, server_tokens, subVars>>
           /\ connected' => connected
    BY <1>6 DEF Connect, Close, LinkFails, RunThread, RunStarts, WatchdogFires, MarkStale,
                WatchdogStops, WatchdogStarts, RunEnds, RunReturns, HaltIO, netVars, subVars
  <2> QED BY <2>1 DEF Pending, subVars
<1>7. CASE Message \/ TimePasses \/ Stop \/ Done \/ UNCHANGED vars
  <2>1. UNCHANGED <<io, link, overlapped, server_tokens, subVars, connected>>
    BY <1>7 DEF Message, TimePasses, Stop, Done, vars, netVars
  <2> QED BY <2>1 DEF Pending, subVars
<1> QED BY <1>1, <1>2, <1>3, <1>4, <1>5, <1>6, <1>7 DEF Next, IOThread, SubThread

\* Whatever the interleaving of the callback, the watchdog and subscribe(), and
\* however connections are lost and replaced: only the ids whose subscribe() ran
\* between the two halves of the Open callback are missing on a live connection.
THEOREM OnlyOverlapIsMissing == Spec => []OnlyOverlappedTokensAreMissing
<1>1. Init => SubscriptionInv
  BY DEF Init, SubscriptionInv
<1>2. SubscriptionInv => OnlyOverlappedTokensAreMissing
  BY DEF SubscriptionInv, OnlyOverlappedTokensAreMissing, Settled, IsOpen, Pending
<1> QED BY <1>1, <1>2, SubscriptionInvStep, PTL DEF Spec

-----------------------------------------------------------------------------
(* The watchdog and stop(). *)

\* What the I/O thread, connected_ and run() are to each other.  connected_ is up
\* just while the callback has reported a connection, but for the time between the
\* watchdog's own store and the end of the I/O thread it waits for.
PhaseInv ==
  /\ main_pc \in {"start", "watch", "mark", "halt", "restart", "join", "returned"}
  /\ io \in {"stopped", "connecting", "opening", "opened", "live"}
  /\ io = "stopped" <=> main_pc \in {"start", "restart", "returned"}
  /\ connected => io = "live"
  /\ io = "live" => connected \/ main_pc = "halt"
  /\ link = "half_open" => io \in {"opening", "opened", "live"}
  /\ last_msg \in 0..(StaleTimeout + 1)

LEMMA PhaseInvStep ==
  ASSUME PhaseInv, [Next]_vars
  PROVE  PhaseInv'
<1> USE StaleAssumption DEF PhaseInv
<1>1. CASE IOThread
  BY <1>1 DEF IOThread, Connect, OpenSends, OpenPublishes, Close, mainVars
<1>2. CASE RunThread
  <2>1. CASE RunStarts
    BY <2>1 DEF RunStarts
  <2>2. CASE WatchdogFires \/ RunEnds
    BY <2>2 DEF WatchdogFires, RunEnds, netVars
  <2>3. CASE MarkStale
    BY <2>3 DEF MarkStale, netVars
  <2>4. CASE WatchdogStops \/ RunReturns
    <3>1. io' = "stopped" /\ link' = "none" /\ ~ connected' /\ last_msg' = last_msg
      BY <2>4 DEF WatchdogStops, RunReturns, HaltIO
    <3> QED BY <2>4, <3>1 DEF WatchdogStops, RunReturns
  <2>5. CASE WatchdogStarts
    BY <2>5 DEF WatchdogStarts
  <2> QED BY <1>2, <2>1, <2>2, <2>3, <2>4, <2>5 DEF RunThread
<1>3. CASE SubThread \/ SubscribeRecords \/ Stop \/ Done \/ UNCHANGED vars
  <2>1. UNCHANGED <<main_pc, io, link, connected, last_msg>>
    BY <1>3 DEF SubThread, SubscribeChecks, SubscribeSends, SubscribeRecords, Stop, Done,
                vars, mainVars, netVars
  <2> QED BY <2>1
<1>4. CASE Message \/ LinkFails
  BY <1>4 DEF Message, LinkFails, IsOpen, mainVars, netVars
<1>5. CASE TimePasses
  BY <1>5 DEF TimePasses, mainVars, netVars
<1> QED BY <1>1, <1>2, <1>3, <1>4, <1>5 DEF Next

LEMMA PhaseInvariant == Spec => []PhaseInv
<1>1. Init => PhaseInv
  BY StaleAssumption DEF Init, PhaseInv
<1> QED BY <1>1, PhaseInvStep, PTL DEF Spec

\* The watchdog, which knows a connection by connected_ only, sees every connection
\* that is up and none that is not (WebSocketClient.cpp:157-158, 228-241).
THEOREM WatchdogSees == Spec => []WatchdogIsNotBlind
<1>1. PhaseInv => WatchdogIsNotBlind
  BY DEF PhaseInv, WatchdogIsNotBlind
<1> QED BY <1>1, PhaseInvariant, PTL

\* A measure that is a sum falls with one summand when the other stays.
LEMMA SumFalls ==
  ASSUME NEW a \in Nat, NEW b \in Nat, NEW c \in Nat, NEW d \in Nat, a <= c, b <= d
  PROVE  /\ a + b <= c + d
         /\ a < c \/ b < d => a + b < c + d
  OBVIOUS

LEMMA StepsAreNumbers ==
  ASSUME PhaseInv
  PROVE  CallbackStepsLeft \in Nat /\ WatchdogStepsLeft \in Nat
  BY StaleAssumption DEF PhaseInv, CallbackStepsLeft, WatchdogStepsLeft

LEMMA StepsAreNumbersNext ==
  ASSUME PhaseInv'
  PROVE  CallbackStepsLeft' \in Nat /\ WatchdogStepsLeft' \in Nat
  BY StaleAssumption DEF PhaseInv, CallbackStepsLeft, WatchdogStepsLeft

\* While a connection is half-open, it is in its callback or up, and run() is at its
\* watchdog: each summand only falls, and one of them does in each of the steps.
LEMMA HalfOpenStep ==
  ASSUME PhaseInv, Next, link = "half_open", link' = "half_open", running'
  PROVE  /\ CallbackStepsLeft' <= CallbackStepsLeft
         /\ WatchdogStepsLeft' <= WatchdogStepsLeft
         /\ IOThread \/ RunThread =>
              \/ CallbackStepsLeft' < CallbackStepsLeft
              \/ WatchdogStepsLeft' < WatchdogStepsLeft
         /\ TimePasses /\ main_pc = "watch" /\ io = "live" =>
              WatchdogStepsLeft' < WatchdogStepsLeft
<1>1. io \in {"opening", "opened", "live"} /\ main_pc \in {"watch", "mark", "halt", "join"}
  BY DEF PhaseInv
<1>2. CASE OpenSends \/ OpenPublishes
  <2>1. CallbackStepsLeft' < CallbackStepsLeft /\ CallbackStepsLeft' <= CallbackStepsLeft
    BY <1>2 DEF OpenSends, OpenPublishes, CallbackStepsLeft
  <2>2. WatchdogStepsLeft' = WatchdogStepsLeft
    BY <1>2 DEF OpenSends, OpenPublishes, mainVars, WatchdogStepsLeft
  <2>3. ~ TimePasses
    BY <1>2 DEF OpenSends, OpenPublishes, TimePasses, netVars
  <2>4. WatchdogStepsLeft' <= WatchdogStepsLeft
    BY <2>2, StepsAreNumbers
  <2> QED BY <2>1, <2>3, <2>4, Zenon
<1>3. CASE WatchdogFires \/ MarkStale
  <2>1. CallbackStepsLeft' = CallbackStepsLeft
    BY <1>3 DEF WatchdogFires, MarkStale, netVars, CallbackStepsLeft
  <2>2. CallbackStepsLeft' <= CallbackStepsLeft
    BY <2>1, StepsAreNumbers
  <2>3. WatchdogStepsLeft' < WatchdogStepsLeft /\ WatchdogStepsLeft' <= WatchdogStepsLeft
    <3>1. CASE WatchdogFires
      <4>1. io = "live" /\ main_pc = "watch" /\ last_msg = StaleTimeout + 1
        BY <3>1, StaleAssumption DEF WatchdogFires, IsStale, PhaseInv
      <4>2. WatchdogStepsLeft = 2
        BY <4>1, StaleAssumption DEF WatchdogStepsLeft
      <4>3. WatchdogStepsLeft' = 1
        BY <3>1 DEF WatchdogFires, WatchdogStepsLeft
      <4> QED BY <4>2, <4>3
    <3>2. CASE MarkStale
      BY <3>2 DEF MarkStale, WatchdogStepsLeft
    <3> QED BY <1>3, <3>1, <3>2
  <2> QED BY <2>2, <2>3, Zenon
<1>4. CASE TimePasses
  <2>1. UNCHANGED <<io, main_pc>> /\ last_msg' = last_msg + 1 /\ last_msg <= StaleTimeout
    BY <1>4 DEF TimePasses, mainVars, netVars
  <2>2. CallbackStepsLeft' = CallbackStepsLeft
    BY <2>1 DEF CallbackStepsLeft
  <2>3. CallbackStepsLeft' <= CallbackStepsLeft
    BY <2>2, StepsAreNumbers
  <2>4. /\ WatchdogStepsLeft' <= WatchdogStepsLeft
        /\ main_pc = "watch" /\ io = "live" => WatchdogStepsLeft' < WatchdogStepsLeft
    BY <1>1, <2>1, StaleAssumption DEF PhaseInv, WatchdogStepsLeft
  <2>5. ~ (IOThread \/ RunThread)
    BY <1>1, <2>1 DEF IOThread, RunThread, Connect, OpenSends, OpenPublishes, Close, RunStarts,
                 WatchdogFires, MarkStale, WatchdogStops, WatchdogStarts, RunEnds,
                 RunReturns, PhaseInv
  <2> QED BY <2>3, <2>4, <2>5, Zenon
<1>5. CASE SubThread \/ SubscribeRecords
  <2>1. UNCHANGED <<io, main_pc, last_msg>> /\ sub_pc' # sub_pc
    BY <1>5 DEF SubThread, SubscribeChecks, SubscribeSends, SubscribeRecords, mainVars, netVars
  <2>2. CallbackStepsLeft' = CallbackStepsLeft /\ WatchdogStepsLeft' = WatchdogStepsLeft
    BY <2>1 DEF CallbackStepsLeft, WatchdogStepsLeft
  <2>3. /\ CallbackStepsLeft' <= CallbackStepsLeft
        /\ WatchdogStepsLeft' <= WatchdogStepsLeft
    BY <2>2, StepsAreNumbers
  <2>4. ~ (IOThread \/ RunThread \/ TimePasses)
    BY <2>1 DEF IOThread, RunThread, Connect, OpenSends, OpenPublishes, Close, RunStarts,
                WatchdogFires, MarkStale, WatchdogStops, WatchdogStarts, RunEnds,
                RunReturns, TimePasses, subVars
  <2> QED BY <2>3, <2>4, Zenon
<1> QED
  <2>1. ~ (Connect \/ Close \/ RunStarts \/ WatchdogStops \/ WatchdogStarts \/ RunEnds
           \/ RunReturns \/ Stop \/ Message \/ LinkFails \/ Done)
    BY <1>1 DEF Connect, Close, RunStarts, WatchdogStops, WatchdogStarts, RunEnds, RunReturns,
                HaltIO, Stop, Message, LinkFails, IsOpen, Done
  <2> QED BY <1>2, <1>3, <1>4, <1>5, <2>1 DEF Next, IOThread, RunThread

\* Nothing holds up the replacement of a half-open connection: with WatchdogSees, the
\* safety half of HalfOpenIsReplaced (WebSocketClient.cpp:157-158, 185, 220-241).
THEOREM ReplacementAdvances == Spec => ReplacementOnlyAdvances
<1>1. PhaseInv /\ PhaseInv' /\ [Next]_vars =>
        [link = "half_open" /\ link' = "half_open" /\ running' =>
           /\ StepsToReplacement' <= StepsToReplacement
           /\ IOThread \/ RunThread => StepsToReplacement' < StepsToReplacement
           /\ TimePasses /\ main_pc = "watch" /\ io = "live" =>
                StepsToReplacement' < StepsToReplacement]_vars
  <2> SUFFICES ASSUME PhaseInv, PhaseInv', Next,
                      link = "half_open", link' = "half_open", running'
               PROVE  /\ StepsToReplacement' <= StepsToReplacement
                      /\ IOThread \/ RunThread => StepsToReplacement' < StepsToReplacement
                      /\ TimePasses /\ main_pc = "watch" /\ io = "live" =>
                           StepsToReplacement' < StepsToReplacement
    OBVIOUS
  <2>1. /\ CallbackStepsLeft \in Nat /\ WatchdogStepsLeft \in Nat
        /\ CallbackStepsLeft' \in Nat /\ WatchdogStepsLeft' \in Nat
    BY StepsAreNumbers, StepsAreNumbersNext
  <2>2. /\ StepsToReplacement' <= StepsToReplacement
        /\ CallbackStepsLeft' < CallbackStepsLeft \/ WatchdogStepsLeft' < WatchdogStepsLeft
             => StepsToReplacement' < StepsToReplacement
    BY <2>1, HalfOpenStep, SumFalls DEF StepsToReplacement
  <2> QED BY <2>2, HalfOpenStep, Zenon
<1> QED BY <1>1, PhaseInvariant, PTL DEF Spec, ReplacementOnlyAdvances

\* The steps of run() until it returns, if the client is stopped.
RunStepsLeft ==
  CASE main_pc = "mark"  -> 5 [] main_pc = "halt" -> 4 [] main_pc = "restart" -> 3
    [] main_pc = "watch" -> 2 [] main_pc \in {"start", "join"} -> 1 [] OTHER -> 0

\* Once stop() has been called nothing starts the client again, wherever run() was:
\* each of its steps brings it closer to its end, also through a restart that the
\* watchdog has begun; and while it waits for the I/O thread, that thread only ends.
StopOnlyAdvances ==
  [][~ running =>
       /\ ~ running'
       /\ RunStepsLeft' <= RunStepsLeft
       /\ RunThread => RunStepsLeft' < RunStepsLeft
       /\ StopRequested => CallbackStepsLeft' <= CallbackStepsLeft
       /\ StopRequested /\ IOThread => CallbackStepsLeft' < CallbackStepsLeft]_vars

\* After stop() each step of run() is one of its way out; once it waits for the I/O
\* thread, that thread makes no connection any more.
LEMMA StoppedStep ==
  ASSUME PhaseInv, Next, ~ running
  PROVE  /\ ~ running'
         /\ RunStepsLeft' <= RunStepsLeft
         /\ RunThread => RunStepsLeft' < RunStepsLeft
         /\ StopRequested => CallbackStepsLeft' <= CallbackStepsLeft
         /\ StopRequested /\ IOThread => CallbackStepsLeft' < CallbackStepsLeft
<1>1. CASE RunThread
  <2>1. ~ running' /\ RunStepsLeft' < RunStepsLeft /\ RunStepsLeft' <= RunStepsLeft
    BY <1>1 DEF RunThread, RunStarts, WatchdogFires, MarkStale, WatchdogStops, WatchdogStarts,
                RunEnds, RunReturns, RunStepsLeft
  <2>2. StopRequested => CallbackStepsLeft' <= CallbackStepsLeft
    <3> SUFFICES ASSUME StopRequested
                 PROVE  CallbackStepsLeft' <= CallbackStepsLeft
      OBVIOUS
    <3>1. HaltIO
      BY <1>1 DEF RunThread, RunStarts, WatchdogFires, MarkStale, WatchdogStops,
                  WatchdogStarts, RunEnds, RunReturns, StopRequested
    <3>2. CallbackStepsLeft' = 0
      BY <3>1 DEF HaltIO, CallbackStepsLeft
    <3> QED BY <3>2, StepsAreNumbers
  <2>3. main_pc' # main_pc
    BY <1>1 DEF RunThread, RunStarts, WatchdogFires, MarkStale, WatchdogStops, WatchdogStarts,
                RunEnds, RunReturns
  <2>4. ~ IOThread
    BY <2>3 DEF IOThread, Connect, OpenSends, OpenPublishes, Close, mainVars
  <2> QED BY <2>1, <2>2, <2>4, Zenon
<1>2. CASE ~ RunThread
  <2>1. UNCHANGED mainVars
    BY <1>2 DEF Next, IOThread, SubThread, Connect, OpenSends, OpenPublishes, Close, Stop,
                SubscribeRecords, SubscribeChecks, SubscribeSends, Message, LinkFails,
                TimePasses, Done, vars, mainVars
  <2>2. RunStepsLeft' = RunStepsLeft /\ RunStepsLeft \in Nat
    BY <2>1 DEF mainVars, RunStepsLeft
  <2>3. RunStepsLeft' <= RunStepsLeft
    BY <2>2
  <2>4. CASE IOThread
    <3>1. StopRequested => /\ CallbackStepsLeft' <= CallbackStepsLeft
                           /\ CallbackStepsLeft' < CallbackStepsLeft
      BY <2>4 DEF IOThread, Connect, OpenSends, OpenPublishes, Close, CallbackStepsLeft
    <3> QED BY <1>2, <2>1, <2>3, <3>1, Zenon DEF mainVars
  <2>5. CASE ~ IOThread
    <3>1. io' = io
      BY <1>2, <2>5 DEF Next, SubThread, Stop, SubscribeRecords, SubscribeChecks, SubscribeSends,
                        Message, LinkFails, TimePasses, Done, vars, netVars
    <3>2. CallbackStepsLeft' = CallbackStepsLeft
      BY <3>1 DEF CallbackStepsLeft
    <3>3. CallbackStepsLeft' <= CallbackStepsLeft
      BY <3>2, StepsAreNumbers
    <3>4. ~ running'
      BY <2>1 DEF mainVars
    <3> QED BY <1>2, <2>3, <2>5, <3>3, <3>4, Zenon
  <2> QED BY <2>4, <2>5
<1> QED BY <1>1, <1>2

\* stop() is never undone, whenever a signal handler calls it: before run(), in a
\* callback, or in the middle of the watchdog's restart, which then comes to its end
\* in five more steps of run() (WebSocketClient.cpp:118-123, 220-246, 252-255).
THEOREM StopIsKept == Spec => StopOnlyAdvances
<1>1. PhaseInv /\ [Next]_vars =>
        [~ running =>
           /\ ~ running'
           /\ RunStepsLeft' <= RunStepsLeft
           /\ RunThread => RunStepsLeft' < RunStepsLeft
           /\ StopRequested => CallbackStepsLeft' <= CallbackStepsLeft
           /\ StopRequested /\ IOThread => CallbackStepsLeft' < CallbackStepsLeft]_vars
  BY StoppedStep
<1> QED BY <1>1, PhaseInvariant, PTL DEF Spec, StopOnlyAdvances
=============================================================================
