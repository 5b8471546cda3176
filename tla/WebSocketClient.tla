--------------------------- MODULE WebSocketClient ---------------------------
(***************************************************************************)
(* src/gateway/WebSocketClient.cpp: three threads and the server.          *)
(*   - the I/O thread of the WebSocket library runs the callback (Open,    *)
(*     Close, Message) and reconnects by itself after a Close;             *)
(*   - the thread in run() is the staleness watchdog;                      *)
(*   - the re-discovery thread calls subscribe().                          *)
(* A connection is good, dead with the Close still to come, or half-open:  *)
(* dead without any event.  What is sent on a good connection arrives.     *)
(* Time since the last message counts watchdog ticks up to just past the   *)
(* staleness limit.                                                        *)
(***************************************************************************)
EXTENDS Naturals, FiniteSets

CONSTANTS
  Token,        \* asset ids
  BootTokens,   \* those known when the client is constructed
  StaleTimeout  \* STALE_TIMEOUT_MS, in ticks of the clock

ASSUME TokenAssumption == BootTokens \subseteq Token
ASSUME StaleAssumption == StaleTimeout \in Nat /\ StaleTimeout > 0

VARIABLES
  running,            \* running_
  connected,          \* connected_
  last_msg,           \* time since last_msg_ms_ was stored
  full_subscription,  \* the ids in full_subscription_json_
  main_pc,            \* the thread in run()
  sub_pc,             \* the thread in subscribe()
  new_tokens,         \* its argument
  io,                 \* the library's I/O thread (external)
  link,               \* the connection (external)
  server_tokens,      \* what the server sends on this connection (external)
  overlapped          \* history: ids whose subscribe() met the Open callback

mainVars == <<running, main_pc>>
subVars  == <<sub_pc, new_tokens, full_subscription>>
netVars  == <<io, link, server_tokens>>
vars == <<mainVars, subVars, netVars, connected, last_msg, overlapped>>

IsOpen == io \in {"opening", "opened", "live"} /\ link = "good"

\* ws.send: lost without a trace when the connection is not good.
Send(ids) ==
  server_tokens' = IF IsOpen THEN server_tokens \union ids ELSE server_tokens

Init ==
  /\ running = TRUE
  /\ connected = FALSE
  /\ last_msg = 0
  /\ full_subscription = BootTokens
  /\ main_pc = "start"
  /\ sub_pc = "idle"
  /\ new_tokens = {}
  /\ io = "stopped"
  /\ link = "none"
  /\ server_tokens = {}
  /\ overlapped = {}

-----------------------------------------------------------------------------
(* The callback, on the I/O thread. *)

\* ws.stop() has asked the I/O thread to end: it does not connect again.
StopRequested == main_pc \in {"halt", "join"}

\* The library connects; the handshake is complete and Open is reported.
Connect ==
  /\ io = "connecting"
  /\ ~ StopRequested
  /\ io' = "opening"
  /\ link' = "good"
  /\ server_tokens' = {}
  /\ UNCHANGED <<mainVars, subVars, connected, last_msg, overlapped>>

\* (mutant) a reconnect replays the subscription built at construction
OpenSendsBootTokens ==
  /\ io = "opening"
  /\ Send(BootTokens)
  /\ overlapped' = {}
  /\ io' = "opened"
  /\ UNCHANGED <<mainVars, subVars, link, connected, last_msg>>

\* Open, under subscription_mutex_: replay every id.
OpenSends ==
  /\ io = "opening"
  /\ Send(full_subscription)
  /\ overlapped' = {}
  /\ io' = "opened"
  /\ UNCHANGED <<mainVars, subVars, link, connected, last_msg>>

\* Open, after the mutex: last_msg_ms_ and then connected_.
OpenPublishes ==
  /\ io = "opened"
  /\ last_msg' = 0
  /\ connected' = TRUE
  /\ io' = "live"
  /\ UNCHANGED <<mainVars, subVars, link, server_tokens, overlapped>>

\* Close: the library will reconnect.
Close ==
  /\ io = "live"
  /\ link = "dead"
  /\ connected' = FALSE
  /\ io' = "connecting"
  /\ link' = "none"
  /\ UNCHANGED <<mainVars, subVars, server_tokens, last_msg, overlapped>>

\* Message, oversized or not: the liveness timestamp, then the parser.
Message ==
  /\ io = "live"
  /\ link = "good"
  /\ server_tokens # {}
  /\ last_msg' = 0
  /\ UNCHANGED <<mainVars, subVars, netVars, connected, overlapped>>

\* The peer or the network ends the connection, with or without an event.
LinkFails ==
  /\ IsOpen
  /\ link' \in {"dead", "half_open"}
  /\ UNCHANGED <<mainVars, subVars, io, server_tokens, connected, last_msg, overlapped>>

TimePasses ==
  /\ last_msg <= StaleTimeout
  /\ last_msg' = last_msg + 1
  /\ UNCHANGED <<mainVars, subVars, netVars, connected, overlapped>>

-----------------------------------------------------------------------------
(* run() *)

\* (mutant) run() asserts running_ again, as if nobody could have stopped it
RunStartsAnyway ==
  /\ main_pc = "start"
  /\ running' = TRUE
  /\ main_pc' = "watch"
  /\ io' = "connecting"
  /\ UNCHANGED <<subVars, link, server_tokens, connected, last_msg, overlapped>>

\* A stop() that came before run() is honoured; otherwise ws.start().
RunStarts ==
  /\ main_pc = "start"
  /\ IF running
       THEN main_pc' = "watch" /\ io' = "connecting"
       ELSE main_pc' = "returned" /\ UNCHANGED io
  /\ UNCHANGED <<running, subVars, link, server_tokens, connected, last_msg, overlapped>>

\* (mutant) the watchdog trusts the library to report every lost connection
NeverStale == FALSE

IsStale == connected /\ last_msg > StaleTimeout

\* One iteration decides that the connection is stale ...
WatchdogFires ==
  /\ main_pc = "watch"
  /\ running
  /\ IsStale
  /\ main_pc' = "mark"
  /\ UNCHANGED <<running, subVars, netVars, connected, last_msg, overlapped>>

\* (mutant) the replacement is left to the library once the connection is marked
MarkStaleOnly ==
  /\ main_pc = "mark"
  /\ connected' = FALSE
  /\ last_msg' = 0
  /\ main_pc' = "watch"
  /\ UNCHANGED <<running, subVars, netVars, overlapped>>

\* ... marks it, so that it does not fire again ...
MarkStale ==
  /\ main_pc = "mark"
  /\ connected' = FALSE
  /\ last_msg' = 0
  /\ main_pc' = "halt"
  /\ UNCHANGED <<running, subVars, netVars, overlapped>>

\* ws.stop() joins the I/O thread, so it waits for a callback to end, and
\* reports a Close for a connection that was open.
HaltIO ==
  /\ io \in {"connecting", "live"}
  /\ io' = "stopped"
  /\ link' = "none"
  /\ connected' = IF io = "live" THEN FALSE ELSE connected
  /\ UNCHANGED server_tokens

\* ... and replaces it: ws.stop(), ws.start().
WatchdogStops ==
  /\ main_pc = "halt"
  /\ HaltIO
  /\ main_pc' = "restart"
  /\ UNCHANGED <<running, subVars, last_msg, overlapped>>

WatchdogStarts ==
  /\ main_pc = "restart"
  /\ io' = "connecting"
  /\ main_pc' = "watch"
  /\ UNCHANGED <<running, subVars, link, server_tokens, connected, last_msg, overlapped>>

\* The loop sees running_ false ...
RunEnds ==
  /\ main_pc = "watch"
  /\ ~ running
  /\ main_pc' = "join"
  /\ UNCHANGED <<running, subVars, netVars, connected, last_msg, overlapped>>

\* ... and the final ws.stop() joins the I/O thread.
RunReturns ==
  /\ main_pc = "join"
  /\ HaltIO
  /\ main_pc' = "returned"
  /\ UNCHANGED <<running, subVars, last_msg, overlapped>>

\* stop(), from a signal handler at any moment.
Stop ==
  /\ running
  /\ running' = FALSE
  /\ UNCHANGED <<main_pc, subVars, netVars, connected, last_msg, overlapped>>

-----------------------------------------------------------------------------
(* subscribe(new_tokens) *)

\* Under subscription_mutex_: the ids join full_subscription_json_.  An empty
\* list returns at once.
SubscribeRecords ==
  /\ sub_pc = "idle"
  /\ \E batch \in SUBSET (Token \ full_subscription) \ {{}} :
       /\ new_tokens' = batch
       /\ full_subscription' = full_subscription \union batch
       /\ overlapped' = IF io = "opened" THEN overlapped \union batch ELSE overlapped
  /\ sub_pc' = "check"
  /\ UNCHANGED <<mainVars, netVars, connected, last_msg>>

\* After the mutex: connected_ decides between sending and leaving the ids to
\* the next Open.
SubscribeChecks ==
  /\ sub_pc = "check"
  /\ sub_pc' = IF connected THEN "send" ELSE "idle"
  /\ UNCHANGED <<mainVars, new_tokens, full_subscription, netVars, connected,
                 last_msg, overlapped>>

SubscribeSends ==
  /\ sub_pc = "send"
  /\ Send(new_tokens)
  /\ sub_pc' = "idle"
  /\ UNCHANGED <<mainVars, new_tokens, full_subscription, io, link, connected,
                 last_msg, overlapped>>

-----------------------------------------------------------------------------
IOThread  == Connect \/ OpenSends \/ OpenPublishes \/ Close
RunThread == RunStarts \/ WatchdogFires \/ MarkStale \/ WatchdogStops
             \/ WatchdogStarts \/ RunEnds \/ RunReturns
SubThread == SubscribeChecks \/ SubscribeSends

\* run() has returned and nobody subscribes.
Done == main_pc = "returned" /\ UNCHANGED vars

Next ==
  \/ IOThread \/ RunThread \/ SubThread
  \/ SubscribeRecords \/ Stop
  \/ Message \/ LinkFails \/ TimePasses
  \/ Done

Spec == Init /\ [][Next]_vars

\* Threads run, the clock runs, and the library gets a connection sometime.
FairSpec ==
  /\ Spec
  /\ WF_vars(IOThread)
  /\ WF_vars(RunThread)
  /\ WF_vars(SubThread)
  /\ WF_vars(TimePasses)

-----------------------------------------------------------------------------
(* Properties. *)

\* A connection that both sides believe in, with no subscribe() under way.
Settled == connected /\ IsOpen /\ io = "live" /\ sub_pc = "idle"

\* What WebSocketClient.hpp:74-75 promises of subscribe(): the new tokens are
\* subscribed on the live connection.
LiveConnectionHasAllTokens == Settled => full_subscription \subseteq server_tokens

\* The extent of the exception: only ids whose subscribe() ran between the
\* two halves of the Open callback can be missing on a live connection, and
\* the next reconnect replays them.
OnlyOverlappedTokensAreMissing ==
  Settled => full_subscription \ overlapped \subseteq server_tokens

\* The watchdog looks at connections through connected_ only.  It is never blind to
\* one that is up, whatever its stores of connected_ raced, or it would leave a
\* half-open one alone for ever; and it never takes one that is still being made for
\* a connection gone silent, or it would tear down every attempt.
WatchdogIsNotBlind == main_pc = "watch" => (connected <=> io = "live")

\* What is left of an Open callback, and of the I/O thread's way to a standstill once
\* ws.stop() waits for it.
CallbackStepsLeft ==
  CASE io = "opening" -> 3 [] io = "opened" -> 2 [] io = "live" -> 1 [] OTHER -> 0

\* The clock up to the limit, counted from the callback's timestamp, and the steps of
\* the watchdog after it.
WatchdogStepsLeft ==
  CASE main_pc = "halt" -> 0
    [] main_pc = "mark" -> 1
    [] OTHER            -> 2 + (StaleTimeout + 1 - (IF io = "live" THEN last_msg ELSE 0))

\* From a half-open connection to its end.
StepsToReplacement == CallbackStepsLeft + WatchdogStepsLeft

\* Nothing holds up the replacement of a half-open connection: no late callback and no
\* subscribe() makes it look fresh again, and every step of the watchdog and of the
\* callback brings it closer, as does the clock while the watchdog waits for it.
ReplacementOnlyAdvances ==
  [][link = "half_open" /\ link' = "half_open" /\ running' =>
       /\ StepsToReplacement' <= StepsToReplacement
       /\ IOThread \/ RunThread => StepsToReplacement' < StepsToReplacement
       /\ TimePasses /\ main_pc = "watch" /\ io = "live" =>
            StepsToReplacement' < StepsToReplacement]_vars

\* A half-open connection is replaced although no event ever reports it.
HalfOpenIsReplaced == (link = "half_open") ~> (link # "half_open" \/ ~ running)

\* stop() is never lost, whenever it comes: before run(), while the library
\* connects, in a callback, or while the watchdog restarts the connection.
StopEndsRun == (~ running) ~> (main_pc = "returned" /\ io = "stopped")
=============================================================================
