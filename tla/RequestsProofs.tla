---------------------------- MODULE RequestsProofs ----------------------------
(***************************************************************************)
(* Proofs about Requests, for any number of messages, notifications and    *)
(* lines.  The inductive invariant is the types together with the two      *)
(* equations of the counters: a send moves one counter on each side of     *)
(* both, and only a handler's start and its answer's send move the point   *)
(* that the first equation reads.                                          *)
(***************************************************************************)
EXTENDS Requests, TLAPS

RInv == TypeOK /\ EveryMessageAnswered /\ SendsAccounted

-----------------------------------------------------------------------------
(* Counting.                                                               *)

\* Counted adds one to the counters of a set and to no others.
LEMMA CountedAddsOne ==
    ASSUME CountsOK, NEW S
    PROVE  /\ Counted(S) \in [Counters -> Nat]
           /\ \A c \in Counters :
                 /\ c \in S => Counted(S)[c] = metrics[c] + 1
                 /\ c \notin S => Counted(S)[c] = metrics[c]
  BY DEF Counted, CountsOK

\* A send adds one to the counters it names, one to the fate of the message, and a
\* failure exactly when that fate is one.
LEMMA SendCounts ==
    ASSUME CountsOK, NEW S, Send(S), "send_failures" \notin S,
           disposed \in BOOLEAN, open \in BOOLEAN
    PROVE  /\ CountsOK'
           /\ \A c \in Counters \ {"send_failures"} :
                 /\ c \in S => metrics'[c] = metrics[c] + 1
                 /\ c \notin S => metrics'[c] = metrics[c]
           /\ fate'["delivered"] + fate'["failed"] + fate'["muted"]
                = fate["delivered"] + fate["failed"] + fate["muted"] + 1
           /\ metrics'["send_failures"] - metrics["send_failures"]
                = fate'["failed"] - fate["failed"]
           /\ fate'["muted"] # fate["muted"] => disposed
<1>1. PICK f \in Fates :
          /\ f = "muted" => disposed
          /\ fate' = [fate EXCEPT ![f] = @ + 1]
          /\ metrics' = Counted(S \cup (IF f = "failed" THEN {"send_failures"} ELSE {}))
  BY DEF Send, Fates
<1> DEFINE T == S \cup (IF f = "failed" THEN {"send_failures"} ELSE {})
<1>2. /\ metrics' \in [Counters -> Nat]
      /\ \A c \in Counters :
            /\ c \in T => metrics'[c] = metrics[c] + 1
            /\ c \notin T => metrics'[c] = metrics[c]
  BY <1>1, CountedAddsOne
<1>3. /\ fate' \in [Fates -> Nat]
      /\ fate'[f] = fate[f] + 1
      /\ \A g \in Fates : g # f => fate'[g] = fate[g]
  BY <1>1 DEF CountsOK
<1>4. \A c \in Counters \ {"send_failures"} : c \in T <=> c \in S
  OBVIOUS
<1>5. "send_failures" \in T <=> f = "failed"
  OBVIOUS
<1>6. /\ metrics["send_failures"] \in Nat
      /\ \A g \in Fates : fate[g] \in Nat
  BY DEF CountsOK, Counters
<1> HIDE DEF T
<1>7. metrics'["send_failures"] - metrics["send_failures"] = fate'["failed"] - fate["failed"]
  <2>1. "send_failures" \in Counters /\ "failed" \in Fates
    BY DEF Counters, Fates
  <2> QED
    BY <1>2, <1>3, <1>5, <1>6, <2>1
<1>8. fate'["delivered"] + fate'["failed"] + fate'["muted"]
        = fate["delivered"] + fate["failed"] + fate["muted"] + 1
  BY <1>3, <1>6 DEF Fates
<1>9. fate'["muted"] # fate["muted"] => disposed
  BY <1>1, <1>3 DEF Fates
<1> QED
  BY <1>2, <1>3, <1>4, <1>7, <1>8, <1>9 DEF CountsOK

\* No error's counter is one that the two equations read.
LEMMA ErrorCounters ==
    ASSUME NEW error
    PROVE  ErrorCounter(error) \cap {"requests_received", "parse_errors", "invalid_requests",
                                     "responses_sent", "notifications_sent",
                                     "send_failures"} = {}
<1>1. /\ error = "InvalidParams"  => ErrorCounter(error) = {"invalid_params_errors"}
      /\ error = "MethodNotFound" => ErrorCounter(error) = {"method_not_found_errors"}
      /\ error = "InternalError"  => ErrorCounter(error) = {"internal_errors"}
      /\ error \notin {"InvalidParams", "MethodNotFound", "InternalError"}
           => ErrorCounter(error) = {}
  BY DEF ErrorCounter
<1> QED
  BY <1>1

-----------------------------------------------------------------------------
(* The steps that send or count.                                           *)

LEMMA NotifyStep == ASSUME RInv, Notify PROVE RInv'
<1>1. CountsOK /\ disposed \in BOOLEAN /\ open \in BOOLEAN
  BY DEF RInv, TypeOK, FlagsOK
<1>2. /\ Send({"notifications_sent"}) /\ disposed' = disposed
      /\ UNCHANGED <<session, open, targets, at, request, response>>
  BY DEF Notify, session
<1>3. /\ CountsOK'
      /\ \A c \in Counters \ {"send_failures"} :
            /\ c = "notifications_sent" => metrics'[c] = metrics[c] + 1
            /\ c # "notifications_sent" => metrics'[c] = metrics[c]
      /\ fate'["delivered"] + fate'["failed"] + fate'["muted"]
           = fate["delivered"] + fate["failed"] + fate["muted"] + 1
      /\ metrics'["send_failures"] - metrics["send_failures"]
           = fate'["failed"] - fate["failed"]
      /\ fate'["muted"] # fate["muted"] => disposed
  BY <1>1, <1>2, SendCounts
<1>4. TypeOK'
  BY <1>2, <1>3 DEF RInv, TypeOK, FlagsOK, session, targets, debugger, errorFlags
<1>5. EveryMessageAnswered'
  BY <1>2, <1>3 DEF RInv, EveryMessageAnswered, MessagesHandled, Counters
<1>6. SendsAccounted'
  BY <1>1, <1>2, <1>3 DEF RInv, SendsAccounted, Counters, Fates, CountsOK
<1> QED
  BY <1>4, <1>5, <1>6 DEF RInv

LEMMA ExitEndStep == ASSUME RInv, ExitEnd PROVE RInv'
<1>1. CountsOK /\ disposed \in BOOLEAN /\ open \in BOOLEAN
  BY DEF RInv, TypeOK, FlagsOK
<1>2. /\ at = "exit" /\ at' = "gone" /\ disposed' = disposed
      /\ paused' = FALSE /\ open' = FALSE
      /\ UNCHANGED <<session, breakpoints, errorFlags, game, request, response>>
  BY DEF ExitEnd, session
<1>3. ASSUME CountsOK' PROVE TypeOK'
  <2>1. FlagsOK'
    BY DEF ExitEnd, RInv, TypeOK, FlagsOK, session, errorFlags
  <2> QED
    BY <1>2, <1>3, <2>1 DEF RInv, TypeOK
<1>4. CASE open
  <2>1. Send({"notifications_sent"})
    BY <1>4 DEF ExitEnd
  <2>2. /\ CountsOK'
        /\ \A c \in Counters \ {"send_failures"} :
              /\ c = "notifications_sent" => metrics'[c] = metrics[c] + 1
              /\ c # "notifications_sent" => metrics'[c] = metrics[c]
        /\ fate'["delivered"] + fate'["failed"] + fate'["muted"]
             = fate["delivered"] + fate["failed"] + fate["muted"] + 1
        /\ metrics'["send_failures"] - metrics["send_failures"]
             = fate'["failed"] - fate["failed"]
        /\ fate'["muted"] # fate["muted"] => disposed
    BY <1>1, <2>1, SendCounts
  <2>3. EveryMessageAnswered'
    BY <1>2, <2>2 DEF RInv, EveryMessageAnswered, MessagesHandled, Counters
  <2>4. SendsAccounted'
    BY <1>1, <1>2, <2>2 DEF RInv, SendsAccounted, Counters, Fates, CountsOK
  <2> QED
    BY <1>3, <2>2, <2>3, <2>4 DEF RInv
<1>5. CASE ~open
  BY <1>1, <1>2, <1>3, <1>5
     DEF ExitEnd, RInv, EveryMessageAnswered, MessagesHandled, SendsAccounted, CountsOK
<1> QED
  BY <1>4, <1>5

LEMMA SendResponseStep == ASSUME RInv, SendResponse PROVE RInv'
<1> DEFINE S == {"responses_sent"} \cup ErrorCounter(response.error)
<1>1. CountsOK /\ disposed \in BOOLEAN /\ open \in BOOLEAN
  BY DEF RInv, TypeOK, FlagsOK
<1>2. /\ at = "answering" /\ at' = "idle" /\ Send(S) /\ disposed' = disposed
      /\ request' = NoRequest /\ response' = NoResponse
      /\ UNCHANGED <<session, open, targets>>
  BY DEF SendResponse, session
<1>3. /\ "responses_sent" \in S
      /\ S \cap {"requests_received", "parse_errors", "invalid_requests",
                 "notifications_sent", "send_failures"} = {}
  BY ErrorCounters
<1> HIDE DEF S
<1>4. /\ CountsOK'
      /\ \A c \in Counters \ {"send_failures"} :
            /\ c \in S => metrics'[c] = metrics[c] + 1
            /\ c \notin S => metrics'[c] = metrics[c]
      /\ fate'["delivered"] + fate'["failed"] + fate'["muted"]
           = fate["delivered"] + fate["failed"] + fate["muted"] + 1
      /\ metrics'["send_failures"] - metrics["send_failures"]
           = fate'["failed"] - fate["failed"]
      /\ fate'["muted"] # fate["muted"] => disposed
  BY <1>1, <1>2, <1>3, SendCounts
<1>5. /\ metrics'["responses_sent"] = metrics["responses_sent"] + 1
      /\ metrics'["requests_received"] = metrics["requests_received"]
      /\ metrics'["parse_errors"] = metrics["parse_errors"]
      /\ metrics'["invalid_requests"] = metrics["invalid_requests"]
      /\ metrics'["notifications_sent"] = metrics["notifications_sent"]
  BY <1>3, <1>4 DEF Counters
<1>6. TypeOK'
  <2>1. NoResponse \in [error : Errors, result : BOOLEAN]
    BY DEF NoResponse, Errors
  <2> QED
    BY <1>2, <1>4, <2>1
       DEF RInv, TypeOK, FlagsOK, session, targets, debugger, errorFlags
<1>7. EveryMessageAnswered'
  BY <1>1, <1>2, <1>5 DEF RInv, EveryMessageAnswered, MessagesHandled, Counters, CountsOK
<1>8. SendsAccounted'
  BY <1>1, <1>2, <1>4, <1>5 DEF RInv, SendsAccounted, Counters, Fates, CountsOK
<1> QED
  BY <1>6, <1>7, <1>8 DEF RInv

\* A message arrives: one counter of the first equation moves, and the point with it.
LEMMA ArrivalStep ==
    ASSUME RInv, NEW c \in {"requests_received", "parse_errors", "invalid_requests"},
           at = "idle", at' \in {"handling", "answering"}, metrics' = Counted({c}),
           request' \in Requests \cup {NoRequest},
           response' \in [error : Errors, result : BOOLEAN],
           UNCHANGED <<session, open, targets, fate>>
    PROVE  RInv'
<1>1. CountsOK
  BY DEF RInv, TypeOK
<1>2. /\ metrics' \in [Counters -> Nat]
      /\ \A d \in Counters :
            /\ d = c => metrics'[d] = metrics[d] + 1
            /\ d # c => metrics'[d] = metrics[d]
  BY <1>1, CountedAddsOne
<1>3. TypeOK'
  BY <1>2 DEF RInv, TypeOK, FlagsOK, CountsOK, session, targets, debugger, errorFlags
<1>4. EveryMessageAnswered'
  BY <1>1, <1>2 DEF RInv, EveryMessageAnswered, MessagesHandled, Counters, CountsOK
<1>5. SendsAccounted'
  BY <1>1, <1>2 DEF RInv, SendsAccounted, Counters, CountsOK, session
<1> QED
  BY <1>3, <1>4, <1>5 DEF RInv

-----------------------------------------------------------------------------
(* The steps that count nothing.                                           *)

\* What such a step leaves alone, and what it owes to the invariant.
Uncounted ==
    /\ UNCHANGED <<metrics, fate>>
    /\ at' \in {"idle", "handling", "answering", "exit", "gone"}
    /\ at' \in {"handling", "answering"} <=> at \in {"handling", "answering"}
    /\ disposed => disposed'

LEMMA UncountedStep == ASSUME RInv, Uncounted, TypeOK' PROVE RInv'
<1>1. EveryMessageAnswered'
  BY DEF RInv, Uncounted, EveryMessageAnswered, MessagesHandled
<1>2. SendsAccounted'
  BY DEF RInv, Uncounted, SendsAccounted
<1> QED
  BY <1>1, <1>2 DEF RInv

\* A refusal is one of the errors.
LEMMA RefusalIsError == ASSUME NEW r PROVE Refusal(r) \in Errors
  BY DEF Refusal, Errors

\* An answer fills in the response and goes to send it.
LEMMA AnswerStep ==
    ASSUME RInv, NEW error \in Errors, NEW result \in BOOLEAN, Answer(error, result),
           at = "handling", breakpoints' \subseteq Lines, paused' \in BOOLEAN,
           stop_on_error' \in BOOLEAN, pending' \in BOOLEAN, game' \in BOOLEAN
    PROVE  RInv'
<1>1. TypeOK'
  BY DEF RInv, TypeOK, FlagsOK, CountsOK, Answer, session
<1>2. Uncounted
  BY DEF Answer, Uncounted, session
<1> QED
  BY <1>1, <1>2, UncountedStep

\* Every handler answers, and leaves the server's variables of their types.
LEMMA HandlerStep ==
    ASSUME RInv,
           \/ Refuse \/ Throw \/ Resume \/ PauseRequest \/ AddBreakpoint \/ ClearBreakpoints
           \/ DebuggerQuery \/ Query \/ QueryFails \/ FrameQuery \/ SetEntity
           \/ RunBridged \/ RunCommand \/ InitRequest \/ ClearErrorCache
    PROVE  RInv'
<1> USE DEF targets, debugger, errorFlags, Handling
<1>1. /\ breakpoints \subseteq Lines
      /\ paused \in BOOLEAN /\ stop_on_error \in BOOLEAN /\ pending \in BOOLEAN
      /\ game \in BOOLEAN
  BY DEF RInv, TypeOK, FlagsOK
<1>2. {"none", "InvalidParams", "InternalError"} \subseteq Errors
  BY DEF Errors
<1>3. CASE Refuse
  BY <1>1, <1>3, RefusalIsError, AnswerStep DEF Refuse
<1>4. CASE Throw
  BY <1>1, <1>2, <1>4, AnswerStep DEF Throw, Catch
<1>5. CASE Resume \/ PauseRequest
  BY <1>1, <1>2, <1>5, AnswerStep DEF Resume, PauseRequest
<1>6. CASE AddBreakpoint
  BY <1>1, <1>2, <1>6, AnswerStep DEF AddBreakpoint
<1>7. CASE ClearBreakpoints
  BY <1>1, <1>2, <1>7, AnswerStep DEF ClearBreakpoints
<1>8. CASE DebuggerQuery \/ Query \/ QueryFails
  BY <1>1, <1>2, <1>8, AnswerStep DEF DebuggerQuery, Query, QueryFails
<1>9. CASE FrameQuery
  BY <1>1, <1>2, <1>9, AnswerStep DEF FrameQuery
<1>10. CASE SetEntity
  BY <1>1, <1>2, <1>10, AnswerStep DEF SetEntity, AnswerSetter
<1>11. CASE RunBridged \/ RunCommand
  BY <1>1, <1>2, <1>11, AnswerStep DEF RunBridged, RunCommand
<1>12. CASE InitRequest
  <2>1. (InitParamsGood /\ request.version = "other") \in BOOLEAN
    OBVIOUS
  <2>2. stop_on_error' \in BOOLEAN
    BY <1>1, <1>12 DEF InitRequest, TakeStop
  <2> QED
    BY <1>1, <1>2, <1>12, <2>1, <2>2, AnswerStep DEF InitRequest
<1>13. CASE ClearErrorCache
  BY <1>1, <1>2, <1>13, AnswerStep DEF ClearErrorCache
<1> QED
  BY <1>3, <1>4, <1>5, <1>6, <1>7, <1>8, <1>9, <1>10, <1>11, <1>12, <1>13

-----------------------------------------------------------------------------
LEMMA InitRInv == Init => RInv
<1> SUFFICES ASSUME Init PROVE RInv
  OBVIOUS
<1>1. NoResponse \in [error : Errors, result : BOOLEAN]
  BY DEF NoResponse, Errors
<1>2. TypeOK
  BY <1>1 DEF Init, TypeOK, FlagsOK, CountsOK
<1>3. EveryMessageAnswered /\ SendsAccounted
  BY DEF Init, EveryMessageAnswered, MessagesHandled, SendsAccounted, Counters, Fates
<1> QED
  BY <1>2, <1>3 DEF RInv

LEMMA StepRInv == RInv /\ [Next]_vars => RInv'
<1> SUFFICES ASSUME RInv, [Next]_vars PROVE RInv'
  OBVIOUS
<1> USE DEF session, targets, debugger, errorFlags
<1>1. CASE Malformed
  <2>1. /\ [error |-> "ParseError", result |-> FALSE] \in [error : Errors, result : BOOLEAN]
        /\ [error |-> "InvalidRequest", result |-> FALSE]
             \in [error : Errors, result : BOOLEAN]
    BY DEF Errors
  <2> QED
    BY <1>1, <2>1, ArrivalStep DEF Malformed, Arrives, RInv, TypeOK
<1>2. CASE Receive
  BY <1>2, ArrivalStep DEF Receive, Arrives, RInv, TypeOK
<1>3. CASE Connect
  <2>1. FlagsOK'
    BY <1>3 DEF Connect, RInv, TypeOK, FlagsOK
  <2>2. TypeOK' /\ Uncounted
    BY <1>3, <2>1 DEF Connect, RInv, TypeOK, CountsOK, Uncounted
  <2> QED
    BY <2>2, UncountedStep
<1>4. CASE Close
  <2>1. FlagsOK'
    BY <1>4 DEF Close, RInv, TypeOK, FlagsOK
  <2>2. TypeOK' /\ Uncounted
    BY <1>4, <2>1 DEF Close, RInv, TypeOK, CountsOK, Uncounted
  <2> QED
    BY <2>2, UncountedStep
<1>5. CASE LineHook
  <2>1. FlagsOK'
    BY <1>5 DEF LineHook, RInv, TypeOK, FlagsOK
  <2>2. TypeOK' /\ Uncounted
    BY <1>5, <2>1 DEF LineHook, RInv, TypeOK, CountsOK, Uncounted
  <2> QED
    BY <2>2, UncountedStep
<1>6. CASE ConsoleError
  <2>1. FlagsOK'
    BY <1>6 DEF ConsoleError, RInv, TypeOK, FlagsOK
  <2>2. TypeOK' /\ Uncounted
    BY <1>6, <2>1 DEF ConsoleError, RInv, TypeOK, CountsOK, Uncounted
  <2> QED
    BY <2>2, UncountedStep
<1>7. CASE ExitBegin
  <2>1. FlagsOK'
    BY <1>7 DEF ExitBegin, Dispose, RInv, TypeOK, FlagsOK
  <2>2. TypeOK' /\ Uncounted
    BY <1>7, <2>1 DEF ExitBegin, Dispose, RInv, TypeOK, CountsOK, Uncounted
  <2> QED
    BY <2>2, UncountedStep
<1>8. CASE Terminated \/ UNCHANGED vars
  <2>1. TypeOK' /\ Uncounted
    BY <1>8 DEF Terminated, vars, RInv, TypeOK, FlagsOK, CountsOK, Uncounted
  <2> QED
    BY <2>1, UncountedStep
<1> QED
  BY <1>1, <1>2, <1>3, <1>4, <1>5, <1>6, <1>7, <1>8,
     NotifyStep, ExitEndStep, SendResponseStep, HandlerStep DEF Next

\* The types and the two equations of the counters hold in every reachable state.
THEOREM Invariance == Spec => []RInv
  BY InitRInv, StepRInv, PTL DEF Spec

\* The server's flags, breakpoints, counters and messages keep their types.
THEOREM TypeCorrect == Spec => []TypeOK
<1>1. RInv => TypeOK
  BY DEF RInv
<1> QED
  BY Invariance, <1>1, PTL

\* However a handler ends, by an answer, a refusal or an exception, its message gets
\* one response.
THEOREM AnswerSafety == Spec => []EveryMessageAnswered
<1>1. RInv => EveryMessageAnswered
  BY DEF RInv
<1> QED
  BY Invariance, <1>1, PTL

\* The counters of send_response and send_notify account for all that was sent.
THEOREM AccountingSafety == Spec => []SendsAccounted
<1>1. RInv => SendsAccounted
  BY DEF RInv
<1> QED
  BY Invariance, <1>1, PTL

\* A refused request has changed neither the debugger nor the error flags, and the
\* game only where it ran Lua.
THEOREM RefusalSafety == Spec => RefusedChangesNothing
<1> DEFINE A == /\ at = "handling" /\ at' = "answering"
                /\ response'.error \notin {"none", "InternalError"}
                => /\ UNCHANGED <<debugger, errorFlags>>
                   /\ request.method \notin FrameQueries \cup Setters => UNCHANGED game
<1>1. [Next]_vars => [A]_vars
  <2> SUFFICES ASSUME Next, at = "handling", at' = "answering",
                      response'.error \notin {"none", "InternalError"}
               PROVE  /\ UNCHANGED <<debugger, errorFlags>>
                      /\ request.method \notin FrameQueries \cup Setters => UNCHANGED game
    BY DEF vars
  <2> USE DEF targets, debugger, errorFlags, Handling, Answer
  <2>1. CASE Refuse \/ Throw
    BY <2>1 DEF Refuse, Throw, Catch
  <2>2. CASE Resume \/ PauseRequest \/ AddBreakpoint \/ ClearBreakpoints
             \/ ClearErrorCache
    BY <2>2 DEF Resume, PauseRequest, AddBreakpoint, ClearBreakpoints, ClearErrorCache
  <2>3. CASE DebuggerQuery \/ Query \/ QueryFails \/ FrameQuery
    BY <2>3 DEF DebuggerQuery, Query, QueryFails, FrameQuery
  <2>4. CASE SetEntity
    BY <2>4 DEF SetEntity, AnswerSetter
  <2>5. CASE RunBridged \/ RunCommand
    BY <2>5 DEF RunBridged, RunCommand
  <2>6. CASE InitRequest
    BY <2>6 DEF InitRequest, TakeStop
  <2>7. CASE Notify \/ Connect \/ Close \/ LineHook \/ ConsoleError \/ ExitBegin \/ ExitEnd
             \/ Terminated \/ Malformed \/ Receive \/ SendResponse
    BY <2>7 DEF Notify, Connect, Close, LineHook, ConsoleError, ExitBegin, ExitEnd,
                Terminated, Malformed, Receive, SendResponse, Arrives, vars
  <2> QED
    BY <2>1, <2>2, <2>3, <2>4, <2>5, <2>6, <2>7 DEF Next
<1> QED
  BY <1>1, PTL DEF Spec, RefusedChangesNothing
=============================================================================
