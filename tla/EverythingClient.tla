-------------------------- MODULE EverythingClient --------------------------
(***************************************************************************)
(* fs::EverythingClient (everything_client.cpp): requests for a folder's   *)
(* size over a named pipe, with time-outs and reconnection.                *)
(*                                                                         *)
(* Every operation holds m_mutex from its first statement to its last, so  *)
(* that there is one call at a time and a caller that waits for the mutex  *)
(* is as one that has not called.  The pipe carries units of eight bytes,  *)
(* the size of a message's header and of a folder's size.  A read or write *)
(* that fails or times out in the middle of a unit is as one before it:    *)
(* the rest of that unit is among what is then read as something else.     *)
(***************************************************************************)
EXTENDS Integers, Sequences

CONSTANTS
  Folder, Connecting, Disconnecting, Idle,
  NoAnswer, WrongSize,    \* nothing, and what a misread unit is taken for
  PIPES, TRIES,           \* the pipe names, and the tries of each
  RECONNECT_INTERVAL,
  MAX_SKIP,               \* the longest payload that is skipped: 4096 bytes
  MaxPayload,             \* bound on the payload of a refusal
  Capacity,               \* bound on the units the pipe holds for the client
  MaxRequests             \* bound on the requests it holds for the service

ASSUME EverythingAssumption ==
  /\ {PIPES, TRIES} \subseteq Nat \ {0}
  /\ {RECONNECT_INTERVAL, MAX_SKIP, MaxPayload, Capacity, MaxRequests} \subseteq Nat
  /\ Connecting # Disconnecting /\ Idle \notin Folder
  /\ {Connecting, Disconnecting} \cap (Folder \cup {Idle}) = {}
  /\ {NoAnswer, WrongSize} \cap Folder = {} /\ NoAnswer # WrongSize

VARIABLES
  request,       \* what the holder of m_mutex does; Idle if nobody holds it
  callPc,        \* where it stands
  attempt,       \* in connect_impl: the pipe's number and the try
  need,          \* in read_pipe: units still to skip
  more,          \* the reply's code is OK_MORE_DATA
  answer,        \* what the last call returned
  m_connected,   \* with a valid m_pipe and its two events
  sinceAttempt,  \* age of m_lastConnectAttempt, up to RECONNECT_INTERVAL
  inbox,         \* units the service has written and nobody has read
  work,          \* folders the service was asked about and has not answered
  leftBehind     \* history: the pipe was kept with a part of a reply unread

callVars == <<request, callPc, attempt, need, more, answer>>
pipeVars == <<m_connected, inbox, work, leftBehind>>
everythingVars == <<callVars, pipeVars, sinceAttempt>>

Code    == {"OK", "OK_MORE_DATA", "refused"}
Payload == (0 .. MaxPayload) \cup {1}

HeaderUnit(code, size) == [kind |-> "header", code |-> code, size |-> size]
SizeUnit(f)            == [kind |-> "size", folder |-> f]
SentinelUnit           == [kind |-> "not indexed"]
TextUnit               == [kind |-> "text"]

Unit == {HeaderUnit(c, n) : c \in Code, n \in Payload}
        \cup {SizeUnit(f) : f \in Folder} \cup {SentinelUnit, TextUnit}

(* What the service may reply: a size, that it has none, several messages, *)
(* or a refusal, or a reply of another length.                             *)
Other(code, n) == <<HeaderUnit(code, n)>> \o [i \in 1 .. n |-> TextUnit]
Replies(f) ==
  {<<HeaderUnit("OK", 1), SizeUnit(f)>>, <<HeaderUnit("OK", 1), SentinelUnit>>,
   <<HeaderUnit("OK_MORE_DATA", 1), SizeUnit(f), HeaderUnit("OK", 1), SizeUnit(f)>>}
  \cup {Other("refused", n) : n \in Payload} \cup {Other("OK", n) : n \in Payload \ {1}}

(* A unit that is read as a header, or as a size, whatever it is.          *)
AsHeader(u) == IF u.kind = "header" THEN {u}
               ELSE {HeaderUnit(c, n) : c \in Code, n \in Payload}
AsSize(u)   == CASE u.kind = "size" -> u.folder
                 [] u.kind = "not indexed" -> NoAnswer
                 [] OTHER -> WrongSize

EverythingInit ==
  /\ request = Idle /\ callPc = "idle" /\ attempt = <<1, 1>> /\ need = 0 /\ more = FALSE
  /\ answer = NoAnswer
  /\ m_connected = FALSE /\ sinceAttempt = RECONNECT_INTERVAL
  /\ inbox = <<>> /\ work = <<>> /\ leftBehind = FALSE

Lock(r) ==
  /\ request = Idle
  /\ request' = r
  /\ callPc' = CASE r \in Folder -> "ensure" [] r = Connecting -> "connect"
                 [] OTHER -> "disconnect"
  /\ UNCHANGED <<attempt, need, more, answer, pipeVars, sinceAttempt>>

Return(a) == /\ request' = Idle /\ callPc' = "idle" /\ answer' = a
             /\ attempt' = <<1, 1>> /\ need' = 0 /\ more' = FALSE

GoTo(place) == callPc' = place /\ UNCHANGED <<request, attempt, need, more, answer>>

(* disconnect_impl, which closes the pipe with all that is in it.          *)
Disconnected == m_connected' = FALSE /\ inbox' = <<>> /\ work' = <<>> /\ leftBehind' = FALSE

-----------------------------------------------------------------------------
(* ensure_connected, and a mutant of it that starts the interval anew at   *)
(* every call.                                                             *)
EnsureConnectedAfterPause ==
  /\ callPc = "ensure"
  /\ \/ m_connected /\ GoTo("header") /\ UNCHANGED sinceAttempt
     \/ ~m_connected /\ sinceAttempt < RECONNECT_INTERVAL /\ Return(NoAnswer) /\ sinceAttempt' = 0
     \/ ~m_connected /\ sinceAttempt = RECONNECT_INTERVAL /\ GoTo("connect") /\ sinceAttempt' = 0
  /\ UNCHANGED pipeVars

EnsureConnected ==
  /\ callPc = "ensure"
  /\ \/ m_connected /\ GoTo("header") /\ UNCHANGED sinceAttempt
     \/ /\ ~m_connected /\ sinceAttempt < RECONNECT_INTERVAL
        /\ Return(NoAnswer) /\ UNCHANGED sinceAttempt
     \/ /\ ~m_connected /\ sinceAttempt = RECONNECT_INTERVAL
        /\ GoTo("connect") /\ sinceAttempt' = 0
  /\ UNCHANGED pipeVars

(* connect_impl: a pipe opens, or all its instances are busy, or it fails, *)
(* as do the events; then the next name is tried.                          *)
AlreadyConnected ==
  /\ callPc = "connect" /\ m_connected
  /\ Return(NoAnswer)
  /\ UNCHANGED <<pipeVars, sinceAttempt>>

OpenPipe ==
  /\ callPc = "connect" /\ ~m_connected
  /\ m_connected' = TRUE
  /\ IF request \in Folder THEN GoTo("header") ELSE Return(NoAnswer)
  /\ UNCHANGED <<inbox, work, leftBehind, sinceAttempt>>

PipeBusyAgain ==
  /\ callPc = "connect" /\ ~m_connected
  /\ attempt' = [attempt EXCEPT ![2] = @ + 1]
  /\ UNCHANGED <<request, callPc, need, more, answer, pipeVars, sinceAttempt>>

PipeBusy ==
  /\ callPc = "connect" /\ ~m_connected /\ attempt[2] < TRIES
  /\ attempt' = [attempt EXCEPT ![2] = @ + 1]
  /\ UNCHANGED <<request, callPc, need, more, answer, pipeVars, sinceAttempt>>

NextPipe ==
  /\ callPc = "connect" /\ ~m_connected
  /\ IF attempt[1] < PIPES
     THEN attempt' = <<attempt[1] + 1, 1>> /\ UNCHANGED <<request, callPc, need, more, answer>>
     ELSE Return(NoAnswer)
  /\ UNCHANGED <<pipeVars, sinceAttempt>>

-----------------------------------------------------------------------------
(* get_folder_size, connected.  A path that cannot be converted to UTF-8   *)
(* is not sent; a write or a read that fails or times out disconnects.     *)
SendHeader == /\ callPc = "header"
              /\ GoTo("payload") \/ Return(NoAnswer)
              /\ UNCHANGED <<pipeVars, sinceAttempt>>

SendPayload ==
  /\ callPc = "payload" /\ Len(work) < MaxRequests
  /\ GoTo("reply")
  /\ work' = Append(work, request)
  /\ UNCHANGED <<m_connected, inbox, leftBehind, sinceAttempt>>

GiveUpKeepingPipe ==
  /\ callPc \in {"header", "payload", "reply", "size"}
  /\ Return(NoAnswer)
  /\ UNCHANGED <<pipeVars, sinceAttempt>>

GiveUp ==
  /\ callPc \in {"header", "payload", "reply", "size"}
  /\ Return(NoAnswer)
  /\ Disconnected
  /\ UNCHANGED sinceAttempt

(* The header.  A refusal's payload, or one of another length than a       *)
(* size's, is skipped, unless it is too long.                              *)
ReadHeaderOfRefusal ==
  /\ callPc = "reply" /\ inbox # <<>>
  /\ \E h \in AsHeader(Head(inbox)) :
       IF h.code = "refused" \/ h.size # 1
       THEN Return(NoAnswer) /\ leftBehind' = (leftBehind \/ h.size > MAX_SKIP)
       ELSE /\ more' = (h.code = "OK_MORE_DATA") /\ callPc' = "size"
            /\ UNCHANGED <<request, attempt, need, answer, leftBehind>>
  /\ inbox' = Tail(inbox)
  /\ UNCHANGED <<m_connected, work, sinceAttempt>>

ReadHeader ==
  /\ callPc = "reply" /\ inbox # <<>>
  /\ \E h \in AsHeader(Head(inbox)) :
       IF h.code = "refused" \/ h.size # 1
       THEN IF h.size \in 1 .. MAX_SKIP
            THEN /\ need' = h.size /\ callPc' = "skip"
                 /\ UNCHANGED <<request, attempt, more, answer, leftBehind>>
            ELSE Return(NoAnswer) /\ leftBehind' = (leftBehind \/ h.size > 0)
       ELSE /\ more' = (h.code = "OK_MORE_DATA") /\ callPc' = "size"
            /\ UNCHANGED <<request, attempt, need, answer, leftBehind>>
  /\ inbox' = Tail(inbox)
  /\ UNCHANGED <<m_connected, work, sinceAttempt>>

SkipUnit ==
  /\ callPc = "skip" /\ inbox # <<>>
  /\ inbox' = Tail(inbox)
  /\ IF need > 1
     THEN need' = need - 1 /\ UNCHANGED <<request, callPc, attempt, more, answer>>
     ELSE Return(NoAnswer)
  /\ UNCHANGED <<m_connected, work, leftBehind, sinceAttempt>>

(* The result of this read is not looked at.                               *)
SkipFailsWithoutTimeOut ==
  /\ callPc = "skip" /\ inbox # <<>>
  /\ Return(NoAnswer)
  /\ leftBehind' = TRUE
  /\ UNCHANGED <<m_connected, inbox, work, sinceAttempt>>

SkipFails ==
  /\ callPc = "skip"
  /\ Return(NoAnswer)
  /\ leftBehind' = TRUE
  /\ UNCHANGED <<m_connected, inbox, work, sinceAttempt>>

(* The size.  Messages that OK_MORE_DATA announces are not read.           *)
ReadSize ==
  /\ callPc = "size" /\ inbox # <<>>
  /\ Return(AsSize(Head(inbox)))
  /\ inbox' = Tail(inbox)
  /\ leftBehind' = (leftBehind \/ more)
  /\ UNCHANGED <<m_connected, work, sinceAttempt>>

Disconnect == /\ callPc = "disconnect"
              /\ Return(NoAnswer)
              /\ Disconnected
              /\ UNCHANGED sinceAttempt

CallStep == \/ EnsureConnected \/ AlreadyConnected \/ OpenPipe \/ PipeBusy \/ NextPipe
            \/ SendHeader \/ SendPayload \/ GiveUp \/ ReadHeader
            \/ SkipUnit \/ SkipFails \/ ReadSize \/ Disconnect

-----------------------------------------------------------------------------
(* The service answers the requests of a connection in their order, at any *)
(* time.                                                                   *)
Serve ==
  /\ work # <<>>
  /\ \E m \in Replies(Head(work)) :
       Len(inbox) + Len(m) <= Capacity /\ inbox' = inbox \o m
  /\ work' = Tail(work)
  /\ UNCHANGED <<callVars, m_connected, leftBehind, sinceAttempt>>

EverythingTick == /\ sinceAttempt < RECONNECT_INTERVAL
                  /\ sinceAttempt' = sinceAttempt + 1
                  /\ UNCHANGED <<callVars, pipeVars>>

AskForSize == \E f \in Folder : Lock(f)

EverythingNext ==
  AskForSize \/ Lock(Connecting) \/ Lock(Disconnecting) \/ CallStep \/ Serve \/ EverythingTick

EverythingSpec == EverythingInit /\ [][EverythingNext]_everythingVars

(* A call's reads and writes end by their time-outs.  For Reconnects: time *)
(* passes, somebody asks again and again, and a pipe that is tried again   *)
(* and again opens at last.                                                *)
EverythingFairness ==
  /\ WF_everythingVars(CallStep)
  /\ WF_everythingVars(EverythingTick)
  /\ SF_everythingVars(AskForSize)
  /\ SF_everythingVars(OpenPipe)

-----------------------------------------------------------------------------
(* Types, and what the states of a call have in common: there is a place   *)
(* exactly while the mutex is held, a pipe is tried at most TRIES times    *)
(* and there are PIPES of them, and only a closed pipe is reconnected.     *)
EverythingTypeOK ==
  /\ request \in Folder \cup {Connecting, Disconnecting, Idle}
  /\ callPc \in {"idle", "ensure", "connect", "disconnect", "header", "payload", "reply",
                 "size", "skip"}
  /\ callPc = "idle" <=> request = Idle
  /\ attempt \in (1 .. PIPES) \X (1 .. TRIES)
  /\ need \in Payload /\ (callPc = "skip" => need > 0)
  /\ more \in BOOLEAN /\ leftBehind \in BOOLEAN /\ m_connected \in BOOLEAN
  /\ sinceAttempt \in 0 .. RECONNECT_INTERVAL
  /\ answer \in Folder \cup {NoAnswer, WrongSize}
  /\ inbox \in Seq(Unit) /\ work \in Seq(Folder)
  /\ callPc \in {"header", "payload", "reply", "size", "skip"} => m_connected /\ request \in Folder
  /\ ~m_connected => inbox = <<>> /\ work = <<>> /\ ~leftBehind

(* Between two calls a connection that is kept is in step: every request   *)
(* on it was answered, and every reply was read to its end, whatever it    *)
(* was, unless a skip failed, a payload was too long to be skipped, or     *)
(* OK_MORE_DATA announced another message (get_folder_size).               *)
StaysInStep == callPc = "idle" /\ ~leftBehind => inbox = <<>> /\ work = <<>>

(* get_folder_size answers about the folder it was asked for, or nothing,  *)
(* on any connection that is in step: time-outs, refusals, replies of      *)
(* another length and reconnections never let one request's reply answer   *)
(* another.                                                                *)
EverythingQueries == INSTANCE EverythingQuery WITH asked <- request, outOfStep <- leftBehind
KeepsQueryPromise == EverythingQueries!Spec

(* No call keeps m_mutex for ever, whatever the service does or does not   *)
(* do: shutdown_foldersize waits for it, under the loader lock.            *)
MutexIsReleased == request # Idle ~> request = Idle

(* After a disconnection the client connects again, however often it is    *)
(* asked meanwhile: RECONNECT_INTERVAL counts from the last attempt and    *)
(* not from the last request.                                              *)
Reconnects == ~m_connected ~> m_connected
=============================================================================
