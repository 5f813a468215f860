-------------------------- MODULE EverythingProofs --------------------------
(***************************************************************************)
(* The safety of EverythingClient, for any folders, pipes, tries and       *)
(* lengths: its types, that a connection stays in step, and the promise of *)
(* EverythingQuery.                                                        *)
(***************************************************************************)
EXTENDS EverythingClient, TLAPS

(* Where a connection that is in step stands at each place of a call: what *)
(* the service was asked, and what it has answered, is what the call still *)
(* reads.                                                                  *)
Aligned ==
  ~leftBehind =>
    /\ callPc \notin {"reply", "skip", "size"} => inbox = <<>> /\ work = <<>>
    /\ callPc = "reply" => \/ inbox = <<>> /\ work = <<request>>
                           \/ inbox \in Replies(request) /\ work = <<>>
    /\ callPc = "skip" => work = <<>> /\ Len(inbox) = need
    /\ callPc = "size" => /\ work = <<>> /\ inbox # <<>>
                          /\ Head(inbox) \in {SizeUnit(request), SentinelUnit}
                          /\ ~more => Len(inbox) = 1

Sizing == callPc = "ensure" => request \in Folder

EverythingInv == EverythingTypeOK /\ Sizing /\ Aligned

-----------------------------------------------------------------------------
(* A reply is made of units, and what follows its header is what the       *)
(* header says.                                                            *)
LEMMA TextsAreUnits ==
  ASSUME NEW c \in Code, NEW n \in Payload
  PROVE  /\ Other(c, n) \in Seq(Unit) /\ Other(c, n) # <<>>
         /\ Head(Other(c, n)) = HeaderUnit(c, n) /\ Len(Tail(Other(c, n))) = n
<1> DEFINE texts == [i \in 1 .. n |-> TextUnit]
<1>1. n \in Nat
  BY EverythingAssumption DEF Payload
<1>2. HeaderUnit(c, n) \in Unit /\ TextUnit \in Unit
  BY DEF Unit
<1>3. texts \in Seq(Unit) /\ Len(texts) = n
  BY <1>1, <1>2
<1>4. <<HeaderUnit(c, n)>> \in Seq(Unit)
  BY <1>2
<1> HIDE DEF texts
<1>5. Other(c, n) = <<HeaderUnit(c, n)>> \o texts
  BY DEF Other, texts
<1> QED
  BY <1>1, <1>2, <1>3, <1>4, <1>5

LEMMA RepliesAreUnits ==
  ASSUME NEW f \in Folder, NEW m \in Replies(f)
  PROVE  /\ m \in Seq(Unit) /\ m # <<>>
         /\ Head(m).kind = "header" /\ Head(m).code \in Code /\ Head(m).size \in Payload
         /\ Head(m).code = "refused" \/ Head(m).size # 1 => Len(Tail(m)) = Head(m).size
         /\ Head(m).code # "refused" /\ Head(m).size = 1 =>
              /\ Tail(m) # <<>> /\ Head(Tail(m)) \in {SizeUnit(f), SentinelUnit}
              /\ Head(m).code # "OK_MORE_DATA" => Len(Tail(m)) = 1
<1>1. 1 \in Payload /\ {"OK", "OK_MORE_DATA", "refused"} = Code
  BY DEF Payload, Code
<1>2. /\ HeaderUnit("OK", 1) \in Unit /\ HeaderUnit("OK_MORE_DATA", 1) \in Unit
      /\ SizeUnit(f) \in Unit /\ SentinelUnit \in Unit
  BY <1>1 DEF Unit
<1>3. CASE m = <<HeaderUnit("OK", 1), SizeUnit(f)>>
  BY <1>1, <1>2, <1>3 DEF HeaderUnit
<1>4. CASE m = <<HeaderUnit("OK", 1), SentinelUnit>>
  BY <1>1, <1>2, <1>4 DEF HeaderUnit
<1>5. CASE m = <<HeaderUnit("OK_MORE_DATA", 1), SizeUnit(f), HeaderUnit("OK", 1), SizeUnit(f)>>
  BY <1>1, <1>2, <1>5 DEF HeaderUnit
<1>6. ASSUME NEW c \in Code, NEW n \in Payload, m = Other(c, n), c = "refused" \/ n # 1
      PROVE  /\ m \in Seq(Unit) /\ m # <<>>
             /\ Head(m).kind = "header" /\ Head(m).code = c /\ Head(m).size = n
             /\ Len(Tail(m)) = n
  BY <1>6, TextsAreUnits DEF HeaderUnit
<1>7. CASE \E n \in Payload : m = Other("refused", n)
  <2>1. PICK n \in Payload : m = Other("refused", n)
    BY <1>7
  <2>2. "refused" \in Code
    BY <1>1
  <2> QED
    BY <2>1, <2>2, <1>6
<1>8. CASE \E n \in Payload \ {1} : m = Other("OK", n)
  <2>1. PICK n \in Payload \ {1} : m = Other("OK", n)
    BY <1>8
  <2>2. "OK" \in Code
    BY <1>1
  <2> QED
    BY <2>1, <2>2, <1>6
<1> QED
  BY <1>3, <1>4, <1>5, <1>7, <1>8 DEF Replies

-----------------------------------------------------------------------------
LEMMA UnitFields ==
  /\ \A f \in Folder : SizeUnit(f).kind = "size" /\ SizeUnit(f).folder = f
  /\ SentinelUnit.kind = "not indexed"
  BY DEF SizeUnit, SentinelUnit

(* A unit that is read as a header is one, and as a size is an answer.     *)
LEMMA UnitsRead ==
  ASSUME NEW u \in Unit
  PROVE  /\ \A h \in AsHeader(u) : h.code \in Code /\ h.size \in Payload
         /\ AsSize(u) \in Folder \cup {NoAnswer, WrongSize}
         /\ \A f \in Folder : u \in {SizeUnit(f), SentinelUnit} => AsSize(u) \in {f, NoAnswer}
<1>1. CASE \E c \in Code, n \in Payload : u = HeaderUnit(c, n)
  <2>1. PICK c \in Code, n \in Payload : u = HeaderUnit(c, n)
    BY <1>1
  <2>2. u.kind = "header" /\ u.code = c /\ u.size = n
    BY <2>1 DEF HeaderUnit
  <2>3. \A f \in Folder : u # SizeUnit(f) /\ u # SentinelUnit
    BY <2>2, UnitFields
  <2> QED
    BY <2>2, <2>3 DEF AsHeader, AsSize
<1>2. ASSUME u.kind # "header"
      PROVE  \A h \in AsHeader(u) : h.code \in Code /\ h.size \in Payload
  BY <1>2 DEF AsHeader, HeaderUnit
<1>3. CASE \E f \in Folder : u = SizeUnit(f)
  <2>1. PICK f \in Folder : u = SizeUnit(f)
    BY <1>3
  <2>2. u.kind = "size" /\ u.folder = f
    BY <2>1 DEF SizeUnit
  <2>3. AsSize(u) = f
    BY <2>2 DEF AsSize
  <2>4. \A g \in Folder : u \in {SizeUnit(g), SentinelUnit} => g = f
    BY <2>2, UnitFields
  <2> QED
    BY <1>2, <2>2, <2>3, <2>4
<1>4. CASE u = SentinelUnit
  <2>1. u.kind = "not indexed"
    BY <1>4 DEF SentinelUnit
  <2> QED
    BY <1>2, <2>1 DEF AsSize
<1>5. CASE u = TextUnit
  <2>1. u.kind = "text"
    BY <1>5 DEF TextUnit
  <2>2. \A f \in Folder : u # SizeUnit(f) /\ u # SentinelUnit
    BY <2>1, UnitFields
  <2> QED
    BY <1>2, <2>1, <2>2 DEF AsSize
<1> QED
  BY <1>1, <1>3, <1>4, <1>5 DEF Unit

LEMMA Lengths == Payload \subseteq Nat /\ {0, 1} \subseteq Payload
  BY EverythingAssumption DEF Payload

(* What a sequence that is read from the front keeps.                      *)
LEMMA Fronts ==
  ASSUME NEW S, NEW s \in Seq(S), s # <<>>
  PROVE  /\ Head(s) \in S /\ Tail(s) \in Seq(S) /\ Len(Tail(s)) = Len(s) - 1
         /\ Len(Tail(s)) = 0 => Tail(s) = <<>>
<1>1. Head(s) \in S /\ Tail(s) \in Seq(S) /\ Len(Tail(s)) = Len(s) - 1
  OBVIOUS
<1>2. \A z \in Seq(S) : Len(z) = 0 => z = <<>>
  OBVIOUS
<1> QED
  BY <1>1, <1>2

LEMMA FirstTry == <<1, 1>> \in (1 .. PIPES) \X (1 .. TRIES)
<1>1. PIPES \in Nat /\ PIPES # 0 /\ TRIES \in Nat /\ TRIES # 0
  BY EverythingAssumption
<1> QED
  BY <1>1

-----------------------------------------------------------------------------
LEMMA InitEstablishesInv == EverythingInit => EverythingInv
<1>1. ASSUME EverythingInit
      PROVE  EverythingTypeOK
  <2>1. RECONNECT_INTERVAL \in 0 .. RECONNECT_INTERVAL
    BY EverythingAssumption
  <2>2. <<>> \in Seq(Unit) /\ <<>> \in Seq(Folder)
    OBVIOUS
  <2> QED
    BY <1>1, <2>1, <2>2, FirstTry, Lengths DEF EverythingInit, EverythingTypeOK
<1>2. ASSUME EverythingInit
      PROVE  Sizing /\ Aligned
  BY <1>2 DEF EverythingInit, Sizing, Aligned
<1> QED
  BY <1>1, <1>2 DEF EverythingInv

(* A call that ends with a connection in step, or with it closed, or with  *)
(* something left behind.                                                  *)
LEMMA ReturnKeepsInv ==
  ASSUME EverythingInv, NEW a \in Folder \cup {NoAnswer, WrongSize}, Return(a),
         m_connected' \in BOOLEAN, leftBehind' \in BOOLEAN,
         inbox' \in Seq(Unit), work' \in Seq(Folder),
         sinceAttempt' \in 0 .. RECONNECT_INTERVAL,
         ~m_connected' => inbox' = <<>> /\ work' = <<>> /\ ~leftBehind',
         ~leftBehind' => inbox' = <<>> /\ work' = <<>>
  PROVE  EverythingInv'
<1>1. EverythingTypeOK'
  BY FirstTry, Lengths DEF Return, EverythingTypeOK
<1>2. Sizing' /\ Aligned'
  BY DEF Return, Sizing, Aligned
<1> QED
  BY <1>1, <1>2 DEF EverythingInv

LEMMA LockKeepsInv ==
  ASSUME EverythingInv, NEW r \in Folder \cup {Connecting, Disconnecting}, Lock(r)
  PROVE  EverythingInv'
<1>1. EverythingTypeOK'
  BY EverythingAssumption DEF Lock, pipeVars, EverythingTypeOK, EverythingInv
<1>2. Sizing'
  BY DEF Lock, Sizing
<1>3. callPc = "idle" /\ callPc' \in {"ensure", "connect", "disconnect"}
  BY DEF Lock, EverythingTypeOK, EverythingInv
<1>4. Aligned'
  BY <1>3 DEF Lock, pipeVars, Aligned, EverythingInv
<1> QED
  BY <1>1, <1>2, <1>4 DEF EverythingInv

-----------------------------------------------------------------------------
LEMMA EnsureKeepsInv == EverythingInv /\ EnsureConnected => EverythingInv'
<1> SUFFICES ASSUME EverythingInv, EnsureConnected
             PROVE  EverythingInv'
  OBVIOUS
<1>1. EverythingTypeOK /\ Sizing /\ Aligned
  BY DEF EverythingInv
<1>2. RECONNECT_INTERVAL \in Nat
  BY EverythingAssumption
<1>3. callPc = "ensure" /\ UNCHANGED pipeVars
  BY DEF EnsureConnected
<1>4. ~leftBehind => inbox = <<>> /\ work = <<>>
  BY <1>1, <1>3 DEF Aligned
<1>5. CASE m_connected /\ GoTo("header") /\ UNCHANGED sinceAttempt
  <2>1. EverythingTypeOK'
    BY <1>1, <1>3, <1>5 DEF GoTo, pipeVars, EverythingTypeOK, Sizing
  <2>2. Sizing' /\ Aligned'
    BY <1>3, <1>4, <1>5 DEF GoTo, pipeVars, Sizing, Aligned
  <2> QED
    BY <2>1, <2>2 DEF EverythingInv
<1>6. CASE Return(NoAnswer) /\ UNCHANGED sinceAttempt
  BY <1>1, <1>3, <1>4, <1>6, ReturnKeepsInv DEF pipeVars, EverythingTypeOK
<1>7. CASE ~m_connected /\ GoTo("connect") /\ sinceAttempt' = 0
  <2>1. EverythingTypeOK'
    BY <1>1, <1>2, <1>3, <1>7 DEF GoTo, pipeVars, EverythingTypeOK
  <2>2. Sizing' /\ Aligned'
    BY <1>3, <1>4, <1>7 DEF GoTo, pipeVars, Sizing, Aligned
  <2> QED
    BY <2>1, <2>2 DEF EverythingInv
<1> QED
  BY <1>5, <1>6, <1>7 DEF EnsureConnected

LEMMA ConnectKeepsInv ==
  EverythingInv /\ (AlreadyConnected \/ OpenPipe \/ PipeBusy \/ NextPipe) => EverythingInv'
<1> SUFFICES ASSUME EverythingInv, AlreadyConnected \/ OpenPipe \/ PipeBusy \/ NextPipe
             PROVE  EverythingInv'
  OBVIOUS
<1>1. EverythingTypeOK /\ Sizing /\ Aligned
  BY DEF EverythingInv
<1>2. /\ callPc = "connect"
      /\ inbox \in Seq(Unit) /\ work \in Seq(Folder)
      /\ leftBehind \in BOOLEAN /\ m_connected \in BOOLEAN
      /\ sinceAttempt \in 0 .. RECONNECT_INTERVAL
      /\ ~leftBehind => inbox = <<>> /\ work = <<>>
      /\ ~m_connected => inbox = <<>> /\ work = <<>> /\ ~leftBehind
  BY <1>1 DEF AlreadyConnected, OpenPipe, PipeBusy, NextPipe, EverythingTypeOK, Aligned
<1>3. CASE AlreadyConnected
  BY <1>2, <1>3, ReturnKeepsInv DEF AlreadyConnected, pipeVars
<1>4. CASE OpenPipe /\ request \in Folder
  <2>1. EverythingTypeOK'
    BY <1>1, <1>2, <1>4 DEF OpenPipe, GoTo, EverythingTypeOK
  <2>2. Sizing' /\ Aligned'
    BY <1>2, <1>4 DEF OpenPipe, GoTo, Sizing, Aligned
  <2> QED
    BY <2>1, <2>2 DEF EverythingInv
<1>5. CASE OpenPipe /\ request \notin Folder
  BY <1>2, <1>5, ReturnKeepsInv DEF OpenPipe
<1>6. CASE PipeBusy
  <2>1. attempt' \in (1 .. PIPES) \X (1 .. TRIES)
    BY <1>1, <1>6, EverythingAssumption DEF PipeBusy, EverythingTypeOK
  <2>2. EverythingTypeOK'
    BY <1>1, <1>6, <2>1 DEF PipeBusy, pipeVars, EverythingTypeOK
  <2>3. Sizing' /\ Aligned'
    BY <1>1, <1>2, <1>6 DEF PipeBusy, pipeVars, Sizing, Aligned
  <2> QED
    BY <2>2, <2>3 DEF EverythingInv
<1>7. CASE NextPipe /\ attempt[1] < PIPES
  <2>1. attempt' \in (1 .. PIPES) \X (1 .. TRIES)
    BY <1>1, <1>7, EverythingAssumption DEF NextPipe, EverythingTypeOK
  <2>2. EverythingTypeOK'
    BY <1>1, <1>7, <2>1 DEF NextPipe, pipeVars, EverythingTypeOK
  <2>3. Sizing' /\ Aligned'
    BY <1>1, <1>2, <1>7 DEF NextPipe, pipeVars, Sizing, Aligned
  <2> QED
    BY <2>2, <2>3 DEF EverythingInv
<1>8. CASE NextPipe /\ ~(attempt[1] < PIPES)
  BY <1>2, <1>8, ReturnKeepsInv DEF NextPipe, pipeVars
<1> QED
  BY <1>3, <1>4, <1>5, <1>6, <1>7, <1>8

LEMMA SendKeepsInv == EverythingInv /\ (SendHeader \/ SendPayload) => EverythingInv'
<1> SUFFICES ASSUME EverythingInv, SendHeader \/ SendPayload
             PROVE  EverythingInv'
  OBVIOUS
<1>1. EverythingTypeOK /\ Sizing /\ Aligned
  BY DEF EverythingInv
<1>2. /\ callPc \in {"header", "payload"} /\ request \in Folder /\ m_connected
      /\ ~leftBehind => inbox = <<>> /\ work = <<>>
  BY <1>1 DEF SendHeader, SendPayload, EverythingTypeOK, Aligned
<1>3. CASE SendHeader /\ GoTo("payload")
  <2>1. EverythingTypeOK'
    BY <1>1, <1>2, <1>3 DEF SendHeader, GoTo, pipeVars, EverythingTypeOK
  <2>2. Sizing' /\ Aligned'
    BY <1>2, <1>3 DEF SendHeader, GoTo, pipeVars, Sizing, Aligned
  <2> QED
    BY <2>1, <2>2 DEF EverythingInv
<1>4. CASE SendHeader /\ Return(NoAnswer)
  BY <1>1, <1>2, <1>4, ReturnKeepsInv DEF SendHeader, pipeVars, EverythingTypeOK
<1>5. CASE SendPayload
  <2>1. work' \in Seq(Folder) /\ (~leftBehind => work' = <<request>>)
    <3>1. work \in Seq(Folder) /\ work' = Append(work, request)
      BY <1>1, <1>5 DEF SendPayload, EverythingTypeOK
    <3>2. Append(<<>>, request) = <<request>>
      OBVIOUS
    <3>3. request \in Folder
      BY <1>2
    <3>4. Append(work, request) \in Seq(Folder)
      BY <3>1, <3>3
    <3> QED
      BY <1>2, <3>1, <3>2, <3>4
  <2>2. EverythingTypeOK'
    BY <1>1, <1>2, <1>5, <2>1 DEF SendPayload, GoTo, EverythingTypeOK
  <2>3. Sizing' /\ Aligned'
    BY <1>2, <1>5, <2>1 DEF SendPayload, GoTo, Sizing, Aligned
  <2> QED
    BY <2>2, <2>3 DEF EverythingInv
<1> QED
  BY <1>3, <1>4, <1>5 DEF SendHeader

LEMMA CloseKeepsInv == EverythingInv /\ (GiveUp \/ Disconnect) => EverythingInv'
<1> SUFFICES ASSUME EverythingInv, GiveUp \/ Disconnect
             PROVE  EverythingInv'
  OBVIOUS
<1>1. Return(NoAnswer) /\ Disconnected /\ UNCHANGED sinceAttempt
  BY DEF GiveUp, Disconnect
<1>2. sinceAttempt \in 0 .. RECONNECT_INTERVAL
  BY DEF EverythingInv, EverythingTypeOK
<1>3. <<>> \in Seq(Unit) /\ <<>> \in Seq(Folder)
  OBVIOUS
<1>4. /\ m_connected' \in BOOLEAN /\ leftBehind' \in BOOLEAN
      /\ inbox' = <<>> /\ work' = <<>> /\ ~leftBehind'
  BY <1>1 DEF Disconnected
<1> QED
  BY <1>1, <1>2, <1>3, <1>4, ReturnKeepsInv

-----------------------------------------------------------------------------
(* The header of a reply to this call's request is what the payload is     *)
(* read by; out of step, it is anything.                                   *)
LEMMA ReadHeaderKeepsInv == EverythingInv /\ ReadHeader => EverythingInv'
<1> SUFFICES ASSUME EverythingInv, ReadHeader
             PROVE  EverythingInv'
  OBVIOUS
<1>1. EverythingTypeOK /\ Sizing /\ Aligned
  BY DEF EverythingInv
<1>2. /\ callPc = "reply" /\ inbox \in Seq(Unit) /\ inbox # <<>>
      /\ request \in Folder /\ m_connected /\ leftBehind \in BOOLEAN
      /\ m_connected' = m_connected /\ work' = work /\ work \in Seq(Folder)
      /\ sinceAttempt' = sinceAttempt /\ sinceAttempt \in 0 .. RECONNECT_INTERVAL
      /\ inbox' = Tail(inbox)
  BY <1>1 DEF ReadHeader, EverythingTypeOK
<1>3. Head(inbox) \in Unit /\ inbox' \in Seq(Unit)
      /\ Len(inbox') \in Nat /\ (Len(inbox') = 0 => inbox' = <<>>)
  BY <1>2, Fronts
<1>4. PICK h \in AsHeader(Head(inbox)) :
        IF h.code = "refused" \/ h.size # 1
        THEN IF h.size \in 1 .. MAX_SKIP
             THEN /\ need' = h.size /\ callPc' = "skip"
                  /\ UNCHANGED <<request, attempt, more, answer, leftBehind>>
             ELSE Return(NoAnswer) /\ leftBehind' = (leftBehind \/ h.size > 0)
        ELSE /\ more' = (h.code = "OK_MORE_DATA") /\ callPc' = "size"
             /\ UNCHANGED <<request, attempt, need, answer, leftBehind>>
  BY DEF ReadHeader
<1>5. h.code \in Code /\ h.size \in Payload /\ h.size \in Nat
  BY <1>3, <1>4, UnitsRead, Lengths
<1>6. ASSUME ~leftBehind
      PROVE  /\ work = <<>>
             /\ h.code = "refused" \/ h.size # 1 => Len(inbox') = h.size
             /\ h.code # "refused" /\ h.size = 1 =>
                  /\ inbox' # <<>> /\ Head(inbox') \in {SizeUnit(request), SentinelUnit}
                  /\ h.code # "OK_MORE_DATA" => Len(inbox') = 1
  <2>1. inbox \in Replies(request) /\ work = <<>>
    BY <1>1, <1>2, <1>6 DEF Aligned
  <2>2. h = Head(inbox)
    BY <1>2, <1>4, <2>1, RepliesAreUnits DEF AsHeader
  <2> QED
    BY <1>2, <2>1, <2>2, RepliesAreUnits
<1>7. CASE (h.code = "refused" \/ h.size # 1) /\ h.size \in 1 .. MAX_SKIP
  <2>1. EverythingTypeOK'
    BY <1>1, <1>2, <1>3, <1>4, <1>5, <1>7 DEF EverythingTypeOK
  <2>2. Sizing' /\ Aligned'
    BY <1>2, <1>4, <1>6, <1>7 DEF Sizing, Aligned
  <2> QED
    BY <2>1, <2>2 DEF EverythingInv
<1>8. CASE (h.code = "refused" \/ h.size # 1) /\ h.size \notin 1 .. MAX_SKIP
  <2>1. Return(NoAnswer) /\ leftBehind' = (leftBehind \/ h.size > 0)
    BY <1>4, <1>8
  <2>2. ASSUME ~leftBehind'
        PROVE  inbox' = <<>> /\ work' = <<>>
    <3>1. ~leftBehind /\ ~(h.size > 0)
      BY <2>1, <2>2
    <3>2. h.size = 0
      BY <1>5, <3>1
    <3>3. Len(inbox') = 0 /\ work = <<>>
      BY <1>6, <3>1, <3>2
    <3> QED
      BY <1>2, <1>3, <3>3
  <2> QED
    BY <1>2, <1>3, <2>1, <2>2, ReturnKeepsInv
<1>9. CASE h.code # "refused" /\ h.size = 1
  <2>1. EverythingTypeOK'
    BY <1>1, <1>2, <1>3, <1>4, <1>5, <1>9 DEF EverythingTypeOK
  <2>2. Sizing' /\ Aligned'
    BY <1>2, <1>4, <1>5, <1>6, <1>9 DEF Code, Sizing, Aligned
  <2> QED
    BY <2>1, <2>2 DEF EverythingInv
<1> QED
  BY <1>5, <1>7, <1>8, <1>9

LEMMA SkipKeepsInv == EverythingInv /\ (SkipUnit \/ SkipFails) => EverythingInv'
<1> SUFFICES ASSUME EverythingInv, SkipUnit \/ SkipFails
             PROVE  EverythingInv'
  OBVIOUS
<1>1. EverythingTypeOK /\ Sizing /\ Aligned
  BY DEF EverythingInv
<1>2. /\ callPc = "skip" /\ inbox \in Seq(Unit) /\ work \in Seq(Folder)
      /\ request \in Folder /\ m_connected /\ leftBehind \in BOOLEAN
      /\ sinceAttempt \in 0 .. RECONNECT_INTERVAL
      /\ need \in Payload /\ need \in Nat /\ need > 0
      /\ ~leftBehind => work = <<>> /\ Len(inbox) = need
  BY <1>1, Lengths DEF SkipUnit, SkipFails, EverythingTypeOK, Aligned
<1>3. CASE SkipUnit
  <2>1. /\ inbox' \in Seq(Unit) /\ Len(inbox') = Len(inbox) - 1
        /\ Len(inbox') = 0 => inbox' = <<>>
    BY <1>2, <1>3, Fronts DEF SkipUnit
  <2>2. CASE need > 1
    <3>1. need - 1 \in Payload
      BY <1>2, <2>2, EverythingAssumption DEF Payload
    <3>2. /\ need' \in Payload /\ need' > 0
          /\ UNCHANGED <<request, callPc, attempt, more, answer>>
          /\ UNCHANGED <<m_connected, work, leftBehind, sinceAttempt>>
      BY <1>2, <1>3, <2>2, <3>1 DEF SkipUnit
    <3>4. EverythingTypeOK'
      BY <1>1, <1>2, <2>1, <3>2 DEF EverythingTypeOK
    <3>3. Sizing' /\ Aligned'
      BY <1>2, <1>3, <2>1, <2>2 DEF SkipUnit, Sizing, Aligned
    <3> QED
      BY <3>4, <3>3 DEF EverythingInv
  <2>3. CASE ~(need > 1)
    <3>1. ~leftBehind => inbox' = <<>> /\ work = <<>>
      BY <1>2, <2>1, <2>3
    <3> QED
      BY <1>2, <1>3, <2>1, <2>3, <3>1, ReturnKeepsInv DEF SkipUnit
  <2> QED
    BY <2>2, <2>3
<1>4. CASE SkipFails
  BY <1>2, <1>4, ReturnKeepsInv DEF SkipFails
<1> QED
  BY <1>3, <1>4

LEMMA ReadSizeKeepsInv == EverythingInv /\ ReadSize => EverythingInv'
<1> SUFFICES ASSUME EverythingInv, ReadSize
             PROVE  EverythingInv'
  OBVIOUS
<1>1. EverythingTypeOK /\ Sizing /\ Aligned
  BY DEF EverythingInv
<1>2. /\ callPc = "size" /\ inbox \in Seq(Unit) /\ inbox # <<>> /\ work \in Seq(Folder)
      /\ m_connected /\ leftBehind \in BOOLEAN /\ more \in BOOLEAN
      /\ sinceAttempt \in 0 .. RECONNECT_INTERVAL
      /\ ~leftBehind => work = <<>> /\ (~more => Len(inbox) = 1)
      /\ inbox' = Tail(inbox) /\ work' = work /\ sinceAttempt' = sinceAttempt
      /\ m_connected' = m_connected /\ leftBehind' = (leftBehind \/ more)
      /\ Return(AsSize(Head(inbox)))
  BY <1>1 DEF ReadSize, EverythingTypeOK, Aligned
<1>3. /\ inbox' \in Seq(Unit) /\ AsSize(Head(inbox)) \in Folder \cup {NoAnswer, WrongSize}
      /\ Len(inbox) = 1 => inbox' = <<>>
  BY <1>2, Fronts, UnitsRead
<1> QED
  BY <1>2, <1>3, ReturnKeepsInv

LEMMA ServeKeepsInv == EverythingInv /\ Serve => EverythingInv'
<1> SUFFICES ASSUME EverythingInv, Serve
             PROVE  EverythingInv'
  OBVIOUS
<1>1. EverythingTypeOK /\ Sizing /\ Aligned
  BY DEF EverythingInv
<1>2. /\ inbox \in Seq(Unit) /\ work \in Seq(Folder) /\ work # <<>>
      /\ work' = Tail(work) /\ UNCHANGED <<callVars, m_connected, leftBehind, sinceAttempt>>
  BY <1>1 DEF Serve, EverythingTypeOK
<1>3. Head(work) \in Folder /\ work' \in Seq(Folder)
  BY <1>2, Fronts
<1>4. PICK m \in Replies(Head(work)) : inbox' = inbox \o m
  BY DEF Serve
<1>5. m \in Seq(Unit) /\ inbox' \in Seq(Unit)
  BY <1>2, <1>3, <1>4, RepliesAreUnits
<1>6. m_connected
  BY <1>1, <1>2 DEF EverythingTypeOK
<1>7. EverythingTypeOK'
  BY <1>1, <1>2, <1>3, <1>5, <1>6 DEF callVars, EverythingTypeOK
<1>8. ASSUME ~leftBehind
      PROVE  callPc = "reply" /\ inbox' \in Replies(request) /\ work' = <<>>
  <2>1. callPc = "reply" /\ inbox = <<>> /\ work = <<request>>
    <3>1. callPc = "reply" => inbox = <<>> /\ work = <<request>>
      BY <1>1, <1>2, <1>8 DEF Aligned
    <3> QED
      BY <3>1, <1>1, <1>2, <1>8 DEF Aligned
  <2>2. Head(work) = request /\ work' = <<>>
    BY <1>2, <2>1
  <2>3. inbox' = m
    BY <1>4, <1>5, <2>1
  <2> QED
    BY <1>4, <2>1, <2>2, <2>3
<1>9. Sizing' /\ Aligned'
  BY <1>1, <1>2, <1>8 DEF callVars, Sizing, Aligned
<1> QED
  BY <1>7, <1>9 DEF EverythingInv

LEMMA TickKeepsInv == EverythingInv /\ EverythingTick => EverythingInv'
<1> SUFFICES ASSUME EverythingInv, EverythingTick
             PROVE  EverythingInv'
  OBVIOUS
<1>1. EverythingTypeOK /\ Sizing /\ Aligned
  BY DEF EverythingInv
<1>2. sinceAttempt' \in 0 .. RECONNECT_INTERVAL
  BY <1>1, EverythingAssumption DEF EverythingTick, EverythingTypeOK
<1>3. EverythingTypeOK'
  BY <1>1, <1>2 DEF EverythingTick, callVars, pipeVars, EverythingTypeOK
<1>4. Sizing' /\ Aligned'
  BY <1>1 DEF EverythingTick, callVars, pipeVars, Sizing, Aligned
<1> QED
  BY <1>3, <1>4 DEF EverythingInv

-----------------------------------------------------------------------------
(* The invariant of get_folder_size: types, and where a connection that is *)
(* in step stands at each place of a call.                                 *)
THEOREM EverythingInvariant == EverythingSpec => []EverythingInv
<1>1. EverythingInv /\ [EverythingNext]_everythingVars => EverythingInv'
  <2> SUFFICES ASSUME EverythingInv, [EverythingNext]_everythingVars
               PROVE  EverythingInv'
    OBVIOUS
  <2>1. CASE AskForSize \/ Lock(Connecting) \/ Lock(Disconnecting)
    BY <2>1, LockKeepsInv DEF AskForSize
  <2>2. CASE CallStep
    BY <2>2, EnsureKeepsInv, ConnectKeepsInv, SendKeepsInv, CloseKeepsInv,
       ReadHeaderKeepsInv, SkipKeepsInv, ReadSizeKeepsInv DEF CallStep
  <2>3. CASE Serve \/ EverythingTick
    BY <2>3, ServeKeepsInv, TickKeepsInv
  <2>4. CASE UNCHANGED everythingVars
    <3>1. EverythingTypeOK /\ Sizing /\ Aligned
      BY DEF EverythingInv
    <3>2. EverythingTypeOK' /\ Sizing' /\ Aligned'
      BY <2>4, <3>1 DEF everythingVars, callVars, pipeVars, EverythingTypeOK, Sizing, Aligned
    <3> QED
      BY <3>2 DEF EverythingInv
  <2> QED
    BY <2>1, <2>2, <2>3, <2>4 DEF EverythingNext
<1> QED
  BY InitEstablishesInv, <1>1, PTL DEF EverythingSpec

(* Every state of a request has its type (EverythingClient's members).     *)
THEOREM EverythingTypeCorrect == EverythingSpec => []EverythingTypeOK
<1>1. EverythingInv => EverythingTypeOK
  BY DEF EverythingInv
<1> QED
  BY EverythingInvariant, <1>1, PTL

(* Whatever is refused, skipped, timed out and reconnected, a connection   *)
(* that is kept after get_folder_size was read to the end of its reply,    *)
(* unless the history says otherwise.                                      *)
THEOREM ConnectionStaysInStep == EverythingSpec => []StaysInStep
<1>1. EverythingInv => StaysInStep
  BY DEF EverythingInv, Aligned, StaysInStep
<1> QED
  BY EverythingInvariant, <1>1, PTL

-----------------------------------------------------------------------------
(* Every step is one of EverythingQuery's, or leaves the call as it is.    *)
Silent == UNCHANGED <<request, answer, leftBehind>>

LEMMA ReturnsAnswer ==
  ASSUME EverythingInv, callPc # "idle", leftBehind' \in BOOLEAN, NEW a, Return(a),
         \/ a = NoAnswer
         \/ request \in Folder /\ (a = request \/ (leftBehind /\ a \in Folder \cup {WrongSize}))
  PROVE  EverythingQueries!Answer
<1>1. request # Idle
  BY DEF EverythingInv, EverythingTypeOK
<1>2. leftBehind \in BOOLEAN
  BY DEF EverythingInv, EverythingTypeOK
<1> QED
  BY <1>1, <1>2 DEF Return, EverythingQueries!Answer

LEMMA ReadSizeAnswers == EverythingInv /\ ReadSize => EverythingQueries!Answer
<1> SUFFICES ASSUME EverythingInv, ReadSize
             PROVE  EverythingQueries!Answer
  OBVIOUS
<1>1. EverythingTypeOK /\ Aligned
  BY DEF EverythingInv
<1>2. /\ callPc = "size" /\ inbox \in Seq(Unit) /\ inbox # <<>> /\ request \in Folder
      /\ leftBehind \in BOOLEAN /\ more \in BOOLEAN
      /\ leftBehind' = (leftBehind \/ more) /\ Return(AsSize(Head(inbox)))
      /\ ~leftBehind => Head(inbox) \in {SizeUnit(request), SentinelUnit}
  BY <1>1 DEF ReadSize, EverythingTypeOK, Aligned
<1>3. Head(inbox) \in Unit
  BY <1>2, Fronts
<1>4. /\ AsSize(Head(inbox)) \in Folder \cup {NoAnswer, WrongSize}
      /\ ~leftBehind => AsSize(Head(inbox)) \in {request, NoAnswer}
  BY <1>2, <1>3, UnitsRead
<1> QED
  BY <1>2, <1>4, ReturnsAnswer

LEMMA CallStepAnswers == EverythingInv /\ CallStep => EverythingQueries!Answer \/ Silent
<1> SUFFICES ASSUME EverythingInv, CallStep
             PROVE  EverythingQueries!Answer \/ Silent
  OBVIOUS
<1>1. leftBehind \in BOOLEAN
  BY DEF EverythingInv, EverythingTypeOK
<1>2. ASSUME Return(NoAnswer), leftBehind' \in BOOLEAN, callPc # "idle"
      PROVE  EverythingQueries!Answer
  BY <1>2, ReturnsAnswer
<1>3. CASE EnsureConnected
  BY <1>1, <1>2, <1>3 DEF EnsureConnected, GoTo, pipeVars, Silent
<1>4. CASE AlreadyConnected \/ OpenPipe \/ PipeBusy \/ NextPipe
  BY <1>1, <1>2, <1>4 DEF AlreadyConnected, OpenPipe, PipeBusy, NextPipe, GoTo, pipeVars, Silent
<1>5. CASE SendHeader \/ SendPayload
  BY <1>1, <1>2, <1>5 DEF SendHeader, SendPayload, GoTo, pipeVars, Silent
<1>6. CASE GiveUp \/ Disconnect
  BY <1>2, <1>6 DEF GiveUp, Disconnect, Disconnected
<1>7. CASE SkipUnit \/ SkipFails
  BY <1>1, <1>2, <1>7 DEF SkipUnit, SkipFails, Silent
<1>8. CASE ReadHeader
  BY <1>1, <1>2, <1>8 DEF ReadHeader, Silent
<1> QED
  BY <1>3, <1>4, <1>5, <1>6, <1>7, <1>8, ReadSizeAnswers DEF CallStep

(* get_folder_size answers about the folder that was asked for, or         *)
(* nothing, on any connection that is in step.                             *)
THEOREM EverythingKeepsPromise == EverythingSpec => KeepsQueryPromise
<1>1. EverythingInit => EverythingQueries!Init
  BY DEF EverythingInit, EverythingQueries!Init
<1>2. ASSUME EverythingInv, [EverythingNext]_everythingVars
      PROVE  EverythingQueries!Ask \/ EverythingQueries!Answer \/ Silent
  <2>1. CASE AskForSize \/ Lock(Connecting) \/ Lock(Disconnecting)
    BY <2>1 DEF AskForSize, Lock, pipeVars, EverythingQueries!Ask
  <2>2. CASE CallStep
    BY <1>2, <2>2, CallStepAnswers
  <2>3. CASE Serve \/ EverythingTick \/ UNCHANGED everythingVars
    BY <2>3 DEF Serve, EverythingTick, everythingVars, callVars, pipeVars, Silent
  <2> QED
    BY <1>2, <2>1, <2>2, <2>3 DEF EverythingNext
<1>3. Silent <=> UNCHANGED EverythingQueries!queryVars
  BY DEF Silent, EverythingQueries!queryVars
<1>4. EverythingInv /\ [EverythingNext]_everythingVars
        => [EverythingQueries!Ask \/ EverythingQueries!Answer]_(EverythingQueries!queryVars)
  BY <1>2, <1>3
<1> QED
  BY EverythingInvariant, <1>1, <1>4, PTL DEF EverythingSpec, KeepsQueryPromise, EverythingQueries!Spec
=============================================================================
