------------------------ MODULE FolderScannerProofs ------------------------
(***************************************************************************)
(* That FolderScanner keeps ScanService's promise and that its cancel      *)
(* tokens are exact, for every tree, any number of callers and any mixture *)
(* of patience.                                                            *)
(***************************************************************************)
EXTENDS FolderScanner, SequenceTheorems, TLAPS

(* The activation below another one stands at the folder the upper one     *)
(* scans, and has added up what comes before it.                           *)
AtFolder(f, d) ==
  /\ f.next \in DOMAIN Entries[f.dir]
  /\ Entries[f.dir][f.next].kind = "folder"
  /\ Entries[f.dir][f.next].dir = d
  /\ f.total = SizeOfFirst[f.dir][f.next - 1]

Nested(c) ==
  \A i \in DOMAIN frames[c] : i < Len(frames[c]) => AtFolder(frames[c][i], frames[c][i + 1].dir)

(* The directory whose scan returns to an empty or a non-empty stack.      *)
Returned(c) == IF frames[c] = <<>> THEN asked[c] ELSE Entries[Top(c).dir][Top(c).next].dir

(* What the activations of a scan have added up, wherever it stands.       *)
Progress(c) ==
  /\ frames[c] # <<>> => frames[c][1].dir = asked[c]
  /\ scanPc[c] \in {"open", "entry", "next"} => frames[c] # <<>>
  /\ scanPc[c] = "open" => Top(c).next = 1 /\ Top(c).total = 0
  /\ scanPc[c] = "entry" =>
       /\ Top(c).next \in DOMAIN Entries[Top(c).dir]
       /\ Top(c).total = SizeOfFirst[Top(c).dir][Top(c).next - 1]
  /\ scanPc[c] = "next" =>
       /\ Top(c).next \in DOMAIN Entries[Top(c).dir]
       /\ Top(c).total = SizeOfFirst[Top(c).dir][Top(c).next]
  /\ scanPc[c] = "return" /\ frames[c] # <<>> => AtFolder(Top(c), Returned(c))
  /\ scanPc[c] \in {"return", "ready"} /\ result[c].status = "complete" =>
       result[c].size = WholeSize(Returned(c))
  /\ scanPc[c] \in {"ready", "none"} => frames[c] = <<>>

(* A caller, its scan thread and its token come and go together.           *)
Together(c) ==
  /\ callerPc[c] = "idle" <=> scanPc[c] = "none"
  /\ callerPc[c] = "idle" <=> asked[c] = NoSize
  /\ callerPc[c] = "idle" => c \notin disturbed

(* Nothing is answered without a reason.                                   *)
Reasoned(c) ==
  /\ c \in cancelled => c \in disturbed
  /\ callerPc[c] \in {"cancelling", "abandoning"} => c \in disturbed
  /\ scanPc[c] \in {"return", "ready"} /\ result[c].status # "complete" => c \in disturbed

CallerInv(c) == Nested(c) /\ Progress(c) /\ Together(c) /\ Reasoned(c)

ScannerInv == ScannerTypes /\ TokensAreExact /\ \A c \in Caller : CallerInv(c)

-----------------------------------------------------------------------------
(* Facts about stacks of activations.                                      *)
LEMMA Pop ==
  ASSUME NEW s \in Seq(Frame), s # <<>>, NEW t, t = SubSeq(s, 1, Len(s) - 1)
  PROVE  /\ Len(s) \in Nat \ {0} /\ s[Len(s)] \in Frame
         /\ t \in Seq(Frame) /\ Len(t) = Len(s) - 1
         /\ \A i \in 1 .. Len(t) : t[i] = s[i]
<1>1. Len(s) \in Nat \ {0} /\ s[Len(s)] \in Frame
  BY EmptySeq, LenProperties, ElementOfSeq
<1>2. /\ t \in Seq(Frame)
      /\ Len(t) = Len(s) - 1
      /\ \A i \in 1 .. Len(s) - 1 : t[i] = s[i]
  <2> DEFINE n == Len(s) - 1
  <2>1. n \in Nat /\ \A i \in 1 .. n : s[i] \in Frame
    BY <1>1, ElementOfSeq
  <2> HIDE DEF n
  <2>2. /\ SubSeq(s, 1, n) \in Seq(Frame)
        /\ Len(SubSeq(s, 1, n)) = IF 1 <= n THEN n - 1 + 1 ELSE 0
        /\ \A i \in 1 .. n - 1 + 1 : SubSeq(s, 1, n)[i] = s[1 + i - 1]
    BY <2>1, SubSeqProperties
  <2>3. t = SubSeq(s, 1, n)
    BY DEF n
  <2>4. Len(t) = n /\ \A i \in 1 .. n : t[i] = s[i]
    BY <2>1, <2>2, <2>3
  <2> QED
    BY <2>2, <2>3, <2>4 DEF n
<1> QED
  BY <1>1, <1>2

LEMMA Push ==
  ASSUME NEW s \in Seq(Frame), NEW f \in Frame, NEW t, t = Append(s, f)
  PROVE  /\ t \in Seq(Frame) /\ t # <<>> /\ Len(t) = Len(s) + 1 /\ Len(s) \in Nat
         /\ t[Len(t)] = f
         /\ \A i \in 1 .. Len(s) : t[i] = s[i]
  BY AppendProperties, LenProperties, EmptySeq

LEMMA ReplaceTop ==
  ASSUME NEW s \in Seq(Frame), s # <<>>, NEW f \in Frame,
         NEW t, t = Append(SubSeq(s, 1, Len(s) - 1), f)
  PROVE  /\ t \in Seq(Frame) /\ t # <<>> /\ Len(t) = Len(s)
         /\ t[Len(t)] = f
         /\ \A i \in 1 .. Len(s) - 1 : t[i] = s[i]
<1> DEFINE u == SubSeq(s, 1, Len(s) - 1)
<1>1. /\ Len(s) \in Nat \ {0}
      /\ u \in Seq(Frame) /\ Len(u) = Len(s) - 1
      /\ \A i \in 1 .. Len(u) : u[i] = s[i]
  BY Pop
<1>2. /\ t \in Seq(Frame) /\ t # <<>> /\ Len(t) = Len(u) + 1
      /\ t[Len(t)] = f
      /\ \A i \in 1 .. Len(u) : t[i] = u[i]
  BY <1>1, Push
<1> QED
  BY <1>1, <1>2

(* A caller whose own variables a step leaves alone.                       *)
LEMMA Untouched ==
  ASSUME NEW b \in Caller, CallerInv(b),
         frames'[b] = frames[b], scanPc'[b] = scanPc[b], result'[b] = result[b],
         asked'[b] = asked[b], callerPc'[b] = callerPc[b],
         b \in cancelled' <=> b \in cancelled, b \in disturbed' <=> b \in disturbed
  PROVE  CallerInv(b)'
  BY DEF CallerInv, Nested, Progress, Together, Reasoned, Returned, Top, AtFolder

LEMMA TopFrame ==
  ASSUME ScannerTypes, NEW c \in Caller, frames[c] # <<>>
  PROVE  /\ frames[c] \in Seq(Frame) /\ Len(frames[c]) \in Nat \ {0}
         /\ DOMAIN frames[c] = 1 .. Len(frames[c])
         /\ Top(c) \in Frame
<1>1. frames[c] \in Seq(Frame)
  BY DEF ScannerTypes
<1> QED
  BY <1>1, EmptySeq, LenProperties, ElementOfSeq DEF Top

(* What FindNextFile delivers, and what it adds up to.                     *)
LEMMA EntryFacts ==
  ASSUME NEW d \in Dir, NEW n \in DOMAIN Entries[d]
  PROVE  /\ Len(Entries[d]) \in Nat /\ DOMAIN Entries[d] = 1 .. Len(Entries[d])
         /\ Entries[d][n] \in Entry
         /\ Entries[d][n].kind = "folder" => Entries[d][n].dir \in Dir
         /\ SizeOfFirst[d][n] \in Nat /\ SizeOfFirst[d][n - 1] \in Nat
         /\ SizeOfFirst[d][n] = SizeOfFirst[d][n - 1] + EntrySize(Entries[d][n])
<1>1. Entries[d] \in Seq(Entry)
  BY ScannerAssumption
<1>2. Len(Entries[d]) \in Nat /\ DOMAIN Entries[d] = 1 .. Len(Entries[d])
  BY <1>1, LenProperties
<1>3. Entries[d][n] \in Entry
  BY <1>1, <1>2, ElementOfSeq
<1>4. Entries[d][n].kind = "folder" => Entries[d][n].dir \in Dir
  BY <1>3 DEF Entry
<1> QED
  BY <1>2, <1>3, <1>4, SizesAssumption

-----------------------------------------------------------------------------
(* The three ways a scan's stack changes.                                  *)
LEMMA NestedAfterReplace ==
  ASSUME ScannerTypes, NEW c \in Caller, frames[c] # <<>>, Nested(c), NEW f \in Frame,
         f.dir = Top(c).dir, frames'[c] = Append(Below(c), f)
  PROVE  /\ frames'[c] \in Seq(Frame) /\ frames'[c] # <<>>
         /\ Nested(c)' /\ Top(c)' = f
         /\ frames'[c][1].dir = frames[c][1].dir
<1> DEFINE s == frames[c]
           t == frames'[c]
<1>1. /\ t \in Seq(Frame) /\ t # <<>> /\ Len(t) = Len(s) /\ t[Len(t)] = f
      /\ \A i \in 1 .. Len(s) - 1 : t[i] = s[i]
  BY TopFrame, ReplaceTop DEF Below
<1>2. /\ Len(s) \in Nat \ {0} /\ DOMAIN s = 1 .. Len(s) /\ DOMAIN t = 1 .. Len(s)
  BY <1>1, TopFrame, LenProperties
<1>3. Nested(c)'
  <2> SUFFICES ASSUME NEW i \in DOMAIN t, i < Len(t)
               PROVE  AtFolder(t[i], t[i + 1].dir)
    BY DEF Nested, AtFolder
  <2>1. AtFolder(s[i], s[i + 1].dir)
    BY <1>1, <1>2 DEF Nested
  <2>2. t[i] = s[i]
    BY <1>1, <1>2
  <2>3. t[i + 1].dir = s[i + 1].dir
    <3>1. CASE i + 1 = Len(t)
      BY <3>1, <1>1, <1>2 DEF Top
    <3>2. CASE i + 1 < Len(t)
      BY <3>2, <1>1, <1>2
    <3> QED
      BY <3>1, <3>2, <1>1, <1>2
  <2> QED
    BY <2>1, <2>2, <2>3
<1>4. t[1].dir = s[1].dir
  <2>1. Len(s) = 1 \/ 1 \in 1 .. Len(s) - 1
    <3>1. \A n \in Nat \ {0} : n = 1 \/ 1 \in 1 .. n - 1
      OBVIOUS
    <3> QED
      BY <1>2, <3>1
  <2>2. CASE Len(s) = 1
    BY <2>2, <1>1, <1>2 DEF Top
  <2>3. CASE 1 \in 1 .. Len(s) - 1
    BY <2>3, <1>1
  <2> QED
    BY <2>1, <2>2, <2>3
<1> QED
  BY <1>1, <1>3, <1>4 DEF Top

LEMMA NestedAfterPop ==
  ASSUME ScannerTypes, NEW c \in Caller, frames[c] # <<>>, Nested(c), frames'[c] = Below(c)
  PROVE  /\ frames'[c] \in Seq(Frame)
         /\ Nested(c)'
         /\ frames'[c] # <<>> => /\ AtFolder(Top(c)', Top(c).dir)
                                /\ frames'[c][1].dir = frames[c][1].dir
         /\ frames'[c] = <<>> => Top(c).dir = frames[c][1].dir
<1> DEFINE s == frames[c]
           t == frames'[c]
<1>1. /\ Len(s) \in Nat \ {0} /\ t \in Seq(Frame) /\ Len(t) = Len(s) - 1
      /\ \A i \in 1 .. Len(t) : t[i] = s[i]
      /\ DOMAIN s = 1 .. Len(s) /\ DOMAIN t = 1 .. Len(t)
  BY TopFrame, Pop, LenProperties DEF Below
<1>2. Nested(c)'
  <2> SUFFICES ASSUME NEW i \in DOMAIN t, i < Len(t)
               PROVE  AtFolder(t[i], t[i + 1].dir)
    BY DEF Nested, AtFolder
  <2>1. AtFolder(s[i], s[i + 1].dir) /\ t[i] = s[i] /\ t[i + 1] = s[i + 1]
    BY <1>1 DEF Nested
  <2> QED
    BY <2>1
<1>3. ASSUME t # <<>>
      PROVE  AtFolder(t[Len(t)], s[Len(s)].dir) /\ t[1].dir = s[1].dir
  <2>1. Len(t) \in 1 .. Len(s) - 1 /\ Len(t) \in DOMAIN s /\ Len(t) + 1 = Len(s)
    BY <1>1, <1>3, EmptySeq
  <2>2. t[Len(t)] = s[Len(t)] /\ t[1] = s[1]
    BY <1>1, <2>1
  <2>3. AtFolder(s[Len(t)], s[Len(t) + 1].dir)
    BY <2>1, <1>1 DEF Nested
  <2> QED
    BY <2>1, <2>2, <2>3
<1>4. t = <<>> => Len(s) = 1
  BY <1>1, EmptySeq
<1> QED
  BY <1>1, <1>2, <1>3, <1>4 DEF Top

LEMMA NestedAfterPush ==
  ASSUME ScannerTypes, NEW c \in Caller, frames[c] # <<>>, Nested(c), NEW d \in Dir,
         AtFolder(Top(c), d), frames'[c] = Append(frames[c], Activation(d))
  PROVE  /\ frames'[c] \in Seq(Frame) /\ frames'[c] # <<>>
         /\ Nested(c)' /\ Top(c)' = Activation(d)
         /\ frames'[c][1].dir = frames[c][1].dir
<1> DEFINE s == frames[c]
           t == frames'[c]
<1>1. Activation(d) \in Frame
  BY DEF Activation, Frame
<1>2. /\ t \in Seq(Frame) /\ t # <<>> /\ Len(t) = Len(s) + 1 /\ t[Len(t)] = Activation(d)
      /\ \A i \in 1 .. Len(s) : t[i] = s[i]
      /\ Len(s) \in Nat \ {0}
      /\ DOMAIN s = 1 .. Len(s) /\ DOMAIN t = 1 .. Len(t)
  BY <1>1, TopFrame, Push, LenProperties
<1>3. Nested(c)'
  <2> SUFFICES ASSUME NEW i \in DOMAIN t, i < Len(t)
               PROVE  AtFolder(t[i], t[i + 1].dir)
    BY DEF Nested, AtFolder
  <2>1. CASE i = Len(s)
    BY <2>1, <1>2 DEF Top, Activation
  <2>2. CASE i # Len(s)
    <3>1. AtFolder(s[i], s[i + 1].dir) /\ t[i] = s[i] /\ t[i + 1] = s[i + 1]
      BY <2>2, <1>2 DEF Nested
    <3> QED
      BY <3>1
  <2> QED
    BY <2>1, <2>2
<1> QED
  BY <1>2, <1>3 DEF Top

-----------------------------------------------------------------------------
(* The two ways a step of a scan ends: it returns, or it goes on.          *)
LEMMA ReturnStep ==
  ASSUME ScannerInv, NEW c \in Caller, Scanning(c), frames[c] # <<>>,
         NEW size \in Nat, NEW status \in {"complete", "incomplete", "cancelled"},
         Return(c, size, status), UNCHANGED <<tokenVars, callerVars>>,
         disturbed' \in {disturbed, disturbed \cup {c}},
         status = "complete" => size = WholeSize(Top(c).dir),
         status # "complete" => c \in disturbed'
  PROVE  ScannerInv'
<1> USE DEF tokenVars, callerVars
<1>1. /\ frames'[c] = Below(c) /\ scanPc'[c] = "return"
      /\ result'[c] = [size |-> size, status |-> status]
      /\ callerPc'[c] = callerPc[c] /\ asked'[c] = asked[c]
  BY DEF Return, ScannerInv, ScannerTypes
<1>2. Nested(c) /\ Progress(c) /\ Together(c) /\ Reasoned(c)
  BY DEF ScannerInv, CallerInv
<1>3. /\ frames'[c] \in Seq(Frame)
      /\ Nested(c)'
      /\ frames'[c] # <<>> => /\ AtFolder(Top(c)', Top(c).dir)
                             /\ frames'[c][1].dir = frames[c][1].dir
      /\ frames'[c] = <<>> => Top(c).dir = frames[c][1].dir
  BY <1>1, <1>2, NestedAfterPop DEF ScannerInv
<1>4. ScannerTypes'
  BY <1>3, <1>1 DEF ScannerInv, ScannerTypes, Return, Result
<1>5. TokensAreExact'
  BY DEF ScannerInv, ScannerTypes, TokensAreExact, Scanning, Return
<1>6. ASSUME NEW b \in Caller, b # c
      PROVE  CallerInv(b)'
  <2>1. /\ frames'[b] = frames[b] /\ scanPc'[b] = scanPc[b] /\ result'[b] = result[b]
        /\ asked'[b] = asked[b] /\ callerPc'[b] = callerPc[b]
        /\ b \in cancelled' <=> b \in cancelled
        /\ b \in disturbed' <=> b \in disturbed
    BY <1>6 DEF Return, ScannerInv, ScannerTypes
  <2>2. CallerInv(b)
    BY DEF ScannerInv
  <2> QED
    BY <2>1, <2>2, Untouched
<1>7. Returned(c)' = Top(c).dir
  BY <1>1, <1>2, <1>3 DEF Returned, AtFolder, Progress, Top
<1>8. Progress(c)'
  <2>1. frames'[c] # <<>> => frames'[c][1].dir = asked'[c]
    BY <1>1, <1>2, <1>3 DEF Progress
  <2>2. frames'[c] # <<>> => AtFolder(Top(c), Returned(c))'
    BY <1>3, <1>7 DEF AtFolder
  <2>3. result'[c].status = "complete" => (result[c].size = WholeSize(Returned(c)))'
    BY <1>1, <1>7 DEF WholeSize
  <2> QED
    BY <2>1, <2>2, <2>3, <1>1 DEF Progress
<1>9. Together(c)' /\ Reasoned(c)'
  BY <1>1, <1>2 DEF Together, Reasoned, Scanning
<1> QED
  BY <1>3, <1>4, <1>5, <1>6, <1>8, <1>9 DEF ScannerInv, CallerInv

LEMMA GoOnStep ==
  ASSUME ScannerInv, NEW c \in Caller, Scanning(c), frames[c] # <<>>,
         NEW pc \in {"open", "entry", "next"}, NEW stack \in Seq(Frame), stack # <<>>,
         GoOn(c, pc, stack), UNCHANGED <<tokenVars, callerVars, disturbed>>,
         Nested(c)', frames'[c][1].dir = frames[c][1].dir,
         pc = "open" => Top(c)'.next = 1 /\ Top(c)'.total = 0,
         pc # "open" => Top(c)'.next \in DOMAIN Entries[Top(c)'.dir],
         pc = "entry" => Top(c)'.total = SizeOfFirst[Top(c)'.dir][Top(c)'.next - 1],
         pc = "next" => Top(c)'.total = SizeOfFirst[Top(c)'.dir][Top(c)'.next]
  PROVE  ScannerInv'
<1> USE DEF tokenVars, callerVars
<1>1. frames'[c] = stack /\ scanPc'[c] = pc /\ callerPc'[c] = callerPc[c] /\ asked'[c] = asked[c]
  BY DEF GoOn, ScannerInv, ScannerTypes
<1>2. Progress(c) /\ Together(c) /\ Reasoned(c)
  BY DEF ScannerInv, CallerInv
<1>3. ScannerTypes'
  BY DEF ScannerInv, ScannerTypes, GoOn
<1>4. TokensAreExact'
  BY DEF ScannerInv, ScannerTypes, TokensAreExact, Scanning, GoOn
<1>5. ASSUME NEW b \in Caller, b # c
      PROVE  CallerInv(b)'
  <2>1. /\ frames'[b] = frames[b] /\ scanPc'[b] = scanPc[b] /\ result'[b] = result[b]
        /\ asked'[b] = asked[b] /\ callerPc'[b] = callerPc[b]
        /\ b \in cancelled' <=> b \in cancelled
        /\ b \in disturbed' <=> b \in disturbed
    BY <1>5 DEF GoOn, ScannerInv, ScannerTypes
  <2>2. CallerInv(b)
    BY DEF ScannerInv
  <2> QED
    BY <2>1, <2>2, Untouched
<1>6. Progress(c)'
  BY <1>1, <1>2 DEF Progress
<1>7. Together(c)' /\ Reasoned(c)'
  BY <1>1, <1>2 DEF Together, Reasoned, Scanning
<1> QED
  BY <1>3, <1>4, <1>5, <1>6, <1>7 DEF ScannerInv, CallerInv

-----------------------------------------------------------------------------
(* The steps of a scan.                                                    *)
LEMMA OpenKeeps ==
  ASSUME ScannerInv, NEW c \in Caller, OpenDirectory(c)
  PROVE  ScannerInv'
<1>1. /\ Scanning(c) /\ Progress(c) /\ Reasoned(c) /\ Nested(c) /\ frames[c] # <<>>
      /\ ScannerTypes
      /\ Top(c).next = 1 /\ Top(c).total = 0
  BY DEF OpenDirectory, Scanning, ScannerInv, CallerInv, Progress
<1>2. CASE c \in cancelled /\ Return(c, 0, "cancelled") /\ UNCHANGED disturbed
  BY <1>1, <1>2, ReturnStep DEF OpenDirectory, Reasoned
<1>3. CASE Return(c, 0, "incomplete") /\ disturbed' = disturbed \cup {c}
  BY <1>1, <1>3, ReturnStep DEF OpenDirectory
<1>4. CASE Entries[Top(c).dir] # <<>> /\ GoOn(c, "entry", frames[c]) /\ UNCHANGED disturbed
  <2>1. frames[c] \in Seq(Frame) /\ frames'[c] = frames[c] /\ Top(c) \in Frame
    BY <1>1, <1>4, TopFrame DEF GoOn, ScannerTypes
  <2>2. Top(c)' = Top(c) /\ Nested(c)'
    BY <2>1, <1>1 DEF Top, Nested, AtFolder
  <2>3. Top(c).dir \in Dir
    BY <2>1 DEF Frame
  <2>4. Entries[Top(c).dir] \in Seq(Entry)
    BY <2>3, ScannerAssumption
  <2>5. 1 \in DOMAIN Entries[Top(c).dir]
    BY <2>4, <1>4, EmptySeq, LenProperties
  <2>6. SizeOfFirst[Top(c).dir][1 - 1] = 0
    BY <2>3, SizesAssumption
  <2> QED
    BY <2>1, <2>2, <2>5, <2>6, <1>1, <1>4, GoOnStep DEF OpenDirectory
<1> QED
  BY <1>2, <1>3, <1>4 DEF OpenDirectory

LEMMA VisitKeeps ==
  ASSUME ScannerInv, NEW c \in Caller, VisitEntry(c)
  PROVE  ScannerInv'
<1> DEFINE top   == Top(c)
           entry == Entries[top.dir][top.next]
           added == [top EXCEPT !.total = @ + IF entry.kind = "file" THEN entry.size ELSE 0]
<1>1. /\ Scanning(c) /\ Progress(c) /\ Reasoned(c) /\ Nested(c) /\ frames[c] # <<>>
      /\ ScannerTypes
      /\ top.next \in DOMAIN Entries[top.dir]
      /\ top.total = SizeOfFirst[top.dir][top.next - 1]
  BY DEF VisitEntry, Scanning, ScannerInv, CallerInv, Progress
<1>2. top \in Frame /\ top.dir \in Dir /\ top.total \in Nat /\ frames[c] \in Seq(Frame)
  BY <1>1, TopFrame DEF Frame
<1>3. /\ entry \in Entry
      /\ entry.kind = "folder" => entry.dir \in Dir
      /\ SizeOfFirst[top.dir][top.next] \in Nat
      /\ SizeOfFirst[top.dir][top.next] = top.total + EntrySize(entry)
  BY <1>1, <1>2, EntryFacts
<1>4. CASE c \in cancelled /\ Return(c, top.total, "cancelled")
  BY <1>1, <1>2, <1>4, ReturnStep DEF VisitEntry, Reasoned
<1>5. CASE entry.kind = "folder" /\ GoOn(c, "open", Append(frames[c], Activation(entry.dir)))
  <2>1. AtFolder(top, entry.dir) /\ entry.dir \in Dir
    BY <1>1, <1>3, <1>5 DEF AtFolder
  <2>2. frames'[c] = Append(frames[c], Activation(entry.dir))
    BY <1>1, <1>5 DEF GoOn, ScannerTypes
  <2>3. /\ frames'[c] \in Seq(Frame) /\ frames'[c] # <<>>
        /\ Nested(c)' /\ Top(c)' = Activation(entry.dir)
        /\ frames'[c][1].dir = frames[c][1].dir
    BY <1>1, <2>1, <2>2, NestedAfterPush
  <2>4. Top(c)'.next = 1 /\ Top(c)'.total = 0
    BY <2>3 DEF Activation
  <2> QED
    BY <1>1, <1>5, <2>2, <2>3, <2>4, GoOnStep DEF VisitEntry
<1>6. CASE entry.kind # "folder" /\ GoOn(c, "next", Append(Below(c), added))
  <2>1. (IF entry.kind = "file" THEN entry.size ELSE 0) = EntrySize(entry)
    BY <1>3, <1>6 DEF Entry, EntrySize
  <2>2. /\ added.dir = top.dir /\ added.next = top.next
        /\ added.total = SizeOfFirst[top.dir][top.next]
    BY <1>2, <1>3, <2>1 DEF Frame
  <2>3. added \in Frame
    BY <1>2, <1>3, <2>1, <2>2 DEF Frame
  <2>4. frames'[c] = Append(Below(c), added)
    BY <1>1, <1>6 DEF GoOn, ScannerTypes
  <2> HIDE DEF added
  <2>5. /\ frames'[c] \in Seq(Frame) /\ frames'[c] # <<>>
        /\ Nested(c)' /\ Top(c)' = added
        /\ frames'[c][1].dir = frames[c][1].dir
    BY <1>1, <2>2, <2>3, <2>4, NestedAfterReplace
  <2> QED
    BY <1>1, <1>6, <2>2, <2>4, <2>5, GoOnStep DEF VisitEntry
<1> QED
  BY <1>4, <1>5, <1>6 DEF VisitEntry

LEMMA FindNextKeeps ==
  ASSUME ScannerInv, NEW c \in Caller, FindNext(c)
  PROVE  ScannerInv'
<1> DEFINE top  == Top(c)
           past == [top EXCEPT !.next = @ + 1]
<1>1. /\ Scanning(c) /\ Progress(c) /\ Nested(c) /\ frames[c] # <<>>
      /\ ScannerTypes
      /\ top.next \in DOMAIN Entries[top.dir]
      /\ top.total = SizeOfFirst[top.dir][top.next]
  BY DEF FindNext, Scanning, ScannerInv, CallerInv, Progress
<1>2. top \in Frame /\ top.dir \in Dir /\ top.total \in Nat /\ frames[c] \in Seq(Frame)
  BY <1>1, TopFrame DEF Frame
<1>3. Len(Entries[top.dir]) \in Nat /\ DOMAIN Entries[top.dir] = 1 .. Len(Entries[top.dir])
  BY <1>1, <1>2, EntryFacts
<1>4. CASE top.next # Len(Entries[top.dir]) /\ GoOn(c, "entry", Append(Below(c), past))
           /\ UNCHANGED disturbed
  <2>1. past \in Frame /\ past.dir = top.dir /\ past.next = top.next + 1 /\ past.total = top.total
    BY <1>2 DEF Frame
  <2>2. past.next \in DOMAIN Entries[past.dir] /\ past.next - 1 = top.next
    BY <1>1, <1>3, <1>4, <2>1
  <2>3. frames'[c] = Append(Below(c), past)
    BY <1>1, <1>4 DEF GoOn, ScannerTypes
  <2> HIDE DEF past
  <2>4. /\ frames'[c] \in Seq(Frame) /\ frames'[c] # <<>>
        /\ Nested(c)' /\ Top(c)' = past
        /\ frames'[c][1].dir = frames[c][1].dir
    BY <1>1, <2>1, <2>3, NestedAfterReplace
  <2>5. past.total = SizeOfFirst[past.dir][past.next - 1]
    BY <1>1, <2>1, <2>2
  <2> QED
    BY <1>1, <1>4, <2>2, <2>3, <2>4, <2>5, GoOnStep DEF FindNext
<1>5. CASE top.next = Len(Entries[top.dir]) /\ Return(c, top.total, "complete")
           /\ UNCHANGED disturbed
  BY <1>1, <1>2, <1>5, ReturnStep DEF FindNext, WholeSize
<1>6. CASE Return(c, top.total, "incomplete") /\ disturbed' = disturbed \cup {c}
  BY <1>1, <1>2, <1>6, ReturnStep DEF FindNext
<1> QED
  BY <1>4, <1>5, <1>6 DEF FindNext

LEMMA ReturnToFolderAboveKeeps ==
  ASSUME ScannerInv, NEW c \in Caller, ReturnToFolderAbove(c)
  PROVE  ScannerInv'
<1> DEFINE top  == Top(c)
           sum  == top.total + result[c].size
           more == [top EXCEPT !.total = sum]
<1>1. /\ Scanning(c) /\ Progress(c) /\ Reasoned(c) /\ Nested(c) /\ frames[c] # <<>>
      /\ ScannerTypes
      /\ AtFolder(top, Returned(c)) /\ scanPc[c] = "return"
  BY DEF ReturnToFolderAbove, Scanning, ScannerInv, CallerInv, Progress
<1>2. top \in Frame /\ top.dir \in Dir /\ top.total \in Nat /\ frames[c] \in Seq(Frame)
  BY <1>1, TopFrame DEF Frame
<1>3. result[c] \in Result /\ result[c].size \in Nat /\ sum \in Nat
  BY <1>1, <1>2 DEF ScannerTypes, Result
<1>4. CASE result[c].status = "complete" /\ GoOn(c, "next", Append(Below(c), more))
  <2>1. result[c].size = WholeSize(Returned(c))
    BY <1>1, <1>4 DEF Progress
  <2>2. EntrySize(Entries[top.dir][top.next]) = WholeSize(Returned(c))
    BY <1>1 DEF AtFolder, EntrySize
  <2>3. SizeOfFirst[top.dir][top.next] = sum
    BY <1>1, <1>2, <2>1, <2>2, EntryFacts DEF AtFolder
  <2>4. /\ more \in Frame /\ more.dir = top.dir /\ more.next = top.next
        /\ more.total = SizeOfFirst[top.dir][top.next]
    BY <1>2, <1>3, <2>3 DEF Frame
  <2>5. frames'[c] = Append(Below(c), more)
    BY <1>1, <1>4 DEF GoOn, ScannerTypes
  <2> HIDE DEF more
  <2>6. /\ frames'[c] \in Seq(Frame) /\ frames'[c] # <<>>
        /\ Nested(c)' /\ Top(c)' = more
        /\ frames'[c][1].dir = frames[c][1].dir
    BY <1>1, <2>4, <2>5, NestedAfterReplace
  <2> QED
    BY <1>1, <1>4, <2>4, <2>5, <2>6, GoOnStep DEF ReturnToFolderAbove, AtFolder
<1>5. CASE result[c].status # "complete" /\ Return(c, sum, result[c].status)
  <2>1. result[c].status \in {"complete", "incomplete", "cancelled"} /\ c \in disturbed
    BY <1>1, <1>3, <1>5 DEF Result, Reasoned
  <2> HIDE DEF sum
  <2> QED
    BY <1>1, <1>3, <1>5, <2>1, ReturnStep DEF ReturnToFolderAbove
<1> QED
  BY <1>4, <1>5 DEF ReturnToFolderAbove

LEMMA RemoveKeeps ==
  ASSUME ScannerInv, NEW c \in Caller, RemoveCancelToken(c)
  PROVE  ScannerInv'
<1> USE DEF callerVars
<1>1. ScannerTypes'
  BY DEF ScannerInv, ScannerTypes, RemoveCancelToken
<1>2. TokensAreExact'
  BY DEF ScannerInv, ScannerTypes, TokensAreExact, Scanning, RemoveCancelToken
<1>3. ASSUME NEW b \in Caller, b # c
      PROVE  CallerInv(b)'
  <2>1. /\ frames'[b] = frames[b] /\ scanPc'[b] = scanPc[b] /\ result'[b] = result[b]
        /\ asked'[b] = asked[b] /\ callerPc'[b] = callerPc[b]
        /\ b \in cancelled' <=> b \in cancelled
        /\ b \in disturbed' <=> b \in disturbed
    BY <1>3 DEF RemoveCancelToken, ScannerInv, ScannerTypes
  <2>2. CallerInv(b)
    BY DEF ScannerInv
  <2> QED
    BY <2>1, <2>2, Untouched
<1>4. CallerInv(c)'
  <2>1. /\ frames[c] = <<>> /\ scanPc[c] = "return" /\ scanPc'[c] = "ready"
        /\ UNCHANGED <<frames, result, asked, callerPc, cancelled, disturbed>>
    BY DEF RemoveCancelToken, ScannerInv, ScannerTypes
  <2>2. CallerInv(c)
    BY DEF ScannerInv
  <2>3. Returned(c)' = Returned(c)
    BY <2>1 DEF Returned, Top
  <2>4. Nested(c)'
    BY <2>1, <2>2 DEF CallerInv, Nested, AtFolder
  <2>5. Progress(c)'
    BY <2>1, <2>2, <2>3 DEF CallerInv, Progress, WholeSize
  <2>6. Together(c)' /\ Reasoned(c)'
    BY <2>1, <2>2 DEF CallerInv, Together, Reasoned
  <2> QED
    BY <2>4, <2>5, <2>6 DEF CallerInv
<1> QED
  BY <1>1, <1>2, <1>3, <1>4 DEF ScannerInv

-----------------------------------------------------------------------------
(* The steps of the callers.                                               *)
LEMMA StartKeeps ==
  ASSUME ScannerInv, NEW c \in Caller, NEW d \in Dir, StartScan(c, d)
  PROVE  ScannerInv'
<1>1. /\ Activation(d) \in Frame /\ <<Activation(d)>> \in Seq(Frame)
      /\ Len(<<Activation(d)>>) = 1 /\ <<Activation(d)>>[1] = Activation(d)
      /\ <<Activation(d)>> # <<>>
  BY DEF Activation, Frame
<1>2. CallerInv(c) /\ callerPc[c] = "idle" /\ scanPc[c] = "none"
  BY DEF ScannerInv, CallerInv, Together, StartScan
<1>3. ScannerTypes'
  BY <1>1 DEF ScannerInv, ScannerTypes, StartScan
<1>4. c \notin cancelled
  BY <1>2 DEF CallerInv, Together, Reasoned
<1>5. TokensAreExact'
  BY <1>4 DEF ScannerInv, ScannerTypes, TokensAreExact, Scanning, StartScan
<1>6. ASSUME NEW b \in Caller, b # c
      PROVE  CallerInv(b)'
  <2>1. /\ frames'[b] = frames[b] /\ scanPc'[b] = scanPc[b] /\ result'[b] = result[b]
        /\ asked'[b] = asked[b] /\ callerPc'[b] = callerPc[b]
        /\ b \in cancelled' <=> b \in cancelled
        /\ b \in disturbed' <=> b \in disturbed
    BY <1>6 DEF StartScan, ScannerInv, ScannerTypes
  <2>2. CallerInv(b)
    BY DEF ScannerInv
  <2> QED
    BY <2>1, <2>2, Untouched
<1>7. CallerInv(c)'
  <2>1. /\ frames'[c] = <<Activation(d)>> /\ scanPc'[c] = "open" /\ callerPc'[c] = "waiting"
        /\ asked'[c] = d /\ d # NoSize
        /\ UNCHANGED <<cancelled, disturbed>>
    BY ScannerAssumption DEF StartScan, ScannerInv, ScannerTypes
  <2>2. Nested(c)'
    BY <2>1, <1>1 DEF Nested
  <2>3. Progress(c)'
    BY <2>1, <1>1 DEF Progress, Top, Activation
  <2>4. Together(c)' /\ Reasoned(c)'
    BY <2>1, <1>2 DEF CallerInv, Together, Reasoned
  <2> QED
    BY <2>2, <2>3, <2>4 DEF CallerInv
<1> QED
  BY <1>3, <1>5, <1>6, <1>7 DEF ScannerInv

LEMMA EndCallKeeps ==
  ASSUME ScannerInv, NEW c \in Caller, NEW answer \in Nat \cup {NoSize}, EndCall(c, answer)
  PROVE  ScannerInv'
<1>1. CallerInv(c) /\ scanPc[c] = "ready"
  BY DEF ScannerInv, EndCall
<1>2. ScannerTypes'
  BY DEF ScannerInv, ScannerTypes, EndCall, Nothing, Result
<1>3. TokensAreExact'
  BY DEF ScannerInv, ScannerTypes, TokensAreExact, Scanning, EndCall
<1>4. ASSUME NEW b \in Caller, b # c
      PROVE  CallerInv(b)'
  <2>1. /\ frames'[b] = frames[b] /\ scanPc'[b] = scanPc[b] /\ result'[b] = result[b]
        /\ asked'[b] = asked[b] /\ callerPc'[b] = callerPc[b]
        /\ b \in cancelled' <=> b \in cancelled
        /\ b \in disturbed' <=> b \in disturbed
    BY <1>4 DEF EndCall, ScannerInv, ScannerTypes
  <2>2. CallerInv(b)
    BY DEF ScannerInv
  <2> QED
    BY <2>1, <2>2, Untouched
<1>5. CallerInv(c)'
  <2>1. /\ frames'[c] = frames[c] /\ frames[c] = <<>> /\ scanPc'[c] = "none"
        /\ callerPc'[c] = "idle" /\ asked'[c] = NoSize
        /\ c \notin cancelled' /\ c \notin disturbed'
    BY <1>1 DEF EndCall, ScannerInv, ScannerTypes, CallerInv, Progress
  <2> QED
    BY <2>1 DEF CallerInv, Nested, Progress, Together, Reasoned
<1> QED
  BY <1>2, <1>3, <1>4, <1>5 DEF ScannerInv

LEMMA TimeOutKeeps ==
  ASSUME ScannerInv, NEW c \in Caller, TimeOut(c)
  PROVE  ScannerInv'
<1> USE DEF tokenVars, scanVars
<1>1. ScannerTypes'
  BY DEF ScannerInv, ScannerTypes, TimeOut
<1>2. TokensAreExact'
  BY DEF ScannerInv, TokensAreExact, Scanning, TimeOut
<1>3. ASSUME NEW b \in Caller, b # c
      PROVE  CallerInv(b)'
  <2>1. /\ frames'[b] = frames[b] /\ scanPc'[b] = scanPc[b] /\ result'[b] = result[b]
        /\ asked'[b] = asked[b] /\ callerPc'[b] = callerPc[b]
        /\ b \in cancelled' <=> b \in cancelled
        /\ b \in disturbed' <=> b \in disturbed
    BY <1>3 DEF TimeOut, ScannerInv, ScannerTypes
  <2>2. CallerInv(b)
    BY DEF ScannerInv
  <2> QED
    BY <2>1, <2>2, Untouched
<1>4. CallerInv(c)'
  <2>1. /\ callerPc[c] = "waiting" /\ callerPc'[c] = "cancelling" /\ c \in disturbed'
        /\ UNCHANGED <<frames, scanPc, result, asked, cancelled>>
    BY DEF TimeOut, ScannerInv, ScannerTypes
  <2>2. CallerInv(c)
    BY DEF ScannerInv
  <2>3. Nested(c)' /\ Progress(c)'
    BY <2>1, <2>2 DEF CallerInv, Nested, Progress, Returned, Top, AtFolder
  <2>4. Together(c)' /\ Reasoned(c)'
    BY <2>1, <2>2 DEF CallerInv, Together, Reasoned
  <2> QED
    BY <2>3, <2>4 DEF CallerInv
<1> QED
  BY <1>1, <1>2, <1>3, <1>4 DEF ScannerInv

(* cancel_all reaches every caller at once.                                *)
LEMMA CancelKeeps ==
  ASSUME ScannerInv, CancelAll, UNCHANGED <<asked, reply>>,
         callerPc' \in [Caller -> {"idle", "waiting", "cancelling", "abandoning"}],
         \A b \in Caller :
           /\ callerPc'[b] = "idle" <=> callerPc[b] = "idle"
           /\ callerPc'[b] \in {"cancelling", "abandoning"} =>
                callerPc[b] \in {"cancelling", "abandoning"}
  PROVE  ScannerInv'
<1> USE DEF scanVars
<1>1. ScannerTypes'
  BY DEF ScannerInv, ScannerTypes, CancelAll
<1>2. TokensAreExact'
  BY DEF ScannerInv, ScannerTypes, TokensAreExact, Scanning, CancelAll
<1>3. ASSUME NEW b \in Caller
      PROVE  CallerInv(b)'
  <2>1. CallerInv(b) /\ UNCHANGED <<frames, scanPc, result, asked>>
    BY DEF ScannerInv, CancelAll
  <2>2. Nested(b)' /\ Progress(b)'
    BY <2>1 DEF CallerInv, Nested, Progress, Returned, Top, AtFolder
  <2>3. callerPc[b] = "idle" => b \notin m_cancelTokens
    BY <2>1 DEF ScannerInv, TokensAreExact, Scanning, CallerInv, Together
  <2>4. Together(b)' /\ Reasoned(b)'
    BY <2>1, <2>3 DEF CallerInv, Together, Reasoned, CancelAll
  <2> QED
    BY <2>2, <2>4 DEF CallerInv
<1> QED
  BY <1>1, <1>2, <1>3 DEF ScannerInv

LEMMA ScannerInitEstablishes == ScannerInit => ScannerInv
<1> SUFFICES ASSUME ScannerInit
             PROVE  ScannerInv
  OBVIOUS
<1>1. ScannerTypes
  BY DEF ScannerInit, ScannerTypes, Nothing, Result
<1>2. TokensAreExact
  BY DEF ScannerInit, TokensAreExact, Scanning
<1>3. ASSUME NEW c \in Caller
      PROVE  CallerInv(c)
  <2>1. /\ frames[c] = <<>> /\ scanPc[c] = "none" /\ callerPc[c] = "idle"
        /\ asked[c] = NoSize /\ c \notin cancelled /\ c \notin disturbed
    BY DEF ScannerInit
  <2> QED
    BY <2>1 DEF CallerInv, Nested, Progress, Together, Reasoned
<1> QED
  BY <1>1, <1>2, <1>3 DEF ScannerInv

LEMMA ScannerStepKeeps == ScannerInv /\ [ScannerNext]_scannerVars => ScannerInv'
<1> SUFFICES ASSUME ScannerInv, [ScannerNext]_scannerVars
             PROVE  ScannerInv'
  OBVIOUS
<1>1. ASSUME NEW c \in Caller, NEW d \in Dir, StartScan(c, d)
      PROVE  ScannerInv'
  BY <1>1, StartKeeps
<1>2. ASSUME NEW c \in Caller, ScanStep(c)
      PROVE  ScannerInv'
  BY <1>2, OpenKeeps, VisitKeeps, FindNextKeeps, ReturnToFolderAboveKeeps, RemoveKeeps
  DEF ScanStep
<1>3. ASSUME NEW c \in Caller, GetResult(c)
      PROVE  ScannerInv'
  <2>1. result[c].size \in Nat
    BY DEF ScannerInv, ScannerTypes, Result
  <2> QED
    BY <2>1, <1>3, EndCallKeeps DEF GetResult
<1>4. ASSUME NEW c \in Caller, CancelAfterTimeOut(c)
      PROVE  ScannerInv'
  BY <1>4, CancelKeeps DEF CancelAfterTimeOut, ScannerInv, ScannerTypes
<1>5. ASSUME NEW c \in Caller, LeaveScan(c)
      PROVE  ScannerInv'
  BY <1>5, EndCallKeeps DEF LeaveScan
<1>6. ASSUME NEW c \in Caller, TimeOut(c)
      PROVE  ScannerInv'
  BY <1>6, TimeOutKeeps
<1>7. CASE Shutdown
  BY <1>7, CancelKeeps DEF Shutdown, ScannerInv, ScannerTypes, callerVars
<1>8. CASE UNCHANGED scannerVars
  <2>1. /\ ScannerTypes' /\ TokensAreExact'
    BY <1>8 DEF scannerVars, tokenVars, callerVars, scanVars, ScannerInv, ScannerTypes,
                TokensAreExact, Scanning
  <2>2. ASSUME NEW b \in Caller
        PROVE  CallerInv(b)'
    BY <1>8, Untouched DEF scannerVars, tokenVars, callerVars, scanVars, ScannerInv
  <2> QED
    BY <2>1, <2>2 DEF ScannerInv
<1> QED
  BY <1>1, <1>2, <1>3, <1>4, <1>5, <1>6, <1>7, <1>8 DEF ScannerNext, CallerStep

(* The inductive invariant: what every activation has added up, and that   *)
(* caller, thread and token come and go together (scan_recursive,          *)
(* scan_async_result, scan_sync_result, cancel_all).                       *)
THEOREM ScannerInvariant == ScannerSpec => []ScannerInv
<1> QED
  BY ScannerInitEstablishes, ScannerStepKeeps, PTL DEF ScannerSpec

(* Every variable of the scanner keeps its type, and no thread outlives    *)
(* the call that started it.                                               *)
THEOREM ScannerTypeCorrect == ScannerSpec => []ScannerTypeOK
<1>1. ScannerInv => ScannerTypeOK
  BY DEF ScannerInv, ScannerTypeOK, CallerInv, Together
<1> QED
  BY <1>1, ScannerInvariant, PTL

(* A scan that runs is registered or cancelled, and nothing else is        *)
(* registered (create_cancel_token, remove_cancel_token, cancel_all).      *)
THEOREM TokensStayExact == ScannerSpec => []TokensAreExact
<1>1. ScannerInv => TokensAreExact
  BY DEF ScannerInv
<1> QED
  BY <1>1, ScannerInvariant, PTL

-----------------------------------------------------------------------------
LEMMA StepKeepsPromise ==
  ASSUME ScannerInv, [ScannerNext]_scannerVars
  PROVE  [Service!Next]_(Service!serviceVars)
<1> USE DEF Service!serviceVars
<1>1. \A c \in Caller : CallerInv(c) /\ (callerPc[c] # "idle" <=> asked[c] # NoSize)
  BY DEF ScannerInv, CallerInv, Together
<1>2. \A c \in Caller : Scanning(c) => asked[c] # NoSize
  BY <1>1 DEF CallerInv, Together, Scanning
<1>3. ASSUME NEW c \in Caller, NEW d \in Dir, StartScan(c, d)
      PROVE  Service!Next
  <2>1. Service!Ask(c, d)
    BY <1>1, <1>3 DEF StartScan, Service!Ask
  <2> QED
    BY <2>1 DEF Service!Next
<1>4. ASSUME NEW c \in Caller, Scanning(c), UNCHANGED <<asked, reply>>,
             disturbed' = disturbed \cup {c}
      PROVE  Service!Next
  <2>1. Service!Disturb({c})
    BY <1>2, <1>4 DEF Service!Disturb
  <2> QED
    BY <2>1 DEF Service!Next
<1>5. ASSUME NEW c \in Caller, ScanStep(c)
      PROVE  [Service!Next]_(Service!serviceVars)
  <2>1. /\ Scanning(c) /\ UNCHANGED <<asked, reply>>
        /\ disturbed' \in {disturbed, disturbed \cup {c}}
    BY <1>5 DEF ScanStep, OpenDirectory, VisitEntry, FindNext, ReturnToFolderAbove,
                RemoveCancelToken, Scanning, callerVars
  <2> QED
    BY <2>1, <1>4
<1>6. ASSUME NEW c \in Caller, NEW answer, EndCall(c, answer), callerPc[c] # "idle",
             answer = WholeSize(asked[c]) \/ (answer = NoSize /\ c \in disturbed)
      PROVE  Service!Next
  <2>1. asked[c] \in Dir
    BY <1>1, <1>6 DEF ScannerInv, ScannerTypes
  <2>2. Service!Answer(c)
    BY <2>1, <1>1, <1>6 DEF EndCall, Service!Answer
  <2> QED
    BY <2>2 DEF Service!Next
<1>7. ASSUME NEW c \in Caller, GetResult(c)
      PROVE  Service!Next
  <2>1. scanPc[c] = "ready" /\ CallerInv(c)
    BY <1>1, <1>7 DEF GetResult, EndCall
  <2>2. result[c].status = "complete" => result[c].size = WholeSize(asked[c])
    BY <2>1 DEF CallerInv, Progress, Returned
  <2>3. result[c].status # "complete" => c \in disturbed
    BY <2>1 DEF CallerInv, Reasoned
  <2> QED
    BY <2>2, <2>3, <1>6, <1>7 DEF GetResult
<1>8. ASSUME NEW c \in Caller, LeaveScan(c)
      PROVE  Service!Next
  BY <1>1, <1>6, <1>8 DEF LeaveScan, CallerInv, Reasoned
<1>9. ASSUME CancelAll, UNCHANGED <<asked, reply>>
      PROVE  Service!Next
  <2>1. m_cancelTokens \subseteq {c \in Caller : asked[c] # NoSize}
    BY <1>2 DEF ScannerInv, TokensAreExact
  <2>2. Service!Disturb(m_cancelTokens) /\ m_cancelTokens \in SUBSET Caller
    BY <2>1, <1>9 DEF CancelAll, Service!Disturb
  <2> QED
    BY <2>2 DEF Service!Next
<1>10. ASSUME NEW c \in Caller, TimeOut(c)
       PROVE  Service!Next
  <2>1. Service!Disturb({c})
    BY <1>1, <1>10 DEF TimeOut, Service!Disturb
  <2> QED
    BY <2>1 DEF Service!Next
<1>11. CASE UNCHANGED scannerVars
  BY <1>11 DEF scannerVars, callerVars
<1> QED
  BY <1>3, <1>5, <1>7, <1>8, <1>9, <1>10, <1>11
  DEF ScannerNext, CallerStep, CancelAfterTimeOut, Shutdown, callerVars

(* FolderScanner implements ScanService: a call answers the size of the    *)
(* whole tree or nothing, and nothing only for a reason, for every tree    *)
(* and any number of callers that time out or cancel each other.           *)
THEOREM ScannerKeepsPromise == ScannerSpec => KeepsScanPromise
<1>1. ScannerInit => Service!Init
  BY DEF ScannerInit, Service!Init
<1> QED
  BY <1>1, StepKeepsPromise, ScannerInvariant, PTL
  DEF ScannerSpec, KeepsScanPromise, Service!Spec
=============================================================================
