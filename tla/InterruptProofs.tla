--------------------------- MODULE InterruptProofs ---------------------------
(***************************************************************************)
(* Proofs about the interrupt controller, for any set of lines and of      *)
(* priorities and any nesting of handlers.                                 *)
(*                                                                         *)
(* dispatch() clears the pending bit of the line it serves through         *)
(* clear(), which does nothing for a line that is not registered.  So the  *)
(* promise that a served line is cleared rests on the invariant that only  *)
(* registered lines have handlers, whatever is stored to ENABLE and        *)
(* PENDING over the MMIO bus.  That it is the most urgent line rests on    *)
(* the invariant of the loop that looks for it.                            *)
(***************************************************************************)
EXTENDS InterruptController, QueueTheorems

\* Line i is served before line j.
Beats(i, j) == priorities[i] < priorities[j] \/ (priorities[i] = priorities[j] /\ i < j)

\* The lines the loop has looked at and must choose from.
Seen == {j \in Candidates : j < scan.next}

\* The loop invariant of dispatch(): the best so far is the best of those seen,
\* and the running value is its priority; nothing was seen if there is none.
ScanIsRight ==
  scan.on =>
    \/ scan.id = NONE /\ Seen = {}
    \/ /\ scan.id \in Seen /\ scan.val = priorities[scan.id]
       /\ \A j \in Seen \ {scan.id} : Beats(scan.id, j)

\* dispatch() was called with room for one more handler.
RoomForHandler == scan.on => Len(stack) < MaxDepth

\* The inductive invariant.
IInv == TypeOK /\ HandlersAreRegistered /\ ScanIsRight /\ RoomForHandler

\* Lines and priorities are natural numbers.
LEMMA LinesAreNumbers ==
  /\ \A i \in Lines : i \in Nat /\ i < MAX_INTERRUPTS /\ i # NONE
  /\ DEFAULT_PRIORITY \in Levels /\ \A p \in Levels : p \in Nat /\ p \in 0 .. 255
BY LinesAssumption, LevelsAssumption DEF Lines, NONE, DEFAULT_PRIORITY

\* Front drops one element.
LEMMA FrontShorter ==
  ASSUME NEW S, NEW s \in Seq(S), s # << >>
  PROVE  Front(s) \in Seq(S) /\ Len(Front(s)) = Len(s) - 1
<1>1. Len(s) \in Nat /\ Len(s) > 0 /\ \A i \in 1 .. Len(s) : s[i] \in S
  BY EmptySeq, LenProperties, ElementOfSeq
<1>2. \A i \in 1 .. Len(s) - 1 : s[i] \in S
  BY <1>1
<1> DEFINE n == Len(s) - 1
<1>3. 1 \in Int /\ n \in Int /\ \A i \in 1 .. n : s[i] \in S
  BY <1>1, <1>2
<1>4. Front(s) = SubSeq(s, 1, n)
  BY DEF Front
<1> HIDE DEF n
<1>5. SubSeq(s, 1, n) \in Seq(S) /\ Len(SubSeq(s, 1, n)) = IF 1 <= n THEN n - 1 + 1 ELSE 0
  BY <1>3, SubSeqProperties
<1>6. n \in Nat
  BY <1>1 DEF n
<1>7. Len(SubSeq(s, 1, n)) = n
  BY <1>5, <1>6
<1> QED BY <1>4, <1>5, <1>7 DEF n

\* What the program calls and how handlers end: the scan is not on.
LEMMA CallKeeps ==
  ASSUME IInv, OutsideScan, Call \/ HandlerReturns \/ HandlerThrows
  PROVE  IInv'
<1> USE DEF IInv, TypeOK, HandlersAreRegistered
<1> DEFINE Kept == /\ registered' \subseteq Lines /\ enabled' \subseteq Lines
                   /\ pending' \subseteq Lines /\ handlers' \subseteq registered'
                   /\ priorities' \in [Lines -> Levels]
                   /\ stack' \in Seq(Lines) /\ Len(stack') <= MaxDepth
<1>1. ASSUME NEW i \in Lines, RegisterInterrupt(i) PROVE Kept
  BY <1>1 DEF RegisterInterrupt
<1>2. ASSUME NEW i \in Lines, UnregisterInterrupt(i) PROVE Kept
  BY <1>2, LinesAreNumbers DEF UnregisterInterrupt
<1>3. ASSUME NEW i \in Lines, Enable(i) \/ Disable(i) PROVE Kept
  BY <1>3 DEF Enable, Disable
<1>4. ASSUME NEW i \in Lines, Trigger(i) \/ Clear(i) PROVE Kept
  BY <1>4 DEF Trigger, Clear, Cleared
<1>5. ASSUME NEW i \in Lines, RegisterHandler(i) \/ UnregisterHandler(i) PROVE Kept
  BY <1>5 DEF RegisterHandler, UnregisterHandler
<1>6. ASSUME NEW i \in Lines, NEW p \in Levels, SetPriority(i, p) PROVE Kept
  BY <1>6 DEF SetPriority
<1>7. ASSUME NEW w \in SUBSET Lines, WriteEnable(w) \/ WritePending(w) PROVE Kept
  BY <1>7 DEF WriteEnable, WritePending
<1>8. ASSUME Reset PROVE Kept
  BY <1>8, LinesAreNumbers DEF Reset
<1>9. ASSUME HandlerReturns PROVE Kept
  <2>1. stack' \in Seq(Lines) /\ Len(stack') = Len(stack) - 1
    BY <1>9, FrontShorter DEF HandlerReturns
  <2> QED BY <1>9, <2>1, DepthAssumption DEF HandlerReturns
<1>10. ASSUME HandlerThrows PROVE Kept
  BY <1>10, DepthAssumption DEF HandlerThrows
<1>11. Kept
  BY <1>1, <1>2, <1>3, <1>4, <1>5, <1>6, <1>7, <1>8, <1>9, <1>10 DEF Call
<1> HIDE DEF Kept
<1>12. scan' = scan /\ ~scan.on
  BY DEF OutsideScan
<1> QED BY <1>11, <1>12 DEF Kept, ScanIsRight, RoomForHandler

\* An iteration of the loop keeps its invariant.
LEMMA ScanLineKeeps ==
  ASSUME IInv, ScanLine
  PROVE  IInv'
<1> DEFINE i == scan.next
<1>1. /\ UNCHANGED calls /\ scan.on /\ i \in Lines
      /\ scan \in [on : BOOLEAN, next : 0 .. MAX_INTERRUPTS,
                   id : Lines \cup {NONE}, val : 0 .. 255]
  <2>1. scan.on /\ scan.next < MAX_INTERRUPTS /\ UNCHANGED calls
    BY DEF ScanLine
  <2>2. scan \in [on : BOOLEAN, next : 0 .. MAX_INTERRUPTS,
                 id : Lines \cup {NONE}, val : 0 .. 255]
    BY DEF IInv, TypeOK
  <2>3. scan.next \in 0 .. MAX_INTERRUPTS
    BY <2>2
  <2>4. i \in Lines
    BY <2>1, <2>3, LinesAssumption DEF Lines
  <2> QED BY <2>1, <2>2, <2>4
<1>2. /\ Candidates' = Candidates /\ Candidates \subseteq Lines
      /\ \A j \in Lines : priorities[j] \in 0 .. 255 /\ priorities[j] \in Nat
  <2>1. priorities \in [Lines -> Levels] /\ enabled \subseteq Lines
    BY DEF IInv, TypeOK
  <2> QED BY <1>1, <2>1, LinesAreNumbers DEF Candidates, calls
<1>3. i + 1 \in 0 .. MAX_INTERRUPTS /\ i \in Nat
  BY <1>1, LinesAssumption DEF Lines
<1>4. \A j \in Candidates : j < i + 1 <=> j < i \/ j = i
  BY <1>2, <1>3, LinesAreNumbers
<1>5. CASE i \in Candidates /\ TakesOver(i)
  <2>1. scan' = [scan EXCEPT !.next = i + 1, !.id = i, !.val = priorities[i]]
    BY <1>5 DEF ScanLine
  <2>2. scan'.on /\ scan'.next = i + 1 /\ scan'.id = i /\ scan'.val = priorities[i]
    BY <1>1, <2>1
  <2>3. scan' \in [on : BOOLEAN, next : 0 .. MAX_INTERRUPTS,
                   id : Lines \cup {NONE}, val : 0 .. 255]
    BY <1>1, <1>2, <1>3, <2>1
  <2>4. Seen' = Seen \cup {i}
    BY <1>2, <1>4, <1>5, <2>2 DEF Seen
  <2>5. \A j \in Seen : priorities[i] < priorities[j]
    <3>1. CASE scan.id = NONE
      <4>1. Seen \subseteq Lines
        BY <1>2 DEF Seen
      <4>2. Seen = {}
        BY <1>1, <3>1, <4>1, LinesAreNumbers DEF IInv, ScanIsRight
      <4> QED BY <4>2
    <3>2. CASE scan.id # NONE
      <4>1. /\ priorities[i] < priorities[scan.id] /\ scan.id \in Seen
            /\ \A j \in Seen \ {scan.id} : Beats(scan.id, j)
        BY <1>1, <1>5, <3>2 DEF IInv, ScanIsRight, TakesOver
      <4>2. Seen \subseteq Lines
        BY <1>2 DEF Seen
      <4>3. ASSUME NEW j \in Seen PROVE priorities[i] < priorities[j]
        <5>1. /\ priorities[i] \in Nat /\ priorities[j] \in Nat
              /\ priorities[scan.id] \in Nat
          BY <1>1, <1>2, <4>1, <4>2
        <5>2. j = scan.id \/ priorities[scan.id] <= priorities[j]
          BY <4>1, <5>1 DEF Beats
        <5> QED BY <4>1, <5>1, <5>2
      <4> QED BY <4>3
    <3> QED BY <3>1, <3>2
  <2>6. priorities' = priorities
    BY <1>1 DEF calls
  <2> QED BY <1>1, <2>2, <2>3, <2>4, <2>5, <2>6
          DEF IInv, TypeOK, HandlersAreRegistered, ScanIsRight, RoomForHandler, Beats, calls
<1>6. CASE ~(i \in Candidates /\ TakesOver(i))
  <2>1. scan' = [scan EXCEPT !.next = i + 1]
    BY <1>6 DEF ScanLine
  <2>2. scan'.on /\ scan'.next = i + 1 /\ scan'.id = scan.id /\ scan'.val = scan.val
    BY <1>1, <2>1
  <2>3. scan' \in [on : BOOLEAN, next : 0 .. MAX_INTERRUPTS,
                   id : Lines \cup {NONE}, val : 0 .. 255]
    BY <1>1, <1>3, <2>1
  <2>4. Seen' = Seen \cup (Candidates \cap {i})
    BY <1>2, <1>4, <2>2 DEF Seen
  <2>5. /\ scan.id = NONE => Seen' = {}
        /\ scan.id # NONE => \A j \in Seen' \ {scan.id} : Beats(scan.id, j)
    <3>1. CASE i \notin Candidates
      <4>1. Seen' = Seen /\ Seen \subseteq Lines
        BY <1>2, <2>4, <3>1 DEF Seen
      <4> QED BY <1>1, <4>1, LinesAreNumbers DEF IInv, ScanIsRight
    <3>2. CASE i \in Candidates
      <4>1. /\ scan.id # NONE /\ ~(priorities[i] < scan.val) /\ scan.id \in Seen
            /\ scan.val = priorities[scan.id]
            /\ \A j \in Seen \ {scan.id} : Beats(scan.id, j)
        BY <1>1, <1>6, <3>2 DEF IInv, ScanIsRight, TakesOver
      <4>2. scan.id \in Lines /\ scan.id < i
        BY <1>2, <4>1 DEF Seen
      <4>3. Beats(scan.id, i)
        <5>1. priorities[i] \in Nat /\ priorities[scan.id] \in Nat
          BY <1>1, <1>2, <4>2
        <5>2. priorities[scan.id] < priorities[i] \/ priorities[scan.id] = priorities[i]
          BY <4>1, <5>1
        <5> QED BY <4>2, <5>2 DEF Beats
      <4> QED BY <2>4, <4>1, <4>3
    <3> QED BY <3>1, <3>2
  <2>6. priorities' = priorities /\ Seen \subseteq Seen'
    BY <1>1, <2>4 DEF calls
  <2>7. ScanIsRight'
    <3>1. CASE scan.id = NONE
      BY <2>2, <2>5, <3>1 DEF ScanIsRight
    <3>2. CASE scan.id # NONE
      <4>1. scan.id \in Seen /\ scan.val = priorities[scan.id]
        BY <1>1, <3>2 DEF IInv, ScanIsRight
      <4> QED BY <2>2, <2>5, <2>6, <3>2, <4>1 DEF ScanIsRight, Beats
    <3> QED BY <3>1, <3>2
  <2> QED BY <1>1, <2>2, <2>3, <2>7 DEF IInv, TypeOK, HandlersAreRegistered, RoomForHandler, calls
<1> QED BY <1>5, <1>6

\* The handler that is entered is that of the best of all candidates.
LEMMA EntersBest ==
  ASSUME IInv, EnterHandler
  PROVE  /\ scan.id \in Candidates /\ scan.id \in Lines
         /\ \A j \in Candidates \ {scan.id} : Beats(scan.id, j)
<1>1. /\ scan.id \in Seen /\ \A j \in Seen \ {scan.id} : Beats(scan.id, j)
      /\ scan.next = MAX_INTERRUPTS
  BY DEF IInv, ScanIsRight, EnterHandler
<1>2. Candidates \subseteq Lines
  BY DEF Candidates, IInv, TypeOK
<1>3. Seen = Candidates
  BY <1>1, <1>2, LinesAreNumbers DEF Seen
<1> QED BY <1>1, <1>2, <1>3

\* The invariant is kept by every step.
LEMMA StepKeeps ==
  ASSUME IInv, [Next]_vars
  PROVE  IInv'
<1>1. CASE OutsideScan /\ (Call \/ HandlerReturns \/ HandlerThrows)
  BY <1>1, CallKeeps
<1>2. CASE ScanLine
  BY <1>2, ScanLineKeeps
<1>3. NoScan \in [on : BOOLEAN, next : 0 .. MAX_INTERRUPTS,
                  id : Lines \cup {NONE}, val : 0 .. 255]
  BY LinesAssumption DEF NoScan
<1>4. CASE Dispatch
  <2>1. UNCHANGED calls /\ scan' = [NoScan EXCEPT !.on = TRUE]
    BY <1>4 DEF Dispatch
  <2>2. scan' \in [on : BOOLEAN, next : 0 .. MAX_INTERRUPTS,
                   id : Lines \cup {NONE}, val : 0 .. 255]
    BY <1>3, <2>1
  <2>3. scan'.next = 0 /\ scan'.id = NONE
    BY <2>1 DEF NoScan
  <2>4. Candidates' \subseteq Lines
    BY <2>1 DEF Candidates, calls, IInv, TypeOK
  <2>5. Seen' = {}
    <3>1. \A j \in Candidates' : ~(j < 0)
      BY <2>4, LinesAreNumbers
    <3> QED BY <2>3, <3>1 DEF Seen
  <2>6. Len(stack') < MaxDepth
    BY <1>4, <2>1 DEF Dispatch, calls
  <2> QED BY <2>1, <2>2, <2>3, <2>5, <2>6
          DEF IInv, TypeOK, HandlersAreRegistered, ScanIsRight, RoomForHandler, calls
<1>5. CASE EnterHandler
  <2>1. scan.id \in Lines
    BY <1>5, EntersBest
  <2>2. stack' \in Seq(Lines) /\ Len(stack') = Len(stack) + 1
    BY <1>5, <2>1 DEF EnterHandler, IInv, TypeOK
  <2>3. pending' \subseteq Lines
    BY <1>5 DEF EnterHandler, Cleared, IInv, TypeOK
  <2>4. /\ scan' = NoScan /\ ~scan'.on
        /\ UNCHANGED <<registered, enabled, priorities, handlers>>
    BY <1>5 DEF EnterHandler, NoScan
  <2>5. Len(stack') <= MaxDepth
    BY <1>5, <2>2, DepthAssumption DEF EnterHandler, IInv, TypeOK, RoomForHandler
  <2> QED BY <1>3, <2>2, <2>3, <2>4, <2>5
          DEF IInv, TypeOK, HandlersAreRegistered, ScanIsRight, RoomForHandler
<1>6. CASE FindNone
  <2>1. UNCHANGED calls /\ scan' = NoScan /\ ~scan'.on
    BY <1>6 DEF FindNone, NoScan
  <2> QED BY <1>3, <2>1 DEF IInv, TypeOK, HandlersAreRegistered, ScanIsRight, RoomForHandler, calls
<1>7. CASE UNCHANGED vars
  BY <1>7
     DEF vars, IInv, TypeOK, HandlersAreRegistered, ScanIsRight, RoomForHandler, Seen,
         Candidates, Beats
<1> QED BY <1>1, <1>2, <1>4, <1>5, <1>6, <1>7 DEF Next

THEOREM Inductive == Spec => []IInv
<1>1. Init => IInv
  BY LinesAreNumbers, LinesAssumption, DepthAssumption
     DEF Init, IInv, TypeOK, HandlersAreRegistered, ScanIsRight, RoomForHandler, NoScan
<1>2. IInv /\ [Next]_vars => IInv'
  BY StepKeeps
<1> QED BY <1>1, <1>2, PTL DEF Spec

\* All variables keep their types, the depth of the stack included.
THEOREM TypeCorrect == Spec => []TypeOK
<1>1. IInv => TypeOK
  BY DEF IInv
<1> QED BY <1>1, Inductive, PTL

\* Only a registered line has a handler.
THEOREM HandlersRegistered == Spec => []HandlersAreRegistered
<1>1. IInv => HandlersAreRegistered
  BY DEF IInv
<1> QED BY <1>1, Inductive, PTL

\* Only dispatch() enters a handler, at the end of its loop.
LEMMA EntersOnlyThere ==
  ASSUME IInv, [Next]_vars, Len(stack') > Len(stack)
  PROVE  EnterHandler /\ Last(stack') = scan.id
<1>1. stack' # stack /\ stack \in Seq(Lines)
  BY DEF IInv, TypeOK
<1>2. ~HandlerReturns /\ ~HandlerThrows
  BY <1>1, FrontShorter DEF HandlerReturns, HandlerThrows
<1>3. ~Call
  BY <1>1 DEF Call, RegisterInterrupt, UnregisterInterrupt, Enable, Disable, Trigger, Clear,
     RegisterHandler, UnregisterHandler, SetPriority, WriteEnable, WritePending, Reset
<1>4. EnterHandler
  BY <1>1, <1>2, <1>3 DEF Next, vars, calls, Dispatch, ScanLine, FindNone
<1>5. Last(stack') = scan.id
  BY <1>1, <1>4, EntersBest DEF EnterHandler, Last
<1> QED BY <1>4, <1>5

\* The pending bit of a line is consumed before its handler is entered.
THEOREM ServedLineCleared == Spec => ServedLineIsCleared
<1>1. IInv /\ [Next]_vars
        => [Len(stack') > Len(stack)
              => Last(stack') \in pending /\ Last(stack') \notin pending']_vars
  <2> SUFFICES ASSUME IInv, [Next]_vars, Len(stack') > Len(stack)
               PROVE  Last(stack') \in pending /\ Last(stack') \notin pending'
    OBVIOUS
  <2> QED BY EntersOnlyThere, EntersBest
          DEF EnterHandler, Candidates, Cleared, IInv, HandlersAreRegistered
<1> QED BY <1>1, Inductive, PTL DEF Spec, ServedLineIsCleared

\* The handler that is entered is that of the most urgent line: the loop of
\* dispatch() finds it among any lines, with any priorities.
THEOREM ServesMostUrgent == Spec => MostUrgentFirst
<1> DEFINE Urgent(i) == \A j \in (enabled \cap pending \cap handlers) \ {i} :
                          \/ priorities[i] < priorities[j]
                          \/ priorities[i] = priorities[j] /\ i < j
<1>1. IInv /\ [Next]_vars => [Len(stack') > Len(stack) => Urgent(Last(stack'))]_vars
  <2> SUFFICES ASSUME IInv, [Next]_vars, Len(stack') > Len(stack)
               PROVE  Urgent(Last(stack'))
    OBVIOUS
  <2> QED BY EntersOnlyThere, EntersBest DEF Candidates, Beats
<1> QED BY <1>1, Inductive, PTL DEF Spec, MostUrgentFirst
=============================================================================
