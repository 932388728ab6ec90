------------------------- MODULE InterruptController -------------------------
(***************************************************************************)
(* The interrupt controller, class efs::kernel::InterruptController        *)
(* (src/src/kernel/interrupt_controller.cpp).                              *)
(*                                                                         *)
(* ENABLE and PENDING are sets of lines.  They are MMIO registers: the     *)
(* member functions refuse a line that is not registered, a write over the *)
(* MMIO bus (by the program or by DMA) does not.  dispatch() scans the     *)
(* lines, one step per iteration of its loop, and runs one handler; a      *)
(* handler may call anything, dispatch() too, so handlers nest.  Nothing   *)
(* else runs during the scan.  Calls with an id of MAX_INTERRUPTS or more  *)
(* throw before they change anything and are left out.                     *)
(***************************************************************************)
EXTENDS Integers, Sequences, SequencesExt

CONSTANTS
  MAX_INTERRUPTS,   \* the number of lines: 32, fewer in a run
  Levels,           \* the uint8 priorities in use, the default among them
  MaxDepth          \* bound: nesting of handlers on the C++ stack

Lines == 0 .. MAX_INTERRUPTS - 1
DEFAULT_PRIORITY == 128
NONE == -1          \* the scan has not found a line

ASSUME LinesAssumption == MAX_INTERRUPTS \in 1 .. 32
ASSUME LevelsAssumption == Levels \subseteq 0 .. 255 /\ DEFAULT_PRIORITY \in Levels
ASSUME DepthAssumption == MaxDepth \in Nat

VARIABLES
  registered,   \* m_registered, as the set of lines
  enabled,      \* the ENABLE register
  pending,      \* the PENDING register
  priorities,   \* m_priorities
  handlers,     \* the lines whose m_handlers entry is not null
  stack,        \* the lines whose handlers are running, innermost last
  scan          \* the locals of dispatch(): i (next), highestPriorityId (id),
                \* highestPriorityVal (val); on while its loop runs

calls == <<registered, enabled, pending, priorities, handlers, stack>>
vars == <<registered, enabled, pending, priorities, handlers, stack, scan>>

TypeOK == /\ registered \subseteq Lines
          /\ enabled \subseteq Lines
          /\ pending \subseteq Lines
          /\ priorities \in [Lines -> Levels]
          /\ handlers \subseteq Lines
          /\ stack \in Seq(Lines) /\ Len(stack) <= MaxDepth
          /\ scan \in [on : BOOLEAN, next : 0 .. MAX_INTERRUPTS,
                       id : Lines \cup {NONE}, val : 0 .. 255]

NoScan == [on |-> FALSE, next |-> 0, id |-> NONE, val |-> 255]

Init == /\ registered = {} /\ enabled = {} /\ pending = {} /\ handlers = {}
        /\ priorities = [i \in Lines |-> DEFAULT_PRIORITY]
        /\ stack = << >> /\ scan = NoScan

\* The loop of dispatch() calls nobody: until it ends, nothing else happens.
OutsideScan == ~scan.on /\ UNCHANGED scan

RegisterInterrupt(i) == /\ i \notin registered
                        /\ registered' = registered \cup {i}
                        /\ UNCHANGED <<enabled, pending, priorities, handlers, stack>>

\* Mutant: the handler survives its line.
UnregisterKeepsHandler(i) == /\ i \in registered
                             /\ enabled' = enabled \ {i}
                             /\ pending' = pending \ {i}
                             /\ registered' = registered \ {i}
                             /\ priorities' = [priorities EXCEPT ![i] = DEFAULT_PRIORITY]
                             /\ UNCHANGED <<handlers, stack>>

\* disable and clear come first: they do nothing for an unregistered line.
UnregisterInterrupt(i) == /\ i \in registered
                          /\ enabled' = enabled \ {i}
                          /\ pending' = pending \ {i}
                          /\ registered' = registered \ {i}
                          /\ handlers' = handlers \ {i}
                          /\ priorities' = [priorities EXCEPT ![i] = DEFAULT_PRIORITY]
                          /\ UNCHANGED stack

Enable(i) == /\ i \in registered
             /\ enabled' = enabled \cup {i}
             /\ UNCHANGED <<registered, pending, priorities, handlers, stack>>

Disable(i) == /\ i \in registered
              /\ enabled' = enabled \ {i}
              /\ UNCHANGED <<registered, pending, priorities, handlers, stack>>

Trigger(i) == /\ i \in registered
              /\ pending' = pending \cup {i}
              /\ UNCHANGED <<registered, enabled, priorities, handlers, stack>>

Cleared(i) == IF i \in registered THEN pending \ {i} ELSE pending

Clear(i) == /\ pending' = Cleared(i)
            /\ UNCHANGED <<registered, enabled, priorities, handlers, stack>>

SetPriority(i, p) == /\ i \in registered
                     /\ priorities' = [priorities EXCEPT ![i] = p]
                     /\ UNCHANGED <<registered, enabled, pending, handlers, stack>>

\* Mutant: a handler is taken for any line.
RegisterAnyHandler(i) == /\ handlers' = handlers \cup {i}
                         /\ UNCHANGED <<registered, enabled, pending, priorities, stack>>

RegisterHandler(i) == /\ i \in registered
                      /\ handlers' = handlers \cup {i}
                      /\ UNCHANGED <<registered, enabled, pending, priorities, stack>>

UnregisterHandler(i) == /\ i \in registered
                        /\ handlers' = handlers \ {i}
                        /\ UNCHANGED <<registered, enabled, pending, priorities, stack>>

\* A store to one of the two registers over the MMIO bus.
WriteEnable(w) == /\ enabled' = w
                  /\ UNCHANGED <<registered, pending, priorities, handlers, stack>>
WritePending(w) == /\ pending' = w
                   /\ UNCHANGED <<registered, enabled, priorities, handlers, stack>>

-----------------------------------------------------------------------------
(***************************************************************************)
(* dispatch().                                                             *)
(***************************************************************************)

\* The lines the scan considers.
Candidates == enabled \cap pending \cap handlers

\* Mutant: the best so far is compared with 255 from the start.
BelowBestOnly(i) == priorities[i] < scan.val

\* Mutant: among equals the last line goes first.
NotAboveBest(i) == scan.id = NONE \/ priorities[i] <= scan.val

\* Whether a line takes the place of the best so far.
TakesOver(i) == scan.id = NONE \/ priorities[i] < scan.val

\* dispatch() returns at once if no enabled line is pending.
Dispatch == /\ ~scan.on
            /\ enabled \cap pending # {}
            /\ Len(stack) < MaxDepth
            /\ scan' = [NoScan EXCEPT !.on = TRUE]
            /\ UNCHANGED calls

\* One iteration of the loop.
ScanLine == /\ scan.on
            /\ scan.next < MAX_INTERRUPTS
            /\ LET i == scan.next
               IN scan' = IF i \in Candidates /\ TakesOver(i)
                          THEN [scan EXCEPT !.next = i + 1, !.id = i, !.val = priorities[i]]
                          ELSE [scan EXCEPT !.next = i + 1]
            /\ UNCHANGED calls

\* The pending bit is cleared before the handler is entered.
EnterHandler == /\ scan.on /\ scan.next = MAX_INTERRUPTS /\ scan.id # NONE
                /\ pending' = Cleared(scan.id)
                /\ stack' = Append(stack, scan.id)
                /\ scan' = NoScan
                /\ UNCHANGED <<registered, enabled, priorities, handlers>>

\* No pending line has a handler.
FindNone == /\ scan.on /\ scan.next = MAX_INTERRUPTS /\ scan.id = NONE
            /\ scan' = NoScan
            /\ UNCHANGED calls

HandlerReturns == /\ stack # << >>
                  /\ stack' = Front(stack)
                  /\ UNCHANGED <<registered, enabled, pending, priorities, handlers>>

\* An exception unwinds every handler; nothing is put back.
HandlerThrows == /\ stack # << >>
                 /\ stack' = << >>
                 /\ UNCHANGED <<registered, enabled, pending, priorities, handlers>>

\* Mutant: the priorities are zeroed, not set back to their default.
ResetPrioritiesToZero ==
  /\ registered' = {} /\ enabled' = {} /\ pending' = {} /\ handlers' = {}
  /\ priorities' = [i \in Lines |-> 0]
  /\ UNCHANGED stack

\* reset(): the lines and handlers are forgotten with the registers.
Reset == /\ registered' = {} /\ enabled' = {} /\ pending' = {} /\ handlers' = {}
         /\ priorities' = [i \in Lines |-> DEFAULT_PRIORITY]
         /\ UNCHANGED stack

\* What the program and its handlers may do outside the scan.
Call == \/ \E i \in Lines : \/ RegisterInterrupt(i) \/ UnregisterInterrupt(i)
                            \/ Enable(i) \/ Disable(i)
                            \/ Trigger(i) \/ Clear(i)
                            \/ RegisterHandler(i) \/ UnregisterHandler(i)
                            \/ \E p \in Levels : SetPriority(i, p)
        \/ \E w \in SUBSET Lines : WriteEnable(w) \/ WritePending(w)
        \/ Reset

Next == \/ OutsideScan /\ (Call \/ HandlerReturns \/ HandlerThrows)
        \/ Dispatch \/ ScanLine \/ EnterHandler \/ FindNone

Spec == Init /\ [][Next]_vars

\* CPU::step dispatches in every step; the scan goes on; handlers end.
FairSpec == /\ Spec
            /\ WF_vars(Dispatch)
            /\ WF_vars(ScanLine \/ EnterHandler \/ FindNone)
            /\ WF_vars(OutsideScan /\ (HandlerReturns \/ HandlerThrows))

-----------------------------------------------------------------------------
(***************************************************************************)
(* Properties.                                                             *)
(***************************************************************************)

\* Whatever is written to the registers over MMIO, only a registered line has
\* a handler.  dispatch() relies on it: its clear() does nothing for a line
\* that is not registered, and the same interrupt would be served for ever.
HandlersAreRegistered == handlers \subseteq registered

\* Each handler that is entered consumes its pending bit first, so that a
\* trigger from inside the handler is kept for the next dispatch.
ServedLineIsCleared ==
  [][Len(stack') > Len(stack) => Last(stack') \in pending /\ Last(stack') \notin pending']_vars

\* What the loop of dispatch() finds with its two running values is, over all
\* lines, one that no enabled, pending line with a handler goes before: none has
\* a numerically smaller priority, and among equals the lowest line goes first.
MostUrgentFirst ==
  [][Len(stack') > Len(stack) =>
       LET i == Last(stack')
       IN \A j \in (enabled \cap pending \cap handlers) \ {i} :
            \/ priorities[i] < priorities[j]
            \/ priorities[i] = priorities[j] /\ i < j]_vars

\* The most urgent line does not stay unserved: it is dispatched, withdrawn or
\* overtaken by a more urgent one.  Priority 255 is served like any other.
MostUrgent(i) == /\ i \in enabled \cap pending \cap handlers
                 /\ \A j \in (enabled \cap pending \cap handlers) \ {i} :
                      \/ priorities[i] < priorities[j]
                      \/ priorities[i] = priorities[j] /\ i < j
MostUrgentIsServed == \A i \in Lines : MostUrgent(i) ~> ~MostUrgent(i)
=============================================================================
