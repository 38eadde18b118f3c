-------------------------- MODULE InterruptPipeProofs --------------------------
(***************************************************************************)
(* Proofs about InterruptPipe, for every number of events and of calls,    *)
(* provided that IOUSBHostPipe::abort() is synchronous.                    *)
(*                                                                         *)
(* The inductive invariant follows the one transfer a call submits: it is  *)
(* outstanding, aborted, being completed, or done, never two at once       *)
(* (OneTransfer), it belongs to the latest call (Owned), it is only alive  *)
(* at the control points between io() and the return (Phases), and the     *)
(* event it carries is the newest one the chip handed out (Carried).       *)
(***************************************************************************)
EXTENDS InterruptPipe, TLAPS

\* The only transfer there can be is that of the latest call.
Owned == /\ Live => frame # 0
         /\ pending \subseteq {frame}
         /\ dying \subseteq {frame}
         /\ handler.at # "idle" => handler.frame = frame

\* It is in one place at a time.
OneTransfer == /\ handler.at # "idle" => pending = {} /\ dying = {}
               /\ pending = {} \/ dying = {}
               /\ handler.at = "idle" => handler = NoHandler

\* Where the thread can be while the transfer is in each place.
Phases == /\ pending # {} => pc \in {"lock", "asleep", "abort"}
          /\ dying # {} => pc = "aborting"
          /\ handler.at # "idle" => pc \in {"lock", "asleep", "abort", "aborting"}

\* What the response and mReadBuffer hold at each stage.
Carried == /\ Live /\ (pending # {} \/ dying # {} \/ handler.at = "fill") => resp = Empty
           /\ pc \in {"submit", "resubmit"} => resp = Empty
           /\ handler.at = "wake" => resp.filled
           /\ pc = "awake" => resp.filled
           /\ Live /\ resp.event # 0 => resp.event = taken /\ buffer = taken
           /\ handler.at = "fill" /\ handler.event # 0 =>
                handler.event = taken /\ buffer = taken

IInv == TypeOK /\ Owned /\ OneTransfer /\ Phases /\ Carried

-----------------------------------------------------------------------------

\* The empty response is a response.
LEMMA EmptyType == Empty \in [filled : BOOLEAN, event : 0 .. MaxEvents]
  BY InterruptPipeAssumption DEF InterruptPipeAssumption, Empty

\* A handler that is not running is of the type of handlers.
LEMMA NoHandlerType == NoHandler \in [at : {"idle", "fill", "wake"}, frame : 0 .. MaxReads,
                                       event : 0 .. MaxEvents, status : Statuses]
  BY InterruptPipeAssumption DEF InterruptPipeAssumption, NoHandler, Statuses

\* The invariant holds at first.
LEMMA InitIInv == Init => IInv
<1> SUFFICES ASSUME Init PROVE IInv
  OBVIOUS
<1>1. TypeOK
  <2>1. /\ resp \in [filled : BOOLEAN, event : 0 .. MaxEvents]
        /\ handler \in [at : {"idle", "fill", "wake"}, frame : 0 .. MaxReads,
                       event : 0 .. MaxEvents, status : Statuses]
    BY EmptyType, NoHandlerType DEF Init
  <2>2. result \in Results
    BY DEF Init, Failure, Results
  <2>3. halted \in BOOLEAN /\ woken \in BOOLEAN
    BY Zenon DEF Init
  <2>4. QED
    BY <2>1, <2>2, <2>3, InterruptPipeAssumption
       DEF InterruptPipeAssumption, Init, TypeOK, Points, Frames
<1>2. Owned /\ OneTransfer /\ Phases /\ Carried
  BY DEF Init, Owned, OneTransfer, Phases, Carried, NoHandler, Live, InCall
<1>3. QED
  BY <1>1, <1>2 DEF IInv

\* Every step keeps it, given a synchronous abort.
LEMMA StepIInv == ASSUME AbortSynchronous PROVE IInv /\ [Next]_vars => IInv'
<1> SUFFICES ASSUME AbortSynchronous, IInv, [Next]_vars PROVE IInv'
  OBVIOUS
<1> USE DEF InterruptPipeAssumption, IInv, TypeOK, Owned, OneTransfer, Phases,
            Carried, NoHandler,
        Empty, Success, Failure, Results, Points, InCall, Frames, Statuses, Live,
        Goto, Return, driverVars, usbVars, Quiescent, Complete
<1>1. CASE Call
  <2>1. resp' \in [filled : BOOLEAN, event : 0 .. MaxEvents]
    BY <1>1, EmptyType DEF Call
  <2>2. TypeOK'
    <3>1. woken' \in BOOLEAN
      BY <1>1, Zenon DEF Call
    <3>2. QED
      BY <1>1, <2>1, <3>1, InterruptPipeAssumption DEF Call
  <2>3. Owned' /\ OneTransfer' /\ Phases'
    BY <1>1, InterruptPipeAssumption DEF Call
  <2>4. Carried'
    BY <1>1, InterruptPipeAssumption DEF Call
  <2>5. QED
    BY <2>2, <2>3, <2>4
<1>2. CASE IoAccepted
  BY <1>2, InterruptPipeAssumption DEF IoAccepted
<1>3. CASE IoStalled
  BY <1>3, InterruptPipeAssumption DEF IoStalled
<1>4. CASE IoFailed
  BY <1>4, InterruptPipeAssumption DEF IoFailed
<1>5. CASE Sleep
  BY <1>5, InterruptPipeAssumption DEF Sleep
<1>6. CASE Deadline
  BY <1>6, InterruptPipeAssumption DEF Deadline
<1>7. CASE Abort
  BY <1>7, InterruptPipeAssumption DEF Abort
<1>8. CASE AbortReturns
  <2>1. pending = {} /\ dying = {} /\ handler = NoHandler
    BY <1>8 DEF AbortReturns
  <2>2. QED
    BY <1>8, <2>1, InterruptPipeAssumption DEF AbortReturns
<1>9. CASE Finish
  BY <1>9, InterruptPipeAssumption DEF Finish
<1>10. CASE BulkRead
  BY <1>10, InterruptPipeAssumption DEF BulkRead
<1>11. CASE BulkReadReturns
  BY <1>11, InterruptPipeAssumption DEF BulkReadReturns
<1>12. CASE Free
  BY <1>12, InterruptPipeAssumption DEF Free
<1>13. CASE Release
  BY <1>13, InterruptPipeAssumption DEF Release
<1>14. CASE Produce
  BY <1>14, InterruptPipeAssumption DEF Produce
<1>15. CASE CompleteWithData
  BY <1>15, InterruptPipeAssumption DEF CompleteWithData
<1>16. CASE CompleteEmpty
  BY <1>16, InterruptPipeAssumption DEF CompleteEmpty
<1>17. CASE CompleteAborted
  BY <1>17, InterruptPipeAssumption DEF CompleteAborted
<1>18. CASE HandlerFill
  BY <1>18, InterruptPipeAssumption DEF HandlerFill
<1>19. CASE HandlerWake
  BY <1>19, InterruptPipeAssumption DEF HandlerWake
<1>20. CASE UNCHANGED vars
  BY <1>20 DEF vars
<1>21. QED
  BY <1>1, <1>2, <1>3, <1>4, <1>5, <1>6, <1>7, <1>8, <1>9, <1>10, <1>11, <1>12, <1>13,
     <1>14, <1>15, <1>16, <1>17, <1>18, <1>19, <1>20
     DEF Next, Thread, Usb, Done

-----------------------------------------------------------------------------

\* The inductive invariant holds throughout, given a synchronous abort.
THEOREM Inductive == ASSUME AbortSynchronous PROVE Spec => []IInv
<1>1. Init => IInv
  BY InitIInv
<1>2. IInv /\ [Next]_vars => IInv'
  BY StepIInv
<1>3. QED
  BY <1>1, <1>2, PTL DEF Spec

\* interruptPipeRead's variables stay in range for any number of events and
\* calls; a successful call never returns an empty answer.
THEOREM TypeCorrect == ASSUME AbortSynchronous PROVE Spec => []TypeOK
<1>1. IInv => TypeOK
  BY DEF IInv
<1>2. QED
  BY <1>1, Inductive, PTL

\* interruptHandler only runs for the call in progress: its write through the
\* stack pointer and its wakeup are never misdirected.
THEOREM FrameSafety == ASSUME AbortSynchronous PROVE Spec => []FrameSafe
<1>1. IInv => FrameSafe
  BY DEF IInv, Owned, Phases, FrameSafe, Live, InCall
<1>2. QED
  BY <1>1, Inductive, PTL

\* mReadBuffer is never shared with an interrupt transfer during a bulk read
\* or after free().
THEOREM BufferSafety == ASSUME AbortSynchronous PROVE Spec => []BufferExclusive
<1>1. IInv => BufferExclusive
  BY DEF IInv, OneTransfer, Phases, BufferExclusive, Quiescent
<1>2. QED
  BY <1>1, Inductive, PTL

\* A woken call always finds its response written.
THEOREM AnswerWritten == ASSUME AbortSynchronous PROVE Spec => []AwakeHasAnswer
<1>1. IInv => AwakeHasAnswer
  BY DEF IInv, Carried, AwakeHasAnswer
<1>2. QED
  BY <1>1, Inductive, PTL

-----------------------------------------------------------------------------
(* interruptPipeRead implements EventPipe. *)

\* The first states of the code are first states of EventPipe.
LEMMA InitPromise == Init => EP!Init
  BY DEF Init, EP!Init, InFlight, Live, InCall, Failure, EP!Failure

\* Every step of the code is a step of EventPipe or changes none of its variables.
LEMMA StepPromise == IInv /\ IInv' /\ [Next]_vars => [EP!Next]_EP!pipeVars
<1> SUFFICES ASSUME IInv, IInv', [Next]_vars PROVE [EP!Next]_EP!pipeVars
  OBVIOUS
<1> USE DEF IInv, TypeOK, Owned, OneTransfer, Phases, Carried, Live, InCall,
        InFlight, Goto, Return, driverVars, usbVars, EP!pipeVars
<1>1. CASE Call
  <2>1. ~InFlight /\ ~InFlight'
    BY <1>1 DEF Call, Empty
  <2>2. EP!Call
    BY <1>1, <2>1 DEF Call, EP!Call
  <2>3. QED
    BY <2>2 DEF EP!Next
<1>2. CASE IoAccepted \/ IoStalled
  <2>1. InFlight' <=> InFlight
    BY <1>2 DEF IoAccepted, IoStalled
  <2>2. Live' = Live
    BY <1>2 DEF IoAccepted, IoStalled
  <2>3. QED
    BY <1>2, <2>1, <2>2 DEF IoAccepted, IoStalled
<1>3. CASE IoFailed
  <2>1. ~InFlight /\ ~InFlight'
    BY <1>3 DEF IoFailed, Empty
  <2>2. EP!ReturnError
    BY <1>3, <2>1 DEF IoFailed, EP!ReturnError, Failure, EP!Failure
  <2>3. QED
    BY <2>2 DEF EP!Next
<1>4. CASE Sleep \/ Deadline \/ Abort
  <2>1. InFlight' <=> InFlight
    BY <1>4 DEF Sleep, Deadline, Abort
  <2>2. Live' = Live
    BY <1>4 DEF Sleep, Deadline, Abort
  <2>3. QED
    BY <1>4, <2>1, <2>2 DEF Sleep, Deadline, Abort
<1>5. CASE AbortReturns
  <2>1. ~InFlight'
    BY <1>5 DEF AbortReturns
  <2>2. EP!ReturnTimeout
    BY <1>5, <2>1 DEF AbortReturns, EP!ReturnTimeout, Failure, EP!Failure
  <2>3. QED
    BY <2>2 DEF EP!Next
<1>6. CASE Finish /\ resp.event = 0
  <2>1. ~InFlight /\ ~InFlight'
    BY <1>6 DEF Finish
  <2>2. EP!ReturnError
    BY <1>6, <2>1 DEF Finish, EP!ReturnError, Failure, EP!Failure
  <2>3. QED
    BY <2>2 DEF EP!Next
<1>7. CASE Finish /\ resp.event # 0
  <2>1. InFlight /\ ~InFlight'
    BY <1>7 DEF Finish
  <2>2. buffer = taken
    BY <1>7 DEF Finish
  <2>3. EP!ReturnEvent
    BY <1>7, <2>1, <2>2 DEF Finish, EP!ReturnEvent, Success, EP!Success
  <2>4. QED
    BY <2>3 DEF EP!Next
<1>8. CASE BulkRead \/ BulkReadReturns \/ Free \/ Release
  <2>1. InFlight' <=> InFlight
    BY <1>8 DEF BulkRead, BulkReadReturns, Free, Release
  <2>2. Live' = Live
    BY <1>8 DEF BulkRead, BulkReadReturns, Free, Release
  <2>3. QED
    BY <1>8, <2>1, <2>2 DEF BulkRead, BulkReadReturns, Free, Release
<1>9. CASE Produce
  <2>1. EP!Produce
    BY <1>9 DEF Produce, EP!Produce
  <2>2. QED
    BY <2>1 DEF EP!Next
<1>10. CASE CompleteWithData
  <2>1. ~InFlight /\ InFlight'
    BY <1>10 DEF CompleteWithData, Complete, Empty, NoHandler
  <2>2. QED
    BY <1>10, <2>1 DEF CompleteWithData, Complete
<1>11. CASE CompleteEmpty \/ CompleteAborted
  <2>1. ~InFlight /\ ~InFlight'
    BY <1>11 DEF CompleteEmpty, CompleteAborted, Complete, Empty, NoHandler
  <2>2. QED
    BY <1>11, <2>1 DEF CompleteEmpty, CompleteAborted, Complete
<1>12. CASE HandlerFill
  <2>1. InFlight' <=> InFlight
    BY <1>12 DEF HandlerFill, Empty
  <2>2. QED
    BY <1>12, <2>1 DEF HandlerFill
<1>13. CASE HandlerWake
  <2>1. InFlight' <=> InFlight
    BY <1>13 DEF HandlerWake, NoHandler
  <2>2. QED
    BY <1>13, <2>1 DEF HandlerWake
<1>14. CASE UNCHANGED vars
  BY <1>14 DEF vars
<1>15. QED
  BY <1>1, <1>2, <1>3, <1>4, <1>5, <1>6, <1>7, <1>8, <1>9, <1>10, <1>11, <1>12,
     <1>13, <1>14 DEF Next, Thread, Usb, Done

\* Every behaviour of the code's call, handler and USB stack is a behaviour of
\* EventPipe: events are returned in order, none twice, and only a timeout
\* loses one.
THEOREM Promise == ASSUME AbortSynchronous PROVE Spec => KeepsPromise
<1>1. Init => EP!Init
  BY InitPromise
<1>2. IInv /\ IInv' /\ [Next]_vars => [EP!Next]_EP!pipeVars
  BY StepPromise
<1>3. QED
  BY <1>1, <1>2, Inductive, PTL DEF Spec, KeepsPromise, EP!Spec
=============================================================================
