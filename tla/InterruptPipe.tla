---------------------------- MODULE InterruptPipe ----------------------------
(***************************************************************************)
(* USBDeviceController: reads of the interrupt-in pipe.                    *)
(*                                                                         *)
(* Three actors run concurrently.  The driver thread executes start() and, *)
(* inside it, one interruptPipeRead call after another, plus bulk reads    *)
(* into the same mReadBuffer and, at the end, free().  The USB stack       *)
(* completes the outstanding transfer and runs interruptHandler on its own *)
(* thread.  The chip produces events.                                      *)
(*                                                                         *)
(* The driver thread submits the transfer BEFORE it takes _hciLock and     *)
(* sleeps, and interruptHandler calls IOLockWakeup WITHOUT taking the      *)
(* lock, so every interleaving of the two below is one the code allows.    *)
(* _hciLock is only ever taken by the driver thread: it holds it exactly   *)
(* in the states "awake" and is never contended, so it has no variable.    *)
(*                                                                         *)
(* A call's stack frame is named by the call's number.  The completion     *)
(* passed to io() points into that frame (&interrupResp), which is dead    *)
(* once the call has returned.                                             *)
(***************************************************************************)
EXTENDS Naturals

CONSTANTS
  MaxEvents,        \* bound on the events the chip produces
  MaxReads,         \* bound on the number of interruptPipeRead calls
  AbortSynchronous  \* IOUSBHostPipe::abort() returns only when no completion
                    \* of the pipe is running or due (the USB stack's default)

ASSUME InterruptPipeAssumption ==
  /\ MaxEvents \in Nat
  /\ MaxReads \in Nat
  /\ AbortSynchronous \in BOOLEAN

VARIABLES
  pc,       \* control point of the driver thread
  frame,    \* number of the latest interruptPipeRead call
  resp,     \* interrupResp of that call: written yet, and the event it announces
  pending,  \* frames named by the completions of outstanding transfers
  dying,    \* frames whose aborted transfer has not run its completion yet
  handler,  \* the running interruptHandler, if any
  buffer,   \* the event mReadBuffer holds, 0 if none
  halted,   \* the endpoint is halted: io() answers kIOUSBPipeStalled
  sent,     \* events the chip has produced
  taken,    \* events the chip has handed to a transfer
  result,   \* what the last finished call returned
  woken     \* history: the wakeup of the current call came before it slept

driverVars == <<pc, frame, result>>
usbVars    == <<pending, dying, halted>>
vars == <<pc, frame, resp, pending, dying, handler, buffer, halted,
          sent, taken, result, woken>>

\* Control points of a call of interruptPipeRead, and of its callers.
InCall == {"submit", "resubmit", "lock", "asleep", "awake", "abort", "aborting"}
Points == InCall \cup {"caller", "bulk", "freeing", "freed"}

Frames   == 1 .. MaxReads
Statuses == {"success", "stalled", "notResponding", "aborted"}

NoHandler == [at |-> "idle", frame |-> 0, event |-> 0, status |-> "success"]
Empty     == [filled |-> FALSE, event |-> 0]

Success(e) == [kind |-> "success", event |-> e]
Failure(k) == [kind |-> k, event |-> 0]

Live == pc \in InCall

Return(r) == /\ pc' = "caller"
             /\ result' = r
             /\ UNCHANGED frame

Goto(l) == /\ pc' = l
           /\ UNCHANGED <<frame, result>>

\* Every transfer has finished and every completion has run.
Quiescent == /\ pending = {}
             /\ dying = {}
             /\ handler = NoHandler

-----------------------------------------------------------------------------
(* The driver thread *)

Init == /\ pc = "caller"
        /\ frame = 0
        /\ resp = Empty
        /\ pending = {}
        /\ dying = {}
        /\ handler = NoHandler
        /\ buffer = 0
        /\ halted = FALSE
        /\ sent = 0
        /\ taken = 0
        /\ result = Failure("none")
        /\ woken = FALSE

\* Entry of interruptPipeRead: a new frame, its interrupResp zeroed.
Call == /\ pc = "caller"
        /\ frame < MaxReads
        /\ pc' = "submit"
        /\ frame' = frame + 1
        /\ resp' = Empty
        /\ woken' = FALSE
        /\ UNCHANGED <<usbVars, handler, buffer, sent, taken, result>>

\* io() accepts the transfer; its completion names the current frame.
IoAccepted == /\ pc \in {"submit", "resubmit"}
              /\ ~halted
              /\ pending' = pending \cup {frame}
              /\ Goto("lock")
              /\ UNCHANGED <<resp, dying, handler, buffer, halted, sent, taken, woken>>

\* The first io() finds the endpoint halted: clear it and submit again.
IoStalled == /\ pc = "submit"
             /\ halted
             /\ halted' = FALSE
             /\ Goto("resubmit")
             /\ UNCHANGED <<resp, pending, dying, handler, buffer, sent, taken, woken>>

\* io() fails otherwise, or a second time: the call reports it and returns.
IoFailed == /\ pc \in {"submit", "resubmit"}
            /\ Return(Failure("error"))
            /\ UNCHANGED <<resp, usbVars, handler, buffer, sent, taken, woken>>

\* IOLockLock, then IOLockSleepDeadline, which drops the lock.
Sleep == /\ pc = "lock"
         /\ Goto("asleep")
         /\ UNCHANGED <<resp, usbVars, handler, buffer, sent, taken, woken>>

\* MUTANT of Deadline: the call gives up without abort().
GiveUpWithoutAbort == /\ pc = "asleep"
                      /\ Return(Failure("timeout"))
                      /\ UNCHANGED <<resp, usbVars, handler, buffer, sent, taken, woken>>

\* MUTANT of Deadline: IOLockSleep instead of IOLockSleepDeadline.
SleepForever == FALSE

\* The sleep ends without a wakeup: the deadline, or an interruption.
Deadline == /\ pc = "asleep"
            /\ Goto("abort")
            /\ UNCHANGED <<resp, usbVars, handler, buffer, sent, taken, woken>>

Abort == /\ pc = "abort"
         /\ dying' = dying \cup pending
         /\ pending' = {}
         /\ Goto("aborting")
         /\ UNCHANGED <<resp, handler, buffer, halted, sent, taken, woken>>

\* MUTANT of AbortReturns: abort(kAsynchronous).
AbortReturnsEarly == /\ pc = "aborting"
                     /\ Return(Failure("timeout"))
                     /\ UNCHANGED <<resp, usbVars, handler, buffer, sent, taken, woken>>

AbortReturns == /\ pc = "aborting"
                /\ AbortSynchronous => Quiescent
                /\ Return(Failure("timeout"))
                /\ UNCHANGED <<resp, usbVars, handler, buffer, sent, taken, woken>>

\* MUTANT of Finish: the check of dataLen is dropped.
FinishUnchecked == /\ pc = "awake"
                   /\ Return(Success(buffer))
                   /\ UNCHANGED <<resp, usbVars, handler, buffer, sent, taken, woken>>

\* Woken with the lock held: an empty response is an error, otherwise the
\* bytes are copied out of mReadBuffer.  The stored status is not looked at.
Finish == /\ pc = "awake"
          /\ IF resp.event = 0 THEN Return(Failure("error"))
                               ELSE Return(Success(buffer))
          /\ UNCHANGED <<resp, usbVars, handler, buffer, sent, taken, woken>>

\* bulkPipeRead: a blocking transfer into the same mReadBuffer.
BulkRead == /\ pc = "caller"
            /\ Goto("bulk")
            /\ buffer' = 0
            /\ UNCHANGED <<resp, usbVars, handler, sent, taken, woken>>

BulkReadReturns == /\ pc = "bulk"
                   /\ Goto("caller")
                   /\ UNCHANGED <<resp, usbVars, handler, buffer, sent, taken, woken>>

\* free(): abort the pipes, then release mReadBuffer and _hciLock.
Free == /\ pc = "caller"
        /\ dying' = dying \cup pending
        /\ pending' = {}
        /\ Goto("freeing")
        /\ UNCHANGED <<resp, handler, buffer, halted, sent, taken, woken>>

Release == /\ pc = "freeing"
           /\ AbortSynchronous => Quiescent
           /\ Goto("freed")
           /\ buffer' = 0
           /\ UNCHANGED <<resp, usbVars, handler, sent, taken, woken>>

-----------------------------------------------------------------------------
(* The chip and the USB stack *)

Produce == /\ sent < MaxEvents
           /\ sent' = sent + 1
           /\ UNCHANGED <<driverVars, resp, usbVars, handler, buffer, taken, woken>>

Complete(f, e, s) ==
  /\ handler = NoHandler
  /\ handler' = [at |-> "fill", frame |-> f, event |-> e, status |-> s]
  /\ UNCHANGED <<driverVars, resp, sent, woken>>

\* The outstanding transfer takes the oldest event of the chip.  The status
\* may be an error all the same (the transfer broke off after some bytes).
CompleteWithData == \E f \in pending, s \in Statuses \ {"aborted"} :
  /\ taken < sent
  /\ ~halted
  /\ Complete(f, taken + 1, s)
  /\ taken' = taken + 1
  /\ buffer' = taken + 1
  /\ pending' = pending \ {f}
  /\ halted' = (s = "stalled")
  /\ UNCHANGED dying

\* It ends with no data: a zero-length packet or an error.
CompleteEmpty == \E f \in pending, s \in Statuses \ {"aborted"} :
  /\ Complete(f, 0, s)
  /\ pending' = pending \ {f}
  /\ halted' = (halted \/ s = "stalled")
  /\ UNCHANGED <<dying, buffer, taken>>

CompleteAborted == \E f \in dying :
  /\ Complete(f, 0, "aborted")
  /\ dying' = dying \ {f}
  /\ UNCHANGED <<pending, buffer, halted, taken>>

\* MUTANT of HandlerFill: IOLockWakeup comes before the stores.
WakeBeforeFill ==
  /\ handler.at = "fill"
  /\ pc' = IF pc = "asleep" THEN "awake" ELSE pc
  /\ handler' = [handler EXCEPT !.at = "wake"]
  /\ UNCHANGED <<frame, result, resp, usbVars, buffer, sent, taken, woken>>

\* interruptHandler, first half: clear a dead endpoint, then write through
\* the parameter.  A write for any frame but the live one hits dead stack.
HandlerFill ==
  /\ handler.at = "fill"
  /\ halted' = (halted /\ handler.status # "notResponding")
  /\ resp' = IF Live /\ handler.frame = frame
             THEN [filled |-> TRUE, event |-> handler.event]
             ELSE resp
  /\ handler' = [handler EXCEPT !.at = "wake"]
  /\ UNCHANGED <<driverVars, pending, dying, buffer, sent, taken, woken>>

\* interruptHandler, second half: IOLockWakeup.  It wakes a thread that is
\* asleep NOW; a thread that has yet to go to sleep never hears of it.
HandlerWake ==
  /\ handler.at = "wake"
  /\ handler' = NoHandler
  /\ pc' = IF pc = "asleep" THEN "awake" ELSE pc
  /\ woken' = (woken \/ pc = "lock")
  /\ UNCHANGED <<frame, result, resp, usbVars, buffer, sent, taken>>

-----------------------------------------------------------------------------

Thread == \/ Call \/ IoAccepted \/ IoStalled \/ IoFailed \/ Sleep \/ Deadline
          \/ Abort \/ AbortReturns \/ Finish
          \/ BulkRead \/ BulkReadReturns \/ Free \/ Release

Usb == \/ Produce \/ CompleteWithData \/ CompleteEmpty \/ CompleteAborted
       \/ HandlerFill \/ HandlerWake

\* The driver frees the controller at the end and is done.
Done == pc = "freed" /\ Quiescent /\ UNCHANGED vars

Next == Thread \/ Usb \/ Done

\* The thread is scheduled, the deadline timer fires, a started completion
\* runs and an abort is carried out.  Nothing obliges the chip to answer.
Fairness == /\ WF_vars(IoAccepted \/ IoStalled \/ IoFailed)
            /\ WF_vars(Sleep)
            /\ WF_vars(Deadline)
            /\ WF_vars(Abort)
            /\ WF_vars(AbortReturns)
            /\ WF_vars(Finish)
            /\ WF_vars(CompleteAborted)
            /\ WF_vars(HandlerFill)
            /\ WF_vars(HandlerWake)

Spec == Init /\ [][Next]_vars /\ Fairness

-----------------------------------------------------------------------------
(* Properties *)

Results == [kind : {"success"}, event : 1 .. MaxEvents]
             \cup [kind : {"none", "timeout", "error"}, event : {0}]

\* Every variable stays in its range; in particular a successful call never
\* returns an empty answer.
TypeOK == /\ pc \in Points
          /\ frame \in 0 .. MaxReads
          /\ resp \in [filled : BOOLEAN, event : 0 .. MaxEvents]
          /\ pending \subseteq Frames
          /\ dying \subseteq Frames
          /\ handler \in [at : {"idle", "fill", "wake"}, frame : 0 .. MaxReads,
                          event : 0 .. MaxEvents, status : Statuses]
          /\ buffer \in 0 .. MaxEvents
          /\ halted \in BOOLEAN
          /\ sent \in 0 .. MaxEvents
          /\ taken \in 0 .. sent
          /\ result \in Results
          /\ woken \in BOOLEAN

\* interruptHandler writes through its parameter and wakes whoever sleeps:
\* when it runs, the call that submitted the transfer is still in progress.
\* It never writes into a dead stack frame and never wakes a later call.
FrameSafe == handler.at # "idle" => Live /\ handler.frame = frame

\* mReadBuffer is shared: while bulkPipeRead fills it, and once free() has
\* released it, no interrupt transfer is outstanding or being completed.
BufferExclusive == pc \in {"bulk", "freed"} => Quiescent

\* A woken call finds interrupResp written by its own completion.
AwakeHasAnswer == pc = "awake" => resp.filled

\* interruptPipeRead keeps the promise of EventPipe: events are returned in
\* order, none twice, and only a timeout loses one.  An event in the hands of
\* the running call is not consumed yet.
InFlight == Live /\ \/ resp.event # 0
                    \/ handler.at = "fill" /\ handler.event # 0

EP == INSTANCE EventPipe WITH
        consumed <- IF InFlight THEN taken - 1 ELSE taken,
        busy     <- Live

KeepsPromise == EP!Spec

\* Every call returns, whatever the chip does.
ReadReturns == Live ~> ~Live

\* What the callers of interruptPipeRead take a timeout for (BtIntel.cpp,
\* "should not take longer than 1 second.  However if that happens, ..."): a
\* call that gives up has not been answered before it went to sleep.
TimeoutMeansLate == pc = "abort" => ~(woken /\ resp.event # 0)
=============================================================================
