------------------------------ MODULE EventPipe ------------------------------
(***************************************************************************)
(* What USBDeviceController::interruptPipeRead promises to its callers.    *)
(* The controller chip produces events, numbered in the order it produces  *)
(* them; a call either returns the oldest event not yet consumed, or it    *)
(* reports a failure.  A timeout may have consumed one event (the answer   *)
(* raced the deadline and is gone); an I/O error has consumed none.        *)
(* Nothing else consumes events, so no event is returned twice or out of   *)
(* order, and a caller that has only seen successes has missed nothing.    *)
(***************************************************************************)
EXTENDS Naturals

VARIABLES sent,      \* number of events the chip has produced
          consumed,  \* number of events taken off the pipe for good
          busy,      \* a call is in progress
          result     \* what the last finished call returned

pipeVars == <<sent, consumed, busy, result>>

Success(e) == [kind |-> "success", event |-> e]
Failure(k) == [kind |-> k, event |-> 0]

Init == /\ sent = 0
        /\ consumed = 0
        /\ busy = FALSE
        /\ result = Failure("none")

Produce == /\ sent' = sent + 1
           /\ UNCHANGED <<consumed, busy, result>>

Call == /\ ~busy
        /\ busy' = TRUE
        /\ UNCHANGED <<sent, consumed, result>>

ReturnEvent == /\ busy
               /\ consumed < sent
               /\ consumed' = consumed + 1
               /\ result' = Success(consumed + 1)
               /\ busy' = FALSE
               /\ UNCHANGED sent

ReturnTimeout == /\ busy
                 /\ consumed' \in {consumed, consumed + 1}
                 /\ consumed' <= sent
                 /\ result' = Failure("timeout")
                 /\ busy' = FALSE
                 /\ UNCHANGED sent

ReturnError == /\ busy
               /\ result' = Failure("error")
               /\ busy' = FALSE
               /\ UNCHANGED <<sent, consumed>>

Next == Produce \/ Call \/ ReturnEvent \/ ReturnTimeout \/ ReturnError

Spec == Init /\ [][Next]_pipeVars
=============================================================================
