------------------------ MODULE DriverLifecycleProofs ------------------------
(***************************************************************************)
(* Proofs about DriverLifecycle, for every list of endpoints and any       *)
(* number of starts.                                                       *)
(*                                                                         *)
(* The argument: each control point of start() and of the clean-up implies *)
(* what has been acquired and not given back yet, and the clean-up may     *)
(* begin at any stage because each thing held implies those it rests on.   *)
(***************************************************************************)
EXTENDS DriverLifecycle, TLAPS

\* Control points at which nothing is held, and those after each acquisition.
Free       == {"idle", "probed", "superStart", "openDevice", "leave", "running"}
WithDevice == {"initDevice", "configure", "findInterface", "findPipes", "setup",
               "publish"}
WithOps    == WithDevice \ {"initDevice"}
WithInterface == WithOps \ {"configure", "findInterface"}

\* What is held on the way up.
Acquired == /\ pc \in WithDevice => device = "us"
            /\ pc \in WithOps => ops # "none" /\ lock /\ buffer
            /\ pc \in WithInterface => interface = "us"
            /\ pc = "findPipes" => \A k \in Pipes : pipe[k] < ep

\* What is not yet held, or no longer.
Absent == /\ pc \in Free => device # "us"
          /\ pc \in Free \cup {"initDevice", "closeDevice"} =>
               ops = "none" /\ ~lock /\ ~buffer
          /\ pc \in Free \cup {"initDevice", "configure", "findInterface", "closeDevice"} =>
               interface # "us"
          /\ pc \notin WithInterface \cup {"cleanUp", "freePipes"} => pipe = NoPipes
          /\ pc = "closeInterface" => ~lock /\ ~buffer

\* Each thing held implies those it rests on.
Rests == /\ \A k \in Pipes : pipe[k] # 0 => interface = "us" /\ buffer
         /\ buffer => lock
         /\ lock => ops # "none"
         /\ interface = "us" => ops # "none"
         /\ ops # "none" => device = "us"

\* A pipe is retained only through a pointer to it.
Pointed == OneOfAKind(endpoints) => \A n \in retained : \E k \in Pipes : pipe[k] = n

\* A driver that is gone has left the power tree.
PowerTree == pc = "idle" /\ joined => rejected

IInv == TypeOK /\ Acquired /\ Absent /\ Rests /\ Pointed /\ PowerTree

\* The endpoints of the interface are numbered from 1.
LEMMA EndpointsSeq == TypeOK => /\ endpoints \in Seq(Kinds)
                                /\ Len(endpoints) \in Nat
                                /\ DOMAIN endpoints = 1 .. Len(endpoints)
  BY DriverLifecycleAssumption DEF TypeOK

-----------------------------------------------------------------------------
(* One step and one part of the invariant at a time *)

\* Every step keeps the variables in range.
LEMMA StepTypeOK == TypeOK /\ [Next]_vars => TypeOK'
<1> SUFFICES ASSUME TypeOK, [Next]_vars PROVE TypeOK'
  OBVIOUS
<1> USE DEF TypeOK, Points, Clients, Products, deviceVars, heldVars
<1>1. CASE Probe
  <2>1. joined' \in BOOLEAN /\ rejected' \in BOOLEAN /\ succeeded' \in BOOLEAN
    BY <1>1, Zenon DEF Probe
  <2>2. QED
    BY <1>1, <2>1, DriverLifecycleAssumption DEF Probe
<1>2. CASE JoinPowerTree
  BY <1>2 DEF JoinPowerTree
<1>3. CASE SuperStart
  <2>1. rejected' \in BOOLEAN
    BY <1>3, Zenon DEF SuperStart
  <2>2. QED
    BY <1>3, <2>1 DEF SuperStart
<1>4. CASE OpenDevice
  BY <1>4 DEF OpenDevice, Tries, Opens
<1>5. CASE InitDevice
  BY <1>5 DEF InitDevice, Tries, OpsFor
<1>6. CASE Configure
  BY <1>6 DEF Configure, Tries
<1>7. CASE FindInterface
  BY <1>7, EndpointsSeq DEF FindInterface, Tries, Opens
<1>8. CASE NoDescriptors
  BY <1>8 DEF NoDescriptors
<1>9. CASE FindPipe
  BY <1>9, EndpointsSeq DEF FindPipe, Tries, Pipes, Kinds
<1>10. CASE PipesFound
  BY <1>10 DEF PipesFound
<1>11. CASE Setup
  BY <1>11 DEF Setup, Tries
<1>12. CASE PublishReg
  BY <1>12 DEF PublishReg
<1>13. CASE CleanUp
  BY <1>13 DEF CleanUp
<1>14. CASE FreePipe
  BY <1>14, EndpointsSeq DEF FreePipe, Pipes, Order
<1>15. CASE PipesFreed
  BY <1>15 DEF PipesFreed
<1>16. CASE FreeBuffer
  <2>1. lock' \in BOOLEAN /\ buffer' \in BOOLEAN
    BY <1>16, Zenon DEF FreeBuffer
  <2>2. QED
    BY <1>16, <2>1 DEF FreeBuffer
<1>17. CASE CloseInterface
  BY <1>17 DEF CloseInterface
<1>18. CASE CloseDevice
  BY <1>18 DEF CloseDevice
<1>19. CASE Leave
  <2>1. joined' \in BOOLEAN
    BY <1>19, Zenon DEF Leave
  <2>2. QED
    BY <1>19, <2>1 DEF Leave
<1>20. CASE Stop
  <2>1. joined' \in BOOLEAN
    BY <1>20, Zenon DEF Stop
  <2>2. QED
    BY <1>20, <2>1 DEF Stop
<1>21. CASE OtherClient
  BY <1>21 DEF OtherClient, Toggle
<1>22. CASE Unplug
  <2>1. present' \in BOOLEAN
    BY <1>22, Zenon DEF Unplug
  <2>2. QED
    BY <1>22, <2>1 DEF Unplug
<1>23. CASE Replug
  <2>1. present' \in BOOLEAN /\ published' \in BOOLEAN
    BY <1>23, Zenon DEF Replug
  <2>2. QED
    BY <1>23, <2>1 DEF Replug
<1>24. CASE UNCHANGED vars
  BY <1>24 DEF vars
<1>25. QED
  BY <1>1, <1>2, <1>3, <1>4, <1>5, <1>6, <1>7, <1>8, <1>9, <1>10, <1>11, <1>12, <1>13,
     <1>14, <1>15, <1>16, <1>17, <1>18, <1>19, <1>20, <1>21, <1>22, <1>23, <1>24
     DEF Next, Start

\* A control point on the way up is reached only with what it presupposes.
LEMMA StepAcquired == TypeOK /\ Acquired /\ Absent /\ Rests /\ [Next]_vars => Acquired'
<1> SUFFICES ASSUME TypeOK, Acquired, Absent, Rests, [Next]_vars PROVE Acquired'
  OBVIOUS
<1> USE DEF Acquired, deviceVars, heldVars, Free, WithDevice, WithOps, WithInterface
<1>1. CASE Probe
  BY <1>1 DEF Probe
<1>2. CASE JoinPowerTree
  BY <1>2 DEF JoinPowerTree
<1>3. CASE SuperStart
  BY <1>3 DEF SuperStart
<1>4. CASE OpenDevice
  BY <1>4 DEF OpenDevice, Tries
<1>5. CASE InitDevice
  BY <1>5 DEF InitDevice, Tries, OpsFor
<1>6. CASE Configure
  BY <1>6 DEF Configure, Tries
<1>7. CASE FindInterface
  BY <1>7 DEF FindInterface, Tries, Absent, NoPipes
<1>8. CASE NoDescriptors
  BY <1>8 DEF NoDescriptors
<1>9. CASE FindPipe
  BY <1>9, EndpointsSeq DEF FindPipe, Tries, TypeOK
<1>10. CASE PipesFound
  BY <1>10 DEF PipesFound
<1>11. CASE Setup
  BY <1>11 DEF Setup, Tries
<1>12. CASE PublishReg
  BY <1>12 DEF PublishReg
<1>13. CASE CleanUp
  BY <1>13 DEF CleanUp
<1>14. CASE FreePipe
  BY <1>14 DEF FreePipe
<1>15. CASE PipesFreed
  BY <1>15 DEF PipesFreed
<1>16. CASE FreeBuffer
  BY <1>16 DEF FreeBuffer
<1>17. CASE CloseInterface
  BY <1>17 DEF CloseInterface
<1>18. CASE CloseDevice
  BY <1>18 DEF CloseDevice
<1>19. CASE Leave
  BY <1>19 DEF Leave
<1>20. CASE Stop
  BY <1>20 DEF Stop
<1>21. CASE OtherClient
  BY <1>21 DEF OtherClient, Toggle
<1>22. CASE Unplug
  BY <1>22 DEF Unplug
<1>23. CASE Replug
  BY <1>23 DEF Replug
<1>24. CASE UNCHANGED vars
  BY <1>24 DEF vars
<1>25. QED
  BY <1>1, <1>2, <1>3, <1>4, <1>5, <1>6, <1>7, <1>8, <1>9, <1>10, <1>11, <1>12, <1>13,
     <1>14, <1>15, <1>16, <1>17, <1>18, <1>19, <1>20, <1>21, <1>22, <1>23, <1>24
     DEF Next, Start

\* What was given back, or never acquired, is not there.
LEMMA StepAbsent == TypeOK /\ Acquired /\ Absent /\ Rests /\ [Next]_vars => Absent'
<1> SUFFICES ASSUME TypeOK, Acquired, Absent, Rests, [Next]_vars PROVE Absent'
  OBVIOUS
<1> USE DEF Absent, deviceVars, heldVars, Free, WithDevice, WithOps, WithInterface
<1>1. CASE Probe
  BY <1>1 DEF Probe
<1>2. CASE JoinPowerTree
  BY <1>2 DEF JoinPowerTree
<1>3. CASE SuperStart
  BY <1>3 DEF SuperStart
<1>4. CASE OpenDevice
  BY <1>4 DEF OpenDevice, Tries
<1>5. CASE InitDevice
  BY <1>5 DEF InitDevice, Tries
<1>6. CASE Configure
  BY <1>6 DEF Configure, Tries
<1>7. CASE FindInterface
  BY <1>7 DEF FindInterface, Tries
<1>8. CASE NoDescriptors
  BY <1>8 DEF NoDescriptors
<1>9. CASE FindPipe
  BY <1>9 DEF FindPipe, Tries, NoPipes
<1>10. CASE PipesFound
  BY <1>10 DEF PipesFound
<1>11. CASE Setup
  BY <1>11 DEF Setup, Tries
<1>12. CASE PublishReg
  BY <1>12 DEF PublishReg
<1>13. CASE CleanUp
  BY <1>13 DEF CleanUp, Rests, NoPipes, TypeOK
<1>14. CASE FreePipe
  BY <1>14 DEF FreePipe
<1>15. CASE PipesFreed
  BY <1>15 DEF PipesFreed
<1>16. CASE FreeBuffer
  BY <1>16 DEF FreeBuffer
<1>17. CASE CloseInterface
  BY <1>17 DEF CloseInterface, Acquired
<1>18. CASE CloseDevice
  BY <1>18 DEF CloseDevice
<1>19. CASE Leave
  BY <1>19 DEF Leave
<1>20. CASE Stop
  BY <1>20 DEF Stop
<1>21. CASE OtherClient
  BY <1>21 DEF OtherClient, Toggle, TypeOK, Clients
<1>22. CASE Unplug
  BY <1>22 DEF Unplug
<1>23. CASE Replug
  BY <1>23 DEF Replug
<1>24. CASE UNCHANGED vars
  BY <1>24 DEF vars
<1>25. QED
  BY <1>1, <1>2, <1>3, <1>4, <1>5, <1>6, <1>7, <1>8, <1>9, <1>10, <1>11, <1>12, <1>13,
     <1>14, <1>15, <1>16, <1>17, <1>18, <1>19, <1>20, <1>21, <1>22, <1>23, <1>24
     DEF Next, Start

\* Nothing is given back while something rests on it.
LEMMA StepRests == TypeOK /\ Acquired /\ Absent /\ Rests /\ [Next]_vars => Rests'
<1> SUFFICES ASSUME TypeOK, Acquired, Absent, Rests, [Next]_vars PROVE Rests'
  OBVIOUS
<1> USE DEF Rests, deviceVars, heldVars
<1>1. CASE Probe
  BY <1>1 DEF Probe
<1>2. CASE JoinPowerTree
  BY <1>2 DEF JoinPowerTree
<1>3. CASE SuperStart
  BY <1>3 DEF SuperStart
<1>4. CASE OpenDevice
  BY <1>4 DEF OpenDevice, Tries
<1>5. CASE InitDevice
  <2>1. device' = "us" /\ ops' # "none"
    BY <1>5 DEF InitDevice, Tries, Acquired, WithDevice, OpsFor
  <2>2. buffer' => lock'
    BY <1>5, Zenon DEF InitDevice
  <2>3. interface' # "us" /\ pipe' = NoPipes
    BY <1>5 DEF InitDevice, Tries, Absent, WithInterface, WithOps, WithDevice
  <2>4. QED
    BY <2>1, <2>2, <2>3 DEF NoPipes
<1>6. CASE Configure
  BY <1>6 DEF Configure, Tries
<1>7. CASE FindInterface
  BY <1>7 DEF FindInterface, Tries, Acquired, Free, WithDevice, WithOps, WithInterface
<1>8. CASE NoDescriptors
  BY <1>8 DEF NoDescriptors
<1>9. CASE FindPipe
  BY <1>9 DEF FindPipe, Tries, Acquired, TypeOK, Free, WithDevice, WithOps, WithInterface
<1>10. CASE PipesFound
  BY <1>10 DEF PipesFound
<1>11. CASE Setup
  BY <1>11 DEF Setup, Tries
<1>12. CASE PublishReg
  BY <1>12 DEF PublishReg
<1>13. CASE CleanUp
  BY <1>13 DEF CleanUp
<1>14. CASE FreePipe
  BY <1>14 DEF FreePipe, TypeOK, Order, Pipes
<1>15. CASE PipesFreed
  BY <1>15 DEF PipesFreed
<1>16. CASE FreeBuffer
  BY <1>16 DEF FreeBuffer, Absent, NoPipes, Free, WithDevice, WithOps, WithInterface
<1>17. CASE CloseInterface
  BY <1>17 DEF CloseInterface, Absent, NoPipes, Free, WithDevice, WithOps, WithInterface
<1>18. CASE CloseDevice
  BY <1>18 DEF CloseDevice, Absent, Free, WithDevice, WithOps, WithInterface
<1>19. CASE Leave
  BY <1>19 DEF Leave
<1>20. CASE Stop
  BY <1>20 DEF Stop
<1>21. CASE OtherClient
  BY <1>21 DEF OtherClient, Toggle, TypeOK, Clients
<1>22. CASE Unplug
  BY <1>22 DEF Unplug
<1>23. CASE Replug
  BY <1>23 DEF Replug
<1>24. CASE UNCHANGED vars
  BY <1>24 DEF vars
<1>25. QED
  BY <1>1, <1>2, <1>3, <1>4, <1>5, <1>6, <1>7, <1>8, <1>9, <1>10, <1>11, <1>12, <1>13,
     <1>14, <1>15, <1>16, <1>17, <1>18, <1>19, <1>20, <1>21, <1>22, <1>23, <1>24
     DEF Next, Start

\* With one endpoint of each kind no pointer to a retained pipe is overwritten.
LEMMA StepPointed == TypeOK /\ Acquired /\ Pointed /\ [Next]_vars => Pointed'
<1> SUFFICES ASSUME TypeOK, Acquired, Pointed, [Next]_vars PROVE Pointed'
  OBVIOUS
<1> USE DEF Pointed, deviceVars, heldVars
<1>1. CASE Probe
  BY <1>1 DEF Probe
<1>2. CASE JoinPowerTree
  BY <1>2 DEF JoinPowerTree
<1>3. CASE SuperStart
  BY <1>3 DEF SuperStart
<1>4. CASE OpenDevice
  BY <1>4 DEF OpenDevice, Tries
<1>5. CASE InitDevice
  BY <1>5 DEF InitDevice, Tries
<1>6. CASE Configure
  BY <1>6 DEF Configure, Tries
<1>7. CASE FindInterface
  BY <1>7 DEF FindInterface, Tries
<1>8. CASE NoDescriptors
  BY <1>8 DEF NoDescriptors
<1>9. CASE FindPipe
  BY <1>9, EndpointsSeq DEF FindPipe, Tries, TypeOK, Acquired, OneOfAKind, Pipes
<1>10. CASE PipesFound
  BY <1>10 DEF PipesFound
<1>11. CASE Setup
  BY <1>11 DEF Setup, Tries
<1>12. CASE PublishReg
  BY <1>12 DEF PublishReg
<1>13. CASE CleanUp
  BY <1>13 DEF CleanUp
<1>14. CASE FreePipe
  BY <1>14 DEF FreePipe, TypeOK, Order, Pipes
<1>15. CASE PipesFreed
  BY <1>15 DEF PipesFreed
<1>16. CASE FreeBuffer
  BY <1>16 DEF FreeBuffer
<1>17. CASE CloseInterface
  BY <1>17 DEF CloseInterface
<1>18. CASE CloseDevice
  BY <1>18 DEF CloseDevice
<1>19. CASE Leave
  BY <1>19 DEF Leave
<1>20. CASE Stop
  BY <1>20 DEF Stop
<1>21. CASE OtherClient
  BY <1>21 DEF OtherClient, Toggle
<1>22. CASE Unplug
  BY <1>22 DEF Unplug
<1>23. CASE Replug
  BY <1>23 DEF Replug
<1>24. CASE UNCHANGED vars
  BY <1>24 DEF vars
<1>25. QED
  BY <1>1, <1>2, <1>3, <1>4, <1>5, <1>6, <1>7, <1>8, <1>9, <1>10, <1>11, <1>12, <1>13,
     <1>14, <1>15, <1>16, <1>17, <1>18, <1>19, <1>20, <1>21, <1>22, <1>23, <1>24
     DEF Next, Start

\* Only a driver whose superclass did not start stays in the power tree.
LEMMA StepPowerTree == TypeOK /\ PowerTree /\ [Next]_vars => PowerTree'
<1> SUFFICES ASSUME TypeOK, PowerTree, [Next]_vars PROVE PowerTree'
  OBVIOUS
<1> USE DEF PowerTree, deviceVars, heldVars
<1>1. CASE Probe
  BY <1>1 DEF Probe
<1>2. CASE JoinPowerTree
  BY <1>2 DEF JoinPowerTree
<1>3. CASE SuperStart
  BY <1>3 DEF SuperStart
<1>4. CASE OpenDevice
  BY <1>4 DEF OpenDevice, Tries
<1>5. CASE InitDevice
  BY <1>5 DEF InitDevice, Tries
<1>6. CASE Configure
  BY <1>6 DEF Configure, Tries
<1>7. CASE FindInterface
  BY <1>7 DEF FindInterface, Tries
<1>8. CASE NoDescriptors
  BY <1>8 DEF NoDescriptors
<1>9. CASE FindPipe
  BY <1>9 DEF FindPipe, Tries
<1>10. CASE PipesFound
  BY <1>10 DEF PipesFound
<1>11. CASE Setup
  BY <1>11 DEF Setup, Tries
<1>12. CASE PublishReg
  BY <1>12 DEF PublishReg
<1>13. CASE CleanUp
  BY <1>13 DEF CleanUp
<1>14. CASE FreePipe
  BY <1>14 DEF FreePipe
<1>15. CASE PipesFreed
  BY <1>15 DEF PipesFreed
<1>16. CASE FreeBuffer
  BY <1>16 DEF FreeBuffer
<1>17. CASE CloseInterface
  BY <1>17 DEF CloseInterface
<1>18. CASE CloseDevice
  BY <1>18 DEF CloseDevice
<1>19. CASE Leave
  BY <1>19 DEF Leave
<1>20. CASE Stop
  BY <1>20 DEF Stop
<1>21. CASE OtherClient
  BY <1>21 DEF OtherClient, Toggle
<1>22. CASE Unplug
  BY <1>22 DEF Unplug
<1>23. CASE Replug
  BY <1>23 DEF Replug
<1>24. CASE UNCHANGED vars
  BY <1>24 DEF vars
<1>25. QED
  BY <1>1, <1>2, <1>3, <1>4, <1>5, <1>6, <1>7, <1>8, <1>9, <1>10, <1>11, <1>12, <1>13,
     <1>14, <1>15, <1>16, <1>17, <1>18, <1>19, <1>20, <1>21, <1>22, <1>23, <1>24
     DEF Next, Start


-----------------------------------------------------------------------------
(* The invariant and its consequences *)

\* The invariant holds at first.
LEMMA InitIInv == Init => IInv
<1> SUFFICES ASSUME Init PROVE IInv
  OBVIOUS
<1>1. endpoints \in Seq(Kinds) /\ Len(endpoints) \in Nat
  BY DriverLifecycleAssumption DEF Init
<1>2. TypeOK
  <2>1. pipe \in [Pipes -> 0 .. Len(endpoints)] /\ \A k \in Pipes : pipe[k] = 0
    BY <1>1 DEF Init, NoPipes
  <2>2. present \in BOOLEAN /\ published \in BOOLEAN /\ joined \in BOOLEAN /\ lock \in BOOLEAN
        /\ buffer \in BOOLEAN /\ succeeded \in BOOLEAN /\ rejected \in BOOLEAN
    BY Zenon DEF Init
  <2>3. ep \in 1 .. Len(endpoints) + 1 /\ starts \in 0 .. MaxStarts
    BY <1>1, DriverLifecycleAssumption DEF Init
  <2>4. QED
    BY <1>1, <2>1, <2>2, <2>3 DEF Init, TypeOK, Clients, Products, Points
<1>3. Acquired /\ Absent /\ Rests /\ Pointed /\ PowerTree
  BY DEF Init, Acquired, Absent, Rests, Pointed, PowerTree, Free, WithDevice, WithOps,
         WithInterface, NoPipes
<1>4. QED
  BY <1>2, <1>3 DEF IInv

\* Every step keeps it.
LEMMA StepIInv == IInv /\ [Next]_vars => IInv'
  BY StepTypeOK, StepAcquired, StepAbsent, StepRests, StepPointed, StepPowerTree DEF IInv

\* The invariant holds throughout.
THEOREM Inductive == Spec => []IInv
  BY InitIInv, StepIInv, PTL DEF Spec

\* The variables of the driver stay in range, and a pipe pointer is to an
\* endpoint of its kind, for every list of endpoints.
THEOREM TypeCorrect == Spec => []TypeOK
<1>1. IInv => TypeOK
  BY DEF IInv
<1>2. QED
  BY <1>1, Inductive, PTL

\* start() acquires and cleanUp() gives back in opposite orders, wherever start
\* fails and whatever the other clients and the user do meanwhile.
THEOREM Ordered == Spec => []HeldInOrder
<1>1. IInv => HeldInOrder
  BY DEF IInv, Rests, HeldInOrder
<1>2. QED
  BY <1>1, Inductive, PTL

\* When start() has returned, the driver holds neither the device nor anything
\* it got through it.
THEOREM ReleasesAll == Spec => []NothingHeld
<1>1. IInv => NothingHeld
  <2> SUFFICES ASSUME IInv PROVE NothingHeld
    OBVIOUS
  <2>1. ASSUME pc \in {"idle", "running"}
        PROVE  /\ device # "us" /\ interface # "us"
               /\ ops = "none" /\ ~lock /\ ~buffer
               /\ OneOfAKind(endpoints) => retained = {}
    <3>1. device # "us" /\ interface # "us" /\ ops = "none" /\ ~lock /\ ~buffer /\ pipe = NoPipes
      BY <2>1 DEF IInv, Absent, Free, WithDevice, WithOps, WithInterface
    <3>2. \A n \in retained : n # 0
      BY EndpointsSeq DEF IInv, TypeOK
    <3>3. OneOfAKind(endpoints) => retained = {}
      BY <3>1, <3>2 DEF IInv, Pointed, NoPipes
    <3>4. QED
      BY <3>1, <3>3
  <2>2. pc = "idle" /\ joined => rejected
    BY DEF IInv, PowerTree
  <2>3. QED
    BY <2>1, <2>2 DEF NothingHeld
<1>2. QED
  BY <1>1, Inductive, PTL
=============================================================================
