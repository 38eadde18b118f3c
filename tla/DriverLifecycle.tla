--------------------------- MODULE DriverLifecycle ---------------------------
(***************************************************************************)
(* The life of an IntelBluetoothFirmware object: probe, start and stop,    *)
(* the USB objects that start acquires one after the other, and the clean- *)
(* up that has to give them back in the opposite order, however far start  *)
(* got.  The driver does its work inside start() and holds nothing         *)
(* afterwards, so that the system's own Bluetooth driver can have the      *)
(* device.                                                                 *)
(*                                                                         *)
(* Beside IOKit's thread there is another client, which opens and closes   *)
(* the device and its interface whenever they are free, and the user, who  *)
(* unplugs the device.  The firmware set-up is one step here, which ends   *)
(* one way or the other (BootloaderSetup, Gen1Patching).                   *)
(***************************************************************************)
EXTENDS Naturals, Sequences

CONSTANTS
  Interfaces,  \* the endpoints the interface may have, sequences of kinds
  MaxStarts    \* bound on the number of times the driver is matched

Pipes == {"interruptIn", "bulkOut", "bulkIn"}
Kinds == Pipes \cup {"other"}

ASSUME DriverLifecycleAssumption ==
  /\ Interfaces \subseteq Seq(Kinds)
  /\ MaxStarts \in Nat

Clients  == {"none", "us", "other"}
Products == {"gen1", "gen2", "gen3"}

VARIABLES
  (* the device *)
  endpoints,   \* of its interface
  product,     \* kind of product
  present,     \* it is on the bus
  device,      \* the client that has it open
  interface,   \* the client that has its interface open
  published,   \* its FirmwareLoaded property
  (* the driver *)
  pc,          \* control point of start() and stop()
  currentType, \* as found by probe()
  joined,      \* the driver is in the power-management tree
  ops,         \* class of m_pBTIntel
  lock,        \* _hciLock is allocated
  buffer,      \* mReadBuffer is allocated and prepared
  ep,          \* number of the next endpoint findPipes looks at
  pipe,        \* the endpoint of each pipe pointer, or 0
  retained,    \* endpoints of which a pipe is retained
  succeeded,   \* what start() is going to return
  rejected,    \* super::start failed
  starts       \* number of starts

deviceVars == <<endpoints, product, present, device, interface, published>>
heldVars   == <<lock, buffer, ep, pipe, retained>>
vars == <<deviceVars, pc, currentType, joined, ops, heldVars, succeeded, rejected,
          starts>>

Points == {"idle", "probed", "superStart", "openDevice", "initDevice", "configure",
           "findInterface", "findPipes", "setup", "publish", "cleanUp", "freePipes",
           "freeBuffer", "closeInterface", "closeDevice", "leave", "running"}

NoPipes == [k \in Pipes |-> 0]

Init == /\ endpoints \in Interfaces
        /\ product \in Products
        /\ present = TRUE
        /\ device = "none"
        /\ interface = "none"
        /\ published = FALSE
        /\ pc = "idle"
        /\ currentType = "gen1"
        /\ joined = FALSE
        /\ ops = "none"
        /\ lock = FALSE
        /\ buffer = FALSE
        /\ ep = 1
        /\ pipe = NoPipes
        /\ retained = {}
        /\ succeeded = FALSE
        /\ rejected = FALSE
        /\ starts = 0

-----------------------------------------------------------------------------
(* start() *)

\* IOKit matches the device; a driver object that failed to start is gone.
Probe == /\ pc = "idle"
         /\ present
         /\ starts < MaxStarts
         /\ starts' = starts + 1
         /\ currentType' = product
         /\ joined' = FALSE
         /\ rejected' = FALSE
         /\ succeeded' = FALSE
         /\ pc' = "probed"
         /\ UNCHANGED <<deviceVars, ops, heldVars>>

JoinPowerTree == /\ pc = "probed"
                 /\ joined' = TRUE
                 /\ pc' = "superStart"
                 /\ UNCHANGED <<deviceVars, currentType, ops, heldVars, succeeded,
                                rejected, starts>>

\* If it fails, start returns at once, without PMstop.
SuperStart == /\ pc = "superStart"
              /\ \/ pc' = "openDevice" /\ UNCHANGED rejected
                 \/ pc' = "idle" /\ rejected' = TRUE
              /\ UNCHANGED <<deviceVars, currentType, joined, ops, heldVars,
                             succeeded, starts>>

\* A step of start that may fail and acquires nothing then.
Tries(from, to) == /\ pc = from
                   /\ pc' \in {to, "cleanUp"}

Opens(client) == client = "none" /\ present

OpenDevice == /\ Tries("openDevice", "initDevice")
              /\ pc' = "initDevice" => Opens(device)
              /\ device' = IF pc' = "initDevice" THEN "us" ELSE device
              /\ UNCHANGED <<endpoints, product, present, interface, published,
                             currentType, joined, ops, heldVars, succeeded, rejected,
                             starts>>

\* MUTANT of OpsFor: each type has operations of its own.
OpsForEach(type) == CASE type = "gen1" -> "Gen1" [] type = "gen2" -> "Gen2"
                      [] type = "gen3" -> "Gen3"

\* The Gen 2 flow is part of the Gen 3 operations.
OpsFor(type) == IF type = "gen1" THEN "Gen1" ELSE "Gen3"

\* The operations are made and with them the USB controller, its lock first and
\* then its buffer.
InitDevice == /\ Tries("initDevice", "configure")
              /\ ops' = OpsFor(currentType)
              /\ lock' \in BOOLEAN
              /\ buffer' = (pc' = "configure")
              /\ pc' = "configure" => lock'
              /\ UNCHANGED <<deviceVars, currentType, joined, ep, pipe, retained,
                             succeeded, rejected, starts>>

\* initConfiguration; its check of the number of configurations compares a
\* number with itself and never fails.
Configure == /\ Tries("configure", "findInterface")
             /\ pc' = "findInterface" => present
             /\ UNCHANGED <<deviceVars, currentType, joined, ops, heldVars, succeeded,
                            rejected, starts>>

\* findInterface: the interface may not be there, or be another client's.
FindInterface == /\ Tries("findInterface", "findPipes")
                 /\ pc' = "findPipes" => Opens(interface)
                 /\ interface' = IF pc' = "findPipes" THEN "us" ELSE interface
                 /\ ep' = 1
                 /\ UNCHANGED <<endpoints, product, present, device, published,
                                currentType, joined, ops, lock, buffer, pipe, retained,
                                succeeded, rejected, starts>>

\* findPipes may find the interface without descriptors.
NoDescriptors == /\ pc = "findPipes"
                 /\ ep = 1
                 /\ pc' = "cleanUp"
                 /\ UNCHANGED <<deviceVars, currentType, joined, ops, heldVars,
                                succeeded, rejected, starts>>

\* findPipes, one endpoint: a second one of a kind takes the place of the first,
\* whose pipe stays retained.
FindPipe == /\ ep <= Len(endpoints)
            /\ Tries("findPipes", "findPipes")
            /\ LET kind == endpoints[ep] IN
               \/ /\ pc' = "findPipes"
                  /\ ep' = ep + 1
                  /\ IF kind \in Pipes
                     THEN /\ pipe' = [pipe EXCEPT ![kind] = ep]
                          /\ retained' = retained \cup {ep}
                     ELSE UNCHANGED <<pipe, retained>>
               \/ /\ pc' = "cleanUp"
                  /\ kind \in Pipes
                  /\ pipe' = [pipe EXCEPT ![kind] = 0]
                  /\ UNCHANGED <<ep, retained>>
            /\ UNCHANGED <<deviceVars, currentType, joined, ops, lock, buffer,
                           succeeded, rejected, starts>>

PipesFound == /\ pc = "findPipes"
              /\ ep > Len(endpoints)
              /\ pc' = IF \E k \in Pipes : pipe[k] = 0 THEN "cleanUp" ELSE "setup"
              /\ UNCHANGED <<deviceVars, currentType, joined, ops, heldVars, succeeded,
                             rejected, starts>>

Setup == /\ Tries("setup", "publish")
         /\ UNCHANGED <<deviceVars, currentType, joined, ops, heldVars, succeeded,
                        rejected, starts>>

PublishReg == /\ pc = "publish"
              /\ published' = TRUE
              /\ succeeded' = TRUE
              /\ pc' = "cleanUp"
              /\ UNCHANGED <<endpoints, product, present, device, interface,
                             currentType, joined, ops, heldVars, rejected, starts>>

-----------------------------------------------------------------------------
(* cleanUp(), which releases m_pBTIntel and with it the USB controller *)

CleanUp == /\ pc = "cleanUp"
           /\ pc' = IF ops = "none" THEN "closeDevice" ELSE "freePipes"
           /\ UNCHANGED <<deviceVars, currentType, joined, ops, heldVars, succeeded,
                          rejected, starts>>

\* The order in which the pipes are aborted and released.
Order == <<"bulkOut", "bulkIn", "interruptIn">>

FreePipe == /\ pc = "freePipes"
            /\ \E n \in 1 .. 3 :
                 /\ pipe[Order[n]] # 0
                 /\ \A m \in 1 .. n - 1 : pipe[Order[m]] = 0
                 /\ retained' = retained \ {pipe[Order[n]]}
                 /\ pipe' = [pipe EXCEPT ![Order[n]] = 0]
            /\ UNCHANGED <<deviceVars, pc, currentType, joined, ops, lock, buffer, ep,
                           succeeded, rejected, starts>>

\* MUTANT of PipesFreed: the buffer goes before the interrupt pipe.
PipesFreedEarly == /\ pc = "freePipes"
                   /\ pipe["bulkOut"] = 0 /\ pipe["bulkIn"] = 0
                   /\ pc' = "freeBuffer"
                   /\ UNCHANGED <<deviceVars, currentType, joined, ops, heldVars,
                                  succeeded, rejected, starts>>

PipesFreed == /\ pc = "freePipes"
              /\ pipe = NoPipes
              /\ pc' = "freeBuffer"
              /\ UNCHANGED <<deviceVars, currentType, joined, ops, heldVars, succeeded,
                             rejected, starts>>

FreeBuffer == /\ pc = "freeBuffer"
              /\ buffer' = FALSE
              /\ lock' = FALSE
              /\ pc' = "closeInterface"
              /\ UNCHANGED <<deviceVars, currentType, joined, ops, ep, pipe, retained,
                             succeeded, rejected, starts>>

\* MUTANT of CloseInterface: only the pointer is forgotten.
ForgetInterface == /\ pc = "closeInterface"
                   /\ ops' = "none"
                   /\ pc' = "closeDevice"
                   /\ UNCHANGED <<deviceVars, currentType, joined, heldVars, succeeded,
                                  rejected, starts>>

CloseInterface == /\ pc = "closeInterface"
                  /\ interface' = IF interface = "us" THEN "none" ELSE interface
                  /\ ops' = "none"
                  /\ pc' = "closeDevice"
                  /\ UNCHANGED <<endpoints, product, present, device, published,
                                 currentType, joined, heldVars, succeeded, rejected,
                                 starts>>

\* MUTANT of CloseDevice: the device is kept open after success.
KeepDevice == /\ pc = "closeDevice"
              /\ device' = IF device = "us" /\ ~succeeded THEN "none" ELSE device
              /\ pc' = "leave"
              /\ UNCHANGED <<endpoints, product, present, interface, published,
                             currentType, joined, ops, heldVars, succeeded, rejected,
                             starts>>

CloseDevice == /\ pc = "closeDevice"
               /\ device' = IF device = "us" THEN "none" ELSE device
               /\ pc' = "leave"
               /\ UNCHANGED <<endpoints, product, present, interface, published,
                              currentType, joined, ops, heldVars, succeeded, rejected,
                              starts>>

\* After a failure start calls stop() itself.
Leave == /\ pc = "leave"
         /\ IF succeeded THEN pc' = "running" /\ UNCHANGED joined
                         ELSE pc' = "idle" /\ joined' = FALSE
         /\ UNCHANGED <<deviceVars, currentType, ops, heldVars, succeeded, rejected,
                        starts>>

\* IOKit stops a driver whose device has gone, or on unloading it.
Stop == /\ pc = "running"
        /\ joined' = FALSE
        /\ pc' = "idle"
        /\ UNCHANGED <<deviceVars, currentType, ops, heldVars, succeeded, rejected,
                       starts>>

-----------------------------------------------------------------------------
(* The other client, and the user *)

Toggle(client) == CASE client = "none"  -> IF present THEN "other" ELSE "none"
                    [] client = "other" -> "none"
                    [] client = "us"    -> "us"

OtherClient == /\ \/ device' = Toggle(device) /\ UNCHANGED interface
                  \/ interface' = Toggle(interface) /\ UNCHANGED device
               /\ UNCHANGED <<endpoints, product, present, published, pc, currentType,
                              joined, ops, heldVars, succeeded, rejected, starts>>

Unplug == /\ present
          /\ present' = FALSE
          /\ UNCHANGED <<endpoints, product, device, interface, published, pc,
                         currentType, joined, ops, heldVars, succeeded, rejected,
                         starts>>

\* A device that comes back is a new one to IOKit.
Replug == /\ ~present
          /\ pc = "idle" /\ device = "none" /\ interface = "none"
          /\ present' = TRUE
          /\ published' = FALSE
          /\ UNCHANGED <<endpoints, product, device, interface, pc, currentType,
                         joined, ops, heldVars, succeeded, rejected, starts>>

-----------------------------------------------------------------------------

Start == \/ JoinPowerTree \/ SuperStart \/ OpenDevice \/ InitDevice \/ Configure
         \/ FindInterface \/ NoDescriptors \/ FindPipe \/ PipesFound \/ Setup \/ PublishReg
         \/ CleanUp \/ FreePipe \/ PipesFreed \/ FreeBuffer \/ CloseInterface
         \/ CloseDevice \/ Leave

Next == Probe \/ Start \/ Stop \/ OtherClient \/ Unplug \/ Replug

\* start() runs on to its end; nobody has to plug, open or match anything.
Spec == Init /\ [][Next]_vars /\ WF_vars(Start)

-----------------------------------------------------------------------------
(* Properties *)

\* Every variable stays in its range; a pipe pointer is to an endpoint of its
\* kind.
TypeOK == /\ endpoints \in Interfaces
          /\ product \in Products
          /\ present \in BOOLEAN
          /\ device \in Clients
          /\ interface \in Clients
          /\ published \in BOOLEAN
          /\ pc \in Points
          /\ currentType \in Products
          /\ joined \in BOOLEAN
          /\ ops \in {"none", "Gen1", "Gen3"}
          /\ lock \in BOOLEAN
          /\ buffer \in BOOLEAN
          /\ ep \in 1 .. Len(endpoints) + 1
          /\ pipe \in [Pipes -> 0 .. Len(endpoints)]
          /\ \A k \in Pipes : pipe[k] # 0 => endpoints[pipe[k]] = k
          /\ retained \subseteq DOMAIN endpoints
          /\ succeeded \in BOOLEAN
          /\ rejected \in BOOLEAN
          /\ starts \in 0 .. MaxStarts

\* What a part rests on is there as long as the part is, on the way up and on
\* the way down: a pipe needs the interface and the buffer its transfers fill,
\* the interface the device and the client object that opened it.
HeldInOrder == /\ \A k \in Pipes : pipe[k] # 0 => interface = "us" /\ buffer /\ lock
               /\ interface = "us" => device = "us" /\ ops # "none"
               /\ buffer \/ lock => device = "us" /\ ops # "none"

\* Once start has returned, with whatever result and after whichever failure,
\* the driver holds nothing: the device and the interface are free for others,
\* and every pipe is released unless two endpoints are of one kind.  A driver
\* that is gone has left the power tree, unless super::start had failed.
OneOfAKind(list) == \A i, j \in DOMAIN list : list[i] = list[j] /\ list[i] \in Pipes => i = j
NothingHeld ==
  /\ pc \in {"idle", "running"} =>
       /\ device # "us" /\ interface # "us"
       /\ ops = "none" /\ ~lock /\ ~buffer
       /\ OneOfAKind(endpoints) => retained = {}
  /\ pc = "idle" /\ joined => rejected

\* The device never stays with the driver, not even if it is unplugged during
\* the set-up: other clients get their chance.
DeviceGivenBack == device = "us" ~> device # "us"
=============================================================================
