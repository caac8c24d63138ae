------------------------------- MODULE UsbBus -------------------------------
(***************************************************************************)
(* What the server observes of the USB bus through libusb: which product   *)
(* answers at a bus:address, which interfaces have their kernel driver     *)
(* bound, and which interfaces user space has claimed.  The kernel and     *)
(* libusb are outside the repository; this module keeps only what          *)
(* device_manager.rs relies on when it calls them.                         *)
(***************************************************************************)
EXTENDS Naturals

CONSTANTS Devices,        \* bus:address pairs (DeviceId)
          Interfaces,     \* interface numbers of the active configuration
          NativeDrivers,  \* the interfaces the kernel has a driver for
          Products,       \* vendor:product identities
          NoProduct,      \* nothing is plugged in at that address
          MaxReplugs      \* bound: unplugs per address

ASSUME BusAssumption == /\ NativeDrivers \subseteq Interfaces
                        /\ NoProduct \notin Products
                        /\ MaxReplugs \in Nat

VARIABLES plugged,  \* plugged[d]: the product now at address d
          epoch,    \* epoch[d]: how many devices have come and gone at d
          driver,   \* driver[d]: the interfaces whose kernel driver is bound
          claims    \* claims[d]: the interfaces user space has claimed

busVars == <<plugged, epoch, driver, claims>>

BusTypeOK == /\ plugged \in [Devices -> Products \cup {NoProduct}]
             /\ epoch \in [Devices -> Nat]
             /\ driver \in [Devices -> SUBSET Interfaces]
             /\ claims \in [Devices -> SUBSET Interfaces]

BusInit == /\ plugged \in [Devices -> Products]
           /\ epoch = [d \in Devices |-> 0]
           /\ driver = [d \in Devices |-> NativeDrivers]
           /\ claims = [d \in Devices |-> {}]

\* The device leaves; an open handle to it is of no use from then on.
Unplug(d) == /\ plugged[d] # NoProduct
             /\ epoch[d] < MaxReplugs
             /\ plugged' = [plugged EXCEPT ![d] = NoProduct]
             /\ epoch' = [epoch EXCEPT ![d] = @ + 1]
             /\ driver' = [driver EXCEPT ![d] = {}]
             /\ claims' = [claims EXCEPT ![d] = {}]

\* A device, the same product or another, gets the address back; the kernel
\* binds its drivers.
Plug(d, p) == /\ plugged[d] = NoProduct
              /\ plugged' = [plugged EXCEPT ![d] = p]
              /\ driver' = [driver EXCEPT ![d] = NativeDrivers]
              /\ UNCHANGED <<epoch, claims>>

BusNext == \E d \in Devices : Unplug(d) \/ \E p \in Products : Plug(d, p)
=============================================================================
