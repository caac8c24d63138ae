---------------------------- MODULE DeviceManager ----------------------------
(***************************************************************************)
(* server/device_manager.rs: the table of attached devices and the table   *)
(* of sessions that one Mutex guards.  Every method runs with the Mutex    *)
(* held, so each is one action.  A method that returns Err changes no      *)
(* state; its Ok case is the action below.                                 *)
(*                                                                         *)
(* The specification of this module lets any caller call any method with   *)
(* any arguments: what it promises, it promises whatever the connections   *)
(* do.  Connection.tla composes it with the connections that call it.      *)
(***************************************************************************)
EXTENDS UsbBus

CONSTANTS NoDevice,
          MaxSessions,   \* bound: session ids handed out
          AllowRestart   \* may the server process be killed and restarted

ASSUME DmAssumption == /\ NoDevice \notin Devices
                       /\ MaxSessions \in Nat
                       /\ AllowRestart \in BOOLEAN

SessionIds == 1 .. MaxSessions

VARIABLES attachments,      \* HashMap<DeviceId, AttachmentInfo>
          sessionToDevice,  \* HashMap<u64, DeviceId>
          nextSessionId

dmVars == <<attachments, sessionToDevice, nextSessionId>>

\* An entry of the table.  handle names the open DeviceHandle by the session
\* id it was opened under (0: there is no entry for the device); epoch and
\* product are those of the device it was opened on; claimed is the Vec of
\* claimed interfaces as a set (release removes every copy of a number).
Attachment == [handle : Nat, epoch : Nat, product : Products \cup {NoProduct},
               drivers : SUBSET Interfaces, claimed : SUBSET Interfaces]

NoAttachment == [handle |-> 0, epoch |-> 0, product |-> NoProduct,
                 drivers |-> {}, claimed |-> {}]

DmTypeOK == /\ BusTypeOK
            /\ attachments \in [Devices -> Attachment]
            /\ sessionToDevice \in [SessionIds -> Devices \cup {NoDevice}]
            /\ nextSessionId \in 1 .. MaxSessions + 1

DmInit == /\ BusInit
          /\ attachments = [d \in Devices |-> NoAttachment]
          /\ sessionToDevice = [s \in SessionIds |-> NoDevice]
          /\ nextSessionId = 1

Attached(d) == attachments[d].handle # 0

\* libusb serves the handle only while the device it was opened on is there.
Live(d) == /\ Attached(d)
           /\ plugged[d] # NoProduct
           /\ attachments[d].epoch = epoch[d]

\* The body of attach: open the device, detach its kernel drivers, enter it in
\* both tables.  Any set of the bound drivers may get detached: a failure is
\* only logged.
Enter(d) == /\ plugged[d] # NoProduct
            /\ nextSessionId <= MaxSessions
            /\ \E detached \in SUBSET driver[d] :
                 /\ driver' = [driver EXCEPT ![d] = @ \ detached]
                 /\ attachments' = [attachments EXCEPT ![d] =
                       [handle |-> nextSessionId, epoch |-> epoch[d],
                        product |-> plugged[d], drivers |-> detached,
                        claimed |-> {}]]
            /\ sessionToDevice' = [sessionToDevice EXCEPT ![nextSessionId] = d]
            /\ UNCHANGED <<plugged, epoch, claims>>

\* Mutants of attach: the device may be attached already; it may be if its
\* handle no longer works; the id is not used up; two ids are.
attach_anyway(d) == Enter(d) /\ nextSessionId' = nextSessionId + 1
attach_if_dead(d) == ~Live(d) /\ Enter(d) /\ nextSessionId' = nextSessionId + 1
attach_same_id(d) == ~Attached(d) /\ Enter(d) /\ UNCHANGED nextSessionId
attach_two_ids(d) == ~Attached(d) /\ Enter(d) /\ nextSessionId' = nextSessionId + 2

attach(d) == /\ ~Attached(d)
             /\ Enter(d)
             /\ nextSessionId' = nextSessionId + 1

\* detach's work on the table and the bus, for each device of a set: release
\* the recorded claims, then rebind the recorded drivers.  The kernel refuses
\* to bind a driver to an interface that is still claimed, and a handle whose
\* device is gone does nothing.
Unclaimed(d) == claims[d] \ attachments[d].claimed

Freed(D) == {d \in D : Live(d)}

\* Mutants of TearDown: the drivers are rebound before the claims are released;
\* the claims are not released; only a device that still answers is removed.
TearDown_drivers_first(D) ==
  /\ claims' = [d \in Devices |-> IF d \in Freed(D) THEN Unclaimed(d) ELSE claims[d]]
  /\ driver' = [d \in Devices |-> IF d \in Freed(D)
                   THEN driver[d] \cup (attachments[d].drivers \ claims[d])
                   ELSE driver[d]]
  /\ attachments' = [d \in Devices |-> IF d \in D THEN NoAttachment ELSE attachments[d]]
  /\ UNCHANGED <<plugged, epoch>>
TearDown_no_release(D) ==
  /\ attachments' = [d \in Devices |-> IF d \in D THEN NoAttachment ELSE attachments[d]]
  /\ UNCHANGED busVars
TearDown_live_only(D) ==
  /\ claims' = [d \in Devices |-> IF d \in Freed(D) THEN Unclaimed(d) ELSE claims[d]]
  /\ driver' = [d \in Devices |-> IF d \in Freed(D)
                   THEN driver[d] \cup attachments[d].drivers ELSE driver[d]]
  /\ attachments' = [d \in Devices |-> IF d \in Freed(D) THEN NoAttachment
                                                          ELSE attachments[d]]
  /\ UNCHANGED <<plugged, epoch>>

TearDown(D) ==
  /\ claims' = [d \in Devices |-> IF d \in Freed(D) THEN Unclaimed(d) ELSE claims[d]]
  /\ driver' = [d \in Devices |-> IF d \in Freed(D)
                   THEN driver[d] \cup (attachments[d].drivers \ Unclaimed(d))
                   ELSE driver[d]]
  /\ attachments' = [d \in Devices |-> IF d \in D THEN NoAttachment ELSE attachments[d]]
  /\ UNCHANGED <<plugged, epoch>>

\* Mutant of detach: it gives the session id back.
detach_id_back(d, s) == /\ Attached(d)
                        /\ TearDown({d})
                        /\ sessionToDevice' = [sessionToDevice EXCEPT ![s] = NoDevice]
                        /\ nextSessionId' = s

\* detach looks up the device alone: that s is a session for d is not checked.
detach(d, s) == /\ Attached(d)
                /\ TearDown({d})
                /\ sessionToDevice' = [sessionToDevice EXCEPT ![s] = NoDevice]
                /\ UNCHANGED nextSessionId

\* Mutant of detach_all_for_sessions: it detaches every device there is.
detach_all_devices(S) ==
  /\ TearDown({d \in Devices : Attached(d)})
  /\ sessionToDevice' = [s \in SessionIds |-> IF s \in S THEN NoDevice
                                                         ELSE sessionToDevice[s]]
  /\ UNCHANGED nextSessionId

\* For each session of S in turn: detach the device it is for.  When two of
\* them are for one device the first one met in the HashMap's order wins, and
\* the other one's entry stays.
detach_all_for_sessions(S) ==
  LET targets == {d \in Devices : Attached(d) /\ \E s \in S : sessionToDevice[s] = d}
  IN \E first \in [targets -> S] :
       /\ \A d \in targets : sessionToDevice[first[d]] = d
       /\ TearDown(targets)
       /\ sessionToDevice' = [s \in SessionIds |->
             IF \E d \in targets : first[d] = s THEN NoDevice ELSE sessionToDevice[s]]
       /\ UNCHANGED nextSessionId

\* libusb refuses an interface whose kernel driver is bound.
claim_interface(d, i) ==
  /\ Live(d)
  /\ i \notin driver[d]
  /\ claims' = [claims EXCEPT ![d] = @ \cup {i}]
  /\ attachments' = [attachments EXCEPT ![d].claimed = @ \cup {i}]
  /\ UNCHANGED <<plugged, epoch, driver, sessionToDevice, nextSessionId>>

\* Mutant of release_interface: the interface stays on record.
release_keeps_record(d, i) ==
  /\ Live(d)
  /\ i \in claims[d]
  /\ claims' = [claims EXCEPT ![d] = @ \ {i}]
  /\ UNCHANGED <<plugged, epoch, driver, attachments, sessionToDevice, nextSessionId>>

release_interface(d, i) ==
  /\ Live(d)
  /\ i \in claims[d]
  /\ claims' = [claims EXCEPT ![d] = @ \ {i}]
  /\ attachments' = [attachments EXCEPT ![d].claimed = @ \ {i}]
  /\ UNCHANGED <<plugged, epoch, driver, sessionToDevice, nextSessionId>>

\* The kernel changes the configuration only while no interface is bound or
\* claimed; it then probes again and may bind any of its drivers.
set_configuration(d) ==
  /\ Live(d)
  /\ claims[d] = {} /\ driver[d] = {}
  /\ \E bound \in SUBSET NativeDrivers : driver' = [driver EXCEPT ![d] = bound]
  /\ UNCHANGED <<plugged, epoch, claims, attachments, sessionToDevice, nextSessionId>>

validate_session(s, d) == sessionToDevice[s] = d

\* The replug test of get_handle: it fails only if a device of another
\* identity is at the address; an empty address passes.
get_handle(d) == /\ Attached(d)
                 /\ plugged[d] \in {NoProduct, attachments[d].product}

\* The process dies and is started again: the tables are empty, the kernel has
\* closed the handles, and no one rebinds the drivers they had detached.
Restart == /\ AllowRestart
           /\ attachments' = [d \in Devices |-> NoAttachment]
           /\ sessionToDevice' = [s \in SessionIds |-> NoDevice]
           /\ nextSessionId' = 1
           /\ claims' = [d \in Devices |-> {}]
           /\ UNCHANGED <<plugged, epoch, driver>>

DmNext == \/ BusNext /\ UNCHANGED dmVars
          \/ \E d \in Devices : attach(d) \/ set_configuration(d)
          \/ \E d \in Devices, s \in SessionIds : detach(d, s)
          \/ \E S \in SUBSET SessionIds : S # {} /\ detach_all_for_sessions(S)
          \/ \E d \in Devices, i \in Interfaces : claim_interface(d, i)
          \/ \E d \in Devices, i \in Interfaces : release_interface(d, i)
          \/ Restart

DmSpec == DmInit /\ [][DmNext]_<<busVars, dmVars>>
-----------------------------------------------------------------------------
\* An attachment's device is the one at its address, or one that left before:
\* the part of the inductive invariant that replugs need.
EpochsSound ==
  \A d \in Devices : Attached(d) =>
     /\ attachments[d].epoch <= epoch[d]
     /\ attachments[d].epoch = epoch[d] => plugged[d] # NoProduct

\* Every kernel driver missing from a plugged-in device is one that a live
\* attachment detached and has on record, so that detach gives it back: no
\* sequence of claims, releases, reconfigurations, replugs and detaches loses
\* one (attach 214-232, detach 262-274).
DriversAccounted ==
  \A d \in Devices : plugged[d] # NoProduct =>
     NativeDrivers \ driver[d] \subseteq (IF Live(d) THEN attachments[d].drivers ELSE {})

\* The claims the kernel holds are those the attachment has on record, and no
\* interface is claimed and driven at once: what detach releases is all there
\* is, so that binding the drivers again cannot be refused (262-274, 294-318).
ClaimsRecorded ==
  \A d \in Devices : /\ claims[d] = IF Live(d) THEN attachments[d].claimed ELSE {}
                     /\ claims[d] \cap driver[d] = {}

\* No two devices are attached under one session id, and no id at or beyond
\* the counter is in the table: an id that was given out is not given out
\* again, whatever is detached in between (next_session_id, 236-239).
SessionIdsUnique ==
  /\ \A d, e \in Devices :
       Attached(d) /\ attachments[d].handle = attachments[e].handle => d = e
  /\ \A d \in Devices : attachments[d].handle < nextSessionId
  /\ \A s \in SessionIds : s >= nextSessionId => sessionToDevice[s] = NoDevice
=============================================================================
